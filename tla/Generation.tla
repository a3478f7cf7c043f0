----------------------------- MODULE Generation -----------------------------
(***************************************************************************)
(* One inference: what worker_thread_func does between taking a job and    *)
(* storing its state, and the answer the server makes of it.  It covers    *)
(* inference_chat, inference_complete (inference.c), the accumulating      *)
(* callback (worker.c) and the blocking reply of drain_stream_ring.        *)
(*                                                                         *)
(* The worker runs alone here; the event loop and the signal handler reach *)
(* it through cancel and g_shutdown_requested, and time through expired.   *)
(* llama.cpp is external: a tokenizer that returns any count, a decoder    *)
(* that may fail at any call, a sampler that returns any token.            *)
(***************************************************************************)
EXTENDS Integers, Sequences

CONSTANTS
    NCtx,          \* n_ctx: tokens the KV cache holds
    Batches,       \* values of n_batch, which config_validate does not check
    CfgMaxTokens,  \* max_tokens of the configuration
    ReqMaxTokens,  \* values of max_tokens in a request, -1 when omitted
    TimeoutEvery,  \* 32: iterations between two looks at the clock
    Window,        \* PROF_STOP_LEN (64): capacity of the rolling window
    Pieces,        \* token texts, sequences of characters
    StopSets,      \* sets of stop sequences, each shorter than Window
    TokenBytes,    \* 16: bytes of response reserved per token
    MinResponse,   \* 8192: smallest response buffer
    ContentMax,    \* PROF_CONTENT_MAX (65536): largest response buffer
    BackMax        \* bound: how far n_processed falls if n_batch is negative

ASSUME ContextAssumption ==
    /\ NCtx \in Nat \ {0} /\ CfgMaxTokens \in 1..NCtx
    /\ Batches \subseteq Int /\ ReqMaxTokens \subseteq Int /\ BackMax \in Nat
ASSUME TimeoutAssumption == TimeoutEvery \in Nat \ {0}
ASSUME TextAssumption ==
    /\ Window \in Nat \ {0} /\ Pieces \subseteq Seq(Nat)
    /\ \A stop \in StopSets : \A s \in stop : s \in Seq(Nat) /\ Len(s) < Window
ASSUME ResponseAssumption ==
    /\ TokenBytes \in Nat /\ MinResponse \in Nat \ {0}
    /\ ContentMax \in Nat /\ MinResponse <= ContentMax

VARIABLES
    chat, stream, stops, max_tokens, n_batch, fallback,  \* the job and engine
    pc, rc, finish_reason, heap,
    n_prompt, n_processed, max_gen, i, n_generated, kv,
    piece, window, response, response_cap,
    cancel, shutdown, expired,
    text, accepted, overrun, late,                       \* history
    state, status

request == <<chat, stream, stops, max_tokens, n_batch, fallback>>
counts  == <<n_prompt, n_processed, max_gen, i, n_generated, kv>>
output  == <<piece, window, response, response_cap>>
flags   == <<cancel, shutdown, expired>>
history == <<text, accepted, overrun, late>>
answer  == <<state, status>>
vars == <<request, pc, rc, finish_reason, heap, counts, output,
          flags, history, answer>>

-----------------------------------------------------------------------------
(* Parameters and buffers                                                  *)

clamp_i(v, lo, hi) == IF v < lo THEN lo ELSE IF v > hi THEN hi ELSE v

(* inference_resolve_params: -1 stands for an omitted max_tokens.          *)
resolve_max_tokens(req) ==
    IF req = -1 THEN CfgMaxTokens ELSE clamp_i(req, 1, NCtx)

InitialCap == clamp_i(max_tokens * TokenBytes, MinResponse, ContentMax)

(* Mutant: the prompt's share of the context is forgotten.                 *)
MutantCapTokens(n) == max_tokens

(* max_gen for a prompt of n tokens.                                       *)
CapTokens(n) == IF n + max_tokens > NCtx THEN NCtx - n ELSE max_tokens

(* The size accum_token_cb grows the response buffer to for len more bytes.*)
NewCap(len) ==
    LET needed  == Len(response) + len + 1
        doubled == response_cap * 2
    IN  clamp_i(IF doubled < needed THEN needed ELSE doubled, 0, ContentMax)

LastN(s, n) == SubSeq(s, Len(s) - n + 1, Len(s))

EndsWith(s, t) == Len(t) <= Len(s) /\ LastN(s, Len(t)) = t

(* Mutant: a piece that does not fit replaces the window.                  *)
MutantSlide(w, p) ==
    IF Len(w) + Len(p) > Window
    THEN LastN(p, clamp_i(Len(p), 0, Window))
    ELSE w \o p

(* The rolling window after piece p: the tail of a piece that is too long, *)
(* otherwise the old contents shifted left to make room for p.             *)
Slide(w, p) ==
    IF Len(p) > Window
    THEN LastN(p, Window)
    ELSE LET shift == clamp_i(Len(w) + Len(p) - Window, 0, Len(w))
         IN  LastN(w, Len(w) - shift) \o p

(* Some non-empty stop sequence is a suffix of the window.                 *)
StopHit(w) == \E s \in stops : Len(s) > 0 /\ EndsWith(w, s)

-----------------------------------------------------------------------------
Init ==
    /\ chat \in BOOLEAN /\ stream \in BOOLEAN /\ fallback \in BOOLEAN
    /\ stops \in StopSets /\ n_batch \in Batches
    /\ max_tokens \in {resolve_max_tokens(r) : r \in ReqMaxTokens}
    /\ pc = "start" /\ rc = 0 /\ finish_reason = "" /\ heap = {}
    /\ n_prompt = 0 /\ n_processed = 0 /\ max_gen = 0 /\ i = 0
    /\ n_generated = 0
    /\ kv \in 0..NCtx                  \* left behind by the previous job
    /\ piece = <<>> /\ window = <<>> /\ response = <<>> /\ response_cap = 0
    /\ cancel = FALSE /\ shutdown = FALSE /\ expired = FALSE
    /\ text = <<>> /\ accepted = 0 /\ overrun = 0 /\ late = 0
    /\ state = "RUNNING" /\ status = 0

(* inference_complete returns to inference_chat or to the worker.          *)
Caller == IF chat THEN "chatfree" ELSE "returned"

(* return -1 with a reason, to the given caller, after freeing some memory.*)
Fail(reason, freed, to) ==
    /\ finish_reason' = reason /\ rc' = -1
    /\ heap' = heap \ freed
    /\ pc' = to

(* The generation loop is left for generation_done.                        *)
Leave(reason) == finish_reason' = reason /\ pc' = "finish"

(* Mutant: a disconnect does not stop the generation.                      *)
MutantStopping == shutdown

(* The flags the loop head and both callbacks look at.                     *)
Stopping == cancel \/ shutdown

(* worker_thread_func: a blocking job gets its response buffer first.      *)
Start ==
    /\ pc = "start"
    /\ \/ /\ ~stream
          /\ response_cap' = InitialCap
          /\ \/ /\ heap' = {"response"}
                /\ pc' = IF chat THEN "render" ELSE "tokenize"
                /\ UNCHANGED <<rc, finish_reason>>
             \/ Fail("backend_error", {}, "returned")
       \/ /\ stream
          /\ pc' = IF chat THEN "render" ELSE "tokenize"
          /\ UNCHANGED <<rc, finish_reason, heap, response_cap>>
    /\ UNCHANGED <<request, counts, piece, window, response,
                   flags, history, answer>>

(* build_chatml_prompt, for a model without a template or one whose        *)
(* template cannot be applied.                                             *)
BuildChatml ==
    /\ pc = "chatml" \/ (pc = "render" /\ fallback)
    /\ \/ Fail("backend_error", {}, "returned")
       \/ /\ heap' = heap \union {"formatted"} /\ pc' = "built"
          /\ UNCHANGED <<rc, finish_reason>>
    /\ UNCHANGED <<request, counts, output, flags, history, answer>>

(* It may come out empty.  Its size is only looked at if there was no      *)
(* template to begin with.                                                 *)
CheckChatml ==
    /\ pc = "built"
    /\ \/ Fail("backend_error", {"formatted"}, "returned")
       \/ fallback /\ Fail("context_overflow", {"formatted"}, "returned")
       \/ pc' = "tokenize" /\ UNCHANGED <<rc, finish_reason, heap>>
    /\ UNCHANGED <<request, counts, output, flags, history, answer>>

(* inference_chat with the model's template: the array for the library.    *)
AllocMessages ==
    /\ pc = "render" /\ ~fallback
    /\ \/ Fail("backend_error", {}, "returned")
       \/ /\ heap' = heap \union {"chat_msgs"} /\ pc' = "template"
          /\ UNCHANGED <<rc, finish_reason>>
    /\ UNCHANGED <<request, counts, output, flags, history, answer>>

(* The first llama_chat_apply_template: the template cannot be applied,    *)
(* the prompt is too large, there is no memory for it, or there is.        *)
SizeTemplate ==
    /\ pc = "template"
    /\ \/ /\ heap' = heap \ {"chat_msgs"} /\ pc' = "chatml"
          /\ UNCHANGED <<rc, finish_reason>>
       \/ Fail("context_overflow", {"chat_msgs"}, "returned")
       \/ Fail("backend_error", {"chat_msgs"}, "returned")
       \/ /\ heap' = heap \union {"formatted"} /\ pc' = "apply"
          /\ UNCHANGED <<rc, finish_reason>>
    /\ UNCHANGED <<request, counts, output, flags, history, answer>>

(* Mutant: the buffer is forgotten when it cannot be filled.               *)
MutantApplyTemplate ==
    /\ pc = "apply"
    /\ \/ /\ heap' = heap \ {"chat_msgs"} /\ pc' = "tokenize"
          /\ UNCHANGED <<rc, finish_reason>>
       \/ Fail("backend_error", {"chat_msgs"}, "returned")
    /\ UNCHANGED <<request, counts, output, flags, history, answer>>

(* The second call fills the buffer or fails.                              *)
ApplyTemplate ==
    /\ pc = "apply"
    /\ \/ /\ heap' = heap \ {"chat_msgs"} /\ pc' = "tokenize"
          /\ UNCHANGED <<rc, finish_reason>>
       \/ Fail("backend_error", {"chat_msgs", "formatted"}, "returned")
    /\ UNCHANGED <<request, counts, output, flags, history, answer>>

(* llama_memory_clear.                                                     *)
ClearCache == kv' = 0

(* inference_complete: the cache is cleared and the prompt's n tokens are  *)
(* counted; there is none, they are too many, or malloc fails or succeeds. *)
CountTokens ==
    /\ pc = "tokenize"
    /\ ClearCache
    /\ \E n \in 0..(NCtx + 1) :
          \/ n < NCtx /\ Fail("backend_error", {}, Caller) /\ UNCHANGED n_prompt
          \/ n >= NCtx /\ Fail("context_overflow", {}, Caller) /\ UNCHANGED n_prompt
          \/ /\ n > 0 /\ n < NCtx
             /\ n_prompt' = n
             /\ heap' = heap \union {"tokens"} /\ pc' = "tokens"
             /\ finish_reason' = "length" /\ UNCHANGED rc
    /\ UNCHANGED <<request, n_processed, max_gen, i, n_generated, output,
                   flags, history, answer>>

(* The second llama_tokenize fails or fills the array with as many, and    *)
(* the rest of the context is shared out.                                  *)
Tokenize ==
    /\ pc = "tokens"
    /\ \/ Fail("backend_error", {"tokens"}, Caller) /\ UNCHANGED max_gen
       \/ /\ max_gen' = CapTokens(n_prompt)
          /\ IF max_gen' <= 0
             THEN Fail("context_overflow", {"tokens"}, Caller)
             ELSE pc' = "prompt" /\ UNCHANGED <<rc, finish_reason, heap>>
    /\ UNCHANGED <<request, n_prompt, n_processed, i, n_generated, kv, output,
                   flags, history, answer>>

(* Mutant: the last chunk is not shortened.                                *)
MutantChunk == n_batch

(* The size of the next batch of prompt tokens.                            *)
Chunk == IF n_prompt - n_processed > n_batch
         THEN n_batch ELSE n_prompt - n_processed

(* llama_decode accepts the batch.  The loop does not ask whether it was   *)
(* one: n_batch may be zero or negative, and then n_processed stays or     *)
(* falls, nothing enters the cache and the loop is not left.               *)
ChunkDecoded ==
    /\ n_processed + Chunk >= -BackMax
    /\ n_processed' = n_processed + Chunk
    /\ kv' = IF Chunk > 0 THEN kv + Chunk ELSE kv
    /\ UNCHANGED <<pc, rc, finish_reason, heap>>

(* Mutant: the prompt is started over when a chunk fails.                  *)
MutantChunkFails ==
    /\ n_processed' = 0 /\ kv' = 0
    /\ UNCHANGED <<pc, rc, finish_reason, heap>>

ChunkFails ==
    /\ \E reason \in {"context_overflow", "backend_error"} :
          Fail(reason, {"tokens"}, Caller)
    /\ UNCHANGED <<n_processed, kv>>

(* One llama_decode of the prompt loop.  Cancellation is not looked at.    *)
PromptChunk ==
    /\ pc = "prompt" /\ n_processed < n_prompt
    /\ ChunkDecoded \/ ChunkFails
    /\ UNCHANGED <<request, n_prompt, max_gen, i, n_generated,
                   output, flags, history, answer>>

(* The prompt is in the cache: free its tokens, build the sampler chain    *)
(* and start the clock.                                                    *)
BuildSampler ==
    /\ pc = "prompt" /\ n_processed >= n_prompt
    /\ \/ /\ heap' = (heap \ {"tokens"}) \union {"chain"}
          /\ pc' = "head"
          /\ UNCHANGED <<rc, finish_reason>>
       \/ Fail("backend_error", {"tokens"}, Caller)
    /\ UNCHANGED <<request, counts, output, flags, history, answer>>

(* The loop's bound, and the three checks at the head of an iteration.     *)
LoopEnds ==
    /\ pc = "head" /\ i >= max_gen
    /\ pc' = "finish"
    /\ UNCHANGED <<request, rc, finish_reason, heap, counts,
                   output, flags, history, answer>>

LoopAborts ==
    /\ pc = "head" /\ i < max_gen /\ Stopping
    /\ Leave("abort")
    /\ UNCHANGED <<request, rc, heap, counts, output, flags,
                   history, answer>>

(* Mutant: the clock is only read before the first token.                  *)
MutantClockDue == i = 0

(* (i & 31) == 0.                                                          *)
ClockDue == i % TimeoutEvery = 0

(* Mutant: the reason is not set.                                          *)
MutantLoopTimesOut ==
    /\ pc = "head" /\ i < max_gen /\ ~Stopping /\ ClockDue /\ expired
    /\ pc' = "finish"
    /\ UNCHANGED <<request, rc, finish_reason, heap, counts,
                   output, flags, history, answer>>

LoopTimesOut ==
    /\ pc = "head" /\ i < max_gen /\ ~Stopping /\ ClockDue /\ expired
    /\ Leave("time_limit")
    /\ UNCHANGED <<request, rc, heap, counts, output, flags,
                   history, answer>>

LoopSamples ==
    /\ pc = "head" /\ i < max_gen /\ ~Stopping /\ ~(ClockDue /\ expired)
    /\ pc' = "sample"
    /\ UNCHANGED <<request, rc, finish_reason, heap, counts,
                   output, flags, history, answer>>

(* The sampler returns EOS.                                                *)
SampleEos ==
    /\ pc = "sample"
    /\ Leave("stop")
    /\ UNCHANGED <<request, rc, heap, counts, output, flags,
                   history, answer>>

(* The sampler returns a token with text p; the stop sequences are looked  *)
(* for before the callback sees p.                                         *)
SamplePiece ==
    /\ pc = "sample"
    /\ \E p \in Pieces :
          /\ piece' = p /\ text' = text \o p
          /\ window' = IF stops = {} THEN window ELSE Slide(window, p)
          /\ IF StopHit(window')
             THEN Leave("stop")
             ELSE pc' = "callback" /\ UNCHANGED finish_reason
    /\ n_generated' = n_generated + 1
    /\ overrun' = IF cancel \/ shutdown THEN overrun + 1 ELSE overrun
    /\ late' = IF expired THEN late + 1 ELSE late
    /\ UNCHANGED <<request, rc, heap, n_prompt, n_processed,
                   max_gen, i, kv, response, response_cap, flags, accepted,
                   answer>>

(* stream_token_cb: the ring refuses a token only when told to stop.       *)
StreamCallback ==
    /\ pc = "callback" /\ stream
    /\ IF Stopping
       THEN Leave("abort") /\ UNCHANGED accepted
       ELSE pc' = "decode" /\ accepted' = accepted + 1 /\ UNCHANGED finish_reason
    /\ UNCHANGED <<request, rc, heap, counts, output, flags, text,
                   overrun, late, answer>>

(* Mutant: the piece that made the buffer grow is not copied.              *)
MutantAppendToResponse(cap) ==
    /\ response' = IF cap > response_cap THEN response ELSE response \o piece
    /\ response_cap' = cap
    /\ accepted' = accepted + 1
    /\ pc' = "decode" /\ UNCHANGED finish_reason

(* The piece is appended to a buffer of cap bytes.                         *)
AppendToResponse(cap) ==
    /\ response' = response \o piece /\ response_cap' = cap
    /\ accepted' = accepted + 1
    /\ pc' = "decode" /\ UNCHANGED finish_reason

(* Mutant: the terminating NUL is not counted.                             *)
MutantFits(cap) == Len(response) + Len(piece) <= cap

(* The piece and the terminating NUL fit in a buffer of cap bytes.         *)
Fits(cap) == Len(response) + Len(piece) < cap

(* accum_token_cb: stop, append, grow and append, or give up because the   *)
(* largest buffer is too small or realloc fails.                           *)
AccumCallback ==
    /\ pc = "callback" /\ ~stream
    /\ \/ /\ ~Stopping /\ Fits(response_cap)
          /\ AppendToResponse(response_cap)
       \/ /\ ~Stopping /\ ~Fits(response_cap) /\ Fits(NewCap(Len(piece)))
          /\ AppendToResponse(NewCap(Len(piece)))
       \/ /\ Stopping \/ ~Fits(response_cap)
          /\ Leave("abort")
          /\ UNCHANGED <<response, response_cap, accepted>>
    /\ UNCHANGED <<request, rc, heap, counts, piece, window, flags,
                   text, overrun, late, answer>>

(* llama_decode of the token just produced.                                *)
DecodeNext ==
    /\ pc = "decode"
    /\ \/ /\ kv' = kv + 1 /\ i' = i + 1
          /\ pc' = "head" /\ UNCHANGED finish_reason
       \/ Leave("backend_error") /\ UNCHANGED <<kv, i>>
    /\ UNCHANGED <<request, rc, heap, n_prompt, n_processed,
                   max_gen, n_generated, output, flags, history, answer>>

(* generation_done: the sampler is freed and 0 returned.                   *)
Finish ==
    /\ pc = "finish"
    /\ heap' = heap \ {"chain"}
    /\ rc' = 0
    /\ pc' = Caller
    /\ UNCHANGED <<request, finish_reason, counts, output, flags,
                   history, answer>>

(* Mutant: an error return skips the free.                                 *)
MutantChatReturns ==
    /\ pc = "chatfree"
    /\ heap' = IF rc = 0 THEN heap \ {"formatted"} ELSE heap
    /\ pc' = "returned"
    /\ UNCHANGED <<request, rc, finish_reason, counts, output,
                   flags, history, answer>>

(* inference_chat frees the rendered prompt and returns the same code.     *)
ChatReturns ==
    /\ pc = "chatfree"
    /\ heap' = heap \ {"formatted"}
    /\ pc' = "returned"
    /\ UNCHANGED <<request, rc, finish_reason, counts, output,
                   flags, history, answer>>

(* The worker publishes the outcome.                                       *)
StoreState ==
    /\ pc = "returned"
    /\ state' = IF rc = 0 THEN "DONE" ELSE "ERROR"
    /\ pc' = "reply"
    /\ UNCHANGED <<request, rc, finish_reason, heap, counts, output,
                   flags, history, status>>

(* The HTTP status of the answer: a stream's was sent with its headers; a  *)
(* response that cannot be serialised is an internal error.                *)
Statuses ==
    IF stream THEN {200}
    ELSE IF state = "DONE" THEN {200, 500}
    ELSE IF finish_reason = "context_overflow" THEN {400} ELSE {500}

(* drain_stream_ring answers and frees the job with its response buffer.   *)
Reply ==
    /\ pc = "reply"
    /\ status' \in Statuses
    /\ heap' = heap \ {"response"}
    /\ pc' = "answered"
    /\ UNCHANGED <<request, rc, finish_reason, counts, output,
                   flags, history, state>>

(***************************************************************************)
(* The rest of the program: the client disconnects, a signal arrives, or   *)
(* max_inference_seconds pass (the clock runs from BuildSampler on).       *)
(***************************************************************************)
Generating == pc \in {"head", "sample", "callback", "decode"}

Disconnect ==
    /\ pc # "answered" /\ ~cancel
    /\ cancel' = TRUE
    /\ UNCHANGED <<request, pc, rc, finish_reason, heap, counts,
                   output, shutdown, expired, history, answer>>

Signal ==
    /\ pc # "answered" /\ ~shutdown
    /\ shutdown' = TRUE
    /\ UNCHANGED <<request, pc, rc, finish_reason, heap, counts,
                   output, cancel, expired, history, answer>>

Expire ==
    /\ Generating /\ ~expired
    /\ expired' = TRUE
    /\ UNCHANGED <<request, pc, rc, finish_reason, heap, counts,
                   output, cancel, shutdown, history, answer>>

Answered == pc = "answered" /\ UNCHANGED vars

WorkerStep ==
    \/ Start \/ BuildChatml \/ CheckChatml \/ AllocMessages \/ SizeTemplate
    \/ ApplyTemplate \/ CountTokens \/ Tokenize \/ PromptChunk \/ BuildSampler
    \/ LoopEnds \/ LoopAborts \/ LoopTimesOut \/ LoopSamples
    \/ SampleEos \/ SamplePiece \/ StreamCallback \/ AccumCallback
    \/ DecodeNext \/ Finish \/ ChatReturns \/ StoreState \/ Reply

Next == WorkerStep \/ Disconnect \/ Signal \/ Expire \/ Answered

Spec == Init /\ [][Next]_vars

(* In the prompt loop with an n_batch that is not positive.                *)
Idling == pc = "prompt" /\ n_batch <= 0

(* The worker thread and, for the reply, the event loop keep running.  An  *)
(* idling prompt loop goes on for as long as llama_decode accepts its      *)
(* batches, which nothing says it will not.                                *)
FairSpec == Spec /\ WF_vars(WorkerStep /\ ~Idling)

-----------------------------------------------------------------------------
(* Properties                                                              *)

Reasons == {"", "length", "stop", "abort", "time_limit", "backend_error",
            "context_overflow"}

(* The fields keep their types and ranges: tokens are counted within       *)
(* max_gen and the window within its capacity.                             *)
TypeOK ==
    /\ chat \in BOOLEAN /\ stream \in BOOLEAN /\ fallback \in BOOLEAN
    /\ stops \in StopSets /\ n_batch \in Batches /\ max_tokens \in 1..NCtx
    /\ pc \in {"start", "render", "chatml", "built", "template", "apply",
               "tokenize", "tokens", "prompt", "head", "sample", "callback",
               "decode", "finish", "chatfree", "returned", "reply", "answered"}
    /\ rc \in {0, -1} /\ finish_reason \in Reasons
    /\ heap \subseteq {"response", "chat_msgs", "formatted", "tokens", "chain"}
    /\ n_prompt \in 0..NCtx /\ n_processed \in (-BackMax)..n_prompt
    /\ max_gen \in 0..NCtx /\ i \in 0..max_gen /\ n_generated \in i..(i + 1)
    /\ kv \in Nat
    /\ piece \in Seq(Nat) /\ window \in Seq(Nat) /\ Len(window) <= Window
    /\ response \in Seq(Nat) /\ response_cap \in 0..ContentMax
    /\ cancel \in BOOLEAN /\ shutdown \in BOOLEAN /\ expired \in BOOLEAN
    /\ text \in Seq(Nat) /\ accepted \in 0..n_generated
    /\ overrun \in Nat /\ late \in Nat
    /\ state \in {"RUNNING", "DONE", "ERROR"} /\ status \in {0, 200, 400, 500}

(* inference_complete never decodes more tokens than the context holds,    *)
(* whatever the prompt, the batch size, the request and the previous job;  *)
(* and every decoded token is one of this job's (max_gen, inference.c:262).*)
KvFits ==
    /\ kv <= NCtx
    /\ Generating \/ pc = "finish" => kv = n_prompt + i

(* The rolling window decides as a search of everything generated would:   *)
(* no piece reaches the callback once the text ends with a stop sequence,  *)
(* and generation ends with a token only if it does (inference.c:382).     *)
StopExact ==
    LET atStop == \E s \in stops : Len(s) > 0 /\ EndsWith(text, s)
    IN  /\ pc \in {"callback", "decode"} => ~atStop
        /\ finish_reason = "stop" /\ n_generated > i => atStop

(* A disconnect or a signal is noticed within one token (inference.c:346), *)
(* the deadline within TimeoutEvery tokens (inference.c:355), whatever the *)
(* loop was doing.                                                         *)
StopsInTime == overrun <= 1 /\ late <= TimeoutEvery

(* Every buffer of the job is released by the time it is answered, on      *)
(* every early return of inference_chat and inference_complete.            *)
NothingLeaked == pc = "answered" => heap = {}

(* accum_token_cb never writes past the response buffer, its NUL included, *)
(* and what it holds fits the response struct the reply copies it to.  A   *)
(* blocking answer is all of the text when every token was produced, and   *)
(* otherwise a prefix of it: nothing is dropped from the middle.           *)
ResponseSound ==
    /\ "response" \in heap => /\ Len(response) < response_cap
                              /\ response_cap <= ContentMax
    /\ ~stream => /\ SubSeq(text, 1, Len(response)) = response
                  /\ pc = "answered" /\ finish_reason = "length" /\ rc = 0
                        => response = text

(* The reason given is the reason the loop ended, and the counts agree     *)
(* with the tokens handed on: all of them for "length", none after an      *)
(* error return (inference.c:380, 436).                                    *)
ReasonSound ==
    pc \in {"chatfree", "returned", "reply", "answered"} =>
      /\ rc = -1 => accepted = 0 /\ n_generated = 0
      /\ rc = 0 => /\ finish_reason = "length" <=> i = max_gen
                   /\ finish_reason = "length" => accepted = max_gen
                   /\ finish_reason = "time_limit" => expired
                   /\ accepted \in {n_generated, n_generated - 1}

(* Every job the worker takes is answered, whatever fails and for every    *)
(* positive n_batch.  config_validate lets others pass; with them the loop *)
(* over the prompt is the only one that may go on for ever, and does if    *)
(* llama_decode keeps accepting its batches (inference.c:276-291).         *)
EventuallyAnswered == <>(pc = "answered") \/ (n_batch <= 0 /\ <>[]Idling)
=============================================================================
