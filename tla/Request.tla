------------------------------ MODULE Request ------------------------------
(***************************************************************************)
(* The body of an inference request: submit_inference_job from the         *)
(* allocation of the job to its hand-over, chat_request_parse and          *)
(* completion_request_parse, inference_resolve_params and its sibling.     *)
(*                                                                         *)
(* A body is what cJSON makes of it: Absent stands for a member that is    *)
(* missing or of another type than the code asks for.  Texts are sequences *)
(* of characters; numbers are in hundredths, or Inf when they are out of   *)
(* the range of the type they are converted to.                            *)
(***************************************************************************)
EXTENDS Integers, Sequences, FiniteSetsExt

CONSTANTS
    Bodies,         \* request bodies clients send
    Absent, NaN, Inf,
    Half,           \* 2^31
    MAX_MESSAGES,   \* PROF_MAX_MESSAGES (64)
    CONTENT_MAX,    \* PROF_CONTENT_MAX (65536)
    STOP_MAX,       \* PROF_STOP_MAX (4)
    STOP_LEN        \* PROF_STOP_LEN (64)

VARIABLES
    cfg,            \* config_t, validated (Config)
    rpc,            \* where the event loop is with the request
    body,
    n,              \* messages read so far
    req,            \* chat_request_t or completion_request_t of the job
    params,         \* sample_params_t of the job
    heap,           \* blocks allocated for the request
    status,         \* history: the status it was refused with, 0 for none
    oom,            \* history: calloc failed
    doubleFree      \* history: free() of a block that is not allocated

Roles == {"system", "user", "assistant"}

NoParams == [max_tokens |-> 0]
NoBody   == [kind |-> "none"]

(* memset and the sentinels of the two parsers.                            *)
NewReq ==
    [messages |-> Absent, prompt |-> <<>>, temperature |-> NaN, top_p |-> NaN,
     frequency_penalty |-> NaN, presence_penalty |-> NaN, repeat_penalty |-> NaN,
     max_tokens |-> -1, stop |-> <<>>, stream |-> FALSE]

RequestInit ==
    /\ rpc = "idle" /\ body = NoBody /\ n = 0 /\ req = NewReq /\ params = NoParams
    /\ heap = {} /\ status = 0 /\ oom = FALSE /\ doubleFree = FALSE

(* Mutant: the terminating NUL is forgotten.                               *)
MutantStored(text, size) == SubSeq(text, 1, Min({Len(text), size}))

(* A text as snprintf puts it into a buffer of this size.                  *)
Stored(text, size) == SubSeq(text, 1, Min({Len(text), size - 1}))

Free(blocks) ==
    /\ heap' = heap \ blocks
    /\ doubleFree' = (doubleFree \/ ~(blocks \subseteq heap))

(* Mutant: the pointer is left behind.                                     *)
MutantFreed(r) == r

(* chat_request_free: free() and NULL.                                     *)
Freed(r) == [r EXCEPT !.messages = Absent]

MessagesOf(r) == IF r.messages = Absent THEN {} ELSE {"messages"}

-----------------------------------------------------------------------------
(* submit_inference_job, chat_request_parse, completion_request_parse      *)

(* The job and the connection data are allocated, or one of them or both   *)
(* are not.                                                                *)
NewRequest ==
    /\ rpc = "idle"
    /\ \E b \in Bodies : body' = b
    /\ \E got \in SUBSET {"job", "cd"} :
         /\ heap' = heap \union got
         /\ rpc' = IF got = {"job", "cd"} THEN "parse" ELSE "nomem"
         /\ oom' = (got # {"job", "cd"})
    /\ UNCHANGED <<n, req, params, status, doubleFree>>

(* Mutant: only the job is looked after.                                   *)
MutantNoMemory ==
    /\ rpc = "nomem"
    /\ Free({"job"} \intersect heap) /\ status' = 500 /\ rpc' = "answered"
    /\ UNCHANGED <<body, n, req, params, oom>>

(* free(job) and free(cd), one of which is NULL at least.                  *)
NoMemory ==
    /\ rpc = "nomem"
    /\ Free({"job", "cd"} \intersect heap) /\ status' = 500 /\ rpc' = "answered"
    /\ UNCHANGED <<body, n, req, params, oom>>

(* cJSON_ParseWithLength; no root is made of a text that is no JSON.       *)
ParseBody ==
    /\ rpc = "parse"
    /\ heap' = heap \union (IF body.json THEN {"root"} ELSE {})
    /\ rpc' = IF ~body.json THEN "error"
              ELSE IF body.kind = "chat" THEN "messages" ELSE "prompt"
    /\ UNCHANGED <<body, n, req, params, status, oom, doubleFree>>

(* cJSON_Delete(root) and return -1.                                       *)
GiveUp == Free({"root"}) /\ rpc' = "error"

(* Mutant: an empty conversation passes.                                   *)
MutantCount(count) == count <= MAX_MESSAGES

CountInRange(count) == count > 0 /\ count <= MAX_MESSAGES

(* messages is no array, is empty or too long, or calloc fails.            *)
NoMessages ==
    /\ rpc = "messages"
    /\ \/ body.messages = Absent /\ UNCHANGED oom
       \/ /\ body.messages # Absent
          /\ IF CountInRange(Len(body.messages)) THEN oom' = TRUE ELSE UNCHANGED oom
    /\ GiveUp
    /\ UNCHANGED <<body, n, req, params, status>>

AllocMessages ==
    /\ rpc = "messages" /\ body.messages # Absent /\ CountInRange(Len(body.messages))
    /\ heap' = heap \union {"messages"} /\ req' = [req EXCEPT !.messages = <<>>]
    /\ rpc' = "message"
    /\ UNCHANGED <<body, n, params, status, oom, doubleFree>>

(* One message: a known role; content that is no string counts as empty.   *)
ReadMessage ==
    LET msg == body.messages[n + 1]
    IN  /\ rpc = "message" /\ n < Len(body.messages) /\ msg.role \in Roles
        /\ req' = [req EXCEPT !.messages = Append(@,
               [role |-> msg.role,
                content |-> IF msg.content = Absent THEN <<>>
                            ELSE Stored(msg.content, CONTENT_MAX)])]
        /\ n' = n + 1
        /\ UNCHANGED <<rpc, body, params, heap, status, oom, doubleFree>>

(* A role that is no string, or none of the three.                         *)
BadRole ==
    /\ rpc = "message" /\ n < Len(body.messages)
    /\ body.messages[n + 1].role \notin Roles
    /\ Free(MessagesOf(req) \union {"root"}) /\ req' = Freed(req) /\ rpc' = "error"
    /\ UNCHANGED <<body, n, params, status, oom>>

ReadPrompt ==
    /\ rpc = "prompt"
    /\ \/ /\ body.prompt # Absent
          /\ req' = [req EXCEPT !.prompt = Stored(body.prompt, CONTENT_MAX)]
          /\ rpc' = "options" /\ UNCHANGED <<heap, doubleFree>>
       \/ body.prompt = Absent /\ GiveUp /\ UNCHANGED req
    /\ UNCHANGED <<body, n, params, status, oom>>

(* (float) of a double; what a float cannot hold becomes infinite.         *)
Float(v) == IF v = Absent THEN NaN ELSE v

(* (int32_t) of a double: towards zero, and undefined out of range, where  *)
(* x86 gives the least and ARM the nearest value.                          *)
Truncate(v) == IF v >= 0 THEN v \div 100 ELSE -((-v) \div 100)
Int32s(v) == IF v = Absent THEN {-1} ELSE IF v = Inf THEN {-Half, Half - 1} ELSE {Truncate(v)}

(* The entries of "stop"; a single string is understood in a chat only.    *)
Entries(b) ==
    IF b.stop = Absent \/ (~b.stop.array /\ b.kind # "chat") THEN <<>> ELSE b.stop.items

(* Mutant: all entries are taken.                                          *)
MutantStops(b) ==
    [k \in DOMAIN Entries(b) |->
       IF Entries(b)[k] = Absent THEN <<>> ELSE Stored(Entries(b)[k], STOP_LEN)]

(* An array is cut after STOP_MAX entries, and an entry that is no string  *)
(* stays empty.                                                            *)
Stops(b) ==
    [k \in 1..Min({Len(Entries(b)), STOP_MAX}) |->
       IF Entries(b)[k] = Absent THEN <<>> ELSE Stored(Entries(b)[k], STOP_LEN)]

(* The optional members; then the parser deletes root and returns 0.       *)
ReadOptions ==
    /\ \/ rpc = "options"
       \/ rpc = "message" /\ n = Len(body.messages)
    /\ \E max_tokens \in Int32s(body.max_tokens) :
         req' = [req EXCEPT
                   !.temperature = Float(body.temperature), !.top_p = Float(body.top_p),
                   !.repeat_penalty = Float(body.repeat_penalty),
                   !.frequency_penalty =
                      IF body.kind = "chat" THEN Float(body.frequency_penalty) ELSE NaN,
                   !.presence_penalty =
                      IF body.kind = "chat" THEN Float(body.presence_penalty) ELSE NaN,
                   !.max_tokens = max_tokens, !.stop = Stops(body), !.stream = body.stream]
    /\ Free({"root"}) /\ rpc' = "resolve"
    /\ UNCHANGED <<body, n, params, status, oom>>

-----------------------------------------------------------------------------
(* inference_resolve_params, inference_resolve_params_completion           *)

(* Mutant: infinity is larger than every limit.                            *)
MutantClampF(v, lo, hi) ==
    IF v = Inf THEN Inf ELSE IF v < lo THEN lo ELSE IF v > hi THEN hi ELSE v

clamp_f(v, lo, hi) ==
    IF v \in {NaN, Inf} THEN lo ELSE IF v < lo THEN lo ELSE IF v > hi THEN hi ELSE v

clamp_i(v, lo, hi) == IF v < lo THEN lo ELSE IF v > hi THEN hi ELSE v

OrDefault(v, default, lo, hi) == IF v = NaN THEN default ELSE clamp_f(v, lo, hi)

resolve_max_tokens(r) ==
    IF r.max_tokens = -1 THEN cfg.max_tokens ELSE clamp_i(r.max_tokens, 1, cfg.n_ctx)

Resolve ==
    /\ rpc = "resolve"
    /\ params' = [temperature |-> OrDefault(req.temperature, cfg.temperature, 0, 200),
                  top_p |-> OrDefault(req.top_p, cfg.top_p, 1, 100),
                  top_k |-> cfg.top_k,
                  repeat_penalty |-> OrDefault(req.repeat_penalty, cfg.repeat_penalty, 100, 200),
                  frequency_penalty |-> OrDefault(req.frequency_penalty, 0, 0, 200),
                  presence_penalty |-> OrDefault(req.presence_penalty, 0, 0, 200),
                  max_tokens |-> resolve_max_tokens(req),
                  max_inference_seconds |-> cfg.max_inference_seconds,
                  stop |-> req.stop]
    /\ rpc' = "submit"
    /\ UNCHANGED <<body, n, req, heap, status, oom, doubleFree>>

(* worker_job_free, free(job), free(cd).                                   *)
FreeJob ==
    /\ Free((IF body.kind = "chat" THEN MessagesOf(req) ELSE {}) \union {"job", "cd"})
    /\ req' = IF body.kind = "chat" THEN Freed(req) ELSE req
    /\ rpc' = "answered"

(* The body is refused.                                                    *)
Refuse ==
    /\ rpc = "error"
    /\ FreeJob /\ status' = 400
    /\ UNCHANGED <<body, n, params, oom>>

(* worker_submit takes the job, which lives until it is answered or its    *)
(* client leaves, or finds the worker busy.                                *)
Submit ==
    /\ rpc = "submit"
    /\ \/ rpc' = "queued" /\ UNCHANGED <<req, heap, status, doubleFree>>
       \/ FreeJob /\ status' = 503
    /\ UNCHANGED <<body, n, params, oom>>

(* The answer is sent.                                                     *)
Finish ==
    /\ rpc = "queued"
    /\ FreeJob
    /\ UNCHANGED <<body, n, params, status, oom>>

(* MG_EV_CLOSE: the connection data goes and the job becomes an orphan,    *)
(* before the worker looks for that ("orphan") or after it ("lost").       *)
Close ==
    /\ rpc = "queued"
    /\ Free({"cd"}) /\ rpc' \in {"orphan", "lost"}
    /\ UNCHANGED <<body, n, req, params, status, oom>>

(* The worker frees an orphan: worker_job_free, free(job).                 *)
FreeOrphan ==
    /\ rpc = "orphan"
    /\ Free((IF body.kind = "chat" THEN MessagesOf(req) ELSE {}) \union {"job"})
    /\ req' = IF body.kind = "chat" THEN Freed(req) ELSE req
    /\ rpc' = "answered"
    /\ UNCHANGED <<body, n, params, status, oom>>

(* The process is through with the request; nothing points any longer to   *)
(* the blocks of one that was lost.                                        *)
Forget ==
    /\ rpc \in {"answered", "lost"}
    /\ rpc' = "idle" /\ body' = NoBody /\ n' = 0 /\ req' = NewReq /\ params' = NoParams
    /\ heap' = {} /\ status' = 0 /\ oom' = FALSE
    /\ UNCHANGED doubleFree

RequestNext ==
    \/ NewRequest \/ NoMemory \/ ParseBody \/ NoMessages \/ AllocMessages \/ ReadMessage
    \/ BadRole \/ ReadPrompt \/ ReadOptions \/ Resolve \/ Refuse \/ Submit
    \/ Finish \/ Close \/ FreeOrphan \/ Forget

-----------------------------------------------------------------------------
(* Properties                                                              *)

Parsed == rpc \in {"resolve", "submit", "queued"}

(* What the two parsers accept, said of the whole body at once.            *)
Acceptable(b) ==
    /\ b.json
    /\ IF b.kind = "chat"
       THEN /\ b.messages # Absent /\ Len(b.messages) \in 1..MAX_MESSAGES
            /\ \A k \in DOMAIN b.messages : b.messages[k].role \in Roles
       ELSE b.prompt # Absent

(* A text in a buffer of this size: the text itself, or as much of its     *)
(* beginning as leaves room for the NUL; nothing where no text was sent.   *)
CutOnlyAtEnd(kept, sent, size) ==
    IF sent = Absent THEN kept = <<>>
    ELSE /\ Len(kept) < size
         /\ IF Len(sent) < size THEN kept = sent
            ELSE Len(kept) = size - 1 /\ \A k \in DOMAIN kept : kept[k] = sent[k]

(* On every path through parser and submit_inference_job, a calloc that    *)
(* fails included, each block is freed once and none is left, although     *)
(* chat_request_free runs twice on a refused role (server.c:246-251,       *)
(* api_types.c:76, worker.c:377).  A client that leaves before the worker  *)
(* looks for it costs nothing either; one that leaves after that costs the *)
(* job and its messages, and never the connection data (worker.c:279,      *)
(* server.c:674-683).                                                      *)
HeapSound ==
    /\ ~doubleFree
    /\ rpc \in {"idle", "answered"} => heap = {}
    /\ rpc = "lost" => heap \subseteq {"job", "messages"}
    /\ rpc = "queued" => "root" \notin heap

(* A request is refused as invalid exactly if its body is, wherever in the *)
(* body the fault is, but for a calloc that fails (server.c:305).  The     *)
(* conversation or the prompt the worker gets is the client's: all         *)
(* messages in their order, and every text whole if its buffer holds it;   *)
(* of a longer one exactly what the buffer holds, a silent cut, although   *)
(* doc/ARCHITECTURE.md:460 says there is none.  The stop sequences are     *)
(* those the client sent first, kept in the same way; an entry that is no  *)
(* string is empty and stops nothing.                                      *)
RequestUnderstood ==
    /\ status = 400 => oom \/ ~Acceptable(body)
    /\ Parsed => Acceptable(body)
    /\ Parsed /\ body.kind = "chat" =>
         /\ Len(req.messages) = Len(body.messages)
         /\ \A k \in DOMAIN req.messages :
              /\ req.messages[k].role = body.messages[k].role
              /\ CutOnlyAtEnd(req.messages[k].content, body.messages[k].content, CONTENT_MAX)
    /\ Parsed /\ body.kind = "completion" =>
         CutOnlyAtEnd(req.prompt, body.prompt, CONTENT_MAX)
    /\ Parsed =>
         /\ Len(req.stop) = Min({Len(Entries(body)), STOP_MAX})
         /\ \A k \in DOMAIN req.stop : CutOnlyAtEnd(req.stop[k], Entries(body)[k], STOP_LEN)

(* Whatever numbers a client sends, NaN, infinity and what overflows an    *)
(* int32_t included, generation runs for at least one token and never      *)
(* beyond the context of a configuration config_validate let pass          *)
(* (api_types.c:111, inference.c:574, config.c:263); a sampling parameter  *)
(* is the configured one if the client gave none, and within the range the *)
(* sampler is made for if it did.                                          *)
ParamsInRange ==
    LET sound(p, sent, default, lo, hi) ==
          IF sent = Absent THEN p = default
          ELSE p \in lo..hi /\ (sent # Inf /\ sent \in lo..hi => p = sent)
        chat(v) == IF body.kind = "chat" THEN v ELSE Absent
    IN  rpc \in {"submit", "queued"} =>
          /\ params.max_tokens \in 1..cfg.n_ctx
          /\ body.max_tokens = Absent => params.max_tokens = cfg.max_tokens
          /\ sound(params.temperature, body.temperature, cfg.temperature, 0, 200)
          /\ sound(params.top_p, body.top_p, cfg.top_p, 1, 100)
          /\ sound(params.repeat_penalty, body.repeat_penalty, cfg.repeat_penalty, 100, 200)
          /\ sound(params.frequency_penalty, chat(body.frequency_penalty), 0, 0, 200)
          /\ sound(params.presence_penalty, chat(body.presence_penalty), 0, 0, 200)
=============================================================================
