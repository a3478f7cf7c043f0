----------------------------- MODULE TokenRing -----------------------------
(***************************************************************************)
(* One streaming job: the worker thread produces token pieces into the     *)
(* job's token_ring_t (worker.c), the event-loop thread drains the ring    *)
(* into the client's connection (drain_stream_ring in server.c), and the   *)
(* two are coupled by batched mg_wakeup() calls.                           *)
(*                                                                         *)
(* Grain: a critical section of ring->mutex is one step, and so is every   *)
(* unlocked access to a field the other thread writes (cancel, mgr,        *)
(* state).  Who frees the job, and when, is the subject of JobProtocol;    *)
(* here the job's memory outlives both threads.                            *)
(***************************************************************************)
EXTENDS Integers, Sequences

CONSTANTS
    RingSize,    \* TOKEN_RING_SIZE (256): slots of the ring, one stays unused
    WakeBatch,   \* 8: tokens written after which the event loop is woken
    DrainBatch,  \* 32: tokens copied out per critical section
    TextMax,     \* TOKEN_TEXT_MAX (128): bytes of a slot, NUL included
    MaxTokens,   \* max_gen: tokens inference_complete may produce
    PieceLen     \* length in bytes of the piece of each token

ASSUME RingSizeAssumption   == RingSize \in Nat /\ RingSize >= 2
ASSUME WakeBatchAssumption  == WakeBatch \in Nat \ {0} /\ WakeBatch < RingSize
ASSUME DrainBatchAssumption == DrainBatch \in Nat \ {0}
ASSUME MaxTokensAssumption  == MaxTokens \in Nat
ASSUME TextAssumption       == TextMax \in Nat \ {0} /\ PieceLen \in [1..MaxTokens -> Nat]

VARIABLES
    text, head, tail, done,              \* token_ring_t
    cancel, mgr, state,                  \* worker_job_t fields both threads use
    shutdown,                            \* g_shutdown_requested
    wpc, wasEmpty, sinceWake, written,   \* worker thread; written is history
    mpc, doneSeen, wakeups,              \* event-loop thread, pending MG_EV_WAKEUP
    missed,                              \* history: the last wakeup was refused
    sent                                 \* tokens appended to c->send

ring   == <<text, head, tail, done>>
job    == <<cancel, mgr, state>>
worker == <<wpc, wasEmpty, sinceWake, written>>
loop   == <<mpc, doneSeen, wakeups, missed, sent>>
vars   == <<ring, job, shutdown, worker, loop>>

Slots   == 0..(RingSize - 1)
NoToken == [id |-> 0, len |-> 0]

(* The slot ring_write fills for the i-th token: text clipped to the slot. *)
Stored(i) ==
    [id |-> i, len |-> IF PieceLen[i] >= TextMax THEN TextMax - 1 ELSE PieceLen[i]]

TokenText == [id : Nat, len : 0..(TextMax - 1)]

(* Tokens in the ring.                                                     *)
Count == IF head >= tail THEN head - tail ELSE head - tail + RingSize

(* Mutant: the index is not wrapped around.                                *)
MutantAdvance(p, n) == p + n

Advance(p, n) == (p + n) % RingSize

(* Mutant: all slots are taken to be usable.                               *)
MutantFull == Count = RingSize

ring_is_full == Advance(head, 1) = tail

ring_is_empty == head = tail

(* Mutant: the disconnect flag is not looked at after the wait.            *)
MutantStopping == shutdown

(* ring_write's last look at the flags: give up instead of writing.        *)
Stopping == cancel \/ shutdown

(* Mutant: a disconnect does not end the wait.                             *)
MutantMustWait == ring_is_full /\ ~shutdown

(* ring_write's loop condition.                                            *)
MustWait == ring_is_full /\ ~cancel /\ ~shutdown

(***************************************************************************)
(* The job just picked up by the worker: worker_job_init, worker_submit    *)
(* and the first statements of worker_thread_func have run.                *)
(***************************************************************************)
Init ==
    /\ text = [s \in Slots |-> NoToken] /\ head = 0 /\ tail = 0 /\ done = FALSE
    /\ cancel = FALSE /\ mgr = TRUE /\ state = "RUNNING"
    /\ shutdown = FALSE
    /\ wpc = "gen" /\ wasEmpty = FALSE /\ sinceWake = 0 /\ written = 0
    /\ mpc = "poll" /\ doneSeen = FALSE /\ wakeups = 0 /\ missed = FALSE
    /\ sent = <<>>

(***************************************************************************)
(* Worker thread: inference_complete's loop and stream_token_cb.           *)
(***************************************************************************)

(* An iteration of the generation loop samples a token that is not EOS.    *)
GenToken ==
    /\ wpc = "gen" /\ written < MaxTokens /\ ~shutdown /\ ~cancel
    /\ wpc' = "probe"
    /\ UNCHANGED <<ring, job, shutdown, wasEmpty, sinceWake, written, loop>>

(* The loop is left: EOS, stop sequence, limit, timeout, error or abort.   *)
GenStop ==
    /\ wpc = "gen"
    /\ wpc' = "ringdone"
    /\ UNCHANGED <<ring, job, shutdown, wasEmpty, sinceWake, written, loop>>

(* stream_token_cb samples was_empty in a critical section of its own.     *)
Probe ==
    /\ wpc = "probe"
    /\ wasEmpty' = ring_is_empty
    /\ wpc' = "write"
    /\ UNCHANGED <<ring, job, shutdown, sinceWake, written, loop>>

(* ring_write finds the ring full and waits on not_full, mutex released.   *)
RingBlock ==
    /\ wpc = "write" /\ MustWait
    /\ wpc' = "wait"
    /\ UNCHANGED <<ring, job, shutdown, wasEmpty, sinceWake, written, loop>>

(* The 50 ms timed wait expires and the loop condition is evaluated again. *)
WaitTimeout ==
    /\ wpc = "wait"
    /\ wpc' = "write"
    /\ UNCHANGED <<ring, job, shutdown, wasEmpty, sinceWake, written, loop>>

(* ring_write returns -1: the callback does too, the loop ends in "abort". *)
RingRefuse ==
    /\ wpc = "write" /\ ~MustWait /\ Stopping
    /\ wpc' = "ringdone"
    /\ UNCHANGED <<ring, job, shutdown, wasEmpty, sinceWake, written, loop>>

RingPut ==
    /\ wpc = "write" /\ ~MustWait /\ ~Stopping
    /\ text' = [text EXCEPT ![head] = Stored(written + 1)]
    /\ head' = Advance(head, 1)
    /\ written' = written + 1
    /\ wpc' = "wake"
    /\ UNCHANGED <<tail, done, job, shutdown, wasEmpty, sinceWake, loop>>

(* Mutant: only the transition from empty wakes.                           *)
MutantWakeOnEmpty == wasEmpty

(* Mutant: one token too late.                                             *)
MutantWakeLate == wasEmpty \/ sinceWake + 1 > WakeBatch

(* The batching condition of stream_token_cb.                              *)
WakeDue == wasEmpty \/ sinceWake + 1 >= WakeBatch

(* mg_wakeup writes to a pipe that may be full; its result is ignored.     *)
mg_wakeup ==
    \/ wakeups' = wakeups + 1 /\ missed' = FALSE
    \/ missed' = TRUE /\ UNCHANGED wakeups

(* The end of stream_token_cb: wake the event loop, or only count.         *)
Wake ==
    /\ wpc = "wake"
    /\ IF mgr /\ WakeDue
         THEN sinceWake' = 0 /\ mg_wakeup
         ELSE sinceWake' = sinceWake + 1 /\ UNCHANGED <<wakeups, missed>>
    /\ wpc' = "gen"
    /\ UNCHANGED <<ring, job, shutdown, wasEmpty, written, mpc, doneSeen, sent>>

RingDone ==
    /\ wpc = "ringdone"
    /\ done' = TRUE
    /\ wpc' = "state"
    /\ UNCHANGED <<text, head, tail, job, shutdown, wasEmpty, sinceWake, written, loop>>

(* Inference reports an error only before the first token.                 *)
SetState ==
    /\ wpc = "state"
    /\ state' \in IF written = 0 THEN {"DONE", "ERROR"} ELSE {"DONE"}
    /\ wpc' = "final"
    /\ UNCHANGED <<ring, cancel, mgr, shutdown, wasEmpty, sinceWake, written, loop>>

(* Mutant: no wakeup after the last token.                                 *)
MutantFinalWake ==
    /\ wpc = "final"
    /\ wpc' = "exit"
    /\ UNCHANGED <<ring, job, shutdown, wasEmpty, sinceWake, written, loop>>

FinalWake ==
    /\ wpc = "final"
    /\ IF mgr THEN mg_wakeup ELSE UNCHANGED <<wakeups, missed>>
    /\ wpc' = "exit"
    /\ UNCHANGED <<ring, job, shutdown, wasEmpty, sinceWake, written, mpc, doneSeen, sent>>

(***************************************************************************)
(* Event-loop thread.                                                      *)
(***************************************************************************)

(* MG_EV_WAKEUP: drain_stream_ring starts.                                 *)
OnWakeup ==
    /\ mpc = "poll" /\ wakeups > 0
    /\ wakeups' = wakeups - 1
    /\ mpc' = "drain"
    /\ UNCHANGED <<ring, job, shutdown, worker, doneSeen, missed, sent>>

(* One pass of the batch loop: copy out up to DrainBatch tokens, signal    *)
(* not_full, format them into the send buffer; a full batch repeats.       *)
Drain ==
    /\ mpc = "drain"
    /\ LET n == IF Count < DrainBatch THEN Count ELSE DrainBatch
       IN  /\ sent' = sent \o [i \in 1..n |-> text[Advance(tail, i - 1)]]
           /\ tail' = Advance(tail, n)
           /\ wpc' = IF n > 0 /\ wpc = "wait" THEN "write" ELSE wpc
           /\ mpc' = IF n = DrainBatch THEN "drain" ELSE "check"
    /\ UNCHANGED <<text, head, done, job, shutdown, wasEmpty, sinceWake, written,
                   doneSeen, wakeups, missed>>

(* Mutant: an empty ring is taken for a finished one.                      *)
MutantCheckDone ==
    /\ mpc = "check"
    /\ doneSeen' = ring_is_empty
    /\ mpc' = "load"
    /\ UNCHANGED <<ring, job, shutdown, worker, wakeups, missed, sent>>

(* done = ring.done && empty, read under the mutex.                        *)
CheckDone ==
    /\ mpc = "check"
    /\ doneSeen' = (done /\ ring_is_empty)
    /\ mpc' = "load"
    /\ UNCHANGED <<ring, job, shutdown, worker, wakeups, missed, sent>>

(* The state is loaded; the response is ended ("data: [DONE]", job and     *)
(* conn_data freed, connection set to drain) or left for the next wakeup.  *)
LoadState ==
    /\ mpc = "load"
    /\ mpc' = IF doneSeen \/ state \in {"DONE", "ERROR"} THEN "finalized" ELSE "poll"
    /\ UNCHANGED <<ring, job, shutdown, worker, doneSeen, wakeups, missed, sent>>

(* MG_EV_CLOSE, because the client left or the manager is being freed      *)
(* after shutdown; cancel is written first and mgr second.                 *)
Close ==
    /\ mpc = "poll"
    /\ cancel' = TRUE
    /\ mpc' = "closing"
    /\ UNCHANGED <<ring, mgr, state, shutdown, worker, doneSeen, wakeups, missed, sent>>

CloseClearMgr ==
    /\ mpc = "closing"
    /\ mgr' = FALSE
    /\ mpc' = "gone"
    /\ UNCHANGED <<ring, cancel, state, shutdown, worker, doneSeen, wakeups, missed, sent>>

(* SIGTERM or SIGINT: signal_handler.                                      *)
Signal ==
    /\ ~shutdown
    /\ shutdown' = TRUE
    /\ UNCHANGED <<ring, job, worker, loop>>

(* Both threads are through with the job.                                  *)
Terminated ==
    /\ wpc = "exit" /\ mpc \in {"finalized", "gone"}
    /\ UNCHANGED vars

Worker ==
    \/ GenToken \/ GenStop \/ Probe \/ RingBlock \/ WaitTimeout \/ RingRefuse
    \/ RingPut \/ Wake \/ RingDone \/ SetState \/ FinalWake

EventLoop == OnWakeup \/ Drain \/ CheckDone \/ LoadState \/ CloseClearMgr

Environment == Close \/ Signal

Next == Worker \/ EventLoop \/ Environment \/ Terminated

Spec == Init /\ [][Next]_vars

(***************************************************************************)
(* Both threads are scheduled; a started generation need not stop by       *)
(* itself before MaxTokens but the loop does take its next step; after a   *)
(* signal server_run leaves its loop and the manager closes the            *)
(* connection.  Nothing obliges a client to stay.                          *)
(***************************************************************************)
Fairness ==
    /\ WF_vars(Worker)
    /\ WF_vars(EventLoop)
    /\ WF_vars(shutdown /\ Close)

FairSpec == Spec /\ Fairness

-----------------------------------------------------------------------------
(***************************************************************************)
(* Properties.                                                             *)
(***************************************************************************)

Generating == {"gen", "probe", "write", "wait", "wake"}
Wpcs == Generating \cup {"ringdone", "state", "final", "exit"}
Mpcs == {"poll", "drain", "check", "load", "finalized", "closing", "gone"}

(* The types of the ring's fields, the job's flags and both threads.       *)
TypeOK ==
    /\ text \in [Slots -> TokenText] /\ head \in Slots /\ tail \in Slots
    /\ done \in BOOLEAN /\ cancel \in BOOLEAN /\ mgr \in BOOLEAN
    /\ state \in {"RUNNING", "DONE", "ERROR"} /\ shutdown \in BOOLEAN
    /\ wpc \in Wpcs /\ wasEmpty \in BOOLEAN /\ sinceWake \in Nat /\ written \in Nat
    /\ mpc \in Mpcs /\ doneSeen \in BOOLEAN /\ wakeups \in Nat /\ missed \in BOOLEAN
    /\ sent \in Seq(TokenText)

(* Whatever ring_write and the batch drain interleave to, the client's     *)
(* stream is the tokens written, in order, none twice and none skipped,    *)
(* and the ring holds exactly the ones not yet sent.                       *)
InOrder ==
    /\ \A i \in 1..Len(sent) : sent[i] = Stored(i)
    /\ Len(sent) + Count = written

(* A worker blocked in ring_write on a full ring has a wakeup on its way   *)
(* to the event loop: batching never leaves both threads waiting, only a   *)
(* wakeup that the pipe refused can (worker.c:120).                        *)
NoStall ==
    wpc \in {"write", "wait"} /\ ring_is_full /\ mpc = "poll" => wakeups > 0 \/ missed

(* With no wakeup pending or refused and the event loop idle at most       *)
(* WakeBatch tokens wait unsent (stream_token_cb's "every 8 tokens").      *)
BoundedLag ==
    mpc = "poll" /\ wakeups = 0 /\ ~missed => Count <= WakeBatch

(* The final chunk and "[DONE]" are sent only once the generation loop has *)
(* been left, so finish_reason and the token counts are final.             *)
FinalAfterGeneration ==
    mpc = "finalized" => wpc \notin Generating \cup {"ringdone"}

(* The client is answered to the end unless its connection closes or the   *)
(* last wakeup for it was refused by the pipe (worker.c:120, 285); refused *)
(* ones that a delivered one follows do no harm.                           *)
EventuallyEnded == <>(mpc \in {"finalized", "gone"}) \/ <>[]missed

(* After a disconnect or a signal the worker gets out of ring_write and    *)
(* out of the job, even if it was blocked on a full ring.                  *)
CancelReleasesWorker == (cancel \/ shutdown) ~> (wpc = "exit")

(* The ring, the batched wakeups and the drain implement the abstract      *)
(* stream: its tokens in flight are the ring's, and it is open until the   *)
(* final chunk is sent or cancel is set.                                   *)
Stream == INSTANCE TokenStream WITH
    Capacity   <- RingSize - 1,
    Text       <- Stored,
    produced   <- written,
    generating <- wpc \in Generating,
    received   <- sent,
    phase      <- IF mpc = "finalized" THEN "ended"
                  ELSE IF mpc \in {"closing", "gone"} THEN "dropped"
                  ELSE "open"

ImplementsStream == Stream!StreamSpec

(* "loop per token ... data: {delta}": a stream that is ended by the final *)
(* chunk carries every token the worker wrote to the ring.                 *)
NoTruncation == mpc = "finalized" => Len(sent) = written
=============================================================================
