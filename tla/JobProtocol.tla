---------------------------- MODULE JobProtocol ----------------------------
(***************************************************************************)
(* Who owns an inference job: the event-loop thread allocates it           *)
(* (submit_inference_job), hands it to the single worker thread            *)
(* (worker_submit), answers the client and frees it (drain_stream_ring),   *)
(* or gives it up when the connection closes (MG_EV_CLOSE), after which    *)
(* the worker is to free it (worker_thread_func).                          *)
(*                                                                         *)
(* Grain: a critical section of w->mutex is one step; every unlocked       *)
(* access to memory the other thread writes or frees is a step of its own. *)
(* Tokens are counted only (TokenRing models the ring).                    *)
(*                                                                         *)
(* Memory: malloc may hand out any free address again.  An access through  *)
(* a pointer whose job has been freed is undefined; the first one is       *)
(* recorded in `fault`, and it proceeds with what the memory holds: the    *)
(* old job's fields, or the new job's if the address was reused.           *)
(***************************************************************************)
EXTENDS Naturals, FiniteSets

CONSTANTS
    Conns,        \* client connections (mongoose never reuses an id)
    Addrs,        \* addresses calloc may return for a worker_job_t
    NULL,
    Streams,      \* values of "stream" clients send, a subset of BOOLEAN
    MaxRequests,  \* bound: inference requests a connection makes
    MaxTokens,    \* bound: tokens a streaming job announces by mg_wakeup
    MaxLost       \* bound: wakeups lost in a behaviour

ASSUME ConstantsAssumption ==
    /\ NULL \notin Addrs /\ NULL \notin Conns
    /\ Streams \subseteq BOOLEAN
    /\ MaxRequests \in Nat /\ MaxTokens \in Nat /\ MaxLost \in Nat

VARIABLES
    mem,                   \* worker_job_t at each address
    current_job, running,  \* worker_t
    shutdown,              \* g_shutdown_requested
    wpc, job, tokens,      \* worker thread: pc, local `job`, tokens announced
    mpc, inLoop,           \* event-loop thread: pc, still in server_run
    conn, ptr, flag,       \* its locals: connection, job pointer, a value read
    open, cd_job, requests, wakeups,  \* connections and pending MG_EV_WAKEUP
    missed,                \* history: connections a wakeup of which was lost
    dangling,              \* history: pointers whose job has been freed
    fault                  \* history: the first undefined access

memory == <<mem, dangling, fault>>
shared == <<current_job, running, shutdown>>
worker == <<wpc, job, tokens>>
loop   == <<mpc, inLoop, conn, ptr, flag>>
net    == <<open, cd_job, requests, wakeups, missed>>
vars   == <<memory, shared, worker, loop, net>>

(* calloc + worker_job_init + the fields submit_inference_job sets.        *)
NewJob(c, s) ==
    [live |-> TRUE, conn |-> c, stream |-> s, state |-> "IDLE",
     cancel |-> FALSE, orphaned |-> FALSE, mgr |-> TRUE,
     done |-> FALSE, unread |-> 0, ran |-> FALSE]

(* The pointers that outlive a handler or are read without the mutex.      *)
Target == [job |-> job, current_job |-> current_job, ptr |-> ptr]

(* The job at address a is freed: worker_job_free, free.                   *)
Free(a) ==
    /\ mem' = [mem EXCEPT ![a].live = FALSE]
    /\ dangling' = dangling \cup {p \in DOMAIN Target : Target[p] = a}

(* Pointer p is set to the value of pointer q, or to a new job.            *)
Copy(p, q) ==
    dangling' = IF q \in dangling THEN dangling \cup {p} ELSE dangling \ {p}

(* The access `kind` goes through pointer p.                               *)
Touch(p, kind) ==
    fault' = IF fault = "none" /\ p \in dangling THEN kind ELSE fault

(* The access `kind` goes through the job of connection c.                 *)
TouchOwn(c, kind) ==
    fault' = IF fault = "none" /\ ~(mem[cd_job[c]].live /\ mem[cd_job[c]].conn = c)
               THEN kind ELSE fault

Unfinished(a) == mem[a].state \in {"IDLE", "RUNNING"}
Finished(a)   == mem[a].state \in {"DONE", "ERROR"}

(* Where the event loop is between two events.                             *)
Home == IF inLoop THEN "poll" ELSE "destroy"

Init ==
    /\ mem = [a \in Addrs |-> [NewJob(NULL, FALSE) EXCEPT !.live = FALSE]]
    /\ current_job = NULL /\ running = TRUE /\ shutdown = FALSE
    /\ wpc = "pick" /\ job = NULL /\ tokens = 0
    /\ mpc = "poll" /\ inLoop = TRUE /\ conn = NULL /\ ptr = NULL /\ flag = FALSE
    /\ open = [c \in Conns |-> "open"] /\ cd_job = [c \in Conns |-> NULL]
    /\ requests = [c \in Conns |-> 0] /\ wakeups = [c \in Conns |-> 0] /\ missed = {}
    /\ dangling = {} /\ fault = "none"

-----------------------------------------------------------------------------
(***************************************************************************)
(* Worker thread: worker_thread_func.                                      *)
(***************************************************************************)

(* Mutant: `if` instead of `while` around pthread_cond_wait.               *)
MutantPick ==
    /\ wpc = "pick"
    /\ wpc' = IF running THEN "start" ELSE "exit"
    /\ job' = current_job
    /\ Copy("job", "current_job")
    /\ tokens' = 0
    /\ UNCHANGED <<mem, fault, shared, loop, net>>

(* The loop's critical section: leave, wait on job_ready, or take the job. *)
Pick ==
    /\ wpc = "pick"
    /\ wpc' = IF ~running THEN "exit" ELSE IF current_job = NULL THEN "wait" ELSE "start"
    /\ job' = IF running /\ current_job # NULL THEN current_job ELSE job
    /\ Copy("job", "current_job")
    /\ tokens' = 0
    /\ UNCHANGED <<mem, fault, shared, loop, net>>

(* pthread_cond_wait may return without a signal.                          *)
SpuriousWakeup ==
    /\ wpc = "wait"
    /\ wpc' = "pick"
    /\ UNCHANGED <<memory, shared, job, tokens, loop, net>>

Start ==
    /\ wpc = "start"
    /\ mem' = [mem EXCEPT ![job].state = "RUNNING"]
    /\ Touch("job", "run")
    /\ wpc' = "run"
    /\ UNCHANGED <<dangling, shared, job, tokens, loop, net>>

(* mg_wakeup(job->mgr, job->wakeup_id): mgr, found set before, is loaded   *)
(* again or kept in a register.  A wakeup for a closed connection is       *)
(* dropped, and one a full pipe refuses is lost: the result is ignored.    *)
SendWakeup(kind) ==
    /\ \/ Touch("job", kind)
       \/ /\ "job" \notin dangling /\ ~mem[job].mgr
          /\ fault' = IF fault = "none" THEN "null_mgr" ELSE fault
    /\ \/ /\ wakeups' = IF open[mem[job].conn] = "closed" THEN wakeups
                        ELSE [wakeups EXCEPT ![mem[job].conn] = @ + 1]
          /\ UNCHANGED missed
       \/ /\ Cardinality(missed) < MaxLost
          /\ missed' = missed \union {mem[job].conn}
          /\ UNCHANGED wakeups
    /\ UNCHANGED <<mem, dangling, shared, job, tokens, loop, open, cd_job, requests>>

(* inference hands a token to stream_token_cb, which puts it into the ring *)
(* and, depending on the batching and on mgr, wakes the connection.        *)
Token ==
    /\ wpc = "run" /\ mem[job].stream /\ tokens < MaxTokens
    /\ ~shutdown /\ ~mem[job].cancel
    /\ mem' = [mem EXCEPT ![job].unread = @ + 1]
    /\ Touch("job", "run")
    /\ tokens' = tokens + 1
    /\ wpc' \in IF mem[job].mgr THEN {"run", "announce"} ELSE {"run"}
    /\ UNCHANGED <<dangling, shared, job, loop, net>>

Announce ==
    /\ wpc = "announce"
    /\ SendWakeup("run")
    /\ wpc' = "run"

(* Inference returns: end, limit, error, or abort after cancel/shutdown.   *)
InferenceReturns ==
    /\ wpc = "run"
    /\ mem' = [mem EXCEPT ![job].ran = TRUE]
    /\ Touch("job", "run")
    /\ wpc' = IF mem[job].stream THEN "ringdone" ELSE "store"
    /\ UNCHANGED <<dangling, shared, job, tokens, loop, net>>

RingDone ==
    /\ wpc = "ringdone"
    /\ mem' = [mem EXCEPT ![job].done = TRUE]
    /\ Touch("job", "run")
    /\ wpc' = "store"
    /\ UNCHANGED <<dangling, shared, job, tokens, loop, net>>

StoreState ==
    /\ wpc = "store"
    /\ \E s \in {"DONE", "ERROR"} : mem' = [mem EXCEPT ![job].state = s]
    /\ Touch("job", "late_store")
    /\ wpc' = "log"
    /\ UNCHANGED <<dangling, shared, job, tokens, loop, net>>

(* model_id, token counts and finish_reason are read for the log.          *)
LogDelivery ==
    /\ wpc = "log"
    /\ Touch("job", "late_log")
    /\ wpc' = "clear"
    /\ UNCHANGED <<mem, dangling, shared, job, tokens, loop, net>>

(* Mutant: current_job is left pointing to the finished job.               *)
MutantClearCurrent ==
    /\ wpc = "clear"
    /\ wpc' = "orphan"
    /\ UNCHANGED <<memory, shared, job, tokens, loop, net>>

ClearCurrent ==
    /\ wpc = "clear"
    /\ current_job' = NULL
    /\ dangling' = dangling \ {"current_job"}
    /\ wpc' = "orphan"
    /\ UNCHANGED <<mem, fault, running, shutdown, job, tokens, loop, net>>

(* Mutant: cancel is taken for orphaned.                                   *)
MutantCheckOrphaned ==
    /\ wpc = "orphan"
    /\ Touch("job", "late_orphan")
    /\ IF mem[job].cancel
         THEN Free(job) /\ wpc' = "pick"
         ELSE UNCHANGED <<mem, dangling>> /\ wpc' = "mgr"
    /\ UNCHANGED <<shared, job, tokens, loop, net>>

(* An orphaned job is freed: worker_job_free, free.                        *)
CheckOrphaned ==
    /\ wpc = "orphan"
    /\ Touch("job", "late_orphan")
    /\ IF mem[job].orphaned
         THEN Free(job) /\ wpc' = "pick"
         ELSE UNCHANGED <<mem, dangling>> /\ wpc' = "mgr"
    /\ UNCHANGED <<shared, job, tokens, loop, net>>

(* Mutant: no wakeup for the final response.                               *)
MutantCheckMgr ==
    /\ wpc = "mgr"
    /\ Touch("job", "late_wake")
    /\ wpc' = "pick"
    /\ UNCHANGED <<mem, dangling, shared, job, tokens, loop, net>>

CheckMgr ==
    /\ wpc = "mgr"
    /\ Touch("job", "late_wake")
    /\ wpc' = IF mem[job].mgr THEN "send" ELSE "pick"
    /\ UNCHANGED <<mem, dangling, shared, job, tokens, loop, net>>

(* The final wakeup of worker_thread_func.                                 *)
FinalWakeup ==
    /\ wpc = "send"
    /\ SendWakeup("late_wake")
    /\ wpc' = "pick"

Worker ==
    \/ Pick \/ Start \/ Token \/ Announce \/ InferenceReturns \/ RingDone \/ StoreState
    \/ LogDelivery \/ ClearCurrent \/ CheckOrphaned \/ CheckMgr \/ FinalWakeup

-----------------------------------------------------------------------------
(***************************************************************************)
(* Event-loop thread: a POST to an inference endpoint.                     *)
(***************************************************************************)

(* MG_EV_HTTP_MSG on a connection that waits for no response.  worker_is_  *)
(* busy reads the pointer without the mutex ...                            *)
Request(c) ==
    /\ mpc = "poll" /\ open[c] = "open" /\ cd_job[c] = NULL
    /\ requests[c] < MaxRequests
    /\ requests' = [requests EXCEPT ![c] = @ + 1]
    /\ conn' = c /\ ptr' = current_job /\ Copy("ptr", "current_job")
    /\ mpc' = IF current_job = NULL THEN "alloc" ELSE "busy"
    /\ UNCHANGED <<mem, fault, shared, worker, inLoop, flag, open, cd_job, wakeups, missed>>

(* ... and then the state behind it; a busy worker is answered by 503.     *)
IsBusy ==
    /\ mpc = "busy"
    /\ Touch("ptr", "busy_read")
    /\ mpc' = IF Unfinished(ptr) THEN Home ELSE "alloc"
    /\ UNCHANGED <<mem, dangling, shared, worker, inLoop, conn, ptr, flag, net>>

(* calloc succeeds with some free address, or fails (500).                 *)
Allocate ==
    /\ mpc = "alloc"
    /\ \/ \E a \in Addrs, s \in Streams :
            /\ ~mem[a].live
            /\ mem' = [mem EXCEPT ![a] = NewJob(conn, s)]
            /\ ptr' = a /\ dangling' = dangling \ {"ptr"} /\ mpc' = "submit"
       \/ mpc' = Home /\ UNCHANGED <<mem, dangling, ptr>>
    /\ UNCHANGED <<fault, shared, worker, inLoop, conn, flag, net>>

(* The body does not parse: the job is freed, 400.                         *)
ParseFails ==
    /\ mpc = "submit"
    /\ Free(ptr)
    /\ mpc' = Home
    /\ UNCHANGED <<fault, shared, worker, inLoop, conn, ptr, flag, net>>

(* worker_submit under w->mutex; a refused job is freed (503).             *)
Submit ==
    /\ mpc = "submit"
    /\ Touch("current_job", "submit_read")
    /\ IF current_job # NULL /\ Unfinished(current_job)
         THEN Free(ptr) /\ UNCHANGED <<current_job, wpc, cd_job>>
         ELSE /\ current_job' = ptr /\ Copy("current_job", "ptr")
              /\ mem' = [mem EXCEPT ![ptr].state = "IDLE", ![ptr].cancel = FALSE]
              /\ wpc' = IF wpc = "wait" THEN "pick" ELSE wpc
              /\ cd_job' = [cd_job EXCEPT ![conn] = ptr]
    /\ mpc' = Home
    /\ UNCHANGED <<running, shutdown, job, tokens, inLoop, conn, ptr, flag,
                   open, requests, wakeups, missed>>

-----------------------------------------------------------------------------
(***************************************************************************)
(* Event-loop thread: wakeups, answers, closing, shutdown.                 *)
(***************************************************************************)

(* The answer is sent; the job and the connection data are freed.          *)
FinalizeJob(c) ==
    /\ Free(cd_job[c])
    /\ cd_job' = [cd_job EXCEPT ![c] = NULL]

(* MG_EV_WAKEUP for a connection without a job, or with a non-streaming    *)
(* one: answer it if it is finished.                                       *)
OnWakeup(c) ==
    /\ mpc = "poll" /\ open[c] # "closed" /\ wakeups[c] > 0
    /\ wakeups' = [wakeups EXCEPT ![c] = @ - 1]
    /\ cd_job[c] # NULL => ~mem[cd_job[c]].stream
    /\ IF cd_job[c] = NULL
         THEN UNCHANGED <<memory, cd_job>>
         ELSE /\ TouchOwn(c, "drain")
              /\ IF Finished(cd_job[c]) THEN FinalizeJob(c) ELSE UNCHANGED <<mem, dangling, cd_job>>
    /\ UNCHANGED <<shared, worker, loop, open, requests, missed>>

(* MG_EV_WAKEUP for a streaming job: the ring is drained ...               *)
OnStreamWakeup(c) ==
    /\ mpc = "poll" /\ open[c] # "closed" /\ wakeups[c] > 0
    /\ cd_job[c] # NULL /\ mem[cd_job[c]].stream
    /\ wakeups' = [wakeups EXCEPT ![c] = @ - 1]
    /\ mem' = [mem EXCEPT ![cd_job[c]].unread = 0]
    /\ TouchOwn(c, "drain")
    /\ conn' = c /\ mpc' = "check"
    /\ UNCHANGED <<dangling, shared, worker, inLoop, ptr, flag, open, cd_job, requests, missed>>

(* Mutant: an empty ring is taken for a finished one.                      *)
MutantCheckDone ==
    /\ mpc = "check"
    /\ TouchOwn(conn, "drain")
    /\ flag' = (mem[cd_job[conn]].unread = 0)
    /\ mpc' = "load"
    /\ UNCHANGED <<mem, dangling, shared, worker, inLoop, conn, ptr, net>>

(* ... ring.done && empty is read under the ring's mutex ...               *)
CheckDone ==
    /\ mpc = "check"
    /\ TouchOwn(conn, "drain")
    /\ flag' = (mem[cd_job[conn]].done /\ mem[cd_job[conn]].unread = 0)
    /\ mpc' = "load"
    /\ UNCHANGED <<mem, dangling, shared, worker, inLoop, conn, ptr, net>>

(* ... and the state is loaded; at the end the connection is drained.      *)
LoadState ==
    /\ mpc = "load"
    /\ TouchOwn(conn, "drain")
    /\ IF flag \/ Finished(cd_job[conn])
         THEN FinalizeJob(conn) /\ open' = [open EXCEPT ![conn] = "draining"]
         ELSE UNCHANGED <<mem, dangling, open, cd_job>>
    /\ mpc' = Home
    /\ UNCHANGED <<shared, worker, inLoop, conn, ptr, flag, requests, wakeups, missed>>

(* server_run updates stats->generating: worker_is_busy once more.         *)
StatsRead ==
    /\ mpc = "poll" /\ current_job # NULL
    /\ ptr' = current_job /\ Copy("ptr", "current_job") /\ mpc' = "stats"
    /\ UNCHANGED <<mem, fault, shared, worker, inLoop, conn, flag, net>>

StatsLoad ==
    /\ mpc = "stats"
    /\ Touch("ptr", "busy_read")
    /\ mpc' = Home
    /\ UNCHANGED <<mem, dangling, shared, worker, inLoop, conn, ptr, flag, net>>

Forget(c) ==
    /\ open' = [open EXCEPT ![c] = "closed"]
    /\ wakeups' = [wakeups EXCEPT ![c] = 0]

(* MG_EV_CLOSE: the client left, a drained response ended, or the manager  *)
(* is freed.  With a job: cancel, mgr and orphaned are written in turn.    *)
Close(c) ==
    /\ mpc \in {"poll", "destroy"} /\ open[c] # "closed"
    /\ IF cd_job[c] = NULL
         THEN Forget(c) /\ UNCHANGED <<memory, mpc, conn>>
         ELSE /\ mem' = [mem EXCEPT ![cd_job[c]].cancel = TRUE]
              /\ TouchOwn(c, "close")
              /\ conn' = c /\ mpc' = "close_mgr"
              /\ UNCHANGED <<dangling, open, wakeups>>
    /\ UNCHANGED <<shared, worker, inLoop, ptr, flag, cd_job, requests, missed>>

CloseMgr ==
    /\ mpc = "close_mgr"
    /\ mem' = [mem EXCEPT ![cd_job[conn]].mgr = FALSE]
    /\ TouchOwn(conn, "close")
    /\ mpc' = "close_orphan"
    /\ UNCHANGED <<dangling, shared, worker, inLoop, conn, ptr, flag, net>>

(* Mutant: the event loop frees the job instead of leaving it behind.      *)
MutantCloseOrphan ==
    /\ mpc = "close_orphan"
    /\ Free(cd_job[conn])
    /\ TouchOwn(conn, "close")
    /\ cd_job' = [cd_job EXCEPT ![conn] = NULL]
    /\ Forget(conn)
    /\ mpc' = Home
    /\ UNCHANGED <<shared, worker, inLoop, conn, ptr, flag, requests, missed>>

CloseOrphan ==
    /\ mpc = "close_orphan"
    /\ mem' = [mem EXCEPT ![cd_job[conn]].orphaned = TRUE]
    /\ TouchOwn(conn, "close")
    /\ cd_job' = [cd_job EXCEPT ![conn] = NULL]
    /\ Forget(conn)
    /\ mpc' = Home
    /\ UNCHANGED <<dangling, shared, worker, inLoop, conn, ptr, flag, requests, missed>>

(* signal_handler: SIGTERM or SIGINT.                                      *)
Signal ==
    /\ ~shutdown
    /\ shutdown' = TRUE
    /\ UNCHANGED <<memory, current_job, running, worker, loop, net>>

(* server_run's loop ends and server_destroy frees the manager.            *)
LeaveLoop ==
    /\ mpc = "poll" /\ shutdown
    /\ mpc' = "destroy" /\ inLoop' = FALSE
    /\ UNCHANGED <<memory, shared, worker, conn, ptr, flag, net>>

(* worker_cancel, once every connection is closed.                         *)
CancelWorker ==
    /\ mpc = "destroy" /\ \A c \in Conns : open[c] = "closed"
    /\ IF current_job = NULL
         THEN UNCHANGED memory
         ELSE /\ mem' = [mem EXCEPT ![current_job].cancel = TRUE]
              /\ Touch("current_job", "cancel_write") /\ UNCHANGED dangling
    /\ mpc' = "stop"
    /\ UNCHANGED <<shared, worker, inLoop, conn, ptr, flag, net>>

(* Mutant: the worker waiting for a job is not signalled.                  *)
MutantStopWorker ==
    /\ mpc = "stop"
    /\ running' = FALSE
    /\ mpc' = "join"
    /\ UNCHANGED <<memory, current_job, shutdown, worker, inLoop, conn, ptr, flag, net>>

(* worker_destroy: running = 0 and a signal, then join.                    *)
StopWorker ==
    /\ mpc = "stop"
    /\ running' = FALSE
    /\ wpc' = IF wpc = "wait" THEN "pick" ELSE wpc
    /\ mpc' = "join"
    /\ UNCHANGED <<memory, current_job, shutdown, job, tokens, inLoop, conn, ptr, flag, net>>

Join ==
    /\ mpc = "join" /\ wpc = "exit"
    /\ mpc' = "exited"
    /\ UNCHANGED <<memory, shared, worker, inLoop, conn, ptr, flag, net>>

Exited ==
    /\ mpc = "exited"
    /\ UNCHANGED vars

(* Steps of a handler already running, and of the shutdown sequence.       *)
Handler ==
    \/ IsBusy \/ Allocate \/ ParseFails \/ Submit \/ CheckDone \/ LoadState \/ StatsLoad
    \/ CloseMgr \/ CloseOrphan \/ CancelWorker \/ StopWorker \/ Join
    \/ mpc = "destroy" /\ \E c \in Conns : Close(c)

Wakeup == \E c \in Conns : OnWakeup(c) \/ OnStreamWakeup(c)

Next ==
    \/ Worker \/ SpuriousWakeup \/ Handler \/ Wakeup \/ LeaveLoop \/ StatsRead \/ Signal \/ Exited
    \/ \E c \in Conns : Request(c) \/ Close(c)

Spec == Init /\ [][Next]_vars

(***************************************************************************)
(* Both threads run.  Every turn of server_run polls the wakeup pipe and   *)
(* tests g_shutdown_requested, whatever handlers and statistics it ran in  *)
(* between, hence strong fairness.  Clients need neither send nor leave.   *)
(***************************************************************************)
Fairness ==
    /\ WF_vars(Worker) /\ WF_vars(Handler) /\ SF_vars(LeaveLoop)
    /\ \A c \in Conns : SF_vars(OnWakeup(c)) /\ SF_vars(OnStreamWakeup(c))

FairSpec == Spec /\ Fairness

-----------------------------------------------------------------------------
(***************************************************************************)
(* Properties.                                                             *)
(***************************************************************************)

Faults == {"none", "run", "late_store", "late_log", "late_orphan", "late_wake", "null_mgr",
           "busy_read", "submit_read", "cancel_write", "drain", "close"}

JobStates == {"IDLE", "RUNNING", "DONE", "ERROR"}

Job == [live : BOOLEAN, conn : Conns \cup {NULL}, stream : BOOLEAN, state : JobStates,
        cancel : BOOLEAN, orphaned : BOOLEAN, mgr : BOOLEAN, done : BOOLEAN,
        unread : Nat, ran : BOOLEAN]

(* The worker still has to look at `orphaned` for the job it is running.   *)
Serving == {"start", "run", "announce", "ringdone", "store", "log", "clear", "orphan"}

(* Types of the job memory, of worker_t, of both threads, of connections.  *)
TypeOK ==
    /\ mem \in [Addrs -> Job] /\ dangling \subseteq DOMAIN Target /\ fault \in Faults
    /\ current_job \in Addrs \cup {NULL} /\ running \in BOOLEAN /\ shutdown \in BOOLEAN
    /\ wpc \in Serving \cup {"pick", "wait", "mgr", "send", "exit"}
    /\ job \in Addrs \cup {NULL} /\ tokens \in Nat
    /\ wpc \in Serving \cup {"mgr", "send"} => job \in Addrs
    /\ mpc \in {"poll", "busy", "alloc", "submit", "check", "load", "stats", "close_mgr",
                "close_orphan", "destroy", "stop", "join", "exited"}
    /\ inLoop \in BOOLEAN /\ flag \in BOOLEAN
    /\ conn \in Conns \cup {NULL} /\ ptr \in Addrs \cup {NULL}
    /\ open \in [Conns -> {"open", "draining", "closed"}]
    /\ cd_job \in [Conns -> Addrs \cup {NULL}]
    /\ requests \in [Conns -> Nat] /\ wakeups \in [Conns -> Nat] /\ missed \subseteq Conns

(* A connection's pending job is allocated, is the one created for that    *)
(* connection and has not been given up to the worker: event loop and      *)
(* worker never both have it to free.                                      *)
OwnedByConn ==
    fault = "none" =>
      \A c \in Conns : cd_job[c] # NULL =>
        /\ mem[cd_job[c]].live /\ ~mem[cd_job[c]].orphaned
        /\ mem[cd_job[c]].conn = c /\ open[c] = "open"

(* Inference, ring draining and MG_EV_CLOSE never are the first to touch   *)
(* (and so free again) a freed job, however the threads interleave.        *)
ServingIsSafe == fault \notin {"run", "drain", "close"}

(* Jobs without streaming: the event loop frees them only after the        *)
(* worker's last access; what is left are the unlocked worker_is_busy and  *)
(* the second read of mgr.                                                 *)
BlockingJobsSafe == fault \in {"none", "busy_read", "null_mgr"}

(***************************************************************************)
(* The protocol as JobService sees it.  A job is accepted once it belongs  *)
(* to a connection's data or has been given up by it; the inference runs   *)
(* from Pick to its return.                                                *)
(***************************************************************************)
Inferring == wpc \in {"start", "run", "announce"}

Phase(c) == IF open[c] = "closed" THEN "closed"
            ELSE IF cd_job[c] # NULL THEN "waiting"
            ELSE IF open[c] = "draining" THEN "ending" ELSE "open"

NotYetRun(a) ==
    mem[a].live /\ ~mem[a].ran /\ ~(Inferring /\ job = a)
      /\ (mem[a].orphaned \/ cd_job[mem[a].conn] = a)

Service == INSTANCE JobService WITH
    None     <- NULL,
    phase    <- [c \in Conns |-> Phase(c)],
    pending  <- {mem[a].conn : a \in {a \in Addrs : NotYetRun(a)}},
    running  <- IF Inferring THEN mem[job].conn ELSE NULL,
    returned <- {c \in Conns : cd_job[c] # NULL /\ mem[cd_job[c]].ran}

(* Up to the first access to freed memory the two threads implement        *)
(* JobService: never two inferences at a time, no job run twice, no client *)
(* answered from another's job or before its own inference has returned.   *)
ImplementsService ==
    Service!Init /\ [][fault' # "none" \/ Service!Next]_(Service!vars)

(* A job the worker has taken is answered, or its connection closes, in    *)
(* every interleaving of the two threads; the one way to leave a client    *)
(* without an answer is a wakeup the pipe refused (worker.c:285).          *)
TakenIsAnswered ==
    \A c \in Conns :
      (wpc = "start" /\ cd_job[c] = job /\ fault = "none")
        ~> (cd_job[c] = NULL \/ c \in missed)

(* SIGTERM or SIGINT ends the process: the loop is left, connections are   *)
(* closed, the worker stops generating, wakes up and is joined, even when  *)
(* clients still wait for an answer whose wakeup was lost.                 *)
ShutdownCompletes == shutdown ~> (mpc = "exited")

(* "running: worker accepts job": a job worker_submit accepted is the      *)
(* worker's current job until the worker takes it.                         *)
AcceptedIsRun ==
    \A c \in Conns : cd_job[c] # NULL /\ mem[cd_job[c]].state = "IDLE" =>
      cd_job[c] = current_job \/ (wpc \in Serving /\ cd_job[c] = job)

(* "Clear current_job BEFORE wakeup": the job is answered and freed by the *)
(* event loop only after the worker is through with it.                    *)
NoUseAfterFree == fault \in {"none", "null_mgr"}
=============================================================================
