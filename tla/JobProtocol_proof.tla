------------------------- MODULE JobProtocol_proof -------------------------
(***************************************************************************)
(* Theorems about JobProtocol for any number of connections, job           *)
(* addresses, requests, tokens and lost wakeups.                           *)
(***************************************************************************)
EXTENDS JobProtocol, FiniteSetTheorems, TLAPS

(* Where the worker thread uses its local variable job.                    *)
Busy == Serving \cup {"mgr", "send"}

(* Where it holds a job nobody else may free.                              *)
Exclusive == {"start", "run", "announce", "ringdone"}

(* From taking a job to clearing current_job.                              *)
Taken == Exclusive \cup {"store", "log", "clear"}

-----------------------------------------------------------------------------
(* What holds whether or not freed memory has been accessed                *)

(* Every job a thread works for has a connection.                          *)
Connected ==
    /\ current_job # NULL => mem[current_job].conn \in Conns
    /\ wpc \in Busy => mem[job].conn \in Conns
    /\ mpc \in {"busy", "alloc", "submit"} => conn \in Conns
    /\ mpc \in {"busy", "submit", "stats"} => ptr \in Addrs
    /\ mpc = "submit" => mem[ptr].conn \in Conns
    /\ mpc \in {"check", "load", "close_mgr", "close_orphan"} =>
         conn \in Conns /\ cd_job[conn] # NULL

(* A pointer that does not dangle points to a job.                         *)
Pointing ==
    /\ current_job = NULL => "current_job" \notin dangling
    /\ current_job # NULL /\ "current_job" \notin dangling => mem[current_job].live
    /\ wpc \in Busy /\ "job" \notin dangling => mem[job].live
    /\ ptr # NULL /\ "ptr" \notin dangling => mem[ptr].live

-----------------------------------------------------------------------------
(* What holds until freed memory is accessed                               *)

(* A connection answers for the job, or has left it to the worker.         *)
Claimed(a) == mem[a].orphaned \/ cd_job[mem[a].conn] = a

(* A connection's job is its own.                                          *)
Owned(c) ==
    cd_job[c] # NULL =>
      /\ mem[cd_job[c]].live /\ ~mem[cd_job[c]].orphaned
      /\ mem[cd_job[c]].conn = c /\ open[c] = "open"

(* An allocated job ran before it was finished, and was left behind only   *)
(* by a connection that is closed.                                         *)
Sane(a) ==
    mem[a].live =>
      /\ mem[a].conn \in Conns
      /\ Finished(a) \/ mem[a].done => mem[a].ran
      /\ mem[a].orphaned => open[mem[a].conn] = "closed"

(* A connection leaves one job behind, its last.                           *)
LastJob ==
    \A a, b \in Addrs :
       mem[a].live /\ mem[a].orphaned /\ mem[b].live /\ mem[b].orphaned
         /\ mem[a].conn = mem[b].conn => a = b

(* The job of a handler: a new one that nobody knows, or a connection's.   *)
Handling ==
    /\ mpc \in {"busy", "alloc", "submit"} => open[conn] = "open" /\ cd_job[conn] = NULL
    /\ mpc = "submit" =>
         /\ "ptr" \notin dangling /\ mem[ptr].conn = conn /\ ~mem[ptr].orphaned
         /\ ~mem[ptr].ran /\ ~mem[ptr].done
         /\ \A c \in Conns : cd_job[c] # ptr
         /\ current_job = ptr => "current_job" \in dangling
         /\ wpc \in Busy /\ job = ptr => "job" \in dangling
    /\ mpc = "load" /\ flag => mem[cd_job[conn]].done

(* The job the worker thread runs, as long as it is there.                 *)
Working ==
    /\ wpc \in Exclusive \cup {"store"} => current_job = job
    /\ wpc \in {"log", "clear"} => current_job # NULL
    /\ wpc \in Taken /\ current_job = job => ("job" \in dangling <=> "current_job" \in dangling)
    /\ wpc \in Exclusive => "job" \notin dangling /\ ~mem[job].done
    /\ wpc \in Busy /\ "job" \notin dangling =>
         /\ Claimed(job)
         /\ wpc = "start" => mem[job].state = "IDLE"
         /\ wpc \in {"run", "announce", "ringdone", "store"} => mem[job].state = "RUNNING"
         /\ wpc \in {"log", "clear", "orphan", "mgr", "send"} => Finished(job)
         /\ mem[job].ran <=> wpc \notin {"start", "run", "announce"}

(* The job that waits for the worker thread.                               *)
Waiting ==
    current_job # NULL /\ ~(wpc \in Taken /\ current_job = job) =>
      /\ "current_job" \notin dangling /\ Claimed(current_job)
      /\ mem[current_job].state = "IDLE"
      /\ ~mem[current_job].ran /\ ~mem[current_job].done

Clean ==
    /\ \A c \in Conns : Owned(c)
    /\ \A a \in Addrs : Sane(a)
    /\ LastJob /\ Handling /\ Working /\ Waiting

(* The first access to freed memory is none of those of ServingIsSafe.     *)
IInv ==
    /\ TypeOK /\ Connected /\ Pointing
    /\ ServingIsSafe
    /\ fault = "none" => Clean

-----------------------------------------------------------------------------
(* Jobs without streaming                                                  *)

(* No step of a streaming job is taken.                                    *)
NoStream ==
    /\ \A a \in Addrs : ~mem[a].stream
    /\ mpc \notin {"check", "load"} /\ wpc \notin {"announce", "ringdone"}

(* Only a handler's pointer may dangle.                                    *)
Holding ==
    /\ "current_job" \notin dangling
    /\ wpc \in Busy => "job" \notin dangling

(* A wakeup is pending only for a finished job the worker is through with. *)
Woken(c) ==
    wakeups[c] > 0 =>
      /\ wakeups[c] = 1 /\ cd_job[c] # NULL /\ Finished(cd_job[c])
      /\ ~(wpc \in Busy /\ job = cd_job[c])

BInv ==
    /\ NoStream /\ BlockingJobsSafe
    /\ fault = "none" => Holding /\ \A c \in Conns : Woken(c)

-----------------------------------------------------------------------------
(* Clients that wait                                                       *)

(* The worker thread is still to look at the job at address a.             *)
AtWork(a) == wpc \in Busy /\ job = a /\ "job" \notin dangling

(* Once the worker has taken the job of connection c, it is working on it, *)
(* or its wakeup is on the way, or the event loop is about to answer or to *)
(* close the connection; else the pipe refused the wakeup.                 *)
Attended(c) ==
    cd_job[c] # NULL =>
      /\ ~mem[cd_job[c]].mgr => mpc = "close_orphan" /\ conn = c
      /\ mem[cd_job[c]].state = "RUNNING" => AtWork(cd_job[c])
      /\ Finished(cd_job[c]) =>
           \/ AtWork(cd_job[c]) \/ wakeups[c] > 0 \/ c \in missed
           \/ conn = c /\ mpc \in {"check", "load", "close_mgr", "close_orphan"}

(* A job to be submitted has its manager.                                  *)
Tended == (mpc = "submit" => mem[ptr].mgr) /\ \A c \in Conns : Attended(c)

TInv == fault = "none" => Tended

(* No client is forgotten: from the moment the worker takes the job of a   *)
(* connection (worker.c:190) until the client has been answered, the       *)
(* worker thread is on that job, a wakeup for the connection is pending,   *)
(* the event loop is inside the handler that answers or closes it, or the  *)
(* pipe refused a wakeup (worker.c:285).                                   *)
NeverForgotten ==
    fault = "none" =>
      \A c \in Conns : cd_job[c] # NULL /\ mem[cd_job[c]].state # "IDLE" =>
        \/ wpc \in Busy /\ job = cd_job[c]
        \/ wakeups[c] > 0 \/ c \in missed
        \/ conn = c /\ mpc \in {"check", "load", "close_mgr", "close_orphan"}

(* The job of connection c waits for the worker or is being taken by it.   *)
Queued(c) ==
    mem[cd_job[c]].state = "IDLE" => cd_job[c] = current_job \/ AtWork(cd_job[c])

(* An accepted job drops out of the queue in one way only: the worker ends *)
(* the job before it and clears current_job (worker.c:275), which a submit *)
(* has meanwhile pointed to the new one.                                   *)
LostOnlyByClear ==
    fault' = "none" =>
      \A c \in Conns : cd_job[c] # NULL /\ cd_job'[c] = cd_job[c] /\ Queued(c) /\ ~Queued(c)' =>
        wpc = "clear" /\ current_job = cd_job[c]

(* The worker thread never sleeps over a job or over the shutdown: it      *)
(* waits on job_ready only while there is no job and it is to go on        *)
(* running (worker.c:179), so a join never waits for a sleeping worker.    *)
SleepsIdle == wpc = "wait" => running /\ current_job = NULL

-----------------------------------------------------------------------------
(* Types in parts                                                          *)

MemOK == mem \in [Addrs -> Job]

PointersOK ==
    /\ dangling \subseteq {"job", "current_job", "ptr"} /\ fault \in Faults
    /\ current_job \in Addrs \cup {NULL} /\ running \in BOOLEAN /\ shutdown \in BOOLEAN

WorkerOK ==
    /\ wpc \in Busy \cup {"pick", "wait", "exit"}
    /\ job \in Addrs \cup {NULL} /\ tokens \in Nat
    /\ wpc \in Busy => job \in Addrs

LoopOK ==
    /\ mpc \in {"poll", "busy", "alloc", "submit", "check", "load", "stats", "close_mgr",
                "close_orphan", "destroy", "stop", "join", "exited"}
    /\ inLoop \in BOOLEAN /\ flag \in BOOLEAN
    /\ conn \in Conns \cup {NULL} /\ ptr \in Addrs \cup {NULL}

NetOK ==
    /\ open \in [Conns -> {"open", "draining", "closed"}]
    /\ cd_job \in [Conns -> Addrs \cup {NULL}]
    /\ requests \in [Conns -> Nat] /\ wakeups \in [Conns -> Nat] /\ missed \subseteq Conns

(* The parts of the type invariant.                                        *)
LEMMA TypeParts == TypeOK <=> MemOK /\ PointersOK /\ WorkerOK /\ LoopOK /\ NetOK
  BY DEF TypeOK, MemOK, PointersOK, WorkerOK, LoopOK, NetOK, Busy, Target

(* The same of the next state.                                             *)
LEMMA TypePartsNext == TypeOK' <=> MemOK' /\ PointersOK' /\ WorkerOK' /\ LoopOK' /\ NetOK'
  BY DEF TypeOK, MemOK, PointersOK, WorkerOK, LoopOK, NetOK, Busy, Target


-----------------------------------------------------------------------------
(* Freeing a job                                                           *)

SameJob(b) ==
    /\ mem'[b].conn = mem[b].conn /\ mem'[b].stream = mem[b].stream
    /\ mem'[b].state = mem[b].state /\ mem'[b].orphaned = mem[b].orphaned
    /\ mem'[b].done = mem[b].done /\ mem'[b].ran = mem[b].ran

(* The job at a is freed if cond holds, and nothing else happens to jobs.  *)
Releases(a, cond) ==
    /\ \A b \in Addrs : SameJob(b) /\ (mem'[b].live <=> mem[b].live /\ ~(cond /\ b = a))
    /\ "job" \in dangling' <=> "job" \in dangling \/ (cond /\ job = a)
    /\ "current_job" \in dangling' <=> "current_job" \in dangling \/ (cond /\ current_job = a)
    /\ "ptr" \in dangling' <=> "ptr" \in dangling \/ (cond /\ ptr = a)
    /\ dangling' \subseteq {"job", "current_job", "ptr"}

(* free(a) leaves every other address alone and makes the pointers to a    *)
(* dangle.                                                                 *)
LEMMA FreeReleases ==
  ASSUME MemOK, PointersOK, NEW a \in Addrs, Free(a)
  PROVE  MemOK' /\ Releases(a, TRUE)
  <1>1. mem' = [mem EXCEPT ![a].live = FALSE]
    BY DEF Free
  <1>2. MemOK'
    BY <1>1 DEF MemOK, Job
  <1>3. ASSUME NEW b \in Addrs
        PROVE  SameJob(b) /\ (mem'[b].live <=> mem[b].live /\ b # a)
    BY <1>1 DEF MemOK, Job, SameJob
  <1>4. DOMAIN Target = {"job", "current_job", "ptr"}
        /\ Target["job"] = job /\ Target["current_job"] = current_job /\ Target["ptr"] = ptr
    BY DEF Target
  <1>5. dangling' = dangling \cup {q \in DOMAIN Target : Target[q] = a}
    BY DEF Free
  <1>6. dangling' \subseteq {"job", "current_job", "ptr"}
    BY <1>4, <1>5 DEF PointersOK
  <1>7. /\ "job" \in dangling' <=> "job" \in dangling \/ job = a
        /\ "current_job" \in dangling' <=> "current_job" \in dangling \/ current_job = a
        /\ "ptr" \in dangling' <=> "ptr" \in dangling \/ ptr = a
    BY <1>4, <1>5
  <1>8. QED
    BY <1>2, <1>3, <1>6, <1>7 DEF Releases

(* A step that leaves the memory alone frees nothing.                      *)
LEMMA KeepReleases ==
  ASSUME MemOK, PointersOK, UNCHANGED <<mem, dangling>>, NEW a
  PROVE  MemOK' /\ Releases(a, FALSE)
  BY DEF MemOK, PointersOK, Releases, SameJob

(* Setting a job's cancel flag frees nothing.                              *)
LEMMA CancelReleases ==
  ASSUME MemOK, PointersOK, NEW a \in Addrs, mem' = [mem EXCEPT ![a].cancel = TRUE],
     UNCHANGED dangling
  PROVE  MemOK' /\ Releases(a, FALSE)
  <1>1. MemOK'
    BY DEF MemOK, Job
  <1>2. ASSUME NEW b \in Addrs
        PROVE  SameJob(b) /\ (mem'[b].live <=> mem[b].live)
    BY DEF MemOK, Job, SameJob
  <1>3. QED
    BY <1>1, <1>2 DEF Releases, PointersOK

(* The answered connection's job is freed and forgotten.                   *)
LEMMA FinalizeReleases ==
  ASSUME MemOK, PointersOK, NetOK, NEW c \in Conns, cd_job[c] \in Addrs, FinalizeJob(c)
  PROVE  /\ MemOK' /\ Releases(cd_job[c], TRUE)
         /\ cd_job' = [cd_job EXCEPT ![c] = NULL]
  BY FreeReleases DEF FinalizeJob

(* Answering a connection leaves the worker thread its jobs: the one it    *)
(* runs and the one that waits for it are neither finished nor done.       *)
LEMMA AnswerKeeps ==
  ASSUME Connected, PointersOK, WorkerOK, NEW c \in Conns, NEW ends \in BOOLEAN,
         ends => cd_job[c] \in Addrs /\ Owned(c) /\ Sane(cd_job[c])
                 /\ (Finished(cd_job[c]) \/ mem[cd_job[c]].done),
         Releases(cd_job[c], ends), UNCHANGED <<wpc, job, current_job>>,
         \A d \in Conns : cd_job'[d] = IF ends /\ d = c THEN NULL ELSE cd_job[d],
         Working, Waiting
  PROVE  Working' /\ Waiting'
  <1> DEFINE a == cd_job[c]
             gone == ends /\ job = a
             lost == ends /\ current_job = a
  <1>n. NULL \notin Addrs
    BY ConstantsAssumption
  <1>1. ends => a \in Addrs /\ mem[a].ran /\ (Finished(a) \/ mem[a].done)
    BY <1>n DEF Owned, Sane
  <1>2. /\ \A b \in Addrs : SameJob(b)
        /\ "job" \in dangling' <=> "job" \in dangling \/ gone
        /\ "current_job" \in dangling' <=> "current_job" \in dangling \/ lost
    BY DEF Releases
  <1>3. ASSUME NEW b \in Addrs, mem[b].conn \in Conns, Claimed(b), ~(ends /\ b = a)
        PROVE  Claimed(b)'
    <2>1. mem'[b].orphaned = mem[b].orphaned /\ mem'[b].conn = mem[b].conn
      BY <1>2 DEF SameJob
    <2>2. CASE mem[b].orphaned
      BY <2>1, <2>2 DEF Claimed
    <2>3. CASE cd_job[mem[b].conn] = b
      <3>1. ~(ends /\ mem[b].conn = c)
        BY <1>3, <2>3
      <3>2. cd_job'[mem[b].conn] = b
        BY <1>3, <2>3, <3>1
      <3>3. QED
        BY <2>1, <3>2 DEF Claimed
    <2>4. QED
      BY <1>3, <2>2, <2>3 DEF Claimed
  <1> HIDE DEF a, gone, lost
  <1>4. wpc \in Exclusive => ~gone
    <2>1. ASSUME wpc \in Exclusive PROVE /\ wpc \in Busy /\ "job" \notin dangling /\ ~mem[job].done
                                         /\ mem[job].state \in {"IDLE", "RUNNING"}
      BY <2>1 DEF Working, Exclusive, Busy, Serving
    <2>2. QED
      BY <1>1, <2>1 DEF gone, Finished
  <1>5. Working'
    <2>1. wpc' \in Taken /\ current_job' = job'
          => ("job" \in dangling' <=> "current_job" \in dangling')
      BY <1>2 DEF Working, gone, lost
    <2>2. wpc' \in Exclusive => "job" \notin dangling' /\ ~mem'[job'].done
      <3>1. ASSUME wpc \in Exclusive PROVE "job" \notin dangling /\ ~mem[job].done /\ job \in Addrs
        BY <3>1 DEF Working, WorkerOK, Exclusive, Busy, Serving
      <3>2. QED
        BY <1>2, <1>4, <3>1 DEF SameJob
    <2>3. ASSUME wpc \in Busy, "job" \notin dangling'
          PROVE  /\ Claimed(job)'
                 /\ wpc = "start" => mem'[job].state = "IDLE"
                 /\ wpc \in {"run", "announce", "ringdone", "store"} => mem'[job].state = "RUNNING"
                 /\ wpc \in {"log", "clear", "orphan", "mgr", "send"}
                    => mem'[job].state \in {"DONE", "ERROR"}
                 /\ mem'[job].ran <=> wpc \notin {"start", "run", "announce"}
      <3>1. job \in Addrs /\ mem[job].conn \in Conns /\ ~gone /\ "job" \notin dangling
        BY <1>2, <2>3 DEF WorkerOK, Connected
      <3>2. Claimed(job)
        BY <2>3, <3>1 DEF Working
      <3>3. Claimed(job)'
        BY <1>3, <3>1, <3>2 DEF gone, Claimed
      <3>4. mem'[job].state = mem[job].state /\ mem'[job].ran = mem[job].ran
        BY <1>2, <3>1 DEF SameJob
      <3>5. QED
        BY <2>3, <3>1, <3>3, <3>4 DEF Working, Finished
    <2>4. QED
      BY <2>1, <2>2, <2>3 DEF Working, Finished
  <1>6. Waiting'
    <2> SUFFICES ASSUME current_job # NULL, ~(wpc \in Taken /\ current_job = job)
                 PROVE  /\ "current_job" \notin dangling' /\ Claimed(current_job)'
                        /\ mem'[current_job].state = "IDLE"
                        /\ ~mem'[current_job].ran /\ ~mem'[current_job].done
      BY DEF Waiting
    <2>1. /\ "current_job" \notin dangling /\ Claimed(current_job)
          /\ mem[current_job].state = "IDLE" /\ ~mem[current_job].ran /\ ~mem[current_job].done
      BY DEF Waiting
    <2>2. current_job \in Addrs /\ mem[current_job].conn \in Conns /\ ~lost
      BY <1>1, <2>1 DEF PointersOK, Connected, lost
    <2>3. Claimed(current_job)'
      BY <1>3, <2>1, <2>2 DEF lost, Claimed
    <2>4. QED
      BY <1>2, <2>1, <2>2, <2>3 DEF SameJob
  <1>7. QED
    BY <1>5, <1>6

(* worker_submit refuses the job ...                                       *)
Refused ==
    /\ mpc = "submit" /\ Touch("current_job", "submit_read")
    /\ current_job # NULL /\ Unfinished(current_job)
    /\ Free(ptr) /\ mpc' = Home
    /\ UNCHANGED <<current_job, wpc, cd_job, running, shutdown, job, tokens, inLoop, conn, ptr,
                   flag, open, requests, wakeups, missed>>

(* ... or accepts it.                                                      *)
Accepted ==
    /\ mpc = "submit" /\ Touch("current_job", "submit_read")
    /\ current_job = NULL \/ ~Unfinished(current_job)
    /\ current_job' = ptr /\ Copy("current_job", "ptr")
    /\ mem' = [mem EXCEPT ![ptr].state = "IDLE", ![ptr].cancel = FALSE]
    /\ wpc' = IF wpc = "wait" THEN "pick" ELSE wpc
    /\ cd_job' = [cd_job EXCEPT ![conn] = ptr]
    /\ mpc' = Home
    /\ UNCHANGED <<running, shutdown, job, tokens, inLoop, conn, ptr, flag, open, requests,
                   wakeups, missed>>

(* worker_submit refuses the job or takes it.                              *)
LEMMA SubmitCases == Submit => Refused \/ Accepted
  BY DEF Submit, Refused, Accepted

(* The worker thread                                                      *)
LEMMA WorkerIInv ==
  ASSUME IInv,
         Pick \/ SpuriousWakeup \/ Start \/ Token \/ Announce \/ InferenceReturns \/ RingDone
         \/ StoreState \/ LogDelivery \/ ClearCurrent \/ CheckOrphaned \/ CheckMgr \/
         FinalWakeup
  PROVE  IInv'
  <1>n. NULL \notin Addrs /\ NULL \notin Conns /\ Streams \subseteq BOOLEAN /\ MaxTokens \in Nat
    BY ConstantsAssumption
  <1>0. Connected /\ Pointing /\ ServingIsSafe
    BY DEF IInv
  <1>t. MemOK /\ PointersOK /\ WorkerOK /\ LoopOK /\ NetOK
    BY TypeParts DEF IInv
  <1>c. fault = "none" => /\ \A d \in Conns : Owned(d)
                          /\ \A a \in Addrs : Sane(a)
                          /\ LastJob /\ Handling /\ Working /\ Waiting
    BY DEF IInv, Clean
  <1>a. ASSUME MemOK', PointersOK', WorkerOK', LoopOK', NetOK', Connected',
               Pointing', ServingIsSafe',
               fault' = "none" => \A d \in Conns : Owned(d)',
               fault' = "none" => \A a \in Addrs : Sane(a)',
               fault' = "none" => LastJob', fault' = "none" => Handling',
               fault' = "none" => Working', fault' = "none" => Waiting'
        PROVE  IInv'
    BY <1>a, TypePartsNext DEF IInv, Clean
  <1> USE DEF memory, shared, worker, loop, net
  <1>1. CASE Pick
    <2>1. MemOK'
      BY <1>t, <1>1, <1>0 DEF Pick, Copy, MemOK, Job, JobStates
    <2>2. PointersOK'
      BY <1>t, <1>1 DEF Pick, Copy, PointersOK, Faults, Target
    <2>3. WorkerOK'
      BY <1>t, <1>1 DEF Pick, Copy, WorkerOK, PointersOK, Busy, Serving
    <2>4. LoopOK'
      BY <1>t, <1>1, <1>0 DEF Pick, Copy, LoopOK, PointersOK
    <2>5. NetOK'
      BY <1>t, <1>1, <1>0 DEF Pick, Copy, NetOK, Connected, LoopOK
    <2>6. Connected'
      BY <1>t, <1>1, <1>0 DEF Pick, Copy, Connected, Busy, Serving
    <2>7. Pointing'
      BY <1>t, <1>1, <1>0, <1>n DEF Pick, Copy, Pointing, Busy, Serving
    <2>8. ServingIsSafe'
      BY <1>t, <1>1, <1>0, <1>c DEF Pick, Copy, ServingIsSafe
    <2>f. fault' = "none" => fault = "none"
      BY <1>1 DEF Pick, Copy
    <2>9. ASSUME fault' = "none" PROVE \A d \in Conns : Owned(d)'
      BY <1>c, <1>n, <1>t, <1>1, <2>9, <2>f DEF Pick, Copy, Owned
    <2>10. ASSUME fault' = "none" PROVE \A a \in Addrs : Sane(a)'
      BY <1>c, <1>n, <1>t, <1>1, <2>10, <2>f DEF Pick, Copy, Sane, Finished
    <2>11. ASSUME fault' = "none" PROVE LastJob'
      BY <1>c, <1>n, <1>t, <1>1, <2>11, <2>f DEF Pick, Copy, LastJob
    <2>12. ASSUME fault' = "none" PROVE Handling'
      BY <1>c, <1>n, <1>t, <1>1, <2>12, <2>f DEF Pick, Copy, Handling, Busy, Serving
    <2>13. ASSUME fault' = "none" PROVE Working'
      BY <1>c, <1>n, <1>t, <1>1, <2>13, <2>f, <1>0 DEF Pick, Copy, Working, Busy, Serving,
         Exclusive, Taken, Claimed, Finished, Waiting, Pointing, PointersOK
    <2>14. ASSUME fault' = "none" PROVE Waiting'
      BY <1>c, <1>n, <1>t, <1>1, <2>14, <2>f DEF Pick, Copy, Waiting, Taken, Exclusive, Claimed
    <2>q. QED
      BY <1>a, <2>1, <2>2, <2>3, <2>4, <2>5, <2>6, <2>7, <2>8, <2>9, <2>10, <2>11, <2>12, <2>13,
         <2>14
  <1>2. CASE SpuriousWakeup
    <2>1. MemOK'
      BY <1>t, <1>2, <1>0 DEF SpuriousWakeup, MemOK, Job, JobStates
    <2>2. PointersOK'
      BY <1>t, <1>2 DEF SpuriousWakeup, PointersOK, Faults, Target
    <2>3. WorkerOK'
      BY <1>t, <1>2 DEF SpuriousWakeup, WorkerOK, PointersOK, Busy, Serving
    <2>4. LoopOK'
      BY <1>t, <1>2, <1>0 DEF SpuriousWakeup, LoopOK, PointersOK
    <2>5. NetOK'
      BY <1>t, <1>2, <1>0 DEF SpuriousWakeup, NetOK, Connected, LoopOK
    <2>6. Connected'
      BY <1>t, <1>2, <1>0 DEF SpuriousWakeup, Connected, Busy, Serving
    <2>7. Pointing'
      BY <1>t, <1>2, <1>0, <1>n DEF SpuriousWakeup, Pointing, Busy, Serving
    <2>8. ServingIsSafe'
      BY <1>t, <1>2, <1>0, <1>c DEF SpuriousWakeup, ServingIsSafe
    <2>f. fault' = "none" => fault = "none"
      BY <1>2 DEF SpuriousWakeup
    <2>9. ASSUME fault' = "none" PROVE \A d \in Conns : Owned(d)'
      BY <1>c, <1>n, <1>t, <1>2, <2>9, <2>f DEF SpuriousWakeup, Owned
    <2>10. ASSUME fault' = "none" PROVE \A a \in Addrs : Sane(a)'
      BY <1>c, <1>n, <1>t, <1>2, <2>10, <2>f DEF SpuriousWakeup, Sane, Finished
    <2>11. ASSUME fault' = "none" PROVE LastJob'
      BY <1>c, <1>n, <1>t, <1>2, <2>11, <2>f DEF SpuriousWakeup, LastJob
    <2>12. ASSUME fault' = "none" PROVE Handling'
      BY <1>c, <1>n, <1>t, <1>2, <2>12, <2>f DEF SpuriousWakeup, Handling, Busy, Serving
    <2>13. ASSUME fault' = "none" PROVE Working'
      BY <1>c, <1>n, <1>t, <1>2, <2>13, <2>f DEF SpuriousWakeup, Working, Busy, Serving,
         Exclusive, Taken, Claimed, Finished
    <2>14. ASSUME fault' = "none" PROVE Waiting'
      BY <1>c, <1>n, <1>t, <1>2, <2>14, <2>f DEF SpuriousWakeup, Waiting, Taken, Exclusive, Claimed
    <2>q. QED
      BY <1>a, <2>1, <2>2, <2>3, <2>4, <2>5, <2>6, <2>7, <2>8, <2>9, <2>10, <2>11, <2>12, <2>13,
         <2>14
  <1>3. CASE Start
    <2>h. fault = "none" => "job" \notin dangling
      BY <1>c, <1>3 DEF Start, Working, Exclusive
    <2>1. MemOK'
      BY <1>t, <1>3, <1>0 DEF Start, Touch, MemOK, Job, JobStates
    <2>2. PointersOK'
      BY <1>t, <1>3 DEF Start, Touch, PointersOK, Faults, Target
    <2>3. WorkerOK'
      BY <1>t, <1>3 DEF Start, Touch, WorkerOK, PointersOK, Busy, Serving
    <2>4. LoopOK'
      BY <1>t, <1>3, <1>0 DEF Start, Touch, LoopOK, PointersOK
    <2>5. NetOK'
      BY <1>t, <1>3, <1>0 DEF Start, Touch, NetOK, Connected, LoopOK
    <2>6. Connected'
      BY <1>t, <1>3, <1>0 DEF Start, Touch, Connected, Busy, Serving
    <2>7. Pointing'
      BY <1>t, <1>3, <1>0, <1>n DEF Start, Touch, Pointing, Busy, Serving
    <2>8. ServingIsSafe'
      BY <1>t, <1>3, <1>0, <1>c, <2>h DEF Start, Touch, ServingIsSafe
    <2>f. fault' = "none" => fault = "none"
      BY <1>3 DEF Start, Touch
    <2>9. ASSUME fault' = "none" PROVE \A d \in Conns : Owned(d)'
      BY <1>c, <1>n, <1>t, <1>3, <2>9, <2>f DEF Start, Touch, Owned
    <2>10. ASSUME fault' = "none" PROVE \A a \in Addrs : Sane(a)'
      BY <1>c, <1>n, <1>t, <1>3, <2>10, <2>f DEF Start, Touch, Sane, Finished
    <2>11. ASSUME fault' = "none" PROVE LastJob'
      BY <1>c, <1>n, <1>t, <1>3, <2>11, <2>f DEF Start, Touch, LastJob
    <2>12. ASSUME fault' = "none" PROVE Handling'
      BY <1>c, <1>n, <1>t, <1>3, <2>12, <2>f DEF Start, Touch, Handling, Busy, Serving
    <2>13. ASSUME fault' = "none" PROVE Working'
      BY <1>c, <1>n, <1>t, <1>3, <2>13, <2>f DEF Start, Touch, Working, Busy, Serving, Exclusive,
         Taken, Claimed, Finished, MemOK, WorkerOK
    <2>14. ASSUME fault' = "none" PROVE Waiting'
      BY <1>c, <1>n, <1>t, <1>3, <2>14, <2>f DEF Start, Touch, Waiting, Taken, Exclusive, Claimed
    <2>q. QED
      BY <1>a, <2>1, <2>2, <2>3, <2>4, <2>5, <2>6, <2>7, <2>8, <2>9, <2>10, <2>11, <2>12, <2>13,
         <2>14
  <1>4. CASE Token
    <2>h. fault = "none" => "job" \notin dangling
      BY <1>c, <1>4 DEF Token, Working, Exclusive
    <2>1. MemOK'
      <3>1. mem' = [mem EXCEPT ![job].unread = mem[job].unread + 1] /\ job \in Addrs
        BY <1>t, <1>4 DEF Token, WorkerOK, Busy, Serving
      <3>2. mem[job].unread + 1 \in Nat
        BY <1>t, <3>1 DEF MemOK, Job
      <3>3. QED
        BY <1>t, <3>1, <3>2 DEF MemOK, Job
    <2>2. PointersOK'
      BY <1>t, <1>4 DEF Token, Touch, PointersOK, Faults, Target
    <2>3. WorkerOK'
      BY <1>t, <1>4 DEF Token, Touch, WorkerOK, PointersOK, Busy, Serving
    <2>4. LoopOK'
      BY <1>t, <1>4, <1>0 DEF Token, Touch, LoopOK, PointersOK
    <2>5. NetOK'
      BY <1>t, <1>4, <1>0 DEF Token, Touch, NetOK, Connected, LoopOK
    <2>6. Connected'
      BY <1>t, <1>4, <1>0 DEF Token, Touch, Connected, Busy, Serving
    <2>7. Pointing'
      BY <1>t, <1>4, <1>0, <1>n DEF Token, Touch, Pointing, Busy, Serving
    <2>8. ServingIsSafe'
      BY <1>t, <1>4, <1>0, <1>c, <2>h DEF Token, Touch, ServingIsSafe
    <2>f. fault' = "none" => fault = "none"
      BY <1>4 DEF Token, Touch
    <2>9. ASSUME fault' = "none" PROVE \A d \in Conns : Owned(d)'
      BY <1>c, <1>n, <1>t, <1>4, <2>9, <2>f DEF Token, Touch, Owned
    <2>10. ASSUME fault' = "none" PROVE \A a \in Addrs : Sane(a)'
      BY <1>c, <1>n, <1>t, <1>4, <2>10, <2>f DEF Token, Touch, Sane, Finished
    <2>11. ASSUME fault' = "none" PROVE LastJob'
      BY <1>c, <1>n, <1>t, <1>4, <2>11, <2>f DEF Token, Touch, LastJob
    <2>12. ASSUME fault' = "none" PROVE Handling'
      BY <1>c, <1>n, <1>t, <1>4, <2>12, <2>f DEF Token, Touch, Handling, Busy, Serving
    <2>13. ASSUME fault' = "none" PROVE Working'
      BY <1>c, <1>n, <1>t, <1>4, <2>13, <2>f DEF Token, Touch, Working, Busy, Serving, Exclusive,
         Taken, Claimed, Finished
    <2>14. ASSUME fault' = "none" PROVE Waiting'
      BY <1>c, <1>n, <1>t, <1>4, <2>14, <2>f DEF Token, Touch, Waiting, Taken, Exclusive, Claimed
    <2>q. QED
      BY <1>a, <2>1, <2>2, <2>3, <2>4, <2>5, <2>6, <2>7, <2>8, <2>9, <2>10, <2>11, <2>12, <2>13,
         <2>14
  <1>5. CASE Announce
    <2>h. fault = "none" => "job" \notin dangling
      BY <1>c, <1>5 DEF Announce, Working, Exclusive
    <2>1. MemOK'
      BY <1>t, <1>5, <1>0 DEF Announce, SendWakeup, Touch, MemOK, Job, JobStates
    <2>2. PointersOK'
      BY <1>t, <1>5 DEF Announce, SendWakeup, Touch, PointersOK, Faults, Target
    <2>3. WorkerOK'
      BY <1>t, <1>5 DEF Announce, SendWakeup, Touch, WorkerOK, PointersOK, Busy, Serving
    <2>4. LoopOK'
      BY <1>t, <1>5, <1>0 DEF Announce, SendWakeup, Touch, LoopOK, PointersOK
    <2>5. NetOK'
      <3>1. mem[job].conn \in Conns
        BY <1>0, <1>5 DEF Announce, Connected, Busy, Serving
      <3>2. \/ wakeups' = wakeups
            \/ wakeups' = [wakeups EXCEPT ![mem[job].conn] = wakeups[mem[job].conn] + 1]
        BY <1>5 DEF Announce, SendWakeup
      <3>3. wakeups' \in [Conns -> Nat]
        <4>1. wakeups[mem[job].conn] + 1 \in Nat
          BY <1>t, <3>1 DEF NetOK
        <4>2. QED
          BY <1>t, <3>2, <4>1 DEF NetOK
      <3>4. missed' \subseteq Conns
        BY <1>t, <1>5, <3>1 DEF Announce, SendWakeup, NetOK
      <3>5. QED
        BY <1>t, <1>5, <3>3, <3>4 DEF Announce, SendWakeup, NetOK
    <2>6. Connected'
      BY <1>t, <1>5, <1>0 DEF Announce, SendWakeup, Touch, Connected, Busy, Serving
    <2>7. Pointing'
      BY <1>t, <1>5, <1>0, <1>n DEF Announce, SendWakeup, Touch, Pointing, Busy, Serving
    <2>8. ServingIsSafe'
      BY <1>t, <1>5, <1>0, <1>c, <2>h DEF Announce, SendWakeup, Touch, ServingIsSafe
    <2>f. fault' = "none" => fault = "none"
      BY <1>5 DEF Announce, SendWakeup, Touch
    <2>9. ASSUME fault' = "none" PROVE \A d \in Conns : Owned(d)'
      BY <1>c, <1>n, <1>t, <1>5, <2>9, <2>f DEF Announce, SendWakeup, Touch, Owned
    <2>10. ASSUME fault' = "none" PROVE \A a \in Addrs : Sane(a)'
      BY <1>c, <1>n, <1>t, <1>5, <2>10, <2>f DEF Announce, SendWakeup, Touch, Sane, Finished
    <2>11. ASSUME fault' = "none" PROVE LastJob'
      BY <1>c, <1>n, <1>t, <1>5, <2>11, <2>f DEF Announce, SendWakeup, Touch, LastJob
    <2>12. ASSUME fault' = "none" PROVE Handling'
      BY <1>c, <1>n, <1>t, <1>5, <2>12, <2>f DEF Announce, SendWakeup, Touch, Handling, Busy,
         Serving
    <2>13. ASSUME fault' = "none" PROVE Working'
      BY <1>c, <1>n, <1>t, <1>5, <2>13, <2>f DEF Announce, SendWakeup, Touch, Working, Busy,
         Serving, Exclusive, Taken, Claimed, Finished
    <2>14. ASSUME fault' = "none" PROVE Waiting'
      BY <1>c, <1>n, <1>t, <1>5, <2>14, <2>f DEF Announce, SendWakeup, Touch, Waiting, Taken,
         Exclusive, Claimed
    <2>q. QED
      BY <1>a, <2>1, <2>2, <2>3, <2>4, <2>5, <2>6, <2>7, <2>8, <2>9, <2>10, <2>11, <2>12, <2>13,
         <2>14
  <1>6. CASE InferenceReturns
    <2>h. fault = "none" => "job" \notin dangling
      BY <1>c, <1>6 DEF InferenceReturns, Working, Exclusive
    <2>1. MemOK'
      BY <1>t, <1>6, <1>0 DEF InferenceReturns, Touch, MemOK, Job, JobStates
    <2>2. PointersOK'
      BY <1>t, <1>6 DEF InferenceReturns, Touch, PointersOK, Faults, Target
    <2>3. WorkerOK'
      BY <1>t, <1>6 DEF InferenceReturns, Touch, WorkerOK, PointersOK, Busy, Serving
    <2>4. LoopOK'
      BY <1>t, <1>6, <1>0 DEF InferenceReturns, Touch, LoopOK, PointersOK
    <2>5. NetOK'
      BY <1>t, <1>6, <1>0 DEF InferenceReturns, Touch, NetOK, Connected, LoopOK
    <2>6. Connected'
      BY <1>t, <1>6, <1>0 DEF InferenceReturns, Touch, Connected, Busy, Serving
    <2>7. Pointing'
      BY <1>t, <1>6, <1>0, <1>n DEF InferenceReturns, Touch, Pointing, Busy, Serving
    <2>8. ServingIsSafe'
      BY <1>t, <1>6, <1>0, <1>c, <2>h DEF InferenceReturns, Touch, ServingIsSafe
    <2>f. fault' = "none" => fault = "none"
      BY <1>6 DEF InferenceReturns, Touch
    <2>9. ASSUME fault' = "none" PROVE \A d \in Conns : Owned(d)'
      BY <1>c, <1>n, <1>t, <1>6, <2>9, <2>f DEF InferenceReturns, Touch, Owned
    <2>10. ASSUME fault' = "none" PROVE \A a \in Addrs : Sane(a)'
      BY <1>c, <1>n, <1>t, <1>6, <2>10, <2>f DEF InferenceReturns, Touch, Sane, Finished
    <2>11. ASSUME fault' = "none" PROVE LastJob'
      BY <1>c, <1>n, <1>t, <1>6, <2>11, <2>f DEF InferenceReturns, Touch, LastJob
    <2>12. ASSUME fault' = "none" PROVE Handling'
      BY <1>c, <1>n, <1>t, <1>6, <2>12, <2>f DEF InferenceReturns, Touch, Handling, Busy, Serving
    <2>13. ASSUME fault' = "none" PROVE Working'
      BY <1>c, <1>n, <1>t, <1>6, <2>13, <2>f DEF InferenceReturns, Touch, Working, Busy, Serving,
         Exclusive, Taken, Claimed, Finished, MemOK, WorkerOK
    <2>14. ASSUME fault' = "none" PROVE Waiting'
      BY <1>c, <1>n, <1>t, <1>6, <2>14, <2>f DEF InferenceReturns, Touch, Waiting, Taken,
         Exclusive, Claimed
    <2>q. QED
      BY <1>a, <2>1, <2>2, <2>3, <2>4, <2>5, <2>6, <2>7, <2>8, <2>9, <2>10, <2>11, <2>12, <2>13,
         <2>14
  <1>7. CASE RingDone
    <2>h. fault = "none" => "job" \notin dangling
      BY <1>c, <1>7 DEF RingDone, Working, Exclusive
    <2>1. MemOK'
      BY <1>t, <1>7, <1>0 DEF RingDone, Touch, MemOK, Job, JobStates
    <2>2. PointersOK'
      BY <1>t, <1>7 DEF RingDone, Touch, PointersOK, Faults, Target
    <2>3. WorkerOK'
      BY <1>t, <1>7 DEF RingDone, Touch, WorkerOK, PointersOK, Busy, Serving
    <2>4. LoopOK'
      BY <1>t, <1>7, <1>0 DEF RingDone, Touch, LoopOK, PointersOK
    <2>5. NetOK'
      BY <1>t, <1>7, <1>0 DEF RingDone, Touch, NetOK, Connected, LoopOK
    <2>6. Connected'
      BY <1>t, <1>7, <1>0 DEF RingDone, Touch, Connected, Busy, Serving
    <2>7. Pointing'
      BY <1>t, <1>7, <1>0, <1>n DEF RingDone, Touch, Pointing, Busy, Serving
    <2>8. ServingIsSafe'
      BY <1>t, <1>7, <1>0, <1>c, <2>h DEF RingDone, Touch, ServingIsSafe
    <2>f. fault' = "none" => fault = "none"
      BY <1>7 DEF RingDone, Touch
    <2>9. ASSUME fault' = "none" PROVE \A d \in Conns : Owned(d)'
      BY <1>c, <1>n, <1>t, <1>7, <2>9, <2>f DEF RingDone, Touch, Owned
    <2>10. ASSUME fault' = "none" PROVE \A a \in Addrs : Sane(a)'
      BY <1>c, <1>n, <1>t, <1>7, <2>10, <2>f DEF RingDone, Touch, Sane, Finished, Working, Busy,
         Serving, WorkerOK
    <2>11. ASSUME fault' = "none" PROVE LastJob'
      BY <1>c, <1>n, <1>t, <1>7, <2>11, <2>f DEF RingDone, Touch, LastJob
    <2>12. ASSUME fault' = "none" PROVE Handling'
      BY <1>c, <1>n, <1>t, <1>7, <2>12, <2>f DEF RingDone, Touch, Handling, Busy, Serving
    <2>13. ASSUME fault' = "none" PROVE Working'
      BY <1>c, <1>n, <1>t, <1>7, <2>13, <2>f DEF RingDone, Touch, Working, Busy, Serving,
         Exclusive, Taken, Claimed, Finished
    <2>14. ASSUME fault' = "none" PROVE Waiting'
      BY <1>c, <1>n, <1>t, <1>7, <2>14, <2>f DEF RingDone, Touch, Waiting, Taken, Exclusive, Claimed
    <2>q. QED
      BY <1>a, <2>1, <2>2, <2>3, <2>4, <2>5, <2>6, <2>7, <2>8, <2>9, <2>10, <2>11, <2>12, <2>13,
         <2>14
  <1>8. CASE StoreState
    <2>1. MemOK'
      <3>1. PICK s \in {"DONE", "ERROR"} : mem' = [mem EXCEPT ![job].state = s]
        BY <1>8 DEF StoreState
      <3>2. QED
        BY <1>t, <3>1 DEF MemOK, Job, JobStates
    <2>2. PointersOK'
      BY <1>t, <1>8 DEF StoreState, Touch, PointersOK, Faults, Target
    <2>3. WorkerOK'
      BY <1>t, <1>8 DEF StoreState, Touch, WorkerOK, PointersOK, Busy, Serving
    <2>4. LoopOK'
      BY <1>t, <1>8, <1>0 DEF StoreState, Touch, LoopOK, PointersOK
    <2>5. NetOK'
      BY <1>t, <1>8, <1>0 DEF StoreState, Touch, NetOK, Connected, LoopOK
    <2>6. Connected'
      BY <1>t, <1>8, <1>0 DEF StoreState, Touch, Connected, Busy, Serving
    <2>7. Pointing'
      BY <1>t, <1>8, <1>0, <1>n DEF StoreState, Touch, Pointing, Busy, Serving
    <2>8. ServingIsSafe'
      BY <1>t, <1>8, <1>0, <1>c DEF StoreState, Touch, ServingIsSafe
    <2>f. fault' = "none" => fault = "none"
      BY <1>8 DEF StoreState, Touch
    <2>9. ASSUME fault' = "none" PROVE \A d \in Conns : Owned(d)'
      BY <1>c, <1>n, <1>t, <1>8, <2>9, <2>f DEF StoreState, Touch, Owned
    <2>10. ASSUME fault' = "none" PROVE \A a \in Addrs : Sane(a)'
      BY <1>c, <1>n, <1>t, <1>8, <2>10, <2>f DEF StoreState, Touch, Sane, Finished, Working,
         Busy, Serving, WorkerOK
    <2>11. ASSUME fault' = "none" PROVE LastJob'
      BY <1>c, <1>n, <1>t, <1>8, <2>11, <2>f DEF StoreState, Touch, LastJob
    <2>12. ASSUME fault' = "none" PROVE Handling'
      BY <1>c, <1>n, <1>t, <1>8, <2>12, <2>f DEF StoreState, Touch, Handling, Busy, Serving
    <2>13. ASSUME fault' = "none" PROVE Working'
      BY <1>c, <1>n, <1>t, <1>8, <2>13, <2>f DEF StoreState, Touch, Working, Busy, Serving,
         Exclusive, Taken, Claimed, Finished, MemOK, Job, WorkerOK
    <2>14. ASSUME fault' = "none" PROVE Waiting'
      BY <1>c, <1>n, <1>t, <1>8, <2>14, <2>f DEF StoreState, Touch, Waiting, Taken, Exclusive,
         Claimed
    <2>q. QED
      BY <1>a, <2>1, <2>2, <2>3, <2>4, <2>5, <2>6, <2>7, <2>8, <2>9, <2>10, <2>11, <2>12, <2>13,
         <2>14
  <1>9. CASE LogDelivery
    <2>1. MemOK'
      BY <1>t, <1>9, <1>0 DEF LogDelivery, Touch, MemOK, Job, JobStates
    <2>2. PointersOK'
      BY <1>t, <1>9 DEF LogDelivery, Touch, PointersOK, Faults, Target
    <2>3. WorkerOK'
      BY <1>t, <1>9 DEF LogDelivery, Touch, WorkerOK, PointersOK, Busy, Serving
    <2>4. LoopOK'
      BY <1>t, <1>9, <1>0 DEF LogDelivery, Touch, LoopOK, PointersOK
    <2>5. NetOK'
      BY <1>t, <1>9, <1>0 DEF LogDelivery, Touch, NetOK, Connected, LoopOK
    <2>6. Connected'
      BY <1>t, <1>9, <1>0 DEF LogDelivery, Touch, Connected, Busy, Serving
    <2>7. Pointing'
      BY <1>t, <1>9, <1>0, <1>n DEF LogDelivery, Touch, Pointing, Busy, Serving
    <2>8. ServingIsSafe'
      BY <1>t, <1>9, <1>0, <1>c DEF LogDelivery, Touch, ServingIsSafe
    <2>f. fault' = "none" => fault = "none"
      BY <1>9 DEF LogDelivery, Touch
    <2>9. ASSUME fault' = "none" PROVE \A d \in Conns : Owned(d)'
      BY <1>c, <1>n, <1>t, <1>9, <2>9, <2>f DEF LogDelivery, Touch, Owned
    <2>10. ASSUME fault' = "none" PROVE \A a \in Addrs : Sane(a)'
      BY <1>c, <1>n, <1>t, <1>9, <2>10, <2>f DEF LogDelivery, Touch, Sane, Finished
    <2>11. ASSUME fault' = "none" PROVE LastJob'
      BY <1>c, <1>n, <1>t, <1>9, <2>11, <2>f DEF LogDelivery, Touch, LastJob
    <2>12. ASSUME fault' = "none" PROVE Handling'
      BY <1>c, <1>n, <1>t, <1>9, <2>12, <2>f DEF LogDelivery, Touch, Handling, Busy, Serving
    <2>13. ASSUME fault' = "none" PROVE Working'
      BY <1>c, <1>n, <1>t, <1>9, <2>13, <2>f DEF LogDelivery, Touch, Working, Busy, Serving,
         Exclusive, Taken, Claimed, Finished
    <2>14. ASSUME fault' = "none" PROVE Waiting'
      BY <1>c, <1>n, <1>t, <1>9, <2>14, <2>f DEF LogDelivery, Touch, Waiting, Taken, Exclusive,
         Claimed
    <2>q. QED
      BY <1>a, <2>1, <2>2, <2>3, <2>4, <2>5, <2>6, <2>7, <2>8, <2>9, <2>10, <2>11, <2>12, <2>13,
         <2>14
  <1>10. CASE ClearCurrent
    <2>1. MemOK'
      BY <1>t, <1>10, <1>0 DEF ClearCurrent, MemOK, Job, JobStates
    <2>2. PointersOK'
      BY <1>t, <1>10 DEF ClearCurrent, PointersOK, Faults, Target
    <2>3. WorkerOK'
      BY <1>t, <1>10 DEF ClearCurrent, WorkerOK, PointersOK, Busy, Serving
    <2>4. LoopOK'
      BY <1>t, <1>10, <1>0 DEF ClearCurrent, LoopOK, PointersOK
    <2>5. NetOK'
      BY <1>t, <1>10, <1>0 DEF ClearCurrent, NetOK, Connected, LoopOK
    <2>6. Connected'
      BY <1>t, <1>10, <1>0 DEF ClearCurrent, Connected, Busy, Serving
    <2>7. Pointing'
      BY <1>t, <1>10, <1>0, <1>n DEF ClearCurrent, Pointing, Busy, Serving
    <2>8. ServingIsSafe'
      BY <1>t, <1>10, <1>0, <1>c DEF ClearCurrent, ServingIsSafe
    <2>f. fault' = "none" => fault = "none"
      BY <1>10 DEF ClearCurrent
    <2>9. ASSUME fault' = "none" PROVE \A d \in Conns : Owned(d)'
      BY <1>c, <1>n, <1>t, <1>10, <2>9, <2>f DEF ClearCurrent, Owned
    <2>10. ASSUME fault' = "none" PROVE \A a \in Addrs : Sane(a)'
      BY <1>c, <1>n, <1>t, <1>10, <2>10, <2>f DEF ClearCurrent, Sane, Finished
    <2>11. ASSUME fault' = "none" PROVE LastJob'
      BY <1>c, <1>n, <1>t, <1>10, <2>11, <2>f DEF ClearCurrent, LastJob
    <2>12. ASSUME fault' = "none" PROVE Handling'
      BY <1>c, <1>n, <1>t, <1>10, <2>12, <2>f, <1>0 DEF ClearCurrent, Handling, Busy, Serving,
         Working, Connected
    <2>13. ASSUME fault' = "none" PROVE Working'
      BY <1>c, <1>n, <1>t, <1>10, <2>13, <2>f DEF ClearCurrent, Working, Busy, Serving,
         Exclusive, Taken, Claimed, Finished
    <2>14. ASSUME fault' = "none" PROVE Waiting'
      BY <1>c, <1>n, <1>t, <1>10, <2>14, <2>f DEF ClearCurrent, Waiting, Taken, Exclusive, Claimed
    <2>q. QED
      BY <1>a, <2>1, <2>2, <2>3, <2>4, <2>5, <2>6, <2>7, <2>8, <2>9, <2>10, <2>11, <2>12, <2>13,
         <2>14
  <1>11. CASE CheckOrphaned
    <2>d. job \in Addrs /\ wpc = "orphan"
      BY <1>t, <1>11 DEF CheckOrphaned, WorkerOK, Busy, Serving
    <2>e. MemOK' /\ Releases(job, mem[job].orphaned)
      <3>1. CASE mem[job].orphaned
        <4>1. Free(job)
          BY <1>11, <3>1 DEF CheckOrphaned
        <4>2. QED
          BY <1>t, <2>d, <3>1, <4>1, FreeReleases DEF Releases
      <3>2. CASE ~mem[job].orphaned
        <4>1. UNCHANGED <<mem, dangling>>
          BY <1>11, <3>2 DEF CheckOrphaned
        <4>2. QED
          BY <1>t, <3>2, <4>1, KeepReleases DEF Releases
      <3>3. QED
        BY <3>1, <3>2
    <2>1. MemOK'
      BY <2>e
    <2>2. PointersOK'
      BY <1>t, <1>11, <2>e DEF CheckOrphaned, Touch, PointersOK, Faults, Target, Releases, SameJob
    <2>3. WorkerOK'
      BY <1>t, <1>11, <2>e DEF CheckOrphaned, Touch, WorkerOK, PointersOK, Busy, Serving,
         Releases, SameJob
    <2>4. LoopOK'
      BY <1>t, <1>11, <1>0, <2>e DEF CheckOrphaned, Touch, LoopOK, PointersOK, Releases, SameJob
    <2>5. NetOK'
      BY <1>t, <1>11, <1>0, <2>e DEF CheckOrphaned, Touch, NetOK, Connected, LoopOK, Releases,
         SameJob
    <2>6. Connected'
      BY <1>t, <1>11, <1>0, <2>e, <2>d DEF CheckOrphaned, Touch, Connected, Busy, Serving,
         Releases, SameJob, PointersOK, LoopOK
    <2>7. Pointing'
      BY <1>t, <1>11, <1>0, <1>n, <2>e, <2>d DEF CheckOrphaned, Touch, Pointing, Busy, Serving,
         Releases, SameJob, PointersOK, LoopOK
    <2>8. ServingIsSafe'
      BY <1>t, <1>11, <1>0, <1>c, <2>e DEF CheckOrphaned, Touch, ServingIsSafe, Releases, SameJob
    <2>f. fault' = "none" => fault = "none"
      BY <1>11 DEF CheckOrphaned, Touch
    <2>9. ASSUME fault' = "none" PROVE \A d \in Conns : Owned(d)'
      BY <1>c, <1>n, <1>t, <1>11, <2>9, <2>f, <2>e, <2>d, <1>0 DEF CheckOrphaned, Touch, Owned,
         Releases, SameJob, PointersOK, LoopOK, Working, Waiting, Taken, Exclusive, Busy, Serving,
         Finished, Pointing, NetOK
    <2>10. ASSUME fault' = "none" PROVE \A a \in Addrs : Sane(a)'
      BY <1>c, <1>n, <1>t, <1>11, <2>10, <2>f, <2>e, <2>d, <1>0 DEF CheckOrphaned, Touch, Sane,
         Finished, Releases, SameJob, PointersOK, LoopOK, Working, Waiting, Taken, Exclusive, Busy,
         Serving, Pointing, NetOK
    <2>11. ASSUME fault' = "none" PROVE LastJob'
      BY <1>c, <1>n, <1>t, <1>11, <2>11, <2>f, <2>e, <2>d, <1>0 DEF CheckOrphaned, Touch,
         LastJob, Releases, SameJob, PointersOK, LoopOK, Working, Waiting, Taken, Exclusive, Busy,
         Serving, Finished, Pointing, NetOK
    <2>12. ASSUME fault' = "none" PROVE Handling'
      <3>1. "job" \notin dangling /\ UNCHANGED <<mpc, conn, ptr, flag, open, cd_job, current_job>>
        BY <1>11, <2>12 DEF CheckOrphaned, Touch
      <3>2. CASE mpc = "submit"
        <4>1. ptr \in Addrs /\ ptr # job
          BY <1>c, <1>0, <2>d, <2>f, <2>12, <3>1, <3>2 DEF Handling, Connected, Busy, Serving
        <4>2. wpc' \in Busy /\ job' = ptr => FALSE
          BY <4>1, <1>11 DEF CheckOrphaned
        <4>3. QED
          BY <1>c, <2>e, <2>f, <2>12, <3>1, <3>2, <4>1, <4>2 DEF Handling, Releases, SameJob
      <3>3. CASE mpc # "submit"
        <4>1. mpc = "load" => cd_job[conn] \in Addrs
          BY <1>0, <1>t DEF Connected, NetOK
        <4>2. QED
          BY <1>c, <2>e, <2>f, <2>12, <3>1, <3>3, <4>1 DEF Handling, Releases, SameJob
      <3>4. QED
        BY <3>2, <3>3
    <2>13. ASSUME fault' = "none" PROVE Working'
      BY <1>c, <1>n, <1>t, <1>11, <2>13, <2>f, <2>e, <2>d, <1>0 DEF CheckOrphaned, Touch,
         Working, Busy, Serving, Exclusive, Taken, Claimed, Finished, Releases, SameJob, PointersOK,
         LoopOK, Waiting, Pointing, NetOK
    <2>14. ASSUME fault' = "none" PROVE Waiting'
      BY <1>c, <1>n, <1>t, <1>11, <2>14, <2>f, <2>e, <2>d, <1>0 DEF CheckOrphaned, Touch,
         Waiting, Taken, Exclusive, Claimed, Releases, SameJob, PointersOK, LoopOK, Working, Busy,
         Serving, Finished, Pointing, NetOK
    <2>q. QED
      BY <1>a, <2>1, <2>2, <2>3, <2>4, <2>5, <2>6, <2>7, <2>8, <2>9, <2>10, <2>11, <2>12, <2>13,
         <2>14
  <1>12. CASE CheckMgr
    <2>1. MemOK'
      BY <1>t, <1>12, <1>0 DEF CheckMgr, Touch, MemOK, Job, JobStates
    <2>2. PointersOK'
      BY <1>t, <1>12 DEF CheckMgr, Touch, PointersOK, Faults, Target
    <2>3. WorkerOK'
      BY <1>t, <1>12 DEF CheckMgr, Touch, WorkerOK, PointersOK, Busy, Serving
    <2>4. LoopOK'
      BY <1>t, <1>12, <1>0 DEF CheckMgr, Touch, LoopOK, PointersOK
    <2>5. NetOK'
      BY <1>t, <1>12, <1>0 DEF CheckMgr, Touch, NetOK, Connected, LoopOK
    <2>6. Connected'
      BY <1>t, <1>12, <1>0 DEF CheckMgr, Touch, Connected, Busy, Serving
    <2>7. Pointing'
      BY <1>t, <1>12, <1>0, <1>n DEF CheckMgr, Touch, Pointing, Busy, Serving
    <2>8. ServingIsSafe'
      BY <1>t, <1>12, <1>0, <1>c DEF CheckMgr, Touch, ServingIsSafe
    <2>f. fault' = "none" => fault = "none"
      BY <1>12 DEF CheckMgr, Touch
    <2>9. ASSUME fault' = "none" PROVE \A d \in Conns : Owned(d)'
      BY <1>c, <1>n, <1>t, <1>12, <2>9, <2>f DEF CheckMgr, Touch, Owned
    <2>10. ASSUME fault' = "none" PROVE \A a \in Addrs : Sane(a)'
      BY <1>c, <1>n, <1>t, <1>12, <2>10, <2>f DEF CheckMgr, Touch, Sane, Finished
    <2>11. ASSUME fault' = "none" PROVE LastJob'
      BY <1>c, <1>n, <1>t, <1>12, <2>11, <2>f DEF CheckMgr, Touch, LastJob
    <2>12. ASSUME fault' = "none" PROVE Handling'
      BY <1>c, <1>n, <1>t, <1>12, <2>12, <2>f DEF CheckMgr, Touch, Handling, Busy, Serving
    <2>13. ASSUME fault' = "none" PROVE Working'
      BY <1>c, <1>n, <1>t, <1>12, <2>13, <2>f DEF CheckMgr, Touch, Working, Busy, Serving,
         Exclusive, Taken, Claimed, Finished
    <2>14. ASSUME fault' = "none" PROVE Waiting'
      BY <1>c, <1>n, <1>t, <1>12, <2>14, <2>f DEF CheckMgr, Touch, Waiting, Taken, Exclusive,
         Claimed
    <2>q. QED
      BY <1>a, <2>1, <2>2, <2>3, <2>4, <2>5, <2>6, <2>7, <2>8, <2>9, <2>10, <2>11, <2>12, <2>13,
         <2>14
  <1>13. CASE FinalWakeup
    <2>1. MemOK'
      BY <1>t, <1>13, <1>0 DEF FinalWakeup, SendWakeup, Touch, MemOK, Job, JobStates
    <2>2. PointersOK'
      BY <1>t, <1>13 DEF FinalWakeup, SendWakeup, Touch, PointersOK, Faults, Target
    <2>3. WorkerOK'
      BY <1>t, <1>13 DEF FinalWakeup, SendWakeup, Touch, WorkerOK, PointersOK, Busy, Serving
    <2>4. LoopOK'
      BY <1>t, <1>13, <1>0 DEF FinalWakeup, SendWakeup, Touch, LoopOK, PointersOK
    <2>5. NetOK'
      <3>1. mem[job].conn \in Conns
        BY <1>0, <1>13 DEF FinalWakeup, Connected, Busy, Serving
      <3>2. \/ wakeups' = wakeups
            \/ wakeups' = [wakeups EXCEPT ![mem[job].conn] = wakeups[mem[job].conn] + 1]
        BY <1>13 DEF FinalWakeup, SendWakeup
      <3>3. wakeups' \in [Conns -> Nat]
        <4>1. wakeups[mem[job].conn] + 1 \in Nat
          BY <1>t, <3>1 DEF NetOK
        <4>2. QED
          BY <1>t, <3>2, <4>1 DEF NetOK
      <3>4. missed' \subseteq Conns
        BY <1>t, <1>13, <3>1 DEF FinalWakeup, SendWakeup, NetOK
      <3>5. QED
        BY <1>t, <1>13, <3>3, <3>4 DEF FinalWakeup, SendWakeup, NetOK
    <2>6. Connected'
      BY <1>t, <1>13, <1>0 DEF FinalWakeup, SendWakeup, Touch, Connected, Busy, Serving
    <2>7. Pointing'
      BY <1>t, <1>13, <1>0, <1>n DEF FinalWakeup, SendWakeup, Touch, Pointing, Busy, Serving
    <2>8. ServingIsSafe'
      BY <1>t, <1>13, <1>0, <1>c DEF FinalWakeup, SendWakeup, Touch, ServingIsSafe
    <2>f. fault' = "none" => fault = "none"
      BY <1>13 DEF FinalWakeup, SendWakeup, Touch
    <2>9. ASSUME fault' = "none" PROVE \A d \in Conns : Owned(d)'
      BY <1>c, <1>n, <1>t, <1>13, <2>9, <2>f DEF FinalWakeup, SendWakeup, Touch, Owned
    <2>10. ASSUME fault' = "none" PROVE \A a \in Addrs : Sane(a)'
      BY <1>c, <1>n, <1>t, <1>13, <2>10, <2>f DEF FinalWakeup, SendWakeup, Touch, Sane, Finished
    <2>11. ASSUME fault' = "none" PROVE LastJob'
      BY <1>c, <1>n, <1>t, <1>13, <2>11, <2>f DEF FinalWakeup, SendWakeup, Touch, LastJob
    <2>12. ASSUME fault' = "none" PROVE Handling'
      BY <1>c, <1>n, <1>t, <1>13, <2>12, <2>f DEF FinalWakeup, SendWakeup, Touch, Handling, Busy,
         Serving
    <2>13. ASSUME fault' = "none" PROVE Working'
      BY <1>c, <1>n, <1>t, <1>13, <2>13, <2>f DEF FinalWakeup, SendWakeup, Touch, Working, Busy,
         Serving, Exclusive, Taken, Claimed, Finished
    <2>14. ASSUME fault' = "none" PROVE Waiting'
      BY <1>c, <1>n, <1>t, <1>13, <2>14, <2>f DEF FinalWakeup, SendWakeup, Touch, Waiting, Taken,
         Exclusive, Claimed
    <2>q. QED
      BY <1>a, <2>1, <2>2, <2>3, <2>4, <2>5, <2>6, <2>7, <2>8, <2>9, <2>10, <2>11, <2>12, <2>13,
         <2>14
  <1>14. QED
    BY <1>1, <1>2, <1>3, <1>4, <1>5, <1>6, <1>7, <1>8, <1>9, <1>10, <1>11, <1>12, <1>13

(* The event-loop thread and signals                                      *)
LEMMA LoopIInv ==
  ASSUME IInv,
         (\E c \in Conns : Request(c)) \/ IsBusy \/ Allocate \/ ParseFails \/ Refused \/
         Accepted \/ (\E c \in Conns : OnWakeup(c)) \/ (\E c \in Conns : OnStreamWakeup(c))
         \/ CheckDone \/ LoadState \/ StatsRead \/ StatsLoad \/ (\E c \in Conns : Close(c))
         \/ CloseMgr \/ CloseOrphan \/ Signal \/ LeaveLoop \/ CancelWorker \/ StopWorker \/
         Join
  PROVE  IInv'
  <1>n. NULL \notin Addrs /\ NULL \notin Conns /\ Streams \subseteq BOOLEAN /\ MaxTokens \in Nat
    BY ConstantsAssumption
  <1>0. Connected /\ Pointing /\ ServingIsSafe
    BY DEF IInv
  <1>t. MemOK /\ PointersOK /\ WorkerOK /\ LoopOK /\ NetOK
    BY TypeParts DEF IInv
  <1>c. fault = "none" => /\ \A d \in Conns : Owned(d)
                          /\ \A a \in Addrs : Sane(a)
                          /\ LastJob /\ Handling /\ Working /\ Waiting
    BY DEF IInv, Clean
  <1>a. ASSUME MemOK', PointersOK', WorkerOK', LoopOK', NetOK', Connected',
               Pointing', ServingIsSafe',
               fault' = "none" => \A d \in Conns : Owned(d)',
               fault' = "none" => \A a \in Addrs : Sane(a)',
               fault' = "none" => LastJob', fault' = "none" => Handling',
               fault' = "none" => Working', fault' = "none" => Waiting'
        PROVE  IInv'
    BY <1>a, TypePartsNext DEF IInv, Clean
  <1> USE DEF memory, shared, worker, loop, net
  <1>1. CASE \E c \in Conns : Request(c)
    <2>p. PICK c \in Conns : Request(c)
      BY <1>1
    <2>1. MemOK'
      BY <1>t, <2>p, <1>0 DEF Request, Copy, MemOK, Job, JobStates
    <2>2. PointersOK'
      BY <1>t, <2>p DEF Request, Copy, PointersOK, Faults, Target
    <2>3. WorkerOK'
      BY <1>t, <2>p DEF Request, Copy, WorkerOK, PointersOK, Busy, Serving
    <2>4. LoopOK'
      BY <1>t, <2>p, <1>0 DEF Request, Copy, LoopOK, PointersOK
    <2>5. NetOK'
      BY <1>t, <2>p, <1>0 DEF Request, Copy, NetOK, Connected, LoopOK
    <2>6. Connected'
      BY <1>t, <2>p, <1>0 DEF Request, Copy, Connected, Busy, Serving, PointersOK, WorkerOK, LoopOK
    <2>7. Pointing'
      BY <1>t, <2>p, <1>0, <1>n DEF Request, Copy, Pointing, Busy, Serving
    <2>8. ServingIsSafe'
      BY <1>t, <2>p, <1>0, <1>c DEF Request, Copy, ServingIsSafe
    <2>f. fault' = "none" => fault = "none"
      BY <2>p DEF Request, Copy
    <2>9. ASSUME fault' = "none" PROVE \A d \in Conns : Owned(d)'
      BY <1>c, <1>n, <1>t, <2>p, <2>9, <2>f DEF Request, Copy, Owned
    <2>10. ASSUME fault' = "none" PROVE \A a \in Addrs : Sane(a)'
      BY <1>c, <1>n, <1>t, <2>p, <2>10, <2>f DEF Request, Copy, Sane, Finished
    <2>11. ASSUME fault' = "none" PROVE LastJob'
      BY <1>c, <1>n, <1>t, <2>p, <2>11, <2>f DEF Request, Copy, LastJob
    <2>12. ASSUME fault' = "none" PROVE Handling'
      BY <1>c, <1>n, <1>t, <2>p, <2>12, <2>f DEF Request, Copy, Handling, Busy, Serving
    <2>13. ASSUME fault' = "none" PROVE Working'
      BY <1>c, <1>n, <1>t, <2>p, <2>13, <2>f DEF Request, Copy, Working, Busy, Serving,
         Exclusive, Taken, Claimed, Finished
    <2>14. ASSUME fault' = "none" PROVE Waiting'
      BY <1>c, <1>n, <1>t, <2>p, <2>14, <2>f DEF Request, Copy, Waiting, Taken, Exclusive, Claimed
    <2>q. QED
      BY <1>a, <2>1, <2>2, <2>3, <2>4, <2>5, <2>6, <2>7, <2>8, <2>9, <2>10, <2>11, <2>12, <2>13,
         <2>14
  <1>2. CASE IsBusy
    <2>1. MemOK'
      BY <1>t, <1>2, <1>0 DEF IsBusy, Touch, Home, MemOK, Job, JobStates
    <2>2. PointersOK'
      BY <1>t, <1>2 DEF IsBusy, Touch, Home, PointersOK, Faults, Target
    <2>3. WorkerOK'
      BY <1>t, <1>2 DEF IsBusy, Touch, Home, WorkerOK, PointersOK, Busy, Serving
    <2>4. LoopOK'
      BY <1>t, <1>2, <1>0 DEF IsBusy, Touch, Home, LoopOK, PointersOK
    <2>5. NetOK'
      BY <1>t, <1>2, <1>0 DEF IsBusy, Touch, Home, NetOK, Connected, LoopOK
    <2>6. Connected'
      BY <1>t, <1>2, <1>0 DEF IsBusy, Touch, Home, Connected, Busy, Serving
    <2>7. Pointing'
      BY <1>t, <1>2, <1>0, <1>n DEF IsBusy, Touch, Home, Pointing, Busy, Serving
    <2>8. ServingIsSafe'
      BY <1>t, <1>2, <1>0, <1>c DEF IsBusy, Touch, Home, ServingIsSafe
    <2>f. fault' = "none" => fault = "none"
      BY <1>2 DEF IsBusy, Touch, Home
    <2>9. ASSUME fault' = "none" PROVE \A d \in Conns : Owned(d)'
      BY <1>c, <1>n, <1>t, <1>2, <2>9, <2>f DEF IsBusy, Touch, Home, Owned
    <2>10. ASSUME fault' = "none" PROVE \A a \in Addrs : Sane(a)'
      BY <1>c, <1>n, <1>t, <1>2, <2>10, <2>f DEF IsBusy, Touch, Home, Sane, Finished
    <2>11. ASSUME fault' = "none" PROVE LastJob'
      BY <1>c, <1>n, <1>t, <1>2, <2>11, <2>f DEF IsBusy, Touch, Home, LastJob
    <2>12. ASSUME fault' = "none" PROVE Handling'
      BY <1>c, <1>n, <1>t, <1>2, <2>12, <2>f DEF IsBusy, Touch, Home, Handling, Busy, Serving
    <2>13. ASSUME fault' = "none" PROVE Working'
      BY <1>c, <1>n, <1>t, <1>2, <2>13, <2>f DEF IsBusy, Touch, Home, Working, Busy, Serving,
         Exclusive, Taken, Claimed, Finished
    <2>14. ASSUME fault' = "none" PROVE Waiting'
      BY <1>c, <1>n, <1>t, <1>2, <2>14, <2>f DEF IsBusy, Touch, Home, Waiting, Taken, Exclusive,
         Claimed
    <2>q. QED
      BY <1>a, <2>1, <2>2, <2>3, <2>4, <2>5, <2>6, <2>7, <2>8, <2>9, <2>10, <2>11, <2>12, <2>13,
         <2>14
  <1>3. CASE Allocate
    <2> DEFINE new == mpc' = "submit"
    <2>d. /\ UNCHANGED <<current_job, running, shutdown, wpc, job, tokens, inLoop, conn, flag>>
          /\ UNCHANGED <<open, cd_job, requests, wakeups, missed, fault>>
          /\ mpc = "alloc" /\ mpc' \in {"submit", "poll", "destroy"} /\ conn \in Conns
          /\ dangling' = IF new THEN dangling \ {"ptr"} ELSE dangling
          /\ ~new => UNCHANGED <<mem, ptr>>
      BY <1>0, <1>3 DEF Allocate, Connected, Home
    <2>e. ASSUME new
          PROVE  /\ MemOK' /\ ptr' \in Addrs /\ ~mem[ptr'].live
                 /\ \A b \in Addrs : b # ptr' => mem'[b] = mem[b]
                 /\ mem'[ptr'].live /\ mem'[ptr'].conn = conn /\ ~mem'[ptr'].orphaned
                 /\ mem'[ptr'].state = "IDLE" /\ ~mem'[ptr'].done /\ ~mem'[ptr'].ran
      <3>1. PICK a \in Addrs, s \in Streams :
                   ~mem[a].live /\ mem' = [mem EXCEPT ![a] = NewJob(conn, s)] /\ ptr' = a
        BY <2>e, <1>3 DEF Allocate, Home
      <3>2. NewJob(conn, s) \in Job
        BY <1>n, <2>d DEF NewJob, Job, JobStates
      <3>3. MemOK' /\ mem'[a] = NewJob(conn, s) /\ \A b \in Addrs : b # a => mem'[b] = mem[b]
        BY <1>t, <3>1, <3>2 DEF MemOK
      <3>4. QED
        BY <3>1, <3>3 DEF NewJob
    <2>g. MemOK'
      BY <1>t, <2>d, <2>e DEF MemOK
    <2> HIDE DEF new
    <2>k. ASSUME NEW b \in Addrs, mem[b].live PROVE mem'[b] = mem[b] /\ (Claimed(b) => Claimed(b)')
      BY <2>d, <2>e, <2>k DEF Claimed
    <2>1. MemOK'
      BY <2>g
    <2>2. PointersOK'
      BY <1>t, <1>3 DEF Allocate, Home, NewJob, PointersOK, Faults, Target
    <2>3. WorkerOK'
      BY <1>t, <1>3 DEF Allocate, Home, NewJob, WorkerOK, PointersOK, Busy, Serving
    <2>4. LoopOK'
      BY <1>t, <1>3, <1>0 DEF Allocate, Home, NewJob, LoopOK, PointersOK
    <2>5. NetOK'
      BY <1>t, <1>3, <1>0 DEF Allocate, Home, NewJob, NetOK, Connected, LoopOK
    <2>6. Connected'
      BY <1>t, <1>3, <1>0, <2>d, <2>e, <2>k DEF new, Connected, Busy, Serving, PointersOK,
         WorkerOK, LoopOK, NetOK
    <2>7. Pointing'
      BY <1>t, <1>3, <1>0, <1>n, <2>d, <2>e, <2>k DEF new, Pointing, Busy, Serving, PointersOK,
         WorkerOK, LoopOK, NetOK
    <2>8. ServingIsSafe'
      BY <1>t, <1>3, <1>0, <1>c DEF Allocate, Home, NewJob, ServingIsSafe
    <2>f. fault' = "none" => fault = "none"
      BY <1>3 DEF Allocate, Home, NewJob
    <2>9. ASSUME fault' = "none" PROVE \A d \in Conns : Owned(d)'
      BY <1>c, <1>n, <1>t, <1>3, <2>9, <2>f, <2>d, <2>e, <2>k, <1>0 DEF new, Owned, PointersOK,
         WorkerOK, LoopOK, NetOK, Pointing, Connected, Busy, Serving
    <2>10. ASSUME fault' = "none" PROVE \A a \in Addrs : Sane(a)'
      BY <1>c, <1>n, <1>t, <1>3, <2>10, <2>f, <2>d, <2>e, <2>k, <1>0 DEF new, Sane, Finished,
         PointersOK, WorkerOK, LoopOK, NetOK, Pointing, Owned, Connected, Busy, Serving
    <2>11. ASSUME fault' = "none" PROVE LastJob'
      BY <1>c, <1>n, <1>t, <1>3, <2>11, <2>f, <2>d, <2>e, <2>k, <1>0 DEF new, LastJob,
         PointersOK, WorkerOK, LoopOK, NetOK, Pointing, Owned, Connected, Busy, Serving
    <2>12. ASSUME fault' = "none" PROVE Handling'
      BY <1>c, <1>n, <1>t, <1>3, <2>12, <2>f, <2>d, <2>e, <2>k, <1>0 DEF new, Handling, Busy,
         Serving, PointersOK, WorkerOK, LoopOK, NetOK, Pointing, Owned, Connected
    <2>13. ASSUME fault' = "none" PROVE Working'
      BY <1>c, <1>n, <1>t, <1>3, <2>13, <2>f, <2>d, <2>e, <2>k, <1>0 DEF new, Working, Busy,
         Serving, Exclusive, Taken, Claimed, Finished, PointersOK, WorkerOK, LoopOK, NetOK,
         Pointing, Owned, Connected
    <2>14. ASSUME fault' = "none" PROVE Waiting'
      BY <1>c, <1>n, <1>t, <1>3, <2>14, <2>f, <2>d, <2>e, <2>k, <1>0 DEF new, Waiting, Taken,
         Exclusive, Claimed, PointersOK, WorkerOK, LoopOK, NetOK, Pointing, Owned, Connected, Busy,
         Serving
    <2>q. QED
      BY <1>a, <2>1, <2>2, <2>3, <2>4, <2>5, <2>6, <2>7, <2>8, <2>9, <2>10, <2>11, <2>12, <2>13,
         <2>14
  <1>4. CASE ParseFails
    <2>d. ptr \in Addrs /\ mpc = "submit"
      BY <1>0, <1>4 DEF ParseFails, Connected
    <2>e. MemOK' /\ Releases(ptr, TRUE)
      BY <1>t, <2>d, <1>4, FreeReleases DEF ParseFails
    <2>1. MemOK'
      BY <2>e
    <2>2. PointersOK'
      BY <1>t, <1>4, <2>e DEF ParseFails, Home, PointersOK, Faults, Target, Releases, SameJob
    <2>3. WorkerOK'
      BY <1>t, <1>4, <2>e DEF ParseFails, Home, WorkerOK, PointersOK, Busy, Serving, Releases,
         SameJob
    <2>4. LoopOK'
      BY <1>t, <1>4, <1>0, <2>e DEF ParseFails, Home, LoopOK, PointersOK, Releases, SameJob
    <2>5. NetOK'
      BY <1>t, <1>4, <1>0, <2>e DEF ParseFails, Home, NetOK, Connected, LoopOK, Releases, SameJob
    <2>6. Connected'
      BY <1>t, <1>4, <1>0, <2>e, <2>d DEF ParseFails, Home, Connected, Busy, Serving, Releases,
         SameJob, PointersOK, WorkerOK
    <2>7. Pointing'
      BY <1>t, <1>4, <1>0, <1>n, <2>e, <2>d DEF ParseFails, Home, Pointing, Busy, Serving,
         Releases, SameJob, PointersOK, WorkerOK
    <2>8. ServingIsSafe'
      BY <1>t, <1>4, <1>0, <1>c, <2>e DEF ParseFails, Home, ServingIsSafe, Releases, SameJob
    <2>f. fault' = "none" => fault = "none"
      BY <1>4 DEF ParseFails, Home
    <2>9. ASSUME fault' = "none" PROVE \A d \in Conns : Owned(d)'
      BY <1>c, <1>n, <1>t, <1>4, <2>9, <2>f, <2>e, <2>d, <1>0 DEF ParseFails, Home, Owned,
         Releases, SameJob, PointersOK, WorkerOK, Handling, Pointing, Busy, Serving, NetOK
    <2>10. ASSUME fault' = "none" PROVE \A a \in Addrs : Sane(a)'
      BY <1>c, <1>n, <1>t, <1>4, <2>10, <2>f, <2>e, <2>d, <1>0 DEF ParseFails, Home, Sane,
         Finished, Releases, SameJob, PointersOK, WorkerOK, Handling, Pointing, Busy, Serving, NetOK
    <2>11. ASSUME fault' = "none" PROVE LastJob'
      BY <1>c, <1>n, <1>t, <1>4, <2>11, <2>f, <2>e, <2>d, <1>0 DEF ParseFails, Home, LastJob,
         Releases, SameJob, PointersOK, WorkerOK, Handling, Pointing, Busy, Serving, NetOK
    <2>12. ASSUME fault' = "none" PROVE Handling'
      BY <1>c, <1>n, <1>t, <1>4, <2>12, <2>f, <2>e, <2>d, <1>0 DEF ParseFails, Home, Handling,
         Busy, Serving, Releases, SameJob, PointersOK, WorkerOK, Pointing, NetOK
    <2>13. ASSUME fault' = "none" PROVE Working'
      BY <1>c, <1>n, <1>t, <1>4, <2>13, <2>f, <2>e, <2>d, <1>0 DEF ParseFails, Home, Working,
         Busy, Serving, Exclusive, Taken, Claimed, Finished, Releases, SameJob, PointersOK,
         WorkerOK, Handling, Pointing, NetOK
    <2>14. ASSUME fault' = "none" PROVE Waiting'
      BY <1>c, <1>n, <1>t, <1>4, <2>14, <2>f, <2>e, <2>d, <1>0 DEF ParseFails, Home, Waiting,
         Taken, Exclusive, Claimed, Releases, SameJob, PointersOK, WorkerOK, Handling, Pointing,
         Busy, Serving, NetOK
    <2>q. QED
      BY <1>a, <2>1, <2>2, <2>3, <2>4, <2>5, <2>6, <2>7, <2>8, <2>9, <2>10, <2>11, <2>12, <2>13,
         <2>14
  <1>5. CASE Refused
    <2>d. ptr \in Addrs /\ mpc = "submit"
      BY <1>0, <1>5 DEF Refused, Connected
    <2>e. MemOK' /\ Releases(ptr, TRUE)
      BY <1>t, <2>d, <1>5, FreeReleases DEF Refused
    <2>1. MemOK'
      BY <2>e
    <2>2. PointersOK'
      BY <1>t, <1>5, <2>e DEF Refused, Touch, Home, PointersOK, Faults, Target, Releases, SameJob
    <2>3. WorkerOK'
      BY <1>t, <1>5, <2>e DEF Refused, Touch, Home, WorkerOK, PointersOK, Busy, Serving,
         Releases, SameJob
    <2>4. LoopOK'
      BY <1>t, <1>5, <1>0, <2>e DEF Refused, Touch, Home, LoopOK, PointersOK, Releases, SameJob
    <2>5. NetOK'
      BY <1>t, <1>5, <1>0, <2>e DEF Refused, Touch, Home, NetOK, Connected, LoopOK, Releases,
         SameJob
    <2>6. Connected'
      BY <1>t, <1>5, <1>0, <2>e, <2>d DEF Refused, Touch, Home, Connected, Busy, Serving,
         Releases, SameJob, PointersOK, WorkerOK
    <2>7. Pointing'
      BY <1>t, <1>5, <1>0, <1>n, <2>e, <2>d DEF Refused, Touch, Home, Pointing, Busy, Serving,
         Releases, SameJob, PointersOK, WorkerOK
    <2>8. ServingIsSafe'
      BY <1>t, <1>5, <1>0, <1>c, <2>e DEF Refused, Touch, Home, ServingIsSafe, Releases, SameJob
    <2>f. fault' = "none" => fault = "none"
      BY <1>5 DEF Refused, Touch, Home
    <2>9. ASSUME fault' = "none" PROVE \A d \in Conns : Owned(d)'
      BY <1>c, <1>n, <1>t, <1>5, <2>9, <2>f, <2>e, <2>d, <1>0 DEF Refused, Touch, Home, Owned,
         Releases, SameJob, PointersOK, WorkerOK, Handling, Pointing, Busy, Serving, NetOK
    <2>10. ASSUME fault' = "none" PROVE \A a \in Addrs : Sane(a)'
      BY <1>c, <1>n, <1>t, <1>5, <2>10, <2>f, <2>e, <2>d, <1>0 DEF Refused, Touch, Home, Sane,
         Finished, Releases, SameJob, PointersOK, WorkerOK, Handling, Pointing, Busy, Serving, NetOK
    <2>11. ASSUME fault' = "none" PROVE LastJob'
      BY <1>c, <1>n, <1>t, <1>5, <2>11, <2>f, <2>e, <2>d, <1>0 DEF Refused, Touch, Home, LastJob,
         Releases, SameJob, PointersOK, WorkerOK, Handling, Pointing, Busy, Serving, NetOK
    <2>12. ASSUME fault' = "none" PROVE Handling'
      BY <1>c, <1>n, <1>t, <1>5, <2>12, <2>f, <2>e, <2>d, <1>0 DEF Refused, Touch, Home,
         Handling, Busy, Serving, Releases, SameJob, PointersOK, WorkerOK, Pointing, NetOK
    <2>13. ASSUME fault' = "none" PROVE Working'
      BY <1>c, <1>n, <1>t, <1>5, <2>13, <2>f, <2>e, <2>d, <1>0 DEF Refused, Touch, Home, Working,
         Busy, Serving, Exclusive, Taken, Claimed, Finished, Releases, SameJob, PointersOK,
         WorkerOK, Handling, Pointing, NetOK
    <2>14. ASSUME fault' = "none" PROVE Waiting'
      BY <1>c, <1>n, <1>t, <1>5, <2>14, <2>f, <2>e, <2>d, <1>0 DEF Refused, Touch, Home, Waiting,
         Taken, Exclusive, Claimed, Releases, SameJob, PointersOK, WorkerOK, Handling, Pointing,
         Busy, Serving, NetOK
    <2>q. QED
      BY <1>a, <2>1, <2>2, <2>3, <2>4, <2>5, <2>6, <2>7, <2>8, <2>9, <2>10, <2>11, <2>12, <2>13,
         <2>14
  <1>6. CASE Accepted
    <2>d. /\ UNCHANGED <<running, shutdown, job, tokens, inLoop, conn, ptr, flag>>
          /\ UNCHANGED <<open, requests, wakeups, missed>>
          /\ mpc = "submit" /\ mpc' \in {"poll", "destroy"} /\ conn \in Conns /\ ptr \in Addrs
          /\ current_job' = ptr /\ wpc' = IF wpc = "wait" THEN "pick" ELSE wpc
          /\ dangling' = IF "ptr" \in dangling THEN dangling \cup {"current_job"}
             ELSE dangling \ {"current_job"}
      BY <1>0, <1>6 DEF Accepted, Connected, Home, Copy
    <2>e. /\ MemOK' /\ mem'[ptr].state = "IDLE"
          /\ \A b \in Addrs : b # ptr => mem'[b] = mem[b]
          /\ mem'[ptr].live = mem[ptr].live /\ mem'[ptr].conn = mem[ptr].conn
          /\ mem'[ptr].orphaned = mem[ptr].orphaned /\ mem'[ptr].done = mem[ptr].done
          /\ mem'[ptr].ran = mem[ptr].ran
      <3> DEFINE new == [mem[ptr] EXCEPT !.state = "IDLE", !.cancel = FALSE]
      <3>1. mem' = [mem EXCEPT ![ptr] = new]
        <4>1. mem' = [mem EXCEPT ![ptr].state = "IDLE", ![ptr].cancel = FALSE]
          BY <1>6 DEF Accepted
        <4>2. QED
          BY <1>t, <2>d, <4>1 DEF MemOK
      <3>2. mem[ptr] \in Job
        BY <1>t, <2>d DEF MemOK
      <3>3. new \in Job
        BY <3>2 DEF Job, JobStates
      <3>4. /\ new.state = "IDLE"
            /\ new.live = mem[ptr].live /\ new.conn = mem[ptr].conn
            /\ new.orphaned = mem[ptr].orphaned /\ new.done = mem[ptr].done
            /\ new.ran = mem[ptr].ran
        BY <3>2 DEF Job
      <3> HIDE DEF new
      <3>5. QED
        BY <1>t, <2>d, <3>1, <3>3, <3>4 DEF MemOK
    <2>g. \A d \in Conns : cd_job'[d] = IF d = conn THEN ptr ELSE cd_job[d]
      BY <1>t, <1>6 DEF Accepted, NetOK
    <2>h. fault' = "none" => fault = "none" /\ "current_job" \notin dangling
      BY <1>6 DEF Accepted, Touch
    <2>i. fault = "none" => /\ "ptr" \notin dangling /\ mem[ptr].conn = conn /\ open[conn] = "open"
                            /\ ~mem[ptr].orphaned /\ ~mem[ptr].ran /\ ~mem[ptr].done
                            /\ \A c \in Conns : cd_job[c] # ptr
                            /\ current_job = ptr => "current_job" \in dangling
                            /\ wpc \in Busy /\ job = ptr => "job" \in dangling
                            /\ cd_job[conn] = NULL
                            /\ mem[ptr].live
      BY <1>0, <1>c, <1>n, <2>d DEF Handling, Pointing
    <2>j. fault' = "none" =>
            /\ wpc \notin Exclusive \cup {"store"}
            /\ wpc \in {"log", "clear"} => "job" \notin dangling
      <3> SUFFICES ASSUME fault' = "none"
                   PROVE  /\ wpc \notin Exclusive \cup {"store"}
                          /\ wpc \in {"log", "clear"} => "job" \notin dangling
        OBVIOUS
      <3>1. current_job = NULL \/ mem[current_job].state \notin {"IDLE", "RUNNING"}
        BY <1>6 DEF Accepted, Unfinished
      <3>2. "current_job" \notin dangling /\ Working /\ Waiting
        BY <1>c, <2>h
      <3>3. CASE wpc \in Exclusive \cup {"store"}
        <4>1. current_job = job /\ wpc \in Busy /\ wpc \in Taken /\ job \in Addrs
          BY <1>t, <3>2, <3>3 DEF Working, Exclusive, Busy, Serving, Taken, WorkerOK
        <4>2. "job" \notin dangling
          BY <3>2, <4>1 DEF Working
        <4>3. mem[job].state \in {"IDLE", "RUNNING"}
          BY <3>2, <3>3, <4>1, <4>2 DEF Working, Exclusive
        <4>4. QED
          BY <1>n, <3>1, <4>1, <4>3
      <3>4. CASE wpc \in {"log", "clear"}
        <4>1. current_job # NULL /\ wpc \in Taken
          BY <3>2, <3>4 DEF Working, Taken
        <4>2. current_job = job
          BY <3>1, <3>2, <4>1 DEF Waiting
        <4>3. QED
          BY <3>2, <3>4, <4>1, <4>2 DEF Working, Exclusive
      <3>5. QED
        BY <3>3, <3>4
    <2>k. ASSUME NEW b \in Addrs, mem[b].conn \in Conns, fault = "none", b # ptr
          PROVE Claimed(b) => Claimed(b)'
      BY <1>n, <2>d, <2>e, <2>g, <2>i, <2>k DEF Claimed
    <2>1. MemOK'
      BY <2>e
    <2>2. PointersOK'
      BY <1>t, <2>d, <1>6 DEF Accepted, Touch, PointersOK, Faults
    <2>3. WorkerOK'
      BY <1>t, <1>6 DEF Accepted, Touch, Copy, Home, Unfinished, WorkerOK, PointersOK, Busy, Serving
    <2>4. LoopOK'
      BY <1>t, <1>6, <1>0 DEF Accepted, Touch, Copy, Home, Unfinished, LoopOK, PointersOK
    <2>5. NetOK'
      BY <1>t, <1>6, <1>0 DEF Accepted, Touch, Copy, Home, Unfinished, NetOK, Connected, LoopOK
    <2>6. Connected'
      BY <1>t, <1>6, <1>0, <2>d, <2>e, <2>g, <2>h, <2>i DEF Busy, Connected, Serving, PointersOK,
         WorkerOK, LoopOK, NetOK
    <2>7. Pointing'
      BY <1>t, <1>6, <1>0, <1>n, <2>d, <2>e, <2>g, <2>h, <2>i DEF Busy, Pointing, Serving,
         PointersOK, WorkerOK, LoopOK, NetOK
    <2>8. ServingIsSafe'
      BY <1>t, <1>6, <1>0, <1>c DEF Accepted, Touch, Copy, Home, Unfinished, ServingIsSafe
    <2>f. fault' = "none" => fault = "none"
      BY <2>h
    <2>9. ASSUME fault' = "none" PROVE \A d \in Conns : Owned(d)'
      BY <1>c, <1>n, <1>t, <1>6, <2>9, <2>f, <2>d, <2>e, <2>g, <2>h, <2>i, <1>0 DEF Busy, Owned,
         PointersOK, WorkerOK, LoopOK, NetOK
    <2>10. ASSUME fault' = "none" PROVE \A a \in Addrs : Sane(a)'
      BY <1>c, <1>n, <1>t, <1>6, <2>10, <2>f, <2>d, <2>e, <2>g, <2>h, <2>i, <1>0 DEF Busy, Sane,
         Finished, PointersOK, WorkerOK, LoopOK, NetOK, Owned
    <2>11. ASSUME fault' = "none" PROVE LastJob'
      BY <1>c, <1>n, <1>t, <1>6, <2>11, <2>f, <2>d, <2>e, <2>g, <2>h, <2>i, <1>0 DEF Busy,
         LastJob, PointersOK, WorkerOK, LoopOK, NetOK
    <2>12. ASSUME fault' = "none" PROVE Handling'
      BY <1>c, <1>n, <1>t, <1>6, <2>12, <2>f, <2>d, <2>e, <2>g, <2>h, <2>i, <1>0 DEF Busy,
         Handling, Serving, PointersOK, WorkerOK, LoopOK, NetOK
    <2>13. ASSUME fault' = "none" PROVE Working'
      BY <1>c, <1>n, <1>t, <1>6, <2>13, <2>f, <2>d, <2>e, <2>g, <2>h, <2>i, <1>0, <2>j, <2>k DEF
         Busy, Working, Serving, Exclusive, Taken, Claimed, Finished, PointersOK, WorkerOK, LoopOK,
         NetOK, Connected
    <2>14. ASSUME fault' = "none" PROVE Waiting'
      BY <1>c, <1>n, <1>t, <1>6, <2>14, <2>f, <2>d, <2>e, <2>g, <2>h, <2>i, <1>0, <2>j, <2>k DEF
         Busy, Waiting, Taken, Exclusive, Claimed, PointersOK, WorkerOK, LoopOK, NetOK, Connected,
         Serving
    <2>q. QED
      BY <1>a, <2>1, <2>2, <2>3, <2>4, <2>5, <2>6, <2>7, <2>8, <2>9, <2>10, <2>11, <2>12, <2>13,
         <2>14
  <1>7. CASE \E c \in Conns : OnWakeup(c)
    <2>p. PICK c \in Conns : OnWakeup(c)
      BY <1>7
    <2> DEFINE ends == cd_job[c] # NULL /\ Finished(cd_job[c])
    <2>d. /\ mpc = "poll"
          /\ UNCHANGED <<current_job, running, shutdown, wpc, job, tokens, mpc, inLoop, conn,
                         ptr, flag>>
          /\ UNCHANGED <<open, requests, missed>>
          /\ cd_job[c] # NULL => cd_job[c] \in Addrs
      BY <1>t, <2>p DEF OnWakeup, NetOK
    <2>e. MemOK' /\ Releases(cd_job[c], ends)
      <3>1. CASE ends
        <4>1. FinalizeJob(c)
          BY <2>p, <3>1 DEF OnWakeup
        <4>2. QED
          BY <1>t, <2>d, <3>1, <4>1, FinalizeReleases DEF Releases
      <3>2. CASE ~ends
        <4>1. UNCHANGED <<mem, dangling>>
          BY <2>p, <3>2 DEF OnWakeup
        <4>2. QED
          BY <1>t, <3>2, <4>1, KeepReleases DEF Releases
      <3>3. QED
        BY <3>1, <3>2
    <2>g. \A d \in Conns : cd_job'[d] = IF ends /\ d = c THEN NULL ELSE cd_job[d]
      BY <1>t, <2>p DEF OnWakeup, FinalizeJob, NetOK
    <2>h. fault' = fault \/ (fault = "none" /\ fault' # "none" /\ fault' = "drain")
      BY <2>p DEF OnWakeup, TouchOwn
    <2>i. fault = "none" => fault' = "none"
      BY <1>c, <2>p DEF OnWakeup, Owned, TouchOwn
    <2>j. ends => Finished(cd_job[c])
      OBVIOUS
    <2>l. ends => cd_job[c] \in Addrs
      BY <2>d
    <2> HIDE DEF ends
    <2>k. fault = "none" => Working' /\ Waiting'
      <3>1. ends \in BOOLEAN
        BY <2>p DEF ends, Finished
      <3>2. ASSUME fault = "none", ends
            PROVE  /\ c \in Conns /\ cd_job[c] \in Addrs /\ Owned(c) /\ Sane(cd_job[c])
                   /\ Finished(cd_job[c]) \/ mem[cd_job[c]].done
        BY <1>c, <2>d, <2>j, <2>l, <3>2
      <3>3. QED
        BY <1>0, <1>c, <1>t, <2>d, <2>e, <2>g, <2>l, <3>1, <3>2, AnswerKeeps
    <2>1. MemOK'
      BY <2>e
    <2>2. PointersOK'
      BY <1>t, <2>d, <2>e, <2>h DEF PointersOK, Releases, Faults
    <2>3. WorkerOK'
      BY <1>t, <2>d DEF WorkerOK
    <2>4. LoopOK'
      BY <1>t, <2>d DEF LoopOK
    <2>5. NetOK'
      BY <1>t, <2>p DEF OnWakeup, FinalizeJob, NetOK
    <2>6. Connected'
      BY <1>t, <2>p, <1>0, <2>d, <2>e, <2>g DEF Finished, Connected, Busy, Serving, Releases,
         SameJob, PointersOK, WorkerOK, LoopOK
    <2>7. Pointing'
      <3>1. ptr # NULL => ptr \in Addrs
        BY <1>t DEF LoopOK
      <3>2. current_job # NULL => current_job \in Addrs
        BY <1>t DEF PointersOK
      <3>3. wpc \in Busy => job \in Addrs
        BY <1>t DEF WorkerOK
      <3>4. current_job = NULL => current_job # cd_job[c] \/ ~ends
        BY <1>n, <2>l
      <3>5. QED
        BY <1>0, <2>d, <2>e, <3>1, <3>2, <3>3, <3>4 DEF Pointing, Releases
    <2>8. ServingIsSafe'
      BY <1>0, <2>h, <2>i DEF ServingIsSafe
    <2>f. fault' = "none" => fault = "none"
      BY <2>h
    <2>9. ASSUME fault' = "none" PROVE \A d \in Conns : Owned(d)'
      BY <1>c, <1>n, <1>t, <2>p, <2>9, <2>f, <2>d, <2>e, <2>g, <1>0, <2>j DEF Finished, Owned,
         Releases, SameJob, PointersOK, WorkerOK, NetOK
    <2>10. ASSUME fault' = "none" PROVE \A a \in Addrs : Sane(a)'
      BY <1>c, <1>n, <1>t, <2>p, <2>10, <2>f, <2>d, <2>e, <2>g, <1>0, <2>j DEF Finished, Sane,
         Releases, SameJob, PointersOK, WorkerOK, NetOK, Owned
    <2>11. ASSUME fault' = "none" PROVE LastJob'
      BY <1>c, <1>n, <1>t, <2>p, <2>11, <2>f, <2>d, <2>e, <2>g, <1>0, <2>j DEF Finished, LastJob,
         Releases, SameJob, PointersOK, WorkerOK, NetOK, Owned
    <2>12. ASSUME fault' = "none" PROVE Handling'
      BY <1>c, <1>n, <1>t, <2>p, <2>12, <2>f, <2>d, <2>e, <2>g, <1>0, <2>j DEF Finished,
         Handling, Busy, Serving, Releases, SameJob, PointersOK, WorkerOK, NetOK, Owned
    <2>13. ASSUME fault' = "none" PROVE Working'
      BY <2>f, <2>k, <2>13
    <2>14. ASSUME fault' = "none" PROVE Waiting'
      BY <2>f, <2>k, <2>14
    <2>q. QED
      BY <1>a, <2>1, <2>2, <2>3, <2>4, <2>5, <2>6, <2>7, <2>8, <2>9, <2>10, <2>11, <2>12, <2>13,
         <2>14
  <1>8. CASE \E c \in Conns : OnStreamWakeup(c)
    <2>p. PICK c \in Conns : OnStreamWakeup(c)
      BY <1>8
    <2>h. fault = "none" => fault' = "none"
      BY <1>0, <1>c, <2>p DEF OnStreamWakeup, Owned, Connected, TouchOwn
    <2>1. MemOK'
      <3>1. mem' = [mem EXCEPT ![cd_job[c]].unread = 0]
        BY <2>p DEF OnStreamWakeup
      <3>2. QED
        BY <1>t, <3>1 DEF MemOK, Job
    <2>2. PointersOK'
      BY <1>t, <2>p DEF OnStreamWakeup, TouchOwn, PointersOK, Faults, Target
    <2>3. WorkerOK'
      BY <1>t, <2>p DEF OnStreamWakeup, TouchOwn, WorkerOK, PointersOK, Busy, Serving
    <2>4. LoopOK'
      BY <1>t, <2>p, <1>0 DEF OnStreamWakeup, TouchOwn, LoopOK, PointersOK
    <2>5. NetOK'
      BY <1>t, <2>p, <1>0 DEF OnStreamWakeup, TouchOwn, NetOK, Connected, LoopOK
    <2>6. Connected'
      BY <1>t, <2>p, <1>0 DEF OnStreamWakeup, TouchOwn, Connected, Busy, Serving
    <2>7. Pointing'
      BY <1>t, <2>p, <1>0, <1>n DEF OnStreamWakeup, TouchOwn, Pointing, Busy, Serving
    <2>8. ServingIsSafe'
      BY <1>t, <2>p, <1>0, <1>c, <2>h DEF OnStreamWakeup, TouchOwn, ServingIsSafe
    <2>f. fault' = "none" => fault = "none"
      BY <2>p DEF OnStreamWakeup, TouchOwn
    <2>9. ASSUME fault' = "none" PROVE \A d \in Conns : Owned(d)'
      BY <1>c, <1>n, <1>t, <2>p, <2>9, <2>f DEF OnStreamWakeup, TouchOwn, Owned
    <2>10. ASSUME fault' = "none" PROVE \A a \in Addrs : Sane(a)'
      BY <1>c, <1>n, <1>t, <2>p, <2>10, <2>f DEF OnStreamWakeup, TouchOwn, Sane, Finished
    <2>11. ASSUME fault' = "none" PROVE LastJob'
      BY <1>c, <1>n, <1>t, <2>p, <2>11, <2>f DEF OnStreamWakeup, TouchOwn, LastJob
    <2>12. ASSUME fault' = "none" PROVE Handling'
      BY <1>c, <1>n, <1>t, <2>p, <2>12, <2>f DEF OnStreamWakeup, TouchOwn, Handling, Busy, Serving
    <2>13. ASSUME fault' = "none" PROVE Working'
      BY <1>c, <1>n, <1>t, <2>p, <2>13, <2>f DEF OnStreamWakeup, TouchOwn, Working, Busy,
         Serving, Exclusive, Taken, Claimed, Finished
    <2>14. ASSUME fault' = "none" PROVE Waiting'
      BY <1>c, <1>n, <1>t, <2>p, <2>14, <2>f DEF OnStreamWakeup, TouchOwn, Waiting, Taken,
         Exclusive, Claimed
    <2>q. QED
      BY <1>a, <2>1, <2>2, <2>3, <2>4, <2>5, <2>6, <2>7, <2>8, <2>9, <2>10, <2>11, <2>12, <2>13,
         <2>14
  <1>9. CASE CheckDone
    <2>h. fault = "none" => fault' = "none"
      BY <1>0, <1>c, <1>9 DEF CheckDone, Owned, Connected, TouchOwn
    <2>1. MemOK'
      BY <1>t, <1>9, <1>0 DEF CheckDone, TouchOwn, MemOK, Job, JobStates
    <2>2. PointersOK'
      BY <1>t, <1>9 DEF CheckDone, TouchOwn, PointersOK, Faults, Target
    <2>3. WorkerOK'
      BY <1>t, <1>9 DEF CheckDone, TouchOwn, WorkerOK, PointersOK, Busy, Serving
    <2>4. LoopOK'
      BY <1>t, <1>9, <1>0 DEF CheckDone, TouchOwn, LoopOK, PointersOK
    <2>5. NetOK'
      BY <1>t, <1>9, <1>0 DEF CheckDone, TouchOwn, NetOK, Connected, LoopOK
    <2>6. Connected'
      BY <1>t, <1>9, <1>0 DEF CheckDone, TouchOwn, Connected, Busy, Serving
    <2>7. Pointing'
      BY <1>t, <1>9, <1>0, <1>n DEF CheckDone, TouchOwn, Pointing, Busy, Serving
    <2>8. ServingIsSafe'
      BY <1>t, <1>9, <1>0, <1>c, <2>h DEF CheckDone, TouchOwn, ServingIsSafe
    <2>f. fault' = "none" => fault = "none"
      BY <1>9 DEF CheckDone, TouchOwn
    <2>9. ASSUME fault' = "none" PROVE \A d \in Conns : Owned(d)'
      BY <1>c, <1>n, <1>t, <1>9, <2>9, <2>f DEF CheckDone, TouchOwn, Owned
    <2>10. ASSUME fault' = "none" PROVE \A a \in Addrs : Sane(a)'
      BY <1>c, <1>n, <1>t, <1>9, <2>10, <2>f DEF CheckDone, TouchOwn, Sane, Finished
    <2>11. ASSUME fault' = "none" PROVE LastJob'
      BY <1>c, <1>n, <1>t, <1>9, <2>11, <2>f DEF CheckDone, TouchOwn, LastJob
    <2>12. ASSUME fault' = "none" PROVE Handling'
      BY <1>c, <1>n, <1>t, <1>9, <2>12, <2>f DEF CheckDone, TouchOwn, Handling, Busy, Serving
    <2>13. ASSUME fault' = "none" PROVE Working'
      BY <1>c, <1>n, <1>t, <1>9, <2>13, <2>f DEF CheckDone, TouchOwn, Working, Busy, Serving,
         Exclusive, Taken, Claimed, Finished
    <2>14. ASSUME fault' = "none" PROVE Waiting'
      BY <1>c, <1>n, <1>t, <1>9, <2>14, <2>f DEF CheckDone, TouchOwn, Waiting, Taken, Exclusive,
         Claimed
    <2>q. QED
      BY <1>a, <2>1, <2>2, <2>3, <2>4, <2>5, <2>6, <2>7, <2>8, <2>9, <2>10, <2>11, <2>12, <2>13,
         <2>14
  <1>10. CASE LoadState
    <2> DEFINE ends == flag \/ Finished(cd_job[conn])
    <2>d. /\ mpc = "load" /\ mpc' = Home /\ conn \in Conns /\ cd_job[conn] \in Addrs
          /\ UNCHANGED <<current_job, running, shutdown, wpc, job, tokens, inLoop, conn, ptr, flag>>
          /\ UNCHANGED <<requests, wakeups, missed>>
      BY <1>0, <1>t, <1>10 DEF LoadState, Connected, NetOK
    <2>e. MemOK' /\ Releases(cd_job[conn], ends)
      <3>1. CASE ends
        <4>1. FinalizeJob(conn)
          BY <1>10, <3>1 DEF LoadState
        <4>2. QED
          BY <1>t, <2>d, <3>1, <4>1, FinalizeReleases DEF Releases
      <3>2. CASE ~ends
        <4>1. UNCHANGED <<mem, dangling>>
          BY <1>10, <3>2 DEF LoadState
        <4>2. QED
          BY <1>t, <3>2, <4>1, KeepReleases DEF Releases
      <3>3. QED
        BY <3>1, <3>2
    <2>g. /\ \A d \in Conns : cd_job'[d] = IF ends /\ d = conn THEN NULL ELSE cd_job[d]
          /\ \A d \in Conns : open'[d] = IF ends /\ d = conn THEN "draining" ELSE open[d]
      BY <1>t, <1>10 DEF LoadState, FinalizeJob, NetOK
    <2>h. fault' = fault \/ (fault = "none" /\ fault' # "none" /\ fault' = "drain")
      BY <1>10 DEF LoadState, TouchOwn
    <2>i. fault = "none" => fault' = "none"
      BY <1>0, <1>c, <1>10 DEF LoadState, Owned, Connected, TouchOwn
    <2>j. ends /\ fault = "none" => mem[cd_job[conn]].done \/ Finished(cd_job[conn])
      BY <1>c, <2>d DEF Handling
    <2>l. ends => cd_job[conn] \in Addrs
      BY <2>d
    <2> HIDE DEF ends
    <2>k. fault = "none" => Working' /\ Waiting'
      <3>1. ends \in BOOLEAN
        BY <1>10 DEF ends, Finished
      <3>2. ASSUME fault = "none", ends
            PROVE  /\ conn \in Conns /\ cd_job[conn] \in Addrs /\ Owned(conn) /\ Sane(cd_job[conn])
                   /\ Finished(cd_job[conn]) \/ mem[cd_job[conn]].done
        BY <1>c, <2>d, <2>j, <2>l, <3>2
      <3>3. QED
        BY <1>0, <1>c, <1>t, <2>d, <2>e, <2>g, <2>l, <3>1, <3>2, AnswerKeeps
    <2>1. MemOK'
      BY <2>e
    <2>2. PointersOK'
      BY <1>t, <2>d, <2>e, <2>h DEF PointersOK, Releases, Faults
    <2>3. WorkerOK'
      BY <1>t, <2>d DEF WorkerOK
    <2>4. LoopOK'
      BY <1>t, <2>d DEF LoopOK, Home
    <2>5. NetOK'
      BY <1>t, <1>10 DEF LoadState, FinalizeJob, NetOK
    <2>6. Connected'
      BY <1>t, <1>10, <1>0, <2>d, <2>e, <2>g DEF Home, Connected, Busy, Serving, Releases,
         SameJob, PointersOK, WorkerOK, LoopOK
    <2>7. Pointing'
      BY <1>t, <1>10, <1>0, <1>n, <2>d, <2>e, <2>g DEF Home, Pointing, Busy, Serving, Releases,
         SameJob, PointersOK, WorkerOK, LoopOK
    <2>8. ServingIsSafe'
      BY <1>0, <2>h, <2>i DEF ServingIsSafe
    <2>f. fault' = "none" => fault = "none"
      BY <2>h
    <2>9. ASSUME fault' = "none" PROVE \A d \in Conns : Owned(d)'
      BY <1>c, <1>n, <1>t, <1>10, <2>9, <2>f, <2>d, <2>e, <2>g, <1>0, <2>j DEF Home, Owned,
         Releases, SameJob, PointersOK, WorkerOK, NetOK, Finished, Handling
    <2>10. ASSUME fault' = "none" PROVE \A a \in Addrs : Sane(a)'
      BY <1>c, <1>n, <1>t, <1>10, <2>10, <2>f, <2>d, <2>e, <2>g, <1>0, <2>j DEF Home, Sane,
         Finished, Releases, SameJob, PointersOK, WorkerOK, NetOK, Owned, Handling
    <2>11. ASSUME fault' = "none" PROVE LastJob'
      BY <1>c, <1>n, <1>t, <1>10, <2>11, <2>f, <2>d, <2>e, <2>g, <1>0, <2>j DEF Home, LastJob,
         Releases, SameJob, PointersOK, WorkerOK, NetOK, Owned, Finished, Handling
    <2>12. ASSUME fault' = "none" PROVE Handling'
      BY <1>c, <1>n, <1>t, <1>10, <2>12, <2>f, <2>d, <2>e, <2>g, <1>0, <2>j DEF Home, Handling,
         Busy, Serving, Releases, SameJob, PointersOK, WorkerOK, NetOK, Owned, Finished
    <2>13. ASSUME fault' = "none" PROVE Working'
      BY <2>f, <2>k, <2>13
    <2>14. ASSUME fault' = "none" PROVE Waiting'
      BY <2>f, <2>k, <2>14
    <2>q. QED
      BY <1>a, <2>1, <2>2, <2>3, <2>4, <2>5, <2>6, <2>7, <2>8, <2>9, <2>10, <2>11, <2>12, <2>13,
         <2>14
  <1>11. CASE StatsRead
    <2>1. MemOK'
      BY <1>t, <1>11, <1>0 DEF StatsRead, Copy, MemOK, Job, JobStates
    <2>2. PointersOK'
      BY <1>t, <1>11 DEF StatsRead, Copy, PointersOK, Faults, Target
    <2>3. WorkerOK'
      BY <1>t, <1>11 DEF StatsRead, Copy, WorkerOK, PointersOK, Busy, Serving
    <2>4. LoopOK'
      BY <1>t, <1>11, <1>0 DEF StatsRead, Copy, LoopOK, PointersOK
    <2>5. NetOK'
      BY <1>t, <1>11, <1>0 DEF StatsRead, Copy, NetOK, Connected, LoopOK
    <2>6. Connected'
      BY <1>t, <1>11, <1>0 DEF StatsRead, Copy, Connected, Busy, Serving, PointersOK, WorkerOK,
         LoopOK
    <2>7. Pointing'
      BY <1>t, <1>11, <1>0, <1>n DEF StatsRead, Copy, Pointing, Busy, Serving
    <2>8. ServingIsSafe'
      BY <1>t, <1>11, <1>0, <1>c DEF StatsRead, Copy, ServingIsSafe
    <2>f. fault' = "none" => fault = "none"
      BY <1>11 DEF StatsRead, Copy
    <2>9. ASSUME fault' = "none" PROVE \A d \in Conns : Owned(d)'
      BY <1>c, <1>n, <1>t, <1>11, <2>9, <2>f DEF StatsRead, Copy, Owned
    <2>10. ASSUME fault' = "none" PROVE \A a \in Addrs : Sane(a)'
      BY <1>c, <1>n, <1>t, <1>11, <2>10, <2>f DEF StatsRead, Copy, Sane, Finished
    <2>11. ASSUME fault' = "none" PROVE LastJob'
      BY <1>c, <1>n, <1>t, <1>11, <2>11, <2>f DEF StatsRead, Copy, LastJob
    <2>12. ASSUME fault' = "none" PROVE Handling'
      BY <1>c, <1>n, <1>t, <1>11, <2>12, <2>f DEF StatsRead, Copy, Handling, Busy, Serving
    <2>13. ASSUME fault' = "none" PROVE Working'
      BY <1>c, <1>n, <1>t, <1>11, <2>13, <2>f DEF StatsRead, Copy, Working, Busy, Serving,
         Exclusive, Taken, Claimed, Finished
    <2>14. ASSUME fault' = "none" PROVE Waiting'
      BY <1>c, <1>n, <1>t, <1>11, <2>14, <2>f DEF StatsRead, Copy, Waiting, Taken, Exclusive,
         Claimed
    <2>q. QED
      BY <1>a, <2>1, <2>2, <2>3, <2>4, <2>5, <2>6, <2>7, <2>8, <2>9, <2>10, <2>11, <2>12, <2>13,
         <2>14
  <1>12. CASE StatsLoad
    <2>1. MemOK'
      BY <1>t, <1>12, <1>0 DEF StatsLoad, Touch, Home, MemOK, Job, JobStates
    <2>2. PointersOK'
      BY <1>t, <1>12 DEF StatsLoad, Touch, Home, PointersOK, Faults, Target
    <2>3. WorkerOK'
      BY <1>t, <1>12 DEF StatsLoad, Touch, Home, WorkerOK, PointersOK, Busy, Serving
    <2>4. LoopOK'
      BY <1>t, <1>12, <1>0 DEF StatsLoad, Touch, Home, LoopOK, PointersOK
    <2>5. NetOK'
      BY <1>t, <1>12, <1>0 DEF StatsLoad, Touch, Home, NetOK, Connected, LoopOK
    <2>6. Connected'
      BY <1>t, <1>12, <1>0 DEF StatsLoad, Touch, Home, Connected, Busy, Serving
    <2>7. Pointing'
      BY <1>t, <1>12, <1>0, <1>n DEF StatsLoad, Touch, Home, Pointing, Busy, Serving
    <2>8. ServingIsSafe'
      BY <1>t, <1>12, <1>0, <1>c DEF StatsLoad, Touch, Home, ServingIsSafe
    <2>f. fault' = "none" => fault = "none"
      BY <1>12 DEF StatsLoad, Touch, Home
    <2>9. ASSUME fault' = "none" PROVE \A d \in Conns : Owned(d)'
      BY <1>c, <1>n, <1>t, <1>12, <2>9, <2>f DEF StatsLoad, Touch, Home, Owned
    <2>10. ASSUME fault' = "none" PROVE \A a \in Addrs : Sane(a)'
      BY <1>c, <1>n, <1>t, <1>12, <2>10, <2>f DEF StatsLoad, Touch, Home, Sane, Finished
    <2>11. ASSUME fault' = "none" PROVE LastJob'
      BY <1>c, <1>n, <1>t, <1>12, <2>11, <2>f DEF StatsLoad, Touch, Home, LastJob
    <2>12. ASSUME fault' = "none" PROVE Handling'
      BY <1>c, <1>n, <1>t, <1>12, <2>12, <2>f DEF StatsLoad, Touch, Home, Handling, Busy, Serving
    <2>13. ASSUME fault' = "none" PROVE Working'
      BY <1>c, <1>n, <1>t, <1>12, <2>13, <2>f DEF StatsLoad, Touch, Home, Working, Busy, Serving,
         Exclusive, Taken, Claimed, Finished
    <2>14. ASSUME fault' = "none" PROVE Waiting'
      BY <1>c, <1>n, <1>t, <1>12, <2>14, <2>f DEF StatsLoad, Touch, Home, Waiting, Taken,
         Exclusive, Claimed
    <2>q. QED
      BY <1>a, <2>1, <2>2, <2>3, <2>4, <2>5, <2>6, <2>7, <2>8, <2>9, <2>10, <2>11, <2>12, <2>13,
         <2>14
  <1>13. CASE \E c \in Conns : Close(c)
    <2>p. PICK c \in Conns : Close(c)
      BY <1>13
    <2>d. /\ UNCHANGED <<current_job, running, shutdown, wpc, job, tokens, inLoop, ptr, flag>>
          /\ UNCHANGED <<cd_job, requests, missed, dangling>>
          /\ cd_job[c] # NULL => cd_job[c] \in Addrs
      BY <1>t, <2>p DEF Close, NetOK, Forget
    <2>e. MemOK' /\ Releases(cd_job[c], FALSE)
      <3>1. CASE cd_job[c] = NULL
        <4>1. UNCHANGED <<mem, dangling>>
          BY <2>p, <3>1 DEF Close
        <4>2. QED
          BY <1>t, <4>1, KeepReleases
      <3>2. CASE cd_job[c] # NULL
        <4>1. mem' = [mem EXCEPT ![cd_job[c]].cancel = TRUE] /\ UNCHANGED dangling
          BY <2>p, <3>2 DEF Close
        <4>2. QED
          BY <1>t, <2>d, <3>2, <4>1, CancelReleases
      <3>3. QED
        BY <3>1, <3>2
    <2>g. \A d \in Conns : open'[d] = IF cd_job[c] = NULL /\ d = c THEN "closed" ELSE open[d]
      BY <1>t, <2>p DEF Close, Forget, NetOK
    <2>h. fault' = fault \/ (fault = "none" /\ fault' = "close")
      BY <2>p DEF Close, TouchOwn
    <2>i. fault = "none" => fault' = "none"
      BY <1>c, <2>p DEF Close, Owned, TouchOwn
    <2>j. /\ mpc \in {"poll", "destroy"}
          /\ mpc' = mpc \/ (mpc' = "close_mgr" /\ conn' = c /\ cd_job[c] # NULL)
      BY <2>p DEF Close
    <2>k. ASSUME NEW b \in Addrs, fault = "none" PROVE Claimed(b) => Claimed(b)'
      BY <2>d, <2>e, <2>k DEF Claimed, Releases, SameJob
    <2>1. MemOK'
      BY <2>e
    <2>2. PointersOK'
      BY <1>t, <2>d, <2>h DEF PointersOK, Faults
    <2>3. WorkerOK'
      BY <1>t, <2>p DEF Close, TouchOwn, Forget, WorkerOK, PointersOK, Busy, Serving
    <2>4. LoopOK'
      BY <1>t, <2>p, <1>0 DEF Close, TouchOwn, Forget, LoopOK, PointersOK
    <2>5. NetOK'
      BY <1>t, <2>p, <1>0 DEF Close, TouchOwn, Forget, NetOK, Connected, LoopOK
    <2>6. Connected'
      BY <1>t, <2>p, <1>0, <2>d, <2>e, <2>g, <2>j DEF Busy, Connected, Serving, Releases,
         SameJob, PointersOK, WorkerOK, LoopOK
    <2>7. Pointing'
      BY <1>t, <2>p, <1>0, <1>n, <2>d, <2>e, <2>g, <2>j DEF Busy, Pointing, Serving, Releases,
         SameJob, PointersOK, WorkerOK, LoopOK
    <2>8. ServingIsSafe'
      BY <1>0, <2>h, <2>i DEF ServingIsSafe
    <2>f. fault' = "none" => fault = "none"
      BY <2>h
    <2>9. ASSUME fault' = "none" PROVE \A d \in Conns : Owned(d)'
      BY <1>c, <1>n, <1>t, <2>p, <2>9, <2>f, <2>d, <2>e, <2>g, <2>j, <1>0 DEF Busy, Owned,
         Releases, SameJob, PointersOK, WorkerOK, LoopOK, NetOK
    <2>10. ASSUME fault' = "none" PROVE \A a \in Addrs : Sane(a)'
      BY <1>c, <1>n, <1>t, <2>p, <2>10, <2>f, <2>d, <2>e, <2>g, <2>j, <1>0 DEF Busy, Sane,
         Finished, Releases, SameJob, PointersOK, WorkerOK, LoopOK, NetOK
    <2>11. ASSUME fault' = "none" PROVE LastJob'
      BY <1>c, <1>n, <1>t, <2>p, <2>11, <2>f, <2>d, <2>e, <2>g, <2>j, <1>0 DEF Busy, LastJob,
         Releases, SameJob, PointersOK, WorkerOK, LoopOK, NetOK
    <2>12. ASSUME fault' = "none" PROVE Handling'
      BY <1>c, <1>n, <1>t, <2>p, <2>12, <2>f, <2>d, <2>e, <2>g, <2>j, <1>0 DEF Busy, Handling,
         Serving, Releases, SameJob, PointersOK, WorkerOK, LoopOK, NetOK
    <2>13. ASSUME fault' = "none" PROVE Working'
      BY <1>c, <1>n, <1>t, <2>p, <2>13, <2>f, <2>d, <2>e, <2>g, <2>j, <1>0, <2>k DEF Busy,
         Working, Serving, Exclusive, Taken, Claimed, Finished, Releases, SameJob, PointersOK,
         WorkerOK, LoopOK
    <2>14. ASSUME fault' = "none" PROVE Waiting'
      BY <1>c, <1>n, <1>t, <2>p, <2>14, <2>f, <2>d, <2>e, <2>g, <2>j, <1>0, <2>k DEF Busy,
         Waiting, Taken, Exclusive, Claimed, Releases, SameJob, PointersOK, WorkerOK, LoopOK,
         Serving
    <2>q. QED
      BY <1>a, <2>1, <2>2, <2>3, <2>4, <2>5, <2>6, <2>7, <2>8, <2>9, <2>10, <2>11, <2>12, <2>13,
         <2>14
  <1>14. CASE CloseMgr
    <2>h. fault = "none" => fault' = "none"
      BY <1>0, <1>c, <1>14 DEF CloseMgr, Owned, Connected, TouchOwn
    <2>1. MemOK'
      BY <1>t, <1>14, <1>0 DEF CloseMgr, TouchOwn, MemOK, Job, JobStates
    <2>2. PointersOK'
      BY <1>t, <1>14 DEF CloseMgr, TouchOwn, PointersOK, Faults, Target
    <2>3. WorkerOK'
      BY <1>t, <1>14 DEF CloseMgr, TouchOwn, WorkerOK, PointersOK, Busy, Serving
    <2>4. LoopOK'
      BY <1>t, <1>14, <1>0 DEF CloseMgr, TouchOwn, LoopOK, PointersOK
    <2>5. NetOK'
      BY <1>t, <1>14, <1>0 DEF CloseMgr, TouchOwn, NetOK, Connected, LoopOK
    <2>6. Connected'
      BY <1>t, <1>14, <1>0 DEF CloseMgr, TouchOwn, Connected, Busy, Serving
    <2>7. Pointing'
      BY <1>t, <1>14, <1>0, <1>n DEF CloseMgr, TouchOwn, Pointing, Busy, Serving
    <2>8. ServingIsSafe'
      BY <1>t, <1>14, <1>0, <1>c, <2>h DEF CloseMgr, TouchOwn, ServingIsSafe
    <2>f. fault' = "none" => fault = "none"
      BY <1>14 DEF CloseMgr, TouchOwn
    <2>9. ASSUME fault' = "none" PROVE \A d \in Conns : Owned(d)'
      BY <1>c, <1>n, <1>t, <1>14, <2>9, <2>f DEF CloseMgr, TouchOwn, Owned
    <2>10. ASSUME fault' = "none" PROVE \A a \in Addrs : Sane(a)'
      BY <1>c, <1>n, <1>t, <1>14, <2>10, <2>f DEF CloseMgr, TouchOwn, Sane, Finished
    <2>11. ASSUME fault' = "none" PROVE LastJob'
      BY <1>c, <1>n, <1>t, <1>14, <2>11, <2>f DEF CloseMgr, TouchOwn, LastJob
    <2>12. ASSUME fault' = "none" PROVE Handling'
      BY <1>c, <1>n, <1>t, <1>14, <2>12, <2>f DEF CloseMgr, TouchOwn, Handling, Busy, Serving
    <2>13. ASSUME fault' = "none" PROVE Working'
      BY <1>c, <1>n, <1>t, <1>14, <2>13, <2>f DEF CloseMgr, TouchOwn, Working, Busy, Serving,
         Exclusive, Taken, Claimed, Finished
    <2>14. ASSUME fault' = "none" PROVE Waiting'
      BY <1>c, <1>n, <1>t, <1>14, <2>14, <2>f DEF CloseMgr, TouchOwn, Waiting, Taken, Exclusive,
         Claimed
    <2>q. QED
      BY <1>a, <2>1, <2>2, <2>3, <2>4, <2>5, <2>6, <2>7, <2>8, <2>9, <2>10, <2>11, <2>12, <2>13,
         <2>14
  <1>15. CASE CloseOrphan
    <2>h. fault = "none" => fault' = "none"
      BY <1>0, <1>c, <1>15 DEF CloseOrphan, Owned, Connected, TouchOwn
    <2>d. /\ UNCHANGED <<current_job, running, shutdown, wpc, job, tokens, inLoop, conn, ptr, flag>>
          /\ UNCHANGED <<requests, missed, dangling>>
          /\ mpc = "close_orphan" /\ mpc' = Home /\ conn \in Conns /\ cd_job[conn] \in Addrs
      BY <1>0, <1>t, <1>15 DEF CloseOrphan, Connected, NetOK
    <2>e. \A b \in Addrs : /\ mem'[b].conn = mem[b].conn /\ mem'[b].state = mem[b].state
                           /\ mem'[b].done = mem[b].done /\ mem'[b].ran = mem[b].ran
                           /\ mem'[b].live = mem[b].live
                           /\ mem'[b].orphaned <=> mem[b].orphaned \/ b = cd_job[conn]
      BY <1>t, <2>d, <1>15 DEF CloseOrphan, MemOK, Job
    <2>g. /\ \A d \in Conns : cd_job'[d] = IF d = conn THEN NULL ELSE cd_job[d]
          /\ \A d \in Conns : open'[d] = IF d = conn THEN "closed" ELSE open[d]
      BY <1>t, <1>15 DEF CloseOrphan, Forget, NetOK
    <2>k. ASSUME NEW b \in Addrs, mem[b].conn \in Conns PROVE Claimed(b) => Claimed(b)'
      BY <2>e, <2>g, <2>k DEF Claimed
    <2>1. MemOK'
      BY <1>t, <1>15, <1>0 DEF CloseOrphan, TouchOwn, Forget, Home, MemOK, Job, JobStates
    <2>2. PointersOK'
      BY <1>t, <1>15 DEF CloseOrphan, TouchOwn, Forget, Home, PointersOK, Faults, Target
    <2>3. WorkerOK'
      BY <1>t, <1>15 DEF CloseOrphan, TouchOwn, Forget, Home, WorkerOK, PointersOK, Busy, Serving
    <2>4. LoopOK'
      BY <1>t, <1>15, <1>0 DEF CloseOrphan, TouchOwn, Forget, Home, LoopOK, PointersOK
    <2>5. NetOK'
      BY <1>t, <1>15, <1>0 DEF CloseOrphan, TouchOwn, Forget, Home, NetOK, Connected, LoopOK
    <2>6. Connected'
      BY <1>t, <1>15, <1>0 DEF CloseOrphan, TouchOwn, Forget, Home, Connected, Busy, Serving
    <2>7. Pointing'
      BY <1>t, <1>15, <1>0, <1>n DEF CloseOrphan, TouchOwn, Forget, Home, Pointing, Busy, Serving
    <2>8. ServingIsSafe'
      BY <1>t, <1>15, <1>0, <1>c, <2>h DEF CloseOrphan, TouchOwn, Forget, Home, ServingIsSafe
    <2>f. fault' = "none" => fault = "none"
      BY <1>15 DEF CloseOrphan, TouchOwn, Forget, Home
    <2>9. ASSUME fault' = "none" PROVE \A d \in Conns : Owned(d)'
      BY <1>c, <1>n, <1>t, <1>15, <2>9, <2>f, <2>d, <2>e, <2>g, <1>0 DEF Home, Owned, PointersOK,
         WorkerOK, LoopOK, NetOK, Sane, Finished
    <2>10. ASSUME fault' = "none" PROVE \A a \in Addrs : Sane(a)'
      BY <1>c, <1>n, <1>t, <1>15, <2>10, <2>f, <2>d, <2>e, <2>g, <1>0 DEF Home, Sane, Finished,
         PointersOK, WorkerOK, LoopOK, NetOK, Owned
    <2>11. ASSUME fault' = "none" PROVE LastJob'
      BY <1>c, <1>n, <1>t, <1>15, <2>11, <2>f, <2>d, <2>e, <2>g, <1>0 DEF Home, LastJob,
         PointersOK, WorkerOK, LoopOK, NetOK, Owned, Sane, Finished
    <2>12. ASSUME fault' = "none" PROVE Handling'
      BY <1>c, <1>n, <1>t, <1>15, <2>12, <2>f, <2>d, <2>e, <2>g, <1>0 DEF Home, Handling, Busy,
         Serving, PointersOK, WorkerOK, LoopOK, NetOK
    <2>13. ASSUME fault' = "none" PROVE Working'
      BY <1>c, <1>n, <1>t, <1>15, <2>13, <2>f, <2>d, <2>e, <2>g, <1>0, <2>k DEF Home, Working,
         Busy, Serving, Exclusive, Taken, Claimed, Finished, PointersOK, WorkerOK, LoopOK, NetOK,
         Connected
    <2>14. ASSUME fault' = "none" PROVE Waiting'
      BY <1>c, <1>n, <1>t, <1>15, <2>14, <2>f, <2>d, <2>e, <2>g, <1>0, <2>k DEF Home, Waiting,
         Taken, Exclusive, Claimed, PointersOK, WorkerOK, LoopOK, NetOK, Connected
    <2>q. QED
      BY <1>a, <2>1, <2>2, <2>3, <2>4, <2>5, <2>6, <2>7, <2>8, <2>9, <2>10, <2>11, <2>12, <2>13,
         <2>14
  <1>16. CASE Signal
    <2>1. MemOK'
      BY <1>t, <1>16, <1>0 DEF Signal, MemOK, Job, JobStates
    <2>2. PointersOK'
      BY <1>t, <1>16 DEF Signal, PointersOK, Faults, Target
    <2>3. WorkerOK'
      BY <1>t, <1>16 DEF Signal, WorkerOK, PointersOK, Busy, Serving
    <2>4. LoopOK'
      BY <1>t, <1>16, <1>0 DEF Signal, LoopOK, PointersOK
    <2>5. NetOK'
      BY <1>t, <1>16, <1>0 DEF Signal, NetOK, Connected, LoopOK
    <2>6. Connected'
      BY <1>t, <1>16, <1>0 DEF Signal, Connected, Busy, Serving
    <2>7. Pointing'
      BY <1>t, <1>16, <1>0, <1>n DEF Signal, Pointing, Busy, Serving
    <2>8. ServingIsSafe'
      BY <1>t, <1>16, <1>0, <1>c DEF Signal, ServingIsSafe
    <2>f. fault' = "none" => fault = "none"
      BY <1>16 DEF Signal
    <2>9. ASSUME fault' = "none" PROVE \A d \in Conns : Owned(d)'
      BY <1>c, <1>n, <1>t, <1>16, <2>9, <2>f DEF Signal, Owned
    <2>10. ASSUME fault' = "none" PROVE \A a \in Addrs : Sane(a)'
      BY <1>c, <1>n, <1>t, <1>16, <2>10, <2>f DEF Signal, Sane, Finished
    <2>11. ASSUME fault' = "none" PROVE LastJob'
      BY <1>c, <1>n, <1>t, <1>16, <2>11, <2>f DEF Signal, LastJob
    <2>12. ASSUME fault' = "none" PROVE Handling'
      BY <1>c, <1>n, <1>t, <1>16, <2>12, <2>f DEF Signal, Handling, Busy, Serving
    <2>13. ASSUME fault' = "none" PROVE Working'
      BY <1>c, <1>n, <1>t, <1>16, <2>13, <2>f DEF Signal, Working, Busy, Serving, Exclusive,
         Taken, Claimed, Finished
    <2>14. ASSUME fault' = "none" PROVE Waiting'
      BY <1>c, <1>n, <1>t, <1>16, <2>14, <2>f DEF Signal, Waiting, Taken, Exclusive, Claimed
    <2>q. QED
      BY <1>a, <2>1, <2>2, <2>3, <2>4, <2>5, <2>6, <2>7, <2>8, <2>9, <2>10, <2>11, <2>12, <2>13,
         <2>14
  <1>17. CASE LeaveLoop
    <2>1. MemOK'
      BY <1>t, <1>17, <1>0 DEF LeaveLoop, MemOK, Job, JobStates
    <2>2. PointersOK'
      BY <1>t, <1>17 DEF LeaveLoop, PointersOK, Faults, Target
    <2>3. WorkerOK'
      BY <1>t, <1>17 DEF LeaveLoop, WorkerOK, PointersOK, Busy, Serving
    <2>4. LoopOK'
      BY <1>t, <1>17, <1>0 DEF LeaveLoop, LoopOK, PointersOK
    <2>5. NetOK'
      BY <1>t, <1>17, <1>0 DEF LeaveLoop, NetOK, Connected, LoopOK
    <2>6. Connected'
      BY <1>t, <1>17, <1>0 DEF LeaveLoop, Connected, Busy, Serving
    <2>7. Pointing'
      BY <1>t, <1>17, <1>0, <1>n DEF LeaveLoop, Pointing, Busy, Serving
    <2>8. ServingIsSafe'
      BY <1>t, <1>17, <1>0, <1>c DEF LeaveLoop, ServingIsSafe
    <2>f. fault' = "none" => fault = "none"
      BY <1>17 DEF LeaveLoop
    <2>9. ASSUME fault' = "none" PROVE \A d \in Conns : Owned(d)'
      BY <1>c, <1>n, <1>t, <1>17, <2>9, <2>f DEF LeaveLoop, Owned
    <2>10. ASSUME fault' = "none" PROVE \A a \in Addrs : Sane(a)'
      BY <1>c, <1>n, <1>t, <1>17, <2>10, <2>f DEF LeaveLoop, Sane, Finished
    <2>11. ASSUME fault' = "none" PROVE LastJob'
      BY <1>c, <1>n, <1>t, <1>17, <2>11, <2>f DEF LeaveLoop, LastJob
    <2>12. ASSUME fault' = "none" PROVE Handling'
      BY <1>c, <1>n, <1>t, <1>17, <2>12, <2>f DEF LeaveLoop, Handling, Busy, Serving
    <2>13. ASSUME fault' = "none" PROVE Working'
      BY <1>c, <1>n, <1>t, <1>17, <2>13, <2>f DEF LeaveLoop, Working, Busy, Serving, Exclusive,
         Taken, Claimed, Finished
    <2>14. ASSUME fault' = "none" PROVE Waiting'
      BY <1>c, <1>n, <1>t, <1>17, <2>14, <2>f DEF LeaveLoop, Waiting, Taken, Exclusive, Claimed
    <2>q. QED
      BY <1>a, <2>1, <2>2, <2>3, <2>4, <2>5, <2>6, <2>7, <2>8, <2>9, <2>10, <2>11, <2>12, <2>13,
         <2>14
  <1>18. CASE CancelWorker
    <2>d. /\ UNCHANGED <<current_job, running, shutdown, wpc, job, tokens, inLoop, conn, ptr, flag>>
          /\ UNCHANGED <<open, cd_job, requests, wakeups, missed, dangling>>
          /\ mpc' = "stop"
      BY <1>18 DEF CancelWorker
    <2>e. MemOK' /\ Releases(current_job, FALSE)
      <3>1. CASE current_job = NULL
        <4>1. UNCHANGED <<mem, dangling>>
          BY <1>18, <3>1 DEF CancelWorker
        <4>2. QED
          BY <1>t, <4>1, KeepReleases
      <3>2. CASE current_job # NULL
        <4>1. mem' = [mem EXCEPT ![current_job].cancel = TRUE] /\ UNCHANGED dangling
          BY <1>18, <3>2 DEF CancelWorker
        <4>2. QED
          BY <1>t, <3>2, <4>1, CancelReleases DEF PointersOK
      <3>3. QED
        BY <3>1, <3>2
    <2>k. ASSUME NEW b \in Addrs PROVE Claimed(b) => Claimed(b)'
      BY <2>d, <2>e DEF Claimed, Releases, SameJob
    <2>1. MemOK'
      BY <2>e
    <2>2. PointersOK'
      BY <1>t, <1>18 DEF CancelWorker, Touch, PointersOK, Faults, Target
    <2>3. WorkerOK'
      BY <1>t, <1>18 DEF CancelWorker, Touch, WorkerOK, PointersOK, Busy, Serving
    <2>4. LoopOK'
      BY <1>t, <1>18, <1>0 DEF CancelWorker, Touch, LoopOK, PointersOK
    <2>5. NetOK'
      BY <1>t, <1>18, <1>0 DEF CancelWorker, Touch, NetOK, Connected, LoopOK
    <2>6. Connected'
      BY <1>t, <1>18, <1>0, <2>d, <2>e DEF Busy, Connected, Serving, Releases, SameJob,
         PointersOK, WorkerOK, LoopOK
    <2>7. Pointing'
      BY <1>t, <1>18, <1>0, <1>n, <2>d, <2>e DEF Busy, Pointing, Serving, Releases, SameJob,
         PointersOK, WorkerOK, LoopOK
    <2>8. ServingIsSafe'
      BY <1>t, <1>18, <1>0, <1>c DEF CancelWorker, Touch, ServingIsSafe
    <2>f. fault' = "none" => fault = "none"
      BY <1>18 DEF CancelWorker, Touch
    <2>9. ASSUME fault' = "none" PROVE \A d \in Conns : Owned(d)'
      BY <1>c, <1>n, <1>t, <1>18, <2>9, <2>f, <2>d, <2>e, <1>0 DEF Busy, Owned, Releases,
         SameJob, PointersOK, WorkerOK, LoopOK, NetOK
    <2>10. ASSUME fault' = "none" PROVE \A a \in Addrs : Sane(a)'
      BY <1>c, <1>n, <1>t, <1>18, <2>10, <2>f, <2>d, <2>e, <1>0 DEF Busy, Sane, Finished,
         Releases, SameJob, PointersOK, WorkerOK, LoopOK, NetOK
    <2>11. ASSUME fault' = "none" PROVE LastJob'
      BY <1>c, <1>n, <1>t, <1>18, <2>11, <2>f, <2>d, <2>e, <1>0 DEF Busy, LastJob, Releases,
         SameJob, PointersOK, WorkerOK, LoopOK, NetOK
    <2>12. ASSUME fault' = "none" PROVE Handling'
      BY <1>c, <1>n, <1>t, <1>18, <2>12, <2>f, <2>d, <2>e, <1>0 DEF Busy, Handling, Serving,
         Releases, SameJob, PointersOK, WorkerOK, LoopOK, NetOK
    <2>13. ASSUME fault' = "none" PROVE Working'
      BY <1>c, <1>n, <1>t, <1>18, <2>13, <2>f, <2>d, <2>e, <1>0, <2>k DEF Busy, Working, Serving,
         Exclusive, Taken, Claimed, Finished, Releases, SameJob, PointersOK, WorkerOK, LoopOK
    <2>14. ASSUME fault' = "none" PROVE Waiting'
      BY <1>c, <1>n, <1>t, <1>18, <2>14, <2>f, <2>d, <2>e, <1>0, <2>k DEF Busy, Waiting, Taken,
         Exclusive, Claimed, Releases, SameJob, PointersOK, WorkerOK, LoopOK, Serving
    <2>q. QED
      BY <1>a, <2>1, <2>2, <2>3, <2>4, <2>5, <2>6, <2>7, <2>8, <2>9, <2>10, <2>11, <2>12, <2>13,
         <2>14
  <1>19. CASE StopWorker
    <2>1. MemOK'
      BY <1>t, <1>19, <1>0 DEF StopWorker, MemOK, Job, JobStates
    <2>2. PointersOK'
      BY <1>t, <1>19 DEF StopWorker, PointersOK, Faults, Target
    <2>3. WorkerOK'
      BY <1>t, <1>19 DEF StopWorker, WorkerOK, PointersOK, Busy, Serving
    <2>4. LoopOK'
      BY <1>t, <1>19, <1>0 DEF StopWorker, LoopOK, PointersOK
    <2>5. NetOK'
      BY <1>t, <1>19, <1>0 DEF StopWorker, NetOK, Connected, LoopOK
    <2>6. Connected'
      BY <1>t, <1>19, <1>0 DEF StopWorker, Connected, Busy, Serving
    <2>7. Pointing'
      BY <1>t, <1>19, <1>0, <1>n DEF StopWorker, Pointing, Busy, Serving
    <2>8. ServingIsSafe'
      BY <1>t, <1>19, <1>0, <1>c DEF StopWorker, ServingIsSafe
    <2>f. fault' = "none" => fault = "none"
      BY <1>19 DEF StopWorker
    <2>9. ASSUME fault' = "none" PROVE \A d \in Conns : Owned(d)'
      BY <1>c, <1>n, <1>t, <1>19, <2>9, <2>f DEF StopWorker, Owned
    <2>10. ASSUME fault' = "none" PROVE \A a \in Addrs : Sane(a)'
      BY <1>c, <1>n, <1>t, <1>19, <2>10, <2>f DEF StopWorker, Sane, Finished
    <2>11. ASSUME fault' = "none" PROVE LastJob'
      BY <1>c, <1>n, <1>t, <1>19, <2>11, <2>f DEF StopWorker, LastJob
    <2>12. ASSUME fault' = "none" PROVE Handling'
      BY <1>c, <1>n, <1>t, <1>19, <2>12, <2>f DEF StopWorker, Handling, Busy, Serving
    <2>13. ASSUME fault' = "none" PROVE Working'
      BY <1>c, <1>n, <1>t, <1>19, <2>13, <2>f DEF StopWorker, Working, Busy, Serving, Exclusive,
         Taken, Claimed, Finished
    <2>14. ASSUME fault' = "none" PROVE Waiting'
      BY <1>c, <1>n, <1>t, <1>19, <2>14, <2>f DEF StopWorker, Waiting, Taken, Exclusive, Claimed
    <2>q. QED
      BY <1>a, <2>1, <2>2, <2>3, <2>4, <2>5, <2>6, <2>7, <2>8, <2>9, <2>10, <2>11, <2>12, <2>13,
         <2>14
  <1>20. CASE Join
    <2>1. MemOK'
      BY <1>t, <1>20, <1>0 DEF Join, MemOK, Job, JobStates
    <2>2. PointersOK'
      BY <1>t, <1>20 DEF Join, PointersOK, Faults, Target
    <2>3. WorkerOK'
      BY <1>t, <1>20 DEF Join, WorkerOK, PointersOK, Busy, Serving
    <2>4. LoopOK'
      BY <1>t, <1>20, <1>0 DEF Join, LoopOK, PointersOK
    <2>5. NetOK'
      BY <1>t, <1>20, <1>0 DEF Join, NetOK, Connected, LoopOK
    <2>6. Connected'
      BY <1>t, <1>20, <1>0 DEF Join, Connected, Busy, Serving
    <2>7. Pointing'
      BY <1>t, <1>20, <1>0, <1>n DEF Join, Pointing, Busy, Serving
    <2>8. ServingIsSafe'
      BY <1>t, <1>20, <1>0, <1>c DEF Join, ServingIsSafe
    <2>f. fault' = "none" => fault = "none"
      BY <1>20 DEF Join
    <2>9. ASSUME fault' = "none" PROVE \A d \in Conns : Owned(d)'
      BY <1>c, <1>n, <1>t, <1>20, <2>9, <2>f DEF Join, Owned
    <2>10. ASSUME fault' = "none" PROVE \A a \in Addrs : Sane(a)'
      BY <1>c, <1>n, <1>t, <1>20, <2>10, <2>f DEF Join, Sane, Finished
    <2>11. ASSUME fault' = "none" PROVE LastJob'
      BY <1>c, <1>n, <1>t, <1>20, <2>11, <2>f DEF Join, LastJob
    <2>12. ASSUME fault' = "none" PROVE Handling'
      BY <1>c, <1>n, <1>t, <1>20, <2>12, <2>f DEF Join, Handling, Busy, Serving
    <2>13. ASSUME fault' = "none" PROVE Working'
      BY <1>c, <1>n, <1>t, <1>20, <2>13, <2>f DEF Join, Working, Busy, Serving, Exclusive, Taken,
         Claimed, Finished
    <2>14. ASSUME fault' = "none" PROVE Waiting'
      BY <1>c, <1>n, <1>t, <1>20, <2>14, <2>f DEF Join, Waiting, Taken, Exclusive, Claimed
    <2>q. QED
      BY <1>a, <2>1, <2>2, <2>3, <2>4, <2>5, <2>6, <2>7, <2>8, <2>9, <2>10, <2>11, <2>12, <2>13,
         <2>14
  <1>21. QED
    BY <1>1, <1>2, <1>3, <1>4, <1>5, <1>6, <1>7, <1>8, <1>9, <1>10, <1>11, <1>12, <1>13, <1>14,
       <1>15, <1>16, <1>17, <1>18, <1>19, <1>20

-----------------------------------------------------------------------------
(* The invariant                                                           *)

(* The invariant holds before the first request.                           *)
LEMMA InitIInv == Init => IInv
  <1> SUFFICES ASSUME Init PROVE IInv
    OBVIOUS
  <1>n. NULL \notin Addrs /\ NULL \notin Conns
    BY ConstantsAssumption
  <1>1. MemOK /\ \A a \in Addrs : ~mem[a].live
    <2> DEFINE unused == [NewJob(NULL, FALSE) EXCEPT !.live = FALSE]
    <2>1. unused \in Job /\ ~unused.live
      BY DEF NewJob, Job, JobStates
    <2>2. mem = [a \in Addrs |-> unused]
      BY DEF Init
    <2> HIDE DEF unused
    <2>3. QED
      BY <2>1, <2>2 DEF MemOK
  <1>2. PointersOK /\ WorkerOK /\ LoopOK /\ NetOK
    BY DEF Init, PointersOK, Faults, WorkerOK, Busy, Serving, LoopOK, NetOK
  <1>3. TypeOK
    BY <1>1, <1>2, TypeParts
  <1>4. Connected /\ Pointing /\ ServingIsSafe
    BY DEF Init, Connected, Pointing, ServingIsSafe, Busy, Serving
  <1>5. (\A c \in Conns : Owned(c)) /\ (\A a \in Addrs : Sane(a)) /\ LastJob
    BY <1>1 DEF Init, Owned, Sane, LastJob
  <1>6. Handling /\ Working /\ Waiting
    BY DEF Init, Handling, Working, Waiting, Busy, Serving, Exclusive, Taken
  <1>7. QED
    BY <1>3, <1>4, <1>5, <1>6 DEF IInv, Clean

(* A stutter preserves the invariant.                                      *)
LEMMA StutterIInv == ASSUME IInv, UNCHANGED vars PROVE IInv'
  BY DEF vars, memory, shared, worker, loop, net, IInv, TypeOK, Target, Connected, Pointing,
         ServingIsSafe, Clean, Owned, Sane, Finished, LastJob, Handling, Working, Waiting, Claimed

(* The steps of Next, each thread's on their own.                          *)
WorkerStep ==
    \/ Pick \/ SpuriousWakeup \/ Start \/ Token \/ Announce \/ InferenceReturns \/ RingDone
    \/ StoreState \/ LogDelivery \/ ClearCurrent \/ CheckOrphaned \/ CheckMgr \/ FinalWakeup

LoopStep ==
    \/ \E c \in Conns : Request(c)
    \/ IsBusy \/ Allocate \/ ParseFails \/ Refused \/ Accepted
    \/ \E c \in Conns : OnWakeup(c)
    \/ \E c \in Conns : OnStreamWakeup(c)
    \/ CheckDone \/ LoadState \/ StatsRead \/ StatsLoad
    \/ \E c \in Conns : Close(c)
    \/ CloseMgr \/ CloseOrphan \/ Signal \/ LeaveLoop \/ CancelWorker \/ StopWorker \/ Join

(* Every step is a step of the worker thread or of the event loop.         *)
LEMMA StepCases == [Next]_vars => WorkerStep \/ LoopStep \/ UNCHANGED vars
  BY SubmitCases DEF Next, Worker, Handler, Wakeup, Exited, WorkerStep, LoopStep

(* Every step of either thread preserves the invariant.                    *)
LEMMA NextIInv == IInv /\ [Next]_vars => IInv'
  BY WorkerIInv, LoopIInv, StutterIInv, StepCases DEF WorkerStep, LoopStep

(* The invariant of every behaviour.                                       *)
THEOREM Invariance == Spec => []IInv
  BY InitIInv, NextIInv, PTL DEF Spec

(* Type correctness of both threads and the memory they share.             *)
THEOREM TypeCorrect == Spec => []TypeOK
  <1>1. IInv => TypeOK
    BY DEF IInv
  <1>2. QED
    BY <1>1, Invariance, PTL

(* submit_inference_job, drain_stream_ring, MG_EV_CLOSE: until freed       *)
(* memory is accessed, a connection's pending job is allocated, its own    *)
(* and not given up.                                                       *)
THEOREM JobsOwned == Spec => []OwnedByConn
  <1>1. IInv => OwnedByConn
    BY DEF IInv, Clean, Owned, OwnedByConn
  <1>2. QED
    BY <1>1, Invariance, PTL

(* Inference, ring draining and MG_EV_CLOSE never are the first to touch a *)
(* freed job: the unlocked accesses of worker_thread_func after a job's    *)
(* end, and those of the event loop to w->current_job, are the only ones.  *)
THEOREM AccessesSafe == Spec => []ServingIsSafe
  <1>1. IInv => ServingIsSafe
    BY DEF IInv
  <1>2. QED
    BY <1>1, Invariance, PTL

-----------------------------------------------------------------------------
(* Jobs without streaming                                                  *)

(* The worker thread                                                      *)
LEMMA WorkerBInv ==
  ASSUME Streams \subseteq {FALSE}, IInv, BInv, WorkerStep
  PROVE  BInv'
  <1>n. NULL \notin Addrs /\ NULL \notin Conns
    BY ConstantsAssumption
  <1>0. Connected /\ Pointing
    BY DEF IInv
  <1>t. MemOK /\ PointersOK /\ WorkerOK /\ LoopOK /\ NetOK
    BY TypeParts DEF IInv
  <1>b. NoStream /\ BlockingJobsSafe
    BY DEF BInv
  <1>c. fault = "none" => /\ \A d \in Conns : Owned(d)
                          /\ \A a \in Addrs : Sane(a)
                          /\ Handling /\ Working /\ Waiting
                          /\ Holding /\ \A d \in Conns : Woken(d)
    BY DEF IInv, BInv, Clean
  <1> USE DEF memory, shared, worker, loop, net
  <1>1. CASE Pick
    <2>1. NoStream'
      BY <1>b, <1>t, <1>0, <1>1 DEF Pick, Copy, NoStream, Home, MemOK, Job, JobStates
    <2>2. fault' = "none" => fault = "none"
      BY <1>1 DEF Pick, Copy, Touch, TouchOwn, SendWakeup
    <2>3. BlockingJobsSafe'
      BY <1>b, <1>c, <1>1 DEF Pick, Copy, BlockingJobsSafe, Touch, TouchOwn, SendWakeup, Holding,
         Busy, Serving
    <2>4. ASSUME fault' = "none" PROVE Holding'
      BY <1>b, <1>c, <1>0, <1>n, <1>t, <1>1, <2>2, <2>4 DEF Pick, Copy, Holding, Busy, Serving,
         PointersOK, WorkerOK, Target
    <2>5. ASSUME fault' = "none", NEW d \in Conns PROVE Woken(d)'
      BY <1>b, <1>c, <1>0, <1>n, <1>t, <1>1, <2>2, <2>5 DEF Pick, Copy, Woken, Busy, Serving,
         Finished, NetOK, WorkerOK, MemOK, Waiting, Taken, Exclusive
    <2>6. QED
      BY <2>1, <2>2, <2>3, <2>4, <2>5 DEF BInv
  <1>2. CASE SpuriousWakeup
    <2>1. NoStream'
      BY <1>b, <1>t, <1>0, <1>2 DEF SpuriousWakeup, NoStream, Home, MemOK, Job, JobStates
    <2>2. fault' = "none" => fault = "none"
      BY <1>2 DEF SpuriousWakeup, Touch, TouchOwn, SendWakeup
    <2>3. BlockingJobsSafe'
      BY <1>b, <1>c, <1>2 DEF SpuriousWakeup, BlockingJobsSafe, Touch, TouchOwn, SendWakeup,
         Holding, Busy, Serving
    <2>4. ASSUME fault' = "none" PROVE Holding'
      BY <1>b, <1>c, <1>0, <1>n, <1>t, <1>2, <2>2, <2>4 DEF SpuriousWakeup, Holding, Busy,
         Serving, PointersOK, WorkerOK, Target
    <2>5. ASSUME fault' = "none", NEW d \in Conns PROVE Woken(d)'
      BY <1>b, <1>c, <1>0, <1>n, <1>t, <1>2, <2>2, <2>5 DEF SpuriousWakeup, Woken, Busy, Serving,
         Finished, NetOK, WorkerOK, MemOK
    <2>6. QED
      BY <2>1, <2>2, <2>3, <2>4, <2>5 DEF BInv
  <1>3. CASE Start
    <2>1. NoStream'
      BY <1>b, <1>t, <1>0, <1>3 DEF Start, Touch, NoStream, Home, MemOK, Job, JobStates
    <2>2. fault' = "none" => fault = "none"
      BY <1>3 DEF Start, Touch, TouchOwn, SendWakeup
    <2>3. BlockingJobsSafe'
      BY <1>b, <1>c, <1>3 DEF Start, Touch, BlockingJobsSafe, TouchOwn, SendWakeup, Holding,
         Busy, Serving
    <2>4. ASSUME fault' = "none" PROVE Holding'
      BY <1>b, <1>c, <1>0, <1>n, <1>t, <1>3, <2>2, <2>4 DEF Start, Touch, Holding, Busy, Serving,
         PointersOK, WorkerOK, Target
    <2>5. ASSUME fault' = "none", NEW d \in Conns PROVE Woken(d)'
      BY <1>b, <1>c, <1>0, <1>n, <1>t, <1>3, <2>2, <2>5 DEF Start, Touch, Woken, Busy, Serving,
         Finished, NetOK, WorkerOK, MemOK
    <2>6. QED
      BY <2>1, <2>2, <2>3, <2>4, <2>5 DEF BInv
  <1>4. CASE Token
    BY <1>b, <1>t, <1>4 DEF NoStream, Token, WorkerOK, Busy, Serving
  <1>5. CASE Announce
    BY <1>b, <1>5 DEF NoStream, Announce
  <1>6. CASE InferenceReturns
    <2>1. NoStream'
      BY <1>b, <1>t, <1>0, <1>6 DEF InferenceReturns, Touch, NoStream, Home, MemOK, Job,
         JobStates, WorkerOK, Busy, Serving
    <2>2. fault' = "none" => fault = "none"
      BY <1>6 DEF InferenceReturns, Touch, TouchOwn, SendWakeup
    <2>3. BlockingJobsSafe'
      BY <1>b, <1>c, <1>6 DEF InferenceReturns, Touch, BlockingJobsSafe, TouchOwn, SendWakeup,
         Holding, Busy, Serving
    <2>4. ASSUME fault' = "none" PROVE Holding'
      BY <1>b, <1>c, <1>0, <1>n, <1>t, <1>6, <2>2, <2>4 DEF InferenceReturns, Touch, Holding,
         Busy, Serving, PointersOK, WorkerOK, Target
    <2>5. ASSUME fault' = "none", NEW d \in Conns PROVE Woken(d)'
      BY <1>b, <1>c, <1>0, <1>n, <1>t, <1>6, <2>2, <2>5 DEF InferenceReturns, Touch, Woken, Busy,
         Serving, Finished, NetOK, WorkerOK, MemOK
    <2>6. QED
      BY <2>1, <2>2, <2>3, <2>4, <2>5 DEF BInv
  <1>7. CASE RingDone
    BY <1>b, <1>7 DEF NoStream, RingDone
  <1>8. CASE StoreState
    <2>1. NoStream'
      BY <1>b, <1>t, <1>0, <1>8 DEF StoreState, Touch, NoStream, Home, MemOK, Job, JobStates
    <2>2. fault' = "none" => fault = "none"
      BY <1>8 DEF StoreState, Touch, TouchOwn, SendWakeup
    <2>3. BlockingJobsSafe'
      BY <1>b, <1>c, <1>8 DEF StoreState, Touch, BlockingJobsSafe, TouchOwn, SendWakeup, Holding,
         Busy, Serving
    <2>4. ASSUME fault' = "none" PROVE Holding'
      BY <1>b, <1>c, <1>0, <1>n, <1>t, <1>8, <2>2, <2>4 DEF StoreState, Touch, Holding, Busy,
         Serving, PointersOK, WorkerOK, Target
    <2>5. ASSUME fault' = "none", NEW d \in Conns PROVE Woken(d)'
      BY <1>b, <1>c, <1>0, <1>n, <1>t, <1>8, <2>2, <2>5 DEF StoreState, Touch, Woken, Busy,
         Serving, Finished, NetOK, WorkerOK, MemOK
    <2>6. QED
      BY <2>1, <2>2, <2>3, <2>4, <2>5 DEF BInv
  <1>9. CASE LogDelivery
    <2>1. NoStream'
      BY <1>b, <1>t, <1>0, <1>9 DEF LogDelivery, Touch, NoStream, Home, MemOK, Job, JobStates
    <2>2. fault' = "none" => fault = "none"
      BY <1>9 DEF LogDelivery, Touch, TouchOwn, SendWakeup
    <2>3. BlockingJobsSafe'
      BY <1>b, <1>c, <1>9 DEF LogDelivery, Touch, BlockingJobsSafe, TouchOwn, SendWakeup,
         Holding, Busy, Serving
    <2>4. ASSUME fault' = "none" PROVE Holding'
      BY <1>b, <1>c, <1>0, <1>n, <1>t, <1>9, <2>2, <2>4 DEF LogDelivery, Touch, Holding, Busy,
         Serving, PointersOK, WorkerOK, Target
    <2>5. ASSUME fault' = "none", NEW d \in Conns PROVE Woken(d)'
      BY <1>b, <1>c, <1>0, <1>n, <1>t, <1>9, <2>2, <2>5 DEF LogDelivery, Touch, Woken, Busy,
         Serving, Finished, NetOK, WorkerOK, MemOK
    <2>6. QED
      BY <2>1, <2>2, <2>3, <2>4, <2>5 DEF BInv
  <1>10. CASE ClearCurrent
    <2>1. NoStream'
      BY <1>b, <1>t, <1>0, <1>10 DEF ClearCurrent, NoStream, Home, MemOK, Job, JobStates
    <2>2. fault' = "none" => fault = "none"
      BY <1>10 DEF ClearCurrent, Touch, TouchOwn, SendWakeup
    <2>3. BlockingJobsSafe'
      BY <1>b, <1>c, <1>10 DEF ClearCurrent, BlockingJobsSafe, Touch, TouchOwn, SendWakeup,
         Holding, Busy, Serving
    <2>4. ASSUME fault' = "none" PROVE Holding'
      BY <1>b, <1>c, <1>0, <1>n, <1>t, <1>10, <2>2, <2>4 DEF ClearCurrent, Holding, Busy,
         Serving, PointersOK, WorkerOK, Target
    <2>5. ASSUME fault' = "none", NEW d \in Conns PROVE Woken(d)'
      BY <1>b, <1>c, <1>0, <1>n, <1>t, <1>10, <2>2, <2>5 DEF ClearCurrent, Woken, Busy, Serving,
         Finished, NetOK, WorkerOK, MemOK
    <2>6. QED
      BY <2>1, <2>2, <2>3, <2>4, <2>5 DEF BInv
  <1>11. CASE CheckOrphaned
    <2>d. job \in Addrs /\ wpc = "orphan" /\ wpc' \in {"pick", "mgr"}
          /\ UNCHANGED <<job, current_job, mpc, cd_job, wakeups>>
      BY <1>t, <1>11 DEF CheckOrphaned, WorkerOK, Busy, Serving
    <2>e. Releases(job, mem[job].orphaned)
      <3>1. CASE mem[job].orphaned
        <4>1. Free(job)
          BY <1>11, <3>1 DEF CheckOrphaned
        <4>2. QED
          BY <1>t, <2>d, <3>1, <4>1, FreeReleases DEF Releases
      <3>2. CASE ~mem[job].orphaned
        <4>1. UNCHANGED <<mem, dangling>>
          BY <1>11, <3>2 DEF CheckOrphaned
        <4>2. QED
          BY <1>t, <3>2, <4>1, KeepReleases DEF Releases
      <3>3. QED
        BY <3>1, <3>2
    <2>g. wpc' = "mgr" => ~mem[job].orphaned
      BY <1>11 DEF CheckOrphaned
    <2>1. NoStream'
      BY <1>b, <2>d, <2>e DEF NoStream, Releases, SameJob
    <2>2. fault' = "none" => fault = "none"
      BY <1>11 DEF CheckOrphaned, Touch, TouchOwn, SendWakeup
    <2>3. BlockingJobsSafe'
      BY <1>b, <1>c, <1>11 DEF CheckOrphaned, Touch, BlockingJobsSafe, TouchOwn, SendWakeup,
         Holding, Busy, Serving
    <2>4. ASSUME fault' = "none" PROVE Holding'
      <3>1. current_job # job \/ current_job = NULL
        BY <1>c, <2>2, <2>4, <2>d DEF Working, Waiting, Holding, Taken, Exclusive, Busy, Serving,
           Finished
      <3>2. QED
        BY <1>c, <1>n, <2>2, <2>4, <2>d, <2>e, <2>g, <3>1 DEF Holding, Releases, Busy, Serving
    <2>5. ASSUME fault' = "none", NEW d \in Conns PROVE Woken(d)'
      BY <1>c, <1>t, <2>2, <2>5, <2>d, <2>e DEF Woken, Finished, Busy, Serving, Releases,
         SameJob, NetOK
    <2>6. QED
      BY <2>1, <2>2, <2>3, <2>4, <2>5 DEF BInv
  <1>12. CASE CheckMgr
    <2>1. NoStream'
      BY <1>b, <1>t, <1>0, <1>12 DEF CheckMgr, Touch, NoStream, Home, MemOK, Job, JobStates
    <2>2. fault' = "none" => fault = "none"
      BY <1>12 DEF CheckMgr, Touch, TouchOwn, SendWakeup
    <2>3. BlockingJobsSafe'
      BY <1>b, <1>c, <1>12 DEF CheckMgr, Touch, BlockingJobsSafe, TouchOwn, SendWakeup, Holding,
         Busy, Serving
    <2>4. ASSUME fault' = "none" PROVE Holding'
      BY <1>b, <1>c, <1>0, <1>n, <1>t, <1>12, <2>2, <2>4 DEF CheckMgr, Touch, Holding, Busy,
         Serving, PointersOK, WorkerOK, Target
    <2>5. ASSUME fault' = "none", NEW d \in Conns PROVE Woken(d)'
      BY <1>b, <1>c, <1>0, <1>n, <1>t, <1>12, <2>2, <2>5 DEF CheckMgr, Touch, Woken, Busy,
         Serving, Finished, NetOK, WorkerOK, MemOK
    <2>6. QED
      BY <2>1, <2>2, <2>3, <2>4, <2>5 DEF BInv
  <1>13. CASE FinalWakeup
    <2>d. /\ wpc = "send" /\ wpc' = "pick" /\ UNCHANGED <<mem, job, cd_job>> /\ job \in Addrs
          /\ \/ UNCHANGED wakeups
             \/ /\ open[mem[job].conn] # "closed"
                /\ wakeups' = [wakeups EXCEPT ![mem[job].conn] = @ + 1]
      BY <1>t, <1>13 DEF FinalWakeup, SendWakeup, WorkerOK, Busy, Serving
    <2>1. NoStream'
      BY <1>b, <1>t, <1>0, <1>13 DEF FinalWakeup, SendWakeup, Touch, NoStream, Home, MemOK, Job,
         JobStates
    <2>2. fault' = "none" => fault = "none"
      BY <1>13 DEF FinalWakeup, SendWakeup, Touch, TouchOwn
    <2>3. BlockingJobsSafe'
      BY <1>b, <1>c, <1>13 DEF FinalWakeup, SendWakeup, Touch, BlockingJobsSafe, TouchOwn,
         Holding, Busy, Serving
    <2>4. ASSUME fault' = "none" PROVE Holding'
      BY <1>b, <1>c, <1>0, <1>n, <1>t, <1>13, <2>2, <2>4 DEF FinalWakeup, SendWakeup, Touch,
         Holding, Busy, Serving, PointersOK, WorkerOK, Target
    <2>5. ASSUME fault' = "none", NEW d \in Conns PROVE Woken(d)'
      <3>1. CASE UNCHANGED wakeups
        BY <1>c, <2>2, <2>5, <2>d, <3>1 DEF Woken, Finished, Busy, Serving
      <3>2. CASE UNCHANGED wakeups[d]
        BY <1>c, <2>2, <2>5, <2>d, <3>2 DEF Woken, Finished, Busy, Serving
      <3>3. CASE d = mem[job].conn /\ open[d] # "closed" /\ wakeups'[d] = wakeups[d] + 1
        <4>1. "job" \notin dangling /\ mem[job].live
          BY <1>0, <1>c, <2>2, <2>5, <2>d DEF Holding, Pointing, Busy, Serving
        <4>2. Claimed(job) /\ Finished(job) /\ ~mem[job].orphaned
          BY <1>c, <2>2, <2>5, <2>d, <3>3, <4>1 DEF Working, Sane, Busy, Serving
        <4>3. cd_job[d] = job
          BY <3>3, <4>2 DEF Claimed
        <4>4. wakeups[d] = 0
          BY <1>c, <1>t, <2>2, <2>5, <2>d, <4>3 DEF Woken, NetOK, Busy, Serving
        <4>5. QED
          BY <1>n, <2>d, <3>3, <4>2, <4>3, <4>4 DEF Woken, Finished, Busy, Serving
      <3>4. QED
        BY <1>t, <2>d, <3>1, <3>2, <3>3 DEF NetOK
    <2>6. QED
      BY <2>1, <2>2, <2>3, <2>4, <2>5 DEF BInv
  <1>14. QED
    BY <1>1, <1>2, <1>3, <1>4, <1>5, <1>6, <1>7, <1>8, <1>9, <1>10, <1>11, <1>12, <1>13 DEF
       WorkerStep

(* The event-loop thread and signals                                      *)
LEMMA LoopBInv ==
  ASSUME Streams \subseteq {FALSE}, IInv, BInv, LoopStep
  PROVE  BInv'
  <1>n. NULL \notin Addrs /\ NULL \notin Conns
    BY ConstantsAssumption
  <1>0. Connected /\ Pointing
    BY DEF IInv
  <1>t. MemOK /\ PointersOK /\ WorkerOK /\ LoopOK /\ NetOK
    BY TypeParts DEF IInv
  <1>b. NoStream /\ BlockingJobsSafe
    BY DEF BInv
  <1>c. fault = "none" => /\ \A d \in Conns : Owned(d)
                          /\ \A a \in Addrs : Sane(a)
                          /\ Handling /\ Working /\ Waiting
                          /\ Holding /\ \A d \in Conns : Woken(d)
    BY DEF IInv, BInv, Clean
  <1> USE DEF memory, shared, worker, loop, net
  <1>1. CASE \E c \in Conns : Request(c)
    <2>p. PICK c \in Conns : Request(c)
      BY <1>1
    <2>1. NoStream'
      BY <1>b, <1>t, <1>0, <2>p DEF Request, Copy, NoStream, Home, MemOK, Job, JobStates
    <2>2. fault' = "none" => fault = "none"
      BY <2>p DEF Request, Copy, Touch, TouchOwn, SendWakeup
    <2>3. BlockingJobsSafe'
      BY <1>b, <1>c, <2>p DEF Request, Copy, BlockingJobsSafe, Touch, TouchOwn, SendWakeup,
         Holding, Busy, Serving
    <2>4. ASSUME fault' = "none" PROVE Holding'
      BY <1>b, <1>c, <1>0, <1>n, <1>t, <2>p, <2>2, <2>4 DEF Request, Copy, Holding, Busy,
         Serving, PointersOK, WorkerOK, Target
    <2>5. ASSUME fault' = "none", NEW d \in Conns PROVE Woken(d)'
      BY <1>b, <1>c, <1>0, <1>n, <1>t, <2>p, <2>2, <2>5 DEF Request, Copy, Woken, Busy, Serving,
         Finished, NetOK, WorkerOK, MemOK
    <2>6. QED
      BY <2>1, <2>2, <2>3, <2>4, <2>5 DEF BInv
  <1>2. CASE IsBusy
    <2>1. NoStream'
      BY <1>b, <1>t, <1>0, <1>2 DEF IsBusy, Touch, Home, NoStream, MemOK, Job, JobStates
    <2>2. fault' = "none" => fault = "none"
      BY <1>2 DEF IsBusy, Touch, Home, TouchOwn, SendWakeup
    <2>3. BlockingJobsSafe'
      BY <1>b, <1>c, <1>2 DEF IsBusy, Touch, Home, BlockingJobsSafe, TouchOwn, SendWakeup,
         Holding, Busy, Serving
    <2>4. ASSUME fault' = "none" PROVE Holding'
      BY <1>b, <1>c, <1>0, <1>n, <1>t, <1>2, <2>2, <2>4 DEF IsBusy, Touch, Home, Holding, Busy,
         Serving, PointersOK, WorkerOK, Target
    <2>5. ASSUME fault' = "none", NEW d \in Conns PROVE Woken(d)'
      BY <1>b, <1>c, <1>0, <1>n, <1>t, <1>2, <2>2, <2>5 DEF IsBusy, Touch, Home, Woken, Busy,
         Serving, Finished, NetOK, WorkerOK, MemOK
    <2>6. QED
      BY <2>1, <2>2, <2>3, <2>4, <2>5 DEF BInv
  <1>3. CASE Allocate
    <2>d. /\ UNCHANGED <<current_job, wpc, job, cd_job, wakeups, fault>>
          /\ mpc' \in {"submit", "poll", "destroy"}
          /\ dangling' \subseteq dangling
      BY <1>3 DEF Allocate, Home
    <2>e. /\ \A b \in Addrs : mem[b].live => mem'[b] = mem[b]
          /\ \A b \in Addrs : mem'[b] = mem[b] \/ ~mem'[b].stream
      <3>1. CASE UNCHANGED mem
        BY <3>1
      <3>2. CASE \E a \in Addrs, s \in Streams : ~mem[a].live
            /\ mem' = [mem EXCEPT ![a] = NewJob(conn, s)]
        <4>1. PICK a \in Addrs, s \in Streams : ~mem[a].live
              /\ mem' = [mem EXCEPT ![a] = NewJob(conn, s)]
          BY <3>2
        <4>2. ~NewJob(conn, s).stream
          BY DEF NewJob
        <4>3. QED
          BY <1>t, <4>1, <4>2 DEF MemOK
      <3>3. QED
        BY <1>3, <3>1, <3>2 DEF Allocate, Home
    <2>1. NoStream'
      BY <1>b, <2>d, <2>e DEF NoStream
    <2>2. fault' = "none" => fault = "none"
      BY <1>3 DEF Allocate, Home, NewJob, Touch, TouchOwn, SendWakeup
    <2>3. BlockingJobsSafe'
      BY <1>b, <1>c, <1>3 DEF Allocate, Home, NewJob, BlockingJobsSafe, Touch, TouchOwn,
         SendWakeup, Holding, Busy, Serving
    <2>4. ASSUME fault' = "none" PROVE Holding'
      BY <1>b, <1>c, <1>0, <1>n, <1>t, <1>3, <2>2, <2>4 DEF Allocate, Home, NewJob, Holding,
         Busy, Serving, PointersOK, WorkerOK, Target
    <2>5. ASSUME fault' = "none", NEW d \in Conns PROVE Woken(d)'
      BY <1>c, <1>n, <1>t, <2>2, <2>5, <2>d, <2>e DEF Woken, Owned, Finished, NetOK
    <2>6. QED
      BY <2>1, <2>2, <2>3, <2>4, <2>5 DEF BInv
  <1>4. CASE ParseFails
    <2>d. /\ ptr \in Addrs /\ mpc = "submit" /\ mpc' \in {"poll", "destroy"}
          /\ UNCHANGED <<wpc, job, current_job, cd_job, wakeups>>
      BY <1>0, <1>4 DEF ParseFails, Connected, Home
    <2>e. Releases(ptr, TRUE)
      BY <1>t, <2>d, <1>4, FreeReleases DEF ParseFails
    <2>1. NoStream'
      BY <1>b, <2>d, <2>e DEF NoStream, Releases, SameJob
    <2>2. fault' = "none" => fault = "none"
      BY <1>4 DEF ParseFails, Home, Touch, TouchOwn, SendWakeup
    <2>3. BlockingJobsSafe'
      BY <1>b, <1>c, <1>4 DEF ParseFails, Home, BlockingJobsSafe, Touch, TouchOwn, SendWakeup,
         Holding, Busy, Serving
    <2>4. ASSUME fault' = "none" PROVE Holding'
      BY <1>c, <2>2, <2>4, <2>d, <2>e DEF Holding, Handling, Releases
    <2>5. ASSUME fault' = "none", NEW d \in Conns PROVE Woken(d)'
      BY <1>c, <1>t, <2>2, <2>5, <2>d, <2>e DEF Woken, Finished, Releases, SameJob, NetOK
    <2>6. QED
      BY <2>1, <2>2, <2>3, <2>4, <2>5 DEF BInv
  <1>5. CASE Refused
    <2>d. /\ ptr \in Addrs /\ mpc = "submit" /\ mpc' \in {"poll", "destroy"}
          /\ UNCHANGED <<wpc, job, current_job, cd_job, wakeups>>
      BY <1>0, <1>5 DEF Refused, Connected, Home
    <2>e. Releases(ptr, TRUE)
      BY <1>t, <2>d, <1>5, FreeReleases DEF Refused
    <2>1. NoStream'
      BY <1>b, <2>d, <2>e DEF NoStream, Releases, SameJob
    <2>2. fault' = "none" => fault = "none"
      BY <1>5 DEF Refused, Touch, Home, TouchOwn, SendWakeup
    <2>3. BlockingJobsSafe'
      BY <1>b, <1>c, <1>5 DEF Refused, Touch, Home, BlockingJobsSafe, TouchOwn, SendWakeup,
         Holding, Busy, Serving
    <2>4. ASSUME fault' = "none" PROVE Holding'
      BY <1>c, <2>2, <2>4, <2>d, <2>e DEF Holding, Handling, Releases
    <2>5. ASSUME fault' = "none", NEW d \in Conns PROVE Woken(d)'
      BY <1>c, <1>t, <2>2, <2>5, <2>d, <2>e DEF Woken, Finished, Releases, SameJob, NetOK
    <2>6. QED
      BY <2>1, <2>2, <2>3, <2>4, <2>5 DEF BInv
  <1>6. CASE Accepted
    <2>d. /\ UNCHANGED <<job, wakeups>> /\ conn \in Conns /\ ptr \in Addrs /\ mpc = "submit"
          /\ current_job' = ptr /\ wpc' = IF wpc = "wait" THEN "pick" ELSE wpc
          /\ dangling' = IF "ptr" \in dangling THEN dangling \cup {"current_job"}
             ELSE dangling \ {"current_job"}
      BY <1>0, <1>6 DEF Accepted, Connected, Copy
    <2>e. \A b \in Addrs : b # ptr => mem'[b] = mem[b]
      BY <1>t, <2>d, <1>6 DEF Accepted, MemOK
    <2>g. \A e \in Conns : cd_job'[e] = IF e = conn THEN ptr ELSE cd_job[e]
      BY <1>t, <1>6 DEF Accepted, NetOK
    <2>h. fault = "none" => /\ "ptr" \notin dangling /\ cd_job[conn] = NULL
                            /\ \A e \in Conns : cd_job[e] # ptr
      BY <1>c, <2>d DEF Handling
    <2>1. NoStream'
      BY <1>b, <1>t, <1>0, <1>6 DEF Accepted, Touch, Copy, Home, Unfinished, NoStream, MemOK,
         Job, JobStates
    <2>2. fault' = "none" => fault = "none"
      BY <1>6 DEF Accepted, Touch, Copy, Home, Unfinished, TouchOwn, SendWakeup
    <2>3. BlockingJobsSafe'
      BY <1>b, <1>c, <1>6 DEF Accepted, Touch, Copy, Home, Unfinished, BlockingJobsSafe,
         TouchOwn, SendWakeup, Holding, Busy, Serving
    <2>4. ASSUME fault' = "none" PROVE Holding'
      BY <1>c, <2>2, <2>4, <2>d, <2>h DEF Holding, Busy, Serving
    <2>5. ASSUME fault' = "none", NEW d \in Conns PROVE Woken(d)'
      <3>1. CASE d = conn
        BY <1>c, <2>2, <2>5, <2>d, <2>h, <3>1 DEF Woken
      <3>2. CASE d # conn
        BY <1>c, <1>n, <1>t, <2>2, <2>5, <2>d, <2>e, <2>g, <2>h, <3>2 DEF Woken, Finished, NetOK,
           Busy, Serving
      <3>3. QED
        BY <3>1, <3>2
    <2>6. QED
      BY <2>1, <2>2, <2>3, <2>4, <2>5 DEF BInv
  <1>7. CASE \E c \in Conns : OnWakeup(c)
    <2>p. PICK c \in Conns : OnWakeup(c)
      BY <1>7
    <2> DEFINE ends == cd_job[c] # NULL /\ Finished(cd_job[c])
    <2>d. /\ UNCHANGED <<current_job, wpc, job, mpc>> /\ wakeups[c] > 0
          /\ wakeups' = [wakeups EXCEPT ![c] = @ - 1]
          /\ cd_job[c] # NULL => cd_job[c] \in Addrs
      BY <1>t, <2>p DEF OnWakeup, NetOK
    <2>e. Releases(cd_job[c], ends)
      <3>1. CASE ends
        <4>1. FinalizeJob(c)
          BY <2>p, <3>1 DEF OnWakeup
        <4>2. QED
          BY <1>t, <2>d, <3>1, <4>1, FinalizeReleases DEF Releases
      <3>2. CASE ~ends
        <4>1. UNCHANGED <<mem, dangling>>
          BY <2>p, <3>2 DEF OnWakeup
        <4>2. QED
          BY <1>t, <3>2, <4>1, KeepReleases DEF Releases
      <3>3. QED
        BY <3>1, <3>2
    <2>g. \A e \in Conns : cd_job'[e] = IF ends /\ e = c THEN NULL ELSE cd_job[e]
      BY <1>t, <2>p DEF OnWakeup, FinalizeJob, NetOK
    <2>h. fault = "none" => /\ fault' = "none"
                            /\ wakeups[c] = 1 /\ ends /\ cd_job[c] \in Addrs
                            /\ ~(wpc \in Busy /\ job = cd_job[c])
      BY <1>c, <2>d, <2>p DEF OnWakeup, TouchOwn, Owned, Woken
    <2>i. ends => Finished(cd_job[c])
      OBVIOUS
    <2>j. fault # "none" => fault' = fault
      BY <2>p DEF OnWakeup, TouchOwn
    <2> HIDE DEF ends
    <2>1. NoStream'
      BY <1>b, <2>d, <2>e DEF NoStream, Releases, SameJob
    <2>2. fault' = "none" => fault = "none"
      BY <2>p DEF OnWakeup, TouchOwn, FinalizeJob, Finished, Touch, SendWakeup
    <2>3. BlockingJobsSafe'
      BY <1>b, <2>h, <2>j DEF BlockingJobsSafe
    <2>4. ASSUME fault' = "none" PROVE Holding'
      <3>1. current_job # cd_job[c]
        <4>1. CASE wpc \in Taken /\ current_job = job
          BY <2>2, <2>4, <2>h, <4>1 DEF Taken, Exclusive, Busy, Serving
        <4>2. CASE ~(wpc \in Taken /\ current_job = job)
          BY <1>c, <1>n, <2>2, <2>4, <2>h, <2>i, <4>2 DEF Waiting, Finished
        <4>3. QED
          BY <4>1, <4>2
      <3>2. QED
        BY <1>c, <2>2, <2>4, <2>d, <2>e, <2>h, <3>1 DEF Holding, Releases
    <2>5. ASSUME fault' = "none", NEW d \in Conns PROVE Woken(d)'
      <3>1. CASE d = c
        BY <1>t, <2>2, <2>5, <2>d, <2>h, <3>1 DEF Woken, NetOK
      <3>2. CASE d # c
        BY <1>c, <1>t, <2>2, <2>5, <2>d, <2>e, <2>g, <3>2 DEF Woken, Finished, Releases, SameJob,
           NetOK
      <3>3. QED
        BY <3>1, <3>2
    <2>6. QED
      BY <2>1, <2>2, <2>3, <2>4, <2>5 DEF BInv
  <1>8. CASE \E c \in Conns : OnStreamWakeup(c)
    <2>p. PICK c \in Conns : OnStreamWakeup(c)
      BY <1>8
    <2>1. cd_job[c] \in Addrs /\ mem[cd_job[c]].stream
      BY <1>t, <2>p DEF OnStreamWakeup, NetOK
    <2>2. QED
      BY <1>b, <2>1 DEF NoStream
  <1>9. CASE CheckDone
    BY <1>b, <1>9 DEF NoStream, CheckDone
  <1>10. CASE LoadState
    BY <1>b, <1>10 DEF NoStream, LoadState
  <1>11. CASE StatsRead
    <2>1. NoStream'
      BY <1>b, <1>t, <1>0, <1>11 DEF StatsRead, Copy, NoStream, Home, MemOK, Job, JobStates
    <2>2. fault' = "none" => fault = "none"
      BY <1>11 DEF StatsRead, Copy, Touch, TouchOwn, SendWakeup
    <2>3. BlockingJobsSafe'
      BY <1>b, <1>c, <1>11 DEF StatsRead, Copy, BlockingJobsSafe, Touch, TouchOwn, SendWakeup,
         Holding, Busy, Serving
    <2>4. ASSUME fault' = "none" PROVE Holding'
      BY <1>b, <1>c, <1>0, <1>n, <1>t, <1>11, <2>2, <2>4 DEF StatsRead, Copy, Holding, Busy,
         Serving, PointersOK, WorkerOK, Target
    <2>5. ASSUME fault' = "none", NEW d \in Conns PROVE Woken(d)'
      BY <1>b, <1>c, <1>0, <1>n, <1>t, <1>11, <2>2, <2>5 DEF StatsRead, Copy, Woken, Busy,
         Serving, Finished, NetOK, WorkerOK, MemOK
    <2>6. QED
      BY <2>1, <2>2, <2>3, <2>4, <2>5 DEF BInv
  <1>12. CASE StatsLoad
    <2>1. NoStream'
      BY <1>b, <1>t, <1>0, <1>12 DEF StatsLoad, Touch, Home, NoStream, MemOK, Job, JobStates
    <2>2. fault' = "none" => fault = "none"
      BY <1>12 DEF StatsLoad, Touch, Home, TouchOwn, SendWakeup
    <2>3. BlockingJobsSafe'
      BY <1>b, <1>c, <1>12 DEF StatsLoad, Touch, Home, BlockingJobsSafe, TouchOwn, SendWakeup,
         Holding, Busy, Serving
    <2>4. ASSUME fault' = "none" PROVE Holding'
      BY <1>b, <1>c, <1>0, <1>n, <1>t, <1>12, <2>2, <2>4 DEF StatsLoad, Touch, Home, Holding,
         Busy, Serving, PointersOK, WorkerOK, Target
    <2>5. ASSUME fault' = "none", NEW d \in Conns PROVE Woken(d)'
      BY <1>b, <1>c, <1>0, <1>n, <1>t, <1>12, <2>2, <2>5 DEF StatsLoad, Touch, Home, Woken, Busy,
         Serving, Finished, NetOK, WorkerOK, MemOK
    <2>6. QED
      BY <2>1, <2>2, <2>3, <2>4, <2>5 DEF BInv
  <1>13. CASE \E c \in Conns : Close(c)
    <2>p. PICK c \in Conns : Close(c)
      BY <1>13
    <2>d. /\ UNCHANGED <<current_job, wpc, job, dangling, cd_job>>
          /\ \A b \in Addrs : mem'[b].state = mem[b].state
          /\ \A e \in Conns : wakeups'[e] \in {wakeups[e], 0}
      BY <1>t, <2>p DEF Close, Forget, MemOK, Job, NetOK
    <2>1. NoStream'
      BY <1>b, <1>t, <1>0, <2>p DEF Close, TouchOwn, Forget, NoStream, Home, MemOK, Job, JobStates
    <2>2. fault' = "none" => fault = "none"
      BY <2>p DEF Close, TouchOwn, Forget, Touch, SendWakeup
    <2>3. BlockingJobsSafe'
      BY <1>b, <1>c, <2>p DEF Close, TouchOwn, Forget, BlockingJobsSafe, Touch, SendWakeup,
         Holding, Busy, Serving, Owned
    <2>4. ASSUME fault' = "none" PROVE Holding'
      BY <1>b, <1>c, <1>0, <1>n, <1>t, <2>p, <2>2, <2>4 DEF Close, TouchOwn, Forget, Holding,
         Busy, Serving, PointersOK, WorkerOK, Target
    <2>5. ASSUME fault' = "none", NEW d \in Conns PROVE Woken(d)'
      BY <1>c, <1>t, <2>2, <2>5, <2>d DEF Woken, Finished, NetOK
    <2>6. QED
      BY <2>1, <2>2, <2>3, <2>4, <2>5 DEF BInv
  <1>14. CASE CloseMgr
    <2>1. NoStream'
      BY <1>b, <1>t, <1>0, <1>14 DEF CloseMgr, TouchOwn, NoStream, Home, MemOK, Job, JobStates
    <2>2. fault' = "none" => fault = "none"
      BY <1>14 DEF CloseMgr, TouchOwn, Touch, SendWakeup
    <2>3. BlockingJobsSafe'
      BY <1>b, <1>c, <1>14, <1>0 DEF CloseMgr, TouchOwn, BlockingJobsSafe, Touch, SendWakeup,
         Holding, Busy, Serving, Owned, Connected
    <2>4. ASSUME fault' = "none" PROVE Holding'
      BY <1>b, <1>c, <1>0, <1>n, <1>t, <1>14, <2>2, <2>4 DEF CloseMgr, TouchOwn, Holding, Busy,
         Serving, PointersOK, WorkerOK, Target
    <2>5. ASSUME fault' = "none", NEW d \in Conns PROVE Woken(d)'
      BY <1>b, <1>c, <1>0, <1>n, <1>t, <1>14, <2>2, <2>5 DEF CloseMgr, TouchOwn, Woken, Busy,
         Serving, Finished, NetOK, WorkerOK, MemOK
    <2>6. QED
      BY <2>1, <2>2, <2>3, <2>4, <2>5 DEF BInv
  <1>15. CASE CloseOrphan
    <2>1. NoStream'
      BY <1>b, <1>t, <1>0, <1>15 DEF CloseOrphan, TouchOwn, Forget, Home, NoStream, MemOK, Job,
         JobStates
    <2>2. fault' = "none" => fault = "none"
      BY <1>15 DEF CloseOrphan, TouchOwn, Forget, Home, Touch, SendWakeup
    <2>3. BlockingJobsSafe'
      BY <1>b, <1>c, <1>15, <1>0 DEF CloseOrphan, TouchOwn, Forget, Home, BlockingJobsSafe,
         Touch, SendWakeup, Holding, Busy, Serving, Owned, Connected
    <2>4. ASSUME fault' = "none" PROVE Holding'
      BY <1>b, <1>c, <1>0, <1>n, <1>t, <1>15, <2>2, <2>4 DEF CloseOrphan, TouchOwn, Forget, Home,
         Holding, Busy, Serving, PointersOK, WorkerOK, Target
    <2>5. ASSUME fault' = "none", NEW d \in Conns PROVE Woken(d)'
      BY <1>b, <1>c, <1>0, <1>n, <1>t, <1>15, <2>2, <2>5 DEF CloseOrphan, TouchOwn, Forget, Home,
         Woken, Busy, Serving, Finished, NetOK, WorkerOK, MemOK
    <2>6. QED
      BY <2>1, <2>2, <2>3, <2>4, <2>5 DEF BInv
  <1>16. CASE Signal
    <2>1. NoStream'
      BY <1>b, <1>t, <1>0, <1>16 DEF Signal, NoStream, Home, MemOK, Job, JobStates
    <2>2. fault' = "none" => fault = "none"
      BY <1>16 DEF Signal, Touch, TouchOwn, SendWakeup
    <2>3. BlockingJobsSafe'
      BY <1>b, <1>c, <1>16 DEF Signal, BlockingJobsSafe, Touch, TouchOwn, SendWakeup, Holding,
         Busy, Serving
    <2>4. ASSUME fault' = "none" PROVE Holding'
      BY <1>b, <1>c, <1>0, <1>n, <1>t, <1>16, <2>2, <2>4 DEF Signal, Holding, Busy, Serving,
         PointersOK, WorkerOK, Target
    <2>5. ASSUME fault' = "none", NEW d \in Conns PROVE Woken(d)'
      BY <1>b, <1>c, <1>0, <1>n, <1>t, <1>16, <2>2, <2>5 DEF Signal, Woken, Busy, Serving,
         Finished, NetOK, WorkerOK, MemOK
    <2>6. QED
      BY <2>1, <2>2, <2>3, <2>4, <2>5 DEF BInv
  <1>17. CASE LeaveLoop
    <2>1. NoStream'
      BY <1>b, <1>t, <1>0, <1>17 DEF LeaveLoop, NoStream, Home, MemOK, Job, JobStates
    <2>2. fault' = "none" => fault = "none"
      BY <1>17 DEF LeaveLoop, Touch, TouchOwn, SendWakeup
    <2>3. BlockingJobsSafe'
      BY <1>b, <1>c, <1>17 DEF LeaveLoop, BlockingJobsSafe, Touch, TouchOwn, SendWakeup, Holding,
         Busy, Serving
    <2>4. ASSUME fault' = "none" PROVE Holding'
      BY <1>b, <1>c, <1>0, <1>n, <1>t, <1>17, <2>2, <2>4 DEF LeaveLoop, Holding, Busy, Serving,
         PointersOK, WorkerOK, Target
    <2>5. ASSUME fault' = "none", NEW d \in Conns PROVE Woken(d)'
      BY <1>b, <1>c, <1>0, <1>n, <1>t, <1>17, <2>2, <2>5 DEF LeaveLoop, Woken, Busy, Serving,
         Finished, NetOK, WorkerOK, MemOK
    <2>6. QED
      BY <2>1, <2>2, <2>3, <2>4, <2>5 DEF BInv
  <1>18. CASE CancelWorker
    <2>d. /\ UNCHANGED <<current_job, wpc, job, dangling, cd_job, wakeups>>
          /\ \A b \in Addrs : mem'[b].state = mem[b].state
      BY <1>t, <1>18 DEF CancelWorker, MemOK, Job, PointersOK
    <2>1. NoStream'
      BY <1>b, <1>t, <1>0, <1>18 DEF CancelWorker, Touch, NoStream, Home, MemOK, Job, JobStates
    <2>2. fault' = "none" => fault = "none"
      BY <1>18 DEF CancelWorker, Touch, TouchOwn, SendWakeup
    <2>3. BlockingJobsSafe'
      BY <1>b, <1>c, <1>18 DEF CancelWorker, Touch, BlockingJobsSafe, TouchOwn, SendWakeup,
         Holding, Busy, Serving
    <2>4. ASSUME fault' = "none" PROVE Holding'
      BY <1>b, <1>c, <1>0, <1>n, <1>t, <1>18, <2>2, <2>4 DEF CancelWorker, Touch, Holding, Busy,
         Serving, PointersOK, WorkerOK, Target
    <2>5. ASSUME fault' = "none", NEW d \in Conns PROVE Woken(d)'
      BY <1>c, <1>t, <2>2, <2>5, <2>d DEF Woken, Finished, NetOK
    <2>6. QED
      BY <2>1, <2>2, <2>3, <2>4, <2>5 DEF BInv
  <1>19. CASE StopWorker
    <2>1. NoStream'
      BY <1>b, <1>t, <1>0, <1>19 DEF StopWorker, NoStream, Home, MemOK, Job, JobStates
    <2>2. fault' = "none" => fault = "none"
      BY <1>19 DEF StopWorker, Touch, TouchOwn, SendWakeup
    <2>3. BlockingJobsSafe'
      BY <1>b, <1>c, <1>19 DEF StopWorker, BlockingJobsSafe, Touch, TouchOwn, SendWakeup,
         Holding, Busy, Serving
    <2>4. ASSUME fault' = "none" PROVE Holding'
      BY <1>b, <1>c, <1>0, <1>n, <1>t, <1>19, <2>2, <2>4 DEF StopWorker, Holding, Busy, Serving,
         PointersOK, WorkerOK, Target
    <2>5. ASSUME fault' = "none", NEW d \in Conns PROVE Woken(d)'
      BY <1>b, <1>c, <1>0, <1>n, <1>t, <1>19, <2>2, <2>5 DEF StopWorker, Woken, Busy, Serving,
         Finished, NetOK, WorkerOK, MemOK
    <2>6. QED
      BY <2>1, <2>2, <2>3, <2>4, <2>5 DEF BInv
  <1>20. CASE Join
    <2>1. NoStream'
      BY <1>b, <1>t, <1>0, <1>20 DEF Join, NoStream, Home, MemOK, Job, JobStates
    <2>2. fault' = "none" => fault = "none"
      BY <1>20 DEF Join, Touch, TouchOwn, SendWakeup
    <2>3. BlockingJobsSafe'
      BY <1>b, <1>c, <1>20 DEF Join, BlockingJobsSafe, Touch, TouchOwn, SendWakeup, Holding,
         Busy, Serving
    <2>4. ASSUME fault' = "none" PROVE Holding'
      BY <1>b, <1>c, <1>0, <1>n, <1>t, <1>20, <2>2, <2>4 DEF Join, Holding, Busy, Serving,
         PointersOK, WorkerOK, Target
    <2>5. ASSUME fault' = "none", NEW d \in Conns PROVE Woken(d)'
      BY <1>b, <1>c, <1>0, <1>n, <1>t, <1>20, <2>2, <2>5 DEF Join, Woken, Busy, Serving,
         Finished, NetOK, WorkerOK, MemOK
    <2>6. QED
      BY <2>1, <2>2, <2>3, <2>4, <2>5 DEF BInv
  <1>21. QED
    BY <1>1, <1>2, <1>3, <1>4, <1>5, <1>6, <1>7, <1>8, <1>9, <1>10, <1>11, <1>12, <1>13, <1>14,
       <1>15, <1>16, <1>17, <1>18, <1>19, <1>20 DEF LoopStep

(* The invariant for blocking jobs holds before the first request.         *)
LEMMA InitBInv == Init => BInv
  <1> SUFFICES ASSUME Init PROVE BInv
    OBVIOUS
  <1>1. \A a \in Addrs : ~mem[a].stream
    <2> DEFINE unused == [NewJob(NULL, FALSE) EXCEPT !.live = FALSE]
    <2>1. ~unused.stream
      BY DEF NewJob
    <2>2. mem = [a \in Addrs |-> unused]
      BY DEF Init
    <2> HIDE DEF unused
    <2>3. QED
      BY <2>1, <2>2
  <1>2. NoStream
    BY <1>1 DEF Init, NoStream
  <1>3. BlockingJobsSafe /\ Holding /\ \A c \in Conns : Woken(c)
    BY DEF Init, BlockingJobsSafe, Holding, Woken
  <1>4. QED
    BY <1>2, <1>3 DEF BInv

(* A stutter preserves the invariant for blocking jobs.                    *)
LEMMA StutterBInv == ASSUME BInv, UNCHANGED vars PROVE BInv'
  BY DEF vars, memory, shared, worker, loop, net, BInv, NoStream, BlockingJobsSafe, Holding,
         Woken, Finished

(* Jobs without streaming: no access to freed memory but the unlocked      *)
(* worker_is_busy and the worker's second read of mgr.  The assumption is  *)
(* about the clients: none sends "stream": true.                           *)
THEOREM BlockingSafe ==
  ASSUME Streams \subseteq {FALSE}
  PROVE  Spec => []BlockingJobsSafe
  <1>1. BInv => BlockingJobsSafe
    BY DEF BInv
  <1>2. IInv /\ BInv /\ [Next]_vars => BInv'
    BY WorkerBInv, LoopBInv, StutterBInv, StepCases
  <1>3. QED
    BY <1>1, <1>2, InitBInv, Invariance, PTL DEF Spec

-----------------------------------------------------------------------------
(* Clients that wait                                                       *)

(* The worker thread                                                      *)
LEMMA WorkerTends ==
  ASSUME IInv, Tended, fault = "none", fault' = "none", WorkerStep
  PROVE  Tended'
  <1>n. NULL \notin Addrs /\ NULL \notin Conns
    BY ConstantsAssumption
  <1>t. MemOK /\ PointersOK /\ WorkerOK /\ LoopOK /\ NetOK
    BY TypeParts DEF IInv
  <1>c. /\ Connected /\ Handling /\ Working /\ Waiting
        /\ \A d \in Conns : Owned(d)
    BY DEF IInv, Clean
  <1> USE DEF memory, shared, worker, loop, net
  <1>1. CASE Pick
    BY <1>n, <1>t, <1>c, <1>1 DEF Pick, Copy, Tended, Attended, AtWork, Finished, Owned,
       Working, Waiting, MemOK, Job, WorkerOK, NetOK, Busy, Serving, Exclusive, Taken
  <1>2. CASE SpuriousWakeup
    BY <1>n, <1>t, <1>c, <1>2 DEF SpuriousWakeup, Tended, Attended, AtWork, Finished, Owned,
       Working, Waiting, MemOK, Job, WorkerOK, NetOK, Busy, Serving, Exclusive, Taken
  <1>3. CASE Start
    BY <1>n, <1>t, <1>c, <1>3 DEF Start, Touch, Tended, Attended, AtWork, Finished, Owned,
       Working, Waiting, MemOK, Job, WorkerOK, NetOK, Busy, Serving, Exclusive, Taken
  <1>4. CASE Token
    BY <1>n, <1>t, <1>c, <1>4 DEF Token, Touch, Tended, Attended, AtWork, Finished, Owned,
       Working, Waiting, MemOK, Job, WorkerOK, NetOK, Busy, Serving, Exclusive, Taken
  <1>5. CASE Announce
    BY <1>n, <1>t, <1>c, <1>5 DEF Announce, SendWakeup, Touch, Tended, Attended, AtWork,
       Finished, Owned, Working, Waiting, MemOK, Job, WorkerOK, NetOK, Busy, Serving,
       Exclusive, Taken
  <1>6. CASE InferenceReturns
    BY <1>n, <1>t, <1>c, <1>6 DEF InferenceReturns, Touch, Tended, Attended, AtWork,
       Finished, Owned, Working, Waiting, MemOK, Job, WorkerOK, NetOK, Busy, Serving,
       Exclusive, Taken
  <1>7. CASE RingDone
    BY <1>n, <1>t, <1>c, <1>7 DEF RingDone, Touch, Tended, Attended, AtWork, Finished,
       Owned, Working, Waiting, MemOK, Job, WorkerOK, NetOK, Busy, Serving, Exclusive, Taken
  <1>8. CASE StoreState
    BY <1>n, <1>t, <1>c, <1>8 DEF StoreState, Touch, Tended, Attended, AtWork, Finished,
       Owned, Working, Waiting, MemOK, Job, WorkerOK, NetOK, Busy, Serving, Exclusive, Taken
  <1>9. CASE LogDelivery
    BY <1>n, <1>t, <1>c, <1>9 DEF LogDelivery, Touch, Tended, Attended, AtWork, Finished,
       Owned, Working, Waiting, MemOK, Job, WorkerOK, NetOK, Busy, Serving, Exclusive, Taken
  <1>10. CASE ClearCurrent
    BY <1>n, <1>t, <1>c, <1>10 DEF ClearCurrent, Tended, Attended, AtWork, Finished, Owned,
       Working, Waiting, MemOK, Job, WorkerOK, NetOK, Busy, Serving, Exclusive, Taken
  <1>11. CASE CheckOrphaned
    <2>1. wpc = "orphan" /\ "job" \notin dangling /\ job \in Addrs
          /\ UNCHANGED <<shared, job, loop, net>>
      BY <1>t, <1>11 DEF CheckOrphaned, Touch, WorkerOK, Busy, Serving
    <2>2. CASE mem[job].orphaned
      <3>1. \A d \in Conns : cd_job[d] # job
        BY <1>n, <1>c, <2>1, <2>2 DEF Owned
      <3>2. mem' = [mem EXCEPT ![job].live = FALSE]
        BY <1>11, <2>2 DEF CheckOrphaned, Free
      <3>3. \A a \in Addrs : mem'[a].mgr = mem[a].mgr /\ mem'[a].state = mem[a].state
        BY <1>t, <3>2 DEF MemOK, Job
      <3>4. mpc = "submit" => ptr \in Addrs
        BY <1>c DEF Connected
      <3>5. \A d \in Conns : cd_job[d] \in Addrs \union {NULL}
        BY <1>t DEF NetOK
      <3>6. QED
        BY <1>n, <2>1, <3>1, <3>3, <3>4, <3>5 DEF Tended, Attended, AtWork, Finished
    <2>3. CASE ~mem[job].orphaned
      <3>1. wpc' = "mgr" /\ UNCHANGED <<mem, dangling>>
        BY <1>11, <2>3 DEF CheckOrphaned
      <3>2. QED
        BY <2>1, <3>1 DEF Tended, Attended, AtWork, Finished, Busy, Serving
    <2>4. QED
      BY <2>2, <2>3
  <1>12. CASE CheckMgr
    BY <1>n, <1>t, <1>c, <1>12 DEF CheckMgr, Touch, Tended, Attended, AtWork, Finished,
       Owned, Working, Waiting, MemOK, Job, WorkerOK, NetOK, Busy, Serving, Exclusive, Taken
  <1>13. CASE FinalWakeup
    BY <1>n, <1>t, <1>c, <1>13 DEF FinalWakeup, SendWakeup, Touch, Tended, Attended, AtWork,
       Finished, Owned, Working, Waiting, MemOK, Job, WorkerOK, NetOK, Busy, Serving,
       Exclusive, Taken
  <1>14. QED
    BY <1>1, <1>2, <1>3, <1>4, <1>5, <1>6, <1>7, <1>8, <1>9, <1>10, <1>11, <1>12, <1>13
       DEF WorkerStep

(* The event-loop thread and signals                                      *)
LEMMA LoopTends ==
  ASSUME IInv, Tended, fault = "none", fault' = "none", LoopStep
  PROVE  Tended'
  <1>n. NULL \notin Addrs /\ NULL \notin Conns
    BY ConstantsAssumption
  <1>t. MemOK /\ PointersOK /\ WorkerOK /\ LoopOK /\ NetOK
    BY TypeParts DEF IInv
  <1>c. /\ Connected /\ Handling
        /\ \A d \in Conns : Owned(d)
    BY DEF IInv, Clean
  <1> USE DEF memory, shared, worker, loop, net
  <1>1. CASE \E c \in Conns : Request(c)
    BY <1>n, <1>t, <1>c, <1>1 DEF Request, Copy, Tended, Attended, AtWork, Finished, Owned,
       Handling, Connected, MemOK, Job, WorkerOK, NetOK, PointersOK, Busy, Serving
  <1>2. CASE IsBusy
    BY <1>n, <1>t, <1>c, <1>2 DEF IsBusy, Touch, Home, Tended, Attended, AtWork, Finished,
       Owned, Handling, Connected, MemOK, Job, WorkerOK, NetOK, PointersOK, Busy, Serving
  <1>3. CASE Allocate
    BY <1>n, <1>t, <1>c, <1>3 DEF Allocate, NewJob, Home, Tended, Attended, AtWork,
       Finished, Owned, Handling, Connected, MemOK, Job, WorkerOK, NetOK, PointersOK, Busy,
       Serving
  <1>4. CASE ParseFails
    BY <1>n, <1>t, <1>c, <1>4 DEF ParseFails, Free, Target, Home, Tended, Attended, AtWork,
       Finished, Owned, Handling, Connected, MemOK, Job, WorkerOK, NetOK, PointersOK, Busy,
       Serving
  <1>5. CASE Refused
    BY <1>n, <1>t, <1>c, <1>5 DEF Refused, Free, Target, Touch, Home, Tended, Attended,
       AtWork, Finished, Owned, Handling, Connected, MemOK, Job, WorkerOK, NetOK, PointersOK,
       Busy, Serving
  <1>6. CASE Accepted
    BY <1>n, <1>t, <1>c, <1>6 DEF Accepted, Copy, Touch, Home, Tended, Attended, AtWork,
       Finished, Owned, Handling, Connected, MemOK, Job, WorkerOK, NetOK, PointersOK, Busy,
       Serving
  <1>7. CASE \E c \in Conns : OnWakeup(c)
    BY <1>n, <1>t, <1>c, <1>7 DEF OnWakeup, TouchOwn, FinalizeJob, Free, Target, Tended,
       Attended, AtWork, Finished, Owned, Handling, Connected, MemOK, Job, WorkerOK, NetOK,
       PointersOK, Busy, Serving
  <1>8. CASE \E c \in Conns : OnStreamWakeup(c)
    BY <1>n, <1>t, <1>c, <1>8 DEF OnStreamWakeup, TouchOwn, Tended, Attended, AtWork,
       Finished, Owned, Handling, Connected, MemOK, Job, WorkerOK, NetOK, PointersOK, Busy,
       Serving
  <1>9. CASE CheckDone
    BY <1>n, <1>t, <1>c, <1>9 DEF CheckDone, TouchOwn, Tended, Attended, AtWork, Finished,
       Owned, Handling, Connected, MemOK, Job, WorkerOK, NetOK, PointersOK, Busy, Serving
  <1>10. CASE LoadState
    BY <1>n, <1>t, <1>c, <1>10 DEF LoadState, TouchOwn, FinalizeJob, Free, Target, Home,
       Tended, Attended, AtWork, Finished, Owned, Handling, Connected, MemOK, Job, WorkerOK,
       NetOK, PointersOK, Busy, Serving
  <1>11. CASE StatsRead
    BY <1>n, <1>t, <1>c, <1>11 DEF StatsRead, Copy, Tended, Attended, AtWork, Finished,
       Owned, Handling, Connected, MemOK, Job, WorkerOK, NetOK, PointersOK, Busy, Serving
  <1>12. CASE StatsLoad
    BY <1>n, <1>t, <1>c, <1>12 DEF StatsLoad, Touch, Home, Tended, Attended, AtWork,
       Finished, Owned, Handling, Connected, MemOK, Job, WorkerOK, NetOK, PointersOK, Busy,
       Serving
  <1>13. CASE \E c \in Conns : Close(c)
    <2>1. PICK c \in Conns : Close(c)
      BY <1>13
    <2>2. mpc \in {"poll", "destroy"} /\ UNCHANGED <<worker, cd_job, missed, ptr, dangling>>
      BY <2>1 DEF Close
    <2>3. CASE cd_job[c] = NULL
      <3>1. UNCHANGED <<mem, mpc, conn>> /\ wakeups' = [wakeups EXCEPT ![c] = 0]
        BY <2>1, <2>3 DEF Close, Forget
      <3>2. \A d \in Conns : d # c => wakeups'[d] = wakeups[d]
        BY <1>t, <3>1 DEF NetOK
      <3>3. QED
        BY <1>n, <2>2, <2>3, <3>1, <3>2 DEF Tended, Attended, AtWork, Finished
    <2>4. CASE cd_job[c] # NULL
      <3>1. /\ mem' = [mem EXCEPT ![cd_job[c]].cancel = TRUE]
            /\ conn' = c /\ mpc' = "close_mgr" /\ UNCHANGED wakeups
        BY <2>1, <2>4 DEF Close
      <3>2. \A d \in Conns : cd_job[d] # NULL =>
              mem'[cd_job[d]].mgr = mem[cd_job[d]].mgr
                /\ mem'[cd_job[d]].state = mem[cd_job[d]].state
        BY <1>t, <3>1 DEF MemOK, NetOK, Job
      <3>3. QED
        BY <2>2, <3>1, <3>2 DEF Tended, Attended, AtWork, Finished
    <2>5. QED
      BY <2>3, <2>4
  <1>14. CASE CloseMgr
    BY <1>n, <1>t, <1>c, <1>14 DEF CloseMgr, TouchOwn, Tended, Attended, AtWork, Finished,
       Owned, Handling, Connected, MemOK, Job, WorkerOK, NetOK, PointersOK, Busy, Serving
  <1>15. CASE CloseOrphan
    BY <1>n, <1>t, <1>c, <1>15 DEF CloseOrphan, TouchOwn, Forget, Home, Tended, Attended,
       AtWork, Finished, Owned, Handling, Connected, MemOK, Job, WorkerOK, NetOK, PointersOK,
       Busy, Serving
  <1>16. CASE Signal
    BY <1>n, <1>t, <1>c, <1>16 DEF Signal, Tended, Attended, AtWork, Finished, Owned,
       Handling, Connected, MemOK, Job, WorkerOK, NetOK, PointersOK, Busy, Serving
  <1>17. CASE LeaveLoop
    BY <1>n, <1>t, <1>c, <1>17 DEF LeaveLoop, Tended, Attended, AtWork, Finished, Owned,
       Handling, Connected, MemOK, Job, WorkerOK, NetOK, PointersOK, Busy, Serving
  <1>18. CASE CancelWorker
    BY <1>n, <1>t, <1>c, <1>18 DEF CancelWorker, Touch, Tended, Attended, AtWork, Finished,
       Owned, Handling, Connected, MemOK, Job, WorkerOK, NetOK, PointersOK, Busy, Serving
  <1>19. CASE StopWorker
    BY <1>n, <1>t, <1>c, <1>19 DEF StopWorker, Tended, Attended, AtWork, Finished, Owned,
       Handling, Connected, MemOK, Job, WorkerOK, NetOK, PointersOK, Busy, Serving
  <1>20. CASE Join
    BY <1>n, <1>t, <1>c, <1>20 DEF Join, Tended, Attended, AtWork, Finished, Owned,
       Handling, Connected, MemOK, Job, WorkerOK, NetOK, PointersOK, Busy, Serving
  <1>21. QED
    BY <1>1, <1>2, <1>3, <1>4, <1>5, <1>6, <1>7, <1>8, <1>9, <1>10, <1>11, <1>12, <1>13, <1>14,
       <1>15, <1>16, <1>17, <1>18, <1>19, <1>20 DEF LoopStep

(* The first undefined access is never forgotten.                          *)
LEMMA FaultStays ==
  ASSUME [Next]_vars
  PROVE  fault' = "none" => fault = "none"
  <1> USE DEF memory, shared, worker, loop, net
  <1>1. WorkerStep => (fault' = "none" => fault = "none")
    BY DEF WorkerStep, Pick, SpuriousWakeup, Start, Token, Announce, InferenceReturns, RingDone,
       StoreState, LogDelivery, ClearCurrent, CheckOrphaned, CheckMgr, FinalWakeup, SendWakeup,
       Touch
  <1>2. LoopStep => (fault' = "none" => fault = "none")
    BY DEF LoopStep, Request, IsBusy, Allocate, ParseFails, Refused, Accepted, OnWakeup,
       OnStreamWakeup, CheckDone, LoadState, StatsRead, StatsLoad, Close, CloseMgr, CloseOrphan,
       Signal, LeaveLoop, CancelWorker, StopWorker, Join, Touch, TouchOwn
  <1>3. UNCHANGED vars => (fault' = "none" => fault = "none")
    BY DEF vars
  <1>4. QED
    BY <1>1, <1>2, <1>3, StepCases

(* The invariant of clients that wait.                                     *)
LEMMA TendedHolds == Spec => []TInv
  <1>1. Init => TInv
    BY DEF Init, TInv, Tended, Attended
  <1>2. IInv /\ TInv /\ [Next]_vars => TInv'
    <2> SUFFICES ASSUME IInv, TInv, [Next]_vars, fault' = "none"
                 PROVE  Tended'
      BY DEF TInv
    <2>1. fault = "none" /\ Tended
      BY FaultStays DEF TInv
    <2>2. CASE UNCHANGED vars
      BY <2>1, <2>2 DEF vars, memory, shared, worker, loop, net, Tended, Attended, AtWork, Finished
    <2>3. QED
      BY <2>1, <2>2, StepCases, WorkerTends, LoopTends
  <1>3. QED
    BY Invariance, <1>1, <1>2, PTL DEF Spec

(* A job the worker has taken is finished by it and the connection woken:  *)
(* the safety behind TakenIsAnswered, for any mix of jobs.                 *)
THEOREM TakenIsAttended == Spec => []NeverForgotten
  <1>1. IInv /\ TInv => NeverForgotten
    <2> SUFFICES ASSUME IInv, TInv, fault = "none", NEW c \in Conns,
                        cd_job[c] # NULL, mem[cd_job[c]].state # "IDLE"
                 PROVE  \/ wpc \in Busy /\ job = cd_job[c]
                        \/ wakeups[c] > 0 \/ c \in missed
                        \/ conn = c /\ mpc \in {"check", "load", "close_mgr", "close_orphan"}
      BY DEF NeverForgotten
    <2>1. mem[cd_job[c]].state \in {"RUNNING", "DONE", "ERROR"}
      BY TypeParts DEF IInv, MemOK, NetOK, Job, JobStates
    <2>2. Attended(c)
      BY DEF TInv, Tended
    <2>3. QED
      BY <2>1, <2>2 DEF Attended, AtWork, Finished
  <1>2. QED
    BY <1>1, Invariance, TendedHolds, PTL
-----------------------------------------------------------------------------
(* Jobs that wait for the worker                                           *)

(* The worker takes a job from the queue or leaves it there.               *)
LEMMA WorkerKeepsQueue ==
  ASSUME IInv, fault = "none", fault' = "none", WorkerStep,
         NEW c \in Conns, cd_job[c] # NULL, cd_job'[c] = cd_job[c], Queued(c),
         ~(wpc = "clear" /\ current_job = cd_job[c])
  PROVE  Queued(c)'
  <1>n. NULL \notin Addrs /\ NULL \notin Conns
    BY ConstantsAssumption
  <1>t. MemOK /\ PointersOK /\ WorkerOK /\ LoopOK /\ NetOK
    BY TypeParts DEF IInv
  <1>c. Connected /\ Working /\ Waiting /\ Owned(c)
    BY DEF IInv, Clean
  <1> USE DEF memory, shared, worker, loop, net
  <1>1. CASE Pick
    BY <1>n, <1>t, <1>c, <1>1 DEF Pick, Copy, Queued, AtWork, Finished, Owned, Working, Waiting,
       MemOK, Job, WorkerOK, NetOK, Busy, Serving, Exclusive, Taken
  <1>2. CASE SpuriousWakeup
    BY <1>n, <1>t, <1>c, <1>2 DEF SpuriousWakeup, Queued, AtWork, Finished, Owned, Working,
       Waiting, MemOK, Job, WorkerOK, NetOK, Busy, Serving, Exclusive, Taken
  <1>3. CASE Start
    BY <1>n, <1>t, <1>c, <1>3 DEF Start, Touch, Queued, AtWork, Finished, Owned, Working,
       Waiting, MemOK, Job, WorkerOK, NetOK, Busy, Serving, Exclusive, Taken
  <1>4. CASE Token
    BY <1>n, <1>t, <1>c, <1>4 DEF Token, Touch, Queued, AtWork, Finished, Owned, Working,
       Waiting, MemOK, Job, WorkerOK, NetOK, Busy, Serving, Exclusive, Taken
  <1>5. CASE Announce
    BY <1>n, <1>t, <1>c, <1>5 DEF Announce, SendWakeup, Touch, Queued, AtWork, Finished, Owned,
       Working, Waiting, MemOK, Job, WorkerOK, NetOK, Busy, Serving, Exclusive, Taken
  <1>6. CASE InferenceReturns
    BY <1>n, <1>t, <1>c, <1>6 DEF InferenceReturns, Touch, Queued, AtWork, Finished, Owned,
       Working, Waiting, MemOK, Job, WorkerOK, NetOK, Busy, Serving, Exclusive, Taken
  <1>7. CASE RingDone
    BY <1>n, <1>t, <1>c, <1>7 DEF RingDone, Touch, Queued, AtWork, Finished, Owned, Working,
       Waiting, MemOK, Job, WorkerOK, NetOK, Busy, Serving, Exclusive, Taken
  <1>8. CASE StoreState
    BY <1>n, <1>t, <1>c, <1>8 DEF StoreState, Touch, Queued, AtWork, Finished, Owned, Working,
       Waiting, MemOK, Job, WorkerOK, NetOK, Busy, Serving, Exclusive, Taken
  <1>9. CASE LogDelivery
    BY <1>n, <1>t, <1>c, <1>9 DEF LogDelivery, Touch, Queued, AtWork, Finished, Owned, Working,
       Waiting, MemOK, Job, WorkerOK, NetOK, Busy, Serving, Exclusive, Taken
  <1>10. CASE ClearCurrent
    BY <1>n, <1>t, <1>c, <1>10 DEF ClearCurrent, Queued, AtWork, Finished, Owned, Working,
       Waiting, MemOK, Job, WorkerOK, NetOK, Busy, Serving, Exclusive, Taken
  <1>11. CASE CheckOrphaned
    BY <1>n, <1>t, <1>c, <1>11 DEF CheckOrphaned, Touch, Free, Target, Queued, AtWork, Finished,
       Owned, Working, Waiting, MemOK, Job, WorkerOK, NetOK, Busy, Serving, Exclusive, Taken
  <1>12. CASE CheckMgr
    BY <1>n, <1>t, <1>c, <1>12 DEF CheckMgr, Touch, Queued, AtWork, Finished, Owned, Working,
       Waiting, MemOK, Job, WorkerOK, NetOK, Busy, Serving, Exclusive, Taken
  <1>13. CASE FinalWakeup
    BY <1>n, <1>t, <1>c, <1>13 DEF FinalWakeup, SendWakeup, Touch, Queued, AtWork, Finished,
       Owned, Working, Waiting, MemOK, Job, WorkerOK, NetOK, Busy, Serving, Exclusive, Taken
  <1>14. QED
    BY <1>1, <1>2, <1>3, <1>4, <1>5, <1>6, <1>7, <1>8, <1>9, <1>10, <1>11, <1>12, <1>13 DEF
       WorkerStep

(* The event loop never drops a job it has submitted.                      *)
LEMMA LoopKeepsQueue ==
  ASSUME IInv, fault = "none", fault' = "none", LoopStep,
         NEW c \in Conns, cd_job[c] # NULL, cd_job'[c] = cd_job[c], Queued(c),
         ~(wpc = "clear" /\ current_job = cd_job[c])
  PROVE  Queued(c)'
  <1>n. NULL \notin Addrs /\ NULL \notin Conns
    BY ConstantsAssumption
  <1>t. MemOK /\ PointersOK /\ WorkerOK /\ LoopOK /\ NetOK
    BY TypeParts DEF IInv
  <1>c. Connected /\ Handling /\ Waiting /\ Owned(c)
    BY DEF IInv, Clean
  <1> USE DEF memory, shared, worker, loop, net
  <1>1. CASE \E d \in Conns : Request(d)
    BY <1>n, <1>t, <1>c, <1>1 DEF Request, Copy, Queued, AtWork, Finished, Unfinished, Owned,
       Handling, Connected, MemOK, Job, WorkerOK, NetOK, PointersOK, Busy, Serving
  <1>2. CASE IsBusy
    BY <1>n, <1>t, <1>c, <1>2 DEF IsBusy, Touch, Home, Queued, AtWork, Finished, Unfinished,
       Owned, Handling, Connected, MemOK, Job, WorkerOK, NetOK, PointersOK, Busy, Serving
  <1>3. CASE Allocate
    BY <1>n, <1>t, <1>c, <1>3 DEF Allocate, NewJob, Home, Queued, AtWork, Finished, Unfinished,
       Owned, Handling, Connected, MemOK, Job, WorkerOK, NetOK, PointersOK, Busy, Serving
  <1>4. CASE ParseFails
    BY <1>n, <1>t, <1>c, <1>4 DEF ParseFails, Free, Target, Home, Queued, AtWork, Finished,
       Unfinished, Owned, Handling, Connected, MemOK, Job, WorkerOK, NetOK, PointersOK, Busy,
       Serving
  <1>5. CASE Refused
    BY <1>n, <1>t, <1>c, <1>5 DEF Refused, Free, Target, Touch, Home, Queued, AtWork, Finished,
       Unfinished, Owned, Handling, Connected, MemOK, Job, WorkerOK, NetOK, PointersOK, Busy,
       Serving
  <1>6. CASE Accepted
    BY <1>n, <1>t, <1>c, <1>6 DEF Accepted, Copy, Touch, Home, Queued, AtWork, Finished,
       Unfinished, Owned, Handling, Connected, MemOK, Job, WorkerOK, NetOK, PointersOK, Busy,
       Serving
  <1>7. CASE \E d \in Conns : OnWakeup(d)
    BY <1>n, <1>t, <1>c, <1>7 DEF OnWakeup, TouchOwn, FinalizeJob, Free, Target, Queued, AtWork,
       Finished, Unfinished, Owned, Handling, Connected, MemOK, Job, WorkerOK, NetOK, PointersOK,
       Busy, Serving
  <1>8. CASE \E d \in Conns : OnStreamWakeup(d)
    BY <1>n, <1>t, <1>c, <1>8 DEF OnStreamWakeup, TouchOwn, Queued, AtWork, Finished,
       Unfinished, Owned, Handling, Connected, MemOK, Job, WorkerOK, NetOK, PointersOK, Busy,
       Serving
  <1>9. CASE CheckDone
    BY <1>n, <1>t, <1>c, <1>9 DEF CheckDone, TouchOwn, Queued, AtWork, Finished, Unfinished,
       Owned, Handling, Connected, MemOK, Job, WorkerOK, NetOK, PointersOK, Busy, Serving
  <1>10. CASE LoadState
    BY <1>n, <1>t, <1>c, <1>10 DEF LoadState, TouchOwn, FinalizeJob, Free, Target, Home, Queued,
       AtWork, Finished, Unfinished, Owned, Handling, Connected, MemOK, Job, WorkerOK, NetOK,
       PointersOK, Busy, Serving
  <1>11. CASE StatsRead
    BY <1>n, <1>t, <1>c, <1>11 DEF StatsRead, Copy, Queued, AtWork, Finished, Unfinished, Owned,
       Handling, Connected, MemOK, Job, WorkerOK, NetOK, PointersOK, Busy, Serving
  <1>12. CASE StatsLoad
    BY <1>n, <1>t, <1>c, <1>12 DEF StatsLoad, Touch, Home, Queued, AtWork, Finished, Unfinished,
       Owned, Handling, Connected, MemOK, Job, WorkerOK, NetOK, PointersOK, Busy, Serving
  <1>13. CASE \E d \in Conns : Close(d)
    BY <1>n, <1>t, <1>c, <1>13 DEF Close, TouchOwn, Forget, Queued, AtWork, Finished,
       Unfinished, Owned, Handling, Connected, MemOK, Job, WorkerOK, NetOK, PointersOK, Busy,
       Serving
  <1>14. CASE CloseMgr
    BY <1>n, <1>t, <1>c, <1>14 DEF CloseMgr, TouchOwn, Queued, AtWork, Finished, Unfinished,
       Owned, Handling, Connected, MemOK, Job, WorkerOK, NetOK, PointersOK, Busy, Serving
  <1>15. CASE CloseOrphan
    BY <1>n, <1>t, <1>c, <1>15 DEF CloseOrphan, TouchOwn, Forget, Home, Queued, AtWork,
       Finished, Unfinished, Owned, Handling, Connected, MemOK, Job, WorkerOK, NetOK, PointersOK,
       Busy, Serving
  <1>16. CASE Signal
    BY <1>n, <1>t, <1>c, <1>16 DEF Signal, Queued, AtWork, Finished, Unfinished, Owned,
       Handling, Connected, MemOK, Job, WorkerOK, NetOK, PointersOK, Busy, Serving
  <1>17. CASE LeaveLoop
    BY <1>n, <1>t, <1>c, <1>17 DEF LeaveLoop, Queued, AtWork, Finished, Unfinished, Owned,
       Handling, Connected, MemOK, Job, WorkerOK, NetOK, PointersOK, Busy, Serving
  <1>18. CASE CancelWorker
    BY <1>n, <1>t, <1>c, <1>18 DEF CancelWorker, Touch, Queued, AtWork, Finished, Unfinished,
       Owned, Handling, Connected, MemOK, Job, WorkerOK, NetOK, PointersOK, Busy, Serving
  <1>19. CASE StopWorker
    BY <1>n, <1>t, <1>c, <1>19 DEF StopWorker, Queued, AtWork, Finished, Unfinished, Owned,
       Handling, Connected, MemOK, Job, WorkerOK, NetOK, PointersOK, Busy, Serving
  <1>20. CASE Join
    BY <1>n, <1>t, <1>c, <1>20 DEF Join, Queued, AtWork, Finished, Unfinished, Owned, Handling,
       Connected, MemOK, Job, WorkerOK, NetOK, PointersOK, Busy, Serving
  <1>21. QED
    BY <1>1, <1>2, <1>3, <1>4, <1>5, <1>6, <1>7, <1>8, <1>9, <1>10, <1>11, <1>12, <1>13, <1>14,
       <1>15, <1>16, <1>17, <1>18, <1>19, <1>20 DEF LoopStep

(* The only race that drops an accepted job, in every interleaving of the  *)
(* two threads: what AcceptedIsRun forbids happens at no other step.       *)
THEOREM QueueSafe == Spec => [][LostOnlyByClear]_vars
  <1>1. IInv /\ [Next]_vars => [LostOnlyByClear]_vars
    <2> SUFFICES ASSUME IInv, [Next]_vars, ~UNCHANGED vars, fault' = "none",
                        NEW c \in Conns, cd_job[c] # NULL, cd_job'[c] = cd_job[c], Queued(c),
                        ~(wpc = "clear" /\ current_job = cd_job[c])
                 PROVE  Queued(c)'
      BY DEF LostOnlyByClear
    <2>1. fault = "none"
      BY FaultStays
    <2>2. QED
      BY <2>1, StepCases, WorkerKeepsQueue, LoopKeepsQueue
  <1>2. QED
    BY <1>1, Invariance, PTL DEF Spec

(* No signal on job_ready is lost, in any interleaving with worker_submit  *)
(* and worker_destroy, whether or not freed memory was accessed.           *)
THEOREM NoLostSignal == Spec => []SleepsIdle
  <1>1. Init => SleepsIdle
    BY DEF Init, SleepsIdle
  <1>2. SleepsIdle /\ [Next]_vars => SleepsIdle'
    <2> SUFFICES ASSUME SleepsIdle, [Next]_vars PROVE SleepsIdle'
      OBVIOUS
    <2> USE DEF memory, shared, worker, loop, net, SleepsIdle
    <2>1. CASE WorkerStep
      BY <2>1 DEF WorkerStep, Pick, SpuriousWakeup, Start, Token, Announce, InferenceReturns,
         RingDone, StoreState, LogDelivery, ClearCurrent, CheckOrphaned, CheckMgr, FinalWakeup,
         SendWakeup
    <2>2. CASE LoopStep
      BY <2>2 DEF LoopStep, Request, IsBusy, Allocate, ParseFails, Refused, Accepted, OnWakeup,
         OnStreamWakeup, CheckDone, LoadState, StatsRead, StatsLoad, Close, CloseMgr, CloseOrphan,
         Signal, LeaveLoop, CancelWorker, StopWorker, Join
    <2>3. CASE UNCHANGED vars
      BY <2>3 DEF vars
    <2>4. QED
      BY <2>1, <2>2, <2>3, StepCases
  <1>3. QED
    BY <1>1, <1>2, PTL DEF Spec
=============================================================================
