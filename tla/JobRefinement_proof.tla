------------------------ MODULE JobRefinement_proof ------------------------
(***************************************************************************)
(* JobProtocol implements JobService up to the first access to freed       *)
(* memory, for any number of connections, job addresses and requests:      *)
(* every step of the two threads is a step of JobService or changes        *)
(* nothing it sees.                                                        *)
(***************************************************************************)
EXTENDS JobProtocol_proof

(* JobService's view of a state, connection by connection.                 *)
Running == IF Inferring THEN mem[job].conn ELSE NULL

Pending(x) == \E a \in Addrs : NotYetRun(a) /\ mem[a].conn = x

Returned(c) == cd_job[c] # NULL /\ mem[cd_job[c]].ran

phases   == [c \in Conns |-> Phase(c)]
pendings == {mem[a].conn : a \in {a \in Addrs : NotYetRun(a)}}
returns  == {c \in Conns : cd_job[c] # NULL /\ mem[cd_job[c]].ran}

(* The sets the refinement mapping is written with, element by element.    *)
LEMMA Views ==
  /\ \A x : x \in pendings <=> Pending(x)
  /\ \A x : x \in pendings' <=> Pending(x)'
  /\ \A x : x \in returns <=> x \in Conns /\ Returned(x)
  /\ \A x : x \in returns' <=> x \in Conns /\ Returned(x)'
  <1>1. \A x : x \in pendings <=> Pending(x)
    BY DEF pendings, Pending
  <1>2. \A x : x \in pendings' <=> Pending(x)'
    BY DEF pendings, Pending
  <1>3. \A x : x \in returns <=> x \in Conns /\ Returned(x)
    BY DEF returns, Returned
  <1>4. \A x : x \in returns' <=> x \in Conns /\ Returned(x)'
    BY DEF returns, Returned
  <1>5. QED
    BY <1>1, <1>2, <1>3, <1>4

-----------------------------------------------------------------------------
(* The steps of JobService, seen from here                                 *)

SamePhases   == \A d \in Conns : Phase(d)' = Phase(d)
SamePendings == \A x : Pending(x)' <=> Pending(x)
SameReturns  == \A d \in Conns : Returned(d)' <=> Returned(d)

(* A view that is the same for every connection is the same.               *)
LEMMA SameViews ==
  /\ SamePhases => phases' = phases
  /\ SamePendings => pendings' = pendings
  /\ SameReturns => returns' = returns
  <1>1. SamePhases => phases' = phases
    BY DEF SamePhases, phases
  <1>2. ASSUME SamePendings PROVE pendings' = pendings
    <2>1. \A x : x \in pendings' <=> x \in pendings
      BY <1>2, Views DEF SamePendings
    <2>2. QED
      BY <2>1
  <1>3. ASSUME SameReturns PROVE returns' = returns
    <2>1. \A x : x \in returns' <=> x \in returns
      BY <1>3, Views DEF SameReturns
    <2>2. QED
      BY <2>1
  <1>4. QED
    BY <1>1, <1>2, <1>3

(* A step JobService does not see.                                         *)
LEMMA StutterStep ==
  ASSUME SamePhases, SamePendings, SameReturns, Running' = Running
  PROVE  UNCHANGED Service!vars
  BY SameViews DEF Service!vars, phases, pendings, returns, Running

(* JobService's acceptance of a job: the connection waits and its job is   *)
(* pending.                                                                *)
LEMMA AcceptStep ==
  ASSUME NEW c \in Conns, Phase(c) = "open", Running = NULL, Running' = NULL,
         \A d \in Conns : Phase(d)' = IF d = c THEN "waiting" ELSE Phase(d),
         \A x : Pending(x)' <=> Pending(x) \/ x = c,
         SameReturns
  PROVE  Service!Next
  <1>1. phases[c] = "open" /\ phases' = [phases EXCEPT ![c] = "waiting"]
    BY DEF phases
  <1>2. \A x : x \in pendings' <=> x \in pendings \union {c}
    BY Views
  <1>3. pendings' = pendings \union {c} /\ returns' = returns
    BY <1>2, SameViews
  <1>4. Service!Accept(c)
    BY <1>1, <1>3 DEF Service!Accept, phases, pendings, returns, Running
  <1>5. QED
    BY <1>4 DEF Service!Next

(* Its start: a pending job runs.                                          *)
LEMMA StartStep ==
  ASSUME NEW c \in Conns, Pending(c), Running = NULL, Running' = c,
         \A x : Pending(x)' <=> Pending(x) /\ x # c,
         SamePhases, SameReturns
  PROVE  Service!Next
  <1>1. c \in pendings /\ \A x : x \in pendings' <=> x \in pendings \ {c}
    BY Views
  <1>2. pendings' = pendings \ {c} /\ returns' = returns /\ phases' = phases
    BY <1>1, SameViews
  <1>3. Service!Start(c)
    BY <1>1, <1>2 DEF Service!Start, phases, pendings, returns, Running
  <1>4. QED
    BY <1>3 DEF Service!Next

(* Its end: the running job returns, to a connection that waits for it or  *)
(* to nobody.                                                              *)
LEMMA ReturnStep ==
  ASSUME NEW c \in Conns, c # NULL, Running = c, Running' = NULL,
         \A d \in Conns : Returned(d)' <=> Returned(d) \/ (d = c /\ Phase(d) = "waiting"),
         SamePhases, SamePendings
  PROVE  Service!Next
  <1>1. \A x : x \in returns' <=>
               x \in IF phases[c] = "waiting" THEN returns \union {c} ELSE returns
    BY Views DEF phases
  <1>2. /\ returns' = IF phases[c] = "waiting" THEN returns \union {c} ELSE returns
        /\ pendings' = pendings /\ phases' = phases
    BY <1>1, SameViews
  <1>3. Service!Return
    BY <1>2 DEF Service!Return, phases, pendings, returns, Running
  <1>4. QED
    BY <1>3 DEF Service!Next

(* The answer: a connection whose job returned gets its reply or its final *)
(* chunk.                                                                  *)
LEMMA AnswerStep ==
  ASSUME NEW c \in Conns, Phase(c) = "waiting", Returned(c), NEW p \in {"open", "ending"},
         \A d \in Conns : Phase(d)' = IF d = c THEN p ELSE Phase(d),
         \A d \in Conns : Returned(d)' <=> Returned(d) /\ d # c,
         SamePendings, Running' = Running
  PROVE  Service!Next
  <1>1. phases[c] = "waiting" /\ phases' = [phases EXCEPT ![c] = p]
    BY DEF phases
  <1>2. c \in returns /\ \A x : x \in returns' <=> x \in returns \ {c}
    BY Views
  <1>3. returns' = returns \ {c} /\ pendings' = pendings
    BY <1>2, SameViews
  <1>4. Service!Answer(c)
    BY <1>1, <1>2, <1>3 DEF Service!Answer, phases, pendings, returns, Running
  <1>5. QED
    BY <1>4 DEF Service!Next

(* The client's departure: its connection is closed, a job it has goes on. *)
LEMMA LeaveStep ==
  ASSUME NEW c \in Conns, Phase(c) # "closed",
         \A d \in Conns : Phase(d)' = IF d = c THEN "closed" ELSE Phase(d),
         \A d \in Conns : Returned(d)' <=> Returned(d) /\ d # c,
         SamePendings, Running' = Running
  PROVE  Service!Next
  <1>1. phases[c] # "closed" /\ phases' = [phases EXCEPT ![c] = "closed"]
    BY DEF phases
  <1>2. \A x : x \in returns' <=> x \in returns \ {c}
    BY Views
  <1>3. returns' = returns \ {c} /\ pendings' = pendings
    BY <1>2, SameViews
  <1>4. Service!Leave(c)
    BY <1>1, <1>3 DEF Service!Leave, phases, pendings, returns, Running
  <1>5. QED
    BY <1>4 DEF Service!Next

-----------------------------------------------------------------------------
(* Steps nothing of which is seen                                          *)

SameFields(b) ==
    /\ mem'[b].live = mem[b].live /\ mem'[b].conn = mem[b].conn
    /\ mem'[b].orphaned = mem[b].orphaned /\ mem'[b].ran = mem[b].ran

(* A job that is not to be run may come and go.                            *)
Unseen(b) == /\ ~NotYetRun(b) /\ ~NotYetRun(b)' /\ \A d \in Conns : cd_job[d] # b
             /\ Inferring => job # b

(* The pending jobs are the same when the same addresses hold jobs that    *)
(* have not run, for the same connections.                                 *)
LEMMA PendingsKept ==
  ASSUME \A b \in Addrs : NotYetRun(b)' <=> NotYetRun(b),
         \A b \in Addrs : NotYetRun(b) => mem'[b].conn = mem[b].conn
  PROVE  SamePendings
  BY DEF SamePendings, Pending

(* Pointers, and the phase of inference, stay what they are.               *)
Unmoved ==
    /\ UNCHANGED <<open, cd_job>>
    /\ Inferring' = Inferring /\ (Inferring => job' = job)

(* A step that moves no connection and changes no job's fields is a        *)
(* stutter of JobService.                                                  *)
LEMMA StutterFields ==
  ASSUME NetOK, WorkerOK, Unmoved, \A b \in Addrs : SameFields(b)
  PROVE  UNCHANGED Service!vars
  <1>1. \A d \in Conns : cd_job[d] # NULL => cd_job[d] \in Addrs
    BY DEF NetOK
  <1>2. Inferring => job \in Addrs
    BY DEF WorkerOK, Inferring, Busy, Serving
  <1>3. SamePhases
    BY DEF SamePhases, Phase, Unmoved
  <1>4. SameReturns
    BY <1>1 DEF SameReturns, Returned, Unmoved, SameFields
  <1>5. Running' = Running
    BY <1>2 DEF Running, Unmoved, SameFields
  <1>6. SamePendings
    <2>1. \A b \in Addrs : NotYetRun(b)' <=> NotYetRun(b)
      BY DEF NotYetRun, Unmoved, SameFields
    <2>2. QED
      BY <2>1, PendingsKept DEF SameFields
  <1>7. QED
    BY <1>3, <1>4, <1>5, <1>6, StutterStep

(* The same but for one job that is created or freed.                      *)
LEMMA StutterUnseen ==
  ASSUME NetOK, WorkerOK, Unmoved, NEW a \in Addrs, Unseen(a),
         \A b \in Addrs : b # a => SameFields(b)
  PROVE  UNCHANGED Service!vars
  <1>1. \A d \in Conns : cd_job[d] # NULL => cd_job[d] \in Addrs
    BY DEF NetOK
  <1>2. Inferring => job \in Addrs
    BY DEF WorkerOK, Inferring, Busy, Serving
  <1>3. SamePhases
    BY DEF SamePhases, Phase, Unmoved
  <1>4. SameReturns
    BY <1>1 DEF SameReturns, Returned, Unmoved, SameFields, Unseen
  <1>5. Running' = Running
    BY <1>2 DEF Running, Unmoved, SameFields, Unseen
  <1>6. SamePendings
    <2>1. \A b \in Addrs : NotYetRun(b)' <=> NotYetRun(b)
      <3>1. ASSUME NEW b \in Addrs, b # a PROVE NotYetRun(b)' <=> NotYetRun(b)
        BY <3>1 DEF NotYetRun, Unmoved, SameFields
      <3>2. QED
        BY <3>1 DEF Unseen
    <2>2. \A b \in Addrs : NotYetRun(b) => mem'[b].conn = mem[b].conn
      BY DEF SameFields, Unseen
    <2>3. QED
      BY <2>1, <2>2, PendingsKept
  <1>7. QED
    BY <1>3, <1>4, <1>5, <1>6, StutterStep

-----------------------------------------------------------------------------
(* The steps of the two threads                                            *)

(* An access once recorded stays recorded.                                 *)
LEMMA FirstFault == ASSUME fault' = "none", WorkerStep \/ LoopStep PROVE fault = "none"
  BY DEF WorkerStep, LoopStep, Pick, SpuriousWakeup, Start, Token, Announce, InferenceReturns,
         RingDone, StoreState, LogDelivery, ClearCurrent, CheckOrphaned, CheckMgr, FinalWakeup,
         Request, IsBusy, Allocate, ParseFails, Refused, Accepted, OnWakeup, OnStreamWakeup,
         CheckDone, LoadState, StatsRead, StatsLoad, Close, CloseMgr, CloseOrphan, Signal,
         LeaveLoop, CancelWorker, StopWorker, Join, Touch, TouchOwn, SendWakeup, memory

(* A connection has one job that is to be run.                             *)
LEMMA OnePending ==
  ASSUME \A d \in Conns : Owned(d), \A b \in Addrs : Sane(b), LastJob,
         NEW a \in Addrs, NEW b \in Addrs, NotYetRun(a), NotYetRun(b), mem[a].conn = mem[b].conn
  PROVE  a = b
  <1>1. mem[a].conn \in Conns /\ mem[a].live /\ mem[b].live
    BY DEF Sane, NotYetRun
  <1>2. CASE mem[a].orphaned /\ mem[b].orphaned
    BY <1>1, <1>2 DEF LastJob
  <1>3. CASE ~mem[a].orphaned /\ ~mem[b].orphaned
    BY <1>3 DEF NotYetRun
  <1>4. ASSUME NEW x \in Addrs, NEW y \in Addrs, NotYetRun(x), NotYetRun(y),
               mem[x].conn = mem[y].conn, mem[x].conn \in Conns, mem[x].live,
               mem[x].orphaned, ~mem[y].orphaned
        PROVE  FALSE
    <2>1. open[mem[x].conn] = "closed"
      BY <1>4 DEF Sane
    <2>2. cd_job[mem[y].conn] = y
      BY <1>4 DEF NotYetRun
    <2>3. y # NULL
      BY <1>4, ConstantsAssumption
    <2>4. QED
      BY <1>4, <2>1, <2>2, <2>3 DEF Owned
  <1>5. QED
    BY <1>1, <1>2, <1>3, <1>4

(* Every step of the worker thread is a step of JobService, or none       *)
LEMMA WorkerRefines ==
  ASSUME IInv, fault' = "none", WorkerStep
  PROVE  Service!Next \/ UNCHANGED Service!vars
  <1>n. NULL \notin Addrs /\ NULL \notin Conns
    BY ConstantsAssumption
  <1>0. Connected /\ Pointing
    BY DEF IInv
  <1>t. MemOK /\ PointersOK /\ WorkerOK /\ LoopOK /\ NetOK
    BY TypeParts DEF IInv
  <1>f. fault = "none"
    BY FirstFault
  <1>c. /\ \A d \in Conns : Owned(d)
        /\ \A b \in Addrs : Sane(b)
        /\ LastJob /\ Handling /\ Working /\ Waiting
    BY <1>f DEF IInv, Clean
  <1> USE DEF memory, shared, worker, loop, net
  <1>1. CASE Pick
    <2> DEFINE c == mem[current_job].conn
    <2>d. /\ wpc = "pick" /\ ~Inferring
          /\ UNCHANGED <<mem, open, cd_job>>
      BY <1>1 DEF Pick, Inferring
    <2>1. CASE wpc' # "start"
      <3>1. ~Inferring'
        BY <1>1, <2>1 DEF Pick, Inferring
      <3>2. Unmoved /\ \A b \in Addrs : SameFields(b)
        BY <2>d, <3>1 DEF Unmoved, SameFields, Inferring
      <3>3. QED
        BY <1>t, <3>2, StutterFields
    <2>2. CASE wpc' = "start"
      <3>1. /\ current_job # NULL /\ current_job \in Addrs /\ job' = current_job
            /\ Inferring' /\ c \in Conns
        BY <1>t, <1>0, <1>1, <2>2 DEF Pick, Inferring, PointersOK, Connected
      <3>2. /\ "current_job" \notin dangling /\ Claimed(current_job)
            /\ ~mem[current_job].ran /\ mem[current_job].live
        BY <1>0, <1>c, <2>d, <3>1 DEF Waiting, Taken, Exclusive, Pointing
      <3>3. NotYetRun(current_job)
        BY <2>d, <3>2 DEF NotYetRun, Claimed
      <3>4. \A b \in Addrs : NotYetRun(b)' <=> NotYetRun(b) /\ b # current_job
        BY <2>d, <3>1 DEF NotYetRun
      <3>5. Pending(c)
        BY <3>1, <3>3 DEF Pending
      <3>6. \A x : Pending(x)' <=> Pending(x) /\ x # c
        <4>1. ASSUME NEW b \in Addrs, NotYetRun(b), mem[b].conn = c PROVE b = current_job
          BY <1>c, <3>1, <3>3, <4>1, OnePending
        <4>2. \A x : Pending(x)' <=> \E b \in Addrs : NotYetRun(b)' /\ mem[b].conn = x
          BY <2>d DEF Pending
        <4>3. ASSUME NEW x, Pending(x)' PROVE Pending(x) /\ x # c
          BY <3>4, <4>1, <4>2, <4>3 DEF Pending
        <4>4. ASSUME NEW x, Pending(x), x # c PROVE Pending(x)'
          BY <3>4, <4>2, <4>4 DEF Pending
        <4>5. QED
          BY <4>3, <4>4
      <3>7. SamePhases /\ SameReturns
        BY <2>d DEF SamePhases, Phase, SameReturns, Returned
      <3>8. Running = NULL /\ Running' = c
        BY <2>d, <3>1 DEF Running
      <3> HIDE DEF c
      <3>9. QED
        BY <3>1, <3>5, <3>6, <3>7, <3>8, StartStep
    <2>3. QED
      BY <2>1, <2>2
  <1>2. CASE SpuriousWakeup
    <2>1. Unmoved /\ \A b \in Addrs : SameFields(b)
      BY <1>t, <1>2 DEF SpuriousWakeup, Unmoved, SameFields, Inferring, MemOK, Job, PointersOK,
         WorkerOK, Busy, Serving
    <2>2. QED
      BY <1>t, <2>1, StutterFields
  <1>3. CASE Start
    <2>1. Unmoved /\ \A b \in Addrs : SameFields(b)
      BY <1>t, <1>3 DEF Start, Unmoved, SameFields, Inferring, MemOK, Job, PointersOK, WorkerOK,
         Busy, Serving
    <2>2. QED
      BY <1>t, <2>1, StutterFields
  <1>4. CASE Token
    <2>1. Unmoved /\ \A b \in Addrs : SameFields(b)
      BY <1>t, <1>4 DEF Token, Unmoved, SameFields, Inferring, MemOK, Job, PointersOK, WorkerOK,
         Busy, Serving
    <2>2. QED
      BY <1>t, <2>1, StutterFields
  <1>5. CASE Announce
    <2>1. Unmoved /\ \A b \in Addrs : SameFields(b)
      BY <1>t, <1>5 DEF Announce, Unmoved, SameFields, Inferring, MemOK, Job, PointersOK,
         WorkerOK, Busy, Serving, SendWakeup
    <2>2. QED
      BY <1>t, <2>1, StutterFields
  <1>6. CASE InferenceReturns
    <2> DEFINE c == mem[job].conn
    <2>d. /\ wpc = "run" /\ Inferring /\ ~Inferring' /\ job \in Addrs
          /\ UNCHANGED <<open, cd_job, job>>
          /\ mem' = [mem EXCEPT ![job].ran = TRUE]
      BY <1>t, <1>6 DEF InferenceReturns, Inferring, WorkerOK, Busy, Serving
    <2>e. /\ mem'[job].ran
          /\ \A b \in Addrs : b # job => mem'[b] = mem[b]
          /\ \A b \in Addrs : mem'[b].live = mem[b].live /\ mem'[b].conn = mem[b].conn
                              /\ mem'[b].orphaned = mem[b].orphaned
      BY <1>t, <2>d DEF MemOK, Job
    <2>g. /\ c \in Conns /\ "job" \notin dangling /\ Claimed(job) /\ mem[job].live
          /\ ~mem[job].ran
      BY <1>0, <1>c, <2>d DEF Connected, Working, Pointing, Exclusive, Busy, Serving
    <2>1. SamePhases
      BY <2>d DEF SamePhases, Phase
    <2>2. SamePendings
      <3>1. \A b \in Addrs : NotYetRun(b)' <=> NotYetRun(b)
        BY <2>d, <2>e DEF NotYetRun
      <3>2. QED
        BY <2>e, <3>1, PendingsKept
    <2>3. ASSUME NEW d \in Conns
          PROVE  Returned(d)' <=> Returned(d) \/ (d = c /\ Phase(d) = "waiting")
      <3>1. CASE cd_job[d] = job
        <4>1. d = c /\ open[d] = "open" /\ cd_job[d] # NULL
          BY <1>c, <1>n, <2>d, <3>1 DEF Owned
        <4>2. Phase(d) = "waiting"
          BY <4>1 DEF Phase
        <4>3. QED
          BY <2>d, <2>e, <3>1, <4>1, <4>2 DEF Returned
      <3>2. CASE cd_job[d] # job
        <4>1. ASSUME d = c, Phase(d) = "waiting" PROVE FALSE
          <5>1. open[c] # "closed"
            BY <4>1 DEF Phase
          <5>2. cd_job[c] = job
            BY <1>c, <2>d, <2>g, <5>1 DEF Claimed, Sane
          <5>3. QED
            BY <3>2, <4>1, <5>2
        <4>2. cd_job[d] # NULL => mem'[cd_job[d]] = mem[cd_job[d]]
          BY <1>t, <2>e, <3>2 DEF NetOK
        <4>3. QED
          BY <2>d, <4>1, <4>2 DEF Returned
      <3>3. QED
        BY <3>1, <3>2
    <2>4. Running = c /\ Running' = NULL
      BY <2>d DEF Running
    <2> HIDE DEF c
    <2>5. QED
      BY <1>n, <2>g, <2>1, <2>2, <2>3, <2>4, ReturnStep
  <1>7. CASE RingDone
    <2>1. Unmoved /\ \A b \in Addrs : SameFields(b)
      BY <1>t, <1>7 DEF RingDone, Unmoved, SameFields, Inferring, MemOK, Job, PointersOK,
         WorkerOK, Busy, Serving
    <2>2. QED
      BY <1>t, <2>1, StutterFields
  <1>8. CASE StoreState
    <2>1. Unmoved /\ \A b \in Addrs : SameFields(b)
      BY <1>t, <1>8 DEF StoreState, Unmoved, SameFields, Inferring, MemOK, Job, PointersOK,
         WorkerOK, Busy, Serving
    <2>2. QED
      BY <1>t, <2>1, StutterFields
  <1>9. CASE LogDelivery
    <2>1. Unmoved /\ \A b \in Addrs : SameFields(b)
      BY <1>t, <1>9 DEF LogDelivery, Unmoved, SameFields, Inferring, MemOK, Job, PointersOK,
         WorkerOK, Busy, Serving
    <2>2. QED
      BY <1>t, <2>1, StutterFields
  <1>10. CASE ClearCurrent
    <2>1. Unmoved /\ \A b \in Addrs : SameFields(b)
      BY <1>t, <1>10 DEF ClearCurrent, Unmoved, SameFields, Inferring, MemOK, Job, PointersOK,
         WorkerOK, Busy, Serving
    <2>2. QED
      BY <1>t, <2>1, StutterFields
  <1>11. CASE CheckOrphaned
    <2>d. job \in Addrs /\ wpc = "orphan" /\ ~Inferring /\ ~Inferring'
          /\ UNCHANGED <<open, cd_job, job>>
      BY <1>t, <1>11 DEF CheckOrphaned, WorkerOK, Busy, Serving, Inferring
    <2>1. CASE mem[job].orphaned
      <3>1. "job" \notin dangling
        BY <1>f, <1>11 DEF CheckOrphaned, Touch
      <3>2. mem[job].ran
        BY <1>c, <2>d, <3>1 DEF Working, Busy, Serving
      <3>3. mem' = [mem EXCEPT ![job].live = FALSE]
        BY <1>11, <2>1 DEF CheckOrphaned, Free
      <3>4. mem'[job].ran /\ \A b \in Addrs : b # job => mem'[b] = mem[b]
        BY <1>t, <2>d, <3>2, <3>3 DEF MemOK, Job
      <3>5. PICK a \in Addrs : a = job
        BY <2>d
      <3>6. Unseen(a)
        BY <1>c, <1>n, <2>d, <2>1, <3>2, <3>4, <3>5 DEF Unseen, NotYetRun, Owned
      <3>7. Unmoved /\ \A b \in Addrs : b # a => SameFields(b)
        BY <2>d, <3>4, <3>5 DEF Unmoved, SameFields, Inferring
      <3>8. QED
        BY <1>t, <3>6, <3>7, StutterUnseen
    <2>2. CASE ~mem[job].orphaned
      <3>1. UNCHANGED mem
        BY <1>11, <2>2 DEF CheckOrphaned
      <3>2. Unmoved /\ \A b \in Addrs : SameFields(b)
        BY <2>d, <3>1 DEF Unmoved, SameFields, Inferring
      <3>3. QED
        BY <1>t, <3>2, StutterFields
    <2>3. QED
      BY <2>1, <2>2
  <1>12. CASE CheckMgr
    <2>1. Unmoved /\ \A b \in Addrs : SameFields(b)
      BY <1>t, <1>12 DEF CheckMgr, Unmoved, SameFields, Inferring, MemOK, Job, PointersOK,
         WorkerOK, Busy, Serving
    <2>2. QED
      BY <1>t, <2>1, StutterFields
  <1>13. CASE FinalWakeup
    <2>1. Unmoved /\ \A b \in Addrs : SameFields(b)
      BY <1>t, <1>13 DEF FinalWakeup, Unmoved, SameFields, Inferring, MemOK, Job, PointersOK,
         WorkerOK, Busy, Serving, SendWakeup
    <2>2. QED
      BY <1>t, <2>1, StutterFields
  <1>14. QED
    BY <1>1, <1>2, <1>3, <1>4, <1>5, <1>6, <1>7, <1>8, <1>9, <1>10, <1>11, <1>12, <1>13 DEF
       WorkerStep

(* Every step of the event loop is a step of JobService, or none          *)
LEMMA LoopRefines ==
  ASSUME IInv, fault' = "none", LoopStep
  PROVE  Service!Next \/ UNCHANGED Service!vars
  <1>n. NULL \notin Addrs /\ NULL \notin Conns
    BY ConstantsAssumption
  <1>0. Connected /\ Pointing
    BY DEF IInv
  <1>t. MemOK /\ PointersOK /\ WorkerOK /\ LoopOK /\ NetOK
    BY TypeParts DEF IInv
  <1>f. fault = "none"
    BY FirstFault
  <1>c. /\ \A d \in Conns : Owned(d)
        /\ \A b \in Addrs : Sane(b)
        /\ LastJob /\ Handling /\ Working /\ Waiting
    BY <1>f DEF IInv, Clean
  <1> USE DEF memory, shared, worker, loop, net
  <1>1. CASE \E c \in Conns : Request(c)
    <2>p. PICK c \in Conns : Request(c)
      BY <1>1
    <2>1. Unmoved /\ \A b \in Addrs : SameFields(b)
      BY <1>t, <2>p DEF Request, Unmoved, SameFields, Inferring, MemOK, Job, PointersOK,
         WorkerOK, Busy, Serving
    <2>2. QED
      BY <1>t, <2>1, StutterFields
  <1>2. CASE IsBusy
    <2>1. Unmoved /\ \A b \in Addrs : SameFields(b)
      BY <1>t, <1>2 DEF IsBusy, Unmoved, SameFields, Inferring, MemOK, Job, PointersOK, WorkerOK,
         Busy, Serving
    <2>2. QED
      BY <1>t, <2>1, StutterFields
  <1>3. CASE Allocate
    <2>d. Unmoved /\ UNCHANGED <<wpc, job>>
      BY <1>3 DEF Allocate, Unmoved, Inferring
    <2>1. CASE UNCHANGED mem
      <3>1. \A b \in Addrs : SameFields(b)
        BY <2>1 DEF SameFields
      <3>2. QED
        BY <1>t, <2>d, <3>1, StutterFields
    <2>2. CASE \E a \in Addrs, s \in Streams : ~mem[a].live
          /\ mem' = [mem EXCEPT ![a] = NewJob(conn, s)]
      <3>1. PICK a \in Addrs, s \in Streams : ~mem[a].live
            /\ mem' = [mem EXCEPT ![a] = NewJob(conn, s)]
        BY <2>2
      <3>2. mem'[a] = NewJob(conn, s) /\ \A b \in Addrs : b # a => mem'[b] = mem[b]
        BY <1>t, <3>1 DEF MemOK
      <3>3. mem'[a].conn = conn /\ ~mem'[a].orphaned
        BY <3>2 DEF NewJob
      <3>4. \A d \in Conns : cd_job[d] # a
        BY <1>c, <1>n, <3>1 DEF Owned
      <3>5. ~NotYetRun(a)' /\ ~NotYetRun(a)
        <4>1. conn \in Conns
          BY <1>0, <1>3 DEF Allocate, Connected
        <4>2. cd_job'[conn] # a
          BY <2>d, <3>4, <4>1 DEF Unmoved
        <4>3. QED
          BY <3>1, <3>3, <4>2 DEF NotYetRun
      <3>6. Inferring => job # a
        BY <1>0, <1>c, <3>1 DEF Inferring, Working, Pointing, Exclusive, Busy, Serving
      <3>7. Unseen(a)
        BY <3>4, <3>5, <3>6 DEF Unseen
      <3>8. \A b \in Addrs : b # a => SameFields(b)
        BY <3>2 DEF SameFields
      <3>9. QED
        BY <1>t, <2>d, <3>7, <3>8, StutterUnseen
    <2>3. QED
      BY <1>3, <2>1, <2>2 DEF Allocate
  <1>4. CASE ParseFails
    <2>1. Unmoved /\ mpc = "submit" /\ ptr \in Addrs /\ UNCHANGED <<wpc, job>>
      BY <1>0, <1>4 DEF ParseFails, Unmoved, Inferring, Connected
    <2>2. mem' = [mem EXCEPT ![ptr].live = FALSE]
      BY <1>4 DEF ParseFails, Free
    <2>3. ~mem'[ptr].live /\ \A b \in Addrs : b # ptr => mem'[b] = mem[b]
      BY <1>t, <2>1, <2>2 DEF MemOK, Job
    <2>4. /\ ~mem[ptr].orphaned /\ mem[ptr].conn \in Conns
          /\ \A d \in Conns : cd_job[d] # ptr
      BY <1>0, <1>c, <2>1 DEF Handling, Connected
    <2>5. Inferring => job # ptr
      BY <1>c, <2>1 DEF Inferring, Handling, Working, Exclusive, Busy, Serving
    <2>6. PICK a \in Addrs : a = ptr
      BY <2>1
    <2>7. Unseen(a)
      BY <2>1, <2>3, <2>4, <2>5, <2>6 DEF Unseen, NotYetRun
    <2>8. \A b \in Addrs : b # a => SameFields(b)
      BY <2>3, <2>6 DEF SameFields
    <2>9. QED
      BY <1>t, <2>1, <2>7, <2>8, StutterUnseen
  <1>5. CASE Refused
    <2>1. Unmoved /\ mpc = "submit" /\ ptr \in Addrs /\ UNCHANGED <<wpc, job>>
      BY <1>0, <1>5 DEF Refused, Unmoved, Inferring, Connected
    <2>2. mem' = [mem EXCEPT ![ptr].live = FALSE]
      BY <1>5 DEF Refused, Free
    <2>3. ~mem'[ptr].live /\ \A b \in Addrs : b # ptr => mem'[b] = mem[b]
      BY <1>t, <2>1, <2>2 DEF MemOK, Job
    <2>4. /\ ~mem[ptr].orphaned /\ mem[ptr].conn \in Conns
          /\ \A d \in Conns : cd_job[d] # ptr
      BY <1>0, <1>c, <2>1 DEF Handling, Connected
    <2>5. Inferring => job # ptr
      BY <1>c, <2>1 DEF Inferring, Handling, Working, Exclusive, Busy, Serving
    <2>6. PICK a \in Addrs : a = ptr
      BY <2>1
    <2>7. Unseen(a)
      BY <2>1, <2>3, <2>4, <2>5, <2>6 DEF Unseen, NotYetRun
    <2>8. \A b \in Addrs : b # a => SameFields(b)
      BY <2>3, <2>6 DEF SameFields
    <2>9. QED
      BY <1>t, <2>1, <2>7, <2>8, StutterUnseen
  <1>6. CASE Accepted
    <2>d. /\ mpc = "submit" /\ conn \in Conns /\ ptr \in Addrs /\ UNCHANGED <<job, open, conn, ptr>>
          /\ wpc' = IF wpc = "wait" THEN "pick" ELSE wpc
          /\ cd_job' = [cd_job EXCEPT ![conn] = ptr]
      BY <1>0, <1>6 DEF Accepted, Connected
    <2>e. /\ \A b \in Addrs : b # ptr => mem'[b] = mem[b]
          /\ mem'[ptr].live = mem[ptr].live /\ mem'[ptr].conn = mem[ptr].conn
          /\ mem'[ptr].orphaned = mem[ptr].orphaned /\ mem'[ptr].ran = mem[ptr].ran
      <3>1. mem' = [mem EXCEPT ![ptr].state = "IDLE", ![ptr].cancel = FALSE]
        BY <1>6 DEF Accepted
      <3>2. QED
        BY <1>t, <2>d, <3>1 DEF MemOK, Job
    <2>g. \A d \in Conns : cd_job'[d] = IF d = conn THEN ptr ELSE cd_job[d]
      BY <1>t, <2>d DEF NetOK
    <2>h. /\ open[conn] = "open" /\ cd_job[conn] = NULL /\ mem[ptr].conn = conn /\ mem[ptr].live
          /\ ~mem[ptr].orphaned /\ ~mem[ptr].ran /\ \A d \in Conns : cd_job[d] # ptr
      BY <1>0, <1>c, <1>n, <2>d DEF Handling, Pointing
    <2>i. ~Inferring /\ ~Inferring'
      <3>1. "current_job" \notin dangling
        BY <1>f, <1>6 DEF Accepted, Touch
      <3>2. current_job = NULL \/ mem[current_job].state \notin {"IDLE", "RUNNING"}
        BY <1>6 DEF Accepted, Unfinished
      <3>3. ASSUME Inferring PROVE FALSE
        <4>1. /\ current_job = job /\ job \in Addrs
              /\ mem[job].state \in {"IDLE", "RUNNING"}
          BY <1>c, <1>t, <3>3 DEF Inferring, Working, WorkerOK, Exclusive, Busy, Serving
        <4>2. QED
          BY <1>n, <3>2, <4>1
      <3>4. QED
        BY <2>d, <3>3 DEF Inferring
    <2>1. Phase(conn) = "open"
      BY <2>h DEF Phase
    <2>2. \A d \in Conns : Phase(d)' = IF d = conn THEN "waiting" ELSE Phase(d)
      BY <1>n, <2>d, <2>g, <2>h DEF Phase
    <2>3. \A x : Pending(x)' <=> Pending(x) \/ x = conn
      <3>1. NotYetRun(ptr)' /\ mem'[ptr].conn = conn
        BY <2>d, <2>e, <2>g, <2>h, <2>i DEF NotYetRun
      <3>2. ASSUME NEW b \in Addrs, b # ptr PROVE NotYetRun(b)' <=> NotYetRun(b)
        <4>1. mem'[b] = mem[b]
          BY <2>e, <3>2
        <4>2. mem[b].live => mem[b].conn \in Conns
          BY <1>c DEF Sane
        <4>3. mem[b].live => (cd_job'[mem[b].conn] = b <=> cd_job[mem[b].conn] = b)
          BY <1>n, <2>g, <2>h, <3>2, <4>2
        <4>4. QED
          BY <2>i, <4>1, <4>3 DEF NotYetRun
      <3>3. ~NotYetRun(ptr)
        BY <2>d, <2>h DEF NotYetRun
      <3>4. ASSUME NEW x, Pending(x)' PROVE Pending(x) \/ x = conn
        <4>1. PICK b \in Addrs : NotYetRun(b)' /\ mem'[b].conn = x
          BY <3>4 DEF Pending
        <4>2. QED
          BY <2>e, <3>1, <3>2, <4>1 DEF Pending
      <3>5. ASSUME NEW x, Pending(x) PROVE Pending(x)'
        <4>1. PICK b \in Addrs : NotYetRun(b) /\ mem[b].conn = x
          BY <3>5 DEF Pending
        <4>2. QED
          BY <2>e, <3>2, <3>3, <4>1 DEF Pending
      <3>6. \A x : x = conn => Pending(x)'
        BY <2>d, <3>1 DEF Pending
      <3>7. QED
        BY <3>4, <3>5, <3>6
    <2>4. SameReturns
      <3>1. \A d \in Conns : d = conn => ~Returned(d) /\ ~Returned(d)'
        BY <2>d, <2>e, <2>g, <2>h DEF Returned
      <3>2. \A d \in Conns : d # conn => (Returned(d)' <=> Returned(d))
        BY <1>t, <2>e, <2>g, <2>h DEF Returned, NetOK
      <3>3. QED
        BY <3>1, <3>2 DEF SameReturns
    <2>5. Running = NULL /\ Running' = NULL
      BY <2>i DEF Running
    <2>6. QED
      BY <2>d, <2>1, <2>2, <2>3, <2>4, <2>5, AcceptStep
  <1>7. CASE \E c \in Conns : OnWakeup(c)
    <2>p. PICK c \in Conns : OnWakeup(c)
      BY <1>7
    <2> DEFINE ends == cd_job[c] # NULL /\ Finished(cd_job[c])
    <2>d. UNCHANGED <<wpc, job, open>> /\ c \in Conns
      BY <2>p DEF OnWakeup
    <2>e. ends => Finished(cd_job[c]) /\ cd_job[c] # NULL
      OBVIOUS
    <2>1. CASE ends
      <3>1. /\ cd_job[c] \in Addrs /\ mem[cd_job[c]].ran /\ mem[cd_job[c]].live
            /\ open[c] = "open" /\ mem[cd_job[c]].conn = c
        BY <1>c, <1>t, <2>1, <2>e DEF Owned, Sane, Finished, NetOK
      <3>2. /\ mem' = [mem EXCEPT ![cd_job[c]].live = FALSE]
            /\ cd_job' = [cd_job EXCEPT ![c] = NULL]
        BY <2>p, <2>1 DEF OnWakeup, FinalizeJob, Free
      <3>3. /\ \A b \in Addrs : b # cd_job[c] => mem'[b] = mem[b]
            /\ mem'[cd_job[c]].ran /\ mem'[cd_job[c]].conn = c
        BY <1>t, <3>1, <3>2 DEF MemOK, Job
      <3>4. \A d \in Conns : cd_job'[d] = IF d = c THEN NULL ELSE cd_job[d]
        BY <1>t, <3>2 DEF NetOK
      <3>5. Phase(c) = "waiting" /\ Returned(c)
        BY <1>n, <3>1 DEF Phase, Returned
      <3>6. \A d \in Conns : Phase(d)' = IF d = c THEN "open" ELSE Phase(d)
        BY <2>d, <3>1, <3>4 DEF Phase
      <3>7. \A d \in Conns : Returned(d)' <=> Returned(d) /\ d # c
        <4>1. ASSUME NEW d \in Conns, d # c, cd_job[d] # NULL
              PROVE cd_job[d] \in Addrs /\ cd_job[d] # cd_job[c]
          BY <1>c, <1>t, <3>1, <4>1 DEF Owned, NetOK
        <4>2. QED
          BY <3>3, <3>4, <4>1 DEF Returned
      <3>8. SamePendings
        <4>0. PICK a \in Addrs : a = cd_job[c]
          BY <3>1
        <4>1. ~NotYetRun(a) /\ ~NotYetRun(a)'
          BY <3>1, <3>3, <4>0 DEF NotYetRun
        <4>2. ASSUME NEW b \in Addrs, b # a PROVE NotYetRun(b)' <=> NotYetRun(b)
          <5>1. mem'[b] = mem[b]
            BY <3>3, <4>0, <4>2
          <5>2. mem[b].live => mem[b].conn \in Conns
            BY <1>c DEF Sane
          <5>3. mem[b].live => (cd_job'[mem[b].conn] = b <=> cd_job[mem[b].conn] = b)
            BY <1>n, <3>4, <4>0, <4>2, <5>2
          <5>4. QED
            BY <2>d, <5>1, <5>3 DEF NotYetRun, Inferring
        <4>3. \A b \in Addrs : NotYetRun(b)' <=> NotYetRun(b)
          BY <4>1, <4>2
        <4>4. \A b \in Addrs : NotYetRun(b) => mem'[b].conn = mem[b].conn
          BY <3>3, <4>0, <4>1
        <4>5. QED
          BY <4>3, <4>4, PendingsKept
      <3>9. Running' = Running
        <4>1. Inferring => job \in Addrs /\ mem'[job].conn = mem[job].conn
          BY <1>t, <3>1, <3>3 DEF WorkerOK, Inferring, Busy, Serving
        <4>2. QED
          BY <2>d, <4>1 DEF Running, Inferring
      <3>10. QED
        BY <2>d, <3>5, <3>6, <3>7, <3>8, <3>9, AnswerStep
    <2>2. CASE ~ends
      <3>1. UNCHANGED <<mem, cd_job>>
        BY <2>p, <2>2 DEF OnWakeup
      <3>2. Unmoved /\ \A b \in Addrs : SameFields(b)
        BY <2>d, <3>1 DEF Unmoved, SameFields, Inferring
      <3>3. QED
        BY <1>t, <3>2, StutterFields
    <2>3. QED
      BY <2>1, <2>2
  <1>8. CASE \E c \in Conns : OnStreamWakeup(c)
    <2>p. PICK c \in Conns : OnStreamWakeup(c)
      BY <1>8
    <2>1. Unmoved /\ \A b \in Addrs : SameFields(b)
      BY <1>t, <2>p DEF OnStreamWakeup, Unmoved, SameFields, Inferring, MemOK, Job, PointersOK,
         WorkerOK, Busy, Serving
    <2>2. QED
      BY <1>t, <2>1, StutterFields
  <1>9. CASE CheckDone
    <2>1. Unmoved /\ \A b \in Addrs : SameFields(b)
      BY <1>t, <1>9 DEF CheckDone, Unmoved, SameFields, Inferring, MemOK, Job, PointersOK,
         WorkerOK, Busy, Serving
    <2>2. QED
      BY <1>t, <2>1, StutterFields
  <1>10. CASE LoadState
    <2> DEFINE ends == flag \/ Finished(cd_job[conn])
    <2>d. /\ UNCHANGED <<wpc, job>> /\ conn \in Conns /\ cd_job[conn] # NULL /\ mpc = "load"
          /\ cd_job[conn] \in Addrs
      BY <1>0, <1>t, <1>10 DEF LoadState, Connected, NetOK
    <2>e. ends => mem[cd_job[conn]].ran
      BY <1>c, <2>d DEF Handling, Sane, Owned
    <2>1. CASE ends
      <3>0. \A d \in Conns : open'[d] = IF d = conn THEN "draining" ELSE open[d]
        BY <1>t, <1>10, <2>1 DEF LoadState, NetOK
      <3>1. /\ cd_job[conn] \in Addrs /\ mem[cd_job[conn]].ran /\ mem[cd_job[conn]].live
            /\ open[conn] = "open" /\ mem[cd_job[conn]].conn = conn
        BY <1>c, <2>1, <2>d, <2>e DEF Owned
      <3>2. /\ mem' = [mem EXCEPT ![cd_job[conn]].live = FALSE]
            /\ cd_job' = [cd_job EXCEPT ![conn] = NULL]
        BY <1>10, <2>1 DEF LoadState, FinalizeJob, Free
      <3>3. /\ \A b \in Addrs : b # cd_job[conn] => mem'[b] = mem[b]
            /\ mem'[cd_job[conn]].ran /\ mem'[cd_job[conn]].conn = conn
        BY <1>t, <3>1, <3>2 DEF MemOK, Job
      <3>4. \A d \in Conns : cd_job'[d] = IF d = conn THEN NULL ELSE cd_job[d]
        BY <1>t, <3>2 DEF NetOK
      <3>5. Phase(conn) = "waiting" /\ Returned(conn)
        BY <1>n, <3>1 DEF Phase, Returned
      <3>6. \A d \in Conns : Phase(d)' = IF d = conn THEN "ending" ELSE Phase(d)
        BY <2>d, <3>1, <3>4, <3>0 DEF Phase
      <3>7. \A d \in Conns : Returned(d)' <=> Returned(d) /\ d # conn
        <4>1. ASSUME NEW d \in Conns, d # conn, cd_job[d] # NULL
              PROVE cd_job[d] \in Addrs /\ cd_job[d] # cd_job[conn]
          BY <1>c, <1>t, <3>1, <4>1 DEF Owned, NetOK
        <4>2. QED
          BY <3>3, <3>4, <4>1 DEF Returned
      <3>8. SamePendings
        <4>0. PICK a \in Addrs : a = cd_job[conn]
          BY <3>1
        <4>1. ~NotYetRun(a) /\ ~NotYetRun(a)'
          BY <3>1, <3>3, <4>0 DEF NotYetRun
        <4>2. ASSUME NEW b \in Addrs, b # a PROVE NotYetRun(b)' <=> NotYetRun(b)
          <5>1. mem'[b] = mem[b]
            BY <3>3, <4>0, <4>2
          <5>2. mem[b].live => mem[b].conn \in Conns
            BY <1>c DEF Sane
          <5>3. mem[b].live => (cd_job'[mem[b].conn] = b <=> cd_job[mem[b].conn] = b)
            BY <1>n, <3>4, <4>0, <4>2, <5>2
          <5>4. QED
            BY <2>d, <5>1, <5>3 DEF NotYetRun, Inferring
        <4>3. \A b \in Addrs : NotYetRun(b)' <=> NotYetRun(b)
          BY <4>1, <4>2
        <4>4. \A b \in Addrs : NotYetRun(b) => mem'[b].conn = mem[b].conn
          BY <3>3, <4>0, <4>1
        <4>5. QED
          BY <4>3, <4>4, PendingsKept
      <3>9. Running' = Running
        <4>1. Inferring => job \in Addrs /\ mem'[job].conn = mem[job].conn
          BY <1>t, <3>1, <3>3 DEF WorkerOK, Inferring, Busy, Serving
        <4>2. QED
          BY <2>d, <4>1 DEF Running, Inferring
      <3>10. QED
        BY <2>d, <3>5, <3>6, <3>7, <3>8, <3>9, AnswerStep
    <2>2. CASE ~ends
      <3>1. UNCHANGED <<mem, open, cd_job>>
        BY <1>10, <2>2 DEF LoadState
      <3>2. Unmoved /\ \A b \in Addrs : SameFields(b)
        BY <2>d, <3>1 DEF Unmoved, SameFields, Inferring
      <3>3. QED
        BY <1>t, <3>2, StutterFields
    <2>3. QED
      BY <2>1, <2>2
  <1>11. CASE StatsRead
    <2>1. Unmoved /\ \A b \in Addrs : SameFields(b)
      BY <1>t, <1>11 DEF StatsRead, Unmoved, SameFields, Inferring, MemOK, Job, PointersOK,
         WorkerOK, Busy, Serving
    <2>2. QED
      BY <1>t, <2>1, StutterFields
  <1>12. CASE StatsLoad
    <2>1. Unmoved /\ \A b \in Addrs : SameFields(b)
      BY <1>t, <1>12 DEF StatsLoad, Unmoved, SameFields, Inferring, MemOK, Job, PointersOK,
         WorkerOK, Busy, Serving
    <2>2. QED
      BY <1>t, <2>1, StutterFields
  <1>13. CASE \E c \in Conns : Close(c)
    <2>p. PICK c \in Conns : Close(c)
      BY <1>13
    <2>d. UNCHANGED <<wpc, job, cd_job>> /\ open[c] # "closed"
      BY <2>p DEF Close
    <2>1. CASE cd_job[c] = NULL
      <3>1. UNCHANGED mem /\ \A d \in Conns : open'[d] = IF d = c THEN "closed" ELSE open[d]
        BY <1>t, <2>p, <2>1 DEF Close, Forget, NetOK
      <3>2. Phase(c) # "closed" /\ \A d \in Conns : Phase(d)' = IF d = c THEN "closed" ELSE Phase(d)
        BY <2>d, <3>1 DEF Phase
      <3>3. \A d \in Conns : Returned(d)' <=> Returned(d) /\ d # c
        BY <2>d, <2>1, <3>1 DEF Returned
      <3>4. SamePendings /\ Running' = Running
        BY <2>d, <3>1 DEF SamePendings, Pending, NotYetRun, Running, Inferring
      <3>5. QED
        BY <3>2, <3>3, <3>4, LeaveStep
    <2>2. CASE cd_job[c] # NULL
      <3>1. mem' = [mem EXCEPT ![cd_job[c]].cancel = TRUE] /\ UNCHANGED open
        BY <2>p, <2>2 DEF Close
      <3>2. Unmoved /\ \A b \in Addrs : SameFields(b)
        BY <1>t, <2>d, <3>1 DEF Unmoved, SameFields, Inferring, MemOK, Job
      <3>3. QED
        BY <1>t, <3>2, StutterFields
    <2>3. QED
      BY <2>1, <2>2
  <1>14. CASE CloseMgr
    <2>1. Unmoved /\ \A b \in Addrs : SameFields(b)
      BY <1>t, <1>14 DEF CloseMgr, Unmoved, SameFields, Inferring, MemOK, Job, PointersOK,
         WorkerOK, Busy, Serving
    <2>2. QED
      BY <1>t, <2>1, StutterFields
  <1>15. CASE CloseOrphan
    <2> DEFINE a == cd_job[conn]
    <2>d. /\ UNCHANGED <<wpc, job>> /\ conn \in Conns /\ a # NULL /\ a \in Addrs
          /\ mem' = [mem EXCEPT ![a].orphaned = TRUE]
          /\ \A d \in Conns : open'[d] = IF d = conn THEN "closed" ELSE open[d]
          /\ \A d \in Conns : cd_job'[d] = IF d = conn THEN NULL ELSE cd_job[d]
      BY <1>0, <1>t, <1>15 DEF CloseOrphan, Connected, NetOK, Forget
    <2>e. open[conn] = "open" /\ mem[a].conn = conn /\ ~mem[a].orphaned
      BY <1>c, <2>d DEF Owned
    <2>g. /\ mem'[a].orphaned
          /\ \A b \in Addrs : b # a => mem'[b] = mem[b]
          /\ \A b \in Addrs : mem'[b].live = mem[b].live /\ mem'[b].conn = mem[b].conn
                              /\ mem'[b].ran = mem[b].ran
      BY <1>t, <2>d DEF MemOK, Job
    <2>h. a = cd_job[conn]
      OBVIOUS
    <2> HIDE DEF a
    <2>1. Phase(conn) # "closed" /\ \A d \in Conns : Phase(d)' = IF d = conn THEN "closed"
          ELSE Phase(d)
      BY <2>d, <2>e DEF Phase
    <2>2. \A d \in Conns : Returned(d)' <=> Returned(d) /\ d # conn
      BY <1>t, <2>d, <2>g DEF Returned, NetOK
    <2>3. SamePendings
      <3>1. ASSUME NEW b \in Addrs PROVE NotYetRun(b)' <=> NotYetRun(b)
        <4>1. CASE b = a
          BY <2>d, <2>e, <2>g, <2>h, <4>1 DEF NotYetRun, Inferring
        <4>2. CASE b # a
          <5>1. mem'[b] = mem[b]
            BY <2>g, <4>2
          <5>2. mem[b].live => mem[b].conn \in Conns
            BY <1>c DEF Sane
          <5>3. mem[b].live => (cd_job'[mem[b].conn] = b <=> cd_job[mem[b].conn] = b)
            BY <1>n, <2>d, <2>h, <4>2, <5>2
          <5>4. QED
            BY <2>d, <5>1, <5>3 DEF NotYetRun, Inferring
        <4>3. QED
          BY <4>1, <4>2
      <3>2. QED
        BY <2>g, <3>1, PendingsKept
    <2>4. Running' = Running
      BY <1>t, <2>d, <2>g DEF Running, Inferring, WorkerOK, Busy, Serving
    <2>5. QED
      BY <2>d, <2>1, <2>2, <2>3, <2>4, LeaveStep
  <1>16. CASE Signal
    <2>1. Unmoved /\ \A b \in Addrs : SameFields(b)
      BY <1>t, <1>16 DEF Signal, Unmoved, SameFields, Inferring, MemOK, Job, PointersOK,
         WorkerOK, Busy, Serving
    <2>2. QED
      BY <1>t, <2>1, StutterFields
  <1>17. CASE LeaveLoop
    <2>1. Unmoved /\ \A b \in Addrs : SameFields(b)
      BY <1>t, <1>17 DEF LeaveLoop, Unmoved, SameFields, Inferring, MemOK, Job, PointersOK,
         WorkerOK, Busy, Serving
    <2>2. QED
      BY <1>t, <2>1, StutterFields
  <1>18. CASE CancelWorker
    <2>1. Unmoved /\ \A b \in Addrs : SameFields(b)
      BY <1>t, <1>18 DEF CancelWorker, Unmoved, SameFields, Inferring, MemOK, Job, PointersOK,
         WorkerOK, Busy, Serving
    <2>2. QED
      BY <1>t, <2>1, StutterFields
  <1>19. CASE StopWorker
    <2>1. Unmoved /\ \A b \in Addrs : SameFields(b)
      BY <1>t, <1>19 DEF StopWorker, Unmoved, SameFields, Inferring, MemOK, Job, PointersOK,
         WorkerOK, Busy, Serving
    <2>2. QED
      BY <1>t, <2>1, StutterFields
  <1>20. CASE Join
    <2>1. Unmoved /\ \A b \in Addrs : SameFields(b)
      BY <1>t, <1>20 DEF Join, Unmoved, SameFields, Inferring, MemOK, Job, PointersOK, WorkerOK,
         Busy, Serving
    <2>2. QED
      BY <1>t, <2>1, StutterFields
  <1>21. QED
    BY <1>1, <1>2, <1>3, <1>4, <1>5, <1>6, <1>7, <1>8, <1>9, <1>10, <1>11, <1>12, <1>13, <1>14,
       <1>15, <1>16, <1>17, <1>18, <1>19, <1>20 DEF LoopStep

(* A stutter of JobProtocol is one of JobService.                          *)
LEMMA StutterRefines == ASSUME UNCHANGED vars PROVE UNCHANGED Service!vars
  BY DEF vars, memory, shared, worker, loop, net, Service!vars, Phase, NotYetRun, Inferring

(* Every step before the first access to freed memory is a step of         *)
(* JobService or a stutter.                                                *)
LEMMA StepRefines ==
  ASSUME IInv, [Next]_vars
  PROVE  [fault' # "none" \/ Service!Next]_(Service!vars)
  BY WorkerRefines, LoopRefines, StutterRefines, StepCases

(* Initial states map to initial states.                                   *)
LEMMA InitRefines == Init => Service!Init
  <1> SUFFICES ASSUME Init PROVE Service!Init
    OBVIOUS
  <1>1. \A a \in Addrs : ~mem[a].live
    BY DEF Init, NewJob
  <1>2. phases = [c \in Conns |-> "open"]
    BY DEF Init, phases, Phase
  <1>3. pendings = {} /\ returns = {}
    BY <1>1 DEF Init, pendings, returns, NotYetRun
  <1>4. Running = NULL
    BY DEF Init, Running, Inferring
  <1>5. QED
    BY <1>2, <1>3, <1>4 DEF Service!Init, phases, pendings, returns, Running

(* worker.c, server.c: never two inferences at a time, no job run twice,   *)
(* no client answered from another's job or before its own inference has   *)
(* returned, however the threads interleave, until one of them accesses a  *)
(* freed job.                                                              *)
THEOREM ServiceImplemented == Spec => ImplementsService
  BY InitRefines, StepRefines, Invariance, PTL DEF Spec, ImplementsService

=============================================================================
