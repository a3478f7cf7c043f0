---------------------------- MODULE Server_proof ----------------------------
(***************************************************************************)
(* Theorems about Server for every set of connections, every limit and any *)
(* number of requests.                                                     *)
(***************************************************************************)
EXTENDS Server, FiniteSetTheorems, TLAPS

(* The invariants of the runs are inductive together: the bounds in TypeOK *)
(* need CountExact, and the sums need the types of their counters.         *)
IInv == TypeOK /\ CountExact /\ OneReplyEach /\ StatsExact

(* The part of StatsExact about errors, and the rest of it.                *)
ErrorsMatch ==
    /\ \A s \in Counted \ {500} : err[s] = replies[s]
    /\ err[500] = replies[500] + replies[404]

RequestsMatch ==
    /\ requests = refused + inferences_total + dropped + Cardinality(Pending)
    /\ req_stream <= inferences_total

(* StatsExact, errors and requests apart.                                  *)
LEMMA StatsParts ==
  ASSUME TypeOK
  PROVE  StatsExact <=> ErrorsMatch /\ RequestsMatch
  BY DEF TypeOK, StatsExact, ErrorsMatch, RequestsMatch, req_total, err_total, ErrorReplies,
     Counted, Statuses

(* The same of the next state.                                             *)
LEMMA StatsPartsNext ==
  ASSUME TypeOK'
  PROVE  StatsExact' <=> ErrorsMatch' /\ RequestsMatch'
  BY DEF TypeOK, StatsExact, ErrorsMatch, RequestsMatch, req_total, err_total, ErrorReplies,
     Counted, Statuses

(* Sets of connections are finite, and grow and shrink by one.             *)
LEMMA ConnsCount ==
  ASSUME NEW S \in SUBSET Conns
  PROVE  /\ IsFiniteSet(S) /\ Cardinality(S) \in 0..Cardinality(Conns)
         /\ \A c \in S : Cardinality(S \ {c}) = Cardinality(S) - 1 /\ Cardinality(S) > 0
         /\ \A c \in Conns \ S : Cardinality(S \union {c}) = Cardinality(S) + 1
  <1>1. IsFiniteSet(Conns) /\ Cardinality(Conns) \in Nat
    BY BoundAssumption, FS_CardinalityType
  <1>2. IsFiniteSet(S) /\ Cardinality(S) <= Cardinality(Conns) /\ Cardinality(S) \in Nat
    BY <1>1, FS_Subset, FS_CardinalityType
  <1>3. ASSUME NEW c \in S
        PROVE  Cardinality(S \ {c}) = Cardinality(S) - 1 /\ Cardinality(S) > 0
    <2>1. Cardinality(S \ {c}) = Cardinality(S) - 1
      BY <1>2, <1>3, FS_RemoveElement
    <2>2. Cardinality(S) # 0
      BY <1>2, <1>3, FS_EmptySet
    <2>3. QED
      BY <1>2, <2>1, <2>2
  <1>4. ASSUME NEW c \in Conns \ S
        PROVE  Cardinality(S \union {c}) = Cardinality(S) + 1
    BY <1>2, <1>4, FS_AddElement
  <1>5. QED
    BY <1>1, <1>2, <1>3, <1>4

(* The invariant holds when the server starts to listen.                   *)
LEMMA InitIInv == Init => IInv
  <1> SUFFICES ASSUME Init PROVE IInv
    OBVIOUS
  <1>1. Live = {} /\ Open = {} /\ Pending = {}
    BY DEF Init, Live, Open, Pending
  <1>2. Cardinality({}) = 0 /\ Cardinality(Conns) \in Nat
    BY FS_EmptySet, BoundAssumption, FS_CardinalityType
  <1>3. TypeOK
    <2>1. /\ err \in [Counted -> Nat] /\ replies \in [Statuses -> Nat]
          /\ job \in [Conns -> {"none", "running", "done"}]
          /\ sock \in [Conns -> {"none", "open", "closing", "closed"}]
      BY DEF Init
    <2>2. stream \in [Conns -> BOOLEAN]
      BY DEF Init
    <2>3. /\ active_connections \in 0..Cardinality(Conns) /\ served \in 0..MaxRequests
          /\ {req_stream, req_health, req_models} \subseteq Nat
          /\ {connections_total, connections_rejected, requests, inferences_total, refused,
               dropped} \subseteq Nat
      BY <1>2, BoundAssumption DEF Init
    <2>4. allow_ips \in BOOLEAN /\ api_key \in BOOLEAN /\ busy \in BOOLEAN
      BY DEF Init
    <2>5. QED
      BY <2>1, <2>2, <2>3, <2>4 DEF TypeOK
  <1>4. CountExact
    BY <1>1, <1>2, LimitAssumption DEF Init, CountExact
  <1>5. OneReplyEach
    BY <1>1, <1>2 DEF Init, OneReplyEach, ErrorReplies, Statuses
  <1>6. ErrorsMatch /\ RequestsMatch
    BY <1>1, <1>2 DEF Init, ErrorsMatch, RequestsMatch, Counted, Statuses
  <1>7. QED
    BY <1>3, <1>4, <1>5, <1>6, StatsParts DEF IInv

-----------------------------------------------------------------------------
(* What steps have in common                                               *)

(* A step that leaves connections alone leaves their count right.          *)
LEMMA SameConns ==
  ASSUME CountExact, UNCHANGED <<allow_ips, sock, active_connections>>
  PROVE  CountExact'
  BY DEF CountExact, Live, Open

(* A step that sends no status and neither accepts nor ends a request      *)
(* leaves the accounts right.                                              *)
LEMMA SameAccounts ==
  ASSUME OneReplyEach, ErrorsMatch, RequestsMatch, Pending' = Pending, UNCHANGED <<stats, hist>>
  PROVE  OneReplyEach' /\ ErrorsMatch' /\ RequestsMatch'
  BY DEF OneReplyEach, ErrorsMatch, RequestsMatch, ErrorReplies, stats, hist

(* send_error and the plain answers keep counters and replies in step.     *)
LEMMA ReplyMatches ==
  ASSUME TypeOK, ErrorsMatch, OneReplyEach, NEW status \in Statuses, Reply(status),
         served < MaxRequests, Pending' = Pending, dropped' = dropped
  PROVE  /\ err' \in [Counted -> Nat] /\ replies' \in [Statuses -> Nat]
         /\ served' \in 0..MaxRequests
         /\ ErrorsMatch' /\ OneReplyEach'
  <1>1. err \in [Counted -> Nat] /\ replies \in [Statuses -> Nat] /\ served \in Nat
        /\ dropped \in Nat
    BY DEF TypeOK
  <1>2. /\ replies' = [replies EXCEPT ![status] = @ + 1]
        /\ err' = IF status = 200 THEN err ELSE [err EXCEPT ![ErrorSlot(status)] = @ + 1]
        /\ served' = served + 1
    BY DEF Reply
  <1>3. ErrorSlot(status) \in Counted
    BY DEF ErrorSlot, Counted
  <1>4. err' \in [Counted -> Nat] /\ replies' \in [Statuses -> Nat] /\ served' \in 0..MaxRequests
    BY <1>1, <1>2, <1>3, BoundAssumption
  <1>5. ErrorsMatch'
    BY <1>1, <1>2 DEF ErrorsMatch, ErrorSlot, Counted, Statuses
  <1>6. Cardinality(Pending) \in Nat
    BY ConnsCount DEF Pending
  <1>7. replies'[200] + ErrorReplies' = replies[200] + ErrorReplies + 1
    BY <1>1, <1>2 DEF ErrorReplies, Statuses
  <1>8. replies[200] + ErrorReplies \in Nat
    BY <1>1 DEF ErrorReplies, Statuses
  <1>9. OneReplyEach'
    BY <1>1, <1>2, <1>6, <1>7, <1>8 DEF OneReplyEach
  <1>10. QED
    BY <1>4, <1>5, <1>9

(* What Answer and EndStream have in common: the job of c is taken from    *)
(* the pending ones and answered once, with this status.                   *)
Replied(c, status) ==
    /\ job[c] # "none" /\ job' = [job EXCEPT ![c] = "none"]
    /\ replies' = [replies EXCEPT ![status] = @ + 1]
    /\ err' = IF status = 200 THEN err ELSE [err EXCEPT ![status] = @ + 1]
    /\ inferences_total' = inferences_total + 1
    /\ req_stream' \in {req_stream, req_stream + 1}
    /\ UNCHANGED <<requests, served, refused, dropped>>

(* An answered job is counted where the client sees its reply.             *)
LEMMA AnswerMatches ==
  ASSUME TypeOK, ErrorsMatch, RequestsMatch, OneReplyEach,
         NEW c \in Conns, NEW status \in {200, 400, 500}, Replied(c, status)
  PROVE  /\ err' \in [Counted -> Nat] /\ replies' \in [Statuses -> Nat]
         /\ job' \in [Conns -> {"none", "running", "done"}]
         /\ ErrorsMatch' /\ RequestsMatch' /\ OneReplyEach'
  <1>1. /\ err \in [Counted -> Nat] /\ replies \in [Statuses -> Nat]
        /\ job \in [Conns -> {"none", "running", "done"}]
        /\ inferences_total \in Nat /\ req_stream \in Nat /\ refused \in Nat /\ dropped \in Nat
    BY DEF TypeOK
  <1>2. /\ err' \in [Counted -> Nat] /\ replies' \in [Statuses -> Nat]
        /\ job' \in [Conns -> {"none", "running", "done"}]
    BY <1>1 DEF Replied, Counted, Statuses
  <1>3. ErrorsMatch'
    BY <1>1 DEF Replied, ErrorsMatch, Counted, Statuses
  <1>4. Pending \in SUBSET Conns /\ c \in Pending /\ Pending' = Pending \ {c}
    BY <1>1 DEF Replied, Pending
  <1>5. Cardinality(Pending') = Cardinality(Pending) - 1 /\ Cardinality(Pending) \in Nat
    BY <1>4, ConnsCount
  <1>6. RequestsMatch'
    BY <1>1, <1>5 DEF Replied, RequestsMatch
  <1>7. replies'[200] + ErrorReplies' = replies[200] + ErrorReplies + 1
    BY <1>1 DEF Replied, ErrorReplies, Statuses
  <1>8. replies[200] + ErrorReplies \in Nat
    BY <1>1 DEF ErrorReplies, Statuses
  <1>9. OneReplyEach'
    BY <1>1, <1>5, <1>7, <1>8 DEF Replied, OneReplyEach
  <1>10. QED
    BY <1>2, <1>3, <1>6, <1>9

(* The counts that the arithmetic of the counters is about are natural     *)
(* numbers.                                                                *)
LEMMA RepliesNat ==
  ASSUME TypeOK
  PROVE  /\ replies[200] \in Nat /\ ErrorReplies \in Nat
         /\ Cardinality(Pending) \in Nat /\ Cardinality(Live) \in Nat /\ Cardinality(Open) \in Nat
         /\ Cardinality(Open) <= Cardinality(Live) /\ Cardinality(Live) <= Cardinality(Conns)
  <1>1. replies \in [Statuses -> Nat]
    BY DEF TypeOK
  <1>2. replies[200] \in Nat /\ ErrorReplies \in Nat
    BY <1>1 DEF Statuses, ErrorReplies
  <1>3. Live \in SUBSET Conns /\ Open \in SUBSET Live /\ Pending \in SUBSET Conns
    BY DEF Live, Open, Pending
  <1>4. Cardinality(Open) <= Cardinality(Live)
    BY <1>3, ConnsCount, FS_Subset
  <1>5. QED
    BY <1>2, <1>3, <1>4, ConnsCount, FS_CardinalityType, BoundAssumption

(* The checks of ev_handler refuse with a status of an error.              *)
LEMMA RefusalStatus ==
  ASSUME NEW r \in Requests
  PROVE  Refusal(r) \in {0, 400, 401, 404, 405}
  BY DEF Refusal

-----------------------------------------------------------------------------
(* Every handler call preserves the invariant.                             *)
LEMMA NextIInv == IInv /\ [Next]_vars => IInv'
  <1> SUFFICES ASSUME IInv, [Next]_vars PROVE IInv'
    OBVIOUS
  <1>0. TypeOK /\ CountExact /\ OneReplyEach /\ ErrorsMatch /\ RequestsMatch
    BY StatsParts DEF IInv
  <1>a. ASSUME TypeOK', CountExact', OneReplyEach', ErrorsMatch', RequestsMatch'
        PROVE  IInv'
    BY <1>a, StatsPartsNext DEF IInv
  <1>b. /\ replies[200] \in Nat /\ ErrorReplies \in Nat
        /\ Cardinality(Pending) \in Nat /\ Cardinality(Live) \in Nat
        /\ Cardinality(Open) \in Nat /\ Cardinality(Open) <= Cardinality(Live)
        /\ Cardinality(Live) <= Cardinality(Conns) /\ Cardinality(Conns) \in Nat
    BY <1>0, RepliesNat, BoundAssumption, FS_CardinalityType
  <1>1. ASSUME NEW c \in Conns, AclRejects(c)
        PROVE  IInv'
    <2>1. TypeOK'
      BY <1>0, <1>1 DEF AclRejects, TypeOK, conf, work, stats, info, hist
    <2>2. CountExact'
      <3>1. c \in Conns \ Live /\ Live' = Live \union {c} /\ allow_ips' /\ Live \in SUBSET Conns
        BY <1>0, <1>1 DEF AclRejects, TypeOK, Live, conf
      <3>2. Cardinality(Live') = Cardinality(Live) + 1
        BY <3>1, ConnsCount
      <3>3. QED
        BY <1>0, <1>1, <1>b, <3>1, <3>2 DEF AclRejects, CountExact, TypeOK
    <2>3. OneReplyEach' /\ ErrorsMatch' /\ RequestsMatch'
      <3>1. Pending' = Pending
        BY <1>1 DEF AclRejects, work, Pending
      <3>2. QED
        BY <1>0, <1>1, <3>1, SameAccounts DEF AclRejects
    <2>4. QED
      BY <1>a, <2>1, <2>2, <2>3
  <1>2. ASSUME NEW c \in Conns, Accept(c)
        PROVE  IInv'
    <2>1. c \in Conns \ Live /\ Live' = Live \union {c} /\ Live \in SUBSET Conns
          /\ Live' \in SUBSET Conns
      BY <1>0, <1>2 DEF Accept, TypeOK, Live, conf
    <2>2. Cardinality(Live') = Cardinality(Live) + 1
      BY <2>1, ConnsCount
    <2>3. Cardinality(Live') <= Cardinality(Conns)
      BY <2>1, ConnsCount
    <2>4. active_connections' = active_connections + 1 /\ active_connections \in Nat
      BY <1>0, <1>2, <1>b DEF Accept, TypeOK
    <2>5. TypeOK'
      <3>1. active_connections' \in 0..Cardinality(Conns)
        BY <1>0, <1>b, <2>2, <2>3, <2>4 DEF CountExact
      <3>2. sock' \in [Conns -> {"none", "open", "closing", "closed"}]
            /\ connections_rejected' \in Nat
        BY <1>0, <1>2 DEF Accept, TypeOK
      <3>3. QED
        BY <1>0, <1>2, <3>1, <3>2 DEF Accept, TypeOK, conf, work, stats, info, hist
    <2>6. CountExact'
      <3>1. CASE active_connections' > MaxConnections
        <4>1. Open' = Open
          BY <1>0, <1>2, <3>1 DEF Accept, OverLimit, Open, TypeOK
        <4>2. QED
          BY <1>0, <1>2, <1>b, <2>2, <2>4, <4>1 DEF Accept, CountExact, conf
      <3>2. CASE ~(active_connections' > MaxConnections)
        <4>1. Open' \in SUBSET Live' /\ Open' \in SUBSET Conns
          BY DEF Open, Live
        <4>2. Cardinality(Open') <= Cardinality(Live') /\ Cardinality(Open') \in Nat
          BY <2>1, <4>1, ConnsCount, FS_Subset
        <4>3. QED
          BY <1>0, <1>2, <1>b, <2>2, <2>4, <3>2, <4>2, LimitAssumption DEF Accept, CountExact, conf
      <3>3. QED
        BY <3>1, <3>2
    <2>7. OneReplyEach' /\ ErrorsMatch' /\ RequestsMatch'
      <3>1. Pending' = Pending
        BY <1>2 DEF Accept, work, Pending
      <3>2. QED
        BY <1>0, <1>2, <3>1, SameAccounts DEF Accept
    <2>8. QED
      BY <1>a, <2>5, <2>6, <2>7
  <1>3. ASSUME NEW c \in Conns, Close(c)
        PROVE  IInv'
    <2>1. c \in Live /\ Live' = Live \ {c} /\ Live \in SUBSET Conns
      BY <1>0, <1>3 DEF Close, TypeOK, Live
    <2>2. Cardinality(Live') = Cardinality(Live) - 1 /\ Cardinality(Live) > 0
      BY <2>1, ConnsCount
    <2>3. Open' = Open \ {c} /\ Open \in SUBSET Conns
      BY <1>0, <1>3 DEF Close, TypeOK, Open
    <2>4. Cardinality(Open') \in Nat /\ Cardinality(Open') <= Cardinality(Open)
      BY <2>3, ConnsCount, FS_Subset
    <2>5. /\ active_connections \in Nat
          /\ active_connections' = IF active_connections > 0 THEN active_connections - 1 ELSE 0
      BY <1>0, <1>3 DEF Close, Uncount, TypeOK
    <2>6. TypeOK'
      <3>1. active_connections' \in 0..Cardinality(Conns)
        BY <1>0, <1>b, <2>5 DEF TypeOK
      <3>2. /\ sock' \in [Conns -> {"none", "open", "closing", "closed"}]
            /\ job' \in [Conns -> {"none", "running", "done"}] /\ stream' \in [Conns -> BOOLEAN]
            /\ dropped' \in Nat
        BY <1>0, <1>3 DEF Close, TypeOK
      <3>3. QED
        BY <1>0, <1>3, <3>1, <3>2 DEF Close, TypeOK, conf, stats, info
    <2>7. CountExact'
      BY <1>0, <1>3, <1>b, <2>2, <2>4, <2>5, LimitAssumption DEF Close, CountExact, conf
    <2>8. Cardinality(Pending') + dropped' = Cardinality(Pending) + dropped
      <3>1. Pending \in SUBSET Conns /\ Pending' = Pending \ {c}
            /\ (c \in Pending <=> job[c] # "none")
        BY <1>0, <1>3 DEF Close, TypeOK, Pending
      <3>2. CASE c \in Pending
        <4>1. Cardinality(Pending') = Cardinality(Pending) - 1
          BY <3>1, <3>2, ConnsCount
        <4>2. QED
          BY <1>0, <1>3, <1>b, <3>1, <3>2, <4>1 DEF Close, TypeOK
      <3>3. CASE c \notin Pending
        <4>1. Pending' = Pending
          BY <3>1, <3>3
        <4>2. QED
          BY <1>3, <3>1, <3>3, <4>1 DEF Close
      <3>4. QED
        BY <3>2, <3>3
    <2>9. Cardinality(Pending') \in Nat
      BY ConnsCount DEF Pending
    <2>10. UNCHANGED <<err, requests, req_stream, inferences_total, served, replies, refused>>
      BY <1>3 DEF Close, stats
    <2>11. dropped' \in Nat
      BY <2>6 DEF TypeOK
    <2>12. OneReplyEach'
      BY <1>0, <1>b, <2>8, <2>9, <2>10, <2>11 DEF OneReplyEach, ErrorReplies, TypeOK
    <2>13. ErrorsMatch' /\ RequestsMatch'
      BY <1>0, <1>b, <2>8, <2>9, <2>10, <2>11 DEF ErrorsMatch, RequestsMatch, TypeOK
    <2>14. QED
      BY <1>a, <2>6, <2>7, <2>12, <2>13
  <1>4. ASSUME NEW c \in Conns, Answer(c)
        PROVE  IInv'
    <2>1. PICK status \in {200, 400, 500} :
             /\ replies' = [replies EXCEPT ![status] = @ + 1]
             /\ err' = IF status = 200 THEN err ELSE [err EXCEPT ![status] = @ + 1]
      BY <1>4 DEF Answer
    <2>2. /\ err' \in [Counted -> Nat] /\ replies' \in [Statuses -> Nat]
          /\ job' \in [Conns -> {"none", "running", "done"}]
          /\ ErrorsMatch' /\ RequestsMatch' /\ OneReplyEach'
      <3>1. Replied(c, status)
        BY <1>4, <2>1 DEF Answer, Replied
      <3>2. QED
        BY <1>0, <3>1, AnswerMatches
    <2>3. TypeOK'
      BY <1>0, <1>4, <2>2 DEF Answer, TypeOK, conf, conns, info
    <2>4. CountExact'
      BY <1>0, <1>4, SameConns DEF Answer, conf, conns
    <2>5. QED
      BY <1>a, <2>2, <2>3, <2>4
  <1>5. ASSUME NEW c \in Conns, EndStream(c)
        PROVE  IInv'
    <2>1. /\ err' \in [Counted -> Nat] /\ replies' \in [Statuses -> Nat]
          /\ job' \in [Conns -> {"none", "running", "done"}]
          /\ ErrorsMatch' /\ RequestsMatch' /\ OneReplyEach'
      <3>1. Replied(c, 200)
        BY <1>5 DEF EndStream, Replied
      <3>2. QED
        BY <1>0, <3>1, AnswerMatches
    <2>2. TypeOK'
      <3>1. sock' \in [Conns -> {"none", "open", "closing", "closed"}]
            /\ stream' \in [Conns -> BOOLEAN]
        BY <1>0, <1>5 DEF EndStream, TypeOK
      <3>2. QED
        BY <1>0, <1>5, <2>1, <3>1 DEF EndStream, TypeOK, conf, info
    <2>3. CountExact'
      <3>1. Live' = Live /\ Open' = Open \ {c} /\ Open \in SUBSET Conns
        BY <1>0, <1>5 DEF EndStream, TypeOK, Live, Open
      <3>2. Cardinality(Open') <= Cardinality(Open) /\ Cardinality(Open') \in Nat
        BY <3>1, ConnsCount, FS_Subset
      <3>3. QED
        BY <1>0, <1>5, <1>b, <3>1, <3>2, LimitAssumption DEF EndStream, CountExact, conf
    <2>4. QED
      BY <1>a, <2>1, <2>2, <2>3
  <1>6. ASSUME NEW c \in Conns, NEW r \in Requests, Refuse(c, r)
        PROVE  IInv'
    <2>1. Refusal(r) \in Statuses
      BY <1>6, RefusalStatus DEF Refuse, Statuses
    <2>2. Pending' = Pending
      BY <1>6 DEF Refuse, work, Pending
    <2>3. /\ err' \in [Counted -> Nat] /\ replies' \in [Statuses -> Nat]
          /\ served' \in 0..MaxRequests /\ ErrorsMatch' /\ OneReplyEach'
      BY <1>0, <1>6, <2>1, <2>2, ReplyMatches DEF Refuse, Ready
    <2>4. TypeOK' /\ RequestsMatch'
      BY <1>0, <1>6, <2>2, <2>3 DEF Refuse, TypeOK, RequestsMatch, conf, conns, work, info
    <2>5. CountExact'
      BY <1>0, <1>6, SameConns DEF Refuse, conf, conns
    <2>6. QED
      BY <1>a, <2>3, <2>4, <2>5
  <1>7. ASSUME NEW c \in Conns, NEW r \in Requests, Inform(c, r)
        PROVE  IInv'
    <2>1. PICK status \in {200, 500} : Reply(status)
      BY <1>7 DEF Inform
    <2>2. Pending' = Pending
      BY <1>7 DEF Inform, work, Pending
    <2>3. /\ err' \in [Counted -> Nat] /\ replies' \in [Statuses -> Nat]
          /\ served' \in 0..MaxRequests /\ ErrorsMatch' /\ OneReplyEach'
      <3>1. status \in Statuses
        BY <2>1 DEF Statuses
      <3>2. QED
        BY <1>0, <1>7, <2>1, <2>2, <3>1, ReplyMatches DEF Inform, Ready
    <2>4. TypeOK' /\ RequestsMatch'
      BY <1>0, <1>7, <2>2, <2>3 DEF Inform, TypeOK, RequestsMatch, conf, conns, work
    <2>5. CountExact'
      BY <1>0, <1>7, SameConns DEF Inform, conf, conns
    <2>6. QED
      BY <1>a, <2>3, <2>4, <2>5
  <1>8. ASSUME NEW c \in Conns, NEW r \in Requests, Admission(c, r)
        PROVE  IInv'
    <2>1. PICK status \in {503, 500} : Reply(status)
      BY <1>8 DEF Admission
    <2>2. Pending' = Pending
      BY <1>8 DEF Admission, work, Pending
    <2>3. /\ err' \in [Counted -> Nat] /\ replies' \in [Statuses -> Nat]
          /\ served' \in 0..MaxRequests /\ ErrorsMatch' /\ OneReplyEach'
      <3>1. status \in Statuses
        BY <2>1 DEF Statuses
      <3>2. QED
        BY <1>0, <1>8, <2>1, <2>2, <3>1, ReplyMatches DEF Admission, Ready
    <2>4. TypeOK' /\ RequestsMatch'
      BY <1>0, <1>8, <2>2, <2>3 DEF Admission, TypeOK, RequestsMatch, conf, conns, work, info
    <2>5. CountExact'
      BY <1>0, <1>8, SameConns DEF Admission, conf, conns
    <2>6. QED
      BY <1>a, <2>3, <2>4, <2>5
  <1>9. ASSUME NEW c \in Conns, NEW r \in Requests, BadBody(c, r)
        PROVE  IInv'
    <2>1. 400 \in Statuses
      BY DEF Statuses
    <2>2. Pending' = Pending
      BY <1>9 DEF BadBody, work, Pending
    <2>3. /\ err' \in [Counted -> Nat] /\ replies' \in [Statuses -> Nat]
          /\ served' \in 0..MaxRequests /\ ErrorsMatch' /\ OneReplyEach'
      BY <1>0, <1>9, <2>1, <2>2, ReplyMatches DEF BadBody, Ready
    <2>4. TypeOK' /\ RequestsMatch'
      BY <1>0, <1>9, <1>b, <2>2, <2>3 DEF BadBody, TypeOK, RequestsMatch, conf, conns, work, info
    <2>5. CountExact'
      BY <1>0, <1>9, SameConns DEF BadBody, conf, conns
    <2>6. QED
      BY <1>a, <2>3, <2>4, <2>5
  <1>10. ASSUME NEW c \in Conns, NEW r \in Requests, Submit(c, r)
         PROVE  IInv'
    <2>1. PICK s \in BOOLEAN : stream' = [stream EXCEPT ![c] = s]
      BY <1>10 DEF Submit
    <2>2. TypeOK'
      BY <1>0, <1>10, <2>1, BoundAssumption DEF Submit, Ready, TypeOK, conf, conns, info
    <2>3. c \in Conns \ Pending /\ Pending \in SUBSET Conns /\ Pending' = Pending \union {c}
      BY <1>0, <1>10 DEF Submit, Ready, TypeOK, Pending
    <2>4. Cardinality(Pending') = Cardinality(Pending) + 1
      BY <2>3, ConnsCount
    <2>5. OneReplyEach' /\ ErrorsMatch' /\ RequestsMatch'
      <3>1. /\ requests' = requests + 1 /\ served' = served + 1
            /\ UNCHANGED <<err, replies, refused, dropped, inferences_total, req_stream>>
        BY <1>10 DEF Submit
      <3>2. OneReplyEach'
        BY <1>0, <1>b, <2>4, <3>1 DEF TypeOK, OneReplyEach, ErrorReplies
      <3>3. ErrorsMatch'
        BY <1>0, <3>1 DEF ErrorsMatch
      <3>4. RequestsMatch'
        BY <1>0, <1>b, <2>4, <3>1 DEF TypeOK, RequestsMatch
      <3>5. QED
        BY <3>2, <3>3, <3>4
    <2>6. CountExact'
      BY <1>0, <1>10, SameConns DEF Submit, conf, conns
    <2>7. QED
      BY <1>a, <2>2, <2>5, <2>6
  <1>11. CASE WorkerDone
    <2>1. Pending' = Pending
      BY <1>0, <1>11 DEF WorkerDone, TypeOK, Pending
    <2>2. OneReplyEach' /\ ErrorsMatch' /\ RequestsMatch'
      BY <1>0, <1>11, <2>1, SameAccounts DEF WorkerDone
    <2>3. TypeOK'
      BY <1>0, <1>11 DEF WorkerDone, TypeOK, conf, conns, stats, info, hist
    <2>4. CountExact'
      BY <1>0, <1>11, SameConns DEF WorkerDone, conf, conns
    <2>5. QED
      BY <1>a, <2>2, <2>3, <2>4
  <1>12. CASE UNCHANGED vars
    <2>1. Pending' = Pending
      BY <1>12 DEF vars, work, Pending
    <2>2. OneReplyEach' /\ ErrorsMatch' /\ RequestsMatch'
      BY <1>0, <1>12, <2>1, SameAccounts DEF vars
    <2>3. TypeOK'
      BY <1>0, <1>12 DEF vars, TypeOK, conf, conns, work, stats, info, hist
    <2>4. CountExact'
      BY <1>0, <1>12, SameConns DEF vars, conf, conns
    <2>5. QED
      BY <1>a, <2>2, <2>3, <2>4
  <1>13. QED
    BY <1>1, <1>2, <1>3, <1>4, <1>5, <1>6, <1>7, <1>8, <1>9, <1>10, <1>11, <1>12 DEF Next

(* The invariant holds in every reachable state.                           *)
LEMMA IInvAlways == Spec => []IInv
  BY InitIInv, NextIInv, PTL DEF Spec

(* The counters of stats_t, the connections' states and the jobs keep      *)
(* their types; the connection count stays between 0 and the number of     *)
(* connections although MG_EV_CLOSE uncounts some that were never counted. *)
THEOREM TypeCorrect == Spec => []TypeOK
  BY IInvAlways, PTL DEF IInv

(* However accepts, rejections and closes follow each other, ev_handler    *)
(* never counts a connection that is gone, and without an ACL it counts    *)
(* exactly the live ones and serves at most MaxConnections of them.        *)
THEOREM ConnectionsCounted == Spec => []CountExact
  BY IInvAlways, PTL DEF IInv

(* Every request gets exactly one status unless its client leaves, through *)
(* every check, endpoint and outcome of a job.                             *)
THEOREM AnsweredOnce == Spec => []OneReplyEach
  BY IInvAlways, PTL DEF IInv

(* The counters stats_report prints agree with the replies clients got.    *)
THEOREM StatsAgree == Spec => []StatsExact
  BY IInvAlways, PTL DEF IInv
=============================================================================
