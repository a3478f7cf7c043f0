-------------------------- MODULE TokenRing_proof --------------------------
(***************************************************************************)
(* Theorems about TokenRing for every ring size, batch size and number of  *)
(* tokens.                                                                 *)
(***************************************************************************)
EXTENDS TokenRing, SequenceTheorems, TLAPS

(* Position of slot p in the queue: 0 for the slot at tail.                *)
Rank(p) == IF p >= tail THEN p - tail ELSE p - tail + RingSize

(* The generation never exceeds its budget.                                *)
Budget ==
    /\ written <= MaxTokens
    /\ wpc \in {"probe", "write", "wait"} => written < MaxTokens

(* The occupied slots hold the tokens that follow the ones already sent.   *)
RingHolds ==
    \A p \in Slots : Rank(p) < Count => text[p] = Stored(Len(sent) + 1 + Rank(p))

(* Tokens no wakeup announces are counted by tokens_since_wake, unless a   *)
(* wakeup was refused.                                                     *)
Unannounced ==
    /\ mgr <=> mpc # "gone"
    /\ mpc # "gone" => sinceWake < WakeBatch
    /\ wakeups = 0 /\ ~missed /\ mpc \in {"poll", "check", "load"} =>
         Count <= sinceWake + (IF wpc = "wake" THEN 1 ELSE 0)

(* How far the worker is when the event loop can see the job as finished.  *)
Phases ==
    /\ done <=> wpc \in {"state", "final", "exit"}
    /\ doneSeen => done
    /\ state # "RUNNING" => done
    /\ mpc = "finalized" => done
    /\ mpc \in {"closing", "gone"} => cancel

(* What drain_stream_ring knows when it ends the response.                 *)
Ending ==
    /\ doneSeen => Count = 0
    /\ state = "ERROR" => written = 0
    /\ mpc = "finalized" => doneSeen \/ state # "RUNNING"
    /\ mpc = "finalized" /\ wakeups = 0 /\ ~missed => Count <= sinceWake

(* A response is cut short in one way only: ring.done was not set, or the  *)
(* ring not empty, when the loop looked (server.c:477), and the state it   *)
(* loads afterwards is already DONE.  With no wakeup pending or refused    *)
(* less than a batch is lost.                                              *)
CutOnlyLate ==
    mpc = "finalized" /\ Len(sent) # written =>
      /\ ~doneSeen /\ state = "DONE"
      /\ wakeups = 0 /\ ~missed => written - Len(sent) < WakeBatch

(* Worker steps left after a disconnect or a signal.                       *)
StepsLeft ==
    CASE wpc \in {"wait", "probe", "wake"} -> 5
      [] wpc \in {"write", "gen"} -> 4
      [] wpc = "ringdone" -> 3
      [] wpc = "state" -> 2
      [] wpc = "final" -> 1
      [] wpc = "exit" -> 0

(* Then every worker step brings the end nearer and nothing puts it off.   *)
WindsUp ==
    cancel \/ shutdown =>
      IF Worker THEN StepsLeft' < StepsLeft ELSE StepsLeft' <= StepsLeft

IInv == TypeOK /\ Budget /\ InOrder /\ RingHolds /\ Unannounced /\ Phases

(* The assumptions every proof below starts from.                          *)
Sizes ==
    /\ RingSize \in Nat /\ RingSize >= 2
    /\ WakeBatch \in Nat /\ WakeBatch >= 1 /\ WakeBatch < RingSize
    /\ DrainBatch \in Nat /\ DrainBatch >= 1
    /\ MaxTokens \in Nat /\ TextMax \in Nat /\ TextMax >= 1
    /\ PieceLen \in [1..MaxTokens -> Nat]

(* The sizes of the ring are as its module assumes.                        *)
LEMMA SizesHold == Sizes
  BY RingSizeAssumption, WakeBatchAssumption, DrainBatchAssumption, TextAssumption,
     MaxTokensAssumption DEF Sizes

(* Advance is addition around the ring.                                    *)
LEMMA AdvanceWraps ==
  ASSUME NEW p \in Slots, NEW n \in 0..(RingSize - 1)
  PROVE  /\ Advance(p, n) = IF p + n < RingSize THEN p + n ELSE p + n - RingSize
         /\ Advance(p, n) \in Slots
  <1>1. RingSize \in Nat \ {0}
    BY SizesHold DEF Sizes
  <1>2. (p + n) % RingSize = IF p + n < RingSize THEN p + n ELSE p + n - RingSize
    BY <1>1 DEF Slots
  <1>3. QED
    BY <1>1, <1>2 DEF Slots, Advance

(* A stored token fits a slot.                                             *)
LEMMA StoredFits ==
  ASSUME NEW i \in 1..MaxTokens
  PROVE  Stored(i) \in TokenText
  BY SizesHold DEF Sizes, Stored, TokenText

(* Writing to a ring that is not full makes it one token longer.           *)
LEMMA PutCounts ==
  ASSUME head \in Slots, tail \in Slots
  PROVE  /\ Count \in 0..(RingSize - 1)
         /\ ring_is_full <=> Count = RingSize - 1
         /\ ring_is_empty <=> Count = 0
  <1>1. Advance(head, 1) = IF head + 1 < RingSize THEN head + 1 ELSE head + 1 - RingSize
    BY SizesHold, AdvanceWraps DEF Sizes
  <1>2. QED
    BY SizesHold, <1>1 DEF Sizes, Slots, Count, ring_is_full, ring_is_empty

(* A wakeup is one more pending or a refused one.                          *)
LEMMA WakeupTypes ==
  ASSUME wakeups \in Nat, missed \in BOOLEAN,
         mg_wakeup \/ UNCHANGED <<wakeups, missed>>
  PROVE  wakeups' \in Nat /\ missed' \in BOOLEAN
  <1>1. wakeups' \in Nat
    BY SMT DEF mg_wakeup
  <1>2. missed' \in BOOLEAN
    BY Zenon DEF mg_wakeup
  <1>3. QED
    BY <1>1, <1>2

(* The invariant holds when the job is submitted.                          *)
LEMMA InitIInv == Init => IInv
  <1> SUFFICES ASSUME Init PROVE IInv
    OBVIOUS
  <1> USE SizesHold DEF Sizes, Init
  <1>1. TypeOK
    BY DEF TypeOK, Slots, NoToken, TokenText, Wpcs, Mpcs, Generating
  <1>2. Count = 0
    BY DEF Count
  <1>3. Budget /\ Unannounced /\ Phases
    BY <1>2 DEF Budget, Unannounced, Phases
  <1>4. InOrder
    BY <1>2 DEF InOrder
  <1>5. RingHolds
    BY <1>2 DEF RingHolds, Rank, Slots
  <1>6. QED
    BY <1>1, <1>3, <1>4, <1>5 DEF IInv

(* Steps that leave the ring's tokens and the client's stream alone.       *)
LEMMA SameTokens ==
  ASSUME IInv, UNCHANGED <<text, head, tail, sent, written>>
  PROVE  Count' = Count /\ InOrder' /\ RingHolds'
  <1>1. Count' = Count
    BY DEF Count
  <1>2. QED
    BY <1>1 DEF IInv, InOrder, RingHolds, Rank

(* ring_write puts the next token behind the ones in the ring.             *)
LEMMA PutStep ==
  ASSUME IInv, RingPut
  PROVE  /\ Count' = Count + 1
         /\ text' \in [Slots -> TokenText] /\ head' \in Slots
         /\ InOrder' /\ RingHolds'
  <1> USE SizesHold DEF Sizes
  <1>0. head \in Slots /\ tail \in Slots /\ written \in Nat /\ Len(sent) \in Nat
    BY DEF IInv, TypeOK
  <1>1. Count < RingSize - 1
    BY <1>0, PutCounts DEF RingPut, MustWait, Stopping
  <1>2. /\ head' = IF head + 1 < RingSize THEN head + 1 ELSE head + 1 - RingSize
        /\ head' \in Slots
    BY <1>0, AdvanceWraps DEF RingPut
  <1>3. Count' = Count + 1
    BY <1>0, <1>1, <1>2 DEF Count, Slots, RingPut
  <1>4. written + 1 \in 1..MaxTokens
    BY <1>0 DEF IInv, Budget, RingPut
  <1>5. text' \in [Slots -> TokenText]
    BY <1>0, <1>4, StoredFits DEF IInv, TypeOK, RingPut
  <1>6. Len(sent) + Count = written
    BY DEF IInv, InOrder
  <1>7. InOrder'
    BY <1>0, <1>3, <1>6, PutCounts DEF IInv, InOrder, RingPut, loop
  <1>8. ASSUME NEW p \in Slots, Rank(p)' < Count'
        PROVE  text'[p] = Stored(Len(sent) + 1 + Rank(p))
    <2>1. Rank(p)' = Rank(p)
      BY DEF Rank, RingPut
    <2>2. CASE p = head
      <3>1. Rank(p) = Count
        BY <1>0, <2>2 DEF Rank, Count, Slots
      <3>2. Len(sent) + 1 + Rank(p) = written + 1
        BY <1>0, <1>6, <3>1, PutCounts
      <3>3. QED
        BY <1>0, <2>2, <3>2 DEF IInv, TypeOK, RingPut
    <2>3. CASE p # head
      <3>1. Rank(p) < Count
        BY <1>0, <1>3, <1>8, <2>1, <2>3 DEF Rank, Count, Slots
      <3>2. text'[p] = text[p]
        BY <1>0, <2>3 DEF IInv, TypeOK, RingPut
      <3>3. QED
        BY <3>1, <3>2 DEF IInv, RingHolds
    <2>4. QED
      BY <2>2, <2>3
  <1>9. RingHolds'
    BY <1>8 DEF RingHolds, RingPut, loop, Rank
  <1>10. QED
    BY <1>2, <1>3, <1>5, <1>7, <1>9

(* One pass of the batch drain moves the oldest tokens to the client.      *)
LEMMA DrainStep ==
  ASSUME IInv, Drain
  PROVE  /\ tail' \in Slots /\ sent' \in Seq(TokenText)
         /\ mpc' = "check" => Count' = 0
         /\ InOrder' /\ RingHolds'
         /\ \E n \in 0..Count :
               sent' = sent \o [i \in 1..n |-> Stored(Len(sent) + i)]
  <1> USE SizesHold DEF Sizes
  <1>0. /\ head \in Slots /\ tail \in Slots /\ written \in Nat
        /\ sent \in Seq(TokenText) /\ Len(sent) \in Nat
        /\ text \in [Slots -> TokenText]
    BY DEF IInv, TypeOK
  <1> DEFINE n == IF Count < DrainBatch THEN Count ELSE DrainBatch
             taken == [i \in 1..n |-> text[Advance(tail, i - 1)]]
  <1>1. Count \in 0..(RingSize - 1)
    BY <1>0, PutCounts
  <1>2. n \in 0..(RingSize - 1) /\ n <= Count
    BY <1>1
  <1>3. /\ sent' = sent \o taken
        /\ tail' = Advance(tail, n)
        /\ head' = head /\ text' = text /\ written' = written
        /\ mpc' = IF n = DrainBatch THEN "drain" ELSE "check"
    BY DEF Drain
  <1> HIDE DEF n
  <1>4. /\ tail' = IF tail + n < RingSize THEN tail + n ELSE tail + n - RingSize
        /\ tail' \in Slots
    BY <1>0, <1>2, <1>3, AdvanceWraps
  <1>5. Count' = Count - n
    BY <1>0, <1>1, <1>2, <1>3, <1>4 DEF Count, Slots
  <1>6. ASSUME NEW i \in 1..n
        PROVE  /\ Advance(tail, i - 1) \in Slots
               /\ Rank(Advance(tail, i - 1)) = i - 1
    <2>1. i - 1 \in 0..(RingSize - 1)
      BY <1>2
    <2>2. /\ Advance(tail, i - 1) =
                 IF tail + (i - 1) < RingSize THEN tail + (i - 1)
                                              ELSE tail + (i - 1) - RingSize
          /\ Advance(tail, i - 1) \in Slots
      BY <1>0, <2>1, AdvanceWraps
    <2>3. QED
      BY <1>0, <2>1, <2>2 DEF Rank, Slots
  <1>7. ASSUME NEW i \in 1..n
        PROVE  taken[i] = Stored(Len(sent) + i)
    <2>1. Rank(Advance(tail, i - 1)) < Count
      BY <1>1, <1>2, <1>6
    <2>2. text[Advance(tail, i - 1)] = Stored(Len(sent) + 1 + Rank(Advance(tail, i - 1)))
      BY <1>6, <2>1 DEF IInv, RingHolds
    <2>3. Len(sent) + 1 + Rank(Advance(tail, i - 1)) = Len(sent) + i
      BY <1>0, <1>2, <1>6
    <2>4. QED
      BY <2>2, <2>3
  <1>8. taken \in Seq(TokenText) /\ Len(taken) = n
    BY <1>0, <1>2, <1>6
  <1>9. /\ sent' \in Seq(TokenText)
        /\ Len(sent') = Len(sent) + n
        /\ \A i \in 1..(Len(sent) + n) :
              sent'[i] = IF i <= Len(sent) THEN sent[i] ELSE taken[i - Len(sent)]
    BY <1>0, <1>3, <1>8, ConcatProperties
  <1>b. \E k \in 0..Count : sent' = sent \o [i \in 1..k |-> Stored(Len(sent) + i)]
    <2>1. taken = [i \in 1..n |-> Stored(Len(sent) + i)]
      BY <1>7
    <2>2. n \in 0..Count
      BY <1>1, <1>2
    <2>3. QED
      BY <1>3, <2>1, <2>2
  <1> HIDE DEF taken
  <1>10. InOrder'
    <2>0. Len(sent) + Count = written /\ \A i \in 1..Len(sent) : sent[i] = Stored(i)
      BY DEF IInv, InOrder
    <2>1. Len(sent') + Count' = written'
      <3>1. Len(sent') = Len(sent) + n /\ written' = written /\ Len(sent) + Count = written
        BY <1>3, <1>9, <2>0
      <3>2. n \in Int /\ Count \in Int /\ Len(sent) \in Int
        BY <1>0, <1>1, <1>2
      <3>3. QED
        BY <1>5, <3>1, <3>2
    <2>2. ASSUME NEW i \in 1..Len(sent')
          PROVE  sent'[i] = Stored(i)
      <3>1. CASE i <= Len(sent)
        <4>1. i \in 1..(Len(sent) + n) /\ i \in 1..Len(sent)
          BY <1>0, <1>2, <1>9, <3>1
        <4>2. QED
          BY <1>9, <2>0, <3>1, <4>1
      <3>2. CASE i > Len(sent)
        <4>1. /\ i \in 1..(Len(sent) + n) /\ ~(i <= Len(sent))
              /\ i - Len(sent) \in 1..n /\ Len(sent) + (i - Len(sent)) = i
          BY <1>0, <1>2, <1>9, <3>2
        <4>2. sent'[i] = taken[i - Len(sent)]
          BY <1>9, <4>1
        <4>3. QED
          BY <1>7, <4>1, <4>2
      <3>3. QED
        BY <1>0, <1>2, <1>9, <3>1, <3>2
    <2>3. QED
      BY <2>1, <2>2 DEF InOrder
  <1>11. RingHolds'
    <2>1. ASSUME NEW p \in Slots, Rank(p)' < Count'
          PROVE  text'[p] = Stored(Len(sent') + 1 + Rank(p)')
      <3>1. Rank(p) = Rank(p)' + n
        BY <1>0, <1>1, <1>2, <1>4, <1>5, <2>1 DEF Rank, Slots
      <3>2. Rank(p) < Count /\ Rank(p)' \in Int
        BY <1>0, <1>1, <1>2, <1>4, <1>5, <2>1, <3>1 DEF Rank, Slots
      <3>3. text[p] = Stored(Len(sent) + 1 + Rank(p))
        BY <3>2 DEF IInv, RingHolds
      <3>4. Len(sent) + 1 + Rank(p) = Len(sent') + 1 + Rank(p)'
        BY <1>0, <1>2, <1>9, <3>1, <3>2
      <3>5. QED
        BY <1>3, <3>3, <3>4
    <2>2. QED
      BY <2>1 DEF RingHolds
  <1>12. mpc' = "check" => Count' = 0
    BY <1>1, <1>2, <1>3, <1>5 DEF n
  <1>13. QED
    BY <1>4, <1>9, <1>10, <1>11, <1>12, <1>b

(* Every step of either thread preserves the invariant.                    *)
LEMMA NextIInv == IInv /\ [Next]_vars => IInv'
  <1> SUFFICES ASSUME IInv, [Next]_vars PROVE IInv'
    OBVIOUS
  <1> USE SizesHold DEF Sizes
  <1>0. TypeOK /\ Budget /\ Unannounced /\ Phases /\ Count \in 0..(RingSize - 1)
    BY PutCounts DEF IInv, TypeOK
  <1>a. ASSUME UNCHANGED <<text, head, tail, sent, written>>,
               TypeOK', Budget', Unannounced', Phases'
        PROVE  IInv'
    BY <1>a, SameTokens DEF IInv
  <1>1. CASE GenToken
    <2>1. Count' = Count
      BY <1>1, SameTokens DEF GenToken, ring, loop
    <2>2. QED
      BY <1>0, <1>1, <1>a, <2>1 DEF GenToken, ring, job, loop, TypeOK, Wpcs, Generating,
         Budget, Unannounced, Phases
  <1>2. CASE GenStop
    <2>1. Count' = Count
      BY <1>2, SameTokens DEF GenStop, ring, loop
    <2>2. QED
      BY <1>0, <1>2, <1>a, <2>1 DEF GenStop, ring, job, loop, TypeOK, Wpcs, Generating,
         Budget, Unannounced, Phases
  <1>3. CASE Probe
    <2>1. Count' = Count
      BY <1>3, SameTokens DEF Probe, ring, loop
    <2>2. QED
      BY <1>0, <1>3, <1>a, <2>1 DEF Probe, ring_is_empty, ring, job, loop, TypeOK, Wpcs,
         Generating, Budget, Unannounced, Phases
  <1>4. CASE RingBlock
    <2>1. Count' = Count
      BY <1>4, SameTokens DEF RingBlock, ring, loop
    <2>2. QED
      BY <1>0, <1>4, <1>a, <2>1 DEF RingBlock, ring, job, loop, TypeOK, Wpcs, Generating,
         Budget, Unannounced, Phases
  <1>5. CASE WaitTimeout
    <2>1. Count' = Count
      BY <1>5, SameTokens DEF WaitTimeout, ring, loop
    <2>2. QED
      BY <1>0, <1>5, <1>a, <2>1 DEF WaitTimeout, ring, job, loop, TypeOK, Wpcs, Generating,
         Budget, Unannounced, Phases
  <1>6. CASE RingRefuse
    <2>1. Count' = Count
      BY <1>6, SameTokens DEF RingRefuse, ring, loop
    <2>2. QED
      BY <1>0, <1>6, <1>a, <2>1 DEF RingRefuse, ring, job, loop, TypeOK, Wpcs, Generating,
         Budget, Unannounced, Phases
  <1>7. CASE RingPut
    <2>1. /\ Count' = Count + 1
          /\ text' \in [Slots -> TokenText] /\ head' \in Slots
          /\ InOrder' /\ RingHolds'
      BY <1>7, PutStep
    <2>2. TypeOK'
      BY <1>0, <1>7, <2>1 DEF RingPut, job, loop, TypeOK, Wpcs, Generating
    <2>3. Budget' /\ Phases'
      BY <1>0, <1>7 DEF RingPut, job, loop, Budget, Phases, TypeOK
    <2>4. Unannounced'
      BY <1>0, <1>7, <2>1 DEF RingPut, job, loop, Unannounced, TypeOK
    <2>5. QED
      BY <2>1, <2>2, <2>3, <2>4 DEF IInv
  <1>8. CASE Wake
    <2>1. Count' = Count
      BY <1>8, SameTokens DEF Wake, mg_wakeup, ring
    <2>5. wakeups' \in Nat /\ missed' \in BOOLEAN
      <3>1. missed \in BOOLEAN /\ wakeups \in Nat
        BY <1>0 DEF TypeOK
      <3>2. mg_wakeup \/ UNCHANGED <<wakeups, missed>>
        BY <1>8 DEF Wake
      <3>3. QED
        BY <3>1, <3>2, WakeupTypes
    <2>2. TypeOK' /\ Budget' /\ Phases'
      BY <1>0, <1>8, <2>5 DEF Wake, ring, job, TypeOK, Wpcs, Generating, Budget, Phases
    <2>3. Unannounced'
      BY <1>0, <1>8, <2>1 DEF Wake, mg_wakeup, WakeDue, ring, job, Unannounced, TypeOK
    <2>4. QED
      BY <1>8, <1>a, <2>2, <2>3 DEF Wake, mg_wakeup, ring
  <1>9. CASE RingDone
    <2>1. Count' = Count
      BY <1>9, SameTokens DEF RingDone, loop
    <2>2. QED
      BY <1>0, <1>9, <1>a, <2>1 DEF RingDone, job, loop, TypeOK, Wpcs, Generating,
         Budget, Unannounced, Phases
  <1>10. CASE SetState
    <2>1. Count' = Count
      BY <1>10, SameTokens DEF SetState, ring, loop
    <2>2. state' \in {"DONE", "ERROR"}
      BY <1>10 DEF SetState
    <2>3. TypeOK' /\ Budget' /\ Unannounced'
      BY <1>0, <1>10, <2>1, <2>2 DEF SetState, ring, loop, TypeOK, Wpcs, Generating,
         Budget, Unannounced
    <2>4. QED
      BY <1>0, <1>10, <1>a, <2>3 DEF SetState, ring, loop, Phases
  <1>11. CASE FinalWake
    <2>1. Count' = Count
      BY <1>11, SameTokens DEF FinalWake, mg_wakeup, ring
    <2>2. wakeups' \in Nat /\ missed' \in BOOLEAN
      <3>1. missed \in BOOLEAN /\ wakeups \in Nat
        BY <1>0 DEF TypeOK
      <3>2. mg_wakeup \/ UNCHANGED <<wakeups, missed>>
        BY <1>11 DEF FinalWake
      <3>3. QED
        BY <3>1, <3>2, WakeupTypes
    <2>3. TypeOK' /\ Budget' /\ Phases'
      BY <1>0, <1>11, <2>2 DEF FinalWake, ring, job, TypeOK, Wpcs, Generating, Budget, Phases
    <2>4. Unannounced'
      BY <1>0, <1>11, <2>1 DEF FinalWake, mg_wakeup, ring, job, Unannounced, TypeOK
    <2>5. QED
      BY <1>11, <1>a, <2>3, <2>4 DEF FinalWake, ring
  <1>12. CASE OnWakeup
    <2>1. Count' = Count
      BY <1>12, SameTokens DEF OnWakeup, ring, worker
    <2>2. QED
      BY <1>0, <1>12, <1>a, <2>1 DEF OnWakeup, ring, job, worker, TypeOK, Mpcs,
         Budget, Unannounced, Phases
  <1>13. CASE Drain
    <2>1. /\ tail' \in Slots /\ sent' \in Seq(TokenText)
          /\ mpc' = "check" => Count' = 0
          /\ InOrder' /\ RingHolds'
      BY <1>13, DrainStep
    <2>2. /\ mpc = "drain" /\ mpc' \in {"drain", "check"}
          /\ wpc' = wpc \/ (wpc = "wait" /\ wpc' = "write")
      BY <1>13 DEF Drain
    <2>3. UNCHANGED <<text, head, done, job, shutdown, wasEmpty, sinceWake, written,
                      doneSeen, wakeups, missed>>
      BY <1>13 DEF Drain
    <2>4. TypeOK'
      BY <1>0, <2>1, <2>2, <2>3 DEF job, TypeOK, Mpcs, Wpcs, Generating
    <2>5. Budget' /\ Phases'
      BY <1>0, <2>2, <2>3 DEF job, Budget, Phases
    <2>6. Unannounced'
      BY <1>0, <2>1, <2>2, <2>3 DEF job, Unannounced, TypeOK
    <2>7. QED
      BY <2>1, <2>4, <2>5, <2>6 DEF IInv
  <1>14. CASE CheckDone
    <2>1. Count' = Count
      BY <1>14, SameTokens DEF CheckDone, ring, worker
    <2>2. QED
      BY <1>0, <1>14, <1>a, <2>1 DEF CheckDone, ring, job, worker, TypeOK, Mpcs,
         Budget, Unannounced, Phases
  <1>15. CASE LoadState
    <2>1. Count' = Count
      BY <1>15, SameTokens DEF LoadState, ring, worker
    <2>2. QED
      BY <1>0, <1>15, <1>a, <2>1 DEF LoadState, ring, job, worker, TypeOK, Mpcs,
         Budget, Unannounced, Phases
  <1>16. CASE Close
    <2>1. Count' = Count
      BY <1>16, SameTokens DEF Close, ring, worker
    <2>2. QED
      BY <1>0, <1>16, <1>a, <2>1 DEF Close, ring, worker, TypeOK, Mpcs,
         Budget, Unannounced, Phases
  <1>17. CASE CloseClearMgr
    <2>1. Count' = Count
      BY <1>17, SameTokens DEF CloseClearMgr, ring, worker
    <2>2. QED
      BY <1>0, <1>17, <1>a, <2>1 DEF CloseClearMgr, ring, worker, TypeOK, Mpcs,
         Budget, Unannounced, Phases
  <1>18. CASE Signal
    <2>1. Count' = Count
      BY <1>18, SameTokens DEF Signal, ring, worker, loop
    <2>2. QED
      BY <1>0, <1>18, <1>a, <2>1 DEF Signal, ring, job, worker, loop, TypeOK,
         Budget, Unannounced, Phases
  <1>19. CASE UNCHANGED vars
    <2>1. Count' = Count
      BY <1>19, SameTokens DEF vars, ring, worker, loop
    <2>2. QED
      BY <1>0, <1>19, <1>a, <2>1 DEF vars, ring, job, worker, loop, TypeOK,
         Budget, Unannounced, Phases
  <1>20. QED
    BY <1>1, <1>2, <1>3, <1>4, <1>5, <1>6, <1>7, <1>8, <1>9, <1>10, <1>11, <1>12, <1>13,
       <1>14, <1>15, <1>16, <1>17, <1>18, <1>19
       DEF Next, Worker, EventLoop, Environment, Terminated

(* The invariant holds in every reachable state.                           *)
LEMMA IInvAlways == Spec => []IInv
  BY InitIInv, NextIInv, PTL DEF Spec

(* The ring's indices, the job's flags and both threads' variables keep    *)
(* their types in every reachable state, whatever the sizes.               *)
THEOREM TypeCorrect == Spec => []TypeOK
  BY IInvAlways, PTL DEF IInv

(* Tokens reach the client in the order they were written, none lost or    *)
(* repeated on the way through ring_write and the batched drain.           *)
THEOREM StreamInOrder == Spec => []InOrder
  BY IInvAlways, PTL DEF IInv

(* A worker that finds the ring full is forgotten by the event loop only   *)
(* if the pipe refused a wakeup: batching them cannot stall a stream as    *)
(* long as the batch is smaller than the ring.                             *)
THEOREM NeverStalled == Spec => []NoStall
  <1>1. IInv => NoStall
    <2> SUFFICES ASSUME IInv, wpc \in {"write", "wait"}, ring_is_full, mpc = "poll",
                        wakeups = 0, ~missed
                 PROVE  FALSE
      BY DEF NoStall, IInv, TypeOK
    <2>1. Count = RingSize - 1
      BY PutCounts DEF IInv, TypeOK
    <2>2. Count <= sinceWake /\ sinceWake < WakeBatch /\ sinceWake \in Nat
      BY DEF IInv, TypeOK, Unannounced
    <2>3. QED
      BY <2>1, <2>2, SizesHold DEF Sizes
  <1>2. QED
    BY <1>1, IInvAlways, PTL

(* An idle event loop with nothing pending or refused has at most one      *)
(* batch of tokens left unsent.                                            *)
THEOREM LagBounded == Spec => []BoundedLag
  <1>1. IInv => BoundedLag
    BY SizesHold, PutCounts DEF Sizes, IInv, TypeOK, Unannounced, BoundedLag
  <1>2. QED
    BY <1>1, IInvAlways, PTL

(* drain_stream_ring never sends the final chunk while tokens can still be *)
(* generated.                                                              *)
THEOREM FinalChunkLast == Spec => []FinalAfterGeneration
  <1>1. IInv => FinalAfterGeneration
    BY DEF IInv, Phases, FinalAfterGeneration, Generating
  <1>2. QED
    BY <1>1, IInvAlways, PTL

(* What the abstract stream sees of a step.                                *)
Phase == IF mpc = "finalized" THEN "ended"
         ELSE IF mpc \in {"closing", "gone"} THEN "dropped" ELSE "open"

(* A step that writes, sends and decides nothing is a stutter of           *)
(* TokenStream.                                                            *)
LEMMA StreamStutters ==
  ASSUME written' = written, sent' = sent,
         (wpc \in Generating)' = (wpc \in Generating), Phase' = Phase
  PROVE  UNCHANGED Stream!streamVars
  BY DEF Stream!streamVars, Phase

(* Every step of the ring is a step of the abstract stream or a stutter.   *)
LEMMA StreamStep == IInv /\ [Next]_vars => [Stream!StreamNext]_(Stream!streamVars)
  <1> SUFFICES ASSUME IInv, [Next]_vars
               PROVE  Stream!StreamNext \/ UNCHANGED Stream!streamVars
    OBVIOUS
  <1> USE SizesHold DEF Sizes
  <1>0. TypeOK /\ Count \in 0..(RingSize - 1)
    BY PutCounts DEF IInv, TypeOK
  <1>1. CASE GenToken \/ Probe \/ RingBlock \/ WaitTimeout \/ Wake
    BY <1>1, StreamStutters DEF GenToken, Probe, RingBlock, WaitTimeout, Wake, ring, job, loop,
       Generating, Phase
  <1>2. CASE GenStop \/ RingRefuse
    <2>1. Stream!Stop
      BY <1>2 DEF GenStop, RingRefuse, Stream!Stop, loop, Generating
    <2>2. QED
      BY <2>1 DEF Stream!StreamNext
  <1>3. CASE RingPut
    <2>1. mpc \notin {"closing", "gone", "finalized"}
      BY <1>3 DEF IInv, Phases, RingPut, Stopping
    <2>2. written - Len(sent) < RingSize - 1
      <3>1. Count # RingSize - 1
        BY <1>0, <1>3, PutCounts DEF TypeOK, RingPut, MustWait, Stopping
      <3>2. Len(sent) + Count = written /\ Len(sent) \in Nat
        BY DEF IInv, TypeOK, InOrder
      <3>3. QED
        BY <1>0, <3>1, <3>2
    <2>3. Stream!Produce
      BY <1>3, <2>1, <2>2 DEF RingPut, loop, Generating, Stream!Produce
    <2>4. QED
      BY <2>3 DEF Stream!StreamNext
  <1>4. CASE RingDone \/ SetState \/ FinalWake
    BY <1>4, StreamStutters DEF RingDone, SetState, FinalWake, ring, job, loop, Generating, Phase
  <1>5. CASE OnWakeup \/ CheckDone \/ CloseClearMgr \/ Signal
    BY <1>5, StreamStutters DEF OnWakeup, CheckDone, CloseClearMgr, Signal,
       worker, loop, Generating, Phase
  <1>6. CASE Drain
    <2>1. PICK n \in 0..Count : sent' = sent \o [i \in 1..n |-> Stored(Len(sent) + i)]
      BY <1>6, DrainStep
    <2>2. /\ Phase = "open" /\ Phase' = "open" /\ written' = written
          /\ (wpc \in Generating)' = (wpc \in Generating)
      BY <1>6 DEF Drain, Phase, Generating
    <2>3. CASE n = 0
      <3>1. sent' = sent
        <4>1. [i \in 1..n |-> Stored(Len(sent) + i)] = <<>>
          BY <2>3
        <4>2. QED
          BY <1>0, <2>1, <4>1, ConcatEmptySeq DEF TypeOK
      <3>2. QED
        BY <2>2, <3>1, StreamStutters
    <2>4. CASE n # 0
      <3>1. Len(sent) + Count = written /\ Len(sent) \in Nat
        BY DEF IInv, TypeOK, InOrder
      <3>2. n \in 1..(written - Len(sent))
        BY <1>0, <2>4, <3>1
      <3>3. Stream!Deliver
        BY <2>1, <2>2, <3>2 DEF Stream!Deliver, Phase
      <3>4. QED
        BY <3>3 DEF Stream!StreamNext
    <2>5. QED
      BY <2>3, <2>4
  <1>7. CASE LoadState
    <2>1. CASE mpc' = "poll"
      BY <1>7, <2>1, StreamStutters DEF LoadState, worker, Phase
    <2>2. CASE mpc' # "poll"
      <3>1. done
        BY <1>7, <2>2 DEF LoadState, IInv, Phases
      <3>2. wpc \notin Generating
        BY <3>1 DEF IInv, Phases, Generating
      <3>3. Stream!End
        BY <1>7, <2>2, <3>2 DEF LoadState, worker, Stream!End
      <3>4. QED
        BY <3>3 DEF Stream!StreamNext
    <2>3. QED
      BY <2>1, <2>2
  <1>8. CASE Close
    <2>1. Stream!Disconnect
      BY <1>8 DEF Close, worker, Stream!Disconnect
    <2>2. QED
      BY <2>1 DEF Stream!StreamNext
  <1>9. CASE UNCHANGED vars
    BY <1>9, StreamStutters DEF vars, worker, loop, Phase
  <1>10. QED
    BY <1>1, <1>2, <1>3, <1>4, <1>5, <1>6, <1>7, <1>8, <1>9
       DEF Next, Worker, EventLoop, Environment, Terminated

(* The ring, the batched wakeups and the drain implement the abstract      *)
(* in-order stream with RingSize - 1 tokens in flight.                     *)
THEOREM RingImplementsStream == Spec => ImplementsStream
  <1>1. Init => Stream!StreamInit
    BY DEF Init, Stream!StreamInit, Generating
  <1>2. QED
    BY <1>1, IInvAlways, StreamStep, PTL DEF Spec, ImplementsStream, Stream!StreamSpec
-----------------------------------------------------------------------------
(* The end of a stream                                                     *)

(* What the event loop knows at the end stays true.                        *)
LEMMA EndingHolds == Spec => []Ending
  <1>1. Init => Ending
    BY DEF Init, Ending
  <1>2. IInv /\ Ending /\ [Next]_vars => Ending'
    <2> SUFFICES ASSUME IInv, Ending, [Next]_vars PROVE Ending'
      OBVIOUS
    <2>0. /\ TypeOK /\ Unannounced /\ Phases
          /\ Count \in 0..(RingSize - 1) /\ (ring_is_empty <=> Count = 0)
      BY PutCounts DEF IInv, TypeOK
    <2>a. ASSUME UNCHANGED <<text, head, tail, sent, written>> PROVE Count' = Count
      BY <2>a, SameTokens
    <2>1. CASE GenToken
      <3>1. Count' = Count /\ written' = written
        BY <2>a, <2>1 DEF GenToken, ring, worker, loop
      <3>2. QED
        BY <2>0, <2>1, <3>1 DEF GenToken, ring, job, loop, Ending, Phases, Unannounced, TypeOK
    <2>2. CASE GenStop
      <3>1. Count' = Count /\ written' = written
        BY <2>a, <2>2 DEF GenStop, ring, worker, loop
      <3>2. QED
        BY <2>0, <2>2, <3>1 DEF GenStop, ring, job, loop, Ending, Phases, Unannounced, TypeOK
    <2>3. CASE Probe
      <3>1. Count' = Count /\ written' = written
        BY <2>a, <2>3 DEF Probe, ring, worker, loop
      <3>2. QED
        BY <2>0, <2>3, <3>1 DEF Probe, ring, job, loop, Ending, Phases, Unannounced, TypeOK
    <2>4. CASE RingBlock
      <3>1. Count' = Count /\ written' = written
        BY <2>a, <2>4 DEF RingBlock, ring, worker, loop
      <3>2. QED
        BY <2>0, <2>4, <3>1 DEF RingBlock, ring, job, loop, Ending, Phases, Unannounced, TypeOK
    <2>5. CASE WaitTimeout
      <3>1. Count' = Count /\ written' = written
        BY <2>a, <2>5 DEF WaitTimeout, ring, worker, loop
      <3>2. QED
        BY <2>0, <2>5, <3>1 DEF WaitTimeout, ring, job, loop, Ending, Phases, Unannounced,
           TypeOK
    <2>6. CASE RingRefuse
      <3>1. Count' = Count /\ written' = written
        BY <2>a, <2>6 DEF RingRefuse, ring, worker, loop
      <3>2. QED
        BY <2>0, <2>6, <3>1 DEF RingRefuse, ring, job, loop, Ending, Phases, Unannounced,
           TypeOK
    <2>7. CASE Wake
      <3>1. Count' = Count /\ written' = written
        BY <2>a, <2>7 DEF Wake, mg_wakeup, ring, worker, loop
      <3>2. QED
        BY <2>0, <2>7, <3>1 DEF Wake, mg_wakeup, ring, job, Ending, Phases, Unannounced, TypeOK
    <2>8. CASE RingDone
      <3>1. Count' = Count /\ written' = written
        BY <2>a, <2>8 DEF RingDone, ring, worker, loop
      <3>2. QED
        BY <2>0, <2>8, <3>1 DEF RingDone, job, loop, Ending, Phases, Unannounced, TypeOK
    <2>9. CASE SetState
      <3>1. Count' = Count /\ written' = written
        BY <2>a, <2>9 DEF SetState, ring, worker, loop
      <3>2. QED
        BY <2>0, <2>9, <3>1 DEF SetState, ring, loop, Ending, Phases, Unannounced, TypeOK
    <2>10. CASE FinalWake
      <3>1. Count' = Count /\ written' = written
        BY <2>a, <2>10 DEF FinalWake, mg_wakeup, ring, worker, loop
      <3>2. QED
        BY <2>0, <2>10, <3>1 DEF FinalWake, mg_wakeup, ring, job, Ending, Phases,
           Unannounced, TypeOK
    <2>11. CASE OnWakeup
      <3>1. Count' = Count /\ written' = written
        BY <2>a, <2>11 DEF OnWakeup, ring, worker, loop
      <3>2. QED
        BY <2>0, <2>11, <3>1 DEF OnWakeup, ring, job, worker, Ending, Phases, Unannounced,
           TypeOK
    <2>12. CASE CheckDone
      <3>1. Count' = Count /\ written' = written
        BY <2>a, <2>12 DEF CheckDone, ring, worker, loop
      <3>2. QED
        BY <2>0, <2>12, <3>1 DEF CheckDone, ring_is_empty, ring, job, worker, Ending, Phases,
           Unannounced, TypeOK
    <2>13. CASE LoadState
      <3>1. Count' = Count /\ written' = written
        BY <2>a, <2>13 DEF LoadState, ring, worker, loop
      <3>2. QED
        BY <2>0, <2>13, <3>1 DEF LoadState, ring, job, worker, Ending, Phases, Unannounced,
           TypeOK
    <2>14. CASE CloseClearMgr
      <3>1. Count' = Count /\ written' = written
        BY <2>a, <2>14 DEF CloseClearMgr, ring, worker, loop
      <3>2. QED
        BY <2>0, <2>14, <3>1 DEF CloseClearMgr, ring, worker, Ending, Phases, Unannounced,
           TypeOK
    <2>15. CASE Close
      <3>1. Count' = Count /\ written' = written
        BY <2>a, <2>15 DEF Close, ring, worker, loop
      <3>2. QED
        BY <2>0, <2>15, <3>1 DEF Close, ring, worker, Ending, Phases, Unannounced, TypeOK
    <2>16. CASE Signal
      <3>1. Count' = Count /\ written' = written
        BY <2>a, <2>16 DEF Signal, ring, worker, loop
      <3>2. QED
        BY <2>0, <2>16, <3>1 DEF Signal, ring, job, worker, loop, Ending, Phases, Unannounced,
           TypeOK
    <2>17. CASE RingPut
      BY <2>0, <2>17 DEF RingPut, job, loop, Ending, Phases
    <2>18. CASE Drain
      <3>1. ASSUME doneSeen PROVE Count' = 0
        <4>1. Count = 0 /\ head = tail /\ tail \in Slots
          BY <2>0, <3>1 DEF Ending, TypeOK, ring_is_empty
        <4>2. tail' = Advance(tail, 0) /\ head' = head
          BY <2>18, <4>1, SizesHold DEF Drain, Sizes
        <4>3. Advance(tail, 0) = tail
          BY <4>1, AdvanceWraps, SizesHold DEF Sizes, Slots
        <4>4. QED
          BY <4>1, <4>2, <4>3, SizesHold DEF Count, Slots, Sizes
      <3>2. QED
        BY <2>18, <3>1 DEF Drain, job, Ending
    <2>19. CASE UNCHANGED vars
      <3>1. Count' = Count
        BY <2>a, <2>19 DEF vars, ring, worker, loop
      <3>2. QED
        BY <2>19, <3>1 DEF vars, ring, job, worker, loop, Ending
    <2>20. QED
      BY <2>1, <2>2, <2>3, <2>4, <2>5, <2>6, <2>7, <2>8, <2>9, <2>10, <2>11, <2>12, <2>13,
         <2>14, <2>15, <2>16, <2>17, <2>18, <2>19 DEF Next, Worker, EventLoop, Environment,
         Terminated
  <1>3. QED
    BY <1>1, <1>2, IInvAlways, PTL DEF Spec

(* What NoTruncation forbids happens through the late load of the state    *)
(* alone: a response ended because ring.done was seen carries every token. *)
THEOREM CompleteWhenDone == Spec => []CutOnlyLate
  <1>1. IInv /\ Ending => CutOnlyLate
    <2> SUFFICES ASSUME IInv, Ending, mpc = "finalized", Len(sent) # written
                 PROVE  /\ ~doneSeen /\ state = "DONE"
                        /\ wakeups = 0 /\ ~missed => written - Len(sent) < WakeBatch
      BY DEF CutOnlyLate
    <2>1. Len(sent) + Count = written /\ Count \in Nat /\ written \in Nat /\ sinceWake \in Nat
      BY PutCounts, SizesHold DEF IInv, InOrder, TypeOK, Sizes
    <2>2. PICK n \in Nat : n = Len(sent)
      BY LenProperties DEF IInv, TypeOK
    <2>3. Count = written - n /\ Count # 0 /\ written # 0
      BY <2>1, <2>2
    <2>4. ~doneSeen /\ state = "DONE"
      BY <2>3 DEF Ending, IInv, TypeOK
    <2>5. wakeups = 0 /\ ~missed => Count < WakeBatch
      BY <2>1, SizesHold DEF Ending, IInv, Unannounced, Sizes
    <2>6. QED
      BY <2>2, <2>3, <2>4, <2>5
  <1>2. QED
    BY <1>1, IInvAlways, EndingHolds, PTL

(* After a disconnect or a signal the worker thread leaves the job within  *)
(* five of its steps, even out of a wait for room in the ring: the safety  *)
(* behind CancelReleasesWorker.                                            *)
THEOREM WorkerWindsUp == Spec => [](StepsLeft \in 0..5) /\ [][WindsUp]_vars
  <1>1. IInv => StepsLeft \in 0..5
    BY DEF IInv, TypeOK, Wpcs, Generating, StepsLeft
  <1>2. IInv /\ [Next]_vars => [WindsUp]_vars
    <2> SUFFICES ASSUME IInv, Next, cancel \/ shutdown
                 PROVE  IF Worker THEN StepsLeft' < StepsLeft ELSE StepsLeft' <= StepsLeft
      BY DEF WindsUp
    <2>1. StepsLeft \in 0..5
      BY <1>1
    <2>2. CASE Worker
      BY <2>2 DEF Worker, GenToken, GenStop, Probe, RingBlock, MustWait, WaitTimeout, RingRefuse,
         RingPut, Stopping, Wake, RingDone, SetState, FinalWake, StepsLeft
    <2>3. CASE EventLoop \/ Environment \/ Terminated
      <3>1. wpc' = wpc \/ (wpc = "wait" /\ wpc' = "write")
        BY <2>3 DEF EventLoop, OnWakeup, Drain, CheckDone, LoadState, CloseClearMgr, Environment,
           Close, Signal, Terminated, vars, worker
      <3>2. StepsLeft' <= StepsLeft
        <4>1. CASE wpc' = wpc
          <5>1. StepsLeft' = StepsLeft
            BY <4>1 DEF StepsLeft
          <5>2. QED
            BY <2>1, <5>1
        <4>2. CASE wpc = "wait" /\ wpc' = "write"
          BY <4>2 DEF StepsLeft
        <4>3. QED
          BY <3>1, <4>1, <4>2
      <3>3. ~Worker \/ StepsLeft' < StepsLeft
        BY <2>2
      <3>4. QED
        BY <3>2, <3>3
    <2>4. QED
      BY <2>2, <2>3 DEF Next
  <1>3. QED
    BY <1>1, <1>2, IInvAlways, PTL DEF Spec
=============================================================================
