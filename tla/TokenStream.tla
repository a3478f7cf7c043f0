---------------------------- MODULE TokenStream ----------------------------
(***************************************************************************)
(* What a streaming response promises, without ring, threads or wakeups:   *)
(* the client receives a prefix of the tokens the generation produced, at  *)
(* most Capacity tokens are in flight, the end marker comes only once the  *)
(* generation has stopped, and nothing follows it or a disconnect.         *)
(***************************************************************************)
EXTENDS Integers, Sequences

CONSTANTS Capacity, Text(_)

VARIABLES produced, generating, received, phase

streamVars == <<produced, generating, received, phase>>

StreamInit ==
    produced = 0 /\ generating = TRUE /\ received = <<>> /\ phase = "open"

Produce ==
    /\ phase = "open" /\ generating
    /\ produced - Len(received) < Capacity
    /\ produced' = produced + 1
    /\ UNCHANGED <<generating, received, phase>>

Stop ==
    /\ generating
    /\ generating' = FALSE
    /\ UNCHANGED <<produced, received, phase>>

Deliver ==
    /\ phase = "open"
    /\ \E n \in 1..(produced - Len(received)) :
          received' = received \o [i \in 1..n |-> Text(Len(received) + i)]
    /\ UNCHANGED <<produced, generating, phase>>

End ==
    /\ phase = "open" /\ ~generating
    /\ phase' = "ended"
    /\ UNCHANGED <<produced, generating, received>>

Disconnect ==
    /\ phase = "open"
    /\ phase' = "dropped"
    /\ UNCHANGED <<produced, generating, received>>

StreamNext == Produce \/ Stop \/ Deliver \/ End \/ Disconnect

StreamSpec == StreamInit /\ [][StreamNext]_streamVars
=============================================================================
