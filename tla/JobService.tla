----------------------------- MODULE JobService -----------------------------
(***************************************************************************)
(* What clients may rely on, whatever threads, locks and pointers bring it *)
(* about: one inference at a time, each accepted job run at most once, and *)
(* an answer only after the client's own inference has returned.  A client *)
(* may leave at any time; its job may be run all the same.                 *)
(***************************************************************************)
CONSTANTS Conns, None

VARIABLES
    phase,      \* each connection: open, waiting, ending or closed
    pending,    \* connections whose accepted job has not been run
    running,    \* the connection whose inference is under way
    returned    \* waiting connections whose inference has returned

vars == <<phase, pending, running, returned>>

Init ==
    /\ phase = [c \in Conns |-> "open"]
    /\ pending = {} /\ running = None /\ returned = {}

(* A job is accepted only while no inference is under way.                 *)
Accept(c) ==
    /\ phase[c] = "open" /\ running = None
    /\ phase' = [phase EXCEPT ![c] = "waiting"]
    /\ pending' = pending \union {c}
    /\ UNCHANGED <<running, returned>>

Start(c) ==
    /\ c \in pending /\ running = None
    /\ running' = c /\ pending' = pending \ {c}
    /\ UNCHANGED <<phase, returned>>

Return ==
    /\ running # None
    /\ running' = None
    /\ returned' = IF phase[running] = "waiting" THEN returned \union {running} ELSE returned
    /\ UNCHANGED <<phase, pending>>

(* A stream ends with its connection; otherwise the client may go on.      *)
Answer(c) ==
    /\ phase[c] = "waiting" /\ c \in returned
    /\ \E p \in {"open", "ending"} : phase' = [phase EXCEPT ![c] = p]
    /\ returned' = returned \ {c}
    /\ UNCHANGED <<pending, running>>

Leave(c) ==
    /\ phase[c] # "closed"
    /\ phase' = [phase EXCEPT ![c] = "closed"]
    /\ returned' = returned \ {c}
    /\ UNCHANGED <<pending, running>>

Next == Return \/ \E c \in Conns : Accept(c) \/ Start(c) \/ Answer(c) \/ Leave(c)

Spec == Init /\ [][Next]_vars
=============================================================================
