--------------------------- MODULE MCJobProtocol ---------------------------
(* Small instances of JobProtocol for TLC.                                 *)
EXTENDS JobProtocol, TLC

(* Addresses are interchangeable; connections are, too, where no liveness  *)
(* property is checked.                                                    *)
Symmetry == Permutations(Addrs) \cup Permutations(Conns)
=============================================================================
