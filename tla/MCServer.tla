------------------------------ MODULE MCServer ------------------------------
(* Small instances of Server for TLC.                                      *)
EXTENDS Server, TLC

(* Connections are interchangeable.                                        *)
Symmetry == Permutations(Conns)
=============================================================================
