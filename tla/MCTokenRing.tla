---------------------------- MODULE MCTokenRing ----------------------------
(* Small instances of TokenRing for TLC.                                   *)
EXTENDS TokenRing

(* Pieces shorter than, as long as and longer than a slot.                 *)
MCPieceLen == [i \in 1..MaxTokens |-> i % (TextMax + 2)]
=============================================================================
