---------------------------- MODULE MCGeneration ----------------------------
(* Small instances of Generation for TLC.                                  *)
EXTENDS Generation

(* Pieces that are empty, fit the window of three, and exceed it; the stop *)
(* sequences span two pieces, end a long piece, or are empty.              *)
MCPieces   == {<<>>, <<1>>, <<2>>, <<1, 2, 1, 1>>}
MCStopSets == {{}, {<<>>, <<1, 2>>}, {<<1, 1>>}}

(* Omitted, below and above the range.                                     *)
MCReqMaxTokens == {-1, 0, 9}

(* Values config_validate accepts; the default is 2048.                    *)
MCBatches == {-1, 0, 2}
=============================================================================
