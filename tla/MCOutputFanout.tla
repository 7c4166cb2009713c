--------------------------- MODULE MCOutputFanout ---------------------------
(* OutputFanout with two interchangeable sessions. *)
EXTENDS OutputFanout, TLC

Interchangeable == Permutations(Sessions)
=============================================================================
