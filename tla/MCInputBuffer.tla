--------------------------- MODULE MCInputBuffer ---------------------------
(* Instances of InputBuffer for TLC.                                       *)
EXTENDS InputBuffer
=============================================================================
