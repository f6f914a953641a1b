---------------------------- MODULE MCRequestor ----------------------------
(* Instances of Requestor for TLC.                                         *)
EXTENDS RequestorRefinement

CONSTANTS h0, h1

TwoChunks   == [i \in 0 .. 1 |-> IF i = 0 THEN h0 ELSE h1]
Leftovers   == {-2, 0}
=============================================================================
