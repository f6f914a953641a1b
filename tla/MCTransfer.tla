----------------------------- MODULE MCTransfer -----------------------------
(* Instances of Transfer for TLC.                                          *)
EXTENDS Transfer

CONSTANTS h0, h1

Leftover  == {-2}
TwoChunks == [i \in 0 .. 1 |-> IF i = 0 THEN h0 ELSE h1]
OneChunk  == [i \in {0} |-> h0]
AllHave   == [p \in Peers |-> Hashes]
SomeHave  == [p \in Peers |-> IF p = 1 THEN Hashes ELSE {h1}]
=============================================================================
