---------------------------- MODULE MCResponser ----------------------------
(* Instances of Responser for TLC.                                         *)
EXTENDS Responser, TLC

PeerSymmetry == Permutations(Peers)
=============================================================================
