----------------------------- MODULE MCHupSim ------------------------------
(* Instances of HupSim for TLC.                                            *)
EXTENDS HupSim

(* Routers in a line: the flows from 3 and from 2 meet in the link to 1.   *)
(* Router 4 is not on the map.                                             *)
LineLinks  == {<<1, 2>>, <<2, 1>>, <<2, 3>>, <<3, 2>>}
ThreeFlows == {<<3, 1>>, <<2, 1>>, <<1, 4>>}
=============================================================================
