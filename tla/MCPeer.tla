------------------------------- MODULE MCPeer -------------------------------
(* Instances of Peer for TLC.  Two peers share a host and two share a      *)
(* port; the number of one of them only fits a short when it is cut.       *)
EXTENDS Peer

CONSTANTS n1, n2, n3, h1, hostA, hostB

Line(id, host, port) == [kind |-> "peer", id |-> id, addr |-> [host |-> host, port |-> port]]
Comment == [kind |-> "comment"]
Blank   == [kind |-> "blank"]

P1 == Line(1, hostA, 11111)
P2 == Line(2, hostA, 22222)
P3 == Line(7, hostB, 22222)

(* In order, reversed with a blank line, and one without the third peer.   *)
SomeLists ==
  {<<Comment, P1, P2, P3>>, <<P3, P2, Blank, P1>>, <<P1, P2, Blank>>}

Identities == (n1 :> 1) @@ (n2 :> 2) @@ (n3 :> 7)
SomeHave   == (n1 :> {}) @@ (n2 :> {}) @@ (n3 :> {h1})
=============================================================================
