-------------------------------- MODULE Hops --------------------------------
(***************************************************************************)
(* createTable of the network simulator (hupsim.pl): the search for the    *)
(* shortest paths from one router, in hops, and the first router of the    *)
(* path to each other one.                                                 *)
(*                                                                         *)
(* Definitions named ...Slip are slips a programmer might make in the      *)
(* definition that follows; they are not part of the specification.        *)
(***************************************************************************)
EXTENDS Integers, FiniteSets

CONSTANT Routers      \* the identifiers of the routers of topo.map

INFINITY == 65535     \* "must be bigger than # of routers"

ASSUME RoutersAssumption ==
  /\ IsFiniteSet(Routers) /\ Routers \subseteq Nat \ {0}
  /\ Cardinality(Routers) < INFINITY

Nobody   == 0         \* an undefined predecessor

Neighbours(links, r) == {q \in Routers : <<r, q>> \in links}

(* How far apart routers are, whatever the program makes of it.            *)
Within(links, r) ==
  LET ball[n \in 0 .. Cardinality(Routers)] ==
        IF n = 0 THEN {r}
        ELSE LET b == ball[n - 1] IN b \cup UNION {Neighbours(links, q) : q \in b}
  IN  ball
Distance(links, r, dest) ==
  CHOOSE n \in 0 .. Cardinality(Routers) :
    dest \in Within(links, r)[n] /\ \A m \in 0 .. n - 1 : dest \notin Within(links, r)[m]

Connected(links) == \A r \in Routers : Within(links, r)[Cardinality(Routers)] = Routers

(* The loop that sets up all vertexes. The predecessors are left as the    *)
(* search of another router made them.                                     *)
Start(self, pred) ==
  [distance |-> [r \in Routers |-> IF r = self THEN 0 ELSE INFINITY],
   pred     |-> pred,
   done     |-> {}]

NearestSlip(s) ==              \* whether it is done or not
  CHOOSE r \in Routers : \A q \in Routers :
    \/ s.distance[r] < s.distance[q]
    \/ s.distance[r] = s.distance[q] /\ r <= q

(* The vertex to visit next: the first one of those that are nearest.      *)
Nearest(s) ==
  CHOOSE r \in Routers \ s.done : \A q \in Routers \ s.done :
    \/ s.distance[r] < s.distance[q]
    \/ s.distance[r] = s.distance[q] /\ r <= q

(* The hop is not counted.                                                 *)
VisitedSlip(s, links, r) ==
  LET nearer == {q \in Neighbours(links, r) : s.distance[q] > s.distance[r]}
  IN  [distance |-> [q \in Routers |-> IF q \in nearer THEN s.distance[r] ELSE s.distance[q]],
       pred     |-> [q \in Routers |-> IF q \in nearer THEN r ELSE s.pred[q]],
       done     |-> s.done \cup {r}]

(* The visit of r: its neighbours may be nearer by way of it.              *)
Visited(s, links, r) ==
  LET weight == s.distance[r] + 1
      nearer == {q \in Neighbours(links, r) : s.distance[q] > weight}
  IN  [distance |-> [q \in Routers |-> IF q \in nearer THEN weight ELSE s.distance[q]],
       pred     |-> [q \in Routers |-> IF q \in nearer THEN r ELSE s.pred[q]],
       done     |-> s.done \cup {r}]

(* The search, by the number of vertices visited.                         *)
Visits(self, links, pred) ==
  LET after[n \in 0 .. Cardinality(Routers)] ==
        IF n = 0 THEN Start(self, pred)
        ELSE LET s == after[n - 1] IN Visited(s, links, Nearest(s))
  IN  after

(* The predecessors when every vertex has been visited.                    *)
Search(self, links, pred) == Visits(self, links, pred)[Cardinality(Routers)].pred

(* The walk back from dest to the vertex next to self, by the steps made.  *)
Walk(self, pred, dest) ==
  LET back[n \in 0 .. Cardinality(Routers)] ==
        IF n = 0 THEN dest
        ELSE LET r == back[n - 1]
             IN  IF r = Nobody \/ pred[r] = self THEN r ELSE pred[r]
  IN  back

FirstHop(self, pred, dest) == Walk(self, pred, dest)[Cardinality(Routers)]

(* Whether that walk comes to its end: on a router that the search did not *)
(* reach it meets the predecessors of another search, or none. The test    *)
(* for none comes after the expression that has created one, a router      *)
(* without identifier, which is its own end no more than any other.        *)
WalkEnds(self, pred, dest) ==
  LET r == FirstHop(self, pred, dest) IN r # Nobody /\ pred[r] = self

(* The routing table of self.                                              *)
TableOf(self, pred) ==
  [r \in Routers |-> IF r = self THEN Nobody ELSE FirstHop(self, pred, r)]
=============================================================================
