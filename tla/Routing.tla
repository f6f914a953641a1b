------------------------------ MODULE Routing ------------------------------
(***************************************************************************)
(* The set-up of the network simulator: every router in turn makes its     *)
(* routing table (main, hupsim.pl). The searches share the fields of the   *)
(* routers, so each starts from the predecessors that the last one left.   *)
(***************************************************************************)
EXTENDS Hops

VARIABLES
  links,     \* the pairs of routers with a link from the first to the second
  pred,      \* the field predecessor of each router
  table,     \* the routing table of each router
  built      \* the routers whose table is made

routingVars == <<links, pred, table, built>>

(* Any map: each line of it makes a link in both directions.               *)
RoutingInit ==
  /\ \E lines \in SUBSET {l \in Routers \X Routers : l[1] < l[2]} :
       links = lines \cup {<<l[2], l[1]>> : l \in lines}
  /\ pred = [r \in Routers |-> Nobody]
  /\ table = [r \in Routers |-> [q \in Routers |-> Nobody]]
  /\ built = {}

(* The routers are taken in the order of their identifiers.                *)
IsNext(r) == r \notin built /\ \A q \in Routers : q < r => q \in built

(* createTable of router r. If one of its walks has no end, the program is *)
(* in it for ever.                                                         *)
CreateTable(r) ==
  /\ IsNext(r)
  /\ pred' = Search(r, links, pred)
  /\ \A q \in Routers \ {r} : WalkEnds(r, pred', q)
  /\ table' = [table EXCEPT ![r] = TableOf(r, pred')]
  /\ built' = built \cup {r}
  /\ UNCHANGED links

RoutingNext == \E r \in Routers : CreateTable(r)

RoutingSpec == RoutingInit /\ [][RoutingNext]_routingVars

----------------------------------------------------------------------------
(* Each router was built on its own, but a packet that follows the tables  *)
(* of several gets one hop nearer with each, so it never goes in a circle. *)
EveryHopGetsNearer ==
  \A r \in built : \A q \in Routers \ {r} :
    Distance(links, table[r][q], q) = Distance(links, r, q) - 1

(* The set-up goes on to its end on every connected map, and on any other  *)
(* it stays for ever in the walk back from a router that cannot be reached *)
(* (a die, "route with no pred", was to stop it): the simulator never runs *)
(* with tables that lack routers.                                          *)
SetUpGoesOn ==
  \A r \in Routers : IsNext(r) =>
    LET found == Search(r, links, pred)
    IN  Connected(links) <=> \A q \in Routers \ {r} : WalkEnds(r, found, q)
=============================================================================
