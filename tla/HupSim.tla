------------------------------- MODULE HupSim -------------------------------
(***************************************************************************)
(* The network simulator of the tests (hupsim.pl): routers with a queue on *)
(* each link, and one loop that takes in packets, runs the routers and     *)
(* sleeps until the next packet is due.                                    *)
(*                                                                         *)
(* Times are kept as what is left of them. The clock stands still while    *)
(* one router runs. Definitions named ...Slip are slips a programmer might *)
(* make in the definition that follows; they are not part of the           *)
(* specification.                                                          *)
(***************************************************************************)
EXTENDS Hops, Sequences

CONSTANTS
  Links,      \* the links of topo.map, in both directions
  Flows,      \* pairs <<source, destination>> of packets
  Lens,       \* lengths of packets
  QueueMax,   \* packets that a queue holds
  Latency,    \* time that a link takes
  TxTime      \* and what it takes longer for each unit of length: 1 / rate

ASSUME HupSimAssumption ==
  /\ Links \subseteq Routers \X Routers
  /\ \A l \in Links : <<l[2], l[1]>> \in Links
  /\ Connected(Links)      \* on no other map is there an end to the set-up
  /\ \A f \in Flows : f = <<f[1], f[2]>> /\ f[1] # f[2]
  /\ Lens \subseteq Nat \ {0}
  /\ QueueMax \in Nat \ {0} /\ Latency \in Nat /\ TxTime \in Nat

VARIABLES
  routes,      \* per link, the queue and how much is in it
  runRouters,  \* the routers that still have to run
  selecting,   \* the loop waits for a packet
  sleep,       \* and for how long at most, or Forever
  sending,     \* peers still send
  got          \* per flow, what arrived with the last step

vars == <<routes, runRouters, selecting, sleep, sending, got>>

Forever == -1

Packets == [src : {f[1] : f \in Flows}, dst : {f[2] : f \in Flows}, len : Lens]
Pkts(c) == [k \in DOMAIN c.queue |-> c.queue[k].pkt]

(* The routers in the order of their identifiers.                          *)
Ordered ==
  [n \in 1 .. Cardinality(Routers) |->
     CHOOSE r \in Routers : Cardinality({q \in Routers : q < r}) = n - 1]

(* The routing tables, made one after the other.                           *)
Table ==
  LET preds[n \in 0 .. Cardinality(Routers)] ==
        IF n = 0 THEN [r \in Routers |-> Nobody]
        ELSE Search(Ordered[n], Links, preds[n - 1])
  IN  [r \in Routers |->
         TableOf(r, preds[CHOOSE n \in DOMAIN Ordered : Ordered[n] = r])]

NoArrivals == [f \in Flows |-> <<>>]

Init ==
  /\ routes = [l \in Links |-> [queue |-> <<>>, size |-> 0]]
  /\ runRouters = <<>>
  /\ selecting = TRUE
  /\ sleep = Forever
  /\ sending = TRUE
  /\ got = NoArrivals

----------------------------------------------------------------------------
IsFullEarly(c) == Len(c.queue) >= QueueMax - 1   \* one place is never used

IsFull(c) == Len(c.queue) >= QueueMax

EnQSlip(c, p) ==               \* unshift for push
  IF IsFull(c) THEN c
  ELSE [queue |-> <<[pkt |-> p, left |-> Latency + TxTime * (p.len + c.size)]>> \o c.queue,
        size  |-> c.size + p.len]

(* enQ, of a packet on a link.                                             *)
EnQ(c, p) ==
  LET backlog == IF c.queue # <<>> THEN c.size ELSE 0
  IN  IF IsFull(c) THEN c
      ELSE [queue |-> Append(c.queue, [pkt |-> p, left |-> Latency + TxTime * (p.len + backlog)]),
            size  |-> c.size + p.len]

(* Whether router r has to pass p on, and by way of whom.  A destination   *)
(* that is no router is one that nodes.map does not have, for which packets*)
(* are dropped; a node of nodes.map that is not on the topology, at whose  *)
(* first packet the simulator dies, is left out.                           *)
PassesOn(r, p) == p.dst \in Routers \ {r}
Via(r, p)      == Table[r][p.dst]

(* The queue of link l after its router has received ps one by one.        *)
Received(c, l, ps) ==
  LET after[n \in 0 .. Len(ps)] ==
        IF n = 0 THEN c
        ELSE IF PassesOn(l[1], ps[n]) /\ Via(l[1], ps[n]) = l[2] THEN EnQ(after[n - 1], ps[n])
        ELSE after[n - 1]
  IN  after[Len(ps)]

WokenSlip(r, ps) == <<>>       \* r may have run already

(* What recv does to the list of routers to run: r joins it with each      *)
(* packet that it does not deliver, even if the packet was dropped.        *)
Woken(r, ps) == [k \in 1 .. Cardinality({n \in DOMAIN ps : PassesOn(r, ps[n])}) |-> r]

(* And when the routers receive, one after the other, what is for them.    *)
AllWoken(out) ==
  LET after[n \in 0 .. Cardinality(Routers)] ==
        IF n = 0 THEN <<>> ELSE after[n - 1] \o Woken(Ordered[n], out[Ordered[n]])
  IN  after[Cardinality(Routers)]

(* The packets at the front of the queue that are due.                     *)
DueCount(c) ==
  LET ready == {n \in 0 .. Len(c.queue) : \A k \in 1 .. n : c.queue[k].left = 0}
  IN  CHOOSE n \in ready : \A m \in ready : m <= n
Due(c) == [k \in 1 .. DueCount(c) |-> c.queue[k].pkt]

Length(ps) ==
  LET sum[n \in 0 .. Len(ps)] == IF n = 0 THEN 0 ELSE sum[n - 1] + ps[n].len
  IN  sum[Len(ps)]

ShiftedSlip(c) ==              \* size stays
  [c EXCEPT !.queue = SubSeq(@, DueCount(c) + 1, Len(@))]

(* The queue after those were shifted off.                                 *)
Shifted(c) ==
  [queue |-> SubSeq(c.queue, DueCount(c) + 1, Len(c.queue)),
   size  |-> c.size - Length(Due(c))]

(* The least of what the routers have to wait.                             *)
Soonest(waits) ==
  IF waits = {} THEN Forever ELSE CHOOSE w \in waits : \A v \in waits : w <= v

(* The packets of flow f among ps.                                         *)
OfFlow(ps, f) ==
  LET those[n \in 0 .. Len(ps)] ==
        IF n = 0 THEN <<>>
        ELSE IF <<ps[n].src, ps[n].dst>> = f THEN Append(those[n - 1], ps[n])
        ELSE those[n - 1]
  IN  those[Len(ps)]

Wait(c) == IF c.queue = <<>> THEN {} ELSE {Head(c.queue).left}

SleepAfterSlip(waits) == Soonest(waits)     \* of the last router only

(* sleepSeconds after a router with these waits.                           *)
SleepAfter(waits) ==
  Soonest(waits \cup (IF sleep = Forever THEN {} ELSE {sleep}))

----------------------------------------------------------------------------
(* A packet arrives at the socket: the router of its source receives it,   *)
(* if there is one, and all routers have to run.                           *)
Receive(p) ==
  /\ selecting /\ sending
  /\ routes' = [l \in Links |-> IF l[1] = p.src THEN Received(routes[l], l, <<p>>)
                                ELSE routes[l]]
  /\ runRouters' = (IF p.src \in Routers THEN Woken(p.src, <<p>>) ELSE <<>>) \o Ordered
  /\ selecting' = (runRouters' = <<>>)
  /\ sleep' = Forever
  /\ got' = NoArrivals
  /\ UNCHANGED sending

(* can_read returns without a packet.                                      *)
WakeUp ==
  /\ selecting /\ sleep = 0
  /\ runRouters' = Ordered
  /\ selecting' = (runRouters' = <<>>)
  /\ sleep' = Forever
  /\ got' = NoArrivals
  /\ UNCHANGED <<routes, sending>>

(* run of the next router: what is due on its links goes to the routers at *)
(* their other ends, which deliver it or put it into queues of their own.  *)
Run ==
  LET self == Head(runRouters)
      out  == [r \in Routers |->
                 IF <<self, r>> \in Links THEN Due(routes[<<self, r>>]) ELSE <<>>]
  IN  /\ ~ selecting
      /\ routes' = [l \in Links |-> IF l[1] = self THEN Shifted(routes[l])
                                    ELSE Received(routes[l], l, out[l[1]])]
      /\ got' = [f \in Flows |-> IF f[2] \in Routers THEN OfFlow(out[f[2]], f) ELSE <<>>]
      /\ runRouters' = Tail(runRouters) \o AllWoken(out)
      /\ sleep' = SleepAfter(UNION {Wait(routes'[l]) : l \in {k \in Links : k[1] = self}})
      /\ selecting' = (runRouters' = <<>>)
      /\ UNCHANGED sending

(* Time passes, whether the loop sleeps or runs.                           *)
Later(e) == [pkt |-> e.pkt, left |-> IF e.left > 0 THEN e.left - 1 ELSE 0]
Elapse ==
  /\ routes' = [l \in Links |->
       [queue |-> [k \in DOMAIN routes[l].queue |-> Later(routes[l].queue[k])],
        size  |-> routes[l].size]]
  /\ sleep' = IF selecting /\ sleep > 0 THEN sleep - 1 ELSE sleep
  /\ got' = NoArrivals
  /\ UNCHANGED <<runRouters, selecting, sending>>

(* The peers have nothing more to send.                                    *)
Cease ==
  /\ sending' = FALSE
  /\ got' = NoArrivals
  /\ UNCHANGED <<routes, runRouters, selecting, sleep>>

Next ==
  \/ \E p \in Packets : <<p.src, p.dst>> \in Flows /\ Receive(p)
  \/ WakeUp
  \/ Run
  \/ Elapse
  \/ Cease

Spec == Init /\ [][Next]_vars

(* Time passes and the loop goes on.                                       *)
Fairness == WF_vars(WakeUp) /\ WF_vars(Run) /\ WF_vars(Elapse)
FairSpec == Spec /\ Fairness

----------------------------------------------------------------------------
(* size, which delays what comes into a queue, counts what is in it: the   *)
(* two are changed apart, by enQ and by run. And a queue holds its bound.  *)
QueuesAreExact ==
  \A l \in Links :
    /\ Len(routes[l].queue) <= QueueMax
    /\ routes[l].size = Length(Pkts(routes[l]))

(* The loop sleeps without a limit only when all queues are empty, though  *)
(* a router may get packets from another after it has run.                 *)
SleepsOnlyIdle ==
  selecting /\ sleep = Forever => \A l \in Links : routes[l].queue = <<>>

InNetwork ==
  Cardinality({x \in Links \X (1 .. QueueMax) : x[2] \in DOMAIN routes[x[1]].queue})
Arrivals  ==
  Cardinality({x \in Flows \X (1 .. QueueMax) : x[2] \in DOMAIN got[x[1]]})

(* While the whole network holds no more packets than one queue can, none  *)
(* is lost on the way, whichever queues they meet in.                      *)
LightTrafficIsKept ==
  [][~ selecting /\ InNetwork <= QueueMax => InNetwork' + Arrivals' = InNetwork]_vars

(* The path of each flow, and what it has in the network, the oldest       *)
(* first: the queues of the path, from the last one back.                  *)
Paths ==
  [f \in Flows \cap (Routers \X Routers) |->
     LET at[n \in 0 .. Cardinality(Routers)] ==
           IF n = 0 THEN f[1]
           ELSE LET r == at[n - 1] IN IF r = f[2] THEN r ELSE Table[r][f[2]]
     IN  [n \in 0 .. Cardinality(Routers) |-> at[n]]]

OnItsWay(f) ==
  LET at == Paths[f]
      trail[n \in 0 .. Cardinality(Routers)] ==
        IF n = 0 THEN <<>>
        ELSE IF at[n - 1] = f[2] THEN trail[n - 1]
        ELSE OfFlow(Pkts(routes[<<at[n - 1], at[n]>>]), f) \o trail[n - 1]
  IN  trail[Cardinality(Routers)]

C == INSTANCE Channel WITH
       chan <- [f \in Flows |-> IF f \in Routers \X Routers THEN OnItsWay(f) ELSE <<>>]

(* The network of queues is, for each flow, a channel that may lose what   *)
(* it carries but neither reorders nor repeats it.                         *)
ImplementsChannel == C!Spec

(* When nobody sends any more, all queues run empty.                       *)
Drains == ~ sending ~> \A l \in Links : routes[l].queue = <<>>
=============================================================================
