------------------------------ MODULE Channel ------------------------------
(***************************************************************************)
(* What a peer may expect of the network between it and another: packets   *)
(* of one flow arrive in the order they were sent, no more often than they *)
(* were sent, or not at all.                                               *)
(***************************************************************************)
EXTENDS Integers, Sequences

CONSTANTS
  Flows,      \* pairs of peers, the sender first
  Packets     \* what is sent

VARIABLES
  chan,       \* the packets of each flow on their way, the oldest first
  got         \* the packets that arrived with the last step

vars == <<chan, got>>

Init ==
  /\ chan = [f \in Flows |-> <<>>]
  /\ got = [f \in Flows |-> <<>>]

(* t is what may be left of s: some of its packets, in their order.        *)
Remains(t, s) ==
  \E at \in [DOMAIN t -> DOMAIN s] : \A k \in DOMAIN t :
    t[k] = s[at[k]] /\ \A j \in 1 .. k - 1 : at[j] < at[k]

(* A packet sets out, or is lost at once.                                  *)
Send(f, p) ==
  /\ got' = [g \in Flows |-> <<>>]
  /\ chan' \in {chan, [chan EXCEPT ![f] = Append(@, p)]}

(* Of a flow some of the oldest packets arrive; of all some are lost.      *)
Moves(before, arrived, after) ==
  \E k \in 0 .. Len(before) :
    /\ Remains(arrived, SubSeq(before, 1, k))
    /\ Remains(after, SubSeq(before, k + 1, Len(before)))

Move ==
  /\ DOMAIN chan' = Flows /\ DOMAIN got' = Flows
  /\ \A f \in Flows : Moves(chan[f], got'[f], chan'[f])

Next == (\E f \in Flows, p \in Packets : Send(f, p)) \/ Move

Spec == Init /\ [][Next]_vars
=============================================================================
