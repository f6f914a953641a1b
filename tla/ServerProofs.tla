---------------------------- MODULE ServerProofs ----------------------------
(* Proof that the senders of send.c and the select loop behave as the      *)
(* responser expects, for every value of the constants.  What the          *)
(* responser's own invariants are is proved in ResponserProofs.            *)
EXTENDS Server, TLAPS

RP == INSTANCE ResponserProofs WITH is_idle <- IsIdle

(* The little that the responser sees of a sender.                         *)
Flagged(s) == "is_idle" \in DOMAIN s /\ s.is_idle \in BOOLEAN

Pool(next) == next = [i \in Slots |-> next[i]] /\ \A i \in Slots : Flagged(next[i])

(* The inductive invariant.  The responser's is needed in it: a callback   *)
(* closes the sender it comes from because no other serves the same peer.  *)
IInv == RP!IInv /\ Pool(senders)

(* The two instances of Responser say the same.                            *)
LEMMA SameCardinality == ASSUME NEW S PROVE RP!Cardinality(S) = R!Cardinality(S)
  BY DEF RP!Cardinality, R!Cardinality

LEMMA SameInit == R!Init => RP!Init
  BY DEF R!Init, RP!Init, R!Slots, RP!Slots

LEMMA SameGet == \A p \in Peers, h \in Hashes : R!Get(p, h) => RP!Get(p, h)
  BY DEF R!Get, RP!Get, R!Serve, RP!Serve, R!Refused, RP!Refused, R!Opened, RP!Opened,
         R!MayServe, RP!MayServe, R!FindSender, RP!FindSender, R!Slots, RP!Slots

LEMMA SameClosed == \A S \in SUBSET Peers : R!ConnectionClosed(S) => RP!ConnectionClosed(S)
  BY SameCardinality
  DEF R!ConnectionClosed, RP!ConnectionClosed, R!SlotOf, RP!SlotOf, R!InUse, RP!InUse,
      R!Slots, RP!Slots, R!Released, RP!Released

LEMMA SameNext == R!Next => RP!Next
<1>1. \A p \in Peers, hs \in SUBSET Hashes : R!WhoHas(p, hs) => RP!WhoHas(p, hs)
  BY DEF R!WhoHas, RP!WhoHas, R!IHave, RP!IHave
<1> QED
  BY <1>1, SameGet, SameClosed DEF R!Next, RP!Next

LEMMA FinitePeers == RP!IsFiniteSet(Peers)
  BY ServerAssumption DEF RP!IsFiniteSet, IsFiniteSet

(* So a step of the responser keeps its invariant.                         *)
LEMMA ResponserInv == ASSUME RP!IInv, [R!Next]_(R!vars) PROVE RP!IInv'
<1>1. [RP!Next]_(RP!vars)
  BY SameNext DEF R!vars, RP!vars
<1> QED
  BY <1>1, FinitePeers, ServerAssumption, RP!NextInv

----------------------------------------------------------------------------
(* What the handlers of a sender do to its flag.                           *)

LEMMA FilledFlag == Flagged(Filled) /\ ~ Filled.is_idle
  BY DEF Flagged, Filled, InitSender

LEMMA AgedFlag ==
  ASSUME NEW s, Flagged(s) PROVE Flagged(Aged(s)) /\ Aged(s).is_idle = s.is_idle
  BY DEF Flagged, Aged

LEMMA WindowFlags ==
  ASSUME NEW s, Flagged(s), NEW i
  PROVE  Flagged(WdLost(s)) /\ Flagged(WdAck(s)) /\ Flagged(CtlSend(s, i)) /\ Flagged(Closed(s))
  BY DEF Flagged, WdLost, WdAck, CtlSend, Closed

LEMMA AckFlag ==
  ASSUME NEW s, Flagged(s), NEW n PROVE Flagged(CtlUdpAck(s, n, FALSE))
<1> DEFINE counted == CountAck(s, n, FALSE)
<1>1. Flagged(counted)
  <2>1. \A k : Flagged([s EXCEPT !.last_ack_cnt = k])
    BY DEF Flagged
  <2>2. Flagged([s EXCEPT !.last_ack_num = n, !.last_ack_cnt = 1])
    BY DEF Flagged
  <2> QED
    BY <2>1, <2>2, WindowFlags DEF CountAck
<1>2. \A u : Flagged(u) => Flagged(ShiftHead(u, n))
  BY DEF Flagged, ShiftHead
<1>3. \A u, k : Flagged(u) => Flagged(SendReached(u, k))
  BY DEF Flagged, SendReached
<1> QED
  BY <1>1, <1>2, <1>3, WindowFlags DEF CtlUdpAck

LEMMA TimeOutFlag ==
  ASSUME NEW s, Flagged(s)
  PROVE  /\ Flagged(CtlUdpTimeOut(s))
         /\ s.is_idle => CtlUdpTimeOut(s) = s
<1> DEFINE ticked == [s EXCEPT !.last_tick = 0]
<1>1. Flagged(ticked)
  BY DEF Flagged
<1>2. \A i : Flagged(Resend(ticked, i))
  <2>1. \A i : Flagged([ticked EXCEPT !.pkt_buf[i].resend = @ + 1])
    BY <1>1 DEF Flagged
  <2> QED
    BY <2>1, WindowFlags DEF Resend
<1> QED
  BY <1>1, <1>2, WindowFlags DEF CtlUdpTimeOut, Due

----------------------------------------------------------------------------
(* If the senders run, those that are done call back, and the responser    *)
(* closes exactly their connections.                                       *)
LEMMA RunCloses ==
  ASSUME IInv, NEW next, Pool(next), Run(next),
         \A i \in Slots : senders[i].is_idle => next[i].is_idle
  PROVE  \E S \in SUBSET Peers : R!ConnectionClosed(S)
<1> DEFINE S == {p \in Peers : \E i \in Slots : R!InUse(p, i) /\ next[i].is_idle}
<1>1. RP!OneSenderEach
  BY DEF IInv, RP!IInv
<1>2. R!Released(S) /\ senders' = next
  BY DEF Run
<1>3. \A p \in S : \E i \in R!Slots : R!InUse(p, i)
  BY DEF R!Slots, Slots
<1>4. ASSUME NEW i \in Slots
      PROVE  next[i].is_idle <=>
               senders[i].is_idle \/ \E p \in S : uploadingto[p] /\ R!SlotOf(p, i)
  <2>1. \A p \in Peers : \A j, k \in Slots : R!InUse(p, j) /\ R!InUse(p, k) => j = k
    BY <1>1 DEF RP!OneSenderEach, RP!Busy, RP!Slots, Slots, R!InUse, IsIdle
  <2>2. ASSUME ~ senders[i].is_idle, next[i].is_idle
        PROVE  \E p \in S : uploadingto[p] /\ R!SlotOf(p, i)
    <3>1. peer[i] \in Peers /\ R!InUse(peer[i], i)
      BY <1>1, <2>2 DEF RP!OneSenderEach, RP!Busy, RP!Slots, Slots, R!InUse, IsIdle
    <3>2. uploadingto[peer[i]]
      BY <1>1, <3>1 DEF RP!OneSenderEach, RP!InUse, R!InUse, RP!Slots, Slots
    <3>3. R!SlotOf(peer[i], i)
      BY <2>1, <3>1 DEF R!SlotOf, R!Slots, Slots
    <3> QED
      BY <2>2, <3>1, <3>2, <3>3
  <2>3. ASSUME NEW p \in S, R!SlotOf(p, i) PROVE next[i].is_idle
    BY <2>1, <2>3 DEF R!SlotOf
  <2> QED
    BY <2>2, <2>3
<1>5. IsIdle' = [i \in R!Slots |->
                   IsIdle[i] \/ \E p \in S : uploadingto[p] /\ R!SlotOf(p, i)]
  <2>1. R!Slots = Slots
    BY DEF R!Slots, Slots
  <2>2. \A i \in Slots : /\ next[i].is_idle \in BOOLEAN /\ senders[i].is_idle \in BOOLEAN
                         /\ IsIdle[i] = senders[i].is_idle
    BY DEF IInv, Pool, Flagged, IsIdle
  <2>3. IsIdle' = [i \in Slots |-> next[i].is_idle]
    BY <1>2 DEF IsIdle, Slots
  <2> QED
    BY <1>4, <2>1, <2>2, <2>3
<1> QED
  BY <1>2, <1>3, <1>5 DEF R!ConnectionClosed

LEMMA GetStep ==
  ASSUME IInv, NEW p \in Peers, NEW h \in Hashes, Get(p, h)
  PROVE  R!Get(p, h) /\ Pool(senders')
<1>1. CASE \E i \in Slots : senders' = [senders EXCEPT ![i] = Filled] /\ h \in HasChunks /\ R!Opened(p, i)
  <2>1. PICK i \in Slots : senders' = [senders EXCEPT ![i] = Filled] /\ h \in HasChunks /\ R!Opened(p, i)
    BY <1>1
  <2>2. /\ senders' = [j \in Slots |-> IF j = i THEN Filled ELSE senders[j]]
        /\ Pool(senders')
    BY <2>1, FilledFlag DEF IInv, Pool
  <2>3. IsIdle' = [IsIdle EXCEPT ![i] = FALSE]
    BY <2>2, FilledFlag DEF IsIdle, Slots, Flagged
  <2> QED
    BY <2>1, <2>2, <2>3 DEF R!Get, R!Serve, R!Slots, Slots
<1>2. CASE R!Refused(p, h) /\ out' = {} /\ UNCHANGED <<uploadingto, uploading_cnt, peer, senders>>
  BY <1>2 DEF R!Get, IsIdle, Slots, IInv
<1> QED
  BY <1>1, <1>2 DEF Get

(* Every step is one of the responser, or none of its business.            *)
LEMMA Step == ASSUME IInv, [Next]_vars PROVE [R!Next]_(R!vars) /\ Pool(senders')
<1>1. ASSUME NEW p \in Peers, NEW h \in Hashes, Get(p, h)
      PROVE  [R!Next]_(R!vars) /\ Pool(senders')
  BY <1>1, GetStep DEF R!Next
<1>2. ASSUME NEW p \in Peers, NEW n \in 0 .. BufferLen, ReceiveAck(p, n)
      PROVE  [R!Next]_(R!vars) /\ Pool(senders')
  <2> DEFINE next == [i \in Slots |->
                        IF R!InUse(p, i) THEN CtlUdpAck(senders[i], n, FALSE) ELSE senders[i]]
  <2>1. Pool(next)
    BY AckFlag DEF IInv, Pool
  <2>2. \A i \in Slots : senders[i].is_idle => next[i].is_idle
    BY DEF R!InUse, IsIdle, Slots
  <2>3. Run(next) /\ senders' = next
    BY <1>2 DEF ReceiveAck, Run
  <2> HIDE DEF next
  <2> QED
    BY <2>1, <2>2, <2>3, RunCloses DEF R!Next
<1>3. ASSUME Tick PROVE [R!Next]_(R!vars) /\ Pool(senders')
  <2> DEFINE next == [i \in Slots |-> CtlUdpTimeOut(senders[i])]
  <2>1. Pool(next) /\ \A i \in Slots : senders[i].is_idle => next[i].is_idle
    BY TimeOutFlag DEF IInv, Pool
  <2>2. Run(next) /\ senders' = next
    BY <1>3 DEF Tick, Run
  <2> HIDE DEF next
  <2> QED
    BY <2>1, <2>2, RunCloses DEF R!Next
<1>4. ASSUME Elapse PROVE [R!Next]_(R!vars) /\ Pool(senders')
  <2>1. senders' = [i \in Slots |-> IF senders[i].is_idle THEN senders[i] ELSE Aged(senders[i])]
    BY <1>4 DEF Elapse
  <2>2. Pool(senders') /\ \A i \in Slots : senders'[i].is_idle = senders[i].is_idle
    BY <2>1, AgedFlag DEF IInv, Pool
  <2>3. IsIdle' = IsIdle
    BY <2>2 DEF IsIdle, Slots
  <2> QED
    BY <1>4, <2>2, <2>3 DEF Elapse, R!vars
<1>5. ASSUME NEW p \in Peers, Die(p) PROVE [R!Next]_(R!vars) /\ Pool(senders')
  BY <1>5 DEF Die, R!vars, IsIdle, Slots, IInv
<1>6. CASE UNCHANGED vars
  BY <1>6 DEF vars, R!vars, IsIdle, Slots, IInv
<1> QED
  BY <1>1, <1>2, <1>3, <1>4, <1>5, <1>6 DEF Next

LEMMA InitStep == ASSUME Init PROVE R!Init /\ IInv
<1>1. Flagged(Closed(InitSender)) /\ Closed(InitSender).is_idle
  BY DEF Flagged, Closed, InitSender
<1>2. R!Init /\ Pool(senders)
  BY <1>1 DEF Init, R!Init, R!Slots, Slots, IsIdle, Pool
<1> QED
  BY <1>2, SameInit, FinitePeers, ServerAssumption, RP!InitInv DEF IInv

(* The invariant holds of the whole server.                                *)
THEOREM Inductive == Spec => []IInv
<1>1. IInv /\ [Next]_vars => IInv'
  BY Step, ResponserInv DEF IInv
<1> QED
  BY <1>1, InitStep, PTL DEF Spec

(* The senders of send.c, driven by peer.c, call back exactly as the       *)
(* responser expects: only those that are done, each once, any number in a *)
(* tick, and never a sender that serves nobody.                            *)
THEOREM Refinement == Spec => ImplementsResponser
<1>1. IInv /\ [Next]_vars => [R!Next]_(R!vars)
  BY Step
<1> QED
  BY <1>1, InitStep, Inductive, PTL DEF Spec, ImplementsResponser, R!Spec
=============================================================================
