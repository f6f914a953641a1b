-------------------------- MODULE ResponserProofs --------------------------
(* Proofs about the responser, for every value of the constants.           *)
EXTENDS Responser, FiniteSetTheorems, TLAPS

(* The counter counts the peers that are marked.                           *)
Counted == /\ uploading_cnt = Cardinality(Serving)
           /\ uploading_cnt # 0 => uploading_cnt <= MaxConn

(* The inductive invariant.  That the senders in use are as many as the    *)
(* marked peers, which CountIsExact says too, follows: peer is a bijection *)
(* between them.                                                           *)
IInv == TypeOK /\ OneSenderEach /\ Counted

(* The marked peers are finitely many.                                     *)
LEMMA ServingFinite == IsFiniteSet(Serving) /\ Serving \subseteq Peers
  BY FS_Subset, PeersAssumption DEF Serving

(* The senders in use are as many as the marked peers.                     *)
LEMMA AsManySenders ==
  ASSUME TypeOK, OneSenderEach
  PROVE  Cardinality(Busy) = Cardinality(Serving)
<1> DEFINE f == [i \in Busy |-> peer[i]]
<1>1. f \in [Busy -> Serving]
  BY DEF OneSenderEach, Busy, Serving, InUse
<1>2. \A i, j \in Busy : f[i] = f[j] => i = j
  BY DEF OneSenderEach
<1>3. \A p \in Serving : \E i \in Busy : f[i] = p
  BY DEF OneSenderEach, Busy, Serving, InUse
<1>4. f \in Bijection(Busy, Serving)
  BY <1>1, <1>2, <1>3 DEF Bijection, Injection, Surjection, IsInjective
<1>5. IsFiniteSet(Busy)
  <2>1. 0 \in Int /\ MaxUpload - 1 \in Int
    BY LimitsAssumption
  <2>2. IsFiniteSet(Slots)
    BY <2>1, FS_Interval DEF Slots
  <2> QED
    BY <2>2, FS_Subset DEF Busy
<1> QED
  BY <1>4, <1>5, FS_Bijection DEF ExistsBijection

(* A connection is opened for a peer that is not served, in an idle slot.  *)
LEMMA ServeInv ==
  ASSUME IInv, NEW p \in Peers, NEW i \in Slots, Serve(p, i)
  PROVE  IInv'
<1>1. /\ is_idle' = [is_idle EXCEPT ![i] = FALSE] /\ is_idle[i]
      /\ peer' = [peer EXCEPT ![i] = p]
      /\ uploadingto' = [uploadingto EXCEPT ![p] = TRUE] /\ ~ uploadingto[p]
      /\ uploading_cnt' = uploading_cnt + 1 /\ uploading_cnt < MaxConn
      /\ out' = {}
  BY DEF Serve, Opened, MayServe, FindSender
<1>2. TypeOK'
  BY <1>1 DEF IInv, TypeOK
<1>3. \A q \in Peers, j \in Slots :
        InUse(q, j)' <=> IF j = i THEN q = p ELSE InUse(q, j)
  BY <1>1 DEF IInv, TypeOK, InUse
<1>4. OneSenderEach'
  <2>1. ASSUME NEW q \in Peers
        PROVE  uploadingto'[q] <=> \E j \in Slots : InUse(q, j)'
    <3>1. uploadingto[q] <=> \E j \in Slots : InUse(q, j)
      BY DEF IInv, OneSenderEach
    <3>2. ~ InUse(q, i)
      BY <1>1 DEF InUse
    <3>3. uploadingto'[q] <=> q = p \/ uploadingto[q]
      BY <1>1 DEF IInv, TypeOK
    <3> QED
      BY <3>1, <3>2, <3>3, <1>3
  <2>2. \A j \in Slots : ~ is_idle'[j] => j = i \/ ~ is_idle[j]
    BY <1>1 DEF IInv, TypeOK
  <2>3. \A j \in Busy' : peer'[j] = (IF j = i THEN p ELSE peer[j])
    BY <1>1 DEF IInv, TypeOK, Busy
  <2>4. \A j \in Busy : peer[j] # p
    BY <1>1 DEF IInv, OneSenderEach, InUse, Busy
  <2>5. \A j \in Busy' : j = i \/ j \in Busy
    BY <2>2 DEF Busy
  <2>6. \A j, k \in Busy' : peer'[j] = peer'[k] => j = k
    BY <2>3, <2>4, <2>5 DEF IInv, OneSenderEach
  <2>7. \A j \in Busy' : peer'[j] \in Peers
    BY <2>3, <2>5 DEF IInv, OneSenderEach
  <2> QED
    BY <2>1, <2>6, <2>7 DEF OneSenderEach
<1>5. Counted'
  <2>1. Serving' = Serving \cup {p} /\ p \notin Serving
    BY <1>1 DEF IInv, TypeOK, Serving
  <2>2. Cardinality(Serving') = Cardinality(Serving) + 1
    BY <2>1, ServingFinite, FS_AddElement
  <2> QED
    BY <1>1, <2>2, LimitsAssumption DEF IInv, Counted, TypeOK
<1> QED
  BY <1>2, <1>4, <1>5 DEF IInv

(* Closing the connections of S idles the senders of S and no others.      *)
LEMMA ClosedSlots ==
  ASSUME IInv, NEW S \in SUBSET Peers, ConnectionClosed(S)
  PROVE  \A i \in Slots : is_idle'[i] <=> is_idle[i] \/ peer[i] \in S
<1> SUFFICES ASSUME NEW i \in Slots
             PROVE  is_idle'[i] <=> is_idle[i] \/ peer[i] \in S
  OBVIOUS
<1>1. is_idle'[i] <=> is_idle[i] \/ \E p \in S : uploadingto[p] /\ SlotOf(p, i)
  BY DEF ConnectionClosed
<1>2. ASSUME ~ is_idle[i], peer[i] \in S
      PROVE  uploadingto[peer[i]] /\ SlotOf(peer[i], i)
  <2>1. InUse(peer[i], i) /\ i \in Busy
    BY <1>2 DEF InUse, Busy
  <2>2. uploadingto[peer[i]]
    BY <2>1, <1>2 DEF IInv, OneSenderEach
  <2>3. \A j \in Slots : j < i => ~ InUse(peer[i], j)
    <3> SUFFICES ASSUME NEW j \in Slots, j < i, InUse(peer[i], j) PROVE FALSE
      OBVIOUS
    <3>1. j \in Busy /\ peer[j] = peer[i]
      BY DEF InUse, Busy
    <3>2. j = i
      BY <3>1, <2>1 DEF IInv, OneSenderEach
    <3> QED
      BY <3>2, LimitsAssumption DEF Slots
  <2> QED
    BY <2>1, <2>2, <2>3 DEF SlotOf
<1>3. ASSUME NEW p \in S, SlotOf(p, i)
      PROVE  peer[i] \in S
  BY <1>3 DEF SlotOf, InUse
<1> QED
  BY <1>1, <1>2, <1>3

(* Closing connections keeps the invariant.                                *)
LEMMA ConnectionClosedInv ==
  ASSUME IInv, NEW S \in SUBSET Peers, ConnectionClosed(S)
  PROVE  IInv'
<1>1. /\ uploadingto' = [p \in Peers |-> uploadingto[p] /\ p \notin S]
      /\ uploading_cnt' = uploading_cnt - Cardinality({p \in S : uploadingto[p]})
      /\ out' = {} /\ peer' = peer
      /\ is_idle' \in [Slots -> BOOLEAN]
  BY DEF ConnectionClosed, Released, IInv, TypeOK
<1>2. \A i \in Slots : is_idle'[i] <=> is_idle[i] \/ peer[i] \in S
  BY ClosedSlots
<1>3. OneSenderEach'
  <2>1. Busy' \subseteq Busy
    BY <1>2 DEF Busy
  <2>2. \A p \in Peers, i \in Slots : InUse(p, i)' <=> InUse(p, i) /\ p \notin S
    BY <1>1, <1>2 DEF InUse
  <2>3. \A p \in Peers : uploadingto'[p] <=> \E i \in Slots : InUse(p, i)'
    BY <1>1, <2>2 DEF IInv, OneSenderEach
  <2> QED
    BY <2>1, <2>3, <1>1 DEF IInv, OneSenderEach
<1>4. /\ uploading_cnt' = Cardinality(Serving')
      /\ Cardinality(Serving') \in Nat
      /\ uploading_cnt' <= uploading_cnt
  <2>1. Serving' = Serving \ S
    BY <1>1 DEF Serving
  <2>2. {p \in S : uploadingto[p]} = Serving \cap S
    BY DEF Serving
  <2>3. Cardinality(Serving \ S) = Cardinality(Serving) - Cardinality(Serving \cap S)
    BY ServingFinite, FS_Difference
  <2>4. IsFiniteSet(Serving \ S) /\ IsFiniteSet(Serving \cap S)
    BY ServingFinite, FS_Subset
  <2>5. /\ Cardinality(Serving) \in Nat /\ Cardinality(Serving \ S) \in Nat
        /\ Cardinality(Serving \cap S) \in Nat
    BY <2>4, ServingFinite, FS_CardinalityType
  <2> QED
    BY <1>1, <2>1, <2>2, <2>3, <2>5 DEF IInv, Counted
<1>5. TypeOK'
  BY <1>1, <1>4 DEF IInv, TypeOK
<1>6. Counted'
  BY <1>4, LimitsAssumption DEF IInv, Counted, TypeOK
<1> QED
  BY <1>3, <1>5, <1>6 DEF IInv

(* A step that only sends packets disturbs nothing.                        *)
LEMMA SilentInv ==
  ASSUME IInv, UNCHANGED <<uploadingto, uploading_cnt, is_idle, peer>>, (out \subseteq Packets)'
  PROVE  IInv'
<1>1. TypeOK'
  BY DEF IInv, TypeOK
<1>2. OneSenderEach'
  BY DEF IInv, OneSenderEach, InUse, Busy
<1>3. Counted'
  BY DEF IInv, Counted, Serving
<1> QED
  BY <1>1, <1>2, <1>3 DEF IInv

(* Nothing is open at the start.                                           *)
LEMMA InitInv == Init => IInv
<1> SUFFICES ASSUME Init PROVE IInv
  OBVIOUS
<1>1. TypeOK
  BY DEF Init, TypeOK
<1>2. OneSenderEach
  BY DEF Init, OneSenderEach, InUse, Busy
<1>3. Serving = {}
  BY DEF Init, Serving
<1>4. Counted
  BY <1>3, FS_EmptySet DEF Init, Counted
<1> QED
  BY <1>1, <1>2, <1>4 DEF IInv

(* The invariant is inductive.                                             *)
LEMMA NextInv == IInv /\ [Next]_vars => IInv'
<1> SUFFICES ASSUME IInv, [Next]_vars PROVE IInv'
  OBVIOUS
<1>1. ASSUME NEW p \in Peers, NEW hs \in SUBSET Hashes, WhoHas(p, hs) PROVE IInv'
  <2>1. out' \subseteq Packets
    BY <1>1 DEF WhoHas, IHave, Packets
  <2> QED
    BY <1>1, <2>1, SilentInv DEF WhoHas
<1>2. ASSUME NEW p \in Peers, NEW h \in Hashes, Get(p, h) PROVE IInv'
  BY <1>2, ServeInv, SilentInv DEF Get
<1>3. ASSUME NEW S \in SUBSET Peers, ConnectionClosed(S) PROVE IInv'
  BY <1>3, ConnectionClosedInv
<1>4. CASE UNCHANGED vars
  BY <1>4, SilentInv DEF vars, IInv, TypeOK
<1> QED
  BY <1>1, <1>2, <1>3, <1>4 DEF Next

(* The inductive invariant holds of every behaviour of the responser.      *)
THEOREM Inductive == Spec => []IInv
  BY InitInv, NextInv, PTL DEF Spec

(* The responser is type correct.                                          *)
THEOREM TypeCorrect == Spec => []TypeOK
<1>1. IInv => TypeOK
  BY DEF IInv
<1> QED
  BY <1>1, Inductive, PTL

(* A peer is marked as served exactly if one sender of the pool serves it. *)
THEOREM OneSenderEachHolds == Spec => []OneSenderEach
<1>1. IInv => OneSenderEach
  BY DEF IInv
<1> QED
  BY <1>1, Inductive, PTL

(* uploading_cnt counts both, and never exceeds max_conn.                  *)
THEOREM CountIsExactHolds == Spec => []CountIsExact
<1>1. IInv => CountIsExact
  BY AsManySenders DEF IInv, Counted, CountIsExact
<1> QED
  BY <1>1, Inductive, PTL

(* Opening and closing connections leaves the others alone.                *)
LEMMA StepUndisturbed ==
  ASSUME IInv, [Next]_vars, NEW i \in Slots, ~ is_idle[i]
  PROVE  /\ peer'[i] = peer[i]
         /\ is_idle'[i] <=> ~ uploadingto'[peer[i]]
<1>1. peer[i] \in Peers /\ uploadingto[peer[i]] = TRUE
  BY DEF IInv, TypeOK, OneSenderEach, Busy, InUse
<1>2. CASE UNCHANGED <<uploadingto, uploading_cnt, is_idle, peer>>
  BY <1>1, <1>2
<1>3. ASSUME NEW p \in Peers, NEW j \in Slots, Serve(p, j)
      PROVE  /\ peer'[i] = peer[i]
             /\ is_idle'[i] <=> ~ uploadingto'[peer[i]]
  <2>1. i # j
    BY <1>3 DEF Serve, Opened, FindSender
  <2> QED
    BY <1>1, <1>3, <2>1 DEF Serve, Opened, IInv, TypeOK
<1>4. ASSUME NEW S \in SUBSET Peers, ConnectionClosed(S)
      PROVE  /\ peer'[i] = peer[i]
             /\ is_idle'[i] <=> ~ uploadingto'[peer[i]]
  BY <1>1, <1>4, ClosedSlots DEF ConnectionClosed, Released
<1> QED
  BY <1>2, <1>3, <1>4 DEF Next, vars, WhoHas, Get

(* A sender in use keeps its peer until that peer's connection is closed.  *)
THEOREM UndisturbedHolds == Spec => Undisturbed
<1>1. IInv /\ [Next]_vars =>
        [\A i \in Slots : ~ is_idle[i] =>
           /\ peer'[i] = peer[i]
           /\ is_idle'[i] <=> ~ uploadingto'[peer[i]]]_vars
  BY StepUndisturbed
<1> QED
  BY <1>1, Inductive, PTL DEF Spec, Undisturbed
=============================================================================
