----------------------------- MODULE Responser -----------------------------
(***************************************************************************)
(* The responser of a peer (responser.c): the upload half of the program   *)
(* without the transfers themselves.  A GET of a chunk the peer has opens  *)
(* a connection: a sender that is idle is taken from a pool of MaxUpload,  *)
(* unless the peer that asks is being served already or max_conn are.  A   *)
(* sender that is done, or gives its peer up, calls back to be released.   *)
(*                                                                         *)
(* The pool is a global array of peer.c; here only what the responser      *)
(* reads and writes of it is kept, and a connection may close at any time. *)
(* Server puts the senders of send.c in the pool.                          *)
(*                                                                         *)
(* Definitions named ...Slip are slips a programmer might make in the      *)
(* definition that follows; they are not part of the specification.        *)
(***************************************************************************)
EXTENDS Integers, FiniteSets

CONSTANTS
  Peers,      \* ids in the peer list of the configuration
  Hashes,     \* chunk hashes that may be asked for
  HasChunks,  \* those of the has-chunk file
  MaxUpload,  \* BT_MAX_UPLOAD, the senders in the pool
  MaxConn     \* config.max_conn, which need not be sensible

Slots == 0 .. MaxUpload - 1

ASSUME PeersAssumption  == IsFiniteSet(Peers)
ASSUME ChunksAssumption == HasChunks \subseteq Hashes
ASSUME LimitsAssumption == MaxUpload \in Nat /\ MaxConn \in Int

VARIABLES
  uploadingto,   \* uploadingto[p]: p is being served
  uploading_cnt, \* how many are
  is_idle,       \* is_idle[i]: sender i is free
  peer,          \* peer[i]: whom sender i serves, or served last
  out            \* the packets the responser itself sent in the last step

vars == <<uploadingto, uploading_cnt, is_idle, peer, out>>

(* The pool is in zeroed memory, and 0 may be the id of a peer or of none. *)
Init ==
  /\ uploadingto = [p \in Peers |-> FALSE]
  /\ uploading_cnt = 0
  /\ is_idle = [i \in Slots |-> TRUE]
  /\ peer = [i \in Slots |-> 0]
  /\ out = {}

IHave(p, h) == [type |-> "IHAVE", to |-> p, hash |-> h]
Packets     == [type : {"IHAVE"}, to : Peers, hash : Hashes]

(* WHOHAS: each hash of the packet that the peer has is answered apart.    *)
WhoHas(p, hs) ==
  /\ out' = {IHave(p, h) : h \in hs \cap HasChunks}
  /\ UNCHANGED <<uploadingto, uploading_cnt, is_idle, peer>>

FindSenderSlip(i) == \A j \in Slots : j < i => ~ is_idle[j]   \* it may be in use

(* find_sender takes the first idle sender.                                *)
FindSender(i) == is_idle[i] /\ \A j \in Slots : j < i => ~ is_idle[j]

MayServeSlip(p) == ~ uploadingto[p] /\ uploading_cnt <= MaxConn  \* one too many

(* The guards of send_chunk.                                               *)
MayServe(p) == ~ uploadingto[p] /\ uploading_cnt < MaxConn

(* send_chunk opens a connection to p in slot i...                         *)
Opened(p, i) ==
  /\ MayServe(p)
  /\ FindSender(i)
  /\ peer' = [peer EXCEPT ![i] = p]
  /\ uploadingto' = [uploadingto EXCEPT ![p] = TRUE]
  /\ uploading_cnt' = uploading_cnt + 1
  /\ out' = {}

(* ... whose sender is not idle any more.                                  *)
Serve(p, i) == Opened(p, i) /\ is_idle' = [is_idle EXCEPT ![i] = FALSE]

(* A hash the peer does not have, or a connection it may not open, is      *)
(* answered by silence.                                                    *)
Refused(p, h) == h \notin HasChunks \/ ~ MayServe(p) \/ \A i \in Slots : ~ is_idle[i]

(* GET.                                                                    *)
Get(p, h) ==
  \/ h \in HasChunks /\ \E i \in Slots : Serve(p, i)
  \/ /\ Refused(p, h)
     /\ out' = {}
     /\ UNCHANGED <<uploadingto, uploading_cnt, is_idle, peer>>

InUse(p, i) == ~ is_idle[i] /\ peer[i] = p

SlotOfSlip(p, i) == ~ is_idle[i] /\ \A j \in Slots : j < i => is_idle[j]  \* whose?

(* responser_connection_closed releases the first sender that serves p.    *)
SlotOf(p, i) == InUse(p, i) /\ \A j \in Slots : j < i => ~ InUse(p, j)

ReleasedKeepsCount(S) ==         \* the connection still counts
  /\ uploadingto' = [p \in Peers |-> uploadingto[p] /\ p \notin S]
  /\ out' = {}
  /\ UNCHANGED <<uploading_cnt, peer>>

(* The senders of the peers in S call back in one run of a handler: one    *)
(* sender when the last packet is acknowledged, any number in a tick.      *)
Released(S) ==
  /\ uploadingto' = [p \in Peers |-> uploadingto[p] /\ p \notin S]
  /\ uploading_cnt' = uploading_cnt - Cardinality({p \in S : uploadingto[p]})
  /\ out' = {}
  /\ UNCHANGED peer

(* Only a sender that is not idle calls back.                              *)
ConnectionClosed(S) ==
  /\ \A p \in S : \E i \in Slots : InUse(p, i)
  /\ Released(S)
  /\ is_idle' = [i \in Slots |->
       is_idle[i] \/ \E p \in S : uploadingto[p] /\ SlotOf(p, i)]

Next ==
  \/ \E p \in Peers, hs \in SUBSET Hashes : WhoHas(p, hs)
  \/ \E p \in Peers, h \in Hashes : Get(p, h)
  \/ \E S \in SUBSET Peers : ConnectionClosed(S)

Spec == Init /\ [][Next]_vars

----------------------------------------------------------------------------
(* Every variable has its type.                                            *)
TypeOK ==
  /\ uploadingto \in [Peers -> BOOLEAN]
  /\ uploading_cnt \in Nat
  /\ is_idle \in [Slots -> BOOLEAN]
  /\ peer \in [Slots -> Peers \cup {0}]
  /\ out \subseteq Packets

Serving == {p \in Peers : uploadingto[p]}
Busy    == {i \in Slots : ~ is_idle[i]}

(* uploadingto and the pool are two views of the open connections: a peer  *)
(* is marked exactly if a sender serves it, and one sender serves it.  So  *)
(* the dispatch of ACKs by peer in peer.c reaches one sender, and a        *)
(* callback releases the sender that made it.                              *)
OneSenderEach ==
  /\ \A p \in Peers : uploadingto[p] <=> \E i \in Slots : InUse(p, i)
  /\ \A i, j \in Busy : peer[i] = peer[j] => i = j
  /\ \A i \in Busy : peer[i] \in Peers

(* uploading_cnt is the number of open connections, which is within both   *)
(* limits, so the pool never runs out below the limits, and a connection   *)
(* is never lost from the count for good.                                  *)
CountIsExact ==
  /\ uploading_cnt = Cardinality(Serving)
  /\ uploading_cnt = Cardinality(Busy)
  /\ uploading_cnt # 0 => uploading_cnt <= MaxConn

(* A connection is not disturbed by the opening or closing of others: a    *)
(* sender in use keeps its peer until that peer's connection is closed.    *)
Undisturbed ==
  [][\A i \in Slots : ~ is_idle[i] =>
       /\ peer'[i] = peer[i]
       /\ is_idle'[i] <=> ~ uploadingto'[peer[i]]]_vars
=============================================================================
