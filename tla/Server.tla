------------------------------- MODULE Server -------------------------------
(***************************************************************************)
(* The upload half of a peer: the responser with the senders of send.c in  *)
(* its pool, driven by the select loop of peer.c.  The clients are any     *)
(* peers: each may ask for chunks and acknowledge anything at any moment,  *)
(* until it dies.  A client that is alive asks again until it is served,   *)
(* as the requestor does.                                                  *)
(***************************************************************************)
EXTENDS Send, FiniteSets

CONSTANTS
  Peers, Hashes, HasChunks, MaxUpload, MaxConn,   \* as in Responser
  Period    \* units of time between ticks of the select loop, at least

ASSUME ServerAssumption ==
  /\ IsFiniteSet(Peers) /\ HasChunks \subseteq Hashes /\ MaxUpload \in Nat /\ MaxConn \in Int
  /\ Period \in Nat \ {0} /\ Period > AckTimeout

VARIABLES
  uploadingto, uploading_cnt, peer, out,   \* as in Responser
  senders,    \* senders[i]: the sender of slot i, less its peer
  since_tick, \* the time since the select loop ticked, up to Period
  dead        \* the clients that have died

vars == <<uploadingto, uploading_cnt, peer, out, senders, since_tick, dead>>

Slots   == 0 .. MaxUpload - 1
IsIdle  == [i \in Slots |-> senders[i].is_idle]

R == INSTANCE Responser WITH is_idle <- IsIdle

Init ==
  /\ uploadingto = [p \in Peers |-> FALSE]
  /\ uploading_cnt = 0
  /\ peer = [i \in Slots |-> 0]
  /\ out = {}
  /\ senders = [i \in Slots |-> Closed(InitSender)]
  /\ since_tick = 0
  /\ dead = {}

(* A GET: the sender found is given all packets of the chunk.              *)
Get(p, h) ==
  /\ p \notin dead
  /\ \/ \E i \in Slots :
          /\ senders' = [senders EXCEPT ![i] = Filled]
          /\ h \in HasChunks /\ R!Opened(p, i)
     \/ /\ R!Refused(p, h)
        /\ out' = {}
        /\ UNCHANGED <<uploadingto, uploading_cnt, peer, senders>>
  /\ UNCHANGED <<since_tick, dead>>

RunSlip(next) ==                 \* the callback is forgotten
  senders' = next /\ UNCHANGED <<uploadingto, uploading_cnt, peer, out>>

(* The senders have run, and those that are done have called back.         *)
Run(next) ==
  /\ senders' = next
  /\ R!Released({p \in Peers : \E i \in Slots : R!InUse(p, i) /\ next[i].is_idle})

(* An ACK goes to the senders that serve the peer it comes from.           *)
ReceiveAck(p, n) ==
  /\ p \notin dead
  /\ Run([i \in Slots |->
            IF R!InUse(p, i) THEN CtlUdpAck(senders[i], n, FALSE) ELSE senders[i]])
  /\ UNCHANGED <<since_tick, dead>>

(* The tick of the select loop, for every sender.                          *)
Tick ==
  /\ since_tick = Period
  /\ since_tick' = 0
  /\ Run([i \in Slots |-> CtlUdpTimeOut(senders[i])])
  /\ UNCHANGED dead

(* Nothing is read of a sender that is idle.                               *)
Elapse ==
  /\ senders' = [i \in Slots |-> IF senders[i].is_idle THEN senders[i] ELSE Aged(senders[i])]
  /\ since_tick' = Smaller(since_tick + 1, Period)
  /\ UNCHANGED <<uploadingto, uploading_cnt, peer, out, dead>>

Die(p) ==
  /\ p \notin dead
  /\ dead' = dead \cup {p}
  /\ UNCHANGED <<uploadingto, uploading_cnt, peer, out, senders, since_tick>>

Next ==
  \/ \E p \in Peers, h \in Hashes : Get(p, h)
  \/ \E p \in Peers, n \in 0 .. BufferLen : ReceiveAck(p, n)
  \/ Tick
  \/ Elapse
  \/ \E p \in Peers : Die(p)

Spec == Init /\ [][Next]_vars

(* Time passes, the select loop waits a second at most, and a client that  *)
(* is alive repeats its GET for as long as it is not served: the requestor *)
(* asks again on the tick after BT_DATA_TIMEOUT silent ones.               *)
Fairness ==
  /\ WF_vars(Elapse)
  /\ WF_vars(Tick)
  /\ \A p \in Peers, h \in HasChunks : WF_vars(Get(p, h))

FairSpec == Spec /\ Fairness

----------------------------------------------------------------------------
(* Whatever the senders do, they call back as the responser expects.       *)
ImplementsResponser == R!Spec

(* The server notices that a client has crashed, and stops serving it.     *)
CrashedClientIsReleased == \A p \in Peers : p \in dead ~> ~ uploadingto[p]

(* A client that waits is served when all others have crashed, however     *)
(* many of them held the connections there may be.                         *)
WaitingClientIsServed ==
  \A p \in Peers : Peers \ {p} \subseteq dead ~> uploadingto[p] \/ p \in dead
=============================================================================
