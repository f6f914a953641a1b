------------------------------ MODULE Transfer ------------------------------
(***************************************************************************)
(* A download as a whole: the requestor of one peer, which runs the        *)
(* actions of Requestor, and other peers with a sender of Send each, with  *)
(* a network between them.  Packets arrive in the order they were sent, as *)
(* in Channel.  The network and the servers may fail MaxFaults times: a    *)
(* packet is lost, a packet is under way for too long, or a server         *)
(* crashes; from then on they are as good as one may hope.                 *)
(*                                                                         *)
(* Every peer ticks once in a second, at a moment of its own: whatever is  *)
(* under way, and however the ticks of the others lie.  A packet is under  *)
(* way for too long when it was so as two seconds began; one that needs    *)
(* less than a second never is.                                            *)
(*                                                                         *)
(* A server serves one client here, so of its responser only "uploadingto" *)
(* matters, which is whether its sender is open (OneSenderEach of          *)
(* Responser).                                                             *)
(***************************************************************************)
EXTENDS Requestor, Send, SequencesExt

CONSTANTS
  HasChunks,   \* HasChunks[p]: the hashes p's has-chunk file names
  Suspects,    \* servers that may be built with -DJUNK
  MaxFaults,   \* how often network and servers fail
  MaxCommands, \* how often the user starts a download
  MaxQueue,    \* packets under way to or from a server that sends junk
  Second       \* units of time in a second

Client == None   \* among those that tick; a server is called by its id

ASSUME TransferAssumption ==
  /\ NumBlocks = BufferLen
  /\ IsFiniteSet(Hashes)
  /\ HasChunks \in [Peers -> SUBSET Hashes]
  /\ Suspects \subseteq Peers
  /\ MaxFaults \in Nat /\ MaxCommands \in Nat
  /\ MaxQueue \in Nat /\ Second \in Nat \ {0}
  /\ DataTimeout >= 4     \* a GET and its DATA, each as late as may be
  /\ ResendThres >= 3     \* the same for DATA and its ACK

VARIABLES
  senders,     \* senders[p]: the sender of server p
  serving,     \* serving[p]: the hash of the chunk it sends
  toServer,    \* toServer[p]: packets under way to p, the oldest first
  toClient,    \* toClient[p]: packets under way from p
  oldToServer, \* how many of these, the oldest, were so as the second began
  oldToClient, \* how many of those
  junk,        \* those that are, which spoil what they send
  alive,       \* servers that have not crashed
  clock,       \* units of this second that have passed
  due,         \* those whose select loop has yet to tick in this second
  faults,      \* failures so far
  commands     \* commands of the user so far

client == <<in_progress, left, downloading, chunks, file>>
server == <<senders, serving>>
network == <<toServer, toClient, oldToServer, oldToClient>>
time == <<clock, due>>
allVars == <<vars, server, network, time, junk, alive, faults, commands>>

Idle == Closed(InitSender)       \* nothing is read of a sender that is idle

(* Each chunk can be had from an honest server in S.                       *)
Offered(S) == \A h \in Hashes : \E p \in S \ junk : h \in HasChunks[p]

TransferInit ==
  /\ Init
  /\ senders = [p \in Peers |-> Idle]
  /\ serving = [p \in Peers |-> Junk]
  /\ toServer = [p \in Peers |-> <<>>]
  /\ toClient = [p \in Peers |-> <<>>]
  /\ oldToServer = [p \in Peers |-> 0]
  /\ oldToClient = [p \in Peers |-> 0]
  /\ junk \in SUBSET Suspects
  /\ alive = Peers
  /\ Offered(alive)
  /\ clock = 0
  /\ due = {}
  /\ faults = 0
  /\ commands = 0

----------------------------------------------------------------------------
(* What a handler of the requestor sends to p, in its order: update_data   *)
(* acknowledges before it asks for more.                                   *)
Mail(p, pkts) ==
  LET of(type) == SetToSeq({m \in pkts : m.type = type /\ (type # "WHOHAS" => m.to = p)})
  IN  of("ACK") \o of("GET") \o of("WHOHAS")

(* Nothing is promised of a server that sends junk: what it and the        *)
(* requestor have under way beyond MaxQueue packets is lost.               *)
Room(p, q) == IF p \in junk THEN SubSeq(q, 1, Smaller(Len(q), MaxQueue)) ELSE q

(* The requestor has run one of its handlers.                              *)
ClientRan ==
  /\ toServer' = [p \in Peers |->
                    IF p \in alive THEN Room(p, toServer[p] \o Mail(p, out')) ELSE <<>>]
  /\ UNCHANGED <<server, oldToServer, clock, junk, alive, faults>>

(* One packet less; the oldest is the first to be old.                     *)
OneLess(old, p) == [old EXCEPT ![p] = IF @ = 0 THEN 0 ELSE @ - 1]

UserGet ==
  /\ commands < MaxCommands /\ commands' = commands + 1
  /\ InitRequestor
  /\ ClientRan
  /\ UNCHANGED <<toClient, oldToClient, due>>

(* A packet to a requestor that is not downloading is dropped.             *)
RequestorPacket(p, m) ==
  \/ m.type = "IHAVE" /\ AddProvider(p, m.hash)
  \/ m.type = "DATA"  /\ UpdateData(p, m.seq, m.body)
  \/ ~ in_progress /\ out' = {} /\ UNCHANGED client

ClientReceives(p) ==
  /\ toClient[p] # <<>>
  /\ toClient' = [toClient EXCEPT ![p] = Tail(@)]
  /\ oldToClient' = OneLess(oldToClient, p)
  /\ RequestorPacket(p, Head(toClient[p]))
  /\ ClientRan
  /\ UNCHANGED <<due, commands>>

ClientTick ==
  /\ Client \in due
  /\ due' = due \ {Client}
  /\ \/ RequstorTimeout
     \/ ~ in_progress /\ out' = {} /\ UNCHANGED client
  /\ ClientRan
  /\ UNCHANGED <<toClient, oldToClient, commands>>

----------------------------------------------------------------------------
Body(p, h) == IF p \in junk THEN Junk ELSE h

(* The positions S in their order.                                         *)
InOrder(S) ==
  {q \in [1 .. Cardinality(S) -> S] : /\ \A i \in S : \E k \in DOMAIN q : q[k] = i
                                     /\ \A j, k \in DOMAIN q : j < k => q[j] < q[k]}

(* The packets at positions q.                                             *)
Data(p, h, q) ==
  [k \in DOMAIN q |-> [type |-> "DATA", seq |-> q[k], body |-> Body(p, h)]]

(* The sender of p is s from now on, sends h, and has just sent the packets*)
(* at positions S.                                                         *)
ServerRan(p, s, h, S) ==
  /\ senders' = [senders EXCEPT ![p] = IF s.is_idle THEN Idle ELSE s]
  /\ serving' = [serving EXCEPT ![p] = IF s.is_idle THEN Junk ELSE h]
  /\ \E q \in InOrder(S) : toClient' = [toClient EXCEPT ![p] = Room(p, @ \o Data(p, h, q))]
  /\ out' = {}
  /\ UNCHANGED <<client, oldToClient, clock, junk, alive, faults, commands>>

AnswerWhoHas(p, m) ==
  /\ m.type = "WHOHAS"
  /\ toClient' = [toClient EXCEPT ![p] = IF m.hash \in HasChunks[p]
                    THEN Room(p, Append(@, [type |-> "IHAVE", hash |-> m.hash])) ELSE @]
  /\ out' = {}
  /\ UNCHANGED <<client, server, oldToClient, clock, junk, alive, faults, commands>>

(* send_chunk refuses a client it is uploading to.                         *)
AnswerGet(p, m) ==
  /\ m.type = "GET"
  /\ IF senders[p].is_idle /\ m.hash \in HasChunks[p]
     THEN ServerRan(p, Filled, m.hash, 0 .. Smaller(StartWindow, BufferLen) - 1)
     ELSE ServerRan(p, senders[p], serving[p], {})

TakeAck(p, m) ==
  /\ m.type = "ACK"
  /\ IF senders[p].is_idle
     THEN ServerRan(p, Idle, Junk, {})
     ELSE ServerRan(p, CtlUdpAck(senders[p], m.ack, FALSE), serving[p],
                    SentByAck(senders[p], m.ack, FALSE))

ServerReceives(p) ==
  /\ toServer[p] # <<>>
  /\ toServer' = [toServer EXCEPT ![p] = Tail(@)]
  /\ oldToServer' = OneLess(oldToServer, p)
  /\ \/ AnswerWhoHas(p, Head(toServer[p]))
     \/ AnswerGet(p, Head(toServer[p]))
     \/ TakeAck(p, Head(toServer[p]))
  /\ UNCHANGED due

ServerTick(p) ==
  /\ p \in due
  /\ due' = due \ {p}
  /\ IF senders[p].is_idle
     THEN ServerRan(p, Idle, Junk, {})
     ELSE ServerRan(p, CtlUdpTimeOut(senders[p]), serving[p], SentByTimeOut(senders[p]))
  /\ UNCHANGED <<toServer, oldToServer>>

----------------------------------------------------------------------------
(* The packets of an honest server all arrive in time.                     *)
InTime == \A p \in Peers \ junk : oldToServer[p] = 0 /\ oldToClient[p] = 0

(* Those of one that sends junk are lost if they do not.                   *)
Kept(channel, old) ==
  [p \in Peers |-> IF p \in junk THEN SubSeq(channel[p], old[p] + 1, Len(channel[p]))
                                 ELSE channel[p]]

(* A second begins once all have ticked in the last.                       *)
SecondBegins ==
  /\ due = {}
  /\ \/ InTime /\ UNCHANGED faults
     \/ ~ InTime /\ faults < MaxFaults /\ faults' = faults + 1
  /\ due' = {Client} \cup alive
  /\ toServer' = Kept(toServer, oldToServer)
  /\ toClient' = Kept(toClient, oldToClient)
  /\ oldToServer' = [p \in Peers |-> Len(toServer'[p])]
  /\ oldToClient' = [p \in Peers |-> Len(toClient'[p])]

(* A unit of time passes.                                                  *)
Elapse ==
  /\ clock' = (clock + 1) % Second
  /\ IF clock' = 0 THEN SecondBegins ELSE UNCHANGED <<network, due, faults>>
  /\ senders' = [p \in Peers |-> IF senders[p].is_idle THEN Idle ELSE Aged(senders[p])]
  /\ out' = {}
  /\ UNCHANGED <<client, serving, junk, alive, commands>>

Fails == faults < MaxFaults /\ faults' = faults + 1 /\ out' = {}

(* Packet k is taken out; the old ones are those up to old.                *)
Without(channel, p, k) == [channel EXCEPT ![p] = RemoveAt(@, k)]
OldWithout(old, p, k)  == [old EXCEPT ![p] = IF k <= @ THEN @ - 1 ELSE @]

Lose(p) ==
  /\ Fails
  /\ \/ \E k \in DOMAIN toServer[p] : /\ toServer' = Without(toServer, p, k)
                                      /\ oldToServer' = OldWithout(oldToServer, p, k)
                                      /\ UNCHANGED <<toClient, oldToClient>>
     \/ \E k \in DOMAIN toClient[p] : /\ toClient' = Without(toClient, p, k)
                                      /\ oldToClient' = OldWithout(oldToClient, p, k)
                                      /\ UNCHANGED <<toServer, oldToServer>>
  /\ UNCHANGED <<client, server, time, junk, alive, commands>>

(* A server is killed, as in test_rb_1; what it had sent still arrives.    *)
Crash(p) ==
  /\ Fails
  /\ p \in alive
  /\ Offered(alive \ {p})
  /\ alive' = alive \ {p}
  /\ senders' = [senders EXCEPT ![p] = Idle]
  /\ serving' = [serving EXCEPT ![p] = Junk]
  /\ toServer' = [toServer EXCEPT ![p] = <<>>]
  /\ oldToServer' = [oldToServer EXCEPT ![p] = 0]
  /\ due' = due \ {p}
  /\ UNCHANGED <<client, clock, junk, toClient, oldToClient, commands>>

(* What happens of itself: select loops go round, time passes, and the     *)
(* packets of honest servers are delivered.                                *)
Work ==
  \/ Elapse
  \/ \E p \in Peers : ServerTick(p)
  \/ \E p \in Peers \ junk : ServerReceives(p) \/ ClientReceives(p)
  \/ ClientTick

TransferNext ==
  \/ UserGet
  \/ Work
  \/ \E p \in junk : ClientReceives(p) \/ ServerReceives(p)
  \/ \E p \in Peers : Lose(p) \/ Crash(p)

TransferSpec == TransferInit /\ [][TransferNext]_allVars

(* Work goes on while there is some.                                       *)
FairSpec == TransferSpec /\ WF_allVars(Work)

(* There always is: once all have ticked a second may begin, unless packets*)
(* of an honest server are late and no failure is left; then these can be  *)
(* delivered.  So this is the same, without the ENABLED that TLC would     *)
(* evaluate in every state.                                                *)
WorkingSpec == TransferSpec /\ []<><<Work>>_allVars

----------------------------------------------------------------------------
(***************************************************************************)
(* Properties.                                                             *)
(***************************************************************************)

(* A download that is under way ends (tests.txt says the requests go on    *)
(* until it does): whatever the few failures, as each chunk is offered by  *)
(* an honest server that stays.                                            *)
DownloadCompletes == in_progress ~> ~ in_progress

(* The requestor knows, of every chunk it lacks, an honest server.         *)
KnowsServers ==
  \A i \in Chunks : chunks[i].finished
                    \/ \E p \in alive \ junk : Has(chunks[i].providers, p)

(* As long as it knows those, the download goes on to its end: through     *)
(* lost packets, lost ACKs, late ones of another chunk, refused requests,  *)
(* providers that crash or send junk, and the timeouts of both sides.      *)
KnownServersSuffice ==
  (in_progress /\ KnowsServers) ~> ~ (in_progress /\ KnowsServers)


(* p is asked for a chunk it has.                                          *)
IsSource(p) == downloading[p] \in Chunks /\ HashOf[downloading[p]] \in HasChunks[p]

AskedAnew(p) == \E m \in out' : m.type = "GET" /\ m.to = p

(* While nothing fails, neither side of an honest transfer gives the other *)
(* up, however the ticks lie and however late, within their time, packets  *)
(* are: the client relieves a provider, or asks it anew, only as it        *)
(* acknowledges the whole chunk, and the provider closes only on that.     *)
HonestIsNotGivenUp ==
  [][\A p \in Peers \ junk :
       faults' = 0 =>
         /\ in_progress /\ IsSource(p) =>
              \/ Ack(p, NumBlocks) \in out'
              \/ in_progress' /\ downloading'[p] = downloading[p] /\ ~ AskedAnew(p)
         /\ ~ senders[p].is_idle /\ senders'[p].is_idle =>
              toServer[p] # <<>> /\ Head(toServer[p]) = Ack(p, BufferLen)]_allVars
=============================================================================
