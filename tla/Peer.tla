-------------------------------- MODULE Peer --------------------------------
(***************************************************************************)
(* Who talks to whom: the list of peers (bt_parse.c), the sending and the  *)
(* taking in of packets (peer.c) and the spiffy layer below (spiffy.c).  A *)
(* peer knows the others by the numbers of its list only; a packet carries *)
(* an address, and each way the two are translated into one another.       *)
(*                                                                         *)
(* When a handler answers is the subject of Requestor and Responser; here  *)
(* it may answer whenever the packet allows it.  A datagram that was sent  *)
(* may arrive at any time, once, more often or never.                      *)
(*                                                                         *)
(* Definitions named ...Slip are slips a programmer might make in the      *)
(* definition that follows; they are not part of the specification.        *)
(***************************************************************************)
EXTENDS Integers, SequencesExt, FiniteSetsExt

CONSTANTS
  Nodes,         \* the processes
  Identity,      \* -i of each
  Lists,         \* the contents the peer list file of a node may have
  Hashes,        \* the chunks
  Has,           \* those a node can serve
  ShortModulus,  \* 2^16: a number of the list is kept in a short
  HeaderLen, HashLen, DataLen,     \* sizeof(header_t), 40 and BT_PACKET_DATA_SIZE
  MaxPktSize,    \* BT_MAX_PKT_SIZE, the size of the buffer of send_packet
  Router,        \* the address hupsim.pl sends from
  None

ASSUME PeerAssumption ==
  /\ ShortModulus \in Nat \ {0} /\ HeaderLen \in Nat \ {0} /\ HashLen \in Nat \ {0}
  /\ DataLen \in Nat \ {0} /\ MaxPktSize \in Nat

VARIABLES
  spiffy,        \* giSpiffyEnabled, the same for all: SPIFFY_ROUTER is set or not
  status,        \* of each node: "down", "running", "exited" or "overrun"
  peers,         \* config.peers, the head of the linked list first
  wanted,        \* the chunks of the GET
  providers,     \* of a chunk, by their numbers
  uploads,       \* the length of the DATA packet for a peer we upload to, by its number
  net            \* the datagrams ever sent

vars == <<spiffy, status, peers, wanted, providers, uploads, net>>

WHOHAS == 0
IHAVE  == 1
GET    == 2
DATA   == 3
ACK    == 4
WithHash == {WHOHAS, IHAVE, GET}

----------------------------------------------------------------------------
(***************************************************************************)
(* Configuration.  A line is a comment, is blank, or gives an id and an    *)
(* address, a host with a port.                                            *)
(***************************************************************************)

AsShort(id) == id % ShortModulus

(* bt_parse_peer_list puts each node before the list.  sscanf leaves its   *)
(* variables alone on a blank line, which so stands for the line before.   *)
LineRead(list, line) ==
  CASE line.kind = "comment" -> list
    [] line.kind = "blank"   -> <<Head(list)>> \o list
    [] line.kind = "peer"    -> <<[id |-> AsShort(line.id), addr |-> line.addr]>> \o list

Parsed(lines) ==
  LET read[k \in 0 .. Len(lines)] ==
        IF k = 0 THEN <<>> ELSE LineRead(read[k - 1], lines[k])
  IN  read[Len(lines)]

(* A list has lines of the three kinds, none blank ahead of the first      *)
(* peer, for which sscanf would leave its variables uninitialised; and it  *)
(* gives no number to two addresses.                                       *)
ASSUME ListsAssumption ==
  \A lines \in Lists :
    /\ lines \in Seq(ToSet(lines))
    /\ \A k \in DOMAIN lines :
         \/ lines[k].kind = "comment"
         \/ lines[k].kind = "blank" /\ \E j \in 1 .. k - 1 : lines[j].kind = "peer"
         \/ /\ lines[k].kind = "peer"
            /\ lines[k].addr = [host |-> lines[k].addr.host, port |-> lines[k].addr.port]
    /\ \A j, k \in DOMAIN lines :
         /\ lines[j].kind = "peer" /\ lines[k].kind = "peer"
         /\ AsShort(lines[j].id) = AsShort(lines[k].id)
         => lines[j].addr = lines[k].addr

(* bt_peer_info: the first with this number, or NULL.                      *)
BtPeerInfo(list, id) ==
  LET at == {k \in DOMAIN list : list[k].id = id}
  IN  IF at = {} THEN None ELSE list[Min(at)]

Self(n)   == BtPeerInfo(peers[n], AsShort(Identity[n]))
MyAddr(n) == Self(n).addr

(* main up to the loop of peer_run.                                        *)
Start(n) ==
  /\ status[n] = "down"
  /\ \E lines \in Lists :
       LET list  == Parsed(lines)
           wrong == AsShort(Identity[n]) = 0 \/ BtPeerInfo(list, AsShort(Identity[n])) = None
       IN  /\ status' = [status EXCEPT ![n] = IF wrong THEN "exited" ELSE "running"]
           /\ peers' = [peers EXCEPT ![n] = list]
  /\ UNCHANGED <<spiffy, wanted, providers, uploads, net>>

----------------------------------------------------------------------------
(***************************************************************************)
(* Sending and receiving.                                                  *)
(***************************************************************************)

(* The router passes a datagram on to the address in its spiffy header.    *)
SpiffySendto(n, to, packet) ==
  IF spiffy THEN [source |-> Router, srcAddr |-> MyAddr(n), dest |-> to, packet |-> packet]
  ELSE [source |-> MyAddr(n), srcAddr |-> None, dest |-> to, packet |-> packet]

(* The address spiffy_recvfrom hands out.                                  *)
SpiffyRecvfrom(d) == IF spiffy THEN d.srcAddr ELSE d.source

(* send_packet adds the header to the length in the packet it is given,    *)
(* where it stays.                                                         *)
LengthLeft(length) == length + HeaderLen

SendPacket(n, id, type, hash, length) ==
  LET pinfo == BtPeerInfo(peers[n], id)
  IN  IF pinfo = None THEN {}
      ELSE {SpiffySendto(n, pinfo.addr,
              [packet_type |-> type, hash |-> hash, packet_len |-> LengthLeft(length)])}

(* It first copies as many bytes as that, header included, into its buffer.*)
Overruns(length) == length + HeaderLen > MaxPktSize

MatchSlip(p, from) == p.addr.port = from.port

Match(p, from) == p.addr.host = from.host /\ p.addr.port = from.port

(* The number process_inbound_udp takes the sender for: that of the first  *)
(* entry with its address.                                                 *)
Sender(n, d) ==
  LET at == {k \in DOMAIN peers[n] : Match(peers[n][k], SpiffyRecvfrom(d))}
  IN  IF at = {} THEN None ELSE peers[n][Min(at)].id

(* How often the loops over the payload go round.                          *)
HashesRead(packet) == (packet.packet_len - HeaderLen + HashLen - 1) \div HashLen

----------------------------------------------------------------------------
(***************************************************************************)
(* The user and the handlers.                                              *)
(***************************************************************************)

Unset == 0

LengthSetSlip(left) == IF left = Unset THEN HashLen ELSE left   \* set once only

(* Each round of the loop of send_whohas sets the length, in which the     *)
(* round before has left that of what it sent.                             *)
LengthSet(left) == HashLen

SendWhohas(n, hash) ==
  LET left[k \in 0 .. Len(peers[n])] ==
        IF k = 0 THEN Unset ELSE LengthLeft(LengthSet(left[k - 1]))
  IN  UNION {SendPacket(n, peers[n][k].id, WHOHAS, hash, LengthSet(left[k - 1])) :
               k \in DOMAIN peers[n]}

UserGet(n) ==
  /\ status[n] = "running" /\ wanted[n] = {}
  /\ \E hashes \in SUBSET Hashes \ {{}} :
       /\ wanted' = [wanted EXCEPT ![n] = hashes]
       /\ net' = net \cup UNION {SendWhohas(n, hash) : hash \in hashes}
  /\ UNCHANGED <<spiffy, status, peers, providers, uploads>>

(* The packet d of the peer with number peer is taken in by n.             *)
Inbound(n, d, peer, type) ==
  /\ status[n] = "running"
  /\ d \in net /\ d.packet.packet_type = type /\ d.dest = MyAddr(n)
  /\ peer = Sender(n, d) /\ peer # None

HandleWhohas(n, d, peer) ==
  /\ Inbound(n, d, peer, WHOHAS) /\ d.packet.hash \in Has[n]
  /\ net' = net \cup SendPacket(n, peer, IHAVE, d.packet.hash, HashLen)
  /\ UNCHANGED <<spiffy, status, peers, wanted, providers, uploads>>

HandleIhave(n, d, peer) ==
  /\ Inbound(n, d, peer, IHAVE) /\ d.packet.hash \in wanted[n]
  /\ providers' = [providers EXCEPT ![n][d.packet.hash] = @ \cup {peer}]
  /\ \E hash \in wanted[n] : \E provider \in providers'[n][hash] :
       net' \in {net, net \cup SendPacket(n, provider, GET, hash, HashLen)}
  /\ UNCHANGED <<spiffy, status, peers, wanted, uploads>>

HandleGet(n, d, peer) ==
  /\ Inbound(n, d, peer, GET) /\ d.packet.hash \in Has[n]
  /\ uploads[n][peer] = None
  /\ uploads' = [uploads EXCEPT ![n][peer] =
                   [hash |-> d.packet.hash, packet_len |-> HeaderLen + DataLen]]
  /\ UNCHANGED <<spiffy, status, peers, wanted, providers, net>>

(* ctl_send, the first time and again, as often as the packet is due.      *)
CtlSend(n, peer) ==
  /\ status[n] = "running" /\ uploads[n][peer] # None
  /\ LET upload == uploads[n][peer]
     IN  /\ ~ Overruns(upload.packet_len)
         /\ net' = net \cup SendPacket(n, peer, DATA, upload.hash, upload.packet_len)
         /\ uploads' = [uploads EXCEPT ![n][peer].packet_len = LengthLeft(@)]
  /\ UNCHANGED <<spiffy, status, peers, wanted, providers>>

(* Sent once too often the packet no longer fits the buffer.  What the     *)
(* process does when it has written beyond it is not modelled.             *)
CtlSendOverruns(n, peer) ==
  /\ status[n] = "running" /\ uploads[n][peer] # None
  /\ Overruns(uploads[n][peer].packet_len)
  /\ status' = [status EXCEPT ![n] = "overrun"]
  /\ UNCHANGED <<spiffy, peers, wanted, providers, uploads, net>>

HandleData(n, d, peer) ==
  /\ Inbound(n, d, peer, DATA)
  /\ net' = net \cup SendPacket(n, peer, ACK, None, 0)
  /\ UNCHANGED <<spiffy, status, peers, wanted, providers, uploads>>

(* The last ACK closes the upload.                                         *)
HandleAck(n, d, peer) ==
  /\ Inbound(n, d, peer, ACK) /\ uploads[n][peer] # None
  /\ uploads' = [uploads EXCEPT ![n][peer] = None]
  /\ UNCHANGED <<spiffy, status, peers, wanted, providers, net>>

----------------------------------------------------------------------------
Ids == {AsShort(line.id) : line \in {l \in UNION {ToSet(lines) : lines \in Lists} : l.kind = "peer"}}

Init ==
  /\ spiffy \in BOOLEAN
  /\ status = [n \in Nodes |-> "down"]
  /\ peers = [n \in Nodes |-> <<>>]
  /\ wanted = [n \in Nodes |-> {}]
  /\ providers = [n \in Nodes |-> [h \in Hashes |-> {}]]
  /\ uploads = [n \in Nodes |-> [id \in Ids |-> None]]
  /\ net = {}

Next ==
  \E n \in Nodes :
    \/ Start(n)
    \/ UserGet(n)
    \/ \E d \in net, peer \in Ids : HandleWhohas(n, d, peer)
    \/ \E d \in net, peer \in Ids : HandleIhave(n, d, peer)
    \/ \E d \in net, peer \in Ids : HandleGet(n, d, peer)
    \/ \E peer \in Ids : CtlSend(n, peer)
    \/ \E peer \in Ids : CtlSendOverruns(n, peer)
    \/ \E d \in net, peer \in Ids : HandleData(n, d, peer)
    \/ \E d \in net, peer \in Ids : HandleAck(n, d, peer)

Spec == Init /\ [][Next]_vars

----------------------------------------------------------------------------
(***************************************************************************)
(* Properties.                                                             *)
(***************************************************************************)

(* The nodes that got as far as the loop of peer_run.                      *)
IsUp(n) == status[n] \in {"running", "overrun"}
Up == {n \in Nodes : IsUp(n)}

(* The nodes at the address a node looks up for a number.                  *)
Behind(n, id) == {m \in Up : MyAddr(m) = BtPeerInfo(peers[n], id).addr}

(* However the lists are ordered, whatever lines they repeat and with the  *)
(* router or without: a provider a client notes for a chunk is the number  *)
(* of a peer that has it, and the one a server uploads to is the number of *)
(* a peer that asked for the chunk.                                        *)
NumbersNameTheRightPeer ==
  \A n \in Up :
    /\ \A hash \in Hashes : \A id \in providers[n][hash] :
         \E m \in Behind(n, id) : hash \in Has[m]
    /\ \A id \in Ids : uploads[n][id] # None =>
         \E m \in Behind(n, id) : uploads[n][id].hash \in wanted[m]

(* Every WHOHAS, IHAVE and GET is read as exactly one hash, by every peer  *)
(* a flood reaches, though send_packet lengthens the one packet they are   *)
(* all sent: at more than one the receiver would go on to read, look up    *)
(* and answer what lies behind the packet, at less it would not read it.   *)
OneHashEach ==
  \A d \in net : d.packet.packet_type \in WithHash => HashesRead(d.packet) = 1
=============================================================================
