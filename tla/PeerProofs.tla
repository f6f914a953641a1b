----------------------------- MODULE PeerProofs -----------------------------
(* Proofs about the peers packets come from and go to, for every value of  *)
(* the constants.                                                          *)
EXTENDS Peer, WellFoundedInduction, TLAPS

(***************************************************************************)
(* The records of uploads.                                                 *)
(***************************************************************************)

IsUpload(u) == u # None => u = [hash |-> u.hash, packet_len |-> u.packet_len]

IInv ==
  /\ uploads = [n \in Nodes |-> [id \in Ids |-> uploads[n][id]]]
  /\ \A n \in Nodes, id \in Ids : IsUpload(uploads[n][id])

LEMMA InitInv == Init => IInv
  BY DEF Init, IInv, IsUpload

(* One upload changes.                                                     *)
LEMMA UploadChanged ==
  ASSUME IInv, NEW n \in Nodes, NEW id \in Ids, NEW u, IsUpload(u),
         uploads' = [uploads EXCEPT ![n][id] = u]
  PROVE  IInv'
<1>1. \A m \in Nodes, k \in Ids : uploads'[m][k] = IF m = n /\ k = id THEN u ELSE uploads[m][k]
  BY DEF IInv
<1>2. uploads' = [m \in Nodes |-> [k \in Ids |-> uploads'[m][k]]]
  BY DEF IInv
<1>3. \A m \in Nodes, k \in Ids : IsUpload(uploads'[m][k])
  BY <1>1 DEF IInv
<1> QED
  BY <1>2, <1>3 DEF IInv, IsUpload, Ids

LEMMA NextInv == IInv /\ [Next]_vars => IInv'
<1> SUFFICES ASSUME IInv, [Next]_vars PROVE IInv'
  OBVIOUS
<1> USE DEF IInv
<1>1. ASSUME UNCHANGED uploads PROVE IInv'
  BY <1>1 DEF IsUpload
<1>2. ASSUME NEW n \in Nodes, NEW d \in net, NEW peer \in Ids, HandleGet(n, d, peer) PROVE IInv'
  <2>1. IsUpload([hash |-> d.packet.hash, packet_len |-> HeaderLen + DataLen])
    BY DEF IsUpload
  <2> QED
    BY <1>2, <2>1, UploadChanged DEF HandleGet
<1>3. ASSUME NEW n \in Nodes, NEW peer \in Ids, CtlSend(n, peer) PROVE IInv'
  <2> DEFINE upload == uploads[n][peer]
             longer == [upload EXCEPT !.packet_len = LengthLeft(@)]
  <2>1. upload = [hash |-> upload.hash, packet_len |-> upload.packet_len]
    BY <1>3 DEF CtlSend, IsUpload
  <2>2. longer = [hash |-> upload.hash, packet_len |-> LengthLeft(upload.packet_len)]
    BY <2>1
  <2>3. IsUpload(longer)
    BY <2>2 DEF IsUpload
  <2>4. uploads' = [uploads EXCEPT ![n][peer] = longer]
    BY <1>3 DEF CtlSend
  <2> QED
    BY <2>3, <2>4, UploadChanged
<1>4. ASSUME NEW n \in Nodes, NEW d \in net, NEW peer \in Ids, HandleAck(n, d, peer) PROVE IInv'
  BY <1>4, UploadChanged DEF HandleAck, IsUpload
<1>5. CASE UNCHANGED uploads
  BY <1>1, <1>5
<1> QED
  BY <1>2, <1>3, <1>4, <1>5 DEF Next, vars, Start, UserGet, HandleWhohas, HandleIhave, HandleData,
                                CtlSendOverruns

----------------------------------------------------------------------------
(***************************************************************************)
(* The list of peers.  It is made line by line; what the function read of  *)
(* Parsed is, and what is in the list, is shown by induction over lines:   *)
(* a set of numbers of lines where it fails would have a smallest.         *)
(***************************************************************************)

(* A set of natural numbers has a smallest.                                *)
LEMMA Smallest ==
  ASSUME NEW S \in SUBSET Nat, S # {}
  PROVE  \E m \in S : \A k \in S : m <= k
<1> DEFINE R == {p \in Nat \X Nat : p[1] < p[2]}
<1>1. OpToRel(<, Nat) = R
  BY DEF OpToRel
<1>2. PICK m \in S : \A k \in S : <<k, m>> \notin R
  <2> HIDE DEF R
  <2> QED
  BY <1>1, NatLessThanWellFounded, WFMin
<1>3. ASSUME NEW k \in S, k < m PROVE FALSE
  <2>1. <<k, m>> \in R
    BY <1>3
  <2> QED
    BY <1>2, <2>1
<1> QED
  BY <1>3

(* The list after each of the lines.                                       *)
LEMMA ParsedIsRead ==
  ASSUME NEW lines, Len(lines) \in Nat
  PROVE  \E read : /\ Parsed(lines) = read[Len(lines)] /\ read[0] = <<>>
                   /\ \A k \in 1 .. Len(lines) : read[k] = LineRead(read[k - 1], lines[k])
<1> DEFINE Read(r, k) == IF k = 0 THEN <<>> ELSE LineRead(r[k - 1], lines[k])
           Is(r, n) == r = [k \in 0 .. n |-> Read(r, k)]
           read == CHOOSE r : Is(r, Len(lines))
           Bad == {n \in Nat : ~ \E r : Is(r, n)}
<1>1. Parsed(lines) = read[Len(lines)]
  BY DEF Parsed
<1>2. Bad = {}
  <2>1. SUFFICES ASSUME Bad # {} PROVE FALSE
    OBVIOUS
  <2>2. PICK n \in Bad : \A k \in Bad : n <= k
    <3> HIDE DEF Is
    <3> QED
      BY <2>1, Smallest
  <2>3. n # 0
    <3> DEFINE r == [k \in 0 .. 0 |-> <<>>]
    <3>1. \A k \in 0 .. 0 : Read(r, k) = <<>>
      OBVIOUS
    <3>2. Is(r, 0)
      BY <3>1
    <3> QED
      BY <3>2
  <2>4. PICK r : Is(r, n - 1)
    <3>1. n - 1 \in Nat /\ n - 1 \notin Bad
      BY <2>2, <2>3
    <3> HIDE DEF Is
    <3> QED
      BY <3>1
  <2> DEFINE s == [k \in 0 .. n |-> Read(r, k)]
  <2>5. ASSUME NEW k \in 0 .. n PROVE Read(s, k) = Read(r, k)
    <3>1. CASE k # 0
      <4>1. k - 1 \in 0 .. n - 1 /\ k - 1 \in 0 .. n
        BY <3>1
      <4>2. r[k - 1] = Read(r, k - 1)
        BY <2>4, <4>1
      <4>3. s[k - 1] = r[k - 1]
        BY <4>1, <4>2
      <4> HIDE DEF s
      <4> QED
        BY <4>3
    <3> QED
      BY <3>1
  <2>6. Is(s, n)
    <3> HIDE DEF Read
    <3> QED
      BY <2>5
  <2> QED
    BY <2>6, <2>2
<1>3. Is(read, Len(lines))
  <2>1. Len(lines) \notin Bad
    BY <1>2
  <2> HIDE DEF Is
  <2>2. \E r : Is(r, Len(lines))
    BY <2>1
  <2> QED
    BY <2>2
<1> HIDE DEF read
<1>4. read[0] = <<>>
  BY <1>3
<1>5. ASSUME NEW k \in 1 .. Len(lines) PROVE read[k] = LineRead(read[k - 1], lines[k])
  <2>1. k \in 0 .. Len(lines) /\ k # 0
    OBVIOUS
  <2> QED BY <1>3, <2>1
<1> QED
  BY <1>1, <1>4, <1>5

(* The entries the first k lines may give.                                 *)
Entries(lines, k) ==
  {[id |-> AsShort(lines[j].id), addr |-> lines[j].addr] :
      j \in {i \in 1 .. k : lines[i].kind = "peer"}}

(* A list to look numbers and addresses up in.                             *)
WellNumbered(list) ==
  /\ Len(list) \in Nat /\ DOMAIN list = 1 .. Len(list)
  /\ \A k \in DOMAIN list :
       list[k].addr = [host |-> list[k].addr.host, port |-> list[k].addr.port]
  /\ \A j, k \in DOMAIN list : list[j].id = list[k].id => list[j].addr = list[k].addr

(* A line adds an entry of a peer line up to it, or none.                  *)
LEMMA LineAdds ==
  ASSUME NEW lines \in Lists, NEW k \in 1 .. Len(lines), NEW list \in Seq(Entries(lines, k - 1)),
         (\E j \in 1 .. k - 1 : lines[j].kind = "peer") => list # <<>>
  PROVE  /\ LineRead(list, lines[k]) \in Seq(Entries(lines, k))
         /\ (\E j \in 1 .. k : lines[j].kind = "peer") => LineRead(list, lines[k]) # <<>>
<1> DEFINE S == Entries(lines, k)
<1>1. k \in DOMAIN lines /\ Len(lines) \in Nat
  <2>1. lines \in Seq(ToSet(lines))
    BY ListsAssumption
  <2> HIDE DEF S
  <2> QED
    BY <2>1
<1>2. list \in Seq(S) /\ (\A e \in S : <<e>> \o list \in Seq(S) /\ <<e>> \o list # <<>>)
  <2>1. Entries(lines, k - 1) \subseteq S
    <3>1. 1 .. k - 1 \subseteq 1 .. k
      OBVIOUS
    <3> DEFINE Earlier == 1 .. k - 1
               All == 1 .. k
               entry(j) == [id |-> AsShort(lines[j].id), addr |-> lines[j].addr]
    <3>2. Entries(lines, k - 1) = {entry(j) : j \in {i \in Earlier : lines[i].kind = "peer"}}
      BY Zenon DEF Entries
    <3>3. S = {entry(j) : j \in {i \in All : lines[i].kind = "peer"}}
      BY Zenon DEF Entries
    <3>4. Earlier \subseteq All
      BY <3>1
    <3> HIDE DEF Earlier, All, entry, S
    <3> QED
      BY <3>2, <3>3, <3>4
  <2>2. list \in Seq(S)
    <3> HIDE DEF S
    <3> QED
      BY <2>1
  <2> HIDE DEF S
  <2> QED
    BY <2>2
<1>3. CASE lines[k].kind = "comment"
  <2>1. LineRead(list, lines[k]) = list
    BY <1>3 DEF LineRead
  <2>2. \A j \in 1 .. k : lines[j].kind = "peer" => j \in 1 .. k - 1
    BY <1>1, <1>3
  <2> QED
    BY <1>2, <2>1, <2>2
<1>4. CASE lines[k].kind = "blank" /\ \E j \in 1 .. k - 1 : lines[j].kind = "peer"
  <2>1. LineRead(list, lines[k]) = <<Head(list)>> \o list
    BY <1>4 DEF LineRead
  <2>2. Head(list) \in S
    <3> HIDE DEF S
    <3> QED
      BY <1>2, <1>4
  <2> QED
    BY <1>2, <2>1, <2>2
<1>5. CASE lines[k].kind = "peer"
  <2> DEFINE e == [id |-> AsShort(lines[k].id), addr |-> lines[k].addr]
  <2>1. LineRead(list, lines[k]) = <<e>> \o list
    BY <1>5 DEF LineRead
  <2>2. k \in {i \in 1 .. k : lines[i].kind = "peer"}
    BY <1>1, <1>5
  <2>3. e \in S /\ S = Entries(lines, k)
    BY <2>2 DEF Entries
  <2> HIDE DEF e, S
  <2> QED
    BY <1>2, <2>1, <2>3
<1> QED
  BY <1>1, <1>3, <1>4, <1>5, ListsAssumption

LEMMA ParsedEntries ==
  ASSUME NEW lines \in Lists
  PROVE  Parsed(lines) \in Seq(Entries(lines, Len(lines))) /\ Len(lines) \in Nat
<1>1. Len(lines) \in Nat
  <2>1. lines \in Seq(ToSet(lines))
    BY ListsAssumption
  <2> QED
    BY <2>1
<1>2. PICK read : /\ Parsed(lines) = read[Len(lines)] /\ read[0] = <<>>
                  /\ \A k \in 1 .. Len(lines) : read[k] = LineRead(read[k - 1], lines[k])
  BY <1>1, ParsedIsRead
<1> DEFINE Good(k) == /\ read[k] \in Seq(Entries(lines, k))
                      /\ (\E j \in 1 .. k : lines[j].kind = "peer") => read[k] # <<>>
           Bad == {k \in 0 .. Len(lines) : ~ Good(k)}
<1>3. Good(0)
  BY <1>2
<1>4. ASSUME NEW k \in 1 .. Len(lines), Good(k - 1) PROVE Good(k)
  BY <1>2, <1>4, LineAdds
<1>5. Bad = {}
  <2>1. SUFFICES ASSUME Bad # {} PROVE FALSE
    OBVIOUS
  <2>2. PICK k \in Bad : \A j \in Bad : k <= j
    <3>1. Bad \in SUBSET Nat
      BY <1>1
    <3> HIDE DEF Bad
    <3> QED
      BY <2>1, <3>1, Smallest
  <2> HIDE DEF Good
  <2>3. k \in 1 .. Len(lines) /\ k - 1 \in 0 .. Len(lines) /\ ~ (k <= k - 1)
    BY <1>1, <1>3, <2>2
  <2>4. Good(k - 1)
    BY <2>2, <2>3
  <2> QED
    BY <1>4, <2>2, <2>3, <2>4
<1>6. Len(lines) \in 0 .. Len(lines)
  BY <1>1
<1> QED
  BY <1>1, <1>2, <1>5, <1>6

(* No list gives one number two addresses.                                 *)
LEMMA ParsedIsWellNumbered ==
  ASSUME NEW lines \in Lists PROVE WellNumbered(Parsed(lines))
<1> DEFINE list == Parsed(lines)
           S == Entries(lines, Len(lines))
<1>1. list \in Seq(S)
  BY ParsedEntries
<1>2. ASSUME NEW e \in S PROVE e.addr = [host |-> e.addr.host, port |-> e.addr.port]
  <2>1. PICK j \in DOMAIN lines : lines[j].kind = "peer" /\ e.addr = lines[j].addr
    BY ParsedEntries, ListsAssumption DEF Entries
  <2>2. lines[j].kind # "comment" /\ lines[j].kind # "blank"
    BY <2>1
  <2> QED
    BY <2>1, <2>2, ListsAssumption
<1>3. ASSUME NEW e \in S, NEW f \in S, e.id = f.id PROVE e.addr = f.addr
  BY <1>3, ParsedEntries, ListsAssumption DEF Entries
<1> HIDE DEF list, S
<1>4. Len(list) \in Nat /\ DOMAIN list = 1 .. Len(list) /\ \A k \in DOMAIN list : list[k] \in S
  BY <1>1
<1>5. WellNumbered(list)
  BY <1>2, <1>3, <1>4 DEF WellNumbered
<1> QED
  BY <1>5 DEF list

----------------------------------------------------------------------------
(***************************************************************************)
(* Numbers and addresses.                                                  *)
(***************************************************************************)

LEMMA FirstEntry ==
  ASSUME NEW list, WellNumbered(list), NEW at \in SUBSET DOMAIN list, at # {}
  PROVE  Min(at) \in at
<1>1. at \in SUBSET Nat
  BY DEF WellNumbered
<1>2. \E k \in at : \A j \in at : k <= j
  BY <1>1, Smallest
<1> QED
  BY <1>2 DEF Min

LEMMA Found ==
  ASSUME NEW list, WellNumbered(list), NEW k \in DOMAIN list
  PROVE  BtPeerInfo(list, list[k].id).addr = list[k].addr
<1> DEFINE at == {j \in DOMAIN list : list[j].id = list[k].id}
<1>1. at # {} /\ BtPeerInfo(list, list[k].id) = list[Min(at)]
  BY DEF BtPeerInfo
<1>2. Min(at) \in at
  BY <1>1, FirstEntry
<1> QED
  BY <1>1, <1>2 DEF WellNumbered

(* The address looked up for the number a packet came from is the one it   *)
(* came from.                                                              *)
LEMMA BackToSender ==
  ASSUME NEW n, WellNumbered(peers[n]), NEW d, Sender(n, d) # None,
         NEW a, SpiffyRecvfrom(d) = a, a = [host |-> a.host, port |-> a.port]
  PROVE  BtPeerInfo(peers[n], Sender(n, d)).addr = a
<1> DEFINE list == peers[n]
           at == {k \in DOMAIN list : Match(list[k], a)}
<1>1. at # {} /\ Sender(n, d) = list[Min(at)].id
  BY DEF Sender
<1>2. Min(at) \in at
  BY <1>1, FirstEntry
<1>3. list[Min(at)].addr = a
  BY <1>2 DEF Match, WellNumbered
<1> QED
  BY <1>1, <1>2, <1>3, Found

(* d is a packet of m, which has what it says it has and wants what it     *)
(* asks for.                                                               *)
IsFrom(d, m) ==
  /\ IsUp(m) /\ SpiffyRecvfrom(d) = MyAddr(m)
  /\ d.packet.packet_type = IHAVE => d.packet.hash \in Has[m]
  /\ d.packet.packet_type = GET => d.packet.hash \in wanted[m]

Offers(n, id, hash) == \E m \in Behind(n, id) : hash \in Has[m]
Wants(n, id, hash) == \E m \in Behind(n, id) : hash \in wanted[m]

(* The inductive invariant.  What a node has noted of the others comes     *)
(* from packets, so these must come from whom they say, and ask and offer  *)
(* what their senders want and have.                                       *)
Known ==
  /\ status = [n \in Nodes |-> status[n]]
  /\ peers = [n \in Nodes |-> peers[n]]
  /\ wanted = [n \in Nodes |-> wanted[n]]
  /\ providers = [n \in Nodes |-> [hash \in Hashes |-> providers[n][hash]]]
  /\ \A n \in Nodes : IsUp(n) => WellNumbered(peers[n]) /\ Self(n) # None
  /\ \A d \in net : \E m \in Nodes : IsFrom(d, m)
  /\ \A n \in Nodes, hash \in Hashes : \A id \in providers[n][hash] :
       IsUp(n) /\ Offers(n, id, hash)
  /\ \A n \in Nodes, id \in Ids :
       uploads[n][id] # None => IsUp(n) /\ Wants(n, id, uploads[n][id].hash)

(* Whoever has got as far as the loop stays there, with its list.          *)
Settled ==
  /\ spiffy' = spiffy
  /\ status' = [n \in Nodes |-> status'[n]] /\ peers' = [n \in Nodes |-> peers'[n]]
  /\ wanted' = [n \in Nodes |-> wanted'[n]]
  /\ \A n \in Nodes : IsUp(n) =>
       IsUp(n)' /\ peers'[n] = peers[n] /\ wanted[n] \subseteq wanted'[n]
  /\ \A n \in Nodes : IsUp(n)' =>
       WellNumbered(peers'[n]) /\ BtPeerInfo(peers'[n], AsShort(Identity[n])) # None

LEMMA UpStay ==
  ASSUME Known, Settled
  PROVE  /\ \A m \in Nodes : \A d : IsFrom(d, m) => IsFrom(d, m)'
         /\ \A n \in Nodes : \A id, hash : IsUp(n) =>
              /\ Offers(n, id, hash) => Offers(n, id, hash)'
              /\ Wants(n, id, hash) => Wants(n, id, hash)'
  BY DEF Settled, IsFrom, SpiffyRecvfrom, Offers, Wants, Behind, Up, MyAddr, Self

(* What keeps the invariant.                                               *)
LEMMA KnownKept ==
  ASSUME Known, Settled,
         \A d \in net' : d \in net \/ \E m \in Nodes : IsFrom(d, m)',
         providers' = [n \in Nodes |-> [hash \in Hashes |-> providers'[n][hash]]],
         \A n \in Nodes, hash \in Hashes : \A id \in providers'[n][hash] :
           id \in providers[n][hash] \/ (IsUp(n) /\ Offers(n, id, hash)),
         \A n \in Nodes, id \in Ids : uploads'[n][id] # None =>
           \/ uploads[n][id] # None /\ uploads[n][id].hash = uploads'[n][id].hash
           \/ IsUp(n) /\ Wants(n, id, uploads'[n][id].hash)
  PROVE  Known'
<1>1. \A n \in Nodes : IsUp(n)' => WellNumbered(peers'[n]) /\ Self(n)' # None
  BY DEF Settled, Self
<1>2. \A d \in net' : \E m \in Nodes : IsFrom(d, m)'
  BY UpStay DEF Known
<1>3. \A n \in Nodes : IsUp(n) => IsUp(n)'
  BY DEF Settled
<1>4. \A n \in Nodes, hash \in Hashes : \A id \in providers'[n][hash] :
        IsUp(n)' /\ Offers(n, id, hash)'
  BY <1>3, UpStay DEF Known
<1>5. ASSUME NEW n \in Nodes, NEW id \in Ids
      PROVE  (uploads[n][id] # None => IsUp(n) /\ Wants(n, id, uploads[n][id].hash))'
  <2>1. SUFFICES ASSUME uploads'[n][id] # None, NEW hash, hash = uploads'[n][id].hash
                 PROVE  IsUp(n)' /\ Wants(n, id, hash)'
    OBVIOUS
  <2>2. IsUp(n) /\ Wants(n, id, hash)
    BY <2>1 DEF Known
  <2> QED
    BY <1>3, <2>2, UpStay
<1> QED
  BY <1>1, <1>2, <1>4, <1>5 DEF Known, Settled, WellNumbered

(* Nodes and lists stay as they are in most steps.                         *)
LEMMA SameSettled ==
  ASSUME Known, UNCHANGED <<spiffy, status, peers>>,
         wanted' = [n \in Nodes |-> wanted'[n]], \A n \in Nodes : wanted[n] \subseteq wanted'[n]
  PROVE  Settled
  BY DEF Known, Settled, Self, IsUp

LEMMA PacketIsFrom ==
  ASSUME NEW n \in Nodes, IsUp(n), NEW id, NEW type, NEW hash, NEW length,
         type = IHAVE => hash \in Has[n], type = GET => hash \in wanted[n],
         NEW d \in SendPacket(n, id, type, hash, length)
  PROVE  IsFrom(d, n)
<1>1. PICK to, packet : d = SpiffySendto(n, to, packet) /\ packet.packet_type = type /\ packet.hash = hash
  BY DEF SendPacket
<1> QED
  BY <1>1 DEF SpiffySendto, SpiffyRecvfrom, IsFrom

(* A packet taken in comes from a node that has the number it is taken     *)
(* for.                                                                    *)
LEMMA InboundFrom ==
  ASSUME Known, NEW n \in Nodes, NEW d, NEW peer, NEW type, Inbound(n, d, peer, type)
  PROVE  /\ IsUp(n)
         /\ type = IHAVE => Offers(n, peer, d.packet.hash)
         /\ type = GET => Wants(n, peer, d.packet.hash)
<1>1. PICK m \in Nodes : IsFrom(d, m)
  BY DEF Known, Inbound
<1>2. WellNumbered(peers[m]) /\ Self(m) # None
  BY <1>1 DEF Known, IsFrom
<1>3. PICK k \in DOMAIN peers[m] : peers[m][k].id = AsShort(Identity[m])
  BY <1>2 DEF Self, BtPeerInfo
<1>4. MyAddr(m) = peers[m][k].addr
  BY <1>2, <1>3, Found DEF MyAddr, Self
<1>5. MyAddr(m) = [host |-> MyAddr(m).host, port |-> MyAddr(m).port]
  BY <1>2, <1>4 DEF WellNumbered
<1>6. SpiffyRecvfrom(d) = MyAddr(m) /\ WellNumbered(peers[n]) /\ Sender(n, d) # None /\ peer = Sender(n, d)
  BY <1>1 DEF IsFrom, Known, Inbound, IsUp
<1>7. BtPeerInfo(peers[n], peer).addr = MyAddr(m)
  BY <1>5, <1>6, BackToSender
<1> QED
  BY <1>1, <1>7 DEF IsFrom, Inbound, Offers, Wants, Behind, Up, IsUp

LEMMA KnownInit == Init => Known
  BY DEF Init, Known, IsUp

LEMMA StartSettled ==
  ASSUME Known, NEW n \in Nodes, Start(n) PROVE Settled
<1>1. PICK lines \in Lists :
        LET list == Parsed(lines)
            wrong == AsShort(Identity[n]) = 0 \/ BtPeerInfo(list, AsShort(Identity[n])) = None
        IN  /\ status' = [status EXCEPT ![n] = IF wrong THEN "exited" ELSE "running"]
            /\ peers' = [peers EXCEPT ![n] = list]
  BY DEF Start
<1>2. WellNumbered(Parsed(lines))
  BY ParsedIsWellNumbered
<1>3. \A m \in Nodes \ {n} : status'[m] = status[m] /\ peers'[m] = peers[m]
  BY <1>1 DEF Known
<1>4. /\ peers'[n] = Parsed(lines)
      /\ IsUp(n)' => BtPeerInfo(peers'[n], AsShort(Identity[n])) # None
  BY <1>1 DEF Known, IsUp
<1>5. /\ status' = [m \in Nodes |-> status'[m]] /\ peers' = [m \in Nodes |-> peers'[m]]
      /\ wanted' = [m \in Nodes |-> wanted'[m]]
  BY <1>1 DEF Known, Start
<1>6. \A m \in Nodes \ {n} : IsUp(m)' =>
        WellNumbered(peers'[m]) /\ BtPeerInfo(peers'[m], AsShort(Identity[m])) # None
  BY <1>3 DEF Known, Self, IsUp
<1>7. status[n] = "down" /\ UNCHANGED <<spiffy, wanted>>
  BY DEF Start
<1> QED
  BY <1>2, <1>3, <1>4, <1>5, <1>6, <1>7 DEF Settled, IsUp

LEMMA KnownNext == ASSUME IInv, Known, [Next]_vars PROVE Known'
<1>1. ASSUME NEW n \in Nodes, Start(n) PROVE Known'
  <2>1. UNCHANGED <<providers, uploads, net>>
    BY <1>1 DEF Start
  <2> QED
    BY <1>1, <2>1, StartSettled, KnownKept DEF Known
<1>2. ASSUME UNCHANGED <<spiffy, status, peers, wanted>> PROVE Settled
  BY <1>2, SameSettled DEF Known
<1>3. ASSUME NEW n \in Nodes, UserGet(n) PROVE Known'
  <2>1. PICK hashes \in SUBSET Hashes :
          /\ wanted' = [wanted EXCEPT ![n] = hashes]
          /\ net' = net \cup UNION {SendWhohas(n, hash) : hash \in hashes}
    BY <1>3 DEF UserGet
  <2>2. IsUp(n) /\ wanted[n] = {} /\ UNCHANGED <<spiffy, status, peers, providers, uploads>>
    BY <1>3 DEF UserGet, IsUp
  <2>3. Settled
    BY <2>1, <2>2, SameSettled DEF Known
  <2>4. ASSUME NEW d \in net' \ net PROVE IsFrom(d, n)
    <3>1. PICK hash \in hashes : d \in SendWhohas(n, hash)
      BY <2>1
    <3>2. PICK k, length : d \in SendPacket(n, peers[n][k].id, WHOHAS, hash, length)
      BY <3>1 DEF SendWhohas
    <3> QED
      BY <2>2, <3>2, PacketIsFrom DEF WHOHAS, IHAVE, GET
  <2>5. \A d \in net' : d \in net \/ \E m \in Nodes : IsFrom(d, m)'
    BY <2>3, <2>4, UpStay
  <2> QED
    BY <2>2, <2>3, <2>5, KnownKept DEF Known
<1>4. ASSUME UNCHANGED <<spiffy, status, peers, wanted, providers, uploads>>,
             \A d \in net' : d \in net \/ \E m \in Nodes : IsFrom(d, m)
      PROVE  Known'
  <2>1. \A d \in net' : d \in net \/ \E m \in Nodes : IsFrom(d, m)'
    BY <1>2, <1>4, UpStay
  <2> QED
    BY <1>2, <1>4, <2>1, KnownKept DEF Known
<1>5. ASSUME NEW n \in Nodes, NEW d \in net, NEW peer \in Ids, HandleWhohas(n, d, peer) PROVE Known'
  <2>1. IsUp(n)
    BY <1>5, InboundFrom DEF HandleWhohas
  <2>2. \A e \in SendPacket(n, peer, IHAVE, d.packet.hash, HashLen) : IsFrom(e, n)
    BY <1>5, <2>1, PacketIsFrom DEF HandleWhohas, IHAVE, GET
  <2> QED
    BY <1>4, <1>5, <2>2 DEF HandleWhohas
<1>6. ASSUME NEW n \in Nodes, NEW d \in net, NEW peer \in Ids, HandleIhave(n, d, peer) PROVE Known'
  <2>1. /\ UNCHANGED <<spiffy, status, peers, wanted, uploads>>
        /\ providers' = [providers EXCEPT ![n][d.packet.hash] = @ \cup {peer}]
    BY <1>6 DEF HandleIhave
  <2>2. Settled
    BY <1>2, <2>1
  <2>3. IsUp(n) /\ Offers(n, peer, d.packet.hash)
    BY <1>6, InboundFrom DEF HandleIhave
  <2>4. ASSUME NEW e \in net' \ net PROVE IsFrom(e, n)
    <3>1. PICK hash \in wanted[n] : \E provider : e \in SendPacket(n, provider, GET, hash, HashLen)
      BY <1>6 DEF HandleIhave
    <3>2. PICK provider : e \in SendPacket(n, provider, GET, hash, HashLen)
      BY <3>1
    <3> QED
      BY <2>3, <3>2, PacketIsFrom DEF IHAVE, GET
  <2>5. \A e \in net' : e \in net \/ \E m \in Nodes : IsFrom(e, m)'
    BY <2>2, <2>4, UpStay
  <2>6. \A k \in Nodes, hash \in Hashes :
          providers'[k][hash] = IF k = n /\ hash = d.packet.hash THEN providers[k][hash] \cup {peer}
                                ELSE providers[k][hash]
    BY <2>1 DEF Known
  <2>7. providers' = [k \in Nodes |-> [hash \in Hashes |-> providers'[k][hash]]]
    BY <2>1 DEF Known
  <2> QED
    BY <2>1, <2>2, <2>3, <2>5, <2>6, <2>7, KnownKept
<1>7. ASSUME NEW n \in Nodes, NEW id \in Ids, NEW u,
             uploads' = [uploads EXCEPT ![n][id] = u],
             UNCHANGED <<spiffy, status, peers, wanted, providers>>,
             \A d \in net' : d \in net \/ \E m \in Nodes : IsFrom(d, m),
             u # None => \/ uploads[n][id] # None /\ uploads[n][id].hash = u.hash
                         \/ IsUp(n) /\ Wants(n, id, u.hash)
      PROVE  Known'
  <2>1. \A k \in Nodes, j \in Ids : uploads'[k][j] = IF k = n /\ j = id THEN u ELSE uploads[k][j]
    BY <1>7 DEF IInv
  <2>2. \A d \in net' : d \in net \/ \E m \in Nodes : IsFrom(d, m)'
    BY <1>2, <1>7, UpStay
  <2>3. providers' = [k \in Nodes |-> [hash \in Hashes |-> providers'[k][hash]]]
    BY <1>7 DEF Known
  <2> QED
    BY <1>2, <1>7, <2>1, <2>2, <2>3, KnownKept
<1>8. ASSUME NEW n \in Nodes, NEW d \in net, NEW peer \in Ids, HandleGet(n, d, peer) PROVE Known'
  <2>1. IsUp(n) /\ Wants(n, peer, d.packet.hash)
    BY <1>8, InboundFrom DEF HandleGet
  <2> QED
    BY <1>7, <1>8, <2>1 DEF HandleGet
<1>9. ASSUME NEW n \in Nodes, NEW peer \in Ids, CtlSend(n, peer) PROVE Known'
  <2> DEFINE upload == uploads[n][peer]
             longer == [upload EXCEPT !.packet_len = LengthLeft(@)]
  <2>1. upload # None /\ IsUpload(upload)
    BY <1>9 DEF CtlSend, IInv
  <2>2. longer.hash = upload.hash
    BY <2>1 DEF IsUpload
  <2>3. uploads' = [uploads EXCEPT ![n][peer] = longer]
    BY <1>9 DEF CtlSend
  <2>4. \A d \in net' : d \in net \/ IsFrom(d, n)
    BY <1>9, PacketIsFrom DEF CtlSend, DATA, IHAVE, GET, IsUp
  <2>5. UNCHANGED <<spiffy, status, peers, wanted, providers>>
    BY <1>9 DEF CtlSend
  <2> HIDE DEF longer
  <2> QED
    BY <1>7, <2>1, <2>2, <2>3, <2>4, <2>5
<1>10. ASSUME NEW n \in Nodes, NEW d \in net, NEW peer \in Ids, HandleData(n, d, peer) PROVE Known'
  <2>1. IsUp(n)
    BY <1>10, InboundFrom DEF HandleData
  <2>2. \A e \in SendPacket(n, peer, ACK, None, 0) : IsFrom(e, n)
    BY <2>1, PacketIsFrom DEF ACK, IHAVE, GET
  <2> QED
    BY <1>4, <1>10, <2>2 DEF HandleData
<1>11. ASSUME NEW n \in Nodes, NEW d \in net, NEW peer \in Ids, HandleAck(n, d, peer) PROVE Known'
  BY <1>7, <1>11 DEF HandleAck
<1>12. ASSUME NEW n \in Nodes, NEW peer \in Ids, CtlSendOverruns(n, peer) PROVE Known'
  <2>1. /\ status[n] = "running" /\ status' = [status EXCEPT ![n] = "overrun"]
        /\ UNCHANGED <<spiffy, peers, wanted, providers, uploads, net>>
    BY <1>12 DEF CtlSendOverruns
  <2>2. \A m \in Nodes : IsUp(m)' <=> IsUp(m)
    BY <2>1 DEF IsUp, Known
  <2>3. Settled
    BY <2>1, <2>2 DEF Settled, Known, Self
  <2> QED
    BY <2>1, <2>3, UpStay, KnownKept DEF Known
<1>13. CASE UNCHANGED vars
  BY <1>4, <1>13 DEF vars
<1> QED
  BY <1>1, <1>3, <1>5, <1>6, <1>8, <1>9, <1>10, <1>11, <1>12, <1>13 DEF Next

(* Whatever the lists, as long as none gives a number two addresses, and   *)
(* with the router or without: who a node downloads from has the chunk,    *)
(* and who it uploads to has asked for it.                                 *)
THEOREM RightPeer == Spec => []NumbersNameTheRightPeer
<1>1. Known => NumbersNameTheRightPeer
  BY DEF Known, NumbersNameTheRightPeer, Offers, Wants, Up
<1>2. Init => IInv /\ Known
  BY InitInv, KnownInit
<1>3. (IInv /\ Known) /\ [Next]_vars => (IInv /\ Known)'
  BY NextInv, KnownNext
<1> QED
  BY <1>1, <1>2, <1>3, PTL DEF Spec
=============================================================================
