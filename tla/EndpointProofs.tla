-------------------------- MODULE EndpointProofs --------------------------
(* Proofs about the two ends of a transfer, for every value of the         *)
(* constants: about the requestor, about the functions of send.c whatever  *)
(* sender they are given, and about Sender.                                *)
EXTENDS RequestorRefinement, Sender, FiniteSetTheorems, WellFoundedInduction, TLAPS

(***************************************************************************)
(* One chunk.  A good chunk has its type and, while it waits for a         *)
(* provider, a running timer, an honest ACK and a correct count; it lists  *)
(* each provider once.                                                     *)
(***************************************************************************)

GoodChunk(c) ==
  c \in ChunkStatus /\ Armed(c) /\ Honest(c) /\ Counted(c) /\ Distinct(c)

(* There are NumBlocks blocks.                                             *)
LEMMA BlocksFinite == IsFiniteSet(Blocks) /\ Cardinality(Blocks) = NumBlocks
  BY FS_Interval, SizesAssumption DEF Blocks

(* Positions of a provider sequence are positive and hold peers.           *)
LEMMA ProviderAt ==
  ASSUME NEW c \in ChunkStatus, NEW k \in DOMAIN c.providers
  PROVE  k \in Nat \ {0} /\ c.providers[k] \in Peers
  BY DEF ChunkStatus

(* A remainder is small, and not above what is divided.                    *)
LEMMA SmallRemainder ==
  ASSUME NEW x \in Nat, NEW n \in Nat \ {0}
  PROVE  x % n \in 0 .. n - 1 /\ x % n <= x
  OBVIOUS

(* The scan starts after last_provider and stays below the length of the   *)
(* array; before the array it only gets from a negative last_provider.     *)
LEMMA PlaceOf ==
  ASSUME NEW c \in ChunkStatus, NEW j \in Turns(c)
  PROVE  /\ Place(c, j) \in Int
         /\ Place(c, j) < Len(c.providers)
         /\ Place(c, j) < 0 => c.last_provider < -1 /\ c.last_provider < Place(c, j)
<1> DEFINE n == Len(c.providers)
           a == c.last_provider + 1
           from == Remainder(a, n)
<1>1. n \in Nat \ {0} /\ j \in 0 .. n - 1 /\ c.last_provider \in Int /\ a \in Int
  BY DEF ChunkStatus, Turns
<1>2. Place(c, j) = IF from + j < n THEN from + j ELSE from + j - n
  BY DEF Place
<1>3. a >= 0 => from \in 0 .. n - 1
  <2> SUFFICES ASSUME a >= 0 PROVE from \in 0 .. n - 1
    OBVIOUS
  <2>1. a \in Nat /\ from = a % n
    BY <1>1 DEF Remainder
  <2> QED
    BY <1>1, <2>1, SmallRemainder
<1>4. a < 0 => from \in -(n - 1) .. 0 /\ a <= from
  <2> SUFFICES ASSUME a < 0 PROVE from \in -(n - 1) .. 0 /\ a <= from
    OBVIOUS
  <2>1. -a \in Nat /\ from = -((-a) % n)
    BY <1>1 DEF Remainder
  <2>2. (-a) % n \in 0 .. n - 1 /\ (-a) % n <= -a
    BY <1>1, <2>1, SmallRemainder
  <2> HIDE DEF from, a, n
  <2> QED
    BY <1>1, <2>1, <2>2
<1> HIDE DEF from, n
<1> QED
  BY <1>1, <1>2, <1>3, <1>4 DEF n

(* Whoever is found is idle, and a provider, unless the scan began before  *)
(* the array.                                                              *)
LEMMA ProviderFound ==
  ASSUME NEW c \in ChunkStatus, NEW dl, NEW j, NEW p, FindNextProvider(c, dl, j, p)
  PROVE  /\ Place(c, j) \in Int
         /\ p \in Ids => dl[p] = None
         /\ \/ Has(c.providers, p)
            \/ c.last_provider < -1 /\ c.last_provider < Place(c, j)
<1>1. j \in Turns(c) /\ p \in Reads(c, Place(c, j)) /\ FreePeer(dl, p)
  BY DEF FindNextProvider
<1>2. /\ Place(c, j) \in Int
      /\ Place(c, j) < Len(c.providers)
      /\ Place(c, j) < 0 => c.last_provider < -1 /\ c.last_provider < Place(c, j)
  BY <1>1, PlaceOf
<1>3. CASE Place(c, j) >= 0
  <2>1. p = c.providers[Place(c, j) + 1]
    BY <1>1, <1>2, <1>3 DEF Reads
  <2>2. Place(c, j) + 1 \in DOMAIN c.providers
    BY <1>2, <1>3 DEF ChunkStatus
  <2> QED
    BY <1>1, <1>2, <2>1, <2>2 DEF FreePeer, Has
<1> QED
  BY <1>1, <1>2, <1>3 DEF FreePeer

(* A chunk just asked for is good and waits for that provider.             *)
LEMMA SendGetGood ==
  ASSUME NEW c \in ChunkStatus, Distinct(c), ~ c.finished,
         NEW dl, NEW j, NEW p \in Numbers, FindNextProvider(c, dl, j, p)
  PROVE  /\ GoodChunk(SendGet(c, j, p))
         /\ SendGet(c, j, p).cur_provider = p
         /\ SendGet(c, j, p).providers = c.providers
         /\ SendGet(c, j, p).last_provider = Place(c, j)
         /\ SendGet(c, j, p).recved = {} /\ SendGet(c, j, p).cur_ack = 0
         /\ ~ SendGet(c, j, p).finished
<1> DEFINE e == SendGet(c, j, p)
<1>1. Place(c, j) \in Int
  BY ProviderFound
<1>2. e \in ChunkStatus
  <2>1. /\ p \in Numbers \cup {None}
        /\ NumBlocks \in 0 .. NumBlocks /\ 0 \in 0 .. NumBlocks
        /\ DataTimeout \in 0 .. DataTimeout /\ {} \in SUBSET Blocks
    BY SizesAssumption
  <2> QED
    BY <1>1, <2>1 DEF SendGet, ChunkStatus
<1>3. /\ e.cur_provider = p /\ e.providers = c.providers /\ ~ e.finished
      /\ e.last_provider = Place(c, j) /\ e.last_packet = DataTimeout
      /\ e.recved = {} /\ e.cur_ack = 0 /\ e.left = NumBlocks
  BY DEF SendGet, ChunkStatus
<1> HIDE DEF e
<1>4. Armed(e)
  BY <1>3, SizesAssumption DEF Armed
<1>5. Honest(e)
  BY <1>3, SizesAssumption DEF Honest, Blocks
<1>6. Counted(e)
  <2>1. Blocks \ {} = Blocks
    OBVIOUS
  <2> QED
    BY <1>3, <2>1, BlocksFinite, SizesAssumption DEF Counted
<1>7. Distinct(e)
  BY <1>3 DEF Distinct
<1> QED
  BY <1>2, <1>3, <1>4, <1>5, <1>6, <1>7 DEF GoodChunk, e

(* Storing a packet of a waiting chunk keeps its type, timer and ACK, and  *)
(* its count, except that the count may reach zero.                        *)
LEMMA StoredGood ==
  ASSUME NEW c, GoodChunk(c), c.cur_provider # None,
         NEW s \in Blocks, NEW b \in Bodies, NEW n \in 0 .. NumBlocks,
         NextMissing(c, s, n)
  PROVE  LET d == Stored(c, s, b, n)
         IN  /\ d \in ChunkStatus
             /\ Armed(d)
             /\ Distinct(d)
             /\ d.left = Cardinality(Blocks \ d.recved)
             /\ d.left # 0 => GoodChunk(d)
             /\ d.cur_provider = c.cur_provider
             /\ d.finished = c.finished
             /\ d.providers = c.providers
             /\ d.last_provider = c.last_provider
<1> DEFINE d == Stored(c, s, b, n)
<1> USE DEF GoodChunk
<1>1. /\ d.recved = c.recved \cup {s} /\ d.cur_ack = n
      /\ d.left = IF s \in c.recved THEN c.left ELSE c.left - 1
      /\ d.cur_provider = c.cur_provider /\ d.finished = c.finished
      /\ d.providers = c.providers /\ d.last_packet = DataTimeout
      /\ d.last_provider = c.last_provider
      /\ c.recved \subseteq Blocks
  BY DEF Stored, ChunkStatus
<1>2. c.left = Cardinality(Blocks \ c.recved) /\ c.left > 0
  BY DEF Counted
<1>3. d.left = Cardinality(Blocks \ d.recved)
  <2>1. CASE s \in c.recved
    <3>1. c.recved \cup {s} = c.recved
      BY <2>1
    <3> QED
      BY <3>1, <2>1, <1>1, <1>2
  <2>2. CASE s \notin c.recved
    <3>1. Blocks \ (c.recved \cup {s}) = (Blocks \ c.recved) \ {s}
      OBVIOUS
    <3>2. IsFiniteSet(Blocks \ c.recved)
      BY BlocksFinite, FS_Difference
    <3>3. Cardinality((Blocks \ c.recved) \ {s}) = Cardinality(Blocks \ c.recved) - 1
      BY <2>2, <3>2, FS_RemoveElement
    <3> QED
      BY <3>1, <3>3, <2>2, <1>1, <1>2
  <2> QED
    BY <2>1, <2>2
<1>4. d \in ChunkStatus
  <2>1. d.left \in 0 .. NumBlocks
    BY <1>1, <1>2, SizesAssumption DEF ChunkStatus
  <2>2. DataTimeout \in 0 .. DataTimeout /\ c.recved \cup {s} \in SUBSET Blocks
    BY <1>1, SizesAssumption
  <2>3. [c.data_buf EXCEPT ![s] = b] \in [Blocks -> Bodies]
    BY DEF ChunkStatus
  <2>4. (IF s \in c.recved THEN c.left ELSE c.left - 1) \in 0 .. NumBlocks
    BY <2>1, <1>1
  <2> QED
    BY <2>2, <2>3, <2>4 DEF Stored, ChunkStatus
<1>5. Armed(d)
  BY <1>1, SizesAssumption DEF Armed
<1>6. d.left # 0 => Honest(d) /\ Counted(d)
  <2> SUFFICES ASSUME d.left # 0 PROVE Honest(d) /\ Counted(d)
    OBVIOUS
  <2>1. Counted(d)
    BY <1>3, <1>4 DEF Counted, ChunkStatus
  <2>2. \A m \in Blocks : m < n => m \in c.recved \cup {s}
    BY SizesAssumption DEF NextMissing, Honest, Blocks, ChunkStatus
  <2>3. n < NumBlocks
    <3> SUFFICES ASSUME n = NumBlocks PROVE FALSE
      BY SizesAssumption
    <3>1. Blocks \ d.recved = {}
      BY <2>2, <1>1, SizesAssumption DEF Blocks
    <3> QED
      BY <3>1, <1>3, FS_EmptySet
  <2> QED
    BY <1>1, <2>1, <2>2, <2>3, SizesAssumption DEF Honest, NextMissing
<1>7. Distinct(d)
  BY <1>1 DEF Distinct
<1> QED
  BY <1>1, <1>3, <1>4, <1>5, <1>6, <1>7

(* A chunk that has lost its provider is good.                             *)
LEMMA ReleasedGood ==
  ASSUME NEW c \in ChunkStatus, Distinct(c)
  PROVE  /\ GoodChunk(Crap(c)) /\ Crap(c).cur_provider = None /\ ~ Crap(c).finished
         /\ GoodChunk(Finished(c)) /\ Finished(c).cur_provider = None /\ Finished(c).finished
         /\ Crap(c).last_provider = c.last_provider
         /\ Finished(c).last_provider = c.last_provider
<1>1. /\ NumBlocks \in 0 .. NumBlocks /\ 0 \in 0 .. DataTimeout
      /\ {} \in SUBSET Blocks /\ None \in Numbers \cup {None}
  BY SizesAssumption
<1>2. Crap(c) \in ChunkStatus /\ Crap(c).cur_provider = None /\ ~ Crap(c).finished
  BY <1>1 DEF Crap, ChunkStatus
<1>3. Finished(c) \in ChunkStatus /\ Finished(c).cur_provider = None /\ Finished(c).finished
  BY <1>1 DEF Finished, ChunkStatus
<1>4. Distinct(Crap(c)) /\ Distinct(Finished(c))
  BY DEF Crap, Finished, ChunkStatus, Distinct
<1>5. Crap(c).last_provider = c.last_provider /\ Finished(c).last_provider = c.last_provider
  BY DEF Crap, Finished, ChunkStatus
<1> QED
  BY <1>2, <1>3, <1>4, <1>5 DEF GoodChunk, Armed, Honest, Counted

(* A chunk that learns a provider changes in nothing else.                 *)
LEMMA WithProviderGood ==
  ASSUME NEW c, GoodChunk(c), NEW p \in Peers, ~ Has(c.providers, p)
  PROVE  /\ GoodChunk(WithProvider(c, p))
         /\ WithProvider(c, p).cur_provider = c.cur_provider
         /\ WithProvider(c, p).finished = c.finished
         /\ WithProvider(c, p).last_provider = c.last_provider
<1>1. c \in ChunkStatus
  BY DEF GoodChunk
<1>2. Append(c.providers, p) \in Seq(Peers)
  BY <1>1 DEF ChunkStatus
<1>3. WithProvider(c, p).providers = Append(c.providers, p)
  BY <1>1 DEF WithProvider, ChunkStatus
<1>4. Distinct(WithProvider(c, p))
  <2>1. c.providers \in Seq(Peers) /\ Distinct(c)
    BY <1>1 DEF ChunkStatus, GoodChunk
  <2> QED
    BY <1>3, <2>1 DEF Distinct, Has
<1> QED
  BY <1>1, <1>2, <1>4 DEF WithProvider, ChunkStatus, GoodChunk, Armed, Honest, Counted

(* A tick winds down the timer of a good chunk or takes its provider away. *)
LEMMA TickedGood ==
  ASSUME NEW c, GoodChunk(c)
  PROVE  /\ GoodChunk(Ticked(c))
         /\ Ticked(c).cur_provider = IF Expires(c) THEN None ELSE c.cur_provider
         /\ Ticked(c).finished = c.finished
         /\ Ticked(c).last_provider = c.last_provider
<1>1. c \in ChunkStatus /\ Armed(c) /\ Honest(c) /\ Counted(c) /\ Distinct(c)
  BY DEF GoodChunk
<1>2. CASE Expires(c)
  <2>1. Ticked(c) = [c EXCEPT !.last_packet = 0, !.cur_provider = None]
    BY <1>2 DEF Ticked, Expires
  <2>2. 0 \in 0 .. DataTimeout /\ None \in Numbers \cup {None}
    BY SizesAssumption
  <2> QED
    BY <2>1, <2>2, <1>1, <1>2 DEF ChunkStatus, GoodChunk, Armed, Honest, Counted, Distinct
<1>3. CASE ~ Expires(c) /\ c.cur_provider # None
  <2>1. ~ c.finished /\ c.last_packet > 1 /\ c.last_packet \in 0 .. DataTimeout
    BY <1>1, <1>3 DEF Armed, Expires, ChunkStatus
  <2>2. Ticked(c) = [c EXCEPT !.last_packet = c.last_packet - 1]
    BY <1>3, <2>1 DEF Ticked
  <2>3. c.last_packet - 1 \in 0 .. DataTimeout /\ c.last_packet - 1 > 0
    BY <2>1, SizesAssumption
  <2> QED
    BY <2>1, <2>2, <2>3, <1>1, <1>3 DEF ChunkStatus, GoodChunk, Armed, Honest, Counted, Distinct
<1>4. CASE ~ Expires(c) /\ c.cur_provider = None
  <2>1. Ticked(c) = c
    BY <1>4 DEF Ticked
  <2> QED
    BY <2>1, <1>4
<1> QED
  BY <1>2, <1>3, <1>4

----------------------------------------------------------------------------
(***************************************************************************)
(* All chunks together.                                                    *)
(***************************************************************************)

GoodChunks(ch, dl) ==
  /\ ch \in [Chunks -> ChunkStatus]
  /\ dl \in [Ids -> Chunks \cup {None}]
  /\ \A i \in Chunks : GoodChunk(ch[i])
  /\ Matched(ch, dl)

(* None is no chunk, and there is a first chunk.                           *)
LEMMA ChunksNotNone == None \notin Chunks /\ Chunks \subseteq Nat /\ 0 \in Chunks
  BY SizesAssumption DEF None, Chunks

(* What the requestor sends are packets.                                   *)
LEMMA PacketTypes ==
  ASSUME NEW i \in Chunks, NEW p \in Peers, NEW n \in 0 .. NumBlocks
  PROVE  {WhoHas(i), Get(p, i), Ack(p, n)} \subseteq Packets
  BY HashesAssumption DEF WhoHas, Get, Ack, Packets

GetPacket(p, h) == [type |-> "GET", to |-> p, hash |-> h]

NoGet(pkts) == \A p \in Peers, h \in Hashes : GetPacket(p, h) \notin pkts

(* The last providers are those of the state.                              *)
SameLast(ch) == \A i \in Chunks : ch[i].last_provider = chunks[i].last_provider

(* Every GET the step sends goes to a peer that is idle in dl, for a chunk *)
(* that starts over and that it provides, unless last_provider is negative *)
(* and rises.                                                              *)
GetsFrom(dl) ==
  \A p \in Peers, h \in Hashes : GetPacket(p, h) \in out' => dl[p] = None /\ StartsOver(p, h)

(* A GET is told from the other packets, and from other GETs.              *)
LEMMA PacketsApart ==
  ASSUME NEW p, NEW h, NEW i, NEW q, NEW n
  PROVE  /\ GetPacket(p, h) # WhoHas(i) /\ GetPacket(p, h) # Ack(q, n)
         /\ GetPacket(p, h) = Get(q, i) => q = p /\ HashOf[i] = h
<1>1. GetPacket(p, h).type = "GET" /\ WhoHas(i).type = "WHOHAS" /\ Ack(q, n).type = "ACK"
  BY DEF GetPacket, WhoHas, Ack
<1>2. /\ GetPacket(p, h).to = p /\ GetPacket(p, h).hash = h
      /\ Get(q, i).to = q /\ Get(q, i).hash = HashOf[i]
  BY DEF GetPacket, Get
<1> QED
  BY <1>1, <1>2

(* Whatever request_next_chunk decides, the chunks stay good, the finished *)
(* ones stay the same, and a GET goes to an idle peer.                     *)
LEMMA RequestNextGood ==
  ASSUME NEW ch, NEW dl, NEW pkts, GoodChunks(ch, dl), pkts \subseteq Packets,
         NoGet(pkts), SameLast(ch), RequestNextChunk(ch, dl, pkts)
  PROVE  /\ GoodChunks(chunks', downloading')
         /\ \A i \in Chunks : chunks'[i].finished = ch[i].finished
         /\ out' \subseteq Packets
         /\ GetsFrom(dl)
<1>1. CASE chunks' = ch /\ downloading' = dl /\ out' = pkts
  BY <1>1 DEF NoGet, GetsFrom
<1>2. ASSUME NEW i \in Chunks, chunks' = ch, downloading' = dl,
             out' = pkts \cup {WhoHas(i)}
      PROVE  out' \subseteq Packets /\ GetsFrom(dl)
  <2>1. out' \subseteq Packets
    BY <1>2, HashesAssumption DEF WhoHas, Packets
  <2>2. GetsFrom(dl)
    BY <1>2, PacketsApart DEF NoGet, GetsFrom
  <2> QED
    BY <2>1, <2>2
<1>3. ASSUME NEW i \in Requestable(ch), NEW j \in Turns(ch[i]), NEW p \in Numbers,
             FindNextProvider(ch[i], dl, j, p),
             chunks' = [ch EXCEPT ![i] = SendGet(ch[i], j, p)],
             downloading' = [q \in Ids |-> IF q = p THEN i ELSE dl[q]],
             out' = pkts \cup GetTo(p, i)
      PROVE  /\ GoodChunks(chunks', downloading')
             /\ \A m \in Chunks : chunks'[m].finished = ch[m].finished
             /\ out' \subseteq Packets
             /\ GetsFrom(dl)
  <2>1. /\ i \in Chunks /\ ch[i] \in ChunkStatus /\ ~ ch[i].finished
        /\ ch[i].cur_provider = None /\ Distinct(ch[i])
    BY DEF GoodChunks, GoodChunk, Requestable
  <2>2. /\ p \in Ids => dl[p] = None
        /\ \/ Has(ch[i].providers, p)
           \/ ch[i].last_provider < -1 /\ ch[i].last_provider < Place(ch[i], j)
    BY <2>1, <1>3, ProviderFound
  <2>3. /\ GoodChunk(SendGet(ch[i], j, p)) /\ SendGet(ch[i], j, p).cur_provider = p
        /\ ~ SendGet(ch[i], j, p).finished
        /\ SendGet(ch[i], j, p).providers = ch[i].providers
        /\ SendGet(ch[i], j, p).last_provider = Place(ch[i], j)
        /\ SendGet(ch[i], j, p).recved = {} /\ SendGet(ch[i], j, p).cur_ack = 0
    BY <2>1, <1>3, SendGetGood
  <2>4. /\ chunks' \in [Chunks -> ChunkStatus]
        /\ \A m \in Chunks : chunks'[m] = IF m = i THEN SendGet(ch[i], j, p) ELSE ch[m]
    BY <2>1, <2>3, <1>3 DEF GoodChunks, GoodChunk
  <2>5. /\ downloading' \in [Ids -> Chunks \cup {None}]
        /\ \A q \in Ids : downloading'[q] = IF q = p THEN i ELSE dl[q]
    BY <2>1, <1>3 DEF GoodChunks
  <2>6. Matched(chunks', downloading')
    <3> SUFFICES ASSUME NEW q \in Ids, NEW m \in Chunks
                 PROVE  downloading'[q] = m <=> chunks'[m].cur_provider = q
      BY DEF Matched
    <3>1. dl[q] = m <=> ch[m].cur_provider = q
      BY DEF GoodChunks, Matched
    <3>2. q # None /\ m # None
      BY ChunksNotNone DEF Ids, None
    <3> QED
      BY <3>1, <3>2, <2>1, <2>2, <2>3, <2>4, <2>5
  <2>7. GetTo(p, i) \subseteq Packets
    BY <2>1, HashesAssumption DEF GetTo, Get, Packets
  <2>8. SendGet(ch[i], j, p).finished = ch[i].finished
    BY <2>1, <2>3 DEF GoodChunk, ChunkStatus
  <2>9. GetsFrom(dl)
    <3> SUFFICES ASSUME NEW q \in Peers, NEW h \in Hashes, GetPacket(q, h) \in out'
                 PROVE  dl[q] = None /\ StartsOver(q, h)
      BY DEF GetsFrom
    <3>1. p \in Peers /\ GetPacket(q, h) = Get(p, i)
      BY <1>3 DEF NoGet, GetTo
    <3>2. q = p /\ HashOf[i] = h
      BY <3>1, PacketsApart
    <3>3. p \in Ids /\ downloading'[p] = i
      BY <2>5, <3>1, PeersAssumption
    <3>4. chunks[i].last_provider = ch[i].last_provider
      BY <2>1 DEF SameLast
    <3> QED
      BY <2>1, <2>2, <2>3, <2>4, <3>2, <3>3, <3>4 DEF StartsOver
  <2> QED
    BY <1>3, <2>1, <2>3, <2>4, <2>5, <2>6, <2>7, <2>8, <2>9 DEF GoodChunks
<1>4. \A i \in Requestable(ch) : i \in Chunks
  BY DEF Requestable
<1> QED
  BY <1>1, <1>2, <1>3, <1>4 DEF RequestNextChunk

(* Whoever the loop asks is found where the peers asked before are busy.   *)
LEMMA ScheduledOne ==
  ASSUME NEW ch, NEW dl, GoodChunks(ch, dl),
         NEW S \in SUBSET Requestable(ch), NEW turn, NEW who \in [S -> Numbers],
         Scheduled(ch, dl, S, turn, who), NEW i \in S
  PROVE  /\ i \in Chunks /\ ch[i] \in ChunkStatus /\ Distinct(ch[i])
         /\ ~ ch[i].finished /\ ch[i].cur_provider = None
         /\ who[i] \in Numbers
         /\ FindNextProvider(ch[i], BusyBefore(i, dl, S, who), turn[i], who[i])
  BY DEF Scheduled, Requestable, GoodChunks, GoodChunk

(* A peer the loop of requstor_timeout asks is idle before the loop, and   *)
(* asked for one chunk only.                                               *)
LEMMA ScheduledApart ==
  ASSUME NEW ch, NEW dl, GoodChunks(ch, dl),
         NEW S \in SUBSET Requestable(ch), NEW turn, NEW who \in [S -> Numbers],
         Scheduled(ch, dl, S, turn, who),
         NEW i \in S, who[i] \in Ids
  PROVE  /\ dl[who[i]] = None
         /\ \A j \in S : j < i => who[j] # who[i]
<1>1. BusyBefore(i, dl, S, who)[who[i]] = None
  BY ScheduledOne, ProviderFound
<1>2. i # None
  BY ChunksNotNone DEF Requestable
<1> QED
  BY <1>1, <1>2 DEF BusyBefore

(* The loop of the tick keeps chunks and peers good, finishes nothing, and *)
(* each GET goes to a peer that is idle in dl.                             *)
LEMMA TheseGood ==
  ASSUME NEW ch, NEW dl, GoodChunks(ch, dl), SameLast(ch),
         NEW S \in SUBSET Requestable(ch), NEW turn, NEW who \in [S -> Numbers],
         RequestThese(ch, dl, S, turn, who)
  PROVE  /\ GoodChunks(chunks', downloading')
         /\ \A i \in Chunks : chunks'[i].finished = ch[i].finished
         /\ \A i \in S : who[i] \in Peers => dl[who[i]] = None /\ StartsOver(who[i], HashOf[i])
<1> USE DEF RequestThese
<1>1. ASSUME NEW i \in S, who[i] \in Ids
      PROVE  dl[who[i]] = None /\ \A j \in S : who[j] = who[i] => j = i
  <2>1. dl[who[i]] = None /\ \A j \in S : j < i => who[j] # who[i]
    BY <1>1, ScheduledApart
  <2>2. ASSUME NEW j \in S, who[j] = who[i] PROVE ~ i < j
    BY <1>1, <2>2, ScheduledApart
  <2>3. S \subseteq Int
    BY DEF Requestable, Chunks
  <2> QED
    BY <2>1, <2>2, <2>3
<1>2. ASSUME NEW i \in S
      PROVE  LET e == SendGet(ch[i], turn[i], who[i])
             IN  /\ i \in Chunks /\ chunks'[i] = e
                 /\ GoodChunk(e) /\ e.cur_provider = who[i]
                 /\ e.finished = ch[i].finished
                 /\ e.recved = {} /\ e.cur_ack = 0
                 /\ \/ Has(e.providers, who[i])
                    \/ /\ chunks[i].last_provider < -1
                       /\ chunks[i].last_provider < e.last_provider
  <2>1. /\ i \in Chunks /\ ch[i] \in ChunkStatus /\ Distinct(ch[i])
        /\ ~ ch[i].finished /\ who[i] \in Numbers
        /\ FindNextProvider(ch[i], BusyBefore(i, dl, S, who), turn[i], who[i])
    BY ScheduledOne
  <2> DEFINE e == SendGet(ch[i], turn[i], who[i])
  <2>2. /\ GoodChunk(e) /\ e.cur_provider = who[i] /\ e.providers = ch[i].providers
        /\ e.last_provider = Place(ch[i], turn[i]) /\ ~ e.finished
        /\ e.recved = {} /\ e.cur_ack = 0
    BY <2>1, SendGetGood
  <2>3. \/ Has(ch[i].providers, who[i])
        \/ ch[i].last_provider < -1 /\ ch[i].last_provider < Place(ch[i], turn[i])
    BY <2>1, ProviderFound
  <2>4. ch[i].last_provider = chunks[i].last_provider
    BY <2>1 DEF SameLast
  <2>5. chunks'[i] = e
    BY <2>1
  <2>6. e.finished = ch[i].finished
    BY <2>1, <2>2 DEF GoodChunk, ChunkStatus
  <2> QED
    BY <2>1, <2>2, <2>3, <2>4, <2>5, <2>6
<1>3. /\ chunks' \in [Chunks -> ChunkStatus]
      /\ \A i \in Chunks : GoodChunk(chunks'[i]) /\ chunks'[i].finished = ch[i].finished
  BY <1>2 DEF GoodChunks, GoodChunk
<1>4. ASSUME NEW i \in S, who[i] \in Ids PROVE downloading'[who[i]] = i
  <2>1. (CHOOSE j \in S : who[j] = who[i]) = i
    BY <1>1, <1>4
  <2> QED
    BY <2>1, <1>4
<1>5. \A p \in Ids : (~ \E i \in S : who[i] = p) => downloading'[p] = dl[p]
  OBVIOUS
<1>6. downloading' \in [Ids -> Chunks \cup {None}]
  <2>1. \A p \in Ids : downloading'[p] \in Chunks \cup {None}
    BY <1>2, <1>4, <1>5 DEF GoodChunks
  <2> QED
    BY <2>1
<1>7. Matched(chunks', downloading')
  <2> SUFFICES ASSUME NEW p \in Ids, NEW i \in Chunks
               PROVE  downloading'[p] = i <=> chunks'[i].cur_provider = p
    BY DEF Matched
  <2>1. dl[p] = i <=> ch[i].cur_provider = p
    BY DEF GoodChunks, Matched
  <2>2. p # None /\ i # None
    BY ChunksNotNone DEF Ids, None
  <2>3. CASE i \in S
    <3>1. chunks'[i].cur_provider = who[i]
      BY <2>3, <1>2
    <3>2. ch[i].cur_provider = None
      BY <2>3 DEF Requestable
    <3> QED
      BY <2>1, <2>2, <2>3, <3>1, <3>2, <1>4, <1>5
  <2>4. CASE i \notin S
    <3>1. chunks'[i] = ch[i]
      BY <2>4
    <3>2. CASE \E m \in S : who[m] = p
      BY <3>1, <3>2, <2>1, <2>2, <2>4, <1>1, <1>4
    <3>3. CASE ~ \E m \in S : who[m] = p
      BY <3>1, <3>3, <2>1, <1>5
    <3> QED
      BY <3>2, <3>3
  <2> QED
    BY <2>3, <2>4
<1>8. ASSUME NEW i \in S, who[i] \in Peers
      PROVE  dl[who[i]] = None /\ StartsOver(who[i], HashOf[i])
  <2>1. who[i] \in Ids
    BY <1>8, PeersAssumption
  <2>2. dl[who[i]] = None /\ downloading'[who[i]] = i
    BY <2>1, <1>1, <1>4
  <2> QED
    BY <2>2, <1>2 DEF StartsOver
<1> QED
  BY <1>3, <1>6, <1>7, <1>8 DEF GoodChunks

(* So a tick keeps chunks and peers good, and asks only idle peers.        *)
LEMMA RequestAllGood ==
  ASSUME NEW ch, NEW dl, GoodChunks(ch, dl), SameLast(ch), RequestAll(ch, dl)
  PROVE  /\ GoodChunks(chunks', downloading')
         /\ \A i \in Chunks : chunks'[i].finished = ch[i].finished
         /\ out' \subseteq Packets
         /\ GetsFrom(dl)
<1> PICK S \in SUBSET Requestable(ch) :
      \E turn \in [S -> 0 .. Cardinality(Peers)], who \in [S -> Numbers] :
        RequestThese(ch, dl, S, turn, who)
  BY DEF RequestAll
<1> PICK turn \in [S -> 0 .. Cardinality(Peers)], who \in [S -> Numbers] :
      RequestThese(ch, dl, S, turn, who)
  OBVIOUS
<1>1. /\ GoodChunks(chunks', downloading')
      /\ \A i \in Chunks : chunks'[i].finished = ch[i].finished
      /\ \A i \in S : who[i] \in Peers => dl[who[i]] = None /\ StartsOver(who[i], HashOf[i])
  BY TheseGood
<1>2. \A pkt \in out' :
        \/ \E i \in S : who[i] \in Peers /\ pkt = Get(who[i], i)
        \/ \E i \in Chunks : pkt = WhoHas(i)
  <2>1. out' = (UNION {GetTo(who[i], i) : i \in S}) \cup Floods(ch)
    BY DEF RequestThese
  <2>2. \A i \in S : \A pkt \in GetTo(who[i], i) : who[i] \in Peers /\ pkt = Get(who[i], i)
    BY DEF GetTo
  <2>3. \A pkt \in Floods(ch) : \E i \in Chunks : pkt = WhoHas(i)
    BY DEF Floods, Requestable
  <2> QED
    BY <2>1, <2>2, <2>3
<1>3. out' \subseteq Packets
  <2>1. \A i \in Chunks, p \in Peers : Get(p, i) \in Packets /\ WhoHas(i) \in Packets
    BY HashesAssumption DEF Get, WhoHas, Packets
  <2>2. \A i \in Chunks : WhoHas(i) \in Packets
    BY HashesAssumption DEF WhoHas, Packets
  <2>3. S \subseteq Chunks
    BY DEF Requestable
  <2> QED
    BY <1>2, <2>1, <2>2, <2>3
<1>4. GetsFrom(dl)
  <2> SUFFICES ASSUME NEW p \in Peers, NEW h \in Hashes, GetPacket(p, h) \in out'
               PROVE  dl[p] = None /\ StartsOver(p, h)
    BY DEF GetsFrom
  <2>1. PICK i \in S : who[i] \in Peers /\ GetPacket(p, h) = Get(who[i], i)
    <3>1. \A i : GetPacket(p, h) # WhoHas(i)
      BY PacketsApart
    <3> QED
      BY <1>2, <3>1
  <2>2. p = who[i] /\ h = HashOf[i]
    BY <2>1, PacketsApart
  <2> QED
    BY <2>1, <2>2, <1>1
<1> QED
  BY <1>1, <1>3, <1>4
----------------------------------------------------------------------------
(***************************************************************************)
(* The inductive invariant: while a download is under way the chunks are   *)
(* good and matched with the peers, left counts the unfinished ones, and   *)
(* the output file holds the right content of the finished ones.           *)
(***************************************************************************)

Progressing ==
  in_progress => /\ GoodChunks(chunks, downloading)
                 /\ left = Cardinality(Unfinished(chunks))
                 /\ left > 0

IInv == TypeOK /\ Progressing /\ FileIntegrity

(* A content fills the blocks and is not the empty place.                  *)
LEMMA ContentTypes ==
  ASSUME NEW i \in Chunks
  PROVE  Content(HashOf[i]) \in [Blocks -> Bodies] /\ Content(HashOf[i]) # Empty
<1>1. HashOf[i] \in Bodies
  BY HashesAssumption DEF Bodies
<1>2. 0 \in Blocks
  BY SizesAssumption DEF Blocks
<1> QED
  BY <1>1, <1>2 DEF Content, Empty

(* There are NumChunks chunks.                                             *)
LEMMA ChunksFinite == IsFiniteSet(Chunks) /\ Cardinality(Chunks) = NumChunks
  BY FS_Interval, SizesAssumption DEF Chunks

(* The chunks counted by left are finitely many.                           *)
LEMMA UnfinishedFinite ==
  ASSUME NEW ch
  PROVE  IsFiniteSet(Unfinished(ch)) /\ Cardinality(Unfinished(ch)) \in 0 .. NumChunks
<1>1. Unfinished(ch) \in SUBSET Chunks
  BY DEF Unfinished
<1> QED
  BY <1>1, ChunksFinite, FS_Subset, FS_CardinalityType, SizesAssumption

(***************************************************************************)
(* The two shapes of a step during a download.  Either no chunk finishes;  *)
(* or chunk i, asked of p, does, and with the last one the download ends.  *)
(***************************************************************************)

Continues ==
  /\ in_progress /\ in_progress'
  /\ left' = left
  /\ file' = file
  /\ GoodChunks(chunks', downloading')
  /\ \A i \in Chunks : chunks'[i].finished = chunks[i].finished
  /\ out' \subseteq Packets

Obtains(p, i) ==
  /\ in_progress
  /\ downloading[p] = i
  /\ chunks[i].left = 1
  /\ ~ chunks[i].finished
  /\ file' = [file EXCEPT ![i] = Content(HashOf[i])]
  /\ left' = left - 1
  /\ out' \subseteq Packets
  /\ \/ /\ left' # 0
        /\ in_progress'
        /\ GoodChunks(chunks', downloading')
        /\ \A j \in Chunks : chunks'[j].finished = (IF j = i THEN TRUE ELSE chunks[j].finished)
     \/ /\ left' = 0
        /\ in_progress' = FALSE
        /\ chunks' = Freed
        /\ downloading' \in [Ids -> Chunks \cup {None}]

(* A step that finishes no chunk keeps the invariant.                      *)
LEMMA ContinuesInv == ASSUME IInv, Continues, in_progress' \in BOOLEAN PROVE IInv'
<1>1. Unfinished(chunks') = Unfinished(chunks)
  BY DEF Unfinished, Continues
<1>2. TypeOK'
  <2>1. /\ chunks' \in [Chunks -> ChunkStatus] /\ out' \subseteq Packets
        /\ downloading' \in [Ids -> Chunks \cup {None}]
    BY DEF Continues, GoodChunks
  <2>2. left' \in 0 .. NumChunks /\ file' \in [Chunks -> [Blocks -> Bodies] \cup {Empty}]
    BY DEF Continues, IInv, TypeOK
  <2> QED
    BY <2>1, <2>2 DEF TypeOK
<1>3. Progressing'
  BY <1>1 DEF IInv, Progressing, Continues
<1>4. FileIntegrity'
  BY DEF IInv, FileIntegrity, Continues
<1> QED
  BY <1>2, <1>3, <1>4 DEF IInv

(* What a chunk obtained does to the counters and to the file.             *)
LEMMA ObtainsFacts ==
  ASSUME IInv, NEW p \in Peers, NEW i \in Chunks, Obtains(p, i)
  PROVE  /\ left \in 1 .. NumChunks
         /\ left = Cardinality(Unfinished(chunks))
         /\ left' = Cardinality(Unfinished(chunks) \ {i})
         /\ file' \in [Chunks -> [Blocks -> Bodies] \cup {Empty}]
         /\ \A j \in Chunks : file'[j] = IF j = i THEN Content(HashOf[i]) ELSE file[j]
         /\ \A j \in Chunks \ {i} :
              /\ file[j] \in {Empty, Content(HashOf[j])}
              /\ chunks[j].finished <=> file[j] # Empty
<1>1. left \in 1 .. NumChunks /\ left = Cardinality(Unfinished(chunks))
  BY DEF IInv, TypeOK, Progressing, Obtains
<1>2. i \in Unfinished(chunks)
  BY DEF Unfinished, Obtains
<1>3. Cardinality(Unfinished(chunks) \ {i}) = Cardinality(Unfinished(chunks)) - 1
  BY <1>2, UnfinishedFinite, FS_RemoveElement
<1>4. /\ file' \in [Chunks -> [Blocks -> Bodies] \cup {Empty}]
      /\ \A j \in Chunks : file'[j] = IF j = i THEN Content(HashOf[i]) ELSE file[j]
  BY ContentTypes DEF IInv, TypeOK, Obtains
<1>5. \A j \in Chunks : /\ file[j] \in {Empty, Content(HashOf[j])}
                        /\ chunks[j].finished <=> file[j] # Empty
  BY DEF IInv, FileIntegrity, Obtains
<1> QED
  BY <1>1, <1>3, <1>4, <1>5 DEF Obtains

(* A step that finishes a chunk keeps the invariant.                       *)
LEMMA ObtainsInv ==
  ASSUME IInv, NEW p \in Peers, NEW i \in Chunks, Obtains(p, i), in_progress' \in BOOLEAN
  PROVE  IInv'
<1>1. left' = left - 1 /\ left' \in 0 .. NumChunks
  <2>1. left \in 1 .. NumChunks
    BY ObtainsFacts
  <2>2. left' = left - 1
    BY DEF Obtains
  <2> QED
    BY <2>1, <2>2, SizesAssumption
<1>2. file' \in [Chunks -> [Blocks -> Bodies] \cup {Empty}]
  BY ObtainsFacts
<1>3. CASE left' # 0
  <2>1. /\ in_progress' /\ GoodChunks(chunks', downloading') /\ out' \subseteq Packets
        /\ \A j \in Chunks : chunks'[j].finished = (IF j = i THEN TRUE ELSE chunks[j].finished)
    BY <1>3 DEF Obtains
  <2>2. /\ chunks' \in [Chunks -> ChunkStatus]
        /\ downloading' \in [Ids -> Chunks \cup {None}]
    BY <2>1 DEF GoodChunks
  <2>3. TypeOK'
    BY <2>1, <2>2, <1>1, <1>2 DEF TypeOK
  <2>4. Unfinished(chunks') = Unfinished(chunks) \ {i}
    BY <2>1 DEF Unfinished
  <2>5. Progressing'
    BY <2>1, <2>4, <1>1, <1>3, ObtainsFacts DEF Progressing
  <2>6. FileIntegrity'
    <3> SUFFICES ASSUME NEW j \in Chunks
                 PROVE  /\ file'[j] \in {Empty, Content(HashOf[j])}
                        /\ chunks'[j].finished <=> file'[j] # Empty
      BY DEF FileIntegrity
    <3>1. CASE j = i
      BY <3>1, <2>1, ObtainsFacts, ContentTypes, ZenonT(30)
    <3>2. CASE j # i
      BY <3>2, <2>1, ObtainsFacts, ZenonT(30)
    <3> QED
      BY <3>1, <3>2
  <2> QED
    BY <2>3, <2>5, <2>6 DEF IInv
<1>4. CASE left' = 0
  <2>1. /\ in_progress' = FALSE /\ chunks' = Freed /\ out' \subseteq Packets
        /\ downloading' \in [Ids -> Chunks \cup {None}]
    BY <1>4 DEF Obtains
  <2>2. TypeOK'
    BY <2>1, <1>1, <1>2 DEF TypeOK
  <2>3. FileIntegrity'
    BY <2>1, ObtainsFacts DEF FileIntegrity
  <2> QED
    BY <2>1, <2>2, <2>3 DEF IInv, Progressing
<1> QED
  BY <1>3, <1>4

(* The invariant holds before the first command.                           *)
LEMMA InitInv == ASSUME Init PROVE IInv
<1>1. 0 \in Chunks /\ 0 \in 0 .. NumChunks
  BY SizesAssumption DEF Chunks
<1> QED
  BY <1>1 DEF Init, IInv, TypeOK, Progressing, FileIntegrity

(* A new download starts with good chunks.                                 *)
LEMMA InitRequestorInv == ASSUME IInv, InitRequestor PROVE IInv'
<1> PICK lp \in [Chunks -> LastProviders] :
      chunks' = [i \in Chunks |-> FreshChunk(lp[i])]
  BY DEF InitRequestor
<1>1. ASSUME NEW i \in Chunks
      PROVE  /\ GoodChunk(FreshChunk(lp[i]))
             /\ ~ FreshChunk(lp[i]).finished
             /\ FreshChunk(lp[i]).cur_provider = None
  <2>1. <<>> \in Seq(Peers)
    OBVIOUS
  <2>2. /\ 0 \in 0 .. DataTimeout /\ 0 \in 0 .. NumBlocks /\ NumBlocks \in 0 .. NumBlocks
        /\ {} \in SUBSET Blocks /\ None \in Numbers \cup {None}
    BY SizesAssumption
  <2>3. lp[i] \in Int
    BY LastProvidersAssumption
  <2>4. [s \in Blocks |-> Junk] \in [Blocks -> Bodies]
    BY DEF Bodies
  <2>5. FreshChunk(lp[i]) \in ChunkStatus
    BY <2>1, <2>2, <2>3, <2>4 DEF FreshChunk, ChunkStatus
  <2>6. Distinct(FreshChunk(lp[i]))
    BY DEF FreshChunk, Distinct
  <2> QED
    BY <2>5, <2>6 DEF FreshChunk, GoodChunk, Armed, Honest, Counted
<1>2. GoodChunks(chunks', downloading')
  <2>1. chunks' \in [Chunks -> ChunkStatus]
    BY <1>1 DEF GoodChunk
  <2>2. downloading' \in [Ids -> Chunks \cup {None}]
    BY DEF InitRequestor
  <2>3. Matched(chunks', downloading')
    BY <1>1, ChunksNotNone DEF InitRequestor, Matched, Ids, None
  <2> QED
    BY <1>1, <2>1, <2>2, <2>3 DEF GoodChunks
<1>3. Unfinished(chunks') = Chunks
  BY <1>1 DEF Unfinished
<1>4. \A i \in Chunks : WhoHas(i) \in Packets
  BY HashesAssumption DEF WhoHas, Packets
<1>5. TypeOK'
  BY <1>2, <1>4, SizesAssumption DEF InitRequestor, TypeOK, GoodChunks
<1>6. Progressing'
  BY <1>2, <1>3, ChunksFinite, SizesAssumption DEF InitRequestor, Progressing
<1>7. FileIntegrity'
  BY <1>1 DEF InitRequestor, FileIntegrity
<1> QED
  BY <1>5, <1>6, <1>7 DEF IInv

(* A command without chunk file keeps the invariant.                       *)
LEMMA InitRequestorNoFileInv == ASSUME IInv, InitRequestorNoFile PROVE IInv'
  BY DEF IInv, InitRequestorNoFile, TypeOK, Progressing, FileIntegrity

(* An IHAVE adds a provider where it is new, then requests.                *)
LEMMA AddProviderShape ==
  ASSUME IInv, NEW p \in Peers, NEW h \in Hashes, AddProvider(p, h)
  PROVE  Continues /\ GetsFrom(downloading)
<1> DEFINE ch == [i \in Chunks |->
                    IF HashOf[i] = h /\ ~ Has(chunks[i].providers, p)
                    THEN WithProvider(chunks[i], p)
                    ELSE chunks[i]]
<1>1. in_progress /\ GoodChunks(chunks, downloading)
  BY DEF AddProvider, IInv, Progressing
<1>2. \A i \in Chunks : /\ GoodChunk(ch[i])
                        /\ ch[i].cur_provider = chunks[i].cur_provider
                        /\ ch[i].finished = chunks[i].finished
                        /\ ch[i].last_provider = chunks[i].last_provider
  BY <1>1, WithProviderGood DEF GoodChunks
<1>3. GoodChunks(ch, downloading)
  BY <1>1, <1>2 DEF GoodChunks, GoodChunk, Matched
<1>4. RequestNextChunk(ch, downloading, {}) /\ NoGet({}) /\ SameLast(ch)
  BY <1>2 DEF AddProvider, NoGet, SameLast
<1> HIDE DEF ch
<1>5. /\ GoodChunks(chunks', downloading')
      /\ \A i \in Chunks : chunks'[i].finished = ch[i].finished
      /\ out' \subseteq Packets
      /\ GetsFrom(downloading)
  BY <1>3, <1>4, RequestNextGood
<1> QED
  BY <1>1, <1>2, <1>5 DEF AddProvider, Continues

(* A set of chunks has a first one.                                        *)
LEMMA FirstChunk ==
  ASSUME NEW S \in SUBSET Chunks, S # {}
  PROVE  \E i \in S : \A j \in S : i <= j
<1> DEFINE UpTo(i) == {j \in S : j <= i}
           T == {UpTo(i) : i \in S}
<1>1. IsWellFoundedOn(StrictSubsetOrdering(Chunks), FiniteSubsetsOf(Chunks))
  BY FS_StrictSubsetOrderingWellFounded
<1>2. T \subseteq FiniteSubsetsOf(Chunks) /\ T # {}
  <2>1. FiniteSubsetsOf(Chunks) = SUBSET Chunks
    BY ChunksFinite, FS_FiniteSubsetsOfFinite
  <2>2. \A i \in S : UpTo(i) \in SUBSET Chunks
    OBVIOUS
  <2>3. PICK i \in S : TRUE
    OBVIOUS
  <2>4. UpTo(i) \in T
    OBVIOUS
  <2>5. T \subseteq SUBSET Chunks
    <3> HIDE DEF UpTo
    <3> QED
      BY <2>2
  <2> HIDE DEF T
  <2> QED
    BY <2>1, <2>4, <2>5
<1>3. PICK x \in T : \A y \in T : ~ (<<y, x>> \in StrictSubsetOrdering(Chunks))
  <2> HIDE DEF T
  <2> QED
    BY <1>1, <1>2, WFMin
<1>4. PICK i \in S : x = UpTo(i)
  OBVIOUS
<1>5. ASSUME NEW j \in S, j < i PROVE FALSE
  <2>1. S \subseteq Int
    BY DEF Chunks
  <2>2. \A m \in S : m <= j => m <= i
    BY <2>1, <1>5
  <2>3. i <= i /\ ~ i <= j
    BY <2>1, <1>5
  <2>4. UpTo(j) \subseteq UpTo(i) /\ UpTo(j) # UpTo(i)
    BY <2>2, <2>3
  <2>5. <<UpTo(j), UpTo(i)>> \in StrictSubsetOrdering(Chunks)
    BY <2>4 DEF StrictSubsetOrdering
  <2> QED
    BY <2>5, <1>3, <1>4
<1> QED
  BY <1>5 DEF Chunks

(* A scan that starts within the array comes to every place.               *)
LEMMA EveryPlace ==
  ASSUME NEW c \in ChunkStatus, c.last_provider >= -1, NEW k \in DOMAIN c.providers
  PROVE  \E j \in Turns(c) : Place(c, j) = k - 1
<1> DEFINE n == Len(c.providers)
           from == Remainder(c.last_provider + 1, n)
<1>1. n \in Nat \ {0} /\ k \in 1 .. n /\ c.last_provider \in Int /\ Turns(c) = 0 .. n - 1
  BY DEF ChunkStatus, Turns
<1>2. c.last_provider + 1 \in Nat /\ from = (c.last_provider + 1) % n
  BY <1>1 DEF Remainder
<1>3. \A j : Place(c, j) = IF from + j < n THEN from + j ELSE from + j - n
  BY DEF Place
<1> HIDE DEF from, n
<1>4. from \in 0 .. n - 1
  BY <1>1, <1>2, SmallRemainder
<1>5. CASE k - 1 >= from
  <2> DEFINE j == k - 1 - from
  <2>1. j \in Turns(c) /\ from + j = k - 1 /\ k - 1 < n
    BY <1>1, <1>4, <1>5
  <2> QED
    BY <2>1, <1>3
<1>6. CASE k - 1 < from
  <2> DEFINE j == k - 1 - from + n
  <2>1. j \in Turns(c) /\ ~ from + j < n /\ from + j - n = k - 1
    BY <1>1, <1>4, <1>6
  <2> HIDE DEF j
  <2> QED
    BY <2>1, <1>3
<1> QED
  BY <1>1, <1>4, <1>5, <1>6

(* A chunk that has to wait has only busy providers, if the scan comes to  *)
(* all of them.                                                            *)
LEMMA WaitingIsBusy ==
  ASSUME NEW c \in ChunkStatus, NEW dl, HasToWait(c, dl), ~ c.last_provider < -1,
         NEW k \in DOMAIN c.providers
  PROVE  dl[c.providers[k]] # None
<1>1. k \in Nat \ {0} /\ c.providers[k] \in Peers /\ c.last_provider \in Int
  BY ProviderAt DEF ChunkStatus
<1>2. PICK j \in Turns(c) : Place(c, j) = k - 1
  BY <1>1, EveryPlace
<1>3. Reads(c, Place(c, j)) = {c.providers[k]}
  BY <1>1, <1>2 DEF Reads
<1>4. BusyPeer(dl, c.providers[k])
  BY <1>2, <1>3 DEF HasToWait, BusyAtTurn
<1> QED
  BY <1>1, <1>4, PeersAssumption DEF BusyPeer

(* When the loop of the tick is through, nothing more can be asked for.    *)
LEMMA RequestAllThorough ==
  ASSUME NEW ch, NEW dl, GoodChunks(ch, dl), RequestAll(ch, dl)
  PROVE  Thorough(chunks', downloading', out')
<1> PICK S \in SUBSET Requestable(ch) :
      \E turn \in [S -> 0 .. Cardinality(Peers)], who \in [S -> Numbers] :
        RequestThese(ch, dl, S, turn, who)
  BY DEF RequestAll
<1> PICK turn \in [S -> 0 .. Cardinality(Peers)], who \in [S -> Numbers] :
      RequestThese(ch, dl, S, turn, who)
  OBVIOUS
<1>1. ASSUME NEW i \in S
      PROVE  ~ Stopped(ch, i) /\ i \notin Requestable(chunks')
  <2>1. /\ i \in Chunks /\ ch[i] \in ChunkStatus /\ who[i] \in Numbers
        /\ ~ Stopped(ch, i)
    BY ScheduledOne DEF RequestThese, Scheduled
  <2>2. chunks'[i] = SendGet(ch[i], turn[i], who[i])
    BY <2>1 DEF RequestThese
  <2>3. chunks'[i].cur_provider = who[i]
    BY <2>1, <2>2 DEF SendGet, ChunkStatus
  <2> QED
    BY <2>1, <2>3 DEF Requestable, Numbers, None
<1>2. ASSUME NEW i \in Chunks, i \notin S
      PROVE  chunks'[i] = ch[i] /\ (i \in Requestable(chunks') <=> i \in Requestable(ch))
  BY <1>2 DEF RequestThese, Requestable
<1> SUFFICES ASSUME NEW i \in Requestable(chunks')
             PROVE  \/ /\ chunks'[i].providers # <<>>
                       /\ \/ chunks'[i].last_provider < -1
                          \/ \A k \in DOMAIN chunks'[i].providers :
                               downloading'[chunks'[i].providers[k]] # None
                    \/ \E j \in Requestable(chunks') :
                         j <= i /\ chunks'[j].providers = <<>> /\ WhoHas(j) \in out'
  BY DEF Thorough
<1>3. i \in Chunks /\ i \notin S /\ chunks'[i] = ch[i] /\ i \in Requestable(ch)
  BY <1>1, <1>2 DEF Requestable
<1>4. CASE Stopped(ch, i)
  <2> DEFINE T == {j \in Requestable(ch) : ch[j].providers = <<>>}
  <2>1. T \subseteq Chunks /\ \E j \in T : j <= i
    BY <1>4 DEF Stopped, Requestable
  <2>2. PICK j \in T : \A m \in T : j <= m
    BY <2>1, FirstChunk
  <2>3. j \in Chunks /\ j \in Requestable(ch) /\ ch[j].providers = <<>> /\ j <= i
    BY <2>1, <2>2, <1>3, ChunksNotNone
  <2>4. \A m \in Requestable(ch) : m < j => ch[m].providers # <<>>
    BY <2>1, <2>2, <2>3, ChunksNotNone
  <2>5. j \notin S
    BY <2>3, <1>1, ChunksNotNone DEF Stopped
  <2>6. WhoHas(j) \in out'
    BY <2>3, <2>4 DEF RequestThese, Floods
  <2> QED
    BY <2>3, <2>5, <2>6, <1>2
<1>5. CASE ~ Stopped(ch, i)
  <2>1. HasToWait(ch[i], BusyBefore(i, dl, S, who)) /\ ch[i] \in ChunkStatus
    BY <1>3, <1>5 DEF RequestThese, Scheduled, GoodChunks
  <2>2. ch[i].providers # <<>>
    BY <2>1 DEF HasToWait
  <2>3. ASSUME ~ ch[i].last_provider < -1, NEW k \in DOMAIN ch[i].providers
        PROVE  downloading'[ch[i].providers[k]] # None
    <3> DEFINE p == ch[i].providers[k]
    <3>1. p \in Ids
      BY <2>1, ProviderAt, PeersAssumption
    <3>2. BusyBefore(i, dl, S, who)[p] # None
      BY <2>1, <2>3, WaitingIsBusy
    <3>3. dl[p] # None \/ \E m \in S : who[m] = p
      BY <3>1, <3>2 DEF BusyBefore
    <3>4. downloading'[p] = IF \E m \in S : who[m] = p THEN CHOOSE m \in S : who[m] = p ELSE dl[p]
      BY <3>1 DEF RequestThese
    <3> HIDE DEF p
    <3>5. (\E m \in S : who[m] = p) => (CHOOSE m \in S : who[m] = p) \in S
      OBVIOUS
    <3> QED
      BY <3>3, <3>4, <3>5, ChunksNotNone DEF Requestable, p
  <2> QED
    BY <2>2, <2>3, <1>3
<1> QED
  BY <1>4, <1>5

(* A tick: expired transfers release both sides of the matching.           *)
LEMMA TickedAllGood ==
  ASSUME IInv, RequstorTimeout
  PROVE  /\ GoodChunks(TickedChunks, TickedPeers)
         /\ \A i \in Chunks : TickedChunks[i].finished = chunks[i].finished
         /\ SameLast(TickedChunks)
<1>1. in_progress /\ GoodChunks(chunks, downloading)
  BY DEF RequstorTimeout, IInv, Progressing
<1>2. ASSUME NEW i \in Chunks
      PROVE  /\ GoodChunk(TickedChunks[i])
             /\ TickedChunks[i].cur_provider =
                  IF Expires(chunks[i]) THEN None ELSE chunks[i].cur_provider
             /\ TickedChunks[i].finished = chunks[i].finished
             /\ TickedChunks[i].last_provider = chunks[i].last_provider
  BY <1>1, TickedGood DEF GoodChunks, TickedChunks
<1>3. TickedChunks \in [Chunks -> ChunkStatus]
  BY <1>2 DEF GoodChunk, TickedChunks
<1>4. TickedPeers \in [Ids -> Chunks \cup {None}]
  BY <1>1 DEF TickedPeers, GoodChunks
<1>5. Matched(TickedChunks, TickedPeers)
  <2> SUFFICES ASSUME NEW p \in Ids, NEW i \in Chunks
               PROVE  TickedPeers[p] = i <=> TickedChunks[i].cur_provider = p
    BY DEF Matched
  <2>1. \A j \in Chunks : downloading[p] = j <=> chunks[j].cur_provider = p
    BY <1>1 DEF GoodChunks, Matched
  <2>2. p # None /\ i # None
    BY ChunksNotNone DEF Ids, None
  <2>3. TickedPeers[p] = IF \E j \in Chunks : Expires(chunks[j]) /\ chunks[j].cur_provider = p
                         THEN None ELSE downloading[p]
    BY DEF TickedPeers
  <2> QED
    BY <2>1, <2>2, <2>3, <1>2
<1> QED
  BY <1>2, <1>3, <1>4, <1>5 DEF GoodChunks, SameLast

(* Then everything that can be asked for is.                               *)
LEMMA RequstorTimeoutShape ==
  ASSUME IInv, RequstorTimeout
  PROVE  Continues /\ GetsFrom(TickedPeers)
<1>1. in_progress /\ GoodChunks(chunks, downloading)
  BY DEF RequstorTimeout, IInv, Progressing
<1>2. /\ GoodChunks(chunks', downloading')
      /\ \A i \in Chunks : chunks'[i].finished = chunks[i].finished
      /\ out' \subseteq Packets
      /\ GetsFrom(TickedPeers)
  BY TickedAllGood, RequestAllGood DEF RequstorTimeout
<1> QED
  BY <1>1, <1>2 DEF RequstorTimeout, Continues

(* Chunk i loses its provider p, which becomes idle.                       *)
LEMMA ReleaseMatched ==
  ASSUME NEW ch, NEW dl, GoodChunks(ch, dl),
         NEW i \in Chunks, NEW p \in Ids, ch[i].cur_provider = p,
         NEW e, GoodChunk(e), e.cur_provider = None
  PROVE  GoodChunks([ch EXCEPT ![i] = e], [dl EXCEPT ![p] = None])
<1> DEFINE ch2 == [ch EXCEPT ![i] = e]
           dl2 == [dl EXCEPT ![p] = None]
<1>1. /\ ch2 \in [Chunks -> ChunkStatus]
      /\ \A j \in Chunks : ch2[j] = IF j = i THEN e ELSE ch[j]
  BY DEF GoodChunks, GoodChunk
<1>2. /\ dl2 \in [Ids -> Chunks \cup {None}]
      /\ \A q \in Ids : dl2[q] = IF q = p THEN None ELSE dl[q]
  BY DEF GoodChunks
<1> HIDE DEF ch2, dl2
<1>3. Matched(ch2, dl2)
  <2> SUFFICES ASSUME NEW q \in Ids, NEW j \in Chunks
               PROVE  dl2[q] = j <=> ch2[j].cur_provider = q
    BY DEF Matched
  <2>1. /\ dl[q] = j <=> ch[j].cur_provider = q
        /\ dl[p] = j <=> ch[j].cur_provider = p
        /\ dl[q] = i <=> ch[i].cur_provider = q
        /\ dl[p] = i
    BY DEF GoodChunks, Matched
  <2>2. q # None /\ j # None
    BY ChunksNotNone DEF Ids, None
  <2> QED
    BY <2>1, <2>2, <1>1, <1>2
<1>4. \A j \in Chunks : GoodChunk(ch2[j])
  BY <1>1 DEF GoodChunks
<1> QED
  BY <1>1, <1>2, <1>3, <1>4 DEF GoodChunks, ch2, dl2

(* The facts every DATA packet that is not dropped starts from.            *)
LEMMA UpdateDataStored ==
  ASSUME IInv, in_progress, NEW p \in Peers, NEW s \in Blocks, NEW b \in Bodies,
         NEW i \in Chunks, NEW n \in 0 .. NumBlocks,
         i = downloading[p], NextMissing(chunks[i], s, n)
  PROVE  LET d == Stored(chunks[i], s, b, n)
         IN  /\ GoodChunks(chunks, downloading)
             /\ ~ chunks[i].finished /\ chunks[i].cur_provider = p
             /\ d \in ChunkStatus /\ Distinct(d)
             /\ d.cur_provider = p /\ d.finished = chunks[i].finished
             /\ d.last_provider = chunks[i].last_provider
             /\ d.left # 0 => GoodChunk(d)
             /\ d.left = 0 => chunks[i].left = 1
             /\ {Ack(p, n)} \subseteq Packets /\ NoGet({Ack(p, n)})
<1>1. GoodChunks(chunks, downloading)
  BY DEF IInv, Progressing
<1>2. GoodChunk(chunks[i]) /\ chunks[i].cur_provider = p /\ p # None
  BY <1>1, PeersAssumption DEF GoodChunks, Matched, Ids, None
<1>3. ~ chunks[i].finished
  BY <1>2 DEF GoodChunk, Armed
<1>4. Stored(chunks[i], s, b, n).left = 0 => chunks[i].left = 1
  <2>1. chunks[i].left > 0 /\ chunks[i].left \in 0 .. NumBlocks
    BY <1>2 DEF GoodChunk, Counted, ChunkStatus
  <2>2. Stored(chunks[i], s, b, n).left = IF s \in chunks[i].recved THEN chunks[i].left
                                                                    ELSE chunks[i].left - 1
    BY <1>2 DEF GoodChunk, Stored, ChunkStatus
  <2> QED
    BY <2>1, <2>2, SizesAssumption
<1>5. NoGet({Ack(p, n)})
  BY PacketsApart DEF NoGet
<1> QED
  BY <1>1, <1>2, <1>3, <1>4, <1>5, StoredGood, PacketTypes, ZenonT(30)

(* The packet that completes a chunk: crap, one more chunk, or the file.   *)
LEMMA FinishChunkShape ==
  ASSUME IInv, in_progress, NEW p \in Peers, NEW i \in Chunks, NEW d, NEW pkts,
         GoodChunks(chunks, downloading), pkts \subseteq Packets, NoGet(pkts),
         downloading[p] = i, chunks[i].left = 1,
         ~ chunks[i].finished, chunks[i].cur_provider = p,
         d \in ChunkStatus, Distinct(d), d.cur_provider = p,
         d.last_provider = chunks[i].last_provider,
         FinishChunk(i, [chunks EXCEPT ![i] = d], pkts)
  PROVE  /\ Continues \/ Obtains(p, i)
         /\ in_progress' => GetsFrom([downloading EXCEPT ![p] = None])
         /\ NoGet(out') \/ in_progress'
<1> DEFINE ch == [chunks EXCEPT ![i] = d]
           dl == [downloading EXCEPT ![p] = None]
<1>1. ch[i] = d /\ [downloading EXCEPT ![ch[i].cur_provider] = None] = dl
  BY DEF GoodChunks
<1>2. /\ GoodChunk(Crap(d)) /\ Crap(d).cur_provider = None /\ ~ Crap(d).finished
      /\ GoodChunk(Finished(d)) /\ Finished(d).cur_provider = None /\ Finished(d).finished
      /\ SameLast([chunks EXCEPT ![i] = Crap(d)])
      /\ SameLast([chunks EXCEPT ![i] = Finished(d)])
  BY ReleasedGood DEF SameLast, GoodChunks
<1>3. \A e : [ch EXCEPT ![i] = e] = [chunks EXCEPT ![i] = e]
  BY DEF GoodChunks
<1>4. CASE /\ RequestNextChunk([ch EXCEPT ![i] = Crap(d)], dl, pkts)
           /\ UNCHANGED <<in_progress, left, file>>
  <2> DEFINE ch2 == [chunks EXCEPT ![i] = Crap(d)]
  <2>1. GoodChunks(ch2, dl) /\ SameLast(ch2)
    BY <1>2, ReleaseMatched, PeersAssumption
  <2>2. RequestNextChunk(ch2, dl, pkts)
    BY <1>3, <1>4
  <2>3. \A j \in Chunks : ch2[j].finished = chunks[j].finished
    <3>1. Crap(d).finished = chunks[i].finished
      BY <1>2 DEF GoodChunk, GoodChunks, ChunkStatus
    <3> QED
      BY <3>1 DEF GoodChunks
  <2> HIDE DEF ch2, dl
  <2>4. /\ GoodChunks(chunks', downloading') /\ out' \subseteq Packets
        /\ \A j \in Chunks : chunks'[j].finished = ch2[j].finished
        /\ GetsFrom(dl)
    BY <2>1, <2>2, RequestNextGood
  <2> QED
    BY <2>3, <2>4, <1>4 DEF Continues, dl
<1>5. CASE /\ HashMatches(i, d)
           /\ file' = [file EXCEPT ![i] = d.data_buf]
           /\ left' = left - 1
           /\ \/ /\ left - 1 # 0
                 /\ RequestNextChunk([ch EXCEPT ![i] = Finished(d)], dl, pkts)
                 /\ UNCHANGED in_progress
              \/ /\ left - 1 = 0
                 /\ chunks' = Freed
                 /\ in_progress' = FALSE
                 /\ downloading' = dl
                 /\ out' = pkts
  <2>1. file' = [file EXCEPT ![i] = Content(HashOf[i])] /\ left' = left - 1
    BY <1>5 DEF HashMatches
  <2>2. CASE /\ left - 1 # 0
             /\ RequestNextChunk([ch EXCEPT ![i] = Finished(d)], dl, pkts)
             /\ UNCHANGED in_progress
    <3> DEFINE ch2 == [chunks EXCEPT ![i] = Finished(d)]
    <3>1. GoodChunks(ch2, dl) /\ SameLast(ch2)
      BY <1>2, ReleaseMatched, PeersAssumption
    <3>2. RequestNextChunk(ch2, dl, pkts)
      BY <1>3, <2>2
    <3>3. \A j \in Chunks : ch2[j].finished = IF j = i THEN TRUE ELSE chunks[j].finished
      BY <1>2 DEF GoodChunks, GoodChunk, ChunkStatus
    <3> HIDE DEF ch2, dl
    <3>4. /\ GoodChunks(chunks', downloading') /\ out' \subseteq Packets
          /\ \A j \in Chunks : chunks'[j].finished = ch2[j].finished
          /\ GetsFrom(dl)
      BY <3>1, <3>2, RequestNextGood
    <3>5. in_progress'
      BY <2>2
    <3>6. Obtains(p, i)
      BY <2>1, <2>2, <3>3, <3>4, <3>5 DEF Obtains
    <3> QED
      BY <3>4, <3>5, <3>6 DEF dl
  <2>3. CASE /\ left - 1 = 0
             /\ chunks' = Freed
             /\ in_progress' = FALSE
             /\ downloading' = dl
             /\ out' = pkts
    <3>1. downloading' \in [Ids -> Chunks \cup {None}]
      BY <2>3 DEF GoodChunks
    <3>2. Obtains(p, i)
      BY <2>1, <2>3, <3>1 DEF Obtains
    <3> QED
      BY <2>3, <3>2
  <2> QED
    BY <2>2, <2>3, <1>5
<1> QED
  BY <1>1, <1>4, <1>5 DEF FinishChunk, FinishFile

(* A DATA packet: dropped, stored, or the one that completes chunk i.      *)
LEMMA UpdateDataShape ==
  ASSUME IInv, NEW p \in Peers, NEW s \in Blocks, NEW b \in Bodies, UpdateData(p, s, b)
  PROVE  \/ /\ out' = {}
            /\ UNCHANGED <<in_progress, left, downloading, chunks, file>>
         \/ Continues /\ NoGet(out')
         \/ \E i \in Chunks :
              /\ Continues \/ Obtains(p, i)
              /\ downloading[p] = i /\ chunks[i].left = 1
              /\ in_progress' => GetsFrom([downloading EXCEPT ![p] = None])
              /\ NoGet(out') \/ in_progress'
<1>1. ASSUME NEW i \in Chunks, NEW n \in 0 .. NumBlocks,
             i = downloading[p], NextMissing(chunks[i], s, n), in_progress,
             LET ch == [chunks EXCEPT ![i] = Stored(chunks[i], s, b, n)]
             IN  \/ /\ ch[i].left # 0
                    /\ chunks' = ch
                    /\ out' = {Ack(p, n)}
                    /\ UNCHANGED <<in_progress, left, downloading, file>>
                 \/ /\ ch[i].left = 0
                    /\ FinishChunk(i, ch, {Ack(p, n)})
      PROVE  \/ Continues /\ NoGet(out')
             \/ /\ Continues \/ Obtains(p, i)
                /\ chunks[i].left = 1
                /\ in_progress' => GetsFrom([downloading EXCEPT ![p] = None])
                /\ NoGet(out') \/ in_progress'
  <2> DEFINE d  == Stored(chunks[i], s, b, n)
             ch == [chunks EXCEPT ![i] = d]
  <2>1. /\ GoodChunks(chunks, downloading)
        /\ ~ chunks[i].finished /\ chunks[i].cur_provider = p
        /\ d \in ChunkStatus /\ Distinct(d)
        /\ d.cur_provider = p /\ d.finished = chunks[i].finished
        /\ d.last_provider = chunks[i].last_provider
        /\ d.left # 0 => GoodChunk(d)
        /\ d.left = 0 => chunks[i].left = 1
        /\ {Ack(p, n)} \subseteq Packets /\ NoGet({Ack(p, n)})
    BY <1>1, UpdateDataStored
  <2> HIDE DEF d
  <2>2. ch[i] = d
    BY <2>1 DEF GoodChunks
  <2>3. CASE /\ d.left # 0
             /\ chunks' = ch
             /\ out' = {Ack(p, n)}
             /\ UNCHANGED <<in_progress, left, downloading, file>>
    <3>1. \A j \in Chunks : chunks'[j] = IF j = i THEN d ELSE chunks[j]
      BY <2>1, <2>3 DEF GoodChunks
    <3>2. GoodChunks(chunks', downloading')
      BY <3>1, <2>1, <2>3 DEF GoodChunks, Matched
    <3>3. \A j \in Chunks : chunks'[j].finished = chunks[j].finished
      BY <3>1, <3>2, <2>1
    <3> QED
      BY <3>2, <3>3, <2>1, <2>3, <1>1 DEF Continues
  <2>4. CASE d.left = 0 /\ FinishChunk(i, ch, {Ack(p, n)})
    BY <2>1, <2>4, <1>1, FinishChunkShape
  <2> QED
    BY <2>2, <2>3, <2>4, <1>1 DEF d
<1> QED
  BY <1>1 DEF UpdateData

(* in_progress stays a Boolean.                                            *)
LEMMA ActiveType == ASSUME IInv, [Next]_vars PROVE in_progress' \in BOOLEAN
<1>1. in_progress \in BOOLEAN
  BY DEF IInv, TypeOK
<1>2. ASSUME NEW i, NEW ch, NEW pkts, FinishChunk(i, ch, pkts) PROVE in_progress' \in BOOLEAN
  BY <1>1, <1>2 DEF FinishChunk, FinishFile
<1>3. ASSUME NEW p \in Peers, NEW s \in Blocks, NEW b \in Bodies, UpdateData(p, s, b)
      PROVE  in_progress' \in BOOLEAN
  BY <1>1, <1>2, <1>3 DEF UpdateData
<1> QED
  BY <1>1, <1>3 DEF Next, vars, InitRequestor, InitRequestorNoFile, AddProvider,
                    RequstorTimeout

(* Every step is a new download, a failed command, a stutter but for the   *)
(* packets, or has one of the two shapes.                                  *)
LEMMA StepShape ==
  ASSUME IInv, [Next]_vars
  PROVE  \/ InitRequestor
         \/ InitRequestorNoFile
         \/ /\ out' \in {out, {}}
            /\ UNCHANGED <<in_progress, left, downloading, chunks, file>>
         \/ Continues
         \/ \E p \in Peers, i \in Chunks : Obtains(p, i)
  BY AddProviderShape, UpdateDataShape, RequstorTimeoutShape DEF Next, vars

(* Every step keeps the invariant.                                         *)
LEMMA NextInv == ASSUME IInv, [Next]_vars PROVE IInv'
<1>1. CASE /\ out' \in {out, {}}
           /\ UNCHANGED <<in_progress, left, downloading, chunks, file>>
  BY <1>1 DEF IInv, TypeOK, Progressing, FileIntegrity
<1> QED
  BY <1>1, StepShape, ActiveType, InitRequestorInv, InitRequestorNoFileInv,
     ContinuesInv, ObtainsInv

(* The invariant holds in every reachable state.                           *)
THEOREM Inductive == Spec => []IInv
  BY InitInv, NextInv, PTL DEF Spec

(* Every variable keeps its type.                                          *)
THEOREM TypeCorrect == Spec => []TypeOK
<1>1. IInv => TypeOK
  BY DEF IInv
<1> QED
  BY <1>1, Inductive, PTL

(* downloading and cur_provider never disagree (requestor.c never files a  *)
(* DATA packet under a chunk that is not waiting for its sender).          *)
THEOREM MatchingHolds == Spec => []Matching
<1>1. IInv => Matching
  BY DEF IInv, Progressing, GoodChunks, Matching
<1> QED
  BY <1>1, Inductive, PTL

(* A waiting chunk always has a running timer (requstor_timeout).          *)
THEOREM ArmedTimerHolds == Spec => []ArmedTimer
<1>1. IInv => ArmedTimer
  BY DEF IInv, Progressing, GoodChunks, GoodChunk, ArmedTimer
<1> QED
  BY <1>1, Inductive, PTL

(* Both counters named left count what is missing, and it is not nothing.  *)
THEOREM AccountingHolds == Spec => []Accounting
<1>1. IInv => Accounting
  BY DEF IInv, Progressing, GoodChunks, GoodChunk, Accounting
<1> QED
  BY <1>1, Inductive, PTL

(* The cumulative ACK of update_data never covers a missing packet.        *)
THEOREM AckIsHonestHolds == Spec => []AckIsHonest
<1>1. IInv => AckIsHonest
  BY DEF IInv, Progressing, GoodChunks, GoodChunk, AckIsHonest
<1> QED
  BY <1>1, Inductive, PTL

(* The array of providers never lists a peer twice.                        *)
THEOREM ProvidersDistinctHolds == Spec => []ProvidersDistinct
<1>1. IInv => ProvidersDistinct
  BY DEF IInv, Progressing, GoodChunks, GoodChunk, ProvidersDistinct
<1> QED
  BY <1>1, Inductive, PTL

(* Whatever the peers send, only right content reaches the output file.    *)
THEOREM FileIntegrityHolds == Spec => []FileIntegrity
<1>1. IInv => FileIntegrity
  BY DEF IInv
<1> QED
  BY <1>1, Inductive, PTL
----------------------------------------------------------------------------
(***************************************************************************)
(* Action properties, from the shape of the steps.                         *)
(***************************************************************************)

(* When the last chunk is obtained, all the others are in the file.        *)
LEMMA LastObtained ==
  ASSUME IInv, NEW p \in Peers, NEW i \in Chunks, Obtains(p, i), left' = 0,
         NEW j \in Chunks
  PROVE  file'[j] = Content(HashOf[j])
<1>1. Cardinality(Unfinished(chunks) \ {i}) = 0
  BY ObtainsFacts
<1>2. IsFiniteSet(Unfinished(chunks) \ {i})
  BY UnfinishedFinite, FS_Difference
<1>3. Unfinished(chunks) \ {i} = {}
  BY <1>1, <1>2, FS_EmptySet
<1>4. CASE j = i
  BY <1>4, ObtainsFacts
<1>5. CASE j # i
  <2>1. chunks[j].finished
    BY <1>3, <1>5 DEF Unfinished
  <2> QED
    BY <2>1, <1>5, ObtainsFacts
<1> QED
  BY <1>4, <1>5

(* The program reports a download finished only when all of it is there.   *)
THEOREM CompleteOnFinishHolds == Spec => CompleteOnFinish
<1>1. ASSUME IInv, [Next]_vars, in_progress, ~ in_progress', NEW j \in Chunks
      PROVE  file'[j] = Content(HashOf[j])
  <2>1. PICK p \in Peers, i \in Chunks : Obtains(p, i)
    BY <1>1, StepShape DEF InitRequestor, InitRequestorNoFile, Continues
  <2>2. left' = 0
    BY <2>1, <1>1 DEF Obtains
  <2> QED
    BY <2>1, <2>2, <1>1, LastObtained
<1>2. IInv /\ [Next]_vars =>
        [in_progress /\ ~ in_progress' =>
           \A i \in Chunks : file'[i] = Content(HashOf[i])]_vars
  BY <1>1
<1> QED
  BY <1>2, Inductive, PTL DEF Spec, CompleteOnFinish

(* A finished chunk is neither asked for nor written again.                *)
THEOREM NoReworkHolds == Spec => NoRework
<1>1. ASSUME IInv, [Next]_vars, in_progress, in_progress',
             NEW j \in Chunks, chunks[j].finished
      PROVE  chunks'[j].finished /\ chunks'[j].cur_provider = None /\ file'[j] = file[j]
  <2>1. CASE UNCHANGED <<in_progress, left, downloading, chunks, file>>
    BY <1>1, <2>1 DEF IInv, Progressing, GoodChunks, GoodChunk, Armed
  <2>2. CASE Continues
    BY <1>1, <2>2 DEF Continues, GoodChunks, GoodChunk, Armed
  <2>3. ASSUME NEW p \in Peers, NEW i \in Chunks, Obtains(p, i)
        PROVE  chunks'[j].finished /\ chunks'[j].cur_provider = None /\ file'[j] = file[j]
    <3>1. j # i
      BY <1>1, <2>3 DEF Obtains
    <3>2. chunks'[j].finished /\ GoodChunk(chunks'[j])
      BY <3>1, <1>1, <2>3 DEF Obtains, GoodChunks
    <3>3. file'[j] = file[j]
      BY <3>1, <1>1, <2>3, ObtainsFacts
    <3> QED
      BY <3>2, <3>3 DEF GoodChunk, Armed
  <2> QED
    BY <2>1, <2>2, <2>3, <1>1, StepShape DEF InitRequestor, InitRequestorNoFile
<1>2. IInv /\ [Next]_vars =>
        [in_progress /\ in_progress' =>
           \A i \in Chunks : chunks[i].finished =>
             chunks'[i].finished /\ chunks'[i].cur_provider = None /\ file'[i] = file[i]]_vars
  BY <1>1
<1> QED
  BY <1>2, Inductive, PTL DEF Spec, NoRework

(* A GET goes only to a peer that is idle, or that just became idle.       *)
THEOREM GetDisciplineHolds == Spec => GetDiscipline
<1>1. ASSUME IInv, Next, NEW p \in Peers, NEW h \in Hashes, GetPacket(p, h) \in out'
      PROVE  WasIdle(p) /\ StartsOver(p, h)
  <2>1. CASE InitRequestor \/ InitRequestorNoFile
    BY <2>1, <1>1, PacketsApart DEF InitRequestor, InitRequestorNoFile
  <2>2. ASSUME NEW q \in Peers, NEW g \in Hashes, AddProvider(q, g)
        PROVE  WasIdle(p) /\ StartsOver(p, h)
    BY <2>2, <1>1, AddProviderShape DEF GetsFrom, WasIdle
  <2>3. CASE RequstorTimeout
    <3>1. TickedPeers[p] = None /\ StartsOver(p, h)
      BY <2>3, <1>1, RequstorTimeoutShape DEF GetsFrom
    <3>2. \/ downloading[p] = None
          \/ \E i \in Chunks : Expires(chunks[i]) /\ chunks[i].cur_provider = p
      BY <3>1, PeersAssumption DEF TickedPeers
    <3>3. \A i \in Chunks : chunks[i].cur_provider = p => downloading[p] = i
      BY <2>3, <1>1, PeersAssumption DEF RequstorTimeout, IInv, Progressing, GoodChunks, Matched
    <3> QED
      BY <3>1, <3>2, <3>3 DEF Expires, WasIdle
  <2>4. ASSUME NEW q \in Peers, NEW s \in Blocks, NEW b \in Bodies, UpdateData(q, s, b)
        PROVE  WasIdle(p) /\ StartsOver(p, h)
    <3>1. ~ NoGet(out') /\ out' # {}
      BY <1>1 DEF NoGet
    <3>2. PICK i \in Chunks : /\ downloading[q] = i /\ chunks[i].left = 1
                             /\ GetsFrom([downloading EXCEPT ![q] = None])
      BY <3>1, <2>4, <1>1, UpdateDataShape
    <3>3. [downloading EXCEPT ![q] = None][p] = None /\ StartsOver(p, h)
      BY <3>2, <1>1 DEF GetsFrom
    <3>4. p = q \/ downloading[p] = None
      BY <3>3, <1>1, PeersAssumption DEF IInv, TypeOK
    <3> QED
      BY <3>2, <3>3, <3>4 DEF WasIdle
  <2> QED
    BY <2>1, <2>2, <2>3, <2>4, <1>1 DEF Next
<1>2. IInv /\ [Next]_vars =>
        [\A p \in Peers, h \in Hashes :
           [type |-> "GET", to |-> p, hash |-> h] \in out' => WasIdle(p) /\ StartsOver(p, h)]_vars
  BY <1>1 DEF GetPacket
<1> QED
  BY <1>2, Inductive, PTL DEF Spec, GetDiscipline

(* After a tick no idle provider of a waiting chunk is left unasked, and   *)
(* the chunk that stops the loop is asked for with WHOHAS.                 *)
THEOREM TickIsThoroughHolds == Spec => TickIsThorough
<1>1. ASSUME IInv, RequstorTimeout PROVE Thorough(chunks', downloading', out')
  <2>1. GoodChunks(TickedChunks, TickedPeers)
    BY <1>1, TickedAllGood
  <2> QED
    BY <2>1, <1>1, RequestAllThorough DEF RequstorTimeout
<1>2. IInv /\ [Next]_vars =>
        [in_progress' /\ ~ Thorough(chunks', downloading', out') => ~ RequstorTimeout]_vars
  BY <1>1
<1> QED
  BY <1>2, Inductive, PTL DEF Spec, TickIsThorough

----------------------------------------------------------------------------
(***************************************************************************)
(* The requestor implements Download.                                      *)
(***************************************************************************)

(* The chunks a download has are its finished ones.                        *)
LEMMA ObtainedFinished ==
  ASSUME IInv, in_progress
  PROVE  \A i \in Chunks : i \in Obtained <=> chunks[i].finished
  BY ContentTypes DEF IInv, FileIntegrity, Obtained

(* Good chunks are matched with the peers as Download demands.             *)
LEMMA GoodMatching ==
  ASSUME NEW ch, NEW dl, GoodChunks(ch, dl),
         NEW has \in SUBSET Chunks, \A i \in has : ch[i].finished
  PROVE  [p \in Peers |-> dl[p]] \in D!Matchings(Chunks \ has)
<1> DEFINE a == [p \in Peers |-> dl[p]]
<1>1. ASSUME NEW p \in Peers
      PROVE  dl[p] = None \/ (dl[p] \in Chunks /\ ch[dl[p]].cur_provider = p)
  BY PeersAssumption DEF GoodChunks, Matched
<1>2. ASSUME NEW p \in Peers, dl[p] # None
      PROVE  dl[p] \in Chunks \ has
  <2>1. dl[p] \in Chunks /\ ch[dl[p]].cur_provider = p
    BY <1>1, <1>2
  <2>2. ~ ch[dl[p]].finished
    BY <2>1, PeersAssumption DEF GoodChunks, GoodChunk, Armed, Ids, None
  <2> QED
    BY <2>1, <2>2
<1>3. a \in [Peers -> (Chunks \ has) \cup {None}]
  BY <1>2
<1>4. ASSUME NEW p \in Peers, NEW q \in Peers, a[p] = a[q], a[p] # None PROVE p = q
  BY <1>1, <1>4
<1> QED
  BY <1>3, <1>4 DEF D!Matchings, D!None, None

(* The initial state is one of Download.                                   *)
LEMMA RefinesInit == ASSUME Init PROVE D!Init
<1>1. Obtained = {}
  BY ContentTypes DEF Init, Obtained
<1> QED
  BY <1>1 DEF Init, D!Init, AskedFor, D!Nobody, D!None, None

(* A new download starts with nothing.                                     *)
LEMMA RefinesStart ==
  ASSUME IInv, InitRequestor \/ InitRequestorNoFile
  PROVE  D!Start \/ D!Truncate
<1>1. Obtained' = {}
  BY ContentTypes DEF InitRequestor, InitRequestorNoFile, Obtained
<1>2. CASE InitRequestor
  BY <1>1, <1>2, PeersAssumption DEF InitRequestor, D!Start, AskedFor, D!Nobody, D!None, None
<1>3. CASE InitRequestorNoFile
  BY <1>1, <1>3 DEF InitRequestorNoFile, D!Truncate, AskedFor
<1> QED
  BY <1>2, <1>3

(* A step that finishes no chunk asks, at most.                            *)
LEMMA RefinesAsk == ASSUME IInv, Continues PROVE D!Ask
<1>1. Obtained' = Obtained /\ Obtained \subseteq Chunks
  BY DEF Continues, Obtained
<1>2. \A i \in Obtained : chunks'[i].finished
  BY <1>1, ObtainedFinished DEF Continues
<1>3. [p \in Peers |-> downloading'[p]] \in D!Matchings(Chunks \ Obtained)
  BY <1>1, <1>2, GoodMatching DEF Continues
<1>4. AskedFor' = [p \in Peers |-> downloading'[p]]
  BY DEF Continues, AskedFor
<1>5. in_progress' = in_progress
  BY DEF Continues, IInv, TypeOK
<1> QED
  BY <1>1, <1>3, <1>4, <1>5 DEF Continues, D!Ask, D!Chunks, Chunks

(* A step that finishes a chunk obtains it.                                *)
LEMMA RefinesObtain ==
  ASSUME IInv, IInv', NEW p \in Peers, NEW i \in Chunks, Obtains(p, i)
  PROVE  D!Obtain(p)
<1>1. in_progress /\ AskedFor[p] = i /\ i # D!None
  BY ChunksNotNone DEF Obtains, AskedFor, D!None, None
<1>2. Obtained' = Obtained \cup {i}
  BY ObtainsFacts, ZenonT(30) DEF Obtained
<1>3. CASE left' # 0
  <2>1. /\ in_progress' /\ GoodChunks(chunks', downloading')
        /\ \A j \in Chunks : chunks'[j].finished = (IF j = i THEN TRUE ELSE chunks[j].finished)
    BY <1>3 DEF Obtains
  <2>2. \A j \in Chunks : j \in Obtained' <=> chunks'[j].finished
    <3>1. \A j \in Chunks : j \in Obtained <=> chunks[j].finished
      BY <1>1, ObtainedFinished
    <3> QED
      BY <3>1, <2>1, <1>2
  <2>3. Obtained' # Chunks
    <3>1. Unfinished(chunks') # {}
      BY <2>1, FS_EmptySet DEF IInv, Progressing
    <3> QED
      BY <3>1, <2>2 DEF Unfinished
  <2>4. Obtained' \in SUBSET Chunks
    BY DEF Obtained
  <2>5. [q \in Peers |-> downloading'[q]] \in D!Matchings(Chunks \ Obtained')
    BY <2>1, <2>2, <2>4, GoodMatching
  <2>6. AskedFor' = [q \in Peers |-> downloading'[q]]
    BY <2>1 DEF AskedFor
  <2>7. in_progress' = (Obtained' # Chunks)
    BY <2>1, <2>3 DEF IInv, TypeOK
  <2> QED
    BY <2>5, <2>6, <2>7, <1>1, <1>2 DEF D!Obtain, D!Chunks, Chunks
<1>4. CASE left' = 0
  <2>1. Obtained' = Chunks
    BY <1>4, LastObtained DEF Obtained
  <2>2. in_progress' = FALSE
    BY <1>4 DEF Obtains
  <2>3. AskedFor' \in D!Matchings(Chunks \ Obtained')
    BY <2>2 DEF AskedFor, D!Matchings, D!None, None
  <2> QED
    BY <2>1, <2>2, <2>3, <1>1, <1>2 DEF D!Obtain, D!Chunks, Chunks
<1> QED
  BY <1>3, <1>4

(* Every step is one of Download, or none.                                 *)
LEMMA RefinesNext == ASSUME IInv, [Next]_vars PROVE [D!Next]_(D!vars)
<1>1. CASE InitRequestor \/ InitRequestorNoFile
  BY <1>1, RefinesStart DEF D!Next
<1>2. CASE UNCHANGED <<in_progress, left, downloading, chunks, file>>
  BY <1>2 DEF D!vars, Obtained, AskedFor
<1>3. CASE Continues
  BY <1>3, RefinesAsk DEF D!Next
<1>4. ASSUME NEW p \in Peers, NEW i \in Chunks, Obtains(p, i) PROVE D!Next
  BY <1>4, NextInv, RefinesObtain DEF D!Next
<1> QED
  BY <1>1, <1>2, <1>3, <1>4, StepShape

(* The requestor implements Download, for any network and any peers.       *)
THEOREM Refinement == Spec => ImplementsDownload
<1>1. Init => D!Init
  BY RefinesInit
<1>2. IInv /\ [Next]_vars => [D!Next]_(D!vars)
  BY RefinesNext
<1> QED
  BY <1>1, <1>2, Inductive, PTL DEF Spec, ImplementsDownload, D!Spec

----------------------------------------------------------------------------
(***************************************************************************)
(* The sender.                                                             *)
(***************************************************************************)

(* The records of senders with a given rtt.  What the rtt is, which a      *)
(* recursive function computes, does not matter: how the window moves is   *)
(* right whatever comes out of the comparisons with it.                    *)
Shapes(r) ==
  [ is_idle         : BOOLEAN,
    rtt             : {r},
    last_tick       : 0 .. 2 * MaxAge,
    window_state    : {SLOW_START, CONG_CTL},
    window_ssthresh : Nat,
    window_size     : Nat,
    last_update     : 0 .. MaxAge,
    last_ack_num    : 0 .. BufferLen,
    last_ack_cnt    : Nat,
    head            : 0 .. BufferLen,
    tail            : 0 .. BufferLen,
    pkt_buf         : [Positions -> Packet] ]

(* The three invariants of a sender.                                       *)
Threshold(t) ==
  /\ t.window_state = SLOW_START <=> t.window_size <= t.window_ssthresh
  /\ t.window_size >= 1
  /\ t.window_ssthresh >= 2
Window(t) ==
  /\ t.head = t.last_ack_num
  /\ t.tail = BufferLen
  /\ t.head < t.tail
  /\ \A i \in Positions : t.pkt_buf[i].data <=> t.head <= i
Filling(t) ==
  \A i \in Positions : t.head <= i /\ i < t.head + t.window_size => t.pkt_buf[i].age # Unsent

(* What every function of send.c keeps.  Each part needs the others: that  *)
(* no gap opens depends on the packets being there when they are sent, and *)
(* that on the head being the packet asked for.                            *)
GoodSender(t) ==
  /\ t \in Shapes(t.rtt)
  /\ Threshold(t)
  /\ ~ t.is_idle => Window(t) /\ Filling(t)

(* What wd_lost and wd_ack leave alone.                                    *)
Unmoved(t, u) ==
  /\ u.is_idle = t.is_idle
  /\ u.head = t.head /\ u.tail = t.tail /\ u.last_ack_num = t.last_ack_num
  /\ u.pkt_buf = t.pkt_buf

LEMMA ConstantsTyped ==
  /\ BufferLen \in Nat /\ BufferLen > 0
  /\ StartSsthresh \in Nat /\ StartSsthresh >= 2
  /\ AckTimeout \in Nat /\ ResendThres \in Nat
  /\ MaxAge \in Nat /\ 0 \in 0 .. MaxAge
  BY SendAssumption

(* What wd_lost does to any sender.                                        *)
LEMMA WdLostFields ==
  ASSUME NEW r, NEW t \in Shapes(r), Threshold(t)
  PROVE  /\ WdLost(t) \in Shapes(r) /\ Threshold(WdLost(t))
         /\ WdLost(t).window_size = 1 /\ Unmoved(t, WdLost(t))
<1>1. Larger(t.window_size \div 2, 2) \in Nat /\ Larger(t.window_size \div 2, 2) >= 2
  BY DEF Shapes, Larger
<1>2. WdLost(t) \in Shapes(r)
  BY <1>1 DEF Shapes, WdLost
<1>3. Threshold(WdLost(t))
  BY <1>1 DEF Shapes, WdLost, Threshold
<1>4. WdLost(t).window_size = 1
  BY DEF Shapes, WdLost
<1>5. Unmoved(t, WdLost(t))
  BY DEF Shapes, WdLost, Unmoved
<1> QED
  BY <1>2, <1>3, <1>4, <1>5

(* What wd_ack does to any sender.                                         *)
LEMMA WdAckFields ==
  ASSUME NEW r, NEW t \in Shapes(r), Threshold(t)
  PROVE  /\ WdAck(t) \in Shapes(r) /\ Threshold(WdAck(t))
         /\ WdAck(t).window_size >= t.window_size /\ Unmoved(t, WdAck(t))
<1>1. CASE t.window_state = SLOW_START
  <2> DEFINE next == IF t.window_size + 1 > t.window_ssthresh THEN CONG_CTL ELSE t.window_state
  <2>1. WdAck(t) = [t EXCEPT !.window_size = t.window_size + 1, !.window_state = next,
                             !.last_update = 0]
    BY <1>1 DEF WdAck, Shapes
  <2>2. next \in {SLOW_START, CONG_CTL} /\ t.window_size + 1 \in Nat
    BY DEF Shapes
  <2>3. next = SLOW_START <=> t.window_size + 1 <= t.window_ssthresh
    BY <1>1 DEF Shapes, SLOW_START, CONG_CTL
  <2> HIDE DEF next
  <2>4. WdAck(t) \in Shapes(r)
    BY <2>1, <2>2, ConstantsTyped DEF Shapes
  <2>5. Threshold(WdAck(t))
    BY <2>1, <2>2, <2>3 DEF Shapes, Threshold
  <2>6. WdAck(t).window_size >= t.window_size /\ Unmoved(t, WdAck(t))
    BY <2>1 DEF Shapes, Unmoved
  <2> QED
    BY <2>4, <2>5, <2>6
<1>2. CASE t.window_state # SLOW_START /\ t.last_update >= t.rtt
  <2>1. WdAck(t) = [t EXCEPT !.window_size = t.window_size + 1, !.last_update = 0]
    BY <1>2 DEF WdAck, Shapes
  <2>2. WdAck(t) \in Shapes(r)
    <3>1. t.window_size + 1 \in Nat
      BY DEF Shapes
    <3> QED
      BY <2>1, <3>1, ConstantsTyped DEF Shapes
  <2>3. Threshold(WdAck(t))
    BY <1>2, <2>1 DEF Shapes, Threshold
  <2>4. WdAck(t).window_size >= t.window_size /\ Unmoved(t, WdAck(t))
    BY <2>1 DEF Shapes, Unmoved
  <2> QED
    BY <2>2, <2>3, <2>4
<1>3. CASE t.window_state # SLOW_START /\ ~ (t.last_update >= t.rtt)
  <2>1. WdAck(t) = t
    BY <1>3 DEF WdAck
  <2> QED
    BY <2>1 DEF Unmoved, Shapes
<1> QED
  BY <1>1, <1>2, <1>3

----------------------------------------------------------------------------
(* What all but the window and the packets of a record are made of.        *)
SameWindow(t, u) ==
  /\ u.is_idle = t.is_idle /\ u.head = t.head /\ u.tail = t.tail
  /\ u.last_ack_num = t.last_ack_num /\ u.window_state = t.window_state
  /\ u.window_size = t.window_size /\ u.window_ssthresh = t.window_ssthresh

(* Other packets in the place of those of t.                               *)
LEMMA OtherPackets ==
  ASSUME NEW r, NEW t \in Shapes(r), NEW buf \in [Positions -> Packet]
  PROVE  LET u == [t EXCEPT !.pkt_buf = buf]
         IN  u \in Shapes(r) /\ u.pkt_buf = buf /\ SameWindow(t, u)
<1> DEFINE u == [t EXCEPT !.pkt_buf = buf]
<1>1. u \in Shapes(r)
  BY DEF Shapes
<1>2. u.pkt_buf = buf /\ SameWindow(t, u)
  BY DEF Shapes, SameWindow
<1> QED
  BY <1>1, <1>2

(* ctl_send changes the packet it is given, and leaves it where it is.     *)
LEMMA CtlSendFields ==
  ASSUME NEW r, NEW t \in Shapes(r), NEW i \in Positions
  PROVE  /\ CtlSend(t, i) \in Shapes(r) /\ SameWindow(t, CtlSend(t, i))
         /\ \A j \in Positions :
              /\ CtlSend(t, i).pkt_buf[j].data = t.pkt_buf[j].data
              /\ CtlSend(t, i).pkt_buf[j].resend = t.pkt_buf[j].resend
              /\ CtlSend(t, i).pkt_buf[j].age =
                   IF j # i THEN t.pkt_buf[j].age
                   ELSE IF i - t.head < t.window_size THEN 0 ELSE Unsent
<1> DEFINE age == IF i - t.head < t.window_size THEN 0 ELSE Unsent
           packet == [t.pkt_buf[i] EXCEPT !.ack = 0, !.age = age]
           buf == [t.pkt_buf EXCEPT ![i] = packet]
<1>1. t.pkt_buf \in [Positions -> Packet]
  BY DEF Shapes
<1>2. age \in 0 .. MaxAge \cup {Unsent}
  BY ConstantsTyped
<1>3. packet \in Packet /\ packet.age = age
      /\ packet.data = t.pkt_buf[i].data /\ packet.resend = t.pkt_buf[i].resend
  <2> HIDE DEF age
  <2> QED
    BY <1>1, <1>2 DEF Packet
<1>4. buf \in [Positions -> Packet]
  <2> HIDE DEF packet
  <2> QED
    BY <1>1, <1>3
<1>5. CtlSend(t, i) = [t EXCEPT !.pkt_buf = buf]
  BY DEF CtlSend, Reaches
<1>6. CtlSend(t, i) \in Shapes(r) /\ CtlSend(t, i).pkt_buf = buf /\ SameWindow(t, CtlSend(t, i))
  <2> HIDE DEF buf
  <2> QED
    BY <1>4, <1>5, OtherPackets
<1>7. ASSUME NEW j \in Positions
      PROVE  buf[j] = IF j = i THEN packet ELSE t.pkt_buf[j]
  <2> HIDE DEF packet
  <2> QED
    BY <1>1
<1> HIDE DEF packet, buf
<1> QED
  BY <1>3, <1>6, <1>7

(* The counting of an ACK that is not an old one: from the head on, what   *)
(* the window reached before and reaches still is in flight.               *)
StillFilling(t, u) ==
  \A i \in Positions :
    t.head <= i /\ i < t.head + t.window_size /\ i < t.head + u.window_size
      => u.pkt_buf[i].age # Unsent

LEMMA CountAckFields ==
  ASSUME NEW x, GoodSender(x), ~ x.is_idle, NEW w,
         NEW n \in 0 .. BufferLen, n >= x.last_ack_num
  PROVE  LET u == CountAck(x, n, w)
         IN  /\ u \in Shapes(x.rtt) /\ Threshold(u)
             /\ ~ u.is_idle /\ u.head = x.head /\ u.tail = x.tail /\ u.last_ack_num = n
             /\ \A i \in Positions : u.pkt_buf[i].data = x.pkt_buf[i].data
             /\ StillFilling(x, u)
             /\ n = x.head \/ u.window_size >= x.window_size
<1> DEFINE u == CountAck(x, n, w)
           WithCount(cnt) == [x EXCEPT !.last_ack_cnt = cnt]
<1>1. x \in Shapes(x.rtt) /\ Threshold(x) /\ Window(x) /\ Filling(x)
  BY DEF GoodSender
<1>2. ASSUME NEW cnt \in Nat
      PROVE  /\ WithCount(cnt) \in Shapes(x.rtt) /\ SameWindow(x, WithCount(cnt))
             /\ WithCount(cnt).pkt_buf = x.pkt_buf
  <2>1. WithCount(cnt) \in Shapes(x.rtt)
    BY <1>1 DEF Shapes
  <2>2. SameWindow(x, WithCount(cnt)) /\ WithCount(cnt).pkt_buf = x.pkt_buf
    BY <1>1 DEF Shapes, SameWindow
  <2> QED
    BY <2>1, <2>2
<1>3. CASE n > x.last_ack_num
  <2> DEFINE t == [x EXCEPT !.last_ack_num = n, !.last_ack_cnt = 1]
  <2>1. t \in Shapes(x.rtt)
    BY <1>1 DEF Shapes
  <2>2. /\ t.is_idle = x.is_idle /\ t.head = x.head /\ t.tail = x.tail
        /\ t.last_ack_num = n /\ t.window_state = x.window_state
        /\ t.window_size = x.window_size /\ t.window_ssthresh = x.window_ssthresh
        /\ t.pkt_buf = x.pkt_buf
    BY <1>1 DEF Shapes
  <2>3. Threshold(t)
    BY <1>1, <2>2 DEF Threshold
  <2>4. u = WdAck(t)
    BY <1>3 DEF CountAck
  <2> HIDE DEF t, u
  <2>5. u \in Shapes(x.rtt) /\ Threshold(u) /\ u.window_size >= t.window_size /\ Unmoved(t, u)
    BY <2>1, <2>3, <2>4, WdAckFields
  <2> QED
    BY <1>1, <2>2, <2>5 DEF Unmoved, StillFilling, Filling, u
<1>4. ASSUME n = x.last_ack_num, NEW cnt \in Nat, u = WithCount(cnt)
      PROVE  /\ u \in Shapes(x.rtt) /\ Threshold(u)
             /\ ~ u.is_idle /\ u.head = x.head /\ u.tail = x.tail /\ u.last_ack_num = n
             /\ \A i \in Positions : u.pkt_buf[i].data = x.pkt_buf[i].data
             /\ StillFilling(x, u)
             /\ n = x.head \/ u.window_size >= x.window_size
  <2> HIDE DEF u, WithCount
  <2>1. u \in Shapes(x.rtt) /\ SameWindow(x, u) /\ u.pkt_buf = x.pkt_buf
    BY <1>2, <1>4
  <2> QED
    BY <1>1, <1>4, <2>1 DEF SameWindow, Threshold, StillFilling, Filling, Window
<1>5. CASE n = x.last_ack_num /\ IsFastRetransmit(x, n, w)
           /\ x.last_ack_num < x.head + x.window_size
  <2> DEFINE t == WithCount(0)
  <2>1. u = CtlSend(WdLost(t), x.last_ack_num)
    BY <1>1, <1>5 DEF CountAck, Shapes
  <2> HIDE DEF t, u
  <2>2. /\ t \in Shapes(x.rtt) /\ SameWindow(x, t) /\ t.pkt_buf = x.pkt_buf
    BY <1>2 DEF t
  <2>3. Threshold(t)
    BY <1>1, <2>2 DEF Threshold, SameWindow
  <2>4. /\ WdLost(t) \in Shapes(x.rtt) /\ Threshold(WdLost(t))
        /\ WdLost(t).window_size = 1 /\ Unmoved(t, WdLost(t))
    BY <2>2, <2>3, WdLostFields
  <2>5. x.last_ack_num \in Positions /\ x.last_ack_num = x.head
    BY <1>1, ConstantsTyped DEF Window, Positions, Shapes
  <2>6. /\ u \in Shapes(x.rtt) /\ SameWindow(WdLost(t), u)
        /\ \A j \in Positions :
             /\ u.pkt_buf[j].data = WdLost(t).pkt_buf[j].data
             /\ u.pkt_buf[j].age =
                  IF j # x.last_ack_num THEN WdLost(t).pkt_buf[j].age
                  ELSE IF x.last_ack_num - WdLost(t).head < WdLost(t).window_size
                       THEN 0 ELSE Unsent
    BY <2>1, <2>4, <2>5, CtlSendFields
  <2>7. Threshold(u)
    BY <2>4, <2>6 DEF Threshold, SameWindow
  <2>8. /\ ~ u.is_idle /\ u.head = x.head /\ u.tail = x.tail /\ u.last_ack_num = n
        /\ u.window_size = 1
        /\ \A i \in Positions : u.pkt_buf[i].data = x.pkt_buf[i].data
    BY <1>1, <1>5, <2>2, <2>4, <2>6 DEF SameWindow, Unmoved
  <2>9. u.pkt_buf[x.head].age = 0
    <3>1. x.head \in Int /\ x.head - x.head < 1
      BY <1>1 DEF Shapes
    <3> QED
      BY <2>2, <2>4, <2>5, <2>6, <3>1 DEF SameWindow, Unmoved
  <2>10. StillFilling(x, u)
    <3>1. x.head \in Int
      BY <1>1 DEF Shapes
    <3> QED
      BY <2>8, <2>9, <3>1 DEF StillFilling, Unsent, Positions
  <2> QED
    BY <1>5, <2>5, <2>6, <2>7, <2>8, <2>10 DEF u
<1>6. CASE n = x.last_ack_num /\ IsFastRetransmit(x, n, w)
           /\ ~ (x.last_ack_num < x.head + x.window_size)
  <2>1. u = WithCount(0)
    BY <1>1, <1>6 DEF CountAck, Shapes
  <2> QED
    BY <1>4, <1>6, <2>1
<1>7. CASE n = x.last_ack_num /\ ~ IsFastRetransmit(x, n, w)
  <2>1. x.last_ack_cnt \in Nat /\ x = WithCount(x.last_ack_cnt)
    BY <1>1 DEF Shapes
  <2>2. u = x \/ u = WithCount(x.last_ack_cnt + 1)
    BY <1>1, <1>7 DEF CountAck, Shapes
  <2> QED
    BY <1>4, <1>7, <2>1, <2>2
<1>8. n > x.last_ack_num \/ n = x.last_ack_num
  BY <1>1 DEF Shapes
<1> QED
  BY <1>3, <1>5, <1>6, <1>7, <1>8

(* Up to the end the head moves to the packet asked for, and nothing but   *)
(* the packets below it goes.                                              *)
LEMMA ShiftHeadFields ==
  ASSUME NEW r, NEW t \in Shapes(r), t.tail = BufferLen,
         NEW n \in 0 .. BufferLen, t.head <= n
  PROVE  LET v == ShiftHead(t, n)
         IN  /\ v \in Shapes(v.rtt) /\ v.head = n
             /\ v.is_idle = t.is_idle /\ v.tail = t.tail /\ v.last_ack_num = t.last_ack_num
             /\ v.window_state = t.window_state /\ v.window_size = t.window_size
             /\ v.window_ssthresh = t.window_ssthresh
             /\ \A i \in Positions :
                  v.pkt_buf[i] = IF t.head <= i /\ i < n THEN NoPacket ELSE t.pkt_buf[i]
<1> DEFINE rtt == RttAfter(t, n)
           buf == [i \in Positions |-> IF t.head <= i /\ i < n THEN NoPacket ELSE t.pkt_buf[i]]
           v   == [t EXCEPT !.rtt = rtt, !.head = n, !.pkt_buf = buf]
<1>1. HeadAfter(t, n) = n
  BY ConstantsTyped DEF HeadAfter, Smaller, Larger, Shapes
<1>2. ShiftHead(t, n) = v
  <2> HIDE DEF rtt
  <2> QED
    BY <1>1 DEF ShiftHead, rtt
<1>3. NoPacket \in Packet
  BY ConstantsTyped DEF NoPacket, Packet
<1>4. buf \in [Positions -> Packet]
  <2>1. t.pkt_buf \in [Positions -> Packet]
    BY DEF Shapes
  <2> QED
    BY <1>3, <2>1
<1> HIDE DEF rtt
<1>5. v.rtt = rtt
  BY DEF Shapes
<1>6. v \in Shapes(rtt)
  <2> HIDE DEF buf
  <2> QED
    BY <1>4 DEF Shapes
<1>7. /\ v.head = n /\ v.pkt_buf = buf
      /\ v.is_idle = t.is_idle /\ v.tail = t.tail /\ v.last_ack_num = t.last_ack_num
      /\ v.window_state = t.window_state /\ v.window_size = t.window_size
      /\ v.window_ssthresh = t.window_ssthresh
  <2> HIDE DEF buf
  <2> QED
    BY DEF Shapes
<1> HIDE DEF v
<1> QED
  BY <1>2, <1>5, <1>6, <1>7

(* What the window newly reaches is sent, as far as it is there.           *)
LEMMA SendReachedFields ==
  ASSUME NEW r, NEW t \in Shapes(r), NEW last_sent
  PROVE  LET v == SendReached(t, last_sent)
         IN  /\ v \in Shapes(r) /\ SameWindow(t, v)
             /\ \A i \in Positions :
                  /\ v.pkt_buf[i].data = t.pkt_buf[i].data
                  /\ v.pkt_buf[i].age =
                       IF i \in NewlyReached(t, last_sent) /\ t.pkt_buf[i].data
                       THEN 0 ELSE t.pkt_buf[i].age
<1> DEFINE Slot(i) == IF i \in NewlyReached(t, last_sent) /\ t.pkt_buf[i].data
                      THEN [t.pkt_buf[i] EXCEPT !.ack = 0, !.age = 0] ELSE t.pkt_buf[i]
           buf == [i \in Positions |-> Slot(i)]
<1>1. ASSUME NEW i \in Positions
      PROVE  /\ Slot(i) \in Packet
             /\ Slot(i).data = t.pkt_buf[i].data
             /\ Slot(i).age = IF i \in NewlyReached(t, last_sent) /\ t.pkt_buf[i].data
                              THEN 0 ELSE t.pkt_buf[i].age
  <2>1. t.pkt_buf[i] \in Packet
    BY DEF Shapes
  <2>2. CASE i \in NewlyReached(t, last_sent) /\ t.pkt_buf[i].data
    BY <2>1, <2>2, ConstantsTyped DEF Packet
  <2>3. CASE ~ (i \in NewlyReached(t, last_sent) /\ t.pkt_buf[i].data)
    BY <2>1, <2>3
  <2> QED
    BY <2>2, <2>3
<1>2. SendReached(t, last_sent) = [t EXCEPT !.pkt_buf = buf]
  BY DEF SendReached
<1> HIDE DEF Slot
<1>3. buf \in [Positions -> Packet]
  BY <1>1
<1>4. LET v == SendReached(t, last_sent) IN v \in Shapes(r) /\ v.pkt_buf = buf /\ SameWindow(t, v)
  <2> HIDE DEF buf
  <2> QED
    BY <1>2, <1>3, OtherPackets
<1> QED
  BY <1>1, <1>4

(* An ACK keeps the invariant.                                             *)
LEMMA AckGood ==
  ASSUME NEW x, GoodSender(x), ~ x.is_idle, NEW w, NEW n \in 0 .. BufferLen,
         NEW y, y = CtlUdpAck(x, n, w)
  PROVE  GoodSender(y)
<1> DEFINE u == CountAck(x, n, w)
           v == ShiftHead(u, n)
<1>1. x \in Shapes(x.rtt) /\ Threshold(x) /\ Window(x) /\ Filling(x) /\ ~ x.is_idle
      /\ y = CtlUdpAck(x, n, w)
  BY DEF GoodSender
<1>2. CASE n < x.last_ack_num
  <2>1. y = x
    BY <1>1, <1>2 DEF CtlUdpAck
  <2> QED
    BY <1>1, <2>1 DEF GoodSender, Threshold, Window, Filling
<1>3. CASE ~ (n < x.last_ack_num)
  <2>1. n >= x.last_ack_num
    BY <1>1, <1>3 DEF Shapes
  <2>2. /\ u \in Shapes(x.rtt) /\ Threshold(u)
        /\ ~ u.is_idle /\ u.head = x.head /\ u.tail = BufferLen /\ u.last_ack_num = n
        /\ \A i \in Positions : u.pkt_buf[i].data = x.pkt_buf[i].data
        /\ StillFilling(x, u)
        /\ n = x.head \/ u.window_size >= x.window_size
    BY <1>1, <2>1, CountAckFields DEF Window
  <2>3. y = IF n >= BufferLen THEN Closed(v) ELSE SendReached(v, x.head + x.window_size)
    BY <1>1, <1>3 DEF CtlUdpAck
  <2>4. u.head <= n
    BY <1>1, <2>1, <2>2 DEF Window
  <2> HIDE DEF u
  <2>5. /\ v \in Shapes(v.rtt) /\ v.head = n
        /\ ~ v.is_idle /\ v.tail = BufferLen /\ v.last_ack_num = n
        /\ v.window_state = u.window_state /\ v.window_size = u.window_size
        /\ v.window_ssthresh = u.window_ssthresh
        /\ \A i \in Positions :
             v.pkt_buf[i] = IF u.head <= i /\ i < n THEN NoPacket ELSE u.pkt_buf[i]
    BY <2>2, <2>4, ShiftHeadFields
  <2> HIDE DEF v
  <2>6. Threshold(v)
    BY <2>2, <2>5 DEF Threshold
  <2>7. CASE n >= BufferLen
    <3>1. y = [v EXCEPT !.is_idle = TRUE]
      BY <2>3, <2>7 DEF Closed
    <3>2. y \in Shapes(v.rtt) /\ y.rtt = v.rtt
      BY <2>5, <3>1 DEF Shapes
    <3>3. y.is_idle /\ y.window_state = v.window_state
          /\ y.window_size = v.window_size /\ y.window_ssthresh = v.window_ssthresh
      BY <2>5, <3>1 DEF Shapes
    <3> QED
      BY <2>6, <3>2, <3>3 DEF GoodSender, Threshold, Shapes
  <2>8. CASE ~ (n >= BufferLen)
    <3> DEFINE last_sent == x.head + x.window_size
    <3>1. /\ y \in Shapes(v.rtt) /\ SameWindow(v, y)
          /\ \A i \in Positions :
               /\ y.pkt_buf[i].data = v.pkt_buf[i].data
               /\ y.pkt_buf[i].age =
                    IF i \in NewlyReached(v, last_sent) /\ v.pkt_buf[i].data
                    THEN 0 ELSE v.pkt_buf[i].age
      BY <2>3, <2>5, <2>8, SendReachedFields
    <3>2. y.rtt = v.rtt
      BY <3>1 DEF Shapes
    <3>3. Threshold(y)
      BY <2>6, <3>1 DEF Threshold, SameWindow
    <3>4. ASSUME NEW i \in Positions
          PROVE  v.pkt_buf[i].data <=> n <= i
      <4>1. i \in Int /\ n \in Int
        BY DEF Positions
      <4>2. x.pkt_buf[i].data <=> x.head <= i
        BY <1>1 DEF Window
      <4>3. x.head \in Int
        BY <1>1 DEF Shapes
      <4>4. CASE x.head <= i /\ i < n
        BY <2>2, <2>5, <4>1, <4>4 DEF NoPacket
      <4>5. CASE ~ (x.head <= i /\ i < n)
        <5>1. v.pkt_buf[i].data = x.pkt_buf[i].data
          BY <2>2, <2>5, <4>5
        <5>2. x.head <= n
          BY <2>2, <2>4
        <5> QED
          BY <4>1, <4>2, <4>3, <4>5, <5>1, <5>2
      <4> QED
        BY <4>4, <4>5
    <3>5. Window(y)
      <4>1. y.head = n /\ y.last_ack_num = n /\ y.tail = BufferLen
        BY <2>5, <3>1 DEF SameWindow
      <4>2. n < BufferLen
        BY <2>8, ConstantsTyped
      <4> QED
        BY <3>1, <3>4, <4>1, <4>2 DEF Window
    <3>6. ASSUME NEW i \in Positions, n <= i, i < n + u.window_size
          PROVE  y.pkt_buf[i].age # Unsent
      <4>1. /\ i \in Int /\ x.head \in Int /\ n \in Int /\ u.window_size \in Nat
            /\ x.window_size \in Nat /\ i < BufferLen /\ x.head <= n
        <5>1. i \in Int /\ i < BufferLen /\ n \in Int
          BY ConstantsTyped DEF Positions
        <5>2. x.head \in Int /\ x.window_size \in Nat
          BY <1>1 DEF Shapes
        <5>3. u.window_size \in Nat
          BY <2>2 DEF Shapes
        <5> QED
          BY <2>2, <2>4, <5>1, <5>2, <5>3
      <4>2. CASE i \in NewlyReached(v, last_sent)
        BY <3>1, <3>4, <3>6, <4>2 DEF Unsent
      <4>3. CASE ~ (i \in NewlyReached(v, last_sent))
        <5>1. i < last_sent
          BY <2>5, <3>6, <4>1, <4>3 DEF NewlyReached, Reaches, Larger
        <5>2. x.head <= i /\ i < x.head + x.window_size
          BY <3>6, <4>1, <5>1
        <5>3. i < x.head + u.window_size
          BY <2>2, <3>6, <4>1, <5>2
        <5> QED
          BY <2>2, <2>5, <3>1, <3>6, <4>1, <4>3, <5>2, <5>3 DEF StillFilling
      <4> QED
        BY <4>2, <4>3
    <3>7. Filling(y)
      BY <2>5, <3>1, <3>6 DEF Filling, SameWindow
    <3> QED
      BY <3>1, <3>2, <3>3, <3>5, <3>7 DEF GoodSender
  <2> QED
    BY <2>7, <2>8
<1> QED
  BY <1>2, <1>3

----------------------------------------------------------------------------
(* A fresh sender, and one with its chunk.                                 *)
LEMMA InitSenderFields ==
  /\ InitSender \in Shapes(0) /\ InitSender.rtt = 0 /\ Threshold(InitSender)
  /\ InitSender.pkt_buf = [i \in Positions |-> NoPacket]
<1>1. NoPacket \in Packet
  BY ConstantsTyped DEF NoPacket, Packet
<1>2. InitSender \in Shapes(0)
  BY <1>1, ConstantsTyped DEF InitSender, Shapes, StartWindow
<1>3. Threshold(InitSender)
  BY ConstantsTyped DEF InitSender, Threshold, StartWindow
<1> QED
  BY <1>2, <1>3 DEF InitSender

LEMMA IdleGood == GoodSender(Closed(InitSender)) /\ Closed(InitSender).is_idle
<1> DEFINE y == Closed(InitSender)
<1>1. y = [InitSender EXCEPT !.is_idle = TRUE]
  BY DEF Closed
<1> HIDE DEF y
<1>2. y \in Shapes(0) /\ y.rtt = 0 /\ y.is_idle
  BY <1>1, InitSenderFields DEF Shapes
<1>3. y.window_state = InitSender.window_state /\ y.window_size = InitSender.window_size
      /\ y.window_ssthresh = InitSender.window_ssthresh
  BY <1>1, InitSenderFields DEF Shapes
<1>4. GoodSender(y)
  BY <1>2, <1>3, InitSenderFields DEF GoodSender, Threshold
<1> QED
  BY <1>2, <1>4 DEF y

LEMMA FilledFields == Filled \in Shapes(Filled.rtt) /\ Threshold(Filled) /\ Window(Filled) /\ Filling(Filled)
<1> DEFINE packet(i) == [data |-> TRUE, ack |-> 0, resend |-> 0,
                         age |-> IF i < StartWindow THEN 0 ELSE Unsent]
           buf == [i \in Positions |-> packet(i)]
           t == [InitSender EXCEPT !.tail = BufferLen, !.pkt_buf = buf]
<1>1. ASSUME NEW i \in Positions
      PROVE  packet(i) \in Packet /\ packet(i).data
             /\ packet(i).age = IF i < StartWindow THEN 0 ELSE Unsent
  BY ConstantsTyped DEF Packet
<1>2. Filled = t
  BY DEF Filled
<1> HIDE DEF packet
<1>3. buf \in [Positions -> Packet]
  BY <1>1
<1>4. t \in Shapes(0) /\ t.rtt = 0
  <2> HIDE DEF buf
  <2>1. BufferLen \in 0 .. BufferLen
    BY ConstantsTyped
  <2>2. InitSender \in Shapes(0)
    BY InitSenderFields
  <2>3. t \in Shapes(0)
    BY <1>3, <2>1, <2>2 DEF Shapes
  <2> QED
    BY <2>3 DEF Shapes
<1>5. /\ t.pkt_buf = buf /\ t.tail = BufferLen /\ t.head = 0 /\ t.last_ack_num = 0
      /\ t.window_size = 1 /\ t.window_state = InitSender.window_state
      /\ t.window_ssthresh = InitSender.window_ssthresh
      /\ InitSender.window_size = 1
  <2> HIDE DEF buf
  <2> QED
    BY DEF InitSender, StartWindow
<1> HIDE DEF t
<1>6. Threshold(t)
  BY <1>5, InitSenderFields DEF Threshold
<1>7. Window(t)
  BY <1>1, <1>5, ConstantsTyped DEF Window, Positions
<1>8. Filling(t)
  BY <1>1, <1>5 DEF Filling, Positions, StartWindow, Unsent
<1> QED
  BY <1>2, <1>4, <1>6, <1>7, <1>8

(* A unit of time that passes leaves all but ages alone.                   *)
LEMMA AgedGood ==
  ASSUME NEW x, GoodSender(x), NEW y, y = Aged(x)
  PROVE  GoodSender(y)
<1> DEFINE buf == [i \in Positions |-> AgedPacket(x.pkt_buf[i])]
<1>1. x \in Shapes(x.rtt) /\ Threshold(x)
  BY DEF GoodSender
<1>2. ASSUME NEW i \in Positions
      PROVE  /\ AgedPacket(x.pkt_buf[i]) \in Packet
             /\ AgedPacket(x.pkt_buf[i]).data = x.pkt_buf[i].data
             /\ x.pkt_buf[i].age # Unsent => AgedPacket(x.pkt_buf[i]).age # Unsent
  <2> DEFINE k == x.pkt_buf[i]
             age == IF k.age = Unsent THEN Unsent ELSE Smaller(k.age + 1, MaxAge)
  <2>1. k \in Packet
    BY <1>1 DEF Shapes
  <2>2. AgedPacket(k) = [k EXCEPT !.age = age]
    BY <2>1 DEF AgedPacket, Packet
  <2>3. age \in 0 .. MaxAge \cup {Unsent} /\ (k.age # Unsent => age # Unsent)
    BY <2>1, ConstantsTyped DEF Packet, Smaller, Unsent
  <2> HIDE DEF age, k
  <2> QED
    BY <2>1, <2>2, <2>3 DEF Packet, k
<1>3. buf \in [Positions -> Packet]
  BY <1>2
<1>4. Smaller(x.last_tick + 1, 2 * MaxAge) \in 0 .. 2 * MaxAge
      /\ Smaller(x.last_update + 1, MaxAge) \in 0 .. MaxAge
  BY <1>1, ConstantsTyped DEF Shapes, Smaller
<1>5. y = [x EXCEPT !.last_tick = Smaller(x.last_tick + 1, 2 * MaxAge),
                     !.last_update = Smaller(x.last_update + 1, MaxAge), !.pkt_buf = buf]
  BY <1>1 DEF Aged, Shapes
<1>6. y \in Shapes(x.rtt) /\ y.rtt = x.rtt
  <2> HIDE DEF buf
  <2> QED
    BY <1>1, <1>3, <1>4, <1>5 DEF Shapes
<1>7. y.pkt_buf = buf /\ SameWindow(x, y)
  <2> HIDE DEF buf
  <2> QED
    BY <1>1, <1>5 DEF Shapes, SameWindow
<1>8. Threshold(y)
  BY <1>1, <1>7 DEF Threshold, SameWindow
<1>9. ~ y.is_idle => Window(y) /\ Filling(y)
  <2> SUFFICES ASSUME ~ y.is_idle PROVE Window(y) /\ Filling(y)
    OBVIOUS
  <2>1. Window(x) /\ Filling(x)
    BY <1>7 DEF GoodSender, SameWindow
  <2>2. Window(y)
    BY <1>2, <1>7, <2>1 DEF Window, SameWindow
  <2>3. Filling(y)
    BY <1>2, <1>7, <2>1 DEF Filling, SameWindow
  <2> QED
    BY <2>2, <2>3
<1> QED
  BY <1>6, <1>8, <1>9 DEF GoodSender

(* A tick sends one packet again at most, or gives the connection up.      *)
LEMMA TimeOutGood ==
  ASSUME NEW x, GoodSender(x), NEW y, y = CtlUdpTimeOut(x)
  PROVE  GoodSender(y)
<1> DEFINE ticked == [x EXCEPT !.last_tick = 0]
<1>1. x \in Shapes(x.rtt) /\ Threshold(x) /\ y = CtlUdpTimeOut(x)
  BY DEF GoodSender
<1>2. ticked \in Shapes(x.rtt) /\ ticked.rtt = x.rtt
  <2>1. 0 \in 0 .. 2 * MaxAge
    BY ConstantsTyped
  <2> QED
    BY <1>1, <2>1 DEF Shapes
<1>3. SameWindow(x, ticked) /\ ticked.pkt_buf = x.pkt_buf
  BY <1>1 DEF Shapes, SameWindow
<1>4. Threshold(ticked)
  BY <1>1, <1>3 DEF Threshold, SameWindow
<1> HIDE DEF ticked
<1>5. CASE ~ Due(x)
  <2>1. y = x
    BY <1>1, <1>5 DEF CtlUdpTimeOut
  <2> QED
    BY <2>1 DEF GoodSender, Threshold, Window, Filling
<1>6. CASE Due(x) /\ Overdue(x) = {}
  <2>1. y = ticked
    BY <1>1, <1>6 DEF CtlUdpTimeOut, ticked
  <2> QED
    BY <1>2, <1>3, <1>4, <2>1 DEF GoodSender, Window, Filling, SameWindow
<1>7. CASE Due(x) /\ Overdue(x) # {}
  <2> DEFINE i == CHOOSE j \in Overdue(x) : TRUE
  <2>1. y = IF GivesUp(x, i) THEN Closed(ticked) ELSE Resend(ticked, i)
    BY <1>1, <1>7 DEF CtlUdpTimeOut, ticked
  <2>2. i \in Overdue(x)
    BY <1>7
  <2> HIDE DEF i
  <2>3. i \in Positions /\ StopsAt(x, i)
    BY <2>2 DEF Overdue
  <2>4. ~ x.is_idle /\ Window(x) /\ Filling(x)
    BY <1>7 DEF Due, GoodSender
  <2>5. CASE GivesUp(x, i)
    <3>1. y = [ticked EXCEPT !.is_idle = TRUE]
      BY <2>1, <2>5 DEF Closed
    <3>2. y \in Shapes(x.rtt) /\ y.rtt = x.rtt /\ y.is_idle
      BY <1>2, <3>1 DEF Shapes
    <3>3. y.window_state = ticked.window_state /\ y.window_size = ticked.window_size
          /\ y.window_ssthresh = ticked.window_ssthresh
      BY <1>2, <3>1 DEF Shapes
    <3> QED
      BY <1>4, <3>2, <3>3 DEF GoodSender, Threshold
  <2>6. CASE ~ GivesUp(x, i)
    <3> DEFINE counted == [ticked EXCEPT !.pkt_buf[i].resend = @ + 1]
               packet == [x.pkt_buf[i] EXCEPT !.resend = x.pkt_buf[i].resend + 1]
               buf == [x.pkt_buf EXCEPT ![i] = packet]
    <3>1. x.pkt_buf \in [Positions -> Packet] /\ x.pkt_buf[i] \in Packet
      BY <1>1, <2>3 DEF Shapes
    <3>2. packet \in Packet /\ packet.data = x.pkt_buf[i].data /\ packet.age = x.pkt_buf[i].age
      BY <2>6, <3>1, ConstantsTyped DEF Packet, GivesUp
    <3>3. counted = [ticked EXCEPT !.pkt_buf = buf]
      BY <1>2, <1>3, <3>1 DEF Shapes
    <3> HIDE DEF packet, counted
    <3>4. buf \in [Positions -> Packet]
      BY <3>1, <3>2
    <3>5. ASSUME NEW j \in Positions
          PROVE  buf[j].data = x.pkt_buf[j].data /\ buf[j].age = x.pkt_buf[j].age
      BY <3>1, <3>2
    <3> HIDE DEF buf
    <3>6. counted \in Shapes(x.rtt) /\ counted.pkt_buf = buf /\ SameWindow(ticked, counted)
      BY <1>2, <3>3, <3>4, OtherPackets
    <3>7. Threshold(counted)
      BY <1>4, <3>6 DEF Threshold, SameWindow
    <3>8. /\ WdLost(counted) \in Shapes(x.rtt) /\ Threshold(WdLost(counted))
          /\ WdLost(counted).window_size = 1 /\ Unmoved(counted, WdLost(counted))
      BY <3>6, <3>7, WdLostFields
    <3>9. y = CtlSend(WdLost(counted), i)
      BY <2>1, <2>6 DEF Resend, counted
    <3>10. /\ y \in Shapes(x.rtt) /\ SameWindow(WdLost(counted), y)
           /\ \A j \in Positions :
                /\ y.pkt_buf[j].data = WdLost(counted).pkt_buf[j].data
                /\ y.pkt_buf[j].age =
                     IF j # i THEN WdLost(counted).pkt_buf[j].age
                     ELSE IF i - WdLost(counted).head < WdLost(counted).window_size
                          THEN 0 ELSE Unsent
      BY <2>3, <3>8, <3>9, CtlSendFields
    <3>11. y.rtt = x.rtt
      BY <3>10 DEF Shapes
    <3>12. Threshold(y)
      BY <3>8, <3>10 DEF Threshold, SameWindow
    <3>13. /\ y.head = x.head /\ y.tail = x.tail /\ y.last_ack_num = x.last_ack_num
           /\ WdLost(counted).head = x.head /\ y.window_size = 1
      BY <1>3, <3>6, <3>8, <3>10 DEF SameWindow, Unmoved
    <3>14. \A j \in Positions : y.pkt_buf[j].data = x.pkt_buf[j].data
      BY <3>5, <3>6, <3>8, <3>10 DEF Unmoved
    <3>15. Window(y)
      BY <2>4, <3>13, <3>14 DEF Window
    <3>16. x.head \in Positions
      BY <1>1, <2>4, ConstantsTyped DEF Shapes, Window, Positions
    <3>17. y.pkt_buf[x.head].age # Unsent
      <4>1. CASE x.head = i
        <5>1. i - WdLost(counted).head < WdLost(counted).window_size
          BY <3>8, <3>13, <3>16, <4>1 DEF Positions
        <5> QED
          BY <3>10, <3>16, <4>1, <5>1 DEF Unsent
      <4>2. CASE x.head # i
        <5>1. x.pkt_buf[x.head].age # Unsent
          BY <1>1, <2>4, <3>16 DEF Filling, Positions, Threshold, Shapes
        <5>2. y.pkt_buf[x.head].age = x.pkt_buf[x.head].age
          BY <3>5, <3>6, <3>8, <3>10, <3>16, <4>2 DEF Unmoved
        <5> QED
          BY <5>1, <5>2
      <4> QED
        BY <4>1, <4>2
    <3>18. Filling(y)
      BY <3>13, <3>16, <3>17 DEF Filling, Positions
    <3> QED
      BY <3>10, <3>11, <3>12, <3>15, <3>18 DEF GoodSender
  <2> QED
    BY <2>5, <2>6
<1> QED
  BY <1>5, <1>6, <1>7

----------------------------------------------------------------------------
(***************************************************************************)
(* What is sent, and when.                                                 *)
(***************************************************************************)

(* The first position the window does not reach.                           *)
Reach(t) == Smaller(t.head + t.window_size, BufferLen)

(* A sender that has its chunk has sent up to where its window reaches.    *)
LEMMA FilledReach ==
  /\ GoodSender(Filled) /\ ~ Filled.is_idle /\ Filled.last_ack_num = 0
  /\ Reach(Filled) = Smaller(StartWindow, BufferLen)
<1>1. GoodSender(Filled)
  BY FilledFields DEF GoodSender
<1>2. /\ ~ Filled.is_idle /\ Filled.last_ack_num = 0
      /\ Filled.head = 0 /\ Filled.window_size = StartWindow
  BY DEF Filled, InitSender
<1> QED
  BY <1>1, <1>2 DEF Reach, StartWindow

(* Where the window is when an ACK that is not an old one was taken in.    *)
LEMMA AckFields ==
  ASSUME NEW x, GoodSender(x), ~ x.is_idle, NEW w,
         NEW n \in 0 .. BufferLen, n >= x.last_ack_num,
         NEW y, y = CtlUdpAck(x, n, w)
  PROVE  LET v == ShiftHead(CountAck(x, n, w), n)
         IN  /\ v \in Shapes(v.rtt) /\ v.head = n /\ v.last_ack_num = n /\ ~ v.is_idle
             /\ v.tail = BufferLen
             /\ n = x.head \/ v.window_size >= x.window_size
             /\ n >= BufferLen => y = Closed(v)
             /\ n < BufferLen => SameWindow(v, y)
<1> DEFINE u == CountAck(x, n, w)
           v == ShiftHead(u, n)
<1>1. /\ u \in Shapes(x.rtt) /\ ~ u.is_idle /\ u.head = x.head /\ u.tail = x.tail
      /\ u.last_ack_num = n
      /\ n = x.head \/ u.window_size >= x.window_size
  BY CountAckFields
<1>2. u.tail = BufferLen /\ u.head <= n
  BY <1>1 DEF GoodSender, Window
<1> HIDE DEF u
<1>3. /\ v \in Shapes(v.rtt) /\ v.head = n /\ ~ v.is_idle /\ v.last_ack_num = n
      /\ v.tail = BufferLen /\ v.window_size = u.window_size
  BY <1>1, <1>2, ShiftHeadFields
<1>4. x.last_ack_num \in Int /\ n \in Int /\ BufferLen \in Int
  BY ConstantsTyped DEF GoodSender, Shapes
<1>5. y = IF n >= BufferLen THEN Closed(v) ELSE SendReached(v, x.head + x.window_size)
  BY <1>4 DEF CtlUdpAck, u
<1> HIDE DEF v
<1>6. ASSUME n < BufferLen PROVE SameWindow(v, y)
  <2>1. y = SendReached(v, x.head + x.window_size)
    BY <1>4, <1>5, <1>6
  <2> QED
    BY <1>3, <2>1, SendReachedFields
<1> QED
  BY <1>1, <1>3, <1>5, <1>6 DEF u, v

(* An ACK of the packet at the head, not the last one, moves the window    *)
(* along; what it newly reaches is sent, and nothing else.                 *)
LEMMA NextAck ==
  ASSUME NEW x, GoodSender(x), ~ x.is_idle, NEW w,
         NEW n \in 0 .. BufferLen, n = x.last_ack_num + 1, n < BufferLen,
         NEW y, y = CtlUdpAck(x, n, w)
  PROVE  /\ ~ y.is_idle /\ y.last_ack_num = n
         /\ Reach(x) <= Reach(y)
         /\ SentByAck(x, n, w) = Reach(x) .. Reach(y) - 1
<1> DEFINE v == ShiftHead(CountAck(x, n, w), n)
<1>1. x \in Shapes(x.rtt) /\ x.head = x.last_ack_num /\ x.window_size >= 1
  BY DEF GoodSender, Window, Threshold
<1>2. x.head \in Nat /\ x.window_size \in Nat /\ n \in Nat /\ BufferLen \in Nat
  BY <1>1, ConstantsTyped DEF Shapes
<1>3. n >= x.last_ack_num /\ n # x.last_ack_num /\ ~ (n < x.last_ack_num) /\ ~ (n >= BufferLen)
  BY <1>1, <1>2
<1>4. SentByAck(x, n, w) = NewlyReached(v, x.head + x.window_size)
  BY <1>3 DEF SentByAck, IsFastRetransmit
<1>5. /\ v \in Shapes(v.rtt) /\ v.head = n /\ v.last_ack_num = n /\ ~ v.is_idle
      /\ v.tail = BufferLen /\ v.window_size >= x.window_size
      /\ SameWindow(v, y)
  BY <1>1, <1>3, AckFields
<1> HIDE DEF v
<1>6. y.head = n /\ y.window_size = v.window_size /\ v.window_size \in Nat
  BY <1>5 DEF SameWindow, Shapes
<1>7. Reach(x) = Smaller(x.head + x.window_size, BufferLen)
      /\ Reach(y) = Smaller(n + v.window_size, BufferLen)
  BY <1>6 DEF Reach
<1>8. Reach(x) <= Reach(y)
  BY <1>1, <1>2, <1>5, <1>6, <1>7 DEF Smaller
<1>9. ASSUME NEW i
      PROVE  i \in NewlyReached(v, x.head + x.window_size) <=> i \in Reach(x) .. Reach(y) - 1
  BY <1>1, <1>2, <1>5, <1>6, <1>7 DEF NewlyReached, Reaches, Larger, Smaller, Positions
<1> QED
  BY <1>4, <1>5, <1>8, <1>9 DEF SameWindow

(* The ACK of the last packet closes the connection.                       *)
LEMMA LastAck ==
  ASSUME NEW x, GoodSender(x), ~ x.is_idle, NEW w, NEW y, y = CtlUdpAck(x, BufferLen, w)
  PROVE  y.is_idle /\ SentByAck(x, BufferLen, w) = {}
<1> DEFINE v == ShiftHead(CountAck(x, BufferLen, w), BufferLen)
<1>1. BufferLen \in 0 .. BufferLen /\ BufferLen >= x.last_ack_num /\ BufferLen >= BufferLen
  BY ConstantsTyped DEF GoodSender, Shapes
<1>2. v \in Shapes(v.rtt) /\ y = Closed(v)
  BY <1>1, AckFields
<1> HIDE DEF v
<1> QED
  BY <1>1, <1>2 DEF Closed, Shapes, SentByAck

(* Packets of the chunk are sent, never others.                            *)
LEMMA SentPositions ==
  ASSUME NEW x, GoodSender(x), ~ x.is_idle, NEW w, NEW n \in 0 .. BufferLen
  PROVE  SentByAck(x, n, w) \subseteq Positions /\ SentByTimeOut(x) \subseteq Positions
<1>1. x.last_ack_num \in Positions
  <2>1. x.last_ack_num \in 0 .. BufferLen
    BY DEF GoodSender, Shapes
  <2>2. x.last_ack_num < BufferLen
    BY DEF GoodSender, Window
  <2> QED
    BY <2>1, <2>2, ConstantsTyped DEF Positions
<1>2. SentByAck(x, n, w) \subseteq Positions
  <2>1. \A y, m : NewlyReached(y, m) \subseteq Positions
    BY DEF NewlyReached
  <2> QED
    BY <1>1, <2>1 DEF SentByAck
<1>3. SentByTimeOut(x) \subseteq Positions
  BY DEF SentByTimeOut, Overdue
<1> QED
  BY <1>2, <1>3
----------------------------------------------------------------------------
(***************************************************************************)
(* One sender, with any peer behind it.                                    *)
(***************************************************************************)

(* The invariant, which is inductive.                                      *)
SenderInv == GoodSender(sender)

LEMMA SenderInitInv == SenderInit => SenderInv
  BY IdleGood DEF SenderInit, SenderInv

(* Every step is the work of a function of send.c, or none.                *)
LEMMA SenderNextInv == SenderInv /\ [SenderNext]_senderVars => SenderInv'
<1> SUFFICES ASSUME SenderInv, [SenderNext]_senderVars PROVE SenderInv'
  OBVIOUS
<1>1. CASE Open
  BY <1>1, FilledFields DEF Open, SenderInv, GoodSender
<1>2. ASSUME NEW n \in 0 .. BufferLen, ReceiveAck(n) PROVE SenderInv'
  BY <1>2, AckGood DEF ReceiveAck, SenderInv
<1>3. CASE Tick
  BY <1>3, TimeOutGood DEF Tick, SenderInv
<1>4. CASE Age
  BY <1>4, AgedGood DEF Age, SenderInv
<1>5. CASE Wrap \/ UNCHANGED senderVars
  BY <1>5 DEF Wrap, senderVars, SenderInv
<1> QED
  BY <1>1, <1>2, <1>3, <1>4, <1>5 DEF SenderNext

LEMMA SenderSpecInv == SenderSpec => []SenderInv
  BY SenderInitInv, SenderNextInv, PTL DEF SenderSpec

(***************************************************************************)
(* The pointers of an open sender are good: its window begins at the       *)
(* packet the peer asks for, and a packet is there exactly if it is not    *)
(* acknowledged (shift_head frees, ctl_send follows).                      *)
(***************************************************************************)
THEOREM SenderWindow == SenderSpec => []WindowOfLivePackets
<1>1. SenderInv => WindowOfLivePackets
  BY DEF SenderInv, GoodSender, Window, WindowOfLivePackets
<1> QED
  BY <1>1, SenderSpecInv, PTL

(***************************************************************************)
(* What the window reaches is in flight, so that the scan of               *)
(* ctl_udp_time_out never stops short of an overdue packet.                *)
(***************************************************************************)
THEOREM SenderNoGap == SenderSpec => []NoGap
<1>1. SenderInv => NoGap
  BY DEF SenderInv, GoodSender, Filling, NoGap, InFlight
<1> QED
  BY <1>1, SenderSpecInv, PTL

(***************************************************************************)
(* The state of the congestion window says on which side of the threshold  *)
(* the window is (wd_lost, wd_ack).                                        *)
(***************************************************************************)
THEOREM SenderSlowStart == SenderSpec => []SlowStartBelowThreshold
<1>1. SenderInv => SlowStartBelowThreshold
  BY DEF SenderInv, GoodSender, Threshold, SlowStartBelowThreshold
<1> QED
  BY <1>1, SenderSpecInv, PTL

----------------------------------------------------------------------------
(* A tick does not move the window.                                        *)
LEMMA TickKeepsHead ==
  ASSUME SenderInv, Tick
  PROVE  sender'.head = sender.head
<1> DEFINE ticked == [sender EXCEPT !.last_tick = 0]
           i == CHOOSE j \in Overdue(sender) : TRUE
           counted == [ticked EXCEPT !.pkt_buf[i].resend = @ + 1]
<1>1. sender \in Shapes(sender.rtt)
  BY DEF SenderInv, GoodSender
<1>2. ticked.head = sender.head
  BY <1>1 DEF Shapes
<1>3. \/ sender' = sender
      \/ sender' = ticked
      \/ sender' = [ticked EXCEPT !.is_idle = TRUE]
      \/ sender' = Resend(ticked, i)
  BY DEF Tick, CtlUdpTimeOut, Closed
<1>4. Resend(ticked, i).head = ticked.head
  <2>1. Resend(ticked, i) = CtlSend(WdLost(counted), i)
    BY DEF Resend
  <2>2. counted.head = ticked.head
    BY <1>1 DEF Shapes
  <2> HIDE DEF counted, ticked, i
  <2>3. CtlSend(WdLost(counted), i).head = WdLost(counted).head
    BY DEF CtlSend
  <2>4. WdLost(counted).head = counted.head
    BY DEF WdLost
  <2> QED
    BY <2>1, <2>2, <2>3, <2>4
<1>5. [ticked EXCEPT !.is_idle = TRUE].head = ticked.head
  BY <1>1 DEF Shapes
<1> QED
  BY <1>2, <1>3, <1>4, <1>5

(* What one step sends is in the window it leaves.                         *)
LEMMA StepStaysInWindow ==
  ASSUME SenderInv, SenderInv', SenderNext, NEW i \in sent'
  PROVE  sender'.head <= i /\ i < sender'.head + sender'.window_size
<1>1. CASE Open
  <2>1. sender' = Filled /\ i \in 0 .. Smaller(StartWindow, BufferLen) - 1
    BY <1>1 DEF Open
  <2>2. Filled.head = 0 /\ Filled.window_size = 1
    BY DEF Filled, InitSender, StartWindow
  <2> QED
    BY <2>1, <2>2, ConstantsTyped DEF Smaller, StartWindow
<1>2. ASSUME NEW n \in 0 .. BufferLen, ReceiveAck(n)
      PROVE  sender'.head <= i /\ i < sender'.head + sender'.window_size
  <2> DEFINE v == ShiftHead(CountAck(sender, n, wrapped), n)
             last_sent == sender.head + sender.window_size
  <2>1. i \in SentByAck(sender, n, wrapped) /\ ~ sender.is_idle
    BY <1>2 DEF ReceiveAck
  <2>2. ~ (n < sender.last_ack_num) /\ ~ (n >= BufferLen)
    BY <2>1 DEF SentByAck
  <2>3. n \in Int /\ n < BufferLen /\ n >= sender.last_ack_num
    BY <2>2, ConstantsTyped DEF SenderInv, GoodSender, Shapes
  <2>4. v \in Shapes(v.rtt) /\ v.head = n /\ SameWindow(v, sender')
    BY <1>2, <2>3, AckFields DEF ReceiveAck, SenderInv
  <2>5. sender'.head = n /\ sender'.window_size = v.window_size /\ sender'.window_size \in Nat
        /\ sender'.window_size >= 1
    BY <2>4 DEF SameWindow, SenderInv, GoodSender, Threshold, Shapes
  <2>6. \/ IsFastRetransmit(sender, n, wrapped) /\ i = sender.last_ack_num
        \/ i \in NewlyReached(v, last_sent)
    BY <2>1, <2>2 DEF SentByAck
  <2> HIDE DEF v
  <2>7. CASE IsFastRetransmit(sender, n, wrapped) /\ i = sender.last_ack_num
    BY <2>3, <2>5, <2>7 DEF IsFastRetransmit
  <2>8. CASE i \in NewlyReached(v, last_sent)
    <3>1. last_sent \in Int
      BY DEF SenderInv, GoodSender, Shapes
    <3>2. i \in Int /\ Larger(last_sent, n) <= i /\ i - n < v.window_size
      BY <2>4, <2>8, ConstantsTyped DEF NewlyReached, Reaches, Positions
    <3> QED
      BY <2>3, <2>5, <3>1, <3>2 DEF Larger
  <2> QED
    BY <2>6, <2>7, <2>8
<1>3. CASE Tick
  <2>1. i \in SentByTimeOut(sender) /\ sender' = CtlUdpTimeOut(sender)
    BY <1>3 DEF Tick
  <2>2. i \in Overdue(sender) /\ Due(sender) /\ Reaches(WdLost(sender), i)
    BY <2>1 DEF SentByTimeOut
  <2>3. i \in Positions /\ i \in sender.head .. sender.tail - 1
    BY <2>2 DEF Overdue, StopsAt
  <2>4. WdLost(sender).window_size = 1 /\ WdLost(sender).head = sender.head
    BY WdLostFields DEF SenderInv, GoodSender, Unmoved
  <2>5. i = sender.head
    <3>1. sender.head \in Int /\ sender.tail \in Int
      BY DEF SenderInv, GoodSender, Shapes
    <3> QED
      BY <2>2, <2>3, <2>4, <3>1 DEF Reaches
  <2>6. sender'.head = sender.head
    BY <1>3, TickKeepsHead
  <2>7. sender'.window_size \in Nat /\ sender'.window_size >= 1 /\ sender.head \in Int
    BY DEF SenderInv, GoodSender, Threshold, Shapes
  <2> QED
    BY <2>5, <2>6, <2>7
<1>4. CASE Age \/ Wrap
  BY <1>4 DEF Age, Wrap
<1> QED
  BY <1>1, <1>2, <1>3, <1>4 DEF SenderNext

(* A step closes a connection for a reason.                                *)
LEMMA StepClosesForAReason ==
  ASSUME SenderInv, SenderNext, ~ sender.is_idle, sender'.is_idle
  PROVE  \/ sender'.last_ack_num = BufferLen
         \/ \E i \in Positions : InFlight(i) /\ sender.pkt_buf[i].resend = ResendThres
<1>1. CASE Open
  BY <1>1 DEF Open
<1>2. ASSUME NEW n \in 0 .. BufferLen, ReceiveAck(n)
      PROVE  sender'.last_ack_num = BufferLen
  <2> DEFINE v == ShiftHead(CountAck(sender, n, wrapped), n)
  <2>1. CASE n < sender.last_ack_num
    BY <1>2, <2>1 DEF ReceiveAck, CtlUdpAck
  <2>2. CASE n >= sender.last_ack_num
    <3>1. /\ v \in Shapes(v.rtt) /\ v.last_ack_num = n /\ ~ v.is_idle
          /\ n >= BufferLen => sender' = Closed(v)
          /\ n < BufferLen => SameWindow(v, sender')
      BY <1>2, <2>2, AckFields DEF ReceiveAck, SenderInv
    <3> HIDE DEF v
    <3>2. n >= BufferLen
      <4>1. n >= BufferLen \/ n < BufferLen
        BY ConstantsTyped
      <4>2. ~ SameWindow(v, sender')
        BY <3>1 DEF SameWindow
      <4> QED
        BY <3>1, <4>1, <4>2
    <3>3. Closed(v).last_ack_num = v.last_ack_num
      BY <3>1 DEF Closed, Shapes
    <3> QED
      BY <3>1, <3>2, <3>3, ConstantsTyped
  <2> QED
    BY <2>1, <2>2, ConstantsTyped DEF SenderInv, GoodSender, Shapes
<1>3. CASE Tick
  <2> DEFINE ticked == [sender EXCEPT !.last_tick = 0]
             i == CHOOSE j \in Overdue(sender) : TRUE
             counted == [ticked EXCEPT !.pkt_buf[i].resend = @ + 1]
  <2>1. sender \in Shapes(sender.rtt)
    BY DEF SenderInv, GoodSender
  <2>2. ~ ticked.is_idle /\ ~ counted.is_idle
    BY <2>1 DEF Shapes
  <2>3. ~ Resend(ticked, i).is_idle
    <3>1. Resend(ticked, i) = CtlSend(WdLost(counted), i)
      BY DEF Resend
    <3> HIDE DEF counted, ticked, i
    <3>2. CtlSend(WdLost(counted), i).is_idle = WdLost(counted).is_idle
      BY DEF CtlSend
    <3>3. WdLost(counted).is_idle = counted.is_idle
      BY DEF WdLost
    <3> QED
      BY <2>2, <3>1, <3>2, <3>3
  <2>4. Overdue(sender) # {} /\ GivesUp(sender, i)
    BY <1>3, <2>2, <2>3 DEF Tick, CtlUdpTimeOut
  <2>5. i \in Overdue(sender)
    BY <2>4
  <2> HIDE DEF i
  <2>6. i \in Positions /\ sender.pkt_buf[i].age # Unsent
    BY <2>5 DEF Overdue
  <2>7. sender.pkt_buf[i].resend \in 0 .. ResendThres
    BY <2>1, <2>6 DEF Shapes, Packet
  <2>8. sender.pkt_buf[i].resend = ResendThres
    BY <2>4, <2>7, ConstantsTyped DEF GivesUp
  <2> QED
    BY <2>6, <2>8 DEF InFlight
<1>4. CASE Age
  BY <1>4 DEF Age, Aged, SenderInv, GoodSender, Shapes
<1>5. CASE Wrap
  BY <1>5 DEF Wrap
<1> QED
  BY <1>1, <1>2, <1>3, <1>4, <1>5 DEF SenderNext

(***************************************************************************)
(* Nothing is sent outside the window, by an ACK or by a tick (ctl_udp_ack,*)
(* ctl_udp_time_out).                                                      *)
(***************************************************************************)
THEOREM SenderStaysInWindow == SenderSpec => StaysInWindow
<1>1. SenderInv /\ SenderInv' /\ [SenderNext]_senderVars
        => [\A i \in sent' : sender'.head <= i /\ i < sender'.head + sender'.window_size]_senderVars
  BY StepStaysInWindow
<1> QED
  BY <1>1, SenderSpecInv, PTL DEF SenderSpec, StaysInWindow

(***************************************************************************)
(* A connection ends with its last ACK or after a packet was overdue more  *)
(* often than ResendThres, never sooner (ctl_udp_ack, ctl_udp_time_out).   *)
(***************************************************************************)
THEOREM SenderNoPrematureClose == SenderSpec => NoPrematureClose
<1>1. SenderInv /\ [SenderNext]_senderVars
        => [~ sender.is_idle /\ sender'.is_idle =>
              \/ sender'.last_ack_num = BufferLen
              \/ \E i \in Positions : InFlight(i) /\ sender.pkt_buf[i].resend = ResendThres]_senderVars
  BY StepClosesForAReason
<1> QED
  BY <1>1, SenderSpecInv, PTL DEF SenderSpec, NoPrematureClose
=============================================================================
