----------------------------- MODULE Requestor -----------------------------
(***************************************************************************)
(* The requestor of a peer (requestor.c): the download half of the         *)
(* program.  A user's GET command starts a download of a file of           *)
(* NumChunks chunks; the requestor floods WHOHAS, collects the peers that  *)
(* answer IHAVE as providers of a chunk, fetches each chunk from one       *)
(* provider at a time and at most one chunk from each provider,            *)
(* acknowledges DATA cumulatively, gives up on a provider that is silent   *)
(* for DataTimeout ticks, checks the hash of a complete chunk and writes   *)
(* it to the output file.                                                  *)
(*                                                                         *)
(* Each action is one run of a handler by the select loop of peer.c, which *)
(* is single-threaded: handlers do not interleave, their ORDER does.  The  *)
(* network is any network: an IHAVE or a DATA packet of any peer may       *)
(* arrive at any moment, which covers loss, duplication, reordering and    *)
(* packets left over from a transfer that was given up.  DATA is numbered  *)
(* within a chunk, as senders do; the code does not look whether it is.    *)
(*                                                                         *)
(* Definitions named ...Slip, or for what they keep, are slips a           *)
(* programmer might make in the definition that follows; they are not part *)
(* of the specification and serve to see that each property can fail.      *)
(***************************************************************************)
EXTENDS Integers, Sequences, FiniteSets

CONSTANTS
  MaxPeers,      \* BT_MAX_PEERS, the size of downloading
  Peers,         \* ids in the peer list of the configuration
  NumChunks,     \* chunks named by the chunk file
  NumBlocks,     \* packets of a chunk: BT_CHUNK_SIZE / BT_PACKET_DATA_SIZE
  DataTimeout,   \* BT_DATA_TIMEOUT, in ticks of the select loop
  Hashes,        \* chunk hashes, each standing for the content it is the hash of
  HashOf,        \* HashOf[i] is the hash the chunk file gives for chunk i
  Junk,          \* a block that is a block of none of these contents
  LastProviders  \* what malloc may leave in last_provider, never initialised

None   == -1
Ids    == 0 .. MaxPeers - 1
Chunks == 0 .. NumChunks - 1
Blocks == 0 .. NumBlocks - 1

ASSUME PeersAssumption  == MaxPeers \in Nat /\ Peers \subseteq Ids
ASSUME SizesAssumption  == /\ NumChunks \in Nat \ {0}
                           /\ NumBlocks \in Nat \ {0}
                           /\ DataTimeout \in Nat \ {0}
ASSUME HashesAssumption == HashOf \in [Chunks -> Hashes] /\ Junk \notin Hashes
ASSUME LastProvidersAssumption == LastProviders \subseteq Int

VARIABLES
  in_progress,   \* a download is under way
  left,          \* chunks not yet finished
  downloading,   \* downloading[p]: the chunk peer p is asked for, or None
  chunks,        \* the array of chunk_status_t, Freed when there is none
  file,          \* the output file: the blocks at each chunk's place, or Empty
  out            \* the packets sent by the last run of a handler

vars == <<in_progress, left, downloading, chunks, file, out>>

(* A block is named by the content it belongs to; its place in the content *)
(* is its sequence number.                                                 *)
Bodies == Hashes \cup {Junk}
Content(h) == [s \in Blocks |-> h]
Empty == <<>>
Freed == <<>>

(* What may be taken for the number of a peer: an index of downloading, or *)
(* MaxPeers, which stands for all that lie beyond it.                      *)
Numbers == 0 .. MaxPeers

ChunkStatus ==
  [ providers     : Seq(Peers),
    last_provider : Int,
    cur_provider  : Numbers \cup {None},
    last_packet   : 0 .. DataTimeout,
    cur_ack       : 0 .. NumBlocks,
    left          : 0 .. NumBlocks,
    recved        : SUBSET Blocks,
    data_buf      : [Blocks -> Bodies],
    finished      : BOOLEAN ]

WhoHas(i)  == [type |-> "WHOHAS", hash |-> HashOf[i]]   \* to every peer
Get(p, i)  == [type |-> "GET", to |-> p, hash |-> HashOf[i]]
Ack(p, n)  == [type |-> "ACK", to |-> p, ack |-> n]
Packets    == [type : {"WHOHAS"}, hash : Hashes]
                \cup [type : {"GET"}, to : Peers, hash : Hashes]
                \cup [type : {"ACK"}, to : Peers, ack : 0 .. NumBlocks]

----------------------------------------------------------------------------
(***************************************************************************)
(* Choosing what to ask for, and whom.                                     *)
(***************************************************************************)

(* The remainder of C, which has the sign of a.                            *)
Remainder(a, n) == IF a >= 0 THEN a % n ELSE -((-a) % n)

(* The place in providers (from 0) that the scan comes to after j others.  *)
(* It starts after last_provider: before the array if that is negative.    *)
Place(c, j) ==
  LET n    == Len(c.providers)
      from == Remainder(c.last_provider + 1, n)
  IN  IF from + j < n THEN from + j ELSE from + j - n

Turns(c) == 0 .. Len(c.providers) - 1

(* What is read there: before providers lies provider_cnt, and before that *)
(* recved, four flags of which make some number.                           *)
Reads(c, k) ==
  CASE k >= 0  -> {c.providers[k + 1]}
    [] k = -1  -> {Len(c.providers)}
    [] k < -1  -> Numbers

(* p is asked for nothing; of what lies beyond downloading nothing is known. *)
FreePeer(dl, p) == p \in Ids => dl[p] = None
BusyPeer(dl, p) == p \in Ids => dl[p] # None

BusyAtTurn(c, dl, j) == \E p \in Reads(c, Place(c, j)) : BusyPeer(dl, p)

FindsBusyPeers(c, dl, j, p) ==   \* a busy peer counts as free
  /\ j \in Turns(c)
  /\ p \in Reads(c, Place(c, j))
  /\ \A m \in 0 .. j - 1 : BusyAtTurn(c, dl, m)

(* find_next_provider answers p, which it finds at turn j.                 *)
FindNextProvider(c, dl, j, p) ==
  /\ j \in Turns(c)
  /\ p \in Reads(c, Place(c, j)) /\ FreePeer(dl, p)
  /\ \A m \in 0 .. j - 1 : BusyAtTurn(c, dl, m)

(* find_next_provider answers that the providers there are are busy.       *)
HasToWait(c, dl) ==
  c.providers # <<>> /\ \A j \in Turns(c) : BusyAtTurn(c, dl, j)

SendGetKeepsTimer(c, j, p) ==    \* the timer is not wound up
  [c EXCEPT !.last_provider = Place(c, j), !.cur_provider = p,
            !.left = NumBlocks, !.recved = {}, !.cur_ack = 0]

SendGetKeepsLeft(c, j, p) ==     \* what an earlier transfer left to receive
  [c EXCEPT !.last_provider = Place(c, j), !.cur_provider = p,
            !.last_packet = DataTimeout, !.recved = {}, !.cur_ack = 0]

(* send_get: the chunk starts over with p, found at turn j.                *)
SendGet(c, j, p) ==
  [c EXCEPT !.last_provider = Place(c, j),
            !.cur_provider  = p,
            !.left          = NumBlocks,
            !.last_packet   = DataTimeout,
            !.recved        = {},
            !.cur_ack       = 0]

RequestableSlip(ch) == {i \in Chunks : ch[i].cur_provider = None}  \* finished or not

(* Chunks that wait for a provider.                                        *)
Requestable(ch) == {i \in Chunks : ~ ch[i].finished /\ ch[i].cur_provider = None}

(* A number that no peer has is not sent anything.                         *)
GetTo(p, i) == IF p \in Peers THEN {Get(p, i)} ELSE {}

(* request_next_chunk, run when the handler has brought the chunks to ch   *)
(* and the peers to dl and has sent pkts: it passes over a chunk that has  *)
(* to wait, and stops at the first one it can ask for or that has no       *)
(* provider at all.                                                        *)
RequestNextChunk(ch, dl, pkts) ==
  \/ /\ \A i \in Requestable(ch) : HasToWait(ch[i], dl)
     /\ chunks' = ch
     /\ downloading' = dl
     /\ out' = pkts
  \/ \E i \in Requestable(ch) :
       /\ \A m \in Requestable(ch) : m < i => HasToWait(ch[m], dl)
       /\ \/ /\ ch[i].providers = <<>>
             /\ chunks' = ch
             /\ downloading' = dl
             /\ out' = pkts \cup {WhoHas(i)}
          \/ \E j \in Turns(ch[i]), p \in Numbers :
               /\ FindNextProvider(ch[i], dl, j, p)
               /\ chunks' = [ch EXCEPT ![i] = SendGet(ch[i], j, p)]
               /\ downloading' = [q \in Ids |-> IF q = p THEN i ELSE dl[q]]
               /\ out' = pkts \cup GetTo(p, i)

----------------------------------------------------------------------------
(***************************************************************************)
(* A GET command of the user.                                              *)
(***************************************************************************)

FreshChunk(lp) ==
  [ providers |-> <<>>, last_provider |-> lp, cur_provider |-> None,
    last_packet |-> 0, cur_ack |-> 0, left |-> NumBlocks, recved |-> {},
    data_buf |-> [s \in Blocks |-> Junk], finished |-> FALSE ]

Init ==
  /\ in_progress = FALSE
  /\ left = 0
  /\ downloading = [p \in Ids |-> 0]   \* a zeroed global
  /\ chunks = Freed
  /\ file = [i \in Chunks |-> Empty]
  /\ out = {}

(* process_get refuses a second download; init_requestor truncates the     *)
(* output file and floods a WHOHAS for each chunk.                         *)
InitRequestor ==
  /\ ~ in_progress
  /\ in_progress' = TRUE
  /\ left' = NumChunks
  /\ downloading' = [p \in Ids |-> None]
  /\ \E lp \in [Chunks -> LastProviders] :
       chunks' = [i \in Chunks |-> FreshChunk(lp[i])]
  /\ file' = [i \in Chunks |-> Empty]
  /\ out' = {WhoHas(i) : i \in Chunks}

(* A GET whose chunk file cannot be opened: the output file, here that of  *)
(* the last download, is truncated before the chunk file is looked at.     *)
InitRequestorNoFile ==
  /\ ~ in_progress
  /\ file' = [i \in Chunks |-> Empty]
  /\ out' = {}
  /\ UNCHANGED <<in_progress, left, downloading, chunks>>

----------------------------------------------------------------------------
(***************************************************************************)
(* IHAVE.                                                                  *)
(***************************************************************************)

HasSlip(seq, p) == FALSE         \* a provider is added every time it answers

Has(seq, p) == \E k \in DOMAIN seq : seq[k] = p

WithProvider(c, p) == [c EXCEPT !.providers = Append(@, p)]

(* Every chunk with that hash learns its provider once; then one request   *)
(* is attempted.                                                           *)
AddProvider(p, h) ==
  /\ in_progress
  /\ RequestNextChunk([i \in Chunks |->
                         IF HashOf[i] = h /\ ~ Has(chunks[i].providers, p)
                         THEN WithProvider(chunks[i], p)
                         ELSE chunks[i]],
                      downloading, {})
  /\ UNCHANGED <<in_progress, left, file>>

----------------------------------------------------------------------------
(***************************************************************************)
(* DATA.                                                                   *)
(***************************************************************************)

(* Packet s is stored, even over one stored before; what was missing is    *)
(* counted; the timer is wound up; n is the new cumulative ACK.            *)
Stored(c, s, b, n) ==
  [c EXCEPT !.last_packet = DataTimeout,
            !.data_buf[s] = b,
            !.recved      = @ \cup {s},
            !.left        = IF s \in c.recved THEN @ ELSE @ - 1,
            !.cur_ack     = n]

NextMissingSlip(c, s, n) == n = s + 1      \* acknowledges what just arrived

(* n is the first packet from cur_ack on that is missing once s is here.   *)
NextMissing(c, s, n) ==
  /\ n \in c.cur_ack .. NumBlocks
  /\ \A m \in c.cur_ack .. n - 1 : m \in c.recved \cup {s}
  /\ n \notin c.recved \cup {s}

HashMatchesSlip(i, c) == TRUE    \* the hash is not checked

(* The hash of the buffer is the one the chunk file gives.                 *)
HashMatches(i, c) == c.data_buf = Content(HashOf[i])

(* A chunk that turned out crap waits for a provider again.                *)
Crap(c) == [c EXCEPT !.recved = {}, !.left = NumBlocks,
                     !.cur_provider = None, !.finished = FALSE]

FinishedSlip(c) == [c EXCEPT !.cur_provider = None, !.last_packet = 0]  \* not marked

Finished(c) == [c EXCEPT !.finished = TRUE, !.cur_provider = None, !.last_packet = 0]

FinishFileSlip(dl, pkts) ==      \* forgets that the download is over
  /\ chunks' = Freed
  /\ downloading' = dl
  /\ out' = pkts
  /\ UNCHANGED in_progress

(* The array of chunks is freed and the download is over.                  *)
FinishFile(dl, pkts) ==
  /\ chunks' = Freed
  /\ in_progress' = FALSE
  /\ downloading' = dl
  /\ out' = pkts

(* finish_chunk, for chunk i of ch, all of whose packets are here.         *)
FinishChunk(i, ch, pkts) ==
  LET dl == [downloading EXCEPT ![ch[i].cur_provider] = None]
  IN  \/ /\ ~ HashMatches(i, ch[i])
         /\ RequestNextChunk([ch EXCEPT ![i] = Crap(ch[i])], dl, pkts)
         /\ UNCHANGED <<in_progress, left, file>>
      \/ /\ HashMatches(i, ch[i])
         /\ file' = [file EXCEPT ![i] = ch[i].data_buf]
         /\ left' = left - 1
         /\ \/ /\ left - 1 # 0
               /\ RequestNextChunk([ch EXCEPT ![i] = Finished(ch[i])], dl, pkts)
               /\ UNCHANGED in_progress
            \/ left - 1 = 0 /\ FinishFile(dl, pkts)

(* A packet from a peer that is asked for nothing, or that was already     *)
(* acknowledged, is dropped without an ACK and without winding the timer.  *)
Dropped(p, s) ==
  downloading[p] # None => s < chunks[downloading[p]].cur_ack

UpdateData(p, s, b) ==
  /\ in_progress
  /\ \/ /\ Dropped(p, s)
        /\ out' = {}
        /\ UNCHANGED <<in_progress, left, downloading, chunks, file>>
     \/ /\ ~ Dropped(p, s)
        /\ \E i \in Chunks, n \in 0 .. NumBlocks :
             /\ i = downloading[p]
             /\ NextMissing(chunks[i], s, n)
             /\ LET ch == [chunks EXCEPT ![i] = Stored(chunks[i], s, b, n)]
                IN  \/ /\ ch[i].left # 0
                       /\ chunks' = ch
                       /\ out' = {Ack(p, n)}
                       /\ UNCHANGED <<in_progress, left, downloading, file>>
                    \/ /\ ch[i].left = 0
                       /\ FinishChunk(i, ch, {Ack(p, n)})

----------------------------------------------------------------------------
(***************************************************************************)
(* The tick of the select loop, once a second at most.                     *)
(***************************************************************************)

ExpiresSlip(c) ==                \* a tick early
  ~ c.finished /\ c.cur_provider # None /\ c.last_packet \in 1 .. 2

Expires(c) == ~ c.finished /\ c.cur_provider # None /\ c.last_packet = 1

Ticked(c) ==
  CASE Expires(c) -> [c EXCEPT !.last_packet = 0, !.cur_provider = None]
    [] ~ c.finished /\ c.cur_provider # None /\ c.last_packet > 1 ->
         [c EXCEPT !.last_packet = @ - 1]
    [] OTHER -> c

TickedChunks == [i \in Chunks |-> Ticked(chunks[i])]

TickedPeersSlip == downloading   \* the peer of an expired transfer stays busy

(* A peer is free again when the transfer that kept it busy expires.       *)
TickedPeers ==
  [p \in Ids |->
     IF \E i \in Chunks : Expires(chunks[i]) /\ chunks[i].cur_provider = p
     THEN None ELSE downloading[p]]

StoppedSlip(ch, i) ==            \* a chunk without provider stops the loop at once
  \E j \in Requestable(ch) : ch[j].providers = <<>>

(* The loop of request_next_chunk runs until no chunk can be asked for.    *)
(* It gets to chunk i unless one before it has no provider at all.         *)
Stopped(ch, i) == \E j \in Requestable(ch) : j <= i /\ ch[j].providers = <<>>

(* The loop asks for the chunks S, for i at turn[i] the peer who[i].  When *)
(* it gets to chunk i the peers of earlier chunks are busy too.            *)
BusyBefore(i, dl, S, who) ==
  [p \in Ids |-> IF \E m \in S : m < i /\ who[m] = p THEN i ELSE dl[p]]

Scheduled(ch, dl, S, turn, who) ==
  \A i \in Requestable(ch) :
    IF i \in S
    THEN ~ Stopped(ch, i) /\ FindNextProvider(ch[i], BusyBefore(i, dl, S, who), turn[i], who[i])
    ELSE Stopped(ch, i) \/ HasToWait(ch[i], BusyBefore(i, dl, S, who))

(* The first chunk without provider, at which the loop stops, is flooded.  *)
Floods(ch) ==
  {WhoHas(i) : i \in {j \in Requestable(ch) :
     /\ ch[j].providers = <<>>
     /\ \A m \in Requestable(ch) : m < j => ch[m].providers # <<>>}}

RequestThese(ch, dl, S, turn, who) ==
  /\ Scheduled(ch, dl, S, turn, who)
  /\ chunks' = [i \in Chunks |-> IF i \in S THEN SendGet(ch[i], turn[i], who[i]) ELSE ch[i]]
  /\ downloading' = [p \in Ids |->
       IF \E i \in S : who[i] = p THEN CHOOSE i \in S : who[i] = p ELSE dl[p]]
  /\ out' = (UNION {GetTo(who[i], i) : i \in S}) \cup Floods(ch)

RequestAll(ch, dl) ==
  \E S \in SUBSET Requestable(ch) :
    \E turn \in [S -> 0 .. Cardinality(Peers)], who \in [S -> Numbers] :
      RequestThese(ch, dl, S, turn, who)

RequstorTimeout ==
  /\ in_progress
  /\ RequestAll(TickedChunks, TickedPeers)
  /\ UNCHANGED <<in_progress, left, file>>

----------------------------------------------------------------------------
Next ==
  \/ InitRequestor
  \/ InitRequestorNoFile
  \/ \E p \in Peers, h \in Hashes : AddProvider(p, h)
  \/ \E p \in Peers, s \in Blocks, b \in Bodies : UpdateData(p, s, b)
  \/ RequstorTimeout

Spec == Init /\ [][Next]_vars

----------------------------------------------------------------------------
(***************************************************************************)
(* What a correct requestor maintains.                                     *)
(***************************************************************************)

(* Every variable has its type; the chunk array exists during a download.  *)
TypeOK ==
  /\ in_progress \in BOOLEAN
  /\ left \in 0 .. NumChunks
  /\ downloading \in [Ids -> Chunks \cup {None}]
  /\ chunks \in [Chunks -> ChunkStatus] \cup {Freed}
  /\ in_progress => chunks \in [Chunks -> ChunkStatus]
  /\ file \in [Chunks -> [Blocks -> Bodies] \cup {Empty}]
  /\ out \subseteq Packets

(* downloading[p] and cur_provider are two views of one matching: peer p   *)
(* is asked for chunk i exactly when i waits for p, so no DATA packet is   *)
(* filed under a chunk that is not waiting for its sender, and no peer is  *)
(* kept busy by a chunk that has given it up.                              *)
Matched(ch, dl) ==
  \A p \in Ids, i \in Chunks : dl[p] = i <=> ch[i].cur_provider = p

Matching == in_progress => Matched(chunks, downloading)

(* A chunk that waits for a provider is not finished and has a running     *)
(* timer: requstor_timeout only fires for last_packet > 0, so a zero here  *)
(* would hold chunk and provider for ever.                                 *)
Armed(c) == c.cur_provider # None => ~ c.finished /\ c.last_packet > 0

ArmedTimer == in_progress => \A i \in Chunks : Armed(chunks[i])

(* A chunk being received counts what is missing, and something is: a      *)
(* transfer all of whose packets are here has been closed in the same step.*)
Counted(c) == c.cur_provider # None =>
                /\ c.left = Cardinality(Blocks \ c.recved)
                /\ c.left > 0

Unfinished(ch) == {i \in Chunks : ~ ch[i].finished}

(* left counts the unfinished chunks, and a download in progress has one.  *)
Accounting ==
  in_progress => /\ left = Cardinality(Unfinished(chunks))
                 /\ left > 0
                 /\ \A i \in Chunks : Counted(chunks[i])

(* The cumulative ACK is honest and not lazy: everything before it is      *)
(* here, the packet it names is not, so the sender may discard all it      *)
(* covers (ctl_udp_ack frees those packets) and never waits for nothing.   *)
Honest(c) == c.cur_provider # None =>
               /\ \A s \in Blocks : s < c.cur_ack => s \in c.recved
               /\ c.cur_ack \notin c.recved
               /\ c.cur_ack < NumBlocks

AckIsHonest == in_progress => \A i \in Chunks : Honest(chunks[i])

(* The output file never holds anything but the right content, whatever    *)
(* the peers send, and holds it exactly for the finished chunks.           *)
FileIntegrity ==
  \A i \in Chunks :
    /\ file[i] \in {Empty, Content(HashOf[i])}
    /\ in_progress => (chunks[i].finished <=> file[i] # Empty)

Distinct(c) ==
  \A j, k \in DOMAIN c.providers : c.providers[j] = c.providers[k] => j = k

(* A peer is a provider of a chunk once, however often it answers: the     *)
(* array providers[BT_MAX_PEERS] cannot overflow.                          *)
ProvidersDistinct == in_progress => \A i \in Chunks : Distinct(chunks[i])

(* The download ends only when the whole file is there.                    *)
CompleteOnFinish ==
  [][in_progress /\ ~ in_progress' => \A i \in Chunks : file'[i] = Content(HashOf[i])]_vars

(* While a download goes on, a finished chunk is never fetched again and   *)
(* its place in the file is never written again.                           *)
NoRework ==
  [][in_progress /\ in_progress' =>
       \A i \in Chunks : chunks[i].finished =>
         chunks'[i].finished /\ chunks'[i].cur_provider = None /\ file'[i] = file[i]]_vars

(* p was idle, or its transfer completed or expired in this step.          *)
WasIdle(p) == \/ downloading[p] = None
              \/ chunks[downloading[p]].last_packet = 1
              \/ chunks[downloading[p]].left = 1

(* p is now asked for a chunk with hash h, from its beginning; p said it   *)
(* has it, unless the scan began before the array and got nearer to it.    *)
StartsOver(p, h) ==
  \E i \in Chunks : /\ downloading'[p] = i
                   /\ HashOf[i] = h
                   /\ chunks'[i].recved = {}
                   /\ chunks'[i].cur_ack = 0
                   /\ \/ Has(chunks'[i].providers, p)
                      \/ /\ chunks[i].last_provider < -1
                         /\ chunks[i].last_provider < chunks'[i].last_provider

(* A peer is asked for a chunk only if it was idle, or became idle in this *)
(* very step because its transfer completed or expired; what it is asked   *)
(* for starts from nothing, and is a chunk it said it has.  To this last   *)
(* there is an exception: last_provider is not initialised, and while it   *)
(* is below -1 somebody else may be asked, but never again once it is not, *)
(* and each request raises it.                                             *)
GetDiscipline ==
  [][\A p \in Peers, h \in Hashes :
       [type |-> "GET", to |-> p, hash |-> h] \in out' => WasIdle(p) /\ StartsOver(p, h)]_vars

(* Nothing is left undone: up to the first chunk without provider, every   *)
(* chunk that still waits has only busy providers (or a last_provider that *)
(* keeps the scan from the last of them), and that first chunk has just    *)
(* been asked for with WHOHAS.                                             *)
Thorough(ch, dl, pkts) ==
  \A i \in Requestable(ch) :
    \/ /\ ch[i].providers # <<>>
       /\ \/ ch[i].last_provider < -1
          \/ \A k \in DOMAIN ch[i].providers : dl[ch[i].providers[k]] # None
    \/ \E j \in Requestable(ch) :
         j <= i /\ ch[j].providers = <<>> /\ WhoHas(j) \in pkts

(* A tick is thorough: a provider that has become idle, whichever way its  *)
(* transfer ended, is used again within a tick.                            *)
TickIsThorough ==
  [][in_progress' /\ ~ Thorough(chunks', downloading', out') => ~ RequstorTimeout]_vars
=============================================================================
