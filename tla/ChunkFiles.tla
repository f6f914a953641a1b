----------------------------- MODULE ChunkFiles -----------------------------
(***************************************************************************)
(* The way of a file through the programs: make-chunks lists the hashes of *)
(* its chunks, a server offers some of the listed chunks and reads their   *)
(* bytes from the file, a client asks for some of them and puts together   *)
(* its output.                                                             *)
(*                                                                         *)
(* The messages in between are Requestor's, Responser's and Transfer's     *)
(* subject: here one SendChunk stands for a GET that is answered and one   *)
(* FinishChunk for the arrival of the last packet.  A hash is what sha.c   *)
(* makes of the bytes, kept as the blocks it is computed from.             *)
(*                                                                         *)
(* Definitions named ...Slip are slips a programmer might make in the      *)
(* definition that follows; they are not part of the specification.        *)
(***************************************************************************)
EXTENDS Sha1

CONSTANTS
  ChunkSize,     \* BT_CHUNK_SIZE
  PacketSize,    \* BT_PACKET_DATA_SIZE
  Files,         \* the contents a shared file may have
  MaxList,       \* bound: the lines of the file a GET names
  None           \* in the place of what is not there yet

ASSUME ChunkFilesAssumption ==
  /\ PacketSize \in Nat \ {0} /\ ChunkSize \in Nat \ {0} /\ ChunkSize % PacketSize = 0
  /\ Files \subseteq Seq(Byte) /\ MaxList \in Nat

VARIABLES
  file,          \* the shared file, the same for make-chunks and for the server
  listing,       \* what make-chunks prints, or None before
  junk,          \* whether the server is built with JUNK
  has,           \* res->chunks
  buf,           \* the static buffer of send_chunk
  chunks,        \* req->chunks, or None before the GET
  sent,          \* the DATA packets of send_chunk, and the chunk they are taken for
  outputfile

vars == <<file, listing, junk, has, buf, chunks, sent, outputfile>>

Zeros(n) == [k \in 1 .. n |-> 0]

(* What fread returns: less than asked for at the end of the file.         *)
ReadAt(bytes, offset, size) ==
  SubSeq(bytes, offset + 1, Min({offset + size, Len(bytes)}))

----------------------------------------------------------------------------
(***************************************************************************)
(* make-chunks.                                                            *)
(***************************************************************************)

GetNumChunksSlip(length) == length \div ChunkSize          \* without ceil

(* get_numchunks, which is how long main makes the array of hashes.        *)
GetNumChunks(length) == (length + ChunkSize - 1) \div ChunkSize

(* How often fread gives make_chunks something before it returns nothing.  *)
NumReads ==
  Min({n \in 0 .. Len(file) : ReadAt(file, n * ChunkSize, ChunkSize) = <<>>})

(* make_chunks hashes what each read gives; main numbers the hashes.       *)
MakeChunks ==
  /\ listing = None
  /\ listing' = [k \in 1 .. NumReads |->
                    [id   |-> k - 1,
                     hash |-> ShaHash(ReadAt(file, (k - 1) * ChunkSize, ChunkSize))]]
  /\ UNCHANGED <<file, junk, has, buf, chunks, sent, outputfile>>

----------------------------------------------------------------------------
(***************************************************************************)
(* The server.                                                             *)
(***************************************************************************)

(* init_responser, with a has-chunk file of some of the lines.             *)
InitResponser ==
  /\ listing # None /\ has = None
  /\ \E n \in 0 .. Len(listing) : \E lines \in [1 .. n -> DOMAIN listing] :
       /\ \A j, k \in 1 .. n : j < k => lines[j] < lines[k]
       /\ has' = [k \in 1 .. n |-> listing[lines[k]]]
  /\ UNCHANGED <<file, listing, junk, buf, chunks, sent, outputfile>>

(* The lines GET matches; the first is served.                             *)
Matching(hash) == {k \in DOMAIN has : has[k].hash = hash}

(* JUNK overwrites a part of each packet with the letters from 'a'.        *)
Junked(packet) == IF junk THEN [packet EXCEPT ![PacketSize] = 97] ELSE packet

(* fread into buf: beyond the end of the file what buf held stays in it.   *)
Filled(old, offset) ==
  LET read == ReadAt(file, offset, PacketSize)
  IN  Junked(read \o SubSeq(old, Len(read) + 1, PacketSize))

OffsetSlip(id) == IF id = 0 THEN 0 ELSE (id - 1) * ChunkSize

(* Where send_chunk seeks.                                                 *)
Offset(id) == id * ChunkSize

(* The loop of send_chunk: what buf holds packet after packet.             *)
Packets(id) ==
  LET held[k \in 0 .. ChunkSize \div PacketSize] ==
        IF k = 0 THEN buf
        ELSE Filled(held[k - 1], Offset(id) + (k - 1) * PacketSize)
  IN  [k \in 1 .. ChunkSize \div PacketSize |-> held[k]]

SendChunk(i) ==
  /\ has # None /\ chunks # None /\ sent = None
  /\ ~chunks[i].finished
  /\ Matching(chunks[i].hash) # {}
  /\ LET packets == Packets(has[Min(Matching(chunks[i].hash))].id)
     IN  sent' = [chunk |-> i, data |-> packets] /\ buf' = Last(packets)
  /\ UNCHANGED <<file, listing, junk, has, chunks, outputfile>>

----------------------------------------------------------------------------
(***************************************************************************)
(* The client.                                                             *)
(***************************************************************************)

(* init_requestor: the output is emptied, and the chunks are those of a    *)
(* file of listed lines, in any order.                                     *)
InitRequestor ==
  /\ listing # None /\ chunks = None
  /\ \E n \in 0 .. MaxList : \E lines \in [1 .. n -> DOMAIN listing] :
       chunks' = [i \in 1 .. n |-> [id |-> listing[lines[i]].id, hash |-> listing[lines[i]].hash,
                                    finished |-> FALSE]]
  /\ outputfile' = <<>>
  /\ UNCHANGED <<file, listing, junk, has, buf, sent>>

(* fseek and fwrite: a gap beyond the old end reads as zeros.              *)
Written(bytes, offset, data) ==
  LET size == Max({Len(bytes), offset + Len(data)})
  IN  [k \in 1 .. size |-> IF k \in offset + 1 .. offset + Len(data) THEN data[k - offset]
                           ELSE IF k <= Len(bytes) THEN bytes[k] ELSE 0]

DataBuf == FlattenSeq(sent.data)

(* finish_chunk hashes the whole of data_buf.                              *)
IsGenuine(i) == ShaHash(DataBuf) = chunks[i].hash

PlaceSlip(i) == chunks[i].id * ChunkSize

(* The place of a chunk in the output is that of its line in the list.     *)
Place(i) == (i - 1) * ChunkSize

FinishChunk ==
  /\ sent # None
  /\ LET i == sent.chunk
     IN  IF IsGenuine(i)
         THEN /\ outputfile' = Written(outputfile, Place(i), DataBuf)
              /\ chunks' = [chunks EXCEPT ![i].finished = TRUE]
         ELSE UNCHANGED <<outputfile, chunks>>
  /\ sent' = None
  /\ UNCHANGED <<file, listing, junk, has, buf>>

----------------------------------------------------------------------------
Init ==
  /\ file \in Files /\ junk \in BOOLEAN
  /\ listing = None /\ has = None /\ chunks = None /\ sent = None
  /\ buf = Zeros(PacketSize) /\ outputfile = <<>>

Next ==
  \/ MakeChunks
  \/ InitResponser
  \/ InitRequestor
  \/ \E i \in 1 .. MaxList : chunks # None /\ i \in DOMAIN chunks /\ SendChunk(i)
  \/ FinishChunk

Spec == Init /\ [][Next]_vars

----------------------------------------------------------------------------
(***************************************************************************)
(* Properties.                                                             *)
(***************************************************************************)

(* The bytes that make-chunks took for the chunk with this number.         *)
Chunk(id) == ReadAt(file, id * ChunkSize, ChunkSize)
IsWhole(id) == Len(Chunk(id)) = ChunkSize

(* The message in blocks as the standard pads it: a one, as few zeros as   *)
(* make the blocks whole, and the length in bits, the low byte last.       *)
StandardBlocks(bytes) ==
  LET zeros == CHOOSE z \in 0 .. BlockBytes - 1 :
                 (Len(bytes) + 1 + z + LengthBytes) % BlockBytes = 0
      rest[n \in 0 .. LengthBytes] == IF n = 0 THEN 8 * Len(bytes) ELSE rest[n - 1] \div 256
      whole == bytes \o <<128>> \o Zeros(zeros)
                 \o [k \in 1 .. LengthBytes |-> rest[LengthBytes - k] % 256]
  IN  [b \in 1 .. Len(whole) \div BlockBytes |->
         SubSeq(whole, (b - 1) * BlockBytes + 1, b * BlockBytes)]

(* make-chunks prints as many lines as it allocated hashes for, numbered   *)
(* from 0, and each holds what SHA-1 is of its chunk, the short last chunk *)
(* included.  main allocates by the length stat gives while make_chunks    *)
(* writes one hash per successful fread, without a bound.                  *)
ListingIsExact ==
  listing # None =>
    /\ Len(listing) = GetNumChunks(Len(file))
    /\ \A k \in DOMAIN listing :
         listing[k] = [id |-> k - 1, hash |-> StandardBlocks(Chunk(k - 1))]

(* What a finished chunk has put into the output are the bytes the list    *)
(* names at its place, and finishing the others never spoils them: the     *)
(* output of a list finished to the end is the chunks it names, one after  *)
(* the other, in whatever order they came and with whatever a server sent. *)
OutputIsListed ==
  chunks # None =>
    /\ \A i \in DOMAIN chunks : chunks[i].finished =>
         /\ Len(outputfile) >= i * ChunkSize
         /\ SubSeq(outputfile, (i - 1) * ChunkSize + 1, i * ChunkSize) = Chunk(chunks[i].id)
    /\ (\A i \in DOMAIN chunks : chunks[i].finished) =>
         outputfile = FlattenSeq([i \in DOMAIN chunks |-> Chunk(chunks[i].id)])

(* What a server that is not built with JUNK sends for a chunk is taken if *)
(* and only if the chunk is a whole one.  Of the short chunk at the end of *)
(* a file make-chunks hashes the bytes there are, a server fills up with   *)
(* what its buffer held before, and a client hashes the full size: it can  *)
(* never be downloaded, whatever the buffer holds.                         *)
WholeChunksAreTaken ==
  [][\A i \in 1 .. MaxList :
       sent # None /\ sent.chunk = i /\ sent' = None /\ ~junk =>
         (chunks'[i].finished <=> IsWhole(chunks[i].id))]_vars
=============================================================================
