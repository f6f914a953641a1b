---------------------------- MODULE MCChunkFiles ----------------------------
(* Instances of ChunkFiles for TLC: chunks of two packets of two bytes, in *)
(* blocks of four bytes, and files of up to a chunk and a short one, or of *)
(* two chunks and a short one.                                             *)
EXTENDS ChunkFiles

FewFiles ==
  SeqOf({0, 128}, 5)
    \cup {<<1, 2, 3, 4, 5, 6, 7, 8>>, <<1, 2, 3, 4, 1, 2, 3, 4, 5>>,
          <<1, 2, 3, 4, 5, 6, 7, 8, 3, 4>>, <<1, 97, 3, 97, 5, 6, 7>>}

(***************************************************************************)
(* With the sizes of SHA-1 the operators give the digests that a comment   *)
(* of sha.c names, and the text of a digest reads back, in either case.    *)
(***************************************************************************)
Real == INSTANCE Sha1 WITH BlockBytes <- 64, LengthBytes <- 8
Digest(message) == Real!Hash(Real!ShaHash(message))

ABC  == <<97, 98, 99>>
Long == [k \in 1 .. 56 |-> 97 + (k - 1) \div 4 + ((k - 1) % 4)]

ASSUME StandardVectors ==
  /\ Digest(ABC) =
       <<Hex(<<10, 9, 9, 9, 3, 14, 3, 6>>), Hex(<<4, 7, 0, 6, 8, 1, 6, 10>>),
         Hex(<<11, 10, 3, 14, 2, 5, 7, 1>>), Hex(<<7, 8, 5, 0, 12, 2, 6, 12>>),
         Hex(<<9, 12, 13, 0, 13, 8, 9, 13>>)>>
  /\ Digest(Long) =
       <<Hex(<<8, 4, 9, 8, 3, 14, 4, 4>>), Hex(<<1, 12, 3, 11, 13, 2, 6, 14>>),
         Hex(<<11, 10, 10, 14, 4, 10, 10, 1>>), Hex(<<15, 9, 5, 1, 2, 9, 14, 5>>),
         Hex(<<14, 5, 4, 6, 7, 0, 15, 1>>)>>

ASSUME TextReadsBack ==
  LET bytes == HashBytes(Digest(ABC))
      text  == Binary2Hex(bytes)
  IN  Hex2Binary(text) = bytes /\ Hex2Binary([k \in DOMAIN text |-> ToUpper(text[k])]) = bytes

(* A message may be given to SHA1Update in pieces.                         *)
ASSUME PiecesDoNotMatter ==
  \A message \in SeqOf({0, 128}, 6) : \A cut \in 0 .. Len(message) :
    SHA1Update(SHA1Update(SHA1Init, SubSeq(message, 1, cut)),
               SubSeq(message, cut + 1, Len(message))) = SHA1Update(SHA1Init, message)
=============================================================================
