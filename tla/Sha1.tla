-------------------------------- MODULE Sha1 --------------------------------
(***************************************************************************)
(* SHA-1 as sha.c computes it on a machine that stores the low byte first  *)
(* (WORDS_BIGENDIAN is not defined), and the text form of chunk.c.  A word *)
(* is the set of the positions of its bits that are one, 0 the lowest, so  *)
(* that & | ^ are set operations; a byte is a number.                      *)
(*                                                                         *)
(* The sizes of a block and of the length field are constants: with those  *)
(* of SHA-1 the digest is computed, with small ones it is followed how     *)
(* SHA1Update and SHA1Final cut any message into blocks.                   *)
(***************************************************************************)
EXTENDS Integers, SequencesExt, FiniteSetsExt

CONSTANTS
  BlockBytes,    \* 64, the size of the buffer in SHA1Context
  LengthBytes    \* 8, those of the length in bits that ends a message

ASSUME Sha1Assumption == LengthBytes \in 1 .. 8 /\ BlockBytes \in Nat /\ BlockBytes > LengthBytes

Positions(n) == 0 .. n - 1
Word == SUBSET Positions(32)
Words(n) == [1 .. n -> Word]

(* The bits of a number, and the byte with these bits.                     *)
Bits(n, width) ==
  LET shifted[b \in 0 .. width] == IF b = 0 THEN n ELSE shifted[b - 1] \div 2
  IN  {b \in Positions(width) : shifted[b] % 2 = 1}
Value(bits) ==
  LET above[b \in 0 .. 8] ==
        IF b = 8 THEN 0 ELSE 2 * above[b + 1] + (IF b \in bits THEN 1 ELSE 0)
  IN  above[0]

----------------------------------------------------------------------------
(***************************************************************************)
(* Words.                                                                  *)
(***************************************************************************)

Rotl(x, n) == {(b + n) % 32 : b \in x}
Rotr(x, n) == {(b - n) % 32 : b \in x}

(* A bit of the sum of two words is carried into if a lower pair of ones   *)
(* is followed by ones only, in either word; the carry out is lost.        *)
Carried(x, y, b) ==
  \E c \in x \cap y : c < b /\ \A d \in c + 1 .. b - 1 : d \in x \cup y
Plus(x, y) ==
  SymDiff(SymDiff(x, y), {b \in Positions(32) : Carried(x, y, b)})

EvenBytes == {b \in Positions(32) : (b \div 8) % 2 = 0}    \* 0x00ff00ff
OddBytes  == Positions(32) \ EvenBytes                     \* 0xff00ff00
Byteswap(x) == (Rotr(x, 8) \cap OddBytes) \cup (Rotl(x, 8) \cap EvenBytes)

(* _byteswap64: the two words change places, each with its bytes swapped.  *)
Byteswap64(x) ==
  {b + 32 : b \in Byteswap(x \cap Positions(32))}
    \cup Byteswap({b - 32 : b \in x \ Positions(32)})

(* What the machine reads from bytes, and what it stores.                  *)
Load(bytes)     == UNION {{8 * (k - 1) + b : b \in Bits(bytes[k], 8)} : k \in DOMAIN bytes}
ByteOf(x, low)  == Value({b - low : b \in x \cap (low .. low + 7)})
Stored(x, size) == [k \in 1 .. size |-> ByteOf(x, 8 * (k - 1))]

(* A constant of the code, digit by digit.                                 *)
Hex(digits) == UNION {{4 * (8 - k) + b : b \in Bits(digits[k], 4)} : k \in 1 .. 8}

----------------------------------------------------------------------------
(***************************************************************************)
(* SHA1Guts.                                                               *)
(***************************************************************************)

F_0_19(x, y, z)  == SymDiff(z, x \cap SymDiff(y, z))
F_20_39(x, y, z) == SymDiff(SymDiff(x, y), z)
F_40_59(x, y, z) == (x \cap (y \cup z)) \cup (y \cap z)

K_0_19  == Hex(<<5, 10, 8, 2, 7, 9, 9, 9>>)
K_20_39 == Hex(<<6, 14, 13, 9, 14, 11, 10, 1>>)
K_40_59 == Hex(<<8, 15, 1, 11, 11, 12, 13, 12>>)
K_60_79 == Hex(<<12, 10, 6, 2, 12, 1, 13, 6>>)

(* DO_ROUND, on the five words <<a, b, c, d, e>>, with the word w of W.    *)
DoRound(v, f, k, w) ==
  <<Plus(Plus(Plus(Plus(Rotl(v[1], 5), f), v[5]), w), k), v[1], Rotl(v[2], 30), v[3], v[4]>>

Round[v \in Words(5), w \in Word, t \in 0 .. 79] ==
  CASE t \in 0 .. 19  -> DoRound(v, F_0_19(v[2], v[3], v[4]), K_0_19, w)
    [] t \in 20 .. 39 -> DoRound(v, F_20_39(v[2], v[3], v[4]), K_20_39, w)
    [] t \in 40 .. 59 -> DoRound(v, F_40_59(v[2], v[3], v[4]), K_40_59, w)
    [] t \in 60 .. 79 -> DoRound(v, F_20_39(v[2], v[3], v[4]), K_60_79, w)

(* The 80 words made from the 16 of a block, W[t] at place t + 1.          *)
Schedule(block) ==
  LET first == [t \in 1 .. 16 |-> Byteswap(Load(SubSeq(block, 4 * t - 3, 4 * t)))]
      next(W, t) == Append(W, Rotl(SymDiff(SymDiff(W[t - 3], W[t - 8]),
                                           SymDiff(W[t - 14], W[t - 16])), 1))
  IN  FoldLeft(next, first, [t \in 1 .. 64 |-> t + 16])

Rounds[W \in Words(80), hash \in Words(5)] ==
  FoldLeftDomain(LAMBDA v, t : Round[v, W[t], t - 1], hash, W)

SHA1Guts(hash, block) ==
  LET v == Rounds[Schedule(block), hash]
  IN  [i \in 1 .. 5 |-> Plus(hash[i], v[i])]

----------------------------------------------------------------------------
(***************************************************************************)
(* The cutting of a message into blocks.  In place of the hash the context *)
(* keeps the blocks given to SHA1Guts so far, of which it is a function,   *)
(* and in place of bufferLength what the buffer holds.                     *)
(***************************************************************************)

Byte == 0 .. 255
SHA1Init == [totalLength |-> 0, blocks |-> <<>>, buffer |-> <<>>]

InitialHash ==
  <<Hex(<<6, 7, 4, 5, 2, 3, 0, 1>>), Hex(<<14, 15, 12, 13, 10, 11, 8, 9>>),
    Hex(<<9, 8, 11, 10, 13, 12, 15, 14>>), Hex(<<1, 0, 3, 2, 5, 4, 7, 6>>),
    Hex(<<12, 3, 13, 2, 14, 1, 15, 0>>)>>
Hash(blocks) == FoldLeft(SHA1Guts, InitialHash, blocks)

(* A full buffer goes to SHA1Guts.                                         *)
Flushed(sc) ==
  IF Len(sc.buffer) = BlockBytes
  THEN [sc EXCEPT !.blocks = Append(@, sc.buffer), !.buffer = <<>>]
  ELSE sc

(* Once round the loop of SHA1Update: what fits goes into the buffer.      *)
Copied(loop) ==
  LET bytesToCopy == Min({BlockBytes - Len(loop.sc.buffer), Len(loop.data)})
  IN  [sc   |-> Flushed([loop.sc EXCEPT !.totalLength = @ + 8 * bytesToCopy,
                                        !.buffer = @ \o SubSeq(loop.data, 1, bytesToCopy)]),
       data |-> SubSeq(loop.data, bytesToCopy + 1, Len(loop.data))]

(* The loop: all rounds but the last complete a block.  With nothing left  *)
(* a round changes nothing.                                                *)
SHA1Update(sc, data) ==
  LET rounds   == (Len(sc.buffer) + Len(data)) \div BlockBytes + 1
      after[n \in 0 .. rounds] ==
        IF n = 0 THEN [sc |-> sc, data |-> data] ELSE Copied(after[n - 1])
  IN  after[rounds].sc

Padding == [k \in 1 .. BlockBytes |-> IF k = 1 THEN 128 ELSE 0]

(* How much padding there is to the length field, one byte at least.       *)
BytesToPad(length) ==
  LET n == 2 * BlockBytes - LengthBytes - length
  IN  IF n > BlockBytes THEN n - BlockBytes ELSE n

(* The bytes of lengthPad, which are eight; a smaller field keeps the last *)
(* of them.                                                                *)
LengthPad(total) == SubSeq(Stored(Byteswap64(Bits(total, 64)), 8), 9 - LengthBytes, 8)

(* SHA1Final, which leaves nothing in the buffer.                          *)
SHA1Final(sc) ==
  LET padded == SHA1Update(sc, SubSeq(Padding, 1, BytesToPad(Len(sc.buffer))))
  IN  SHA1Update(padded, LengthPad(sc.totalLength))

(* shahash: the blocks whose hash it answers.                              *)
ShaHash(str) == SHA1Final(SHA1Update(SHA1Init, str)).blocks

(* The bytes in which SHA1Final stores the hash.                           *)
HashBytes(hash) == [k \in 1 .. 20 |-> ByteOf(hash[(k - 1) \div 4 + 1], 24 - 8 * ((k - 1) % 4))]

----------------------------------------------------------------------------
(***************************************************************************)
(* The text form of a hash: characters by their ASCII codes.               *)
(***************************************************************************)

HexDigit(n) == IF n < 10 THEN 48 + n ELSE 97 + n - 10       \* %x writes abcdef
Binary2Hex(buf) ==
  [k \in 1 .. 2 * Len(buf) |->
     LET byte == buf[(k + 1) \div 2]
     IN  HexDigit(IF k % 2 = 1 THEN byte \div 16 ELSE byte % 16)]

ToUpper(c) == IF c \in 97 .. 122 THEN c - 32 ELSE c
DigitValue(c) == IF ToUpper(c) <= 57 THEN ToUpper(c) - 48 ELSE ToUpper(c) - 55
Hex2Binary(hex) ==
  [k \in 1 .. Len(hex) \div 2 |-> 16 * DigitValue(hex[2 * k - 1]) + DigitValue(hex[2 * k])]
=============================================================================
