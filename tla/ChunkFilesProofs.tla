-------------------------- MODULE ChunkFilesProofs --------------------------
(* Proofs about the way of a file through the programs, for every value of *)
(* the constants, and about the cutting of messages into blocks.           *)
EXTENDS ChunkFiles, SequenceTheorems, WellFoundedInduction, TLAPS

(***************************************************************************)
(* Numbers.                                                                *)
(***************************************************************************)

LEMMA Smallest ==
  ASSUME NEW S \in SUBSET Nat, S # {}
  PROVE  \E m \in S : \A k \in S : m <= k
<1> DEFINE R == {p \in Nat \X Nat : p[1] < p[2]}
<1>1. OpToRel(<, Nat) = R
  BY DEF OpToRel
<1>2. PICK m \in S : \A k \in S : <<k, m>> \notin R
  <2> HIDE DEF R
  <2> QED
  BY <1>1, NatLessThanWellFounded, WFMin
<1>3. ASSUME NEW k \in S, k < m PROVE FALSE
  <2>1. <<k, m>> \in R
    BY <1>3
  <2> QED
    BY <1>2, <2>1
<1> QED
  BY <1>3

LEMMA MinIs ==
  ASSUME NEW S \in SUBSET Nat, S # {}
  PROVE  Min(S) \in S /\ \A k \in S : Min(S) <= k
  BY Smallest DEF Min

LEMMA MinOfTwo ==
  ASSUME NEW a \in Nat, NEW b \in Nat
  PROVE  Min({a, b}) = IF a <= b THEN a ELSE b
<1>1. Min({a, b}) \in {a, b} /\ Min({a, b}) <= a /\ Min({a, b}) <= b
  BY MinIs
<1> QED
  BY <1>1

LEMMA Multiples ==
  ASSUME NEW m \in Nat, NEW n \in Nat, NEW d \in Nat, m <= n
  PROVE  m * d \in Nat /\ n * d \in Nat /\ m * d <= n * d /\ (m + 1) * d = m * d + d
         /\ m * d + (n - m) * d = n * d /\ (m >= 1 => (m - 1) * d = m * d - d /\ (m - 1) * d \in Nat)
  OBVIOUS

LEMMA Quotient ==
  ASSUME NEW n \in Nat, NEW d \in Nat \ {0}
  PROVE  n \div d \in Nat /\ (n \div d) * d <= n /\ n < (n \div d) * d + d
  OBVIOUS

(* A position in pieces of length d is one in one of them.                 *)
LEMMA Position ==
  ASSUME NEW n \in Nat, NEW d \in Nat \ {0}, NEW i \in 1 .. n * d
  PROVE  \E b \in 1 .. n, j \in 1 .. d : i = (b - 1) * d + j
<1> DEFINE q == (i - 1) \div d
<1>1. q \in Nat /\ q * d <= i - 1 /\ i - 1 < q * d + d
  <2>1. i - 1 \in Nat
    OBVIOUS
  <2> QED
    BY <2>1, Quotient
<1> HIDE DEF q
<1>2. q < n
  <2>1. SUFFICES ASSUME n <= q PROVE FALSE
    BY <1>1
  <2>2. n * d <= q * d /\ n * d \in Nat /\ q * d \in Nat
    BY <1>1, <2>1, Multiples
  <2> QED
    BY <1>1, <2>2
<1>3. q * d \in Nat
  BY <1>1, Multiples
<1>4. i - q * d \in 1 .. d /\ q + 1 \in 1 .. n /\ (q + 1) - 1 = q
  BY <1>1, <1>2, <1>3
<1>5. i = ((q + 1) - 1) * d + (i - q * d)
  BY <1>3, <1>4
<1> QED
  BY <1>4, <1>5

(***************************************************************************)
(* A function defined by recursion from a first value.                     *)
(***************************************************************************)

Recurses(R, S, first, step) ==
  \E f \in [0 .. R -> S] : f[0] = first /\ \A n \in 1 .. R : f[n] = step[<<n, f[n - 1]>>]

LEMMA Recursion ==
  ASSUME NEW R \in Nat, NEW S, NEW first \in S, NEW step \in [Nat \X S -> S]
  PROVE  Recurses(R, S, first, step)
<1> DEFINE Is(f, m) == f[0] = first /\ \A n \in 1 .. m : f[n] = step[<<n, f[n - 1]>>]
           Bad == {m \in Nat : ~ \E f \in [0 .. m -> S] : Is(f, m)}
<1>1. Bad = {}
  <2>1. SUFFICES ASSUME Bad # {} PROVE FALSE
    OBVIOUS
  <2>2. PICK m \in Bad : \A k \in Bad : m <= k
    <3> HIDE DEF Is
    <3> QED
      BY <2>1, Smallest
  <2>3. m # 0
    <3> DEFINE f == [n \in 0 .. 0 |-> first]
    <3>1. f \in [0 .. 0 -> S] /\ Is(f, 0)
      OBVIOUS
    <3> QED
      BY <3>1
  <2>4. PICK f \in [0 .. m - 1 -> S] : Is(f, m - 1)
    <3>1. m - 1 \in Nat /\ m - 1 \notin Bad
      BY <2>2, <2>3
    <3> HIDE DEF Is
    <3> QED
      BY <3>1
  <2> DEFINE g == [n \in 0 .. m |-> IF n = m THEN step[<<m, f[m - 1]>>] ELSE f[n]]
  <2>5. m \in Nat /\ m >= 1 /\ f[m - 1] \in S
    BY <2>3
  <2>6. g \in [0 .. m -> S]
    <3>1. step[<<m, f[m - 1]>>] \in S
      BY <2>5
    <3> QED
      BY <2>5, <3>1
  <2>7. g[0] = first
    BY <2>4, <2>5
  <2>8. ASSUME NEW n \in 1 .. m PROVE g[n] = step[<<n, g[n - 1]>>]
    <3>1. n - 1 \in 0 .. m /\ n - 1 # m
      BY <2>5
    <3>2. g[n - 1] = f[n - 1]
      BY <3>1
    <3>3. CASE n = m
      <4>1. g[n] = step[<<m, f[m - 1]>>]
        BY <2>5, <3>3
      <4> HIDE DEF g
      <4> QED
        BY <3>2, <3>3, <4>1
    <3>4. CASE n # m
      <4>1. n \in 1 .. m - 1
        BY <2>5, <3>4
      <4> QED
        BY <2>4, <3>2, <3>4, <4>1
    <3> QED
      BY <3>3, <3>4
  <2> HIDE DEF g
  <2> QED
    BY <2>2, <2>6, <2>7, <2>8
<1> HIDE DEF Is
<1>2. \E f \in [0 .. R -> S] : Is(f, R)
  BY <1>1
<1> QED
  BY <1>2 DEF Is, Recurses
----------------------------------------------------------------------------
(***************************************************************************)
(* SHA1Update and SHA1Final cut a message into blocks.                     *)
(***************************************************************************)

(* The text t is in the blocks bs, and what is over in the buffer bf.      *)
Cut(bs, bf, t) ==
  /\ Len(t) = Len(bs) * BlockBytes + Len(bf)
  /\ \A b \in 1 .. Len(bs) : \A j \in 1 .. BlockBytes :
       t[(b - 1) * BlockBytes + j] = bs[b][j]
  /\ \A b \in 1 .. Len(bs) : Len(bs[b]) = BlockBytes
  /\ \A j \in 1 .. Len(bf) : t[Len(bs) * BlockBytes + j] = bf[j]

Context(n, bs, bf) == [totalLength |-> n, blocks |-> bs, buffer |-> bf]

LEMMA Sizes ==
  /\ BlockBytes \in Nat \ {0} /\ LengthBytes \in Nat \ {0} /\ LengthBytes < BlockBytes
  /\ ChunkSize \in Nat \ {0} /\ PacketSize \in Nat \ {0}
  BY Sha1Assumption, ChunkFilesAssumption

(* The front of a sequence and the rest.                                   *)
LEMMA FrontAndRest ==
  ASSUME NEW T, NEW s \in Seq(T), NEW k \in 0 .. Len(s)
  PROVE  /\ SubSeq(s, 1, k) \in Seq(T) /\ Len(SubSeq(s, 1, k)) = k
         /\ \A i \in 1 .. k : SubSeq(s, 1, k)[i] = s[i]
         /\ SubSeq(s, k + 1, Len(s)) \in Seq(T) /\ Len(SubSeq(s, k + 1, Len(s))) = Len(s) - k
         /\ \A i \in 1 .. Len(s) - k : SubSeq(s, k + 1, Len(s))[i] = s[k + i]
<1>1. Len(s) \in Nat /\ k \in Nat
  BY LenProperties
<1>2. \A i \in 1 .. k : s[i] \in T
  BY <1>1, ElementOfSeq
<1>3. \A i \in k + 1 .. Len(s) : s[i] \in T
  BY <1>1, ElementOfSeq
<1>4. /\ SubSeq(s, 1, k) \in Seq(T)
      /\ Len(SubSeq(s, 1, k)) = IF 1 <= k THEN k - 1 + 1 ELSE 0
      /\ \A i \in 1 .. k - 1 + 1 : SubSeq(s, 1, k)[i] = s[1 + i - 1]
  BY <1>1, <1>2, SubSeqProperties
<1>5. /\ SubSeq(s, k + 1, Len(s)) \in Seq(T)
      /\ Len(SubSeq(s, k + 1, Len(s))) = IF k + 1 <= Len(s) THEN Len(s) - (k + 1) + 1 ELSE 0
      /\ \A i \in 1 .. Len(s) - (k + 1) + 1 : SubSeq(s, k + 1, Len(s))[i] = s[k + 1 + i - 1]
  BY <1>1, <1>3, SubSeqProperties
<1>6. \A i \in 1 .. k : 1 + i - 1 = i
  BY <1>1
<1>7. \A i \in 1 .. Len(s) - k : k + 1 + i - 1 = k + i
  BY <1>1
<1>8. 1 .. k - 1 + 1 = 1 .. k /\ 1 .. Len(s) - (k + 1) + 1 = 1 .. Len(s) - k
  BY <1>1
<1> QED
  BY <1>1, <1>4, <1>5, <1>6, <1>7, <1>8

(* What comes behind the text goes into the buffer.                        *)
LEMMA CutMore ==
  ASSUME NEW T, NEW bs \in Seq(Seq(T)), NEW bf \in Seq(T), NEW p \in Seq(T), NEW t \in Seq(T),
         Len(bf) + Len(p) <= BlockBytes, Cut(bs, bf, t)
  PROVE  Cut(bs, bf \o p, t \o p)
<1> DEFINE z == Len(bs) * BlockBytes
           full == bf \o p
           u == t \o p
<1>1. Len(bf) \in Nat /\ Len(p) \in Nat /\ Len(bs) \in Nat /\ Len(t) \in Nat
  BY LenProperties
<1>2. z \in Nat /\ Len(t) = z + Len(bf)
  BY <1>1, Sizes, Multiples DEF Cut
<1>3. /\ full \in Seq(T) /\ Len(full) = Len(bf) + Len(p)
      /\ \A i \in 1 .. Len(bf) + Len(p) : full[i] = IF i <= Len(bf) THEN bf[i] ELSE p[i - Len(bf)]
  BY ConcatProperties
<1>4. /\ u \in Seq(T) /\ Len(u) = Len(t) + Len(p)
      /\ \A i \in 1 .. Len(t) + Len(p) : u[i] = IF i <= Len(t) THEN t[i] ELSE p[i - Len(t)]
  BY ConcatProperties
<1> HIDE DEF full, u
<1>5. \A i \in 1 .. z : u[i] = t[i]
  <2> HIDE DEF z
  <2>1. \A i \in 1 .. z : i \in 1 .. Len(t) + Len(p) /\ i <= Len(t)
    BY <1>1, <1>2
  <2> QED
    BY <1>4, <2>1
<1>6. ASSUME NEW b \in 1 .. Len(bs), NEW j \in 1 .. BlockBytes
      PROVE  u[(b - 1) * BlockBytes + j] = bs[b][j]
  <2> DEFINE y == (b - 1) * BlockBytes
  <2>1. y \in Nat /\ y + BlockBytes <= z
    <3>1. b \in Nat /\ b - 1 \in Nat /\ b <= Len(bs) /\ (b - 1) + 1 = b
      BY <1>1
    <3>2. b * BlockBytes <= z
      BY <1>1, <3>1, Sizes, Multiples
    <3>3. (b - 1) * BlockBytes \in Nat /\ ((b - 1) + 1) * BlockBytes = (b - 1) * BlockBytes + BlockBytes
      BY <3>1, Sizes, Multiples
    <3> QED
      BY <3>1, <3>2, <3>3
  <2>2. t[y + j] = bs[b][j]
    BY DEF Cut
  <2> HIDE DEF y, z
  <2>3. y + j \in 1 .. z
    BY <1>2, <2>1, Sizes
  <2>4. u[y + j] = bs[b][j]
    BY <1>5, <2>2, <2>3
  <2> QED
    BY <2>4 DEF y
<1>7. ASSUME NEW j \in 1 .. Len(full)
      PROVE  u[z + j] = full[j]
  <2>1. \A i \in 1 .. Len(bf) : t[z + i] = bf[i]
    BY DEF Cut
  <2> HIDE DEF z
  <2>2. j \in 1 .. Len(bf) + Len(p) /\ z + j \in 1 .. Len(t) + Len(p)
        /\ (z + j <= Len(t) <=> j <= Len(bf)) /\ (z + j) - Len(t) = j - Len(bf)
    BY <1>1, <1>2, <1>3
  <2>3. CASE j <= Len(bf)
    <3>1. j \in 1 .. Len(bf)
      BY <1>1, <2>3
    <3>2. u[z + j] = t[z + j] /\ full[j] = bf[j]
      BY <1>3, <1>4, <2>2, <2>3
    <3> QED
      BY <2>1, <3>1, <3>2
  <2>4. CASE ~ (j <= Len(bf))
    <3>1. u[z + j] = p[(z + j) - Len(t)] /\ full[j] = p[j - Len(bf)]
      BY <1>3, <1>4, <2>2, <2>4
    <3> QED
      BY <2>2, <3>1
  <2> QED
    BY <2>3, <2>4
<1>8. Len(u) = z + Len(full)
  <2> HIDE DEF z
  <2> QED
    BY <1>1, <1>2, <1>3, <1>4
<1>9. \A b \in 1 .. Len(bs) : Len(bs[b]) = BlockBytes
  BY DEF Cut
<1> QED
  BY <1>6, <1>7, <1>8, <1>9 DEF Cut, full, u

(* A full buffer is one block more.                                        *)
LEMMA CutFull ==
  ASSUME NEW T, NEW bs \in Seq(Seq(T)), NEW bf \in Seq(T), NEW t \in Seq(T),
         Len(bf) = BlockBytes, Cut(bs, bf, t)
  PROVE  Cut(Append(bs, bf), <<>>, t)
<1> DEFINE more == Append(bs, bf)
           z == Len(bs) * BlockBytes
<1>1. Len(bs) \in Nat
  BY LenProperties
<1>2. /\ Len(more) = Len(bs) + 1
      /\ \A b \in 1 .. Len(bs) : more[b] = bs[b]
      /\ more[Len(bs) + 1] = bf
  BY AppendProperties
<1> HIDE DEF more
<1>3. (Len(bs) + 1) * BlockBytes = z + BlockBytes /\ z \in Nat
  BY <1>1, Sizes, Multiples
<1>4. Len(t) = Len(more) * BlockBytes + Len(<<>>)
  <2>1. Len(t) = (Len(bs) + 1) * BlockBytes
    BY <1>3 DEF Cut
  <2>2. Len(more) * BlockBytes \in Nat /\ Len(<<>>) = 0
    BY <1>1, <1>2, Sizes, Multiples
  <2> QED
    BY <1>2, <2>1, <2>2
<1>5. ASSUME NEW b \in 1 .. Len(more), NEW j \in 1 .. BlockBytes
      PROVE  t[(b - 1) * BlockBytes + j] = more[b][j]
  <2>1. CASE b = Len(bs) + 1
    <3>1. b - 1 = Len(bs)
      BY <1>1, <2>1
    <3>2. t[Len(bs) * BlockBytes + j] = bf[j]
      BY DEF Cut
    <3> QED
      BY <1>2, <2>1, <3>1, <3>2
  <2>2. CASE b # Len(bs) + 1
    <3>1. b \in 1 .. Len(bs)
      BY <1>1, <1>2, <2>2
    <3>2. t[(b - 1) * BlockBytes + j] = bs[b][j]
      BY <3>1 DEF Cut
    <3> QED
      BY <1>2, <3>1, <3>2
  <2> QED
    BY <2>1, <2>2
<1>6. ASSUME NEW b \in 1 .. Len(more) PROVE Len(more[b]) = BlockBytes
  <2>1. CASE b = Len(bs) + 1
    BY <1>2, <2>1
  <2>2. CASE b # Len(bs) + 1
    <3>1. b \in 1 .. Len(bs)
      BY <1>1, <1>2, <2>2
    <3>2. Len(bs[b]) = BlockBytes
      BY <3>1 DEF Cut
    <3> QED
      BY <1>2, <3>1, <3>2
  <2> QED
    BY <2>1, <2>2
<1>7. \A j \in 1 .. Len(<<>>) : t[Len(more) * BlockBytes + j] = <<>>[j]
  BY Len(<<>>) = 0
<1>8. Cut(more, <<>>, t)
  BY <1>4, <1>5, <1>6, <1>7 DEF Cut
<1> QED
  BY <1>8 DEF more

LEMMA ContextFields ==
  ASSUME NEW n, NEW bs, NEW bf
  PROVE  /\ Context(n, bs, bf).totalLength = n
         /\ Context(n, bs, bf).blocks = bs
         /\ Context(n, bs, bf).buffer = bf
  BY DEF Context

LEMMA FlushedIs ==
  ASSUME NEW n, NEW bs, NEW bf
  PROVE  Flushed(Context(n, bs, bf)) = IF Len(bf) = BlockBytes
                                       THEN Context(n, Append(bs, bf), <<>>) ELSE Context(n, bs, bf)
<1> DEFINE c == Context(n, bs, bf)
<1>1. c.totalLength = n /\ c.blocks = bs /\ c.buffer = bf
  BY ContextFields
<1>2. [c EXCEPT !.blocks = Append(bs, bf), !.buffer = <<>>] = Context(n, Append(bs, bf), <<>>)
  <2>1. ASSUME NEW cs, NEW e
        PROVE  [c EXCEPT !.blocks = cs, !.buffer = e] = Context(n, cs, e)
    <3>1. [c EXCEPT !.blocks = cs] = Context(n, cs, bf)
      BY DEF Context
    <3>2. [Context(n, cs, bf) EXCEPT !.buffer = e] = Context(n, cs, e)
      BY DEF Context
    <3>3. [c EXCEPT !.blocks = cs, !.buffer = e] = [[c EXCEPT !.blocks = cs] EXCEPT !.buffer = e]
      OBVIOUS
    <3> QED
      BY <3>1, <3>2, <3>3
  <2> HIDE DEF c
  <2> QED
    BY <2>1, Zenon
<1> HIDE DEF c
<1>3. Flushed(c) = IF Len(bf) = BlockBytes
                   THEN Context(n, Append(bs, bf), <<>>) ELSE c
  BY <1>1, <1>2, Zenon DEF Flushed
<1> QED
  BY <1>3 DEF c

RoundTakes(T, n, bs, bf, d, t) ==
  \E k \in 0 .. Len(d), cs \in Seq(Seq(T)), cf \in Seq(T) :
    /\ Copied([sc |-> Context(n, bs, bf), data |-> d])
         = [sc |-> Context(n + 8 * k, cs, cf), data |-> SubSeq(d, k + 1, Len(d))]
    /\ Len(cf) < BlockBytes
    /\ Cut(cs, cf, t \o SubSeq(d, 1, k))
    /\ k = Len(d) \/ (Len(bf) + k = BlockBytes /\ cf = <<>>)

(* What a round takes from the data d goes behind the text.                *)
LEMMA RoundCuts ==
  ASSUME NEW T, NEW n \in Nat, NEW bs \in Seq(Seq(T)), NEW bf \in Seq(T), NEW d \in Seq(T),
         NEW t \in Seq(T), Len(bf) < BlockBytes, Cut(bs, bf, t)
  PROVE  RoundTakes(T, n, bs, bf, d, t)
<1> DEFINE k == Min({BlockBytes - Len(bf), Len(d)})
           piece == SubSeq(d, 1, k)
           full == bf \o piece
           after == Context(n + 8 * k, bs, full)
           rest == SubSeq(d, k + 1, Len(d))
<1>1. Copied([sc |-> Context(n, bs, bf), data |-> d]) = [sc |-> Flushed(after), data |-> rest]
  <2> DEFINE c == Context(n, bs, bf)
             loop == [sc |-> c, data |-> d]
  <2>1. c.totalLength = n /\ c.buffer = bf
    BY ContextFields
  <2>2. [c EXCEPT !.totalLength = n + 8 * k, !.buffer = full] = after
    <3>1. ASSUME NEW m, NEW e
          PROVE  [c EXCEPT !.totalLength = m, !.buffer = e] = Context(m, bs, e)
      <4>1. [c EXCEPT !.totalLength = m] = Context(m, bs, bf)
        BY DEF Context
      <4>2. [Context(m, bs, bf) EXCEPT !.buffer = e] = Context(m, bs, e)
        BY DEF Context
      <4>3. [c EXCEPT !.totalLength = m, !.buffer = e]
              = [[c EXCEPT !.totalLength = m] EXCEPT !.buffer = e]
        OBVIOUS
      <4> QED
        BY <4>1, <4>2, <4>3
    <3> HIDE DEF c
    <3> QED
      BY <3>1, Zenon
  <2> HIDE DEF c, after
  <2>3. loop.sc = c /\ loop.data = d
    OBVIOUS
  <2> HIDE DEF loop
  <2>4. Copied(loop) = [sc |-> Flushed(after), data |-> rest]
    BY <2>1, <2>2, <2>3, Zenon DEF Copied
  <2> QED
    BY <2>4, Zenon DEF c, loop
<1>2. Flushed(after) = IF Len(full) = BlockBytes
                       THEN Context(n + 8 * k, Append(bs, full), <<>>) ELSE after
  <2> HIDE DEF k, full
  <2> QED
    BY FlushedIs
<1>3. Len(bf) \in Nat /\ Len(d) \in Nat
  BY LenProperties
<1>4. /\ k \in 0 .. Len(d) /\ Len(bf) + k <= BlockBytes
      /\ k = Len(d) \/ Len(bf) + k = BlockBytes
  <2>1. BlockBytes - Len(bf) \in Nat
    BY <1>3, Sizes
  <2>2. k = IF BlockBytes - Len(bf) <= Len(d) THEN BlockBytes - Len(bf) ELSE Len(d)
    BY <1>3, <2>1, MinOfTwo
  <2> HIDE DEF k
  <2> QED
    BY <1>3, <2>1, <2>2, Sizes
<1> HIDE DEF k
<1>5. piece \in Seq(T) /\ Len(piece) = k
  <2>1. k \in 0 .. Len(d)
    BY <1>4
  <2> QED
    BY <2>1, FrontAndRest
<1>6. full \in Seq(T) /\ Len(full) = Len(bf) + k
  BY <1>5, ConcatProperties
<1>7. Cut(bs, full, t \o piece)
  <2> HIDE DEF piece
  <2> QED
    BY <1>4, <1>5, CutMore
<1> HIDE DEF full, after, rest
<1>8. CASE Len(full) # BlockBytes
  <2>1. Copied([sc |-> Context(n, bs, bf), data |-> d])
          = [sc |-> Context(n + 8 * k, bs, full), data |-> rest]
    BY <1>1, <1>2, <1>8 DEF after
  <2>2. Len(full) < BlockBytes /\ k = Len(d)
    <3>1. k = Len(d)
      BY <1>4, <1>6, <1>8
    <3>2. Len(full) \in Nat /\ Len(full) <= BlockBytes
      BY <1>3, <1>4, <1>6
    <3> QED
      BY <1>8, <3>1, <3>2, Sizes
  <2> QED
    BY <1>4, <1>6, <1>7, <2>1, <2>2, Zenon DEF RoundTakes, rest, piece
<1>9. CASE Len(full) = BlockBytes
  <2>1. Copied([sc |-> Context(n, bs, bf), data |-> d])
          = [sc |-> Context(n + 8 * k, Append(bs, full), <<>>), data |-> rest]
    BY <1>1, <1>2, <1>9
  <2>2. Append(bs, full) \in Seq(Seq(T)) /\ <<>> \in Seq(T) /\ Len(<<>>) < BlockBytes
    BY <1>6, AppendProperties, EmptySeq, Sizes
  <2>3. Cut(Append(bs, full), <<>>, t \o piece)
    <3>1. t \o piece \in Seq(T)
      BY <1>5, ConcatProperties
    <3> QED
      BY <1>6, <1>7, <1>9, <3>1, CutFull
  <2>4. Len(bf) + k = BlockBytes
    BY <1>6, <1>9
  <2> QED
    BY <1>4, <2>1, <2>2, <2>3, <2>4, Zenon DEF RoundTakes, rest, piece
<1> QED
  BY <1>8, <1>9

(* A front taken in two goes.                                              *)
LEMMA FrontInTwo ==
  ASSUME NEW T, NEW s \in Seq(T), NEW k \in 0 .. Len(s), NEW i \in 0 .. Len(s) - k
  PROVE  /\ k + i \in 0 .. Len(s)
         /\ SubSeq(s, 1, k) \o SubSeq(SubSeq(s, k + 1, Len(s)), 1, i) = SubSeq(s, 1, k + i)
         /\ SubSeq(SubSeq(s, k + 1, Len(s)), i + 1, Len(s) - k) = SubSeq(s, k + i + 1, Len(s))
<1> DEFINE r == SubSeq(s, k + 1, Len(s))
           p == SubSeq(r, 1, i)
           h == SubSeq(s, 1, k)
<1>1. Len(s) \in Nat /\ k \in Nat /\ i \in Nat /\ k + i \in 0 .. Len(s)
  BY LenProperties
<1>2. /\ h \in Seq(T) /\ Len(h) = k
      /\ \A j \in 1 .. k : h[j] = s[j]
      /\ r \in Seq(T) /\ Len(r) = Len(s) - k
      /\ \A j \in 1 .. Len(s) - k : r[j] = s[k + j]
  BY FrontAndRest
<1> HIDE DEF r, h
<1>3. /\ p \in Seq(T) /\ Len(p) = i
      /\ \A j \in 1 .. i : p[j] = r[j]
      /\ SubSeq(r, i + 1, Len(r)) \in Seq(T) /\ Len(SubSeq(r, i + 1, Len(r))) = Len(r) - i
      /\ \A j \in 1 .. Len(r) - i : SubSeq(r, i + 1, Len(r))[j] = r[i + j]
  <2>1. i \in 0 .. Len(r)
    BY <1>2
  <2> QED
    BY <1>2, <2>1, FrontAndRest
<1> HIDE DEF p
<1>4. /\ SubSeq(s, 1, k + i) \in Seq(T) /\ Len(SubSeq(s, 1, k + i)) = k + i
      /\ \A j \in 1 .. k + i : SubSeq(s, 1, k + i)[j] = s[j]
      /\ SubSeq(s, (k + i) + 1, Len(s)) \in Seq(T)
      /\ Len(SubSeq(s, (k + i) + 1, Len(s))) = Len(s) - (k + i)
      /\ \A j \in 1 .. Len(s) - (k + i) : SubSeq(s, (k + i) + 1, Len(s))[j] = s[(k + i) + j]
  BY <1>1, FrontAndRest
<1>5. h \o p = SubSeq(s, 1, k + i)
  <2>1. /\ h \o p \in Seq(T) /\ Len(h \o p) = k + i
        /\ \A j \in 1 .. k + i : (h \o p)[j] = IF j <= k THEN h[j] ELSE p[j - k]
    <3>1. h \in Seq(T) /\ p \in Seq(T) /\ Len(h) = k /\ Len(p) = i
      BY <1>2, <1>3
    <3>2. /\ h \o p \in Seq(T) /\ Len(h \o p) = Len(h) + Len(p)
          /\ \A j \in 1 .. Len(h) + Len(p) : (h \o p)[j] = IF j <= Len(h) THEN h[j] ELSE p[j - Len(h)]
      BY <3>1, ConcatProperties
    <3> QED
      BY <3>1, <3>2
  <2>2. ASSUME NEW j \in 1 .. k + i PROVE (h \o p)[j] = s[j]
    <3>1. CASE j <= k
      <4>1. j \in 1 .. k
        BY <1>1, <3>1
      <4> QED
        BY <1>2, <2>1, <3>1, <4>1
    <3>2. CASE ~ (j <= k)
      <4>1. j - k \in 1 .. i /\ j - k \in 1 .. Len(s) - k /\ k + (j - k) = j
        BY <1>1, <3>2
      <4>2. (h \o p)[j] = p[j - k]
        BY <2>1, <3>2
      <4>3. p[j - k] = s[k + (j - k)]
        BY <1>2, <1>3, <4>1
      <4> QED
        BY <4>1, <4>2, <4>3
    <3> QED
      BY <3>1, <3>2
  <2> DEFINE a == h \o p
             b == SubSeq(s, 1, k + i)
  <2>3. a \in Seq(T) /\ b \in Seq(T) /\ Len(a) = Len(b) /\ \A j \in 1 .. Len(a) : a[j] = b[j]
    <3>1. \A j \in 1 .. k + i : a[j] = b[j]
      BY <1>4, <2>2
    <3> QED
      BY <1>4, <2>1, <3>1
  <2> HIDE DEF a, b
  <2>4. a = b
    BY <2>3, SeqEqual
  <2> QED
    BY <2>4 DEF a, b
<1>6. SubSeq(r, i + 1, Len(s) - k) = SubSeq(s, k + i + 1, Len(s))
  <2> DEFINE a == SubSeq(r, i + 1, Len(r))
             b == SubSeq(s, (k + i) + 1, Len(s))
  <2>1. Len(r) - i = Len(s) - (k + i)
    BY <1>1, <1>2
  <2>2. ASSUME NEW j \in 1 .. Len(s) - (k + i) PROVE a[j] = b[j]
    <3>1. j \in 1 .. Len(r) - i /\ i + j \in 1 .. Len(s) - k /\ k + (i + j) = (k + i) + j
      BY <1>1, <1>2
    <3>2. a[j] = r[i + j] /\ r[i + j] = s[k + (i + j)] /\ b[j] = s[(k + i) + j]
      BY <1>2, <1>3, <1>4, <3>1
    <3> QED
      BY <3>1, <3>2
  <2>3. a \in Seq(T) /\ b \in Seq(T) /\ Len(a) = Len(b) /\ \A j \in 1 .. Len(a) : a[j] = b[j]
    BY <1>3, <1>4, <2>1, <2>2
  <2>4. a = b
    <3> HIDE DEF a, b
    <3> QED
      BY <2>3, SeqEqual
  <2> QED
    BY <1>2, <2>4
<1> QED
  BY <1>1, <1>5, <1>6 DEF r, p, h

Associates(a, b, c) == (a \o b) \o c = a \o (b \o c)

LEMMA ConcatAssociates ==
  ASSUME NEW T, NEW a \in Seq(T), NEW b \in Seq(T), NEW c \in Seq(T)
  PROVE  Associates(a, b, c)
  BY ConcatAssociative DEF Associates

TakenInTwo(t, s, k, i) ==
  (t \o SubSeq(s, 1, k)) \o SubSeq(SubSeq(s, k + 1, Len(s)), 1, i) = t \o SubSeq(s, 1, k + i)

LEMMA FrontBehind ==
  ASSUME NEW T, NEW t \in Seq(T), NEW s \in Seq(T), NEW k \in 0 .. Len(s), NEW i \in 0 .. Len(s) - k
  PROVE  TakenInTwo(t, s, k, i)
<1> DEFINE h == SubSeq(s, 1, k)
           p == SubSeq(SubSeq(s, k + 1, Len(s)), 1, i)
<1>1. h \in Seq(T) /\ p \in Seq(T)
  <2> DEFINE r == SubSeq(s, k + 1, Len(s))
  <2>1. h \in Seq(T) /\ r \in Seq(T) /\ Len(r) = Len(s) - k
    BY FrontAndRest
  <2>2. i \in 0 .. Len(r)
    BY <2>1
  <2> HIDE DEF r
  <2>3. SubSeq(r, 1, i) \in Seq(T)
    BY <2>1, <2>2, FrontAndRest
  <2> QED
    BY <2>1, <2>3 DEF r
<1>2. h \o p = SubSeq(s, 1, k + i)
  BY FrontInTwo
<1> DEFINE b == SubSeq(s, 1, k + i)
<1>3. TakenInTwo(t, s, k, i) <=> (t \o h) \o p = t \o b
  BY DEF TakenInTwo
<1>4. h \o p = b
  BY <1>2
<1> HIDE DEF h, p, b
<1>5. Associates(t, h, p)
  BY <1>1, ConcatAssociates
<1>6. (t \o h) \o p = t \o b
  BY <1>4, <1>5 DEF Associates
<1> QED
  BY <1>3, <1>6

(* The loop of SHA1Update when k bytes of the data d are taken.            *)
Taken(n, d, k, bs, bf) == [sc |-> Context(n + 8 * k, bs, bf), data |-> SubSeq(d, k + 1, Len(d))]

IsCut(T, t, d, k, bs, bf) ==
  /\ k \in 0 .. Len(d) /\ bs \in Seq(Seq(T)) /\ bf \in Seq(T)
  /\ Len(bf) < BlockBytes
  /\ Cut(bs, bf, t \o SubSeq(d, 1, k))

GoesOn(T, n, t, d, k, bs, bf) ==
  \E m, cs, cf :
    /\ IsCut(T, t, d, m, cs, cf)
    /\ Copied(Taken(n, d, k, bs, bf)) = Taken(n, d, m, cs, cf)
    /\ m >= k
    /\ m = Len(d) \/ (Len(bf) + m = BlockBytes + k /\ cf = <<>>)

LEMMA RoundGoesOn ==
  ASSUME NEW T, NEW n \in Nat, NEW t \in Seq(T), NEW d \in Seq(T), NEW k, NEW bs, NEW bf,
         IsCut(T, t, d, k, bs, bf)
  PROVE  GoesOn(T, n, t, d, k, bs, bf)
<1> DEFINE h == SubSeq(d, 1, k)
           r == SubSeq(d, k + 1, Len(d))
           n1 == n + 8 * k
           u == t \o h
<1>1. k \in 0 .. Len(d) /\ bs \in Seq(Seq(T)) /\ bf \in Seq(T) /\ Len(bf) < BlockBytes /\ Cut(bs, bf, u)
  BY DEF IsCut
<1>2. Len(d) \in Nat /\ k \in Nat /\ n1 \in Nat /\ Len(bf) \in Nat
  BY <1>1, LenProperties
<1>3. h \in Seq(T) /\ r \in Seq(T) /\ Len(r) = Len(d) - k
  BY <1>1, FrontAndRest
<1>4. u \in Seq(T)
  BY <1>3, ConcatProperties
<1> HIDE DEF u, n1, r
<1>5. PICK i \in 0 .. Len(r), cs \in Seq(Seq(T)), cf \in Seq(T) :
        /\ Copied([sc |-> Context(n1, bs, bf), data |-> r])
             = [sc |-> Context(n1 + 8 * i, cs, cf), data |-> SubSeq(r, i + 1, Len(r))]
        /\ Len(cf) < BlockBytes
        /\ Cut(cs, cf, u \o SubSeq(r, 1, i))
        /\ i = Len(r) \/ (Len(bf) + i = BlockBytes /\ cf = <<>>)
  <2>1. bs \in Seq(Seq(T)) /\ bf \in Seq(T) /\ Len(bf) < BlockBytes /\ Cut(bs, bf, u)
        /\ n1 \in Nat /\ r \in Seq(T) /\ u \in Seq(T)
    BY <1>1, <1>2, <1>3, <1>4
  <2>2. RoundTakes(T, n1, bs, bf, r, u)
    BY <2>1, RoundCuts
  <2> QED
    BY <2>2 DEF RoundTakes
<1> DEFINE m == k + i
<1>6. i \in Nat /\ i \in 0 .. Len(d) - k /\ m \in 0 .. Len(d) /\ m >= k /\ n1 + 8 * i = n + 8 * m
      /\ (i = Len(r) => m = Len(d)) /\ (Len(bf) + i = BlockBytes => Len(bf) + m = BlockBytes + k)
  <2>1. i \in Nat /\ i \in 0 .. Len(d) - k /\ (i = Len(r) => i = Len(d) - k)
    BY <1>2, <1>3, <1>5
  <2>2. m \in 0 .. Len(d) /\ m >= k /\ n1 + 8 * i = n + 8 * m
    BY <1>2, <2>1 DEF n1
  <2>3. (i = Len(r) => m = Len(d))
    BY <1>2, <2>1
  <2>4. (Len(bf) + i = BlockBytes => Len(bf) + m = BlockBytes + k)
    <3> DEFINE a == Len(bf)
    <3>1. a \in Nat /\ i \in Nat /\ k \in Nat /\ BlockBytes \in Nat
      BY <1>2, <2>1, Sizes
    <3> HIDE DEF a
    <3>2. a + i = BlockBytes => a + m = BlockBytes + k
      BY <3>1
    <3> QED
      BY <3>2 DEF a
  <2> QED
    BY <2>1, <2>2, <2>3, <2>4
<1>7. h \o SubSeq(r, 1, i) = SubSeq(d, 1, m) /\ SubSeq(r, i + 1, Len(r)) = SubSeq(d, m + 1, Len(d))
  <2>1. h \o SubSeq(r, 1, i) = SubSeq(d, 1, m) /\ SubSeq(r, i + 1, Len(d) - k) = SubSeq(d, m + 1, Len(d))
    BY <1>1, <1>6, FrontInTwo DEF r
  <2> QED
    BY <1>3, <2>1
<1>8. u \o SubSeq(r, 1, i) = t \o SubSeq(d, 1, m)
  <2>1. k \in 0 .. Len(d) /\ i \in 0 .. Len(d) - k
    BY <1>1, <1>6
  <2>2. TakenInTwo(t, d, k, i)
    BY <2>1, FrontBehind
  <2> QED
    BY <2>2 DEF TakenInTwo, u, r
<1> HIDE DEF m
<1>9. IsCut(T, t, d, m, cs, cf)
  BY <1>5, <1>6, <1>8 DEF IsCut
<1>10. Taken(n, d, k, bs, bf) = [sc |-> Context(n1, bs, bf), data |-> r]
  BY Zenon DEF Taken, n1, r
<1>11. Copied(Taken(n, d, k, bs, bf)) = Taken(n, d, m, cs, cf)
  BY <1>5, <1>6, <1>7, <1>10, Zenon DEF Taken
<1> QED
  BY <1>5, <1>6, <1>9, <1>11 DEF GoesOn

Updates(T, n, bs, bf, d, t) ==
  \E cs \in Seq(Seq(T)), cf \in Seq(T) :
    /\ SHA1Update(Context(n, bs, bf), d) = Context(n + 8 * Len(d), cs, cf)
    /\ Len(cf) < BlockBytes
    /\ Cut(cs, cf, t \o d)

(* SHA1Update puts all the data behind the text.                           *)
LEMMA UpdateCuts ==
  ASSUME NEW T, NEW n \in Nat, NEW bs \in Seq(Seq(T)), NEW bf \in Seq(T), NEW d \in Seq(T),
         NEW t \in Seq(T), Len(bf) < BlockBytes, Cut(bs, bf, t)
  PROVE  Updates(T, n, bs, bf, d, t)
<1> DEFINE R == (Len(bf) + Len(d)) \div BlockBytes + 1
           sc == Context(n, bs, bf)
           first == [sc |-> sc, data |-> d]
           Of(f) == [j \in 0 .. R |-> IF j = 0 THEN first ELSE Copied(f[j - 1])]
           after == CHOOSE f : f = Of(f)
           Possible == {Taken(n, d, k, cs, cf) : k \in 0 .. Len(d), cs \in Seq(Seq(T)), cf \in Seq(T)}
           S == {loop \in Possible : \E k, cs, cf : loop = Taken(n, d, k, cs, cf) /\ IsCut(T, t, d, k, cs, cf)}
           step == [x \in Nat \X S |-> Copied(x[2])]
<1>1. Len(bf) \in Nat /\ Len(d) \in Nat
  BY LenProperties
<1>2. R \in Nat /\ R >= 1 /\ Len(bf) + Len(d) < R * BlockBytes
  <2> DEFINE q == (Len(bf) + Len(d)) \div BlockBytes
  <2>1. Len(bf) + Len(d) \in Nat
    BY <1>1
  <2>2. q \in Nat /\ Len(bf) + Len(d) < q * BlockBytes + BlockBytes
    BY <2>1, Quotient, Sizes
  <2> HIDE DEF q
  <2>3. (q + 1) * BlockBytes = q * BlockBytes + BlockBytes
    BY <2>2, Multiples, Sizes
  <2> QED
    BY <2>2, <2>3 DEF q
<1> HIDE DEF R
<1>3. first = Taken(n, d, 0, bs, bf) /\ IsCut(T, t, d, 0, bs, bf)
  <2>1. SubSeq(d, 1, 0) = <<>>
    BY SubSeqEmpty
  <2>2. t \o <<>> = t
    BY ConcatEmptySeq
  <2>3. SubSeq(d, 0 + 1, Len(d)) = d
    BY SubSeqFull
  <2>4. IsCut(T, t, d, 0, bs, bf)
    <3>1. 0 \in 0 .. Len(d)
      BY <1>1
    <3>2. Cut(bs, bf, t \o SubSeq(d, 1, 0))
      BY <2>1, <2>2
    <3> QED
      BY <3>1, <3>2 DEF IsCut
  <2>5. n + 8 * 0 = n
    OBVIOUS
  <2> QED
    BY <2>3, <2>4, <2>5 DEF Taken
<1> HIDE DEF first, sc
<1>4. \A k, cs, cf : IsCut(T, t, d, k, cs, cf) => Taken(n, d, k, cs, cf) \in S
  BY DEF IsCut
<1> HIDE DEF S
<1>5. first \in S
  BY <1>3, <1>4
<1>6. ASSUME NEW loop \in S PROVE Copied(loop) \in S
  <2>1. PICK k, cs, cf : loop = Taken(n, d, k, cs, cf) /\ IsCut(T, t, d, k, cs, cf)
    BY DEF S
  <2> QED
    BY <1>4, <2>1, RoundGoesOn DEF GoesOn
<1>7. step \in [Nat \X S -> S]
  BY <1>6
<1>8. \E f : f = Of(f)
  <2>1. PICK f \in [0 .. R -> S] : f[0] = first /\ \A m \in 1 .. R : f[m] = step[<<m, f[m - 1]>>]
    <3> HIDE DEF step
    <3>1. Recurses(R, S, first, step)
      BY <1>2, <1>5, <1>7, Recursion
    <3> QED
      BY <3>1 DEF Recurses
  <2>2. ASSUME NEW m \in 1 .. R PROVE f[m] = Copied(f[m - 1])
    <3>1. m \in Nat /\ m - 1 \in 0 .. R
      BY <1>2
    <3> QED
      BY <2>1, <3>1
  <2>3. ASSUME NEW j \in 0 .. R PROVE f[j] = IF j = 0 THEN first ELSE Copied(f[j - 1])
    <3>1. j = 0 \/ j \in 1 .. R
      BY <1>2
    <3> QED
      BY <2>1, <2>2, <3>1
  <2>4. f = [j \in 0 .. R |-> f[j]]
    BY <2>1
  <2> QED
    BY <2>3, <2>4
<1>9. after = Of(after)
  <2> HIDE DEF Of
  <2> QED
    BY <1>8
<1> HIDE DEF after
<1>10. after[0] = first /\ \A j \in 1 .. R : after[j] = Copied(after[j - 1])
  <2>1. ASSUME NEW j \in 0 .. R PROVE after[j] = IF j = 0 THEN first ELSE Copied(after[j - 1])
    BY <1>9
  <2> QED
    BY <1>2, <2>1
<1> DEFINE Done(j) == \E k, cs, cf :
                        /\ after[j] = Taken(n, d, k, cs, cf) /\ IsCut(T, t, d, k, cs, cf)
                        /\ j = 0 => k = 0 /\ cf = bf
                        /\ j > 0 => k = Len(d) \/ (cf = <<>> /\ Len(bf) + k = j * BlockBytes)
           Bad == {j \in 0 .. R : ~ Done(j)}
<1>11. Bad = {}
  <2>1. SUFFICES ASSUME Bad # {} PROVE FALSE
    OBVIOUS
  <2>2. PICK j \in Bad : \A i \in Bad : j <= i
    <3>1. Bad \in SUBSET Nat
      OBVIOUS
    <3> HIDE DEF Bad
    <3> QED
      BY <2>1, <3>1, Smallest
  <2>3. Done(0)
    BY <1>3, <1>10
  <2> HIDE DEF Done
  <2>4. j \in 1 .. R /\ ~ Done(j) /\ j - 1 \in 0 .. R
    BY <1>2, <2>2, <2>3
  <2>5. Done(j - 1)
    BY <2>2, <2>4
  <2>6. PICK k, cs, cf :
          /\ after[j - 1] = Taken(n, d, k, cs, cf) /\ IsCut(T, t, d, k, cs, cf)
          /\ j - 1 = 0 => k = 0 /\ cf = bf
          /\ j - 1 > 0 => k = Len(d) \/ (cf = <<>> /\ Len(bf) + k = (j - 1) * BlockBytes)
    BY <2>5 DEF Done
  <2>7. PICK m, ds, df :
          /\ IsCut(T, t, d, m, ds, df)
          /\ Copied(Taken(n, d, k, cs, cf)) = Taken(n, d, m, ds, df)
          /\ m >= k
          /\ m = Len(d) \/ (Len(cf) + m = BlockBytes + k /\ df = <<>>)
    <3>1. IsCut(T, t, d, k, cs, cf)
      BY <2>6
    <3>2. GoesOn(T, n, t, d, k, cs, cf)
      BY <3>1, RoundGoesOn
    <3> QED
      BY <3>2 DEF GoesOn
  <2>8. k \in Nat /\ k <= Len(d) /\ m \in Nat /\ m <= Len(d)
    BY <1>1, <2>6, <2>7 DEF IsCut
  <2>9. m = Len(d) \/ (df = <<>> /\ Len(bf) + m = j * BlockBytes)
    <3>1. j - 1 \in Nat /\ (j - 1) + 1 = j
      BY <2>4
    <3>2. (j - 1) * BlockBytes \in Nat /\ j * BlockBytes = (j - 1) * BlockBytes + BlockBytes
      BY <3>1, Multiples, Sizes
    <3>3. CASE j - 1 = 0
      <4>1. (j - 1) * BlockBytes = 0
        BY <3>3, Sizes
      <4> DEFINE y == (j - 1) * BlockBytes
                 z == j * BlockBytes
      <4>2. y = 0 /\ z = y + BlockBytes
        BY <3>2, <4>1
      <4> HIDE DEF y, z
      <4>3. m = Len(d) \/ (df = <<>> /\ Len(bf) + m = z)
        BY <1>1, <2>6, <2>7, <2>8, <3>3, <4>2, Sizes
      <4> QED
        BY <4>3 DEF z
    <3>4. CASE j - 1 > 0 /\ k # Len(d)
      <4>1. cf = <<>> /\ Len(bf) + k = (j - 1) * BlockBytes
        BY <2>6, <3>4
      <4>2. Len(cf) = 0
        BY <4>1
      <4> DEFINE y == (j - 1) * BlockBytes
                 z == j * BlockBytes
      <4>3. Len(bf) + k = y /\ z = y + BlockBytes /\ y \in Nat
        BY <3>2, <4>1
      <4> HIDE DEF y, z
      <4>4. m = Len(d) \/ (df = <<>> /\ Len(bf) + m = z)
        <5>1. CASE m = Len(d)
          BY <5>1
        <5>2. CASE Len(cf) + m = BlockBytes + k /\ df = <<>>
          <6>1. m = BlockBytes + k
            BY <2>8, <4>2, <5>2
          <6>2. Len(bf) + m = z
            <7>1. \A a, b, c \in Nat : a + (b + c) = (a + c) + b
              OBVIOUS
            <7>2. Len(bf) + m = (Len(bf) + k) + BlockBytes
              BY <1>1, <2>8, <6>1, <7>1, Sizes
            <7> QED
              BY <4>3, <7>2
          <6> QED
            BY <5>2, <6>2
        <5> QED
          BY <2>7, <5>1, <5>2
      <4> QED
        BY <4>4 DEF z
    <3>5. CASE k = Len(d)
      BY <1>1, <2>7, <2>8, <3>5
    <3> QED
      BY <3>1, <3>3, <3>4, <3>5
  <2>10. after[j] = Taken(n, d, m, ds, df)
    BY <1>10, <2>4, <2>6, <2>7
  <2>11. Done(j)
    <3>1. j > 0 /\ j # 0
      BY <2>4
    <3> QED
      BY <2>7, <2>9, <2>10, <3>1 DEF Done
  <2> QED
    BY <2>4, <2>11
<1>12. PICK k, cs, cf :
         /\ after[R] = Taken(n, d, k, cs, cf) /\ IsCut(T, t, d, k, cs, cf)
         /\ R > 0 => k = Len(d) \/ (cf = <<>> /\ Len(bf) + k = R * BlockBytes)
  <2>1. Done(R)
    <3>1. R \in 0 .. R
      BY <1>2
    <3> HIDE DEF Done
    <3> QED
      BY <1>11, <3>1
  <2> QED
    BY <2>1
<1>13. k = Len(d)
  <2>1. k \in Nat /\ k <= Len(d)
    BY <1>1, <1>12 DEF IsCut
  <2> DEFINE z == R * BlockBytes
  <2>2. k = Len(d) \/ Len(bf) + k = z
    BY <1>2, <1>12
  <2>3. Len(bf) + Len(d) < z
    BY <1>2
  <2> HIDE DEF z
  <2> QED
    BY <1>1, <2>1, <2>2, <2>3
<1>14. SHA1Update(sc, d) = after[R].sc
  <2>1. sc.buffer = bf
    BY ContextFields DEF sc
  <2>2. R = (Len(bf) + Len(d)) \div BlockBytes + 1
    BY DEF R
  <2>3. after = CHOOSE f : f = [j \in 0 .. R |->
                                 IF j = 0 THEN [sc |-> sc, data |-> d] ELSE Copied(f[j - 1])]
    BY Zenon DEF after, Of, first
  <2> QED
    BY <2>1, <2>2, <2>3, Zenon DEF SHA1Update
<1>15. after[R].sc = Context(n + 8 * Len(d), cs, cf)
  <2> DEFINE c == Context(n + 8 * k, cs, cf)
  <2>1. after[R] = [sc |-> c, data |-> SubSeq(d, k + 1, Len(d))]
    BY <1>12, Zenon DEF Taken
  <2> HIDE DEF c
  <2>2. after[R].sc = c
    BY <2>1
  <2> QED
    BY <1>13, <2>2 DEF c
<1>16. SubSeq(d, 1, k) = d
  BY <1>13, SubSeqFull
<1>17. cs \in Seq(Seq(T)) /\ cf \in Seq(T) /\ Len(cf) < BlockBytes /\ Cut(cs, cf, t \o d)
  BY <1>12, <1>16 DEF IsCut
<1> QED
  BY <1>14, <1>15, <1>17 DEF Updates, sc

LEMMA FunctionIsSeq ==
  ASSUME NEW n \in Nat, NEW S, NEW f \in [1 .. n -> S]
  PROVE  f \in Seq(S) /\ Len(f) = n
<1>1. f \in Seq(S)
  BY SeqDef
<1>2. Len(f) \in Nat /\ DOMAIN f = 1 .. Len(f) /\ DOMAIN f = 1 .. n
  BY <1>1, LenProperties
<1>3. \A l \in Nat : 1 .. l = 1 .. n => l = n
  <2>1. SUFFICES ASSUME NEW l \in Nat, 1 .. l = 1 .. n PROVE l = n
    OBVIOUS
  <2>2. (l \in 1 .. l <=> l \in 1 .. n) /\ (n \in 1 .. l <=> n \in 1 .. n)
    BY <2>1
  <2> QED
    BY <2>2
<1> QED
  BY <1>1, <1>2, <1>3

----------------------------------------------------------------------------
(***************************************************************************)
(* The length field.                                                       *)
(***************************************************************************)

Bit(bits, b) == IF b \in bits THEN 1 ELSE 0

(* Eight bits, the highest first.                                          *)
OfBits(b0, b1, b2, b3, b4, b5, b6, b7) ==
  b0 + 2 * b1 + 4 * b2 + 8 * b3 + 16 * b4 + 32 * b5 + 64 * b6 + 128 * b7

LEMMA ValueIs ==
  ASSUME NEW bits
  PROVE  Value(bits) = OfBits(Bit(bits, 0), Bit(bits, 1), Bit(bits, 2), Bit(bits, 3),
                              Bit(bits, 4), Bit(bits, 5), Bit(bits, 6), Bit(bits, 7))
<1> DEFINE Of(f) == [b \in 0 .. 8 |-> IF b = 8 THEN 0 ELSE 2 * f[b + 1] + (IF b \in bits THEN 1 ELSE 0)]
           above == CHOOSE f : f = Of(f)
           step == [x \in Nat \X Nat |-> 2 * x[2] + Bit(bits, 8 - x[1])]
<1>1. \E f : f = Of(f)
  <2>1. step \in [Nat \X Nat -> Nat]
    BY DEF Bit
  <2>2. Recurses(8, Nat, 0, step)
    <3> HIDE DEF step
    <3> QED
      BY <2>1, Recursion
  <2>3. PICK g \in [0 .. 8 -> Nat] : g[0] = 0 /\ \A n \in 1 .. 8 : g[n] = step[<<n, g[n - 1]>>]
    <3> HIDE DEF step
    <3> QED
      BY <2>2 DEF Recurses
  <2>4. \A n \in 1 .. 8 : g[n] = 2 * g[n - 1] + Bit(bits, 8 - n)
    <3>1. SUFFICES ASSUME NEW n \in 1 .. 8 PROVE g[n] = 2 * g[n - 1] + Bit(bits, 8 - n)
      OBVIOUS
    <3>2. n \in Nat /\ n - 1 \in 0 .. 8 /\ g[n - 1] \in Nat
      OBVIOUS
    <3> QED
      BY <2>3, <3>2
  <2> DEFINE f == [b \in 0 .. 8 |-> g[8 - b]]
  <2>5. ASSUME NEW b \in 0 .. 8
        PROVE  f[b] = IF b = 8 THEN 0 ELSE 2 * f[b + 1] + (IF b \in bits THEN 1 ELSE 0)
    <3>1. CASE b = 8
      BY <2>3, <3>1
    <3>2. CASE b # 8
      <4>1. 8 - b \in 1 .. 8 /\ b + 1 \in 0 .. 8 /\ 8 - (b + 1) = (8 - b) - 1 /\ 8 - (8 - b) = b
        BY <3>2
      <4>2. g[8 - b] = 2 * g[(8 - b) - 1] + Bit(bits, b)
        BY <2>4, <4>1
      <4>3. f[b] = g[8 - b] /\ f[b + 1] = g[(8 - b) - 1]
        BY <4>1
      <4> QED
        BY <3>2, <4>2, <4>3 DEF Bit
    <3> QED
      BY <3>1, <3>2
  <2>6. f = [b \in 0 .. 8 |-> f[b]]
    OBVIOUS
  <2> HIDE DEF f
  <2>7. f = Of(f)
    BY <2>5, <2>6
  <2> QED
    BY <2>7
<1>2. above = Of(above)
  <2> HIDE DEF Of
  <2> QED
    BY <1>1
<1>3. Value(bits) = above[0]
  BY Zenon DEF Value
<1> HIDE DEF above
<1>4. ASSUME NEW b \in 0 .. 8
      PROVE  above[b] = IF b = 8 THEN 0 ELSE 2 * above[b + 1] + Bit(bits, b)
  BY <1>2 DEF Bit
<1>5. /\ above[8] = 0
      /\ above[7] = 2 * above[7 + 1] + Bit(bits, 7) /\ above[6] = 2 * above[6 + 1] + Bit(bits, 6)
      /\ above[5] = 2 * above[5 + 1] + Bit(bits, 5) /\ above[4] = 2 * above[4 + 1] + Bit(bits, 4)
      /\ above[3] = 2 * above[3 + 1] + Bit(bits, 3) /\ above[2] = 2 * above[2 + 1] + Bit(bits, 2)
      /\ above[1] = 2 * above[1 + 1] + Bit(bits, 1) /\ above[0] = 2 * above[0 + 1] + Bit(bits, 0)
  BY <1>4
<1>6. \A b \in 0 .. 7 : Bit(bits, b) \in 0 .. 1
  BY DEF Bit
<1>7. ASSUME NEW b0 \in 0 .. 1, NEW b1 \in 0 .. 1, NEW b2 \in 0 .. 1, NEW b3 \in 0 .. 1,
             NEW b4 \in 0 .. 1, NEW b5 \in 0 .. 1, NEW b6 \in 0 .. 1, NEW b7 \in 0 .. 1
      PROVE  2 * (2 * (2 * (2 * (2 * (2 * (2 * (2 * 0 + b7) + b6) + b5) + b4) + b3) + b2) + b1) + b0
             = OfBits(b0, b1, b2, b3, b4, b5, b6, b7)
  BY DEF OfBits
<1>8. above[0] = 2 * (2 * (2 * (2 * (2 * (2 * (2 * (2 * 0 + Bit(bits, 7)) + Bit(bits, 6)) + Bit(bits, 5))
                   + Bit(bits, 4)) + Bit(bits, 3)) + Bit(bits, 2)) + Bit(bits, 1)) + Bit(bits, 0)
  BY <1>5
<1> QED
  BY <1>3, <1>6, <1>7, <1>8

(* A number and its halves.                                                *)
IsHalved(h, n) ==
  /\ h \in [0 .. 64 -> Nat] /\ h[0] = n
  /\ \A b \in 1 .. 64 : h[b] = h[b - 1] \div 2

LEMMA BitsAre ==
  ASSUME NEW n \in Nat
  PROVE  \E h : IsHalved(h, n) /\ Bits(n, 64) = {b \in 0 .. 63 : h[b] % 2 = 1}
<1> DEFINE Of(f) == [b \in 0 .. 64 |-> IF b = 0 THEN n ELSE f[b - 1] \div 2]
           shifted == CHOOSE f : f = Of(f)
           step == [x \in Nat \X Nat |-> x[2] \div 2]
<1>1. \E f : f = Of(f) /\ IsHalved(f, n)
  <2>1. step \in [Nat \X Nat -> Nat]
    OBVIOUS
  <2>2. Recurses(64, Nat, n, step)
    <3> HIDE DEF step
    <3> QED
      BY <2>1, Recursion
  <2>3. PICK g \in [0 .. 64 -> Nat] : g[0] = n /\ \A b \in 1 .. 64 : g[b] = step[<<b, g[b - 1]>>]
    <3> HIDE DEF step
    <3> QED
      BY <2>2 DEF Recurses
  <2>4. \A b \in 1 .. 64 : g[b] = g[b - 1] \div 2
    <3>1. SUFFICES ASSUME NEW b \in 1 .. 64 PROVE g[b] = g[b - 1] \div 2
      OBVIOUS
    <3>2. b \in Nat /\ b - 1 \in 0 .. 64 /\ g[b - 1] \in Nat
      OBVIOUS
    <3> QED
      BY <2>3, <3>2
  <2>5. \A b \in 0 .. 64 : g[b] = IF b = 0 THEN n ELSE g[b - 1] \div 2
    <3>1. \A b \in 0 .. 64 : b = 0 \/ b \in 1 .. 64
      OBVIOUS
    <3> QED
      BY <2>3, <2>4, <3>1
  <2>6. g = [b \in 0 .. 64 |-> g[b]]
    OBVIOUS
  <2>7. g = Of(g)
    BY <2>5, <2>6
  <2> QED
    BY <2>3, <2>4, <2>7 DEF IsHalved
<1>2. shifted = Of(shifted)
  <2> HIDE DEF Of
  <2> QED
    BY <1>1
<1>3. Bits(n, 64) = {b \in Positions(64) : shifted[b] % 2 = 1}
  BY Zenon DEF Bits
<1> HIDE DEF shifted
<1>4. IsHalved(shifted, n)
  <2>1. PICK g : g = Of(g) /\ IsHalved(g, n)
    BY <1>1
  <2> DEFINE Bad == {b \in 0 .. 64 : shifted[b] # g[b]}
  <2>2. Bad = {}
    <3>1. SUFFICES ASSUME Bad # {} PROVE FALSE
      OBVIOUS
    <3>2. PICK b \in Bad : \A c \in Bad : b <= c
      <4>1. Bad \in SUBSET Nat
        OBVIOUS
      <4> HIDE DEF Bad
      <4> QED
        BY <3>1, <4>1, Smallest
    <3>3. b \in 0 .. 64 /\ shifted[b] = (IF b = 0 THEN n ELSE shifted[b - 1] \div 2)
          /\ g[b] = (IF b = 0 THEN n ELSE g[b - 1] \div 2)
      <4>1. ASSUME NEW f, f = Of(f), NEW i \in 0 .. 64
            PROVE  f[i] = IF i = 0 THEN n ELSE f[i - 1] \div 2
        BY <4>1
      <4>2. b \in 0 .. 64
        OBVIOUS
      <4> HIDE DEF Of, Bad
      <4> QED
        BY <1>2, <2>1, <4>1, <4>2
    <3>4. b # 0 /\ b - 1 \in 0 .. 64 /\ b - 1 \notin Bad
      BY <3>2, <3>3
    <3> QED
      BY <3>2, <3>3, <3>4
  <2>3. shifted = [b \in 0 .. 64 |-> shifted[b]] /\ g = [b \in 0 .. 64 |-> g[b]]
    BY <1>2, <2>1
  <2>4. shifted = g
    BY <2>2, <2>3
  <2> QED
    BY <2>1, <2>4
<1> QED
  BY <1>3, <1>4 DEF Positions

HalvedByte(h, low) ==
  /\ Value({c \in 0 .. 7 : h[low + c] % 2 = 1}) = h[low] % 256
  /\ h[low + 8] = h[low] \div 256

(* The byte at a position of a halved number.                              *)
LEMMA ByteOfHalved ==
  ASSUME NEW n \in Nat, NEW h, IsHalved(h, n), NEW low \in 0 .. 56
  PROVE  HalvedByte(h, low)
<1> DEFINE S == {c \in 0 .. 7 : h[low + c] % 2 = 1}
<1>1. \A c \in 0 .. 8 : low + c \in 0 .. 64 /\ h[low + c] \in Nat
  BY DEF IsHalved
<1>2. \A c \in 0 .. 7 : h[low + (c + 1)] = h[low + c] \div 2
  <2>1. SUFFICES ASSUME NEW c \in 0 .. 7 PROVE h[low + (c + 1)] = h[low + c] \div 2
    OBVIOUS
  <2>2. low + (c + 1) \in 1 .. 64 /\ (low + (c + 1)) - 1 = low + c
    OBVIOUS
  <2> QED
    BY <2>2 DEF IsHalved
<1>3. ASSUME NEW c \in 0 .. 7
      PROVE  h[low + c] = 2 * h[low + (c + 1)] + Bit(S, c) /\ Bit(S, c) \in 0 .. 1
  <2>1. Bit(S, c) = h[low + c] % 2
    <3>1. h[low + c] % 2 \in 0 .. 1
      BY <1>1
    <3> QED
      BY <3>1 DEF Bit
  <2> HIDE DEF S
  <2>2. \A m \in Nat : m = 2 * (m \div 2) + (m % 2) /\ (m % 2) \in 0 .. 1
    OBVIOUS
  <2> DEFINE m == h[low + c]
             half == h[low + (c + 1)]
             bit == Bit(S, c)
  <2>3. m \in Nat /\ half = m \div 2 /\ bit = m % 2
    <3>1. c \in 0 .. 8
      OBVIOUS
    <3> QED
      BY <1>1, <1>2, <2>1, <3>1
  <2> HIDE DEF m, half, bit
  <2>4. m = 2 * half + bit /\ bit \in 0 .. 1
    BY <2>2, <2>3
  <2> QED
    BY <2>4 DEF m, half, bit
<1>4. /\ h[low] = 2 * h[low + 1] + Bit(S, 0) /\ h[low + 1] = 2 * h[low + 2] + Bit(S, 1)
      /\ h[low + 2] = 2 * h[low + 3] + Bit(S, 2) /\ h[low + 3] = 2 * h[low + 4] + Bit(S, 3)
      /\ h[low + 4] = 2 * h[low + 5] + Bit(S, 4) /\ h[low + 5] = 2 * h[low + 6] + Bit(S, 5)
      /\ h[low + 6] = 2 * h[low + 7] + Bit(S, 6) /\ h[low + 7] = 2 * h[low + 8] + Bit(S, 7)
  <2> HIDE DEF S
  <2>1. low + 0 = low
    OBVIOUS
  <2>2. \A c \in 0 .. 7 : h[low + c] = 2 * h[low + (c + 1)] + Bit(S, c)
    BY <1>3
  <2> QED
    BY <2>1, <2>2
<1>5. Value(S) = OfBits(Bit(S, 0), Bit(S, 1), Bit(S, 2), Bit(S, 3), Bit(S, 4), Bit(S, 5), Bit(S, 6), Bit(S, 7))
  <2> HIDE DEF S
  <2> QED
    BY ValueIs
<1>6. \A c \in 0 .. 7 : Bit(S, c) \in 0 .. 1
  BY <1>3
<1> HIDE DEF S
<1>7. h[low] \in Nat /\ h[low + 1] \in Nat /\ h[low + 2] \in Nat /\ h[low + 3] \in Nat /\ h[low + 4] \in Nat
      /\ h[low + 5] \in Nat /\ h[low + 6] \in Nat /\ h[low + 7] \in Nat /\ h[low + 8] \in Nat
  <2>1. low + 0 = low
    OBVIOUS
  <2> QED
    BY <1>1, <2>1
<1> DEFINE m0 == h[low]      m1 == h[low + 1]  m2 == h[low + 2]  m3 == h[low + 3]
           m4 == h[low + 4]  m5 == h[low + 5]  m6 == h[low + 6]  m7 == h[low + 7]
           m8 == h[low + 8]
           b0 == Bit(S, 0)   b1 == Bit(S, 1)   b2 == Bit(S, 2)   b3 == Bit(S, 3)
           b4 == Bit(S, 4)   b5 == Bit(S, 5)   b6 == Bit(S, 6)   b7 == Bit(S, 7)
           v == OfBits(b0, b1, b2, b3, b4, b5, b6, b7)
<1>8. /\ m0 \in Nat /\ m1 \in Nat /\ m2 \in Nat /\ m3 \in Nat /\ m4 \in Nat
      /\ m5 \in Nat /\ m6 \in Nat /\ m7 \in Nat /\ m8 \in Nat
      /\ b0 \in 0 .. 1 /\ b1 \in 0 .. 1 /\ b2 \in 0 .. 1 /\ b3 \in 0 .. 1
      /\ b4 \in 0 .. 1 /\ b5 \in 0 .. 1 /\ b6 \in 0 .. 1 /\ b7 \in 0 .. 1
      /\ m0 = 2 * m1 + b0 /\ m1 = 2 * m2 + b1 /\ m2 = 2 * m3 + b2 /\ m3 = 2 * m4 + b3
      /\ m4 = 2 * m5 + b4 /\ m5 = 2 * m6 + b5 /\ m6 = 2 * m7 + b6 /\ m7 = 2 * m8 + b7
  BY <1>4, <1>6, <1>7
<1> HIDE DEF m0, m1, m2, m3, m4, m5, m6, m7, m8, b0, b1, b2, b3, b4, b5, b6, b7
<1>9. m0 = 256 * m8 + v /\ v \in 0 .. 255
  BY <1>8 DEF OfBits
<1> HIDE DEF v
<1>10. v = m0 % 256 /\ m8 = m0 \div 256
  BY <1>8, <1>9
<1>11. Value(S) = v
  BY <1>5 DEF v, b0, b1, b2, b3, b4, b5, b6, b7
<1> QED
  BY <1>10, <1>11 DEF HalvedByte, S, m0, m8

(* BYTESWAP: a word's bytes in the opposite order.                         *)
LEMMA SwappedByte ==
  ASSUME NEW x \in SUBSET (0 .. 31), NEW q \in 0 .. 3, NEW r \in 0 .. 7
  PROVE  8 * q + r \in Byteswap(x) <=> 8 * (3 - q) + r \in x
<1> DEFINE p == 8 * q + r
           s == 8 * (3 - q) + r
<1>1. p \in 0 .. 31 /\ s \in 0 .. 31 /\ p \div 8 = q
  OBVIOUS
<1>2. p \in EvenBytes <=> q % 2 = 0
  BY <1>1 DEF EvenBytes, Positions
<1>3. p \in OddBytes <=> q % 2 # 0
  BY <1>1, <1>2 DEF OddBytes, Positions
<1>4. CASE q % 2 = 0
  <2>1. p \in Byteswap(x) <=> p \in Rotl(x, 8)
    BY <1>2, <1>3, <1>4 DEF Byteswap
  <2>2. \A b \in 0 .. 31 : (b + 8) % 32 = p <=> b = s
    <3>1. q = 0 \/ q = 2
      BY <1>4
    <3>2. CASE q = 0
      BY <3>2
    <3>3. CASE q = 2
      BY <3>3
    <3> QED
      BY <3>1, <3>2, <3>3
  <2>3. p \in Rotl(x, 8) <=> \E b \in x : (b + 8) % 32 = p
    BY DEF Rotl
  <2> HIDE DEF p, s
  <2>4. p \in Byteswap(x) <=> s \in x
    BY <2>1, <2>2, <2>3
  <2> QED
    BY <2>4 DEF p, s
<1>5. CASE q % 2 # 0
  <2>1. p \in Byteswap(x) <=> p \in Rotr(x, 8)
    BY <1>2, <1>3, <1>5 DEF Byteswap
  <2>2. \A b \in 0 .. 31 : (b - 8) % 32 = p <=> b = s
    <3>1. q = 1 \/ q = 3
      BY <1>5
    <3>2. CASE q = 1
      BY <3>2
    <3>3. CASE q = 3
      BY <3>3
    <3> QED
      BY <3>1, <3>2, <3>3
  <2>3. p \in Rotr(x, 8) <=> \E b \in x : (b - 8) % 32 = p
    BY DEF Rotr
  <2> HIDE DEF p, s
  <2>4. p \in Byteswap(x) <=> s \in x
    BY <2>1, <2>2, <2>3
  <2> QED
    BY <2>4 DEF p, s
<1> QED
  BY <1>4, <1>5

LEMMA SwappedWord ==
  ASSUME NEW x
  PROVE  Byteswap(x) \in SUBSET (0 .. 31)
  BY DEF Byteswap, EvenBytes, OddBytes, Positions

(* And of the eight bytes of a length.                                     *)
LEMMA SwappedLength ==
  ASSUME NEW x \in SUBSET (0 .. 63), NEW q \in 0 .. 7, NEW r \in 0 .. 7
  PROVE  8 * q + r \in Byteswap64(x) <=> 8 * (7 - q) + r \in x
<1> DEFINE low  == x \cap Positions(32)
           high == {b - 32 : b \in x \ Positions(32)}
           p == 8 * q + r
           s == 8 * (7 - q) + r
<1>1. low \in SUBSET (0 .. 31) /\ high \in SUBSET (0 .. 31)
  BY DEF Positions
<1>2. p \in Byteswap64(x) <=> (\E b \in Byteswap(low) : p = b + 32) \/ p \in Byteswap(high)
  BY DEF Byteswap64
<1>3. Byteswap(low) \in SUBSET (0 .. 31) /\ Byteswap(high) \in SUBSET (0 .. 31)
  BY SwappedWord
<1>4. CASE q \in 0 .. 3
  <2>1. p \in 0 .. 31
    BY <1>4
  <2>2. p \in Byteswap(high) <=> 8 * (3 - q) + r \in high
    <3> HIDE DEF high
    <3> QED
      BY <1>1, <1>4, SwappedByte
  <2>3. 8 * (3 - q) + r \in high <=> s \in x
    <3> DEFINE t == 8 * (3 - q) + r
    <3>1. t \in 0 .. 31 /\ s = t + 32
      BY <1>4
    <3> HIDE DEF t, s
    <3>2. t \in high <=> \E b \in x : b > 31 /\ t = b - 32
      BY DEF Positions
    <3>3. t \in high <=> s \in x
      BY <3>1, <3>2
    <3> QED
      BY <3>3 DEF t
  <2> HIDE DEF p, s, low, high
  <2>4. p \in Byteswap64(x) <=> s \in x
    <3>1. \A b \in 0 .. 31 : p # b + 32
      BY <2>1
    <3>2. ~ \E b \in Byteswap(low) : p = b + 32
      BY <1>3, <3>1
    <3> QED
      BY <1>2, <2>2, <2>3, <3>2 DEF p
  <2> QED
    BY <2>4 DEF p, s
<1>5. CASE q \notin 0 .. 3
  <2>1. q - 4 \in 0 .. 3 /\ p = (8 * (q - 4) + r) + 32 /\ s = 8 * (3 - (q - 4)) + r /\ s \in 0 .. 31
        /\ p \notin 0 .. 31 /\ 8 * (q - 4) + r \in 0 .. 31
    BY <1>5
  <2>2. 8 * (q - 4) + r \in Byteswap(low) <=> 8 * (3 - (q - 4)) + r \in low
    <3> HIDE DEF low
    <3> QED
      BY <1>1, <2>1, SwappedByte
  <2>3. s \in low <=> s \in x
    BY <2>1 DEF Positions
  <2> DEFINE t == 8 * (q - 4) + r
  <2>4. \A b \in 0 .. 31 : p = b + 32 <=> b = t
    BY <2>1
  <2> HIDE DEF p, s, low, high, t
  <2>5. p \in Byteswap64(x) <=> t \in Byteswap(low)
    <3>1. p \notin Byteswap(high)
      BY <1>3, <2>1
    <3>2. (\E b \in Byteswap(low) : p = b + 32) <=> t \in Byteswap(low)
      BY <1>3, <2>4
    <3> QED
      BY <1>2, <3>1, <3>2
  <2>6. p \in Byteswap64(x) <=> s \in x
    BY <2>1, <2>2, <2>3, <2>5 DEF t
  <2> QED
    BY <2>6 DEF p, s
<1> QED
  BY <1>4, <1>5

(* SHA1Final puts the length behind the message, the low byte last.        *)
IsLength(pad, rest, total) ==
  /\ rest \in [0 .. LengthBytes -> Nat] /\ rest[0] = total
  /\ \A n \in 1 .. LengthBytes : rest[n] = rest[n - 1] \div 256
  /\ pad \in Seq(Byte) /\ Len(pad) = LengthBytes
  /\ \A k \in 1 .. LengthBytes : pad[k] = rest[LengthBytes - k] % 256

HasLength(pad, total) == \E rest : IsLength(pad, rest, total)

LEMMA LengthPadIs ==
  ASSUME NEW total \in Nat
  PROVE  HasLength(LengthPad(total), total)
<1> DEFINE x == Bits(total, 64)
           y == Byteswap64(x)
           bytes == Stored(y, 8)
           m == 9 - LengthBytes
           pad == SubSeq(bytes, m, 8)
<1>1. LengthBytes \in 1 .. 8 /\ m \in 1 .. 8 /\ 8 - m + 1 = LengthBytes
  BY Sha1Assumption
<1>2. PICK h : IsHalved(h, total) /\ x = {b \in 0 .. 63 : h[b] % 2 = 1}
  BY BitsAre
<1>3. x \in SUBSET (0 .. 63)
  BY <1>2
<1> HIDE DEF x
<1>4. ASSUME NEW q \in 0 .. 7
      PROVE  ByteOf(y, 8 * q) = h[8 * (7 - q)] % 256
  <2> DEFINE low == 8 * (7 - q)
             S == {c \in 0 .. 7 : h[low + c] % 2 = 1}
  <2>1. \A c \in 0 .. 7 : 8 * q + c \in y <=> low + c \in x
    BY <1>3, SwappedLength
  <2>2. \A c \in 0 .. 7 : low + c \in x <=> h[low + c] % 2 = 1
    BY <1>2
  <2> HIDE DEF y
  <2>3. {b - 8 * q : b \in y \cap (8 * q .. 8 * q + 7)} = {c \in 0 .. 7 : 8 * q + c \in y}
    OBVIOUS
  <2>4. {c \in 0 .. 7 : 8 * q + c \in y} = S
    BY <2>1, <2>2
  <2>5. low \in 0 .. 56
    OBVIOUS
  <2>6. ByteOf(y, 8 * q) = Value(S)
    <3> HIDE DEF S
    <3> QED
      BY <2>3, <2>4 DEF ByteOf
  <2> HIDE DEF low
  <2>7. Value(S) = h[low] % 256
    <3>1. HalvedByte(h, low)
      BY <1>2, <2>5, ByteOfHalved
    <3> QED
      BY <3>1 DEF HalvedByte
  <2> QED
    BY <2>6, <2>7 DEF low
<1> HIDE DEF y
<1>5. bytes = [k \in 1 .. 8 |-> ByteOf(y, 8 * (k - 1))]
  BY DEF Stored
<1>6. ASSUME NEW k \in 1 .. 8 PROVE bytes[k] = h[8 * (8 - k)] % 256 /\ bytes[k] \in Byte
  <2>1. k - 1 \in 0 .. 7 /\ 7 - (k - 1) = 8 - k /\ 8 * (8 - k) \in 0 .. 64
    OBVIOUS
  <2>2. bytes[k] = h[8 * (8 - k)] % 256
    BY <1>4, <1>5, <2>1
  <2>3. h[8 * (8 - k)] \in Nat
    BY <1>2, <2>1 DEF IsHalved
  <2> DEFINE z == h[8 * (8 - k)]
  <2> HIDE DEF z
  <2>4. z \in Nat => z % 256 \in Byte
    BY DEF Byte
  <2> QED
    BY <2>2, <2>3, <2>4 DEF z
<1>7. bytes \in [1 .. 8 -> Byte]
  <2>1. \A k \in 1 .. 8 : ByteOf(y, 8 * (k - 1)) \in Byte
    BY <1>5, <1>6
  <2> QED
    BY <1>5, <2>1
<1> HIDE DEF bytes
<1>8. bytes \in Seq(Byte) /\ Len(bytes) = 8
  BY <1>7, FunctionIsSeq
<1>9. /\ pad \in Seq(Byte) /\ Len(pad) = LengthBytes
      /\ \A k \in 1 .. LengthBytes : pad[k] = bytes[8 - LengthBytes + k]
  <2>1. \A i \in m .. 8 : bytes[i] \in Byte
    BY <1>1, <1>6
  <2> HIDE DEF m
  <2>2. /\ SubSeq(bytes, m, 8) \in Seq(Byte) /\ Len(SubSeq(bytes, m, 8)) = IF m <= 8 THEN 8 - m + 1 ELSE 0
        /\ \A i \in 1 .. 8 - m + 1 : SubSeq(bytes, m, 8)[i] = bytes[m + i - 1]
    BY <1>1, <2>1, SubSeqProperties
  <2>3. \A k \in 1 .. LengthBytes : m + k - 1 = 8 - LengthBytes + k
    BY <1>1 DEF m
  <2> QED
    BY <1>1, <2>2, <2>3
<1> DEFINE rest == [n \in 0 .. LengthBytes |-> h[8 * n]]
<1>10. \A n \in 0 .. LengthBytes : 8 * n \in 0 .. 64
  BY <1>1
<1>11. /\ rest \in [0 .. LengthBytes -> Nat] /\ rest[0] = total
       /\ \A n \in 1 .. LengthBytes : rest[n] = rest[n - 1] \div 256
  <2>1. rest \in [0 .. LengthBytes -> Nat] /\ rest[0] = total
    <3>1. \A n \in 0 .. LengthBytes : h[8 * n] \in Nat
      BY <1>2, <1>10 DEF IsHalved
    <3>2. 0 \in 0 .. LengthBytes /\ 8 * 0 = 0 /\ h[0] = total
      BY <1>1, <1>2 DEF IsHalved
    <3> QED
      BY <3>1, <3>2
  <2>2. ASSUME NEW n \in 1 .. LengthBytes PROVE rest[n] = rest[n - 1] \div 256
    <3> DEFINE low == 8 * (n - 1)
    <3>1. low \in 0 .. 56 /\ low + 8 = 8 * n /\ n \in 0 .. LengthBytes /\ n - 1 \in 0 .. LengthBytes
      BY <1>1
    <3> HIDE DEF low
    <3>2. h[low + 8] = h[low] \div 256
      <4>1. HalvedByte(h, low)
        BY <1>2, <3>1, ByteOfHalved
      <4> QED
        BY <4>1 DEF HalvedByte
    <3>3. rest[n] = h[8 * n] /\ rest[n - 1] = h[low]
      BY <3>1 DEF low
    <3> HIDE DEF rest
    <3> QED
      BY <3>1, <3>2, <3>3
  <2> QED
    BY <2>1, <2>2
<1>12. \A k \in 1 .. LengthBytes : pad[k] = rest[LengthBytes - k] % 256
  <2>1. SUFFICES ASSUME NEW k \in 1 .. LengthBytes PROVE pad[k] = rest[LengthBytes - k] % 256
    OBVIOUS
  <2> DEFINE j == 8 - LengthBytes + k
  <2>2. j \in 1 .. 8 /\ 8 - j = LengthBytes - k /\ LengthBytes - k \in 0 .. LengthBytes
    BY <1>1
  <2>3. pad[k] = bytes[j]
    BY <1>9
  <2> HIDE DEF j, pad
  <2>4. bytes[j] = h[8 * (8 - j)] % 256
    BY <1>6, <2>2
  <2>5. rest[LengthBytes - k] = h[8 * (LengthBytes - k)]
    BY <2>2
  <2> QED
    BY <2>2, <2>3, <2>4, <2>5
<1>13. LengthPad(total) = pad
  BY DEF LengthPad, pad, bytes, y, x, m
<1> HIDE DEF pad, rest
<1>14. IsLength(pad, rest, total)
  BY <1>9, <1>11, <1>12 DEF IsLength
<1> QED
  BY <1>13, <1>14 DEF HasLength

----------------------------------------------------------------------------
(***************************************************************************)
(* The padding of a message.                                               *)
(***************************************************************************)

(* A text of which nothing is left in the buffer, and the message in it.   *)
IsPadded(str, text) ==
  /\ text \in Seq(Byte)
  /\ Len(text) > Len(str) + LengthBytes
  /\ Len(text) <= (Len(str) + BlockBytes) + LengthBytes
  /\ \A i \in 1 .. Len(str) : text[i] = str[i]
  /\ text[Len(str) + 1] = 128
  /\ \A i \in Len(str) + 2 .. Len(text) - LengthBytes : text[i] = 0
  /\ \A k \in 1 .. LengthBytes :
       text[(Len(text) - LengthBytes) + k] = LengthPad(8 * Len(str))[k]

(* Nothing is left over of a whole number of blocks.                       *)
LEMMA NothingLeft ==
  ASSUME NEW q \in Nat, NEW m \in Nat, NEW l \in Nat, l < BlockBytes,
         m * BlockBytes + l = q * BlockBytes
  PROVE  l = 0
<1>1. CASE q = m
  <2> DEFINE y == m * BlockBytes
  <2>1. y \in Nat /\ y + l = y
    BY <1>1, Multiples, Sizes
  <2> HIDE DEF y
  <2> QED
    BY <2>1
<1>2. CASE m < q
  <2>1. (m + 1) * BlockBytes <= q * BlockBytes /\ (m + 1) * BlockBytes = m * BlockBytes + BlockBytes
        /\ m * BlockBytes \in Nat
    BY <1>2, Multiples, Sizes
  <2> DEFINE y == m * BlockBytes
             z == q * BlockBytes
  <2>2. y \in Nat /\ y + BlockBytes <= z /\ y + l = z
    BY <2>1
  <2> HIDE DEF y, z
  <2> QED
    BY <2>2, Sizes
<1>3. CASE q < m
  <2>1. (q + 1) * BlockBytes <= m * BlockBytes /\ (q + 1) * BlockBytes = q * BlockBytes + BlockBytes
        /\ q * BlockBytes \in Nat /\ m * BlockBytes \in Nat
    BY <1>3, Multiples, Sizes
  <2> DEFINE y == m * BlockBytes
             z == q * BlockBytes
  <2>2. y \in Nat /\ z \in Nat /\ z + BlockBytes <= y /\ y + l = z
    BY <2>1
  <2> HIDE DEF y, z
  <2> QED
    BY <2>2, Sizes
<1> QED
  BY <1>1, <1>2, <1>3

(* There is padding for a whole number of blocks, and enough of it.        *)
LEMMA PadIs ==
  ASSUME NEW l \in Nat, l < BlockBytes
  PROVE  /\ BytesToPad(l) \in 1 .. BlockBytes
         /\ \/ l + BytesToPad(l) + LengthBytes = BlockBytes
            \/ l + BytesToPad(l) + LengthBytes = 2 * BlockBytes
  BY Sizes DEF BytesToPad

IsPadding(pad, p, T) ==
  /\ pad \in Seq(T) /\ Len(pad) = p /\ pad[1] = 128
  /\ \A i \in 2 .. p : pad[i] = 0

LEMMA PaddingIs ==
  ASSUME NEW p \in 1 .. BlockBytes, NEW T, Byte \subseteq T
  PROVE  IsPadding(SubSeq(Padding, 1, p), p, T)
<1>1. Padding \in [1 .. BlockBytes -> T] /\ BlockBytes \in Nat /\ p \in Nat
  BY Sizes DEF Padding, Byte
<1>2. Padding \in Seq(T) /\ Len(Padding) = BlockBytes
  BY <1>1, FunctionIsSeq
<1>3. /\ SubSeq(Padding, 1, p) \in Seq(T) /\ Len(SubSeq(Padding, 1, p)) = p
      /\ \A i \in 1 .. p : SubSeq(Padding, 1, p)[i] = Padding[i]
  <2>1. p \in 0 .. Len(Padding)
    BY <1>1, <1>2
  <2> QED
    BY <1>2, <2>1, FrontAndRest
<1>4. Padding[1] = 128 /\ \A i \in 2 .. p : Padding[i] = 0
  BY <1>1 DEF Padding
<1> QED
  BY <1>1, <1>3, <1>4 DEF IsPadding

IsHashed(str) ==
  /\ ShaHash(str) \in Seq(Seq(Byte))
  /\ \E text : IsPadded(str, text) /\ Cut(ShaHash(str), <<>>, text)

(* shahash is of the message padded to whole blocks.                       *)
LEMMA ShaHashPads ==
  ASSUME NEW str \in Seq(Byte)
  PROVE  IsHashed(str)
<1> DEFINE n1 == 0 + 8 * Len(str)
           lp == LengthPad(n1)
           T == Byte
<1>1. Len(str) \in Nat /\ n1 \in Nat /\ n1 = 8 * Len(str)
  BY LenProperties
<1> HIDE DEF n1
<1>2. lp \in Seq(Byte) /\ Len(lp) = LengthBytes
  <2>1. HasLength(lp, n1)
    BY <1>1, LengthPadIs
  <2> HIDE DEF lp
  <2> QED
    BY <2>1 DEF HasLength, IsLength
<1> HIDE DEF lp
<1>3. str \in Seq(T) /\ lp \in Seq(T) /\ Byte \subseteq T
  BY <1>2
<1> HIDE DEF T
<1>4. PICK cs \in Seq(Seq(T)), cf \in Seq(T) :
        /\ SHA1Update(Context(0, <<>>, <<>>), str) = Context(n1, cs, cf)
        /\ Len(cf) < BlockBytes
        /\ Cut(cs, cf, str)
  <2>1. <<>> \in Seq(Seq(T)) /\ <<>> \in Seq(T) /\ Len(<<>>) = 0 /\ Len(<<>>) < BlockBytes
    BY EmptySeq, Sizes
  <2>2. Cut(<<>>, <<>>, <<>>)
    BY <2>1, Sizes DEF Cut
  <2>3. Updates(T, 0, <<>>, <<>>, str, <<>>)
    BY <1>3, <2>1, <2>2, UpdateCuts
  <2>4. <<>> \o str = str
    BY ConcatEmptySeq
  <2> QED
    BY <2>3, <2>4 DEF Updates, n1
<1> DEFINE p == BytesToPad(Len(cf))
           pad == SubSeq(Padding, 1, p)
           n2 == n1 + 8 * Len(pad)
           u == str \o pad
           text == u \o lp
<1>5. /\ Len(cf) \in Nat /\ p \in 1 .. BlockBytes
      /\ \/ Len(cf) + p + LengthBytes = BlockBytes
         \/ Len(cf) + p + LengthBytes = 2 * BlockBytes
  BY <1>4, LenProperties, PadIs
<1> HIDE DEF p
<1>6. /\ pad \in Seq(T) /\ Len(pad) = p /\ pad[1] = 128
      /\ \A i \in 2 .. p : pad[i] = 0
  <2>1. p \in 1 .. BlockBytes /\ Byte \subseteq T
    BY <1>3, <1>5
  <2>2. IsPadding(pad, p, T)
    BY <2>1, PaddingIs
  <2> HIDE DEF pad
  <2> QED
    BY <2>2 DEF IsPadding
<1> HIDE DEF pad
<1>7. /\ u \in Seq(T) /\ Len(u) = Len(str) + p
      /\ \A i \in 1 .. Len(str) + p : u[i] = IF i <= Len(str) THEN str[i] ELSE pad[i - Len(str)]
  <2>1. /\ u \in Seq(T) /\ Len(u) = Len(str) + Len(pad)
        /\ \A i \in 1 .. Len(str) + Len(pad) : u[i] = IF i <= Len(str) THEN str[i] ELSE pad[i - Len(str)]
    <3>1. str \in Seq(T) /\ pad \in Seq(T)
      BY <1>3, <1>6
    <3> QED
      BY <3>1, ConcatProperties
  <2> QED
    BY <1>6, <2>1
<1>8. n2 \in Nat
  BY <1>1, <1>5, <1>6
<1>9. PICK ds \in Seq(Seq(T)), df \in Seq(T) :
        /\ SHA1Update(Context(n1, cs, cf), pad) = Context(n2, ds, df)
        /\ Len(df) < BlockBytes
        /\ Cut(ds, df, u)
  <2>1. Updates(T, n1, cs, cf, pad, str)
    BY <1>3, <1>1, <1>4, <1>6, UpdateCuts
  <2> QED
    BY <2>1 DEF Updates
<1> HIDE DEF n2, u
<1>10. PICK es \in Seq(Seq(T)), ef \in Seq(T) :
         /\ SHA1Update(Context(n2, ds, df), lp) = Context(n2 + 8 * Len(lp), es, ef)
         /\ Len(ef) < BlockBytes
         /\ Cut(es, ef, text)
  <2>1. Updates(T, n2, ds, df, lp, u)
    BY <1>3, <1>7, <1>8, <1>9, UpdateCuts
  <2> QED
    BY <2>1 DEF Updates
<1>11. /\ text \in Seq(T) /\ Len(text) = (Len(str) + p) + LengthBytes
       /\ \A i \in 1 .. Len(str) + p : text[i] = u[i]
       /\ \A k \in 1 .. LengthBytes : text[(Len(str) + p) + k] = lp[k]
  <2>1. u \in Seq(T) /\ lp \in Seq(T) /\ Len(u) = Len(str) + p /\ Len(lp) = LengthBytes
    BY <1>2, <1>3, <1>7
  <2>2. /\ text \in Seq(T) /\ Len(text) = Len(u) + Len(lp)
        /\ \A i \in 1 .. Len(u) + Len(lp) : text[i] = IF i <= Len(u) THEN u[i] ELSE lp[i - Len(u)]
    BY <2>1, ConcatProperties
  <2> HIDE DEF text
  <2>3. \A i \in 1 .. Len(str) + p : i \in 1 .. (Len(str) + p) + LengthBytes /\ i <= Len(str) + p
    BY <1>1, <1>5, Sizes
  <2>4. ASSUME NEW k \in 1 .. LengthBytes PROVE text[(Len(str) + p) + k] = lp[k]
    <3> DEFINE i == (Len(str) + p) + k
    <3>1. i \in 1 .. (Len(str) + p) + LengthBytes /\ ~ (i <= Len(str) + p) /\ i - (Len(str) + p) = k
      BY <1>1, <1>5, Sizes
    <3> HIDE DEF i
    <3>2. text[i] = lp[i - (Len(str) + p)]
      BY <2>1, <2>2, <3>1
    <3> QED
      BY <3>1, <3>2 DEF i
  <2> QED
    BY <2>1, <2>2, <2>3, <2>4
<1> HIDE DEF text
<1>12. ef = <<>>
  <2>1. Len(ef) \in Nat /\ Len(es) \in Nat /\ Len(cs) \in Nat /\ Len(ef) < BlockBytes
    BY <1>10, LenProperties
  <2>2. Len(text) = Len(es) * BlockBytes + Len(ef) /\ Len(str) = Len(cs) * BlockBytes + Len(cf)
    BY <1>4, <1>10 DEF Cut
  <2> DEFINE x == Len(cs) * BlockBytes
             y == Len(es) * BlockBytes
  <2>3. x \in Nat /\ y \in Nat /\ (Len(cs) + 1) * BlockBytes = x + BlockBytes
        /\ (Len(cs) + 2) * BlockBytes = x + 2 * BlockBytes
    <3>1. ((Len(cs) + 1) + 1) * BlockBytes = (Len(cs) + 1) * BlockBytes + BlockBytes
      BY <2>1, Multiples, Sizes
    <3>2. x \in Nat /\ y \in Nat /\ (Len(cs) + 1) * BlockBytes = x + BlockBytes
      BY <2>1, Multiples, Sizes
    <3>3. (Len(cs) + 1) + 1 = Len(cs) + 2
      BY <2>1
    <3> HIDE DEF x
    <3>4. (x + BlockBytes) + BlockBytes = x + 2 * BlockBytes
      BY <3>2, Sizes
    <3> QED
      BY <3>1, <3>2, <3>3, <3>4
  <2>4. Len(text) = x + BlockBytes \/ Len(text) = x + 2 * BlockBytes
    <3>1. Len(str) = x + Len(cf)
      BY <2>2
    <3>2. Len(text) = ((x + Len(cf)) + p) + LengthBytes
      BY <1>11, <3>1
    <3> HIDE DEF x, y
    <3>3. CASE Len(cf) + p + LengthBytes = BlockBytes
      <4>1. Len(text) = x + (Len(cf) + p + LengthBytes)
        BY <1>5, <2>3, <3>2, Sizes
      <4> QED
        BY <3>3, <4>1
    <3>4. CASE Len(cf) + p + LengthBytes = 2 * BlockBytes
      <4>1. Len(text) = x + (Len(cf) + p + LengthBytes)
        BY <1>5, <2>3, <3>2, Sizes
      <4> QED
        BY <3>4, <4>1
    <3> QED
      BY <1>5, <3>3, <3>4
  <2>5. Len(ef) = 0
    <3>1. CASE Len(text) = x + BlockBytes
      <4>1. Len(es) * BlockBytes + Len(ef) = (Len(cs) + 1) * BlockBytes
        BY <2>2, <2>3, <3>1
      <4> QED
        BY <2>1, <4>1, NothingLeft
    <3>2. CASE Len(text) = x + 2 * BlockBytes
      <4>1. Len(es) * BlockBytes + Len(ef) = (Len(cs) + 2) * BlockBytes
        BY <2>2, <2>3, <3>2
      <4> QED
        BY <2>1, <4>1, NothingLeft
    <3> QED
      BY <2>4, <3>1, <3>2
  <2> QED
    BY <2>5, EmptySeq
<1>13. IsPadded(str, text)
  <2>1. text \in Seq(Byte)
    BY <1>11 DEF T
  <2>2. Len(text) > Len(str) + LengthBytes /\ Len(text) <= (Len(str) + BlockBytes) + LengthBytes
    BY <1>1, <1>5, <1>11, Sizes
  <2>3. \A i \in 1 .. Len(str) : text[i] = str[i]
    <3>1. \A i \in 1 .. Len(str) : i \in 1 .. Len(str) + p /\ i <= Len(str)
      BY <1>1, <1>5
    <3> QED
      BY <1>7, <1>11, <3>1
  <2>4. text[Len(str) + 1] = 128
    <3> DEFINE i == Len(str) + 1
    <3>1. i \in 1 .. Len(str) + p /\ ~ (i <= Len(str)) /\ i - Len(str) = 1
      BY <1>1, <1>5
    <3> HIDE DEF i
    <3>2. text[i] = u[i] /\ u[i] = pad[i - Len(str)]
      BY <1>7, <1>11, <3>1
    <3>3. text[i] = 128
      BY <1>6, <3>1, <3>2
    <3> QED
      BY <3>3 DEF i
  <2>5. \A i \in Len(str) + 2 .. Len(text) - LengthBytes : text[i] = 0
    <3>1. SUFFICES ASSUME NEW i \in Len(str) + 2 .. Len(text) - LengthBytes PROVE text[i] = 0
      OBVIOUS
    <3>2. i \in 1 .. Len(str) + p /\ ~ (i <= Len(str)) /\ i - Len(str) \in 2 .. p
      BY <1>1, <1>5, <1>11, Sizes
    <3>3. text[i] = u[i] /\ u[i] = pad[i - Len(str)]
      BY <1>7, <1>11, <3>2
    <3> QED
      BY <1>6, <3>2, <3>3
  <2>6. \A k \in 1 .. LengthBytes :
          text[(Len(text) - LengthBytes) + k] = LengthPad(8 * Len(str))[k]
    <3>1. Len(text) - LengthBytes = Len(str) + p
      BY <1>1, <1>5, <1>11, Sizes
    <3>2. lp = LengthPad(8 * Len(str))
      BY <1>1 DEF lp
    <3> QED
      BY <1>11, <3>1, <3>2
  <2> QED
    BY <2>1, <2>2, <2>3, <2>4, <2>5, <2>6 DEF IsPadded
<1>14. ShaHash(str) = es
  <2> DEFINE c1 == Context(n1, cs, cf)
             c2 == Context(n2, ds, df)
             c3 == Context(n2 + 8 * Len(lp), es, ef)
  <2>1. SHA1Init = Context(0, <<>>, <<>>)
    BY DEF SHA1Init, Context
  <2>2. c1.totalLength = n1 /\ c1.buffer = cf /\ c3.blocks = es
    BY ContextFields
  <2>3. /\ SHA1Update(SHA1Init, str) = c1
        /\ SHA1Update(c1, pad) = c2
        /\ SHA1Update(c2, lp) = c3
    BY <1>4, <1>9, <1>10, <2>1
  <2> HIDE DEF c1, c2, c3
  <2>4. SHA1Final(c1) = c3
    BY <2>2, <2>3, Zenon DEF SHA1Final, pad, p, lp
  <2> QED
    BY <2>2, <2>3, <2>4, Zenon DEF ShaHash
<1> QED
  BY <1>10, <1>12, <1>13, <1>14 DEF IsHashed, T

LEMMA NotShorter ==
  ASSUME NEW a, NEW b, NEW s, NEW t, IsPadded(a, s), IsPadded(b, t),
         Len(a) \in Nat, Len(b) \in Nat, Len(s) \in Nat, Len(t) = Len(s),
         \A i \in 1 .. Len(s) : s[i] = t[i]
  PROVE  ~ (Len(a) < Len(b))
<1>1. SUFFICES ASSUME Len(a) < Len(b) PROVE FALSE
  OBVIOUS
<1> DEFINE i == Len(b) + 1
<1>2. /\ Len(t) > Len(b) + LengthBytes
      /\ t[i] = 128
      /\ \A j \in Len(a) + 2 .. Len(s) - LengthBytes : s[j] = 0
  BY DEF IsPadded
<1>3. i \in Len(a) + 2 .. Len(s) - LengthBytes /\ i \in 1 .. Len(s)
  BY <1>1, <1>2, Sizes
<1> HIDE DEF i
<1>4. s[i] = 0 /\ s[i] = t[i]
  BY <1>2, <1>3
<1> QED
  BY <1>2, <1>4

(* No two messages are hashed from the same blocks.                        *)
LEMMA NoCollisions ==
  ASSUME NEW a \in Seq(Byte), NEW b \in Seq(Byte), ShaHash(a) = ShaHash(b)
  PROVE  a = b
<1>1. PICK s : IsPadded(a, s) /\ Cut(ShaHash(a), <<>>, s)
  BY ShaHashPads DEF IsHashed
<1>2. PICK t : IsPadded(b, t) /\ Cut(ShaHash(b), <<>>, t)
  BY ShaHashPads DEF IsHashed
<1>3. Len(a) \in Nat /\ Len(b) \in Nat /\ Len(s) \in Nat /\ Len(t) \in Nat /\ Len(ShaHash(a)) \in Nat
  <2>1. Len(s) \in Nat /\ Len(t) \in Nat
    BY <1>1, <1>2, LenProperties DEF IsPadded
  <2> QED
    BY <2>1, LenProperties, ShaHashPads DEF IsHashed
<1> DEFINE bs == ShaHash(a)
           z == Len(bs) * BlockBytes
<1>4. /\ Len(s) = z /\ Len(t) = z
      /\ \A x \in 1 .. Len(bs) : \A j \in 1 .. BlockBytes :
           s[(x - 1) * BlockBytes + j] = bs[x][j] /\ t[(x - 1) * BlockBytes + j] = bs[x][j]
  <2>1. Cut(bs, <<>>, s) /\ Cut(bs, <<>>, t) /\ Len(<<>>) = 0
    BY <1>1, <1>2
  <2> HIDE DEF bs
  <2>2. Len(s) = z + 0 /\ Len(t) = z + 0
    BY <2>1 DEF Cut
  <2>3. z \in Nat
    BY <1>3, Multiples, Sizes
  <2> HIDE DEF z
  <2>4. Len(s) = z /\ Len(t) = z
    BY <2>2, <2>3
  <2> QED
    BY <2>1, <2>4 DEF Cut
<1>5. ASSUME NEW i \in 1 .. z PROVE s[i] = t[i]
  <2>1. Len(bs) \in Nat
    BY <1>3
  <2> DEFINE IsAt(n, size, y) == \E x \in 1 .. n, j \in 1 .. size : y = (x - 1) * size + j
  <2>2. ASSUME NEW n \in Nat, NEW size \in Nat \ {0}, NEW y \in 1 .. n * size
        PROVE  IsAt(n, size, y)
    BY Position
  <2> HIDE DEF bs, IsAt
  <2>3. BlockBytes \in Nat \ {0} /\ i \in 1 .. Len(bs) * BlockBytes
    BY Sizes
  <2>4. IsAt(Len(bs), BlockBytes, i)
    BY <2>1, <2>2, <2>3
  <2>5. PICK x \in 1 .. Len(bs), j \in 1 .. BlockBytes : i = (x - 1) * BlockBytes + j
    BY <2>4 DEF IsAt
  <2> QED
    BY <1>4, <2>5
<1> HIDE DEF z
<1>6. Len(s) = Len(t) /\ \A i \in 1 .. Len(s) : s[i] = t[i]
  BY <1>4, <1>5
<1>7. Len(a) = Len(b)
  <2>1. ~ (Len(a) < Len(b))
    BY <1>1, <1>2, <1>3, <1>6, NotShorter
  <2>2. ~ (Len(b) < Len(a))
    BY <1>1, <1>2, <1>3, <1>6, NotShorter
  <2> QED
    BY <1>3, <2>1, <2>2
<1>8. \A i \in 1 .. Len(a) : a[i] = b[i]
  <2>1. /\ Len(s) > Len(a) + LengthBytes
        /\ \A i \in 1 .. Len(a) : s[i] = a[i]
        /\ \A i \in 1 .. Len(b) : t[i] = b[i]
    BY <1>1, <1>2 DEF IsPadded
  <2>2. \A i \in 1 .. Len(a) : i \in 1 .. Len(s) /\ i \in 1 .. Len(b)
    BY <1>3, <1>7, <2>1, Sizes
  <2> QED
    BY <1>6, <2>1, <2>2
<1> QED
  BY <1>7, <1>8, SeqEqual

----------------------------------------------------------------------------
(***************************************************************************)
(* The standard's padding is the code's.                                   *)
(***************************************************************************)

LEMMA WholeBlocks ==
  ASSUME NEW m \in Nat, NEW d \in Nat \ {0}
  PROVE  m % d = 0 <=> m = (m \div d) * d
  OBVIOUS

LEMMA BlocksOf ==
  ASSUME NEW n \in Nat
  PROVE  (n * BlockBytes) \div BlockBytes = n /\ (n * BlockBytes) % BlockBytes = 0
<1> DEFINE m == n * BlockBytes
           q == m \div BlockBytes
<1>1. m \in Nat
  BY Multiples, Sizes
<1> HIDE DEF m
<1>2. q \in Nat /\ q * BlockBytes <= m /\ m < q * BlockBytes + BlockBytes
  BY <1>1, Quotient, Sizes
<1> HIDE DEF q
<1>3. q * BlockBytes \in Nat
  BY <1>2, Multiples, Sizes
<1> DEFINE l == m - q * BlockBytes
<1>4. l \in Nat /\ l < BlockBytes /\ q * BlockBytes + l = n * BlockBytes
  <2> DEFINE y == q * BlockBytes
  <2>1. y \in Nat /\ y <= m /\ m < y + BlockBytes
    BY <1>2, <1>3
  <2> HIDE DEF y
  <2>2. m - y \in Nat /\ m - y < BlockBytes /\ y + (m - y) = m
    BY <1>1, <2>1, Sizes
  <2> QED
    BY <2>2 DEF y, m
<1> HIDE DEF l
<1>5. l = 0
  BY <1>2, <1>4, NothingLeft
<1>6. q * BlockBytes = n * BlockBytes
  BY <1>3, <1>4, <1>5
<1>7. q = n
  <2>1. ASSUME NEW a \in Nat, NEW b \in Nat, a < b PROVE a * BlockBytes < b * BlockBytes
    <3>1. (a + 1) * BlockBytes <= b * BlockBytes /\ (a + 1) * BlockBytes = a * BlockBytes + BlockBytes
          /\ a * BlockBytes \in Nat /\ b * BlockBytes \in Nat
      BY <2>1, Multiples, Sizes
    <3> DEFINE x == a * BlockBytes
               y == b * BlockBytes
    <3>2. x \in Nat /\ y \in Nat /\ x + BlockBytes <= y
      BY <3>1
    <3> HIDE DEF x, y
    <3>3. x < y
      BY <3>2, Sizes
    <3> QED
      BY <3>3 DEF x, y
  <2>2. ~ (q < n) /\ ~ (n < q)
    BY <1>2, <1>3, <1>6, <2>1
  <2> QED
    BY <1>2, <2>2
<1>8. m \div BlockBytes = n
  BY <1>7 DEF q
<1>9. m % BlockBytes = 0
  <2>1. m = (m \div BlockBytes) * BlockBytes
    BY <1>8 DEF m
  <2> QED
    BY <1>1, <2>1, WholeBlocks, Sizes
<1> QED
  BY <1>8, <1>9 DEF m

(* There is only one number of zeros.                                      *)
LEMMA ZerosAre ==
  ASSUME NEW n \in Nat, NEW z \in 0 .. BlockBytes - 1, NEW y \in 0 .. BlockBytes - 1,
         (n + z) % BlockBytes = 0, (n + y) % BlockBytes = 0
  PROVE  ~ (y < z)
<1>1. SUFFICES ASSUME y < z PROVE FALSE
  OBVIOUS
<1> DEFINE q == (n + z) \div BlockBytes
           m == (n + y) \div BlockBytes
           l == z - y
<1>2. n + z \in Nat /\ n + y \in Nat /\ l \in Nat /\ l < BlockBytes /\ l # 0 /\ (n + y) + l = n + z
  BY <1>1, Sizes
<1>3. q \in Nat /\ n + z = q * BlockBytes
  BY <1>2, WholeBlocks, Quotient, Sizes
<1>4. m \in Nat /\ n + y = m * BlockBytes
  BY <1>2, WholeBlocks, Quotient, Sizes
<1> HIDE DEF q, m, l
<1>5. m * BlockBytes + l = q * BlockBytes
  BY <1>2, <1>3, <1>4
<1> QED
  BY <1>2, <1>3, <1>4, <1>5, NothingLeft

IsConcat(u, t, q) ==
  /\ Len(u) = Len(t) + Len(q)
  /\ \A i \in 1 .. Len(t) + Len(q) : u[i] = IF i <= Len(t) THEN t[i] ELSE q[i - Len(t)]

LEMMA ConcatIs ==
  ASSUME NEW T, NEW t \in Seq(T), NEW q \in Seq(T)
  PROVE  IsConcat(t \o q, t, q)
  BY ConcatProperties DEF IsConcat

(* The whole of a message with its padding.                                *)
PaddedOut(str, z, field) == ((str \o <<128>>) \o Zeros(z)) \o field

IsPaddedOut(str, z, field, text) ==
  /\ Len(text) = ((Len(str) + 1) + z) + Len(field)
  /\ \A i \in 1 .. Len(str) : text[i] = str[i]
  /\ text[Len(str) + 1] = 128
  /\ \A i \in Len(str) + 2 .. (Len(str) + 1) + z : text[i] = 0
  /\ \A k \in 1 .. Len(field) : text[((Len(str) + 1) + z) + k] = field[k]

InBlocks(whole) ==
  [b \in 1 .. Len(whole) \div BlockBytes |->
     SubSeq(whole, (b - 1) * BlockBytes + 1, b * BlockBytes)]

LEMMA PaddedOutIs ==
  ASSUME NEW str \in Seq(Byte), NEW z \in Nat, NEW field \in Seq(Byte), NEW text \in Seq(Byte),
         IsPaddedOut(str, z, field, text)
  PROVE  PaddedOut(str, z, field) = text
<1> DEFINE one == <<128>>
           s1 == str \o one
           zeros == Zeros(z)
           s2 == s1 \o zeros
           s3 == s2 \o field
           a == Len(str)
           c == (a + 1) + z
<1>1. a \in Nat /\ Len(field) \in Nat /\ c \in Nat
  BY LenProperties
<1>2. /\ Len(text) = c + Len(field)
      /\ \A i \in 1 .. a : text[i] = str[i]
      /\ text[a + 1] = 128
      /\ \A i \in a + 2 .. c : text[i] = 0
      /\ \A k \in 1 .. Len(field) : text[c + k] = field[k]
  BY DEF IsPaddedOut
<1>3. one \in Seq(Byte) /\ Len(one) = 1 /\ one[1] = 128
  BY DEF Byte
<1>4. zeros \in Seq(Byte) /\ Len(zeros) = z /\ \A i \in 1 .. z : zeros[i] = 0
  <2>1. zeros \in [1 .. z -> Byte] /\ \A i \in 1 .. z : zeros[i] = 0
    BY DEF Zeros, Byte
  <2> HIDE DEF zeros
  <2> QED
    BY <2>1, FunctionIsSeq
<1> HIDE DEF one, zeros
<1>5. s1 \in Seq(Byte) /\ Len(s1) = a + 1 /\ \A i \in 1 .. a + 1 : s1[i] = IF i <= a THEN str[i] ELSE one[i - a]
  <2>1. s1 \in Seq(Byte) /\ IsConcat(s1, str, one)
    BY <1>3, ConcatIs, ConcatProperties
  <2> HIDE DEF s1
  <2> QED
    BY <1>1, <1>3, <2>1 DEF IsConcat
<1> HIDE DEF s1
<1>6. s2 \in Seq(Byte) /\ Len(s2) = c
      /\ \A i \in 1 .. c : s2[i] = IF i <= a + 1 THEN s1[i] ELSE zeros[i - (a + 1)]
  <2>1. /\ s2 \in Seq(Byte) /\ Len(s2) = Len(s1) + Len(zeros)
        /\ \A i \in 1 .. Len(s1) + Len(zeros) : s2[i] = IF i <= Len(s1) THEN s1[i] ELSE zeros[i - Len(s1)]
    <3>1. s2 \in Seq(Byte) /\ IsConcat(s2, s1, zeros)
      BY <1>4, <1>5, ConcatIs, ConcatProperties
    <3> HIDE DEF s2
    <3> QED
      BY <3>1 DEF IsConcat
  <2> HIDE DEF s2
  <2>2. Len(s1) + Len(zeros) = c
    BY <1>4, <1>5
  <2> HIDE DEF c
  <2> QED
    BY <1>5, <2>1, <2>2
<1> HIDE DEF s2
<1>7. s3 \in Seq(Byte) /\ Len(s3) = c + Len(field)
      /\ \A i \in 1 .. c + Len(field) : s3[i] = IF i <= c THEN s2[i] ELSE field[i - c]
  <2>1. /\ s3 \in Seq(Byte) /\ Len(s3) = Len(s2) + Len(field)
        /\ \A i \in 1 .. Len(s2) + Len(field) : s3[i] = IF i <= Len(s2) THEN s2[i] ELSE field[i - Len(s2)]
    <3>1. s2 \in Seq(Byte)
      BY <1>6
    <3> HIDE DEF c
    <3>2. s3 \in Seq(Byte) /\ IsConcat(s3, s2, field)
      BY <3>1, ConcatIs, ConcatProperties
    <3> HIDE DEF s3
    <3> QED
      BY <3>2 DEF IsConcat
  <2> HIDE DEF s3, c
  <2> QED
    BY <1>6, <2>1
<1>8. PaddedOut(str, z, field) = s3
  BY DEF PaddedOut, s3, s2, s1, one, zeros
<1> HIDE DEF s3
<1>9. ASSUME NEW i \in 1 .. Len(s3) PROVE s3[i] = text[i]
  <2>1. i \in 1 .. c + Len(field)
    BY <1>7
  <2>2. CASE i <= a
    <3>1. i \in 1 .. a /\ i \in 1 .. a + 1 /\ i \in 1 .. c /\ i <= c /\ i <= a + 1
      BY <1>1, <2>1, <2>2
    <3>2. s3[i] = s2[i] /\ s2[i] = s1[i] /\ s1[i] = str[i]
      BY <1>5, <1>6, <1>7, <2>1, <2>2, <3>1
    <3> QED
      BY <1>2, <3>1, <3>2
  <2>3. CASE i = a + 1
    <3>1. i \in 1 .. a + 1 /\ i \in 1 .. c /\ i <= c /\ i <= a + 1 /\ ~ (i <= a) /\ i - a = 1
      BY <1>1, <2>1, <2>3
    <3>2. s3[i] = s2[i] /\ s2[i] = s1[i] /\ s1[i] = one[i - a]
      BY <1>5, <1>6, <1>7, <2>1, <3>1
    <3>3. s3[i] = 128
      BY <1>3, <3>1, <3>2
    <3> QED
      BY <1>2, <2>3, <3>3
  <2>4. CASE i \in a + 2 .. c
    <3>1. i \in 1 .. c /\ i <= c /\ ~ (i <= a + 1) /\ i - (a + 1) \in 1 .. z
      BY <1>1, <2>1, <2>4
    <3>2. s3[i] = s2[i] /\ s2[i] = zeros[i - (a + 1)]
      BY <1>6, <1>7, <2>1, <3>1
    <3>3. s3[i] = 0
      BY <1>4, <3>1, <3>2
    <3> QED
      BY <1>2, <2>4, <3>3
  <2>5. CASE i > c
    <3>1. ~ (i <= c) /\ i - c \in 1 .. Len(field) /\ c + (i - c) = i
      BY <1>1, <2>1, <2>5
    <3>2. s3[i] = field[i - c]
      BY <1>7, <2>1, <3>1
    <3>3. text[c + (i - c)] = field[i - c]
      BY <1>2, <3>1
    <3> QED
      BY <3>1, <3>2, <3>3
  <2>6. i <= a \/ i = a + 1 \/ i \in a + 2 .. c \/ i > c
    BY <1>1, <2>1
  <2> QED
    BY <2>2, <2>3, <2>4, <2>5, <2>6
<1>10. Len(s3) = Len(text)
  BY <1>7, <1>2
<1>11. s3 = text
  BY <1>7, <1>9, <1>10, SeqEqual
<1> QED
  BY <1>8, <1>11

LEMMA BlocksAre ==
  ASSUME NEW bs \in Seq(Seq(Byte)), NEW text \in Seq(Byte), Cut(bs, <<>>, text)
  PROVE  InBlocks(text) = bs /\ Len(text) = Len(bs) * BlockBytes
<1> DEFINE n == Len(bs)
<1>1. n \in Nat /\ n * BlockBytes \in Nat
  BY LenProperties, Multiples, Sizes
<1>2. Len(text) = n * BlockBytes
  <2>1. Len(text) = n * BlockBytes + 0
    BY Len(<<>>) = 0 DEF Cut
  <2> DEFINE z == n * BlockBytes
  <2> HIDE DEF z
  <2>2. z \in Nat => z + 0 = z
    OBVIOUS
  <2> QED
    BY <1>1, <2>1, <2>2 DEF z
<1>3. Len(text) \div BlockBytes = n
  <2> HIDE DEF n
  <2> QED
    BY <1>1, <1>2, BlocksOf
<1>4. ASSUME NEW b \in 1 .. n
      PROVE  SubSeq(text, (b - 1) * BlockBytes + 1, b * BlockBytes) = bs[b]
  <2> DEFINE x == (b - 1) * BlockBytes
             y == b * BlockBytes
             piece == SubSeq(text, x + 1, y)
  <2>1. x \in Nat /\ y \in Nat /\ y = x + BlockBytes /\ y <= Len(text)
    <3>1. b \in Nat /\ b - 1 \in Nat /\ b <= n /\ (b - 1) + 1 = b
      BY <1>1
    <3> HIDE DEF n
    <3>2. b * BlockBytes <= n * BlockBytes /\ b * BlockBytes \in Nat
      BY <1>1, <3>1, Multiples, Sizes
    <3>3. (b - 1) * BlockBytes \in Nat /\ ((b - 1) + 1) * BlockBytes = (b - 1) * BlockBytes + BlockBytes
      BY <3>1, Multiples, Sizes
    <3> QED
      BY <1>2, <3>1, <3>2, <3>3
  <2>2. /\ bs[b] \in Seq(Byte) /\ Len(bs[b]) = BlockBytes
        /\ \A j \in 1 .. BlockBytes : text[x + j] = bs[b][j]
    <3>1. bs[b] \in Seq(Byte)
      BY ElementOfSeq
    <3> QED
      BY <3>1 DEF Cut
  <2> HIDE DEF x, y, n
  <2>3. \A i \in x + 1 .. y : text[i] \in Byte
    <3>1. \A i \in x + 1 .. y : i \in 1 .. Len(text)
      BY <2>1
    <3> QED
      BY <3>1, ElementOfSeq
  <2>4. /\ piece \in Seq(Byte)
        /\ Len(piece) = IF x + 1 <= y THEN y - (x + 1) + 1 ELSE 0
        /\ \A i \in 1 .. y - (x + 1) + 1 : piece[i] = text[x + 1 + i - 1]
    BY <2>1, <2>3, SubSeqProperties
  <2> HIDE DEF piece
  <2>5. y - (x + 1) + 1 = BlockBytes /\ x + 1 <= y
    BY <2>1, Sizes
  <2>6. Len(piece) = BlockBytes /\ \A j \in 1 .. BlockBytes : piece[j] = text[x + j]
    <3>1. \A j \in 1 .. BlockBytes : x + 1 + j - 1 = x + j
      BY <2>1, Sizes
    <3> QED
      BY <2>4, <2>5, <3>1
  <2>7. piece = bs[b]
    <3> DEFINE t == bs[b]
    <3>1. piece \in Seq(Byte) /\ t \in Seq(Byte) /\ Len(piece) = Len(t) /\ \A j \in 1 .. Len(piece) : piece[j] = t[j]
      BY <2>2, <2>4, <2>6
    <3> HIDE DEF t
    <3>2. piece = t
      BY <3>1, SeqEqual
    <3> QED
      BY <3>2 DEF t
  <2> QED
    BY <2>7 DEF piece, x, y
<1>5. bs = [b \in 1 .. n |-> bs[b]]
  BY LenProperties
<1>6. InBlocks(text) = [b \in 1 .. n |-> SubSeq(text, (b - 1) * BlockBytes + 1, b * BlockBytes)]
  BY <1>3 DEF InBlocks
<1> HIDE DEF n
<1>7. InBlocks(text) = bs
  BY <1>4, <1>5, <1>6
<1> QED
  BY <1>2, <1>7 DEF n

(* What the standard puts behind a message is what SHA1Final puts there.   *)
LEMMA StandardBlocksAre ==
  ASSUME NEW str \in Seq(Byte)
  PROVE  ShaHash(str) = StandardBlocks(str)
<1> DEFINE bs == ShaHash(str)
           total == 8 * Len(str)
           lp == LengthPad(total)
           Fits(z) == (Len(str) + 1 + z + LengthBytes) % BlockBytes = 0
           zeros == CHOOSE z \in 0 .. BlockBytes - 1 : Fits(z)
           Of(f) == [n \in 0 .. LengthBytes |-> IF n = 0 THEN total ELSE f[n - 1] \div 256]
           rest == CHOOSE f : f = Of(f)
           field == [k \in 1 .. LengthBytes |-> rest[LengthBytes - k] % 256]
<1>1. bs \in Seq(Seq(Byte)) /\ \E text : IsPadded(str, text) /\ Cut(bs, <<>>, text)
  BY ShaHashPads DEF IsHashed
<1> HIDE DEF bs
<1>2. PICK text : IsPadded(str, text) /\ Cut(bs, <<>>, text)
  BY <1>1
<1>3. text \in Seq(Byte) /\ Len(text) \in Nat /\ Len(str) \in Nat /\ Len(bs) \in Nat /\ total \in Nat
  <2>1. text \in Seq(Byte)
    BY <1>2 DEF IsPadded
  <2> QED
    BY <1>1, <2>1, LenProperties
<1>4. InBlocks(text) = bs /\ Len(text) = Len(bs) * BlockBytes
  BY <1>1, <1>2, <1>3, BlocksAre
<1> DEFINE z == ((Len(text) - LengthBytes) - Len(str)) - 1
           c == (Len(str) + 1) + z
<1>5. z \in 0 .. BlockBytes - 1 /\ c \in Nat /\ Len(text) = c + LengthBytes /\ Len(str) + 1 + z + LengthBytes = Len(text)
  <2>1. Len(text) > Len(str) + LengthBytes /\ Len(text) <= (Len(str) + BlockBytes) + LengthBytes
    BY <1>2 DEF IsPadded
  <2> QED
    BY <1>3, <2>1, Sizes
<1> HIDE DEF z
<1>6. zeros = z
  <2>1. Fits(z)
    <3>1. (Len(bs) * BlockBytes) % BlockBytes = 0
      BY <1>3, BlocksOf
    <3> QED
      BY <1>4, <1>5, <3>1
  <2>2. ASSUME NEW y \in 0 .. BlockBytes - 1, Fits(y) PROVE y = z
    <3> DEFINE n == Len(str) + 1 + LengthBytes
    <3>1. n \in Nat /\ y \in Nat /\ z \in Nat
          /\ Len(str) + 1 + z + LengthBytes = n + z /\ Len(str) + 1 + y + LengthBytes = n + y
      BY <1>3, <1>5, Sizes
    <3>2. (n + z) % BlockBytes = 0 /\ (n + y) % BlockBytes = 0
      BY <2>1, <2>2, <3>1
    <3> HIDE DEF n
    <3>3. ~ (y < z) /\ ~ (z < y)
      BY <1>5, <3>1, <3>2, ZerosAre
    <3> QED
      BY <3>1, <3>3
  <2> HIDE DEF Fits
  <2> QED
    BY <1>5, <2>1, <2>2
<1>7. PICK r : IsLength(lp, r, total)
  <2>1. HasLength(lp, total)
    <3> HIDE DEF total
    <3> QED
      BY <1>3, LengthPadIs
  <2> HIDE DEF lp
  <2> QED
    BY <2>1 DEF HasLength
<1> HIDE DEF lp
<1>8. \A n \in 0 .. LengthBytes : rest[n] = r[n]
  <2>1. r = Of(r)
    <3>1. /\ r \in [0 .. LengthBytes -> Nat] /\ r[0] = total
          /\ \A n \in 1 .. LengthBytes : r[n] = r[n - 1] \div 256
      BY <1>7 DEF IsLength
    <3> HIDE DEF total
    <3>2. \A n \in 0 .. LengthBytes : r[n] = IF n = 0 THEN total ELSE r[n - 1] \div 256
      <4>1. \A n \in 0 .. LengthBytes : n = 0 \/ n \in 1 .. LengthBytes
        BY Sizes
      <4> QED
        BY <3>1, <4>1
    <3>3. r = [n \in 0 .. LengthBytes |-> r[n]]
      BY <3>1
    <3> QED
      BY <3>2, <3>3
  <2>2. rest = Of(rest)
    <3> HIDE DEF Of
    <3> QED
      BY <2>1
  <2> HIDE DEF rest, total
  <2> DEFINE Bad == {n \in 0 .. LengthBytes : rest[n] # r[n]}
  <2>3. Bad = {}
    <3>1. SUFFICES ASSUME Bad # {} PROVE FALSE
      OBVIOUS
    <3>2. PICK n \in Bad : \A k \in Bad : n <= k
      <4>1. Bad \in SUBSET Nat
        OBVIOUS
      <4> HIDE DEF Bad
      <4> QED
        BY <3>1, <4>1, Smallest
    <3>3. n \in 0 .. LengthBytes /\ rest[n] = (IF n = 0 THEN total ELSE rest[n - 1] \div 256)
          /\ r[n] = (IF n = 0 THEN total ELSE r[n - 1] \div 256)
      <4>1. ASSUME NEW f, f = Of(f), NEW i \in 0 .. LengthBytes
            PROVE  f[i] = IF i = 0 THEN total ELSE f[i - 1] \div 256
        BY <4>1
      <4>2. n \in 0 .. LengthBytes
        OBVIOUS
      <4> HIDE DEF Of, Bad
      <4> QED
        BY <2>1, <2>2, <4>1, <4>2
    <3>4. n # 0 /\ n - 1 \in 0 .. LengthBytes /\ n - 1 \notin Bad
      BY <3>2, <3>3, Sizes
    <3> QED
      BY <3>2, <3>3, <3>4
  <2> QED
    BY <2>3
<1> HIDE DEF rest
<1>9. field \in Seq(Byte) /\ Len(field) = LengthBytes /\ \A k \in 1 .. LengthBytes : field[k] = lp[k]
  <2>1. ASSUME NEW k \in 1 .. LengthBytes PROVE field[k] = lp[k] /\ lp[k] \in Byte
    <3>1. LengthBytes - k \in 0 .. LengthBytes /\ rest[LengthBytes - k] = r[LengthBytes - k]
      BY <1>8, Sizes
    <3>2. lp \in Seq(Byte) /\ Len(lp) = LengthBytes /\ lp[k] = r[LengthBytes - k] % 256
      BY <1>7 DEF IsLength
    <3> QED
      BY <3>1, <3>2, ElementOfSeq
  <2>2. field \in [1 .. LengthBytes -> Byte]
    BY <2>1
  <2> HIDE DEF field
  <2> QED
    BY <2>1, <2>2, FunctionIsSeq, Sizes
<1>10. PaddedOut(str, z, field) = text
  <2>1. \A i \in 1 .. Len(str) : text[i] = str[i]
    BY <1>2 DEF IsPadded
  <2>2. text[Len(str) + 1] = 128
    BY <1>2 DEF IsPadded
  <2>3. \A i \in Len(str) + 2 .. c : text[i] = 0
    <3>1. Len(text) - LengthBytes = c
      BY <1>5, Sizes
    <3> QED
      BY <1>2, <3>1 DEF IsPadded
  <2>4. \A k \in 1 .. Len(field) : text[c + k] = field[k]
    <3>1. Len(text) - LengthBytes = c
      BY <1>5, Sizes
    <3>2. \A k \in 1 .. LengthBytes : text[c + k] = lp[k]
      BY <1>2, <3>1 DEF IsPadded, lp
    <3> HIDE DEF field
    <3> QED
      BY <1>9, <3>2
  <2> HIDE DEF field
  <2>5. Len(text) = c + Len(field) /\ z \in Nat
    BY <1>5, <1>9, Sizes
  <2>6. IsPaddedOut(str, z, field, text)
    BY <2>1, <2>2, <2>3, <2>4, <2>5 DEF IsPaddedOut
  <2> HIDE DEF c
  <2> QED
    BY <1>3, <1>9, <2>5, <2>6, PaddedOutIs
<1>11. StandardBlocks(str) = InBlocks(PaddedOut(str, zeros, field))
  BY Zenon DEF StandardBlocks, InBlocks, PaddedOut, zeros, Fits, field, rest, Of, total
<1> HIDE DEF zeros, field
<1> QED
  BY <1>4, <1>6, <1>10, <1>11 DEF bs

----------------------------------------------------------------------------
(***************************************************************************)
(* Pieces of one length in a row.                                          *)
(***************************************************************************)

IsRow(t, pieces, n, size) ==
  /\ Len(t) = n * size
  /\ \A b \in 1 .. n : \A j \in 1 .. size : t[(b - 1) * size + j] = pieces[b][j]

LEMMA OneMore ==
  ASSUME NEW T, NEW t \in Seq(T), NEW n \in Nat, NEW size \in Nat \ {0}, NEW pieces,
         NEW q \in Seq(T), q = pieces[n + 1], Len(q) = size, IsRow(t, pieces, n, size)
  PROVE  IsRow(t \o q, pieces, n + 1, size)
<1> DEFINE z == n * size
           u == t \o q
<1>1. z \in Nat /\ (n + 1) * size = z + size /\ Len(t) = z
  BY Multiples DEF IsRow
<1>2. /\ Len(u) = Len(t) + size
      /\ \A i \in 1 .. Len(t) + size : u[i] = IF i <= Len(t) THEN t[i] ELSE q[i - Len(t)]
  <2>1. /\ Len(u) = Len(t) + Len(q)
        /\ \A i \in 1 .. Len(t) + Len(q) : u[i] = IF i <= Len(t) THEN t[i] ELSE q[i - Len(t)]
    BY ConcatIs DEF IsConcat
  <2> HIDE DEF u
  <2> QED
    BY <2>1
<1> HIDE DEF u
<1>3. ASSUME NEW b \in 1 .. n + 1, NEW j \in 1 .. size
      PROVE  u[(b - 1) * size + j] = pieces[b][j]
  <2>1. CASE b = n + 1
    <3>1. (b - 1) * size = z
      BY <2>1
    <3> HIDE DEF z
    <3>2. z + j \in 1 .. Len(t) + size /\ ~ (z + j <= Len(t)) /\ (z + j) - Len(t) = j
      BY <1>1
    <3>3. u[z + j] = q[j]
      BY <1>2, <3>2
    <3> QED
      BY <2>1, <3>1, <3>3
  <2>2. CASE b # n + 1
    <3> DEFINE y == (b - 1) * size
    <3>1. b \in 1 .. n /\ b - 1 \in Nat /\ b \in Nat /\ b <= n /\ (b - 1) + 1 = b
      BY <2>2
    <3>2. y \in Nat /\ y + size <= z
      <4>1. b * size <= z
        BY <3>1, Multiples
      <4>2. (b - 1) * size \in Nat /\ ((b - 1) + 1) * size = (b - 1) * size + size
        BY <3>1, Multiples
      <4> QED
        BY <3>1, <4>1, <4>2
    <3>3. t[y + j] = pieces[b][j]
      BY <3>1 DEF IsRow
    <3> HIDE DEF y, z
    <3>4. y + j \in 1 .. Len(t) + size /\ y + j <= Len(t)
      BY <1>1, <3>2
    <3>5. u[y + j] = pieces[b][j]
      BY <1>2, <3>3, <3>4
    <3> QED
      BY <3>5 DEF y
  <2> QED
    BY <2>1, <2>2
<1>4. Len(u) = (n + 1) * size
  BY <1>1, <1>2
<1> QED
  BY <1>3, <1>4 DEF IsRow, u

IsFlat(T, t, pieces, n, size) == t \in Seq(T) /\ IsRow(t, pieces, n, size)

(* What FlattenSeq makes of them.                                          *)
LEMMA FlatRow ==
  ASSUME NEW T, NEW n \in Nat, NEW size \in Nat \ {0}, NEW pieces \in [1 .. n -> Seq(T)],
         \A i \in 1 .. n : Len(pieces[i]) = size
  PROVE  IsFlat(T, FlattenSeq(pieces), pieces, n, size)
<1>1. Len(pieces) = n
  BY FunctionIsSeq
<1>2. CASE n = 0
  <2>1. FlattenSeq(pieces) = pieces
    BY <1>1, <1>2 DEF FlattenSeq
  <2>2. pieces = <<>>
    BY <1>1, <1>2, FunctionIsSeq, EmptySeq
  <2>3. <<>> \in Seq(T) /\ Len(<<>>) = 0 /\ 0 * size = 0
    BY EmptySeq
  <2> QED
    BY <1>2, <2>1, <2>2, <2>3 DEF IsFlat, IsRow
<1>3. CASE n # 0
  <2> DEFINE Of(f) == [i \in 1 .. n |-> IF i = 1 THEN pieces[i] ELSE f[i - 1] \o pieces[i]]
             flatten == CHOOSE f : f = Of(f)
             step == [x \in Nat \X Seq(T) |->
                        IF x[1] + 1 \in 1 .. n THEN x[2] \o pieces[x[1] + 1] ELSE x[2]]
  <2>1. FlattenSeq(pieces) = flatten[n]
    BY <1>1, <1>3, Zenon DEF FlattenSeq
  <2>2. step \in [Nat \X Seq(T) -> Seq(T)]
    <3>1. SUFFICES ASSUME NEW x \in Nat \X Seq(T)
                   PROVE  (IF x[1] + 1 \in 1 .. n THEN x[2] \o pieces[x[1] + 1] ELSE x[2]) \in Seq(T)
      OBVIOUS
    <3>2. ASSUME x[1] + 1 \in 1 .. n PROVE x[2] \o pieces[x[1] + 1] \in Seq(T)
      <4>1. x[2] \in Seq(T) /\ pieces[x[1] + 1] \in Seq(T)
        BY <3>2
      <4> QED
        BY <4>1, ConcatProperties
    <3> QED
      BY <3>2
  <2>3. \E f : f = Of(f)
    <3>1. n - 1 \in Nat /\ pieces[1] \in Seq(T)
      BY <1>3
    <3>2. Recurses(n - 1, Seq(T), pieces[1], step)
      <4> HIDE DEF step
      <4> QED
        BY <2>2, <3>1, Recursion
    <3>3. PICK f \in [0 .. n - 1 -> Seq(T)] :
            f[0] = pieces[1] /\ \A m \in 1 .. n - 1 : f[m] = step[<<m, f[m - 1]>>]
      <4> HIDE DEF step
      <4> QED
        BY <3>2 DEF Recurses
    <3> DEFINE g == [i \in 1 .. n |-> f[i - 1]]
    <3>4. ASSUME NEW i \in 1 .. n
          PROVE  g[i] = IF i = 1 THEN pieces[i] ELSE g[i - 1] \o pieces[i]
      <4>1. CASE i = 1
        BY <3>3, <4>1
      <4>2. CASE i # 1
        <5>1. i - 1 \in 1 .. n - 1 /\ i - 1 \in 1 .. n /\ (i - 1) - 1 \in 0 .. n - 1 /\ i - 1 \in Nat
              /\ (i - 1) + 1 = i
          BY <4>2
        <5>2. f[i - 1] = step[<<i - 1, f[(i - 1) - 1]>>] /\ f[(i - 1) - 1] \in Seq(T)
          BY <3>3, <5>1
        <5>3. f[i - 1] = f[(i - 1) - 1] \o pieces[i]
          BY <5>1, <5>2
        <5>4. g[i] = f[i - 1] /\ g[i - 1] = f[(i - 1) - 1]
          BY <5>1
        <5> QED
          BY <4>2, <5>3, <5>4
      <4> QED
        BY <4>1, <4>2
    <3>5. g = [i \in 1 .. n |-> g[i]]
      OBVIOUS
    <3> HIDE DEF g
    <3>6. g = Of(g)
      BY <3>4, <3>5
    <3> QED
      BY <3>6
  <2>4. flatten = Of(flatten)
    <3> HIDE DEF Of
    <3> QED
      BY <2>3
  <2> HIDE DEF flatten
  <2>5. ASSUME NEW i \in 1 .. n
        PROVE  flatten[i] = IF i = 1 THEN pieces[i] ELSE flatten[i - 1] \o pieces[i]
    BY <2>4
  <2> DEFINE Bad == {i \in 1 .. n : ~ IsFlat(T, flatten[i], pieces, i, size)}
  <2>6. Bad = {}
    <3>1. SUFFICES ASSUME Bad # {} PROVE FALSE
      OBVIOUS
    <3>2. PICK i \in Bad : \A k \in Bad : i <= k
      <4>1. Bad \in SUBSET Nat
        OBVIOUS
      <4> HIDE DEF Bad
      <4> QED
        BY <3>1, <4>1, Smallest
    <3>3. i \in 1 .. n /\ ~ IsFlat(T, flatten[i], pieces, i, size)
      OBVIOUS
    <3>4. CASE i = 1
      <4>1. flatten[1] = pieces[1] /\ pieces[1] \in Seq(T) /\ Len(pieces[1]) = size
        BY <2>5, <3>3, <3>4
      <4>2. IsRow(pieces[1], pieces, 1, size)
        <5>1. 1 * size = size /\ (1 - 1) * size = 0
          OBVIOUS
        <5>2. \A j \in 1 .. size : 0 + j = j
          OBVIOUS
        <5>3. \A b \in 1 .. 1 : b = 1
          OBVIOUS
        <5> QED
          BY <4>1, <5>1, <5>2, <5>3 DEF IsRow
      <4> QED
        BY <3>3, <3>4, <4>1, <4>2 DEF IsFlat
    <3>5. CASE i # 1
      <4>1. i - 1 \in 1 .. n /\ i - 1 \in Nat /\ (i - 1) + 1 = i /\ ~ (i <= i - 1)
        BY <3>3, <3>5
      <4>2. IsFlat(T, flatten[i - 1], pieces, i - 1, size)
        BY <3>2, <4>1
      <4> DEFINE t == flatten[i - 1]
                 q == pieces[i]
      <4>3. t \in Seq(T) /\ q \in Seq(T) /\ q = pieces[(i - 1) + 1] /\ Len(q) = size
            /\ IsRow(t, pieces, i - 1, size)
        BY <3>3, <4>1, <4>2 DEF IsFlat
      <4>4. flatten[i] = t \o q
        BY <2>5, <3>3, <3>5
      <4> HIDE DEF t, q
      <4>5. IsRow(t \o q, pieces, (i - 1) + 1, size)
        BY <4>1, <4>3, OneMore
      <4>6. t \o q \in Seq(T)
        BY <4>3, ConcatProperties
      <4> QED
        BY <3>3, <4>1, <4>4, <4>5, <4>6 DEF IsFlat
    <3> QED
      BY <3>4, <3>5
  <2>7. n \in 1 .. n
    BY <1>3
  <2> QED
    BY <2>1, <2>6, <2>7
<1> QED
  BY <1>2, <1>3

----------------------------------------------------------------------------
(***************************************************************************)
(* Reading the file.                                                       *)
(***************************************************************************)

IsRead(read, bytes, offset, size) ==
  /\ read \in Seq(Byte) /\ Len(read) <= size
  /\ Len(read) = IF offset + size <= Len(bytes) THEN size
                 ELSE IF offset <= Len(bytes) THEN Len(bytes) - offset ELSE 0
  /\ \A i \in 1 .. Len(read) : read[i] = bytes[offset + i]

LEMMA ReadAtIs ==
  ASSUME NEW bytes \in Seq(Byte), NEW offset \in Nat, NEW size \in Nat
  PROVE  IsRead(ReadAt(bytes, offset, size), bytes, offset, size)
<1> DEFINE m == Min({offset + size, Len(bytes)})
           read == ReadAt(bytes, offset, size)
<1>1. Len(bytes) \in Nat /\ offset + size \in Nat
  BY LenProperties
<1>2. m = IF offset + size <= Len(bytes) THEN offset + size ELSE Len(bytes)
  BY <1>1, MinOfTwo
<1> HIDE DEF m
<1>3. m \in Nat /\ m <= Len(bytes) /\ m <= offset + size
  BY <1>1, <1>2
<1>4. \A i \in offset + 1 .. m : bytes[i] \in Byte
  <2>1. \A i \in offset + 1 .. m : i \in 1 .. Len(bytes)
    BY <1>1, <1>3
  <2> QED
    BY <2>1, ElementOfSeq
<1>5. /\ read \in Seq(Byte)
      /\ Len(read) = IF offset + 1 <= m THEN m - (offset + 1) + 1 ELSE 0
      /\ \A i \in 1 .. m - (offset + 1) + 1 : read[i] = bytes[offset + 1 + i - 1]
  <2>1. read = SubSeq(bytes, offset + 1, m)
    BY DEF ReadAt, m
  <2> DEFINE a == offset + 1
  <2>2. a \in Int /\ m \in Int /\ \A i \in a .. m : bytes[i] \in Byte
    BY <1>3, <1>4
  <2> HIDE DEF a
  <2>3. /\ SubSeq(bytes, a, m) \in Seq(Byte)
        /\ Len(SubSeq(bytes, a, m)) = IF a <= m THEN m - a + 1 ELSE 0
        /\ \A i \in 1 .. m - a + 1 : SubSeq(bytes, a, m)[i] = bytes[a + i - 1]
    BY <2>2, SubSeqProperties
  <2> HIDE DEF read
  <2> QED
    BY <2>1, <2>3 DEF a
<1> HIDE DEF read
<1>6. Len(read) = IF offset + size <= Len(bytes) THEN size
                  ELSE IF offset <= Len(bytes) THEN Len(bytes) - offset ELSE 0
  BY <1>1, <1>2, <1>5
<1>7. ASSUME NEW i \in 1 .. Len(read) PROVE read[i] = bytes[offset + i]
  <2>1. i \in 1 .. m - (offset + 1) + 1 /\ offset + 1 + i - 1 = offset + i
    BY <1>3, <1>5
  <2> QED
    BY <1>5, <2>1
<1>8. Len(read) <= size
  BY <1>1, <1>6
<1> QED
  BY <1>5, <1>6, <1>7, <1>8 DEF IsRead, read

Buffer == {b \in Seq(Byte) : Len(b) = PacketSize}

(* fread fills the buffer, with the bytes there are if there are enough.   *)
FillsUp(old, offset) ==
  /\ Filled(old, offset) \in Buffer
  /\ ~ junk /\ offset + PacketSize <= Len(file) =>
       \A i \in 1 .. PacketSize : Filled(old, offset)[i] = file[offset + i]

LEMMA FilledIs ==
  ASSUME file \in Seq(Byte), NEW old \in Buffer, NEW offset \in Nat
  PROVE  FillsUp(old, offset)
<1> DEFINE read == ReadAt(file, offset, PacketSize)
           more == SubSeq(old, Len(read) + 1, PacketSize)
           packet == read \o more
<1>1. IsRead(read, file, offset, PacketSize)
  BY ReadAtIs, Sizes
<1> HIDE DEF read
<1>2. read \in Seq(Byte) /\ Len(read) \in 0 .. PacketSize
  <2>1. read \in Seq(Byte) /\ Len(read) <= PacketSize
    BY <1>1 DEF IsRead
  <2>2. Len(read) \in Nat
    BY <2>1, LenProperties
  <2> QED
    BY <2>1, <2>2, Sizes
<1>3. old \in Seq(Byte) /\ Len(old) = PacketSize
  BY DEF Buffer
<1>4. more \in Seq(Byte) /\ Len(more) = PacketSize - Len(read)
  <2>1. Len(read) \in 0 .. Len(old)
    BY <1>2, <1>3
  <2>2. /\ SubSeq(old, Len(read) + 1, Len(old)) \in Seq(Byte)
        /\ Len(SubSeq(old, Len(read) + 1, Len(old))) = Len(old) - Len(read)
    BY <1>3, <2>1, FrontAndRest
  <2> QED
    BY <1>3, <2>2
<1> HIDE DEF more
<1>5. /\ packet \in Seq(Byte) /\ Len(packet) = PacketSize
      /\ \A i \in 1 .. Len(read) : packet[i] = read[i]
  <2>1. /\ packet \in Seq(Byte) /\ Len(packet) = Len(read) + Len(more)
        /\ \A i \in 1 .. Len(read) + Len(more) :
             packet[i] = IF i <= Len(read) THEN read[i] ELSE more[i - Len(read)]
    BY <1>2, <1>4, ConcatProperties
  <2> HIDE DEF packet
  <2>2. Len(read) + Len(more) = PacketSize
    BY <1>2, <1>4, Sizes
  <2>3. \A i \in 1 .. Len(read) : i \in 1 .. PacketSize /\ i <= Len(read)
    BY <1>2, Sizes
  <2> QED
    BY <2>1, <2>2, <2>3
<1> HIDE DEF packet
<1>6. Filled(old, offset) = IF junk THEN [packet EXCEPT ![PacketSize] = 97] ELSE packet
  BY Zenon DEF Filled, Junked, packet, more, read
<1>7. Filled(old, offset) \in Buffer
  <2>1. PacketSize \in 1 .. Len(packet) /\ 97 \in Byte
    BY <1>5, Sizes DEF Byte
  <2>2. /\ [packet EXCEPT ![PacketSize] = 97] \in Seq(Byte)
        /\ Len([packet EXCEPT ![PacketSize] = 97]) = Len(packet)
    BY <1>5, <2>1, ExceptSeq
  <2> QED
    BY <1>5, <1>6, <2>2 DEF Buffer
<1>8. ASSUME ~ junk, offset + PacketSize <= Len(file), NEW i \in 1 .. PacketSize
      PROVE  Filled(old, offset)[i] = file[offset + i]
  <2>1. Len(read) = PacketSize /\ \A j \in 1 .. Len(read) : read[j] = file[offset + j]
    BY <1>1, <1>8 DEF IsRead
  <2> QED
    BY <1>5, <1>6, <1>8, <2>1
<1> QED
  BY <1>7, <1>8 DEF FillsUp

NumPackets == ChunkSize \div PacketSize

LEMMA PacketsInAChunk ==
  NumPackets \in Nat \ {0} /\ NumPackets * PacketSize = ChunkSize
<1> DEFINE q == ChunkSize \div PacketSize
<1>1. q \in Nat /\ q * PacketSize <= ChunkSize /\ ChunkSize < q * PacketSize + PacketSize
  BY Quotient, Sizes
<1>2. ChunkSize = PacketSize * q + (ChunkSize % PacketSize)
  BY Sizes
<1>3. ChunkSize % PacketSize = 0
  BY ChunkFilesAssumption
<1>4. PacketSize * q = q * PacketSize
  BY <1>1, Sizes
<1>5. q * PacketSize \in Nat
  BY <1>1, Multiples, Sizes
<1> DEFINE y == q * PacketSize
<1>6. y = ChunkSize
  <2>1. ChunkSize = y + (ChunkSize % PacketSize)
    BY <1>2, <1>4
  <2>2. y \in Nat
    BY <1>5
  <2> HIDE DEF y, q
  <2> QED
    BY <1>3, <2>1, <2>2, Sizes
<1>7. q # 0
  <2>1. SUFFICES ASSUME q = 0 PROVE FALSE
    OBVIOUS
  <2>2. y = 0
    BY <2>1, Sizes
  <2> QED
    BY <1>6, <2>2, Sizes
<1> QED
  BY <1>1, <1>6, <1>7 DEF NumPackets

(* What buf holds packet after packet.                                     *)
AreSent(packets, id) ==
  /\ packets \in [1 .. NumPackets -> Buffer]
  /\ ~ junk /\ id * ChunkSize + ChunkSize <= Len(file) =>
       \A k \in 1 .. NumPackets : \A i \in 1 .. PacketSize :
         packets[k][i] = file[id * ChunkSize + ((k - 1) * PacketSize + i)]

LEMMA PacketsAre ==
  ASSUME file \in Seq(Byte), buf \in Buffer, NEW id \in Nat
  PROVE  AreSent(Packets(id), id)
<1> DEFINE N == NumPackets
           Of(f) == [k \in 0 .. N |-> IF k = 0 THEN buf
                                      ELSE Filled(f[k - 1], Offset(id) + (k - 1) * PacketSize)]
           held == CHOOSE f : f = Of(f)
           step == [x \in Nat \X Buffer |->
                      IF x[1] \in 1 .. N THEN Filled(x[2], Offset(id) + (x[1] - 1) * PacketSize) ELSE x[2]]
<1>1. Packets(id) = [k \in 1 .. N |-> held[k]]
  BY Zenon DEF Packets, NumPackets
<1>2. N \in Nat \ {0}
  BY PacketsInAChunk
<1> HIDE DEF N
<1>3. id * ChunkSize \in Nat /\ Offset(id) = id * ChunkSize
  BY Multiples, Sizes DEF Offset
<1>4. ASSUME NEW k \in 1 .. N
      PROVE  (k - 1) * PacketSize \in Nat /\ Offset(id) + (k - 1) * PacketSize \in Nat
  <2>1. k - 1 \in Nat
    BY <1>2
  <2>2. (k - 1) * PacketSize \in Nat
    BY <2>1, Multiples, Sizes
  <2> QED
    BY <1>3, <2>2
<1>5. step \in [Nat \X Buffer -> Buffer]
  <2>1. ASSUME NEW x \in Nat \X Buffer, x[1] \in 1 .. N
        PROVE  Filled(x[2], Offset(id) + (x[1] - 1) * PacketSize) \in Buffer
    <3>1. x[2] \in Buffer /\ Offset(id) + (x[1] - 1) * PacketSize \in Nat
      BY <1>4, <2>1
    <3> QED
      BY <3>1, FilledIs DEF FillsUp
  <2>2. ASSUME NEW x \in Nat \X Buffer
        PROVE  (IF x[1] \in 1 .. N THEN Filled(x[2], Offset(id) + (x[1] - 1) * PacketSize) ELSE x[2]) \in Buffer
    BY <2>1
  <2> QED
    BY <2>2
<1>6. \E f : f = Of(f)
  <2>1. Recurses(N, Buffer, buf, step)
    <3> HIDE DEF step
    <3> QED
      BY <1>2, <1>5, Recursion
  <2>2. PICK f \in [0 .. N -> Buffer] : f[0] = buf /\ \A k \in 1 .. N : f[k] = step[<<k, f[k - 1]>>]
    <3> HIDE DEF step
    <3> QED
      BY <2>1 DEF Recurses
  <2>3. ASSUME NEW k \in 1 .. N
        PROVE  f[k] = Filled(f[k - 1], Offset(id) + (k - 1) * PacketSize)
    <3>1. k - 1 \in 0 .. N /\ k \in Nat /\ f[k - 1] \in Buffer
      BY <1>2
    <3> QED
      BY <2>2, <3>1
  <2>4. ASSUME NEW k \in 0 .. N
        PROVE  f[k] = IF k = 0 THEN buf ELSE Filled(f[k - 1], Offset(id) + (k - 1) * PacketSize)
    <3>1. k = 0 \/ k \in 1 .. N
      BY <1>2
    <3> QED
      BY <2>2, <2>3, <3>1
  <2>5. f = [k \in 0 .. N |-> f[k]]
    OBVIOUS
  <2> QED
    BY <2>4, <2>5
<1>7. held = Of(held)
  <2> HIDE DEF Of
  <2> QED
    BY <1>6
<1> HIDE DEF held
<1>8. held[0] = buf /\ \A k \in 1 .. N : held[k] = Filled(held[k - 1], Offset(id) + (k - 1) * PacketSize)
  <2>1. ASSUME NEW k \in 0 .. N
        PROVE  held[k] = IF k = 0 THEN buf ELSE Filled(held[k - 1], Offset(id) + (k - 1) * PacketSize)
    BY <1>7
  <2> QED
    BY <1>2, <2>1
<1> DEFINE Bad == {k \in 0 .. N : held[k] \notin Buffer}
<1>9. Bad = {}
  <2>1. SUFFICES ASSUME Bad # {} PROVE FALSE
    OBVIOUS
  <2>2. PICK k \in Bad : \A j \in Bad : k <= j
    <3>1. Bad \in SUBSET Nat
      OBVIOUS
    <3> HIDE DEF Bad
    <3> QED
      BY <2>1, <3>1, Smallest
  <2>3. k \in 1 .. N /\ k - 1 \in 0 .. N /\ ~ (k <= k - 1)
    BY <1>2, <1>8
  <2>4. held[k - 1] \in Buffer
    BY <2>2, <2>3
  <2>5. held[k] \in Buffer
    BY <1>4, <1>8, <2>3, <2>4, FilledIs DEF FillsUp
  <2> QED
    BY <2>5
<1>10. Packets(id) \in [1 .. N -> Buffer]
  BY <1>1, <1>9
<1>11. ASSUME ~ junk, id * ChunkSize + ChunkSize <= Len(file), NEW k \in 1 .. N, NEW i \in 1 .. PacketSize
       PROVE  Packets(id)[k][i] = file[id * ChunkSize + ((k - 1) * PacketSize + i)]
  <2> DEFINE off == Offset(id) + (k - 1) * PacketSize
  <2>1. k - 1 \in 0 .. N /\ k - 1 \in Nat /\ k \in Nat /\ k <= N /\ (k - 1) + 1 = k
    BY <1>2
  <2>2. held[k - 1] \in Buffer /\ off \in Nat
    BY <1>4, <1>9, <2>1
  <2>3. off + PacketSize <= Len(file)
    <3>1. (k - 1) * PacketSize + PacketSize <= ChunkSize
      <4>1. k * PacketSize <= N * PacketSize
        BY <1>2, <2>1, Multiples, Sizes
      <4>2. ((k - 1) + 1) * PacketSize = (k - 1) * PacketSize + PacketSize
        BY <2>1, Multiples, Sizes
      <4>3. N * PacketSize = ChunkSize
        BY PacketsInAChunk DEF N
      <4> QED
        BY <2>1, <4>1, <4>2, <4>3
    <3> DEFINE x == id * ChunkSize
               y == (k - 1) * PacketSize
    <3>2. x \in Nat /\ y \in Nat /\ off = x + y /\ y + PacketSize <= ChunkSize /\ x + ChunkSize <= Len(file)
          /\ Len(file) \in Nat
      BY <1>3, <1>4, <1>11, <3>1, LenProperties
    <3> HIDE DEF x, y, off
    <3> QED
      BY <3>2, Sizes
  <2>4. FillsUp(held[k - 1], off)
    BY <2>2, FilledIs
  <2> HIDE DEF off
  <2>5. Filled(held[k - 1], off)[i] = file[off + i]
    BY <1>11, <2>3, <2>4 DEF FillsUp
  <2>6. Packets(id)[k] = Filled(held[k - 1], off)
    BY <1>1, <1>8 DEF off
  <2>7. off + i = id * ChunkSize + ((k - 1) * PacketSize + i)
    <3> DEFINE x == id * ChunkSize
               y == (k - 1) * PacketSize
    <3>1. x \in Nat /\ y \in Nat /\ off = x + y
      BY <1>3, <1>4 DEF off
    <3> HIDE DEF x, y
    <3> QED
      BY <3>1 DEF x, y
  <2> QED
    BY <2>5, <2>6, <2>7
<1> QED
  BY <1>10, <1>11 DEF AreSent, N

----------------------------------------------------------------------------
(***************************************************************************)
(* Writing the output.                                                     *)
(***************************************************************************)

LEMMA MaxOfTwo ==
  ASSUME NEW a \in Nat, NEW b \in Nat
  PROVE  Max({a, b}) = IF a <= b THEN b ELSE a
<1> DEFINE m == IF a <= b THEN b ELSE a
<1>1. m \in {a, b} /\ \A y \in {a, b} : m >= y
  OBVIOUS
<1>2. Max({a, b}) \in {a, b} /\ \A y \in {a, b} : Max({a, b}) >= y
  <2> HIDE DEF m
  <2> QED
    BY <1>1 DEF Max
<1> QED
  BY <1>2

(* Between which lengths, where the data are and what stays.               *)
Overwrites(w, bytes, offset, data) ==
  /\ w \in Seq(Byte)
  /\ Len(w) = IF Len(bytes) <= offset + Len(data) THEN offset + Len(data) ELSE Len(bytes)
  /\ \A k \in 1 .. Len(data) : w[offset + k] = data[k]
  /\ \A k \in 1 .. Len(bytes) : ~ (offset + 1 <= k /\ k <= offset + Len(data)) => w[k] = bytes[k]

LEMMA WrittenIs ==
  ASSUME NEW bytes \in Seq(Byte), NEW offset \in Nat, NEW data \in Seq(Byte)
  PROVE  Overwrites(Written(bytes, offset, data), bytes, offset, data)
<1> DEFINE size == Max({Len(bytes), offset + Len(data)})
           At(k) == IF k \in offset + 1 .. offset + Len(data) THEN data[k - offset]
                    ELSE IF k <= Len(bytes) THEN bytes[k] ELSE 0
           w == [k \in 1 .. size |-> At(k)]
<1>1. Written(bytes, offset, data) = w
  BY DEF Written
<1>2. Len(bytes) \in Nat /\ Len(data) \in Nat /\ offset + Len(data) \in Nat
  BY LenProperties
<1>3. size = IF Len(bytes) <= offset + Len(data) THEN offset + Len(data) ELSE Len(bytes)
  BY <1>2, MaxOfTwo
<1> HIDE DEF size
<1>4. size \in Nat
  BY <1>2, <1>3
<1>5. ASSUME NEW k \in 1 .. size PROVE At(k) \in Byte
  <2>1. CASE k \in offset + 1 .. offset + Len(data)
    <3>1. k - offset \in 1 .. Len(data)
      BY <1>2, <2>1
    <3>2. data[k - offset] \in Byte
      BY <3>1, ElementOfSeq
    <3> QED
      BY <2>1, <3>2
  <2>2. CASE k \notin offset + 1 .. offset + Len(data) /\ k <= Len(bytes)
    <3>1. k \in 1 .. Len(bytes)
      BY <1>2, <1>4, <2>2
    <3>2. bytes[k] \in Byte
      BY <3>1, ElementOfSeq
    <3> QED
      BY <2>2, <3>2
  <2>3. CASE k \notin offset + 1 .. offset + Len(data) /\ ~ (k <= Len(bytes))
    BY <2>3 DEF Byte
  <2> QED
    BY <2>1, <2>2, <2>3
<1> HIDE DEF At
<1>6. w \in [1 .. size -> Byte]
  BY <1>5
<1>7. w \in Seq(Byte) /\ Len(w) = size /\ \A k \in 1 .. size : w[k] = At(k)
  BY <1>4, <1>6, FunctionIsSeq
<1> HIDE DEF w
<1>8. ASSUME NEW k \in 1 .. Len(data) PROVE w[offset + k] = data[k]
  <2>1. offset + k \in 1 .. size /\ offset + k \in offset + 1 .. offset + Len(data)
        /\ (offset + k) - offset = k
    BY <1>2, <1>3
  <2> QED
    BY <1>7, <2>1 DEF At
<1>9. ASSUME NEW k \in 1 .. Len(bytes), ~ (offset + 1 <= k /\ k <= offset + Len(data))
      PROVE  w[k] = bytes[k]
  <2>1. k \in 1 .. size /\ k \notin offset + 1 .. offset + Len(data) /\ k <= Len(bytes)
    BY <1>2, <1>3, <1>9
  <2> QED
    BY <1>7, <2>1 DEF At
<1> QED
  BY <1>1, <1>3, <1>7, <1>8, <1>9 DEF Overwrites

----------------------------------------------------------------------------
(***************************************************************************)
(* The invariant.                                                          *)
(***************************************************************************)

FilesInv ==
  file \in Seq(Byte) /\ junk \in BOOLEAN /\ buf \in Buffer /\ outputfile \in Seq(Byte)

(* A line of the list is that of one of its chunks.                        *)
IsLine(id, hash) == id \in Nat /\ hash = ShaHash(Chunk(id))

ListingInv ==
  listing # None =>
    listing = [k \in 1 .. GetNumChunks(Len(file)) |-> [id |-> k - 1, hash |-> ShaHash(Chunk(k - 1))]]

HasInv ==
  has # None =>
    \E n \in Nat : DOMAIN has = 1 .. n /\ \A k \in 1 .. n : IsLine(has[k].id, has[k].hash)

Requested == [id : Nat, hash : {ShaHash(s) : s \in Seq(Byte)}, finished : BOOLEAN]

ChunksInv ==
  chunks # None =>
    \E n \in Nat : chunks \in [1 .. n -> Requested]
                   /\ \A i \in 1 .. n : IsLine(chunks[i].id, chunks[i].hash)

(* What is on the way is for a chunk that is not finished, and it is the   *)
(* chunk if that is a whole one and a server does not spoil it.            *)
SentInv ==
  sent # None =>
    /\ chunks # None /\ sent.chunk \in DOMAIN chunks /\ ~ chunks[sent.chunk].finished
    /\ DataBuf \in Seq(Byte) /\ Len(DataBuf) = ChunkSize
    /\ ~ junk /\ IsWhole(chunks[sent.chunk].id) => DataBuf = Chunk(chunks[sent.chunk].id)

(* A finished chunk is a whole one and in the output at its place.         *)
IsInPlace(i, id) ==
  /\ IsWhole(id) /\ i * ChunkSize <= Len(outputfile)
  /\ \A j \in 1 .. ChunkSize : outputfile[(i - 1) * ChunkSize + j] = Chunk(id)[j]

OutputInv ==
  chunks # None =>
    /\ Len(outputfile) <= Len(chunks) * ChunkSize
    /\ \A i \in DOMAIN chunks : chunks[i].finished => IsInPlace(i, chunks[i].id)

Inv == FilesInv /\ ListingInv /\ HasInv /\ ChunksInv /\ SentInv /\ OutputInv

LEMMA ChunkIs ==
  ASSUME FilesInv, NEW id \in Nat
  PROVE  /\ Chunk(id) \in Seq(Byte)
         /\ IsWhole(id) <=> id * ChunkSize + ChunkSize <= Len(file)
         /\ \A i \in 1 .. Len(Chunk(id)) : Chunk(id)[i] = file[id * ChunkSize + i]
<1> DEFINE x == id * ChunkSize
           c == ReadAt(file, x, ChunkSize)
<1>1. x \in Nat /\ file \in Seq(Byte)
  BY Multiples, Sizes DEF FilesInv
<1> HIDE DEF x
<1>2. IsRead(c, file, x, ChunkSize)
  BY <1>1, ReadAtIs, Sizes
<1> HIDE DEF c
<1>3. Len(file) \in Nat
  BY <1>1, LenProperties
<1>4. Len(c) = ChunkSize <=> x + ChunkSize <= Len(file)
  BY <1>1, <1>2, <1>3, Sizes DEF IsRead
<1>5. c = Chunk(id)
  BY DEF c, x, Chunk
<1> QED
  BY <1>2, <1>4, <1>5 DEF IsRead, IsWhole, x

(* The hash of a chunk tells it from the others.                           *)
LEMMA HashTells ==
  ASSUME FilesInv, NEW a \in Nat, NEW b \in Seq(Byte), ShaHash(b) = ShaHash(Chunk(a))
  PROVE  b = Chunk(a)
  BY ChunkIs, NoCollisions

LEMMA InitInv ==
  Init => Inv
<1> SUFFICES ASSUME Init PROVE Inv
  OBVIOUS
<1>1. file \in Seq(Byte) /\ junk \in BOOLEAN
  BY ChunkFilesAssumption DEF Init
<1>2. buf \in Buffer
  <2>1. Zeros(PacketSize) \in [1 .. PacketSize -> Byte]
    BY DEF Zeros, Byte
  <2>2. Zeros(PacketSize) \in Seq(Byte) /\ Len(Zeros(PacketSize)) = PacketSize
    BY <2>1, FunctionIsSeq, Sizes
  <2> QED
    BY <2>2 DEF Init, Buffer
<1>3. outputfile \in Seq(Byte)
  BY EmptySeq DEF Init
<1>4. FilesInv
  BY <1>1, <1>2, <1>3 DEF FilesInv
<1> QED
  BY <1>4 DEF Init, Inv, ListingInv, HasInv, ChunksInv, SentInv, OutputInv

(* As long as the file stays its chunks stay.                              *)
LEMMA ChunksStay ==
  ASSUME file' = file
  PROVE  /\ \A id : Chunk(id)' = Chunk(id)
         /\ \A id : IsWhole(id)' = IsWhole(id)
         /\ \A id, hash : IsLine(id, hash)' = IsLine(id, hash)
  BY DEF Chunk, IsWhole, IsLine

(***************************************************************************)
(* make-chunks.                                                            *)
(***************************************************************************)

(* The reads that give something are as many as main allocates hashes for. *)
LEMMA NumReadsIs ==
  ASSUME FilesInv
  PROVE  NumReads = GetNumChunks(Len(file)) /\ NumReads \in Nat
<1> DEFINE L == Len(file)
           q == (L + ChunkSize - 1) \div ChunkSize
           S == {n \in 0 .. L : ReadAt(file, n * ChunkSize, ChunkSize) = <<>>}
<1>1. file \in Seq(Byte) /\ L \in Nat
  BY LenProperties DEF FilesInv
<1> HIDE DEF L
<1>2. ASSUME NEW n \in Nat
      PROVE  n * ChunkSize \in Nat /\ (ReadAt(file, n * ChunkSize, ChunkSize) = <<>> <=> L <= n * ChunkSize)
  <2> DEFINE x == n * ChunkSize
             c == ReadAt(file, x, ChunkSize)
  <2>1. x \in Nat
    BY Multiples, Sizes
  <2> HIDE DEF x
  <2>2. IsRead(c, file, x, ChunkSize)
    BY <1>1, <2>1, ReadAtIs, Sizes
  <2> HIDE DEF c
  <2>3. c \in Seq(Byte) /\ (Len(c) = 0 <=> L <= x)
    BY <1>1, <2>1, <2>2, Sizes DEF IsRead, L
  <2>4. c = <<>> <=> Len(c) = 0
    BY <2>3, EmptySeq
  <2> QED
    BY <2>1, <2>3, <2>4 DEF c, x
<1>3. q \in Nat /\ q * ChunkSize \in Nat /\ q * ChunkSize <= L + ChunkSize - 1 /\ L <= q * ChunkSize
  <2>1. L + ChunkSize - 1 \in Nat
    BY <1>1, Sizes
  <2>2. q \in Nat /\ q * ChunkSize <= L + ChunkSize - 1 /\ L + ChunkSize - 1 < q * ChunkSize + ChunkSize
    BY <2>1, Quotient, Sizes
  <2> HIDE DEF q
  <2> DEFINE y == q * ChunkSize
  <2>3. y \in Nat
    BY <2>2, Multiples, Sizes
  <2>4. y <= L + ChunkSize - 1 /\ L + ChunkSize - 1 < y + ChunkSize
    BY <2>2
  <2>5. L <= y
    <3> HIDE DEF y
    <3> QED
      BY <1>1, <2>3, <2>4, Sizes
  <2> QED
    BY <2>2, <2>3, <2>5
<1> HIDE DEF q
<1>4. q <= L
  <2>1. SUFFICES ASSUME L + 1 <= q PROVE FALSE
    BY <1>1, <1>3
  <2>2. (L + 1) * ChunkSize <= q * ChunkSize /\ (L + 1) * ChunkSize = L * ChunkSize + ChunkSize
        /\ L * ChunkSize \in Nat
    BY <1>1, <1>3, <2>1, Multiples, Sizes
  <2>3. L <= L * ChunkSize
    <3>1. \A c \in Nat \ {0} : L <= L * c
      BY <1>1
    <3> QED
      BY <3>1, Sizes
  <2> DEFINE x == L * ChunkSize
             y == q * ChunkSize
  <2>4. x \in Nat /\ y \in Nat /\ L <= x /\ x + ChunkSize <= y /\ y <= L + ChunkSize - 1
    BY <1>3, <2>2, <2>3
  <2> HIDE DEF x, y
  <2> QED
    BY <1>1, <2>4, Sizes
<1>5. q \in S /\ S \in SUBSET Nat /\ S # {}
  <2>1. q \in 0 .. L
    BY <1>1, <1>3, <1>4
  <2>2. ReadAt(file, q * ChunkSize, ChunkSize) = <<>>
    BY <1>2, <1>3
  <2>3. q \in S
    BY <2>1, <2>2
  <2>4. S \in SUBSET Nat
    BY <1>1
  <2> QED
    BY <2>3, <2>4
<1>6. ASSUME NEW n \in S PROVE q <= n
  <2>1. SUFFICES ASSUME n + 1 <= q PROVE FALSE
    BY <1>3, <1>5
  <2>2. n \in Nat /\ L <= n * ChunkSize /\ n * ChunkSize \in Nat
    BY <1>2, <1>5
  <2>3. (n + 1) * ChunkSize <= q * ChunkSize /\ (n + 1) * ChunkSize = n * ChunkSize + ChunkSize
    BY <1>3, <2>1, <2>2, Multiples, Sizes
  <2> DEFINE x == n * ChunkSize
             y == q * ChunkSize
  <2>4. x \in Nat /\ y \in Nat /\ L <= x /\ x + ChunkSize <= y /\ y <= L + ChunkSize - 1
    BY <1>3, <2>2, <2>3
  <2> HIDE DEF x, y
  <2> QED
    BY <1>1, <2>4, Sizes
<1>7. NumReads = Min(S)
  BY DEF NumReads, L
<1>8. Min(S) \in S /\ \A n \in S : Min(S) <= n
  <2> HIDE DEF S
  <2> QED
    BY <1>5, MinIs
<1> HIDE DEF S
<1>9. Min(S) = q
  <2>1. q <= Min(S) /\ Min(S) <= q /\ Min(S) \in Nat
    BY <1>5, <1>6, <1>8
  <2> QED
    BY <1>3, <2>1
<1> QED
  BY <1>3, <1>7, <1>9 DEF GetNumChunks, q, L

LEMMA MakeChunksInv ==
  Inv /\ MakeChunks => Inv'
<1> SUFFICES ASSUME Inv, MakeChunks PROVE Inv'
  OBVIOUS
<1>1. UNCHANGED <<file, junk, has, buf, chunks, sent, outputfile>>
  BY DEF MakeChunks
<1>2. FilesInv' /\ HasInv' /\ ChunksInv' /\ SentInv' /\ OutputInv'
  <2>1. FilesInv' /\ HasInv'
    BY <1>1, ChunksStay DEF Inv, FilesInv, HasInv
  <2>2. ChunksInv' /\ SentInv'
    BY <1>1, ChunksStay DEF Inv, ChunksInv, SentInv, DataBuf
  <2>3. OutputInv'
    BY <1>1, ChunksStay DEF Inv, OutputInv, IsInPlace
  <2> QED
    BY <2>1, <2>2, <2>3
<1>3. ListingInv'
  <2>1. NumReads = GetNumChunks(Len(file))
    BY NumReadsIs DEF Inv
  <2>2. listing' = [k \in 1 .. GetNumChunks(Len(file)) |-> [id |-> k - 1, hash |-> ShaHash(Chunk(k - 1))]]
    BY <2>1, Zenon DEF MakeChunks, Chunk
  <2>3. file' = file
    BY <1>1
  <2> QED
    BY <2>2, <2>3, ChunksStay DEF ListingInv
<1> QED
  BY <1>2, <1>3 DEF Inv

(***************************************************************************)
(* The server and the client begin.                                        *)
(***************************************************************************)

LEMMA Lines ==
  ASSUME Inv, listing # None
  PROVE  \A k \in DOMAIN listing : IsLine(listing[k].id, listing[k].hash)
<1>1. NumReads = GetNumChunks(Len(file)) /\ NumReads \in Nat
  BY NumReadsIs DEF Inv
<1>2. listing = [k \in 1 .. NumReads |-> [id |-> k - 1, hash |-> ShaHash(Chunk(k - 1))]]
  BY <1>1 DEF Inv, ListingInv
<1>3. ASSUME NEW k \in DOMAIN listing PROVE IsLine(listing[k].id, listing[k].hash)
  <2>1. k \in 1 .. NumReads /\ k - 1 \in Nat
    BY <1>1, <1>2
  <2>2. listing[k].id = k - 1 /\ listing[k].hash = ShaHash(Chunk(k - 1))
    BY <1>2, <2>1
  <2> QED
    BY <2>1, <2>2 DEF IsLine
<1> QED
  BY <1>3

LEMMA InitResponserInv ==
  Inv /\ InitResponser => Inv'
<1> SUFFICES ASSUME Inv, InitResponser PROVE Inv'
  OBVIOUS
<1>1. UNCHANGED <<file, listing, junk, buf, chunks, sent, outputfile>>
  BY DEF InitResponser
<1>2. FilesInv' /\ ListingInv' /\ ChunksInv' /\ SentInv' /\ OutputInv'
  <2>1. FilesInv' /\ ListingInv'
    BY <1>1, ChunksStay DEF Inv, FilesInv, ListingInv
  <2>2. ChunksInv' /\ SentInv'
    BY <1>1, ChunksStay DEF Inv, ChunksInv, SentInv, DataBuf
  <2>3. OutputInv'
    BY <1>1, ChunksStay DEF Inv, OutputInv, IsInPlace
  <2> QED
    BY <2>1, <2>2, <2>3
<1>3. HasInv'
  <2>1. listing # None
    BY DEF InitResponser
  <2>2. PICK n \in 0 .. Len(listing) : \E lines \in [1 .. n -> DOMAIN listing] :
          has' = [k \in 1 .. n |-> listing[lines[k]]]
    BY DEF InitResponser
  <2>3. PICK lines \in [1 .. n -> DOMAIN listing] : has' = [k \in 1 .. n |-> listing[lines[k]]]
    BY <2>2
  <2>4. n \in Nat
    OBVIOUS
  <2>5. ASSUME NEW k \in 1 .. n PROVE IsLine(has'[k].id, has'[k].hash)
    <3>1. lines[k] \in DOMAIN listing /\ has'[k] = listing[lines[k]]
      BY <2>3
    <3> QED
      BY <2>1, <3>1, Lines
  <2>6. DOMAIN has' = 1 .. n
    BY <2>3
  <2> QED
    BY <1>1, <2>4, <2>5, <2>6, ChunksStay DEF HasInv
<1> QED
  BY <1>2, <1>3 DEF Inv

LEMMA InitRequestorInv ==
  Inv /\ InitRequestor => Inv'
<1> SUFFICES ASSUME Inv, InitRequestor PROVE Inv'
  OBVIOUS
<1>1. /\ UNCHANGED <<file, listing, junk, has, buf, sent>>
      /\ listing # None /\ chunks = None /\ outputfile' = <<>>
  BY DEF InitRequestor
<1>2. FilesInv' /\ ListingInv' /\ HasInv'
  BY <1>1, ChunksStay, EmptySeq DEF Inv, FilesInv, ListingInv, HasInv
<1>3. SentInv'
  BY <1>1 DEF Inv, SentInv
<1> DEFINE Asked(n, lines) ==
             [i \in 1 .. n |-> [id |-> listing[lines[i]].id, hash |-> listing[lines[i]].hash,
                                finished |-> FALSE]]
<1>4. PICK n \in 0 .. MaxList : \E lines \in [1 .. n -> DOMAIN listing] : chunks' = Asked(n, lines)
  BY DEF InitRequestor
<1>5. PICK lines \in [1 .. n -> DOMAIN listing] : chunks' = Asked(n, lines)
  BY <1>4
<1>6. n \in Nat
  BY ChunkFilesAssumption
<1>7. ASSUME NEW i \in 1 .. n
      PROVE  /\ chunks'[i] \in Requested /\ ~ chunks'[i].finished
             /\ IsLine(chunks'[i].id, chunks'[i].hash)
  <2> DEFINE e == listing[lines[i]]
  <2>1. IsLine(e.id, e.hash)
    <3>1. lines[i] \in DOMAIN listing
      OBVIOUS
    <3> QED
      BY <1>1, <3>1, Lines
  <2>2. chunks'[i] = [id |-> e.id, hash |-> e.hash, finished |-> FALSE]
    BY <1>5
  <2> HIDE DEF e
  <2>3. e.id \in Nat /\ e.hash \in {ShaHash(s) : s \in Seq(Byte)}
    BY <2>1, ChunkIs DEF IsLine, Inv
  <2> QED
    BY <2>1, <2>2, <2>3 DEF Requested
<1>8. chunks' \in [1 .. n -> Requested]
  BY <1>5, <1>7
<1>9. ChunksInv'
  BY <1>1, <1>6, <1>7, <1>8, ChunksStay DEF ChunksInv
<1>10. OutputInv'
  <2>1. Len(outputfile') = 0
    BY <1>1
  <2>2. Len(chunks') = n /\ DOMAIN chunks' = 1 .. n
    BY <1>6, <1>8, FunctionIsSeq
  <2>3. 0 <= n * ChunkSize
    BY <1>6, Multiples, Sizes
  <2> QED
    BY <1>7, <2>1, <2>2, <2>3 DEF OutputInv
<1> QED
  BY <1>2, <1>3, <1>9, <1>10 DEF Inv

(***************************************************************************)
(* A chunk is sent and taken.                                              *)
(***************************************************************************)

(* The packets of a whole chunk are the chunk.                             *)
LEMMA WholeIsSent ==
  ASSUME FilesInv, NEW id \in Nat, NEW packets, AreSent(packets, id)
  PROVE  /\ FlattenSeq(packets) \in Seq(Byte) /\ Len(FlattenSeq(packets)) = ChunkSize
         /\ ~ junk /\ IsWhole(id) => FlattenSeq(packets) = Chunk(id)
<1> DEFINE flat == FlattenSeq(packets)
<1>1. NumPackets \in Nat /\ NumPackets * PacketSize = ChunkSize
  BY PacketsInAChunk
<1>2. packets \in [1 .. NumPackets -> Buffer]
  BY DEF AreSent
<1>3. packets \in [1 .. NumPackets -> Seq(Byte)] /\ \A k \in 1 .. NumPackets : Len(packets[k]) = PacketSize
  BY <1>2 DEF Buffer
<1>4. IsFlat(Byte, flat, packets, NumPackets, PacketSize)
  BY <1>1, <1>3, FlatRow, Sizes
<1> HIDE DEF flat
<1>5. flat \in Seq(Byte) /\ Len(flat) = ChunkSize
  BY <1>1, <1>4 DEF IsFlat, IsRow
<1>6. ASSUME ~ junk, IsWhole(id) PROVE flat = Chunk(id)
  <2>1. /\ Chunk(id) \in Seq(Byte) /\ Len(Chunk(id)) = ChunkSize
        /\ id * ChunkSize + ChunkSize <= Len(file)
        /\ \A x \in 1 .. ChunkSize : Chunk(id)[x] = file[id * ChunkSize + x]
    BY <1>6, ChunkIs DEF IsWhole
  <2>2. ASSUME NEW x \in 1 .. ChunkSize PROVE flat[x] = Chunk(id)[x]
    <3>1. x \in 1 .. NumPackets * PacketSize
      BY <1>1
    <3>2. PICK k \in 1 .. NumPackets, j \in 1 .. PacketSize : x = (k - 1) * PacketSize + j
      <4> DEFINE IsAt(n, size, y) == \E k \in 1 .. n, j \in 1 .. size : y = (k - 1) * size + j
      <4>1. ASSUME NEW n \in Nat, NEW size \in Nat \ {0}, NEW y \in 1 .. n * size
            PROVE  IsAt(n, size, y)
        BY Position
      <4>2. NumPackets \in Nat /\ PacketSize \in Nat \ {0}
        BY <1>1, Sizes
      <4> HIDE DEF IsAt
      <4>3. IsAt(NumPackets, PacketSize, x)
        BY <3>1, <4>1, <4>2
      <4> QED
        BY <4>3 DEF IsAt
    <3>3. flat[x] = packets[k][j]
      BY <1>4, <3>2 DEF IsFlat, IsRow
    <3>4. packets[k][j] = file[id * ChunkSize + x]
      BY <1>6, <2>1, <3>2 DEF AreSent
    <3> QED
      BY <2>1, <3>3, <3>4
  <2> QED
    BY <1>5, <2>1, <2>2, SeqEqual
<1> QED
  BY <1>5, <1>6 DEF flat

LEMMA SendChunkInv ==
  ASSUME Inv, chunks # None, NEW i \in DOMAIN chunks, SendChunk(i)
  PROVE  Inv'
<1> DEFINE m == Min(Matching(chunks[i].hash))
           id == has[m].id
           packets == Packets(id)
           asked == chunks[i].id
<1>1. /\ UNCHANGED <<file, listing, junk, has, chunks, outputfile>>
      /\ has # None /\ ~ chunks[i].finished /\ Matching(chunks[i].hash) # {}
  BY DEF SendChunk
<1>2. sent' = [chunk |-> i, data |-> packets] /\ buf' = Last(packets)
  BY Zenon DEF SendChunk
<1>3. FilesInv
  BY DEF Inv
<1>4. IsLine(asked, chunks[i].hash)
  BY DEF Inv, ChunksInv
<1>5. id \in Nat /\ Chunk(id) = Chunk(asked)
  <2>1. PICK n \in Nat : DOMAIN has = 1 .. n /\ \A k \in 1 .. n : IsLine(has[k].id, has[k].hash)
    BY <1>1 DEF Inv, HasInv
  <2>2. Matching(chunks[i].hash) \in SUBSET Nat
    BY <2>1 DEF Matching
  <2>3. m \in Matching(chunks[i].hash)
    BY <1>1, <2>2, MinIs
  <2> HIDE DEF m
  <2>4. m \in 1 .. n /\ has[m].hash = chunks[i].hash
    BY <2>1, <2>3 DEF Matching
  <2>5. IsLine(id, chunks[i].hash)
    BY <2>1, <2>4
  <2> HIDE DEF id, asked
  <2>6. id \in Nat /\ asked \in Nat /\ ShaHash(Chunk(id)) = ShaHash(Chunk(asked))
    BY <1>4, <2>5 DEF IsLine
  <2>7. Chunk(id) \in Seq(Byte)
    BY <1>3, <2>6, ChunkIs
  <2> QED
    BY <1>3, <2>6, <2>7, HashTells
<1> HIDE DEF id, m
<1>6. AreSent(packets, id)
  BY <1>3, <1>5, PacketsAre DEF FilesInv
<1> HIDE DEF packets
<1>7. /\ FlattenSeq(packets) \in Seq(Byte) /\ Len(FlattenSeq(packets)) = ChunkSize
      /\ ~ junk /\ IsWhole(id) => FlattenSeq(packets) = Chunk(id)
  BY <1>3, <1>5, <1>6, WholeIsSent
<1>8. FilesInv'
  <2>1. packets \in [1 .. NumPackets -> Buffer] /\ NumPackets \in Nat \ {0}
    BY <1>6, PacketsInAChunk DEF AreSent
  <2>2. Len(packets) = NumPackets
    BY <2>1, FunctionIsSeq
  <2>3. Last(packets) \in Buffer
    BY <2>1, <2>2 DEF Last
  <2> QED
    BY <1>1, <1>2, <1>3, <2>3 DEF FilesInv, Buffer
<1>9. SentInv'
  <2>1. sent'.chunk = i /\ sent'.data = packets
    BY <1>2
  <2>2. DataBuf' = FlattenSeq(packets)
    BY <2>1 DEF DataBuf
  <2>3. IsWhole(asked) <=> IsWhole(id)
    BY <1>5 DEF IsWhole
  <2>4. /\ chunks' # None /\ i \in DOMAIN chunks' /\ ~ chunks'[i].finished /\ chunks'[i].id = asked
    BY <1>1
  <2>5. junk' = junk /\ \A x : IsWhole(x)' = IsWhole(x) /\ Chunk(x)' = Chunk(x)
    BY <1>1, ChunksStay
  <2> HIDE DEF asked
  <2> QED
    BY <1>5, <1>7, <2>1, <2>2, <2>3, <2>4, <2>5 DEF SentInv
<1>10. ListingInv' /\ HasInv' /\ ChunksInv'
  BY <1>1, ChunksStay DEF Inv, ListingInv, HasInv, ChunksInv
<1>11. OutputInv'
  BY <1>1, ChunksStay DEF Inv, OutputInv, IsInPlace
<1> QED
  BY <1>8, <1>9, <1>10, <1>11 DEF Inv

(* A client takes the bytes of the chunk it asked for and no others.       *)
LEMMA TakenIsWhole ==
  ASSUME Inv, sent # None
  PROVE  /\ IsGenuine(sent.chunk) => DataBuf = Chunk(chunks[sent.chunk].id)
                                     /\ IsWhole(chunks[sent.chunk].id)
         /\ ~ junk /\ IsWhole(chunks[sent.chunk].id) => IsGenuine(sent.chunk)
<1> DEFINE i == sent.chunk
           id == chunks[i].id
<1>1. /\ chunks # None /\ i \in DOMAIN chunks
      /\ DataBuf \in Seq(Byte) /\ Len(DataBuf) = ChunkSize
      /\ ~ junk /\ IsWhole(id) => DataBuf = Chunk(id)
  BY DEF Inv, SentInv
<1>2. IsLine(id, chunks[i].hash)
  BY <1>1 DEF Inv, ChunksInv
<1>3. id \in Nat /\ chunks[i].hash = ShaHash(Chunk(id))
  BY <1>2 DEF IsLine
<1>4. IsGenuine(i) <=> ShaHash(DataBuf) = ShaHash(Chunk(id))
  BY <1>3 DEF IsGenuine
<1>5. ASSUME IsGenuine(i) PROVE DataBuf = Chunk(id) /\ IsWhole(id)
  <2>1. DataBuf = Chunk(id)
    <3> HIDE DEF id, i
    <3> QED
      BY <1>1, <1>3, <1>4, <1>5, HashTells DEF Inv
  <2> QED
    BY <1>1, <2>1 DEF IsWhole
<1> QED
  BY <1>1, <1>4, <1>5

LEMMA FinishChunkInv ==
  Inv /\ FinishChunk => Inv'
<1> SUFFICES ASSUME Inv, FinishChunk PROVE Inv'
  OBVIOUS
<1> DEFINE i == sent.chunk
           id == chunks[i].id
<1>1. UNCHANGED <<file, listing, junk, has, buf>> /\ sent # None /\ sent' = None
  BY DEF FinishChunk
<1>2. ListingInv' /\ HasInv' /\ SentInv'
  BY <1>1, ChunksStay DEF Inv, ListingInv, HasInv, SentInv
<1>3. CASE ~ IsGenuine(i)
  <2>1. UNCHANGED <<outputfile, chunks>>
    BY <1>3 DEF FinishChunk
  <2>2. FilesInv' /\ ChunksInv'
    BY <1>1, <2>1, ChunksStay DEF Inv, FilesInv, ChunksInv
  <2>3. OutputInv'
    BY <1>1, <2>1, ChunksStay DEF Inv, OutputInv, IsInPlace
  <2> QED
    BY <1>2, <2>2, <2>3 DEF Inv
<1>4. CASE IsGenuine(i)
  <2>1. /\ outputfile' = Written(outputfile, Place(i), DataBuf)
        /\ chunks' = [chunks EXCEPT ![i].finished = TRUE]
    BY <1>4 DEF FinishChunk
  <2>2. DataBuf = Chunk(id) /\ IsWhole(id)
    BY <1>1, <1>4, TakenIsWhole
  <2>3. /\ chunks # None /\ i \in DOMAIN chunks /\ DataBuf \in Seq(Byte) /\ Len(DataBuf) = ChunkSize
    BY <1>1 DEF Inv, SentInv
  <2>4. PICK n \in Nat : chunks \in [1 .. n -> Requested]
                         /\ \A k \in 1 .. n : IsLine(chunks[k].id, chunks[k].hash)
    BY <2>3 DEF Inv, ChunksInv
  <2>5. i \in 1 .. n
    BY <2>3, <2>4
  <2> HIDE DEF i
  <2>6. /\ chunks' \in [1 .. n -> Requested]
        /\ \A k \in 1 .. n : chunks'[k].id = chunks[k].id /\ chunks'[k].hash = chunks[k].hash
                             /\ (k # i => chunks'[k].finished = chunks[k].finished)
    BY <2>1, <2>4, <2>5 DEF Requested
  <2>7. ChunksInv'
    BY <1>1, <2>4, <2>6, ChunksStay DEF ChunksInv
  <2> DEFINE off == (i - 1) * ChunkSize
             D == DataBuf
             w == outputfile'
  <2>8. off \in Nat /\ off + ChunkSize = i * ChunkSize /\ i * ChunkSize <= n * ChunkSize
        /\ n * ChunkSize \in Nat
    <3>1. i \in Nat /\ i >= 1 /\ i <= n
      BY <2>4, <2>5
    <3>2. off \in Nat /\ off = i * ChunkSize - ChunkSize /\ i * ChunkSize <= n * ChunkSize
          /\ i * ChunkSize \in Nat /\ n * ChunkSize \in Nat
      BY <2>4, <3>1, Multiples, Sizes
    <3> DEFINE x == i * ChunkSize
    <3>3. off \in Nat /\ x \in Nat /\ off = x - ChunkSize
      BY <3>2
    <3>4. off + ChunkSize = x
      <4> HIDE DEF x, off
      <4> QED
        BY <3>3, Sizes
    <3> QED
      BY <3>2, <3>4
  <2>9. Overwrites(w, outputfile, off, D)
    <3>1. outputfile \in Seq(Byte)
      BY DEF Inv, FilesInv
    <3>2. w = Written(outputfile, off, D)
      BY <2>1 DEF Place
    <3> HIDE DEF w, off, D
    <3>3. D \in Seq(Byte)
      BY <2>3 DEF D
    <3>4. Overwrites(Written(outputfile, off, D), outputfile, off, D)
      BY <2>8, <3>1, <3>3, WrittenIs DEF off
    <3> QED
      BY <3>2, <3>4
  <2>10. FilesInv'
    BY <1>1, <2>9 DEF Inv, FilesInv, Overwrites, Buffer
  <2>11. OutputInv'
    <3>1. /\ Len(outputfile) \in Nat /\ Len(outputfile) <= n * ChunkSize
          /\ \A k \in 1 .. n : chunks[k].finished => IsInPlace(k, chunks[k].id)
      <4>1. Len(outputfile) \in Nat
        BY LenProperties DEF Inv, FilesInv
      <4>2. Len(chunks) = n /\ DOMAIN chunks = 1 .. n
        BY <2>4, FunctionIsSeq
      <4> QED
        BY <2>3, <4>1, <4>2 DEF Inv, OutputInv
    <3>2. /\ Len(w) = IF Len(outputfile) <= off + ChunkSize THEN off + ChunkSize ELSE Len(outputfile)
          /\ \A j \in 1 .. ChunkSize : w[off + j] = Chunk(id)[j]
          /\ \A j \in 1 .. Len(outputfile) : ~ (off + 1 <= j /\ j <= off + ChunkSize) => w[j] = outputfile[j]
      <4> HIDE DEF off, w, id
      <4> QED
        BY <2>2, <2>3, <2>9 DEF Overwrites
    <3>3. Len(w) <= n * ChunkSize
      BY <2>8, <3>1, <3>2
    <3>4. i * ChunkSize <= Len(w) /\ Len(outputfile) <= Len(w)
      <4> DEFINE y == i * ChunkSize
      <4>1. off \in Nat /\ off + ChunkSize = y /\ ChunkSize \in Nat /\ Len(outputfile) \in Nat
        BY <2>8, <3>1, Sizes
      <4>2. Len(w) = IF Len(outputfile) <= off + ChunkSize THEN off + ChunkSize ELSE Len(outputfile)
        BY <3>2
      <4>3. y <= Len(w) /\ Len(outputfile) <= Len(w)
        <5> HIDE DEF off, w, y
        <5> QED
          BY <4>1, <4>2
      <4> QED
        BY <4>3
    <3> DEFINE Kept(k, c) ==
                 /\ IsWhole(c) /\ k * ChunkSize <= Len(w)
                 /\ \A j \in 1 .. ChunkSize : w[(k - 1) * ChunkSize + j] = Chunk(c)[j]
    <3>5. Kept(i, id)
      BY <2>2, <3>2, <3>4
    <3>6. ASSUME NEW k \in 1 .. n, k # i, IsInPlace(k, chunks[k].id)
          PROVE  Kept(k, chunks[k].id)
      <4> DEFINE x == (k - 1) * ChunkSize
                 y == k * ChunkSize
      <4>1. k \in Nat /\ k >= 1 /\ i \in Nat /\ i >= 1
        BY <2>4, <2>5
      <4>2. x \in Nat /\ y \in Nat /\ x + ChunkSize = y
        <5>1. x = y - ChunkSize /\ x \in Nat /\ y \in Nat
          BY <4>1, Multiples, Sizes
        <5> HIDE DEF x, y
        <5> QED
          BY <5>1, Sizes
      <4>3. x >= off + ChunkSize \/ y <= off
        <5>1. CASE i < k
          <6>1. i * ChunkSize <= (k - 1) * ChunkSize
            <7>1. i <= k - 1 /\ k - 1 \in Nat
              BY <4>1, <5>1
            <7> QED
              BY <4>1, <7>1, Multiples, Sizes
          <6> QED
            BY <2>8, <6>1
        <5>2. CASE k < i
          <6>1. k <= i - 1 /\ i - 1 \in Nat
            BY <4>1, <5>2
          <6> QED
            BY <4>1, <6>1, Multiples, Sizes
        <5> QED
          BY <3>6, <4>1, <5>1, <5>2
      <4>4. IsWhole(chunks[k].id) /\ y <= Len(outputfile)
            /\ \A j \in 1 .. ChunkSize : outputfile[x + j] = Chunk(chunks[k].id)[j]
        BY <3>6 DEF IsInPlace
      <4> HIDE DEF x, y, off, w
      <4>5. y <= Len(w)
        <5>1. Len(w) \in Nat
          BY <2>9, LenProperties DEF Overwrites
        <5> QED
          BY <3>1, <3>4, <4>2, <4>4, <5>1
      <4>6. ASSUME NEW j \in 1 .. ChunkSize PROVE w[x + j] = outputfile[x + j]
        <5>1. x + j \in 1 .. Len(outputfile) /\ ~ (off + 1 <= x + j /\ x + j <= off + ChunkSize)
          BY <2>8, <3>1, <4>2, <4>3, <4>4, Sizes DEF off
        <5> QED
          BY <3>2, <5>1
      <4> QED
        BY <4>4, <4>5, <4>6 DEF x, y
    <3>7. \A k \in 1 .. n : chunks'[k].finished => Kept(k, chunks[k].id)
      <4> HIDE DEF Kept
      <4> QED
        BY <2>6, <3>1, <3>5, <3>6
    <3>8. \A k \in 1 .. n : chunks'[k].finished => IsInPlace(k, chunks[k].id)'
      <4>1. \A c : IsWhole(c)' = IsWhole(c) /\ Chunk(c)' = Chunk(c)
        BY <1>1, ChunksStay
      <4> QED
        BY <2>6, <3>7, <4>1 DEF IsInPlace
    <3>9. Len(chunks') = n /\ DOMAIN chunks' = 1 .. n
      BY <2>6, FunctionIsSeq
    <3> QED
      BY <2>6, <3>3, <3>8, <3>9 DEF OutputInv, IsInPlace
  <2> QED
    BY <1>2, <2>7, <2>10, <2>11 DEF Inv
<1> QED
  BY <1>3, <1>4

LEMMA NextInv ==
  Inv /\ [Next]_vars => Inv'
<1> SUFFICES ASSUME Inv, [Next]_vars PROVE Inv'
  OBVIOUS
<1>1. CASE UNCHANGED vars
  <2>1. UNCHANGED <<file, listing, junk, has, buf, chunks, sent, outputfile>>
    BY <1>1 DEF vars
  <2>2. FilesInv' /\ ListingInv' /\ HasInv' /\ ChunksInv' /\ SentInv'
    BY <2>1, ChunksStay DEF Inv, FilesInv, ListingInv, HasInv, ChunksInv, SentInv, DataBuf
  <2>3. OutputInv'
    BY <2>1, ChunksStay DEF Inv, OutputInv, IsInPlace
  <2> QED
    BY <2>2, <2>3 DEF Inv
<1>2. CASE MakeChunks
  BY <1>2, MakeChunksInv
<1>3. CASE InitResponser
  BY <1>3, InitResponserInv
<1>4. CASE InitRequestor
  BY <1>4, InitRequestorInv
<1>5. CASE \E i \in 1 .. MaxList : chunks # None /\ i \in DOMAIN chunks /\ SendChunk(i)
  BY <1>5, SendChunkInv
<1>6. CASE FinishChunk
  BY <1>6, FinishChunkInv
<1> QED
  BY <1>1, <1>2, <1>3, <1>4, <1>5, <1>6 DEF Next

(* The invariant holds.                                                    *)
THEOREM FilesInductive ==
  Spec => []Inv
<1>1. Init => Inv
  BY InitInv
<1>2. Inv /\ [Next]_vars => Inv'
  BY NextInv
<1> QED
  BY <1>1, <1>2, PTL DEF Spec


----------------------------------------------------------------------------
(***************************************************************************)
(* What a reader of the programs relies on.                                *)
(***************************************************************************)

(* A chunk in its place is what one reads there.                           *)
LEMMA InPlaceIs ==
  ASSUME FilesInv, NEW i \in Nat, i >= 1, NEW id \in Nat, IsInPlace(i, id)
  PROVE  SubSeq(outputfile, (i - 1) * ChunkSize + 1, i * ChunkSize) = Chunk(id)
<1> DEFINE x == (i - 1) * ChunkSize
           y == i * ChunkSize
           part == SubSeq(outputfile, x + 1, y)
           c == Chunk(id)
<1>1. x = y - ChunkSize /\ x \in Nat /\ y \in Nat
  BY Multiples, Sizes
<1>2. y <= Len(outputfile) /\ \A j \in 1 .. ChunkSize : outputfile[x + j] = c[j]
  BY DEF IsInPlace
<1>3. c \in Seq(Byte) /\ Len(c) = ChunkSize
  BY ChunkIs DEF IsInPlace, IsWhole
<1>4. outputfile \in Seq(Byte) /\ Len(outputfile) \in Nat
  BY LenProperties DEF FilesInv
<1> HIDE DEF x, y, c
<1>5. x + 1 \in 1 .. Len(outputfile) + 1 /\ y \in (x + 1) - 1 .. Len(outputfile)
      /\ y - (x + 1) + 1 = ChunkSize
  BY <1>1, <1>2, <1>4, Sizes
<1>6. /\ part \in Seq(Byte) /\ Len(part) = ChunkSize
      /\ \A j \in 1 .. ChunkSize : part[j] = outputfile[(x + 1) + j - 1]
  BY <1>4, <1>5, SubSeqProperties
<1> HIDE DEF part
<1>7. ASSUME NEW j \in 1 .. ChunkSize PROVE part[j] = c[j]
  <2>1. (x + 1) + j - 1 = x + j
    BY <1>1, Sizes
  <2> QED
    BY <1>2, <1>6, <2>1
<1>8. part = c
  BY <1>3, <1>6, <1>7, SeqEqual
<1> QED
  BY <1>8 DEF part, x, y, c

(* When all are in their places they are all there is.                     *)
LEMMA AllInPlace ==
  ASSUME FilesInv, NEW n \in Nat, NEW ids \in [1 .. n -> Nat],
         \A i \in 1 .. n : IsInPlace(i, ids[i]), Len(outputfile) <= n * ChunkSize
  PROVE  outputfile = FlattenSeq([i \in 1 .. n |-> Chunk(ids[i])])
<1> DEFINE pieces == [i \in 1 .. n |-> Chunk(ids[i])]
           flat == FlattenSeq(pieces)
<1>1. ASSUME NEW i \in 1 .. n PROVE Chunk(ids[i]) \in Seq(Byte) /\ Len(Chunk(ids[i])) = ChunkSize
  BY ChunkIs DEF IsInPlace, IsWhole
<1>2. pieces \in [1 .. n -> Seq(Byte)] /\ \A i \in 1 .. n : pieces[i] = Chunk(ids[i]) /\ Len(pieces[i]) = ChunkSize
  BY <1>1
<1> HIDE DEF pieces
<1>3. IsFlat(Byte, flat, pieces, n, ChunkSize)
  BY <1>2, FlatRow, Sizes
<1> HIDE DEF flat
<1>4. /\ flat \in Seq(Byte) /\ Len(flat) = n * ChunkSize
      /\ \A i \in 1 .. n, j \in 1 .. ChunkSize : flat[(i - 1) * ChunkSize + j] = pieces[i][j]
  BY <1>3 DEF IsFlat, IsRow
<1>5. outputfile \in Seq(Byte) /\ Len(outputfile) \in Nat /\ n * ChunkSize \in Nat
  BY LenProperties, Multiples, Sizes DEF FilesInv
<1>6. n * ChunkSize <= Len(outputfile)
  <2>1. CASE n = 0
    <3>1. n * ChunkSize = 0
      BY <2>1, Sizes
    <3> QED
      BY <1>5, <3>1
  <2>2. CASE n # 0
    <3>1. n \in 1 .. n
      BY <2>2
    <3> QED
      BY <3>1 DEF IsInPlace
  <2> QED
    BY <2>1, <2>2
<1>7. Len(outputfile) = n * ChunkSize
  <2> DEFINE y == n * ChunkSize
  <2>1. y \in Nat /\ y <= Len(outputfile) /\ Len(outputfile) <= y
    BY <1>5, <1>6
  <2>2. Len(outputfile) = y
    <3> HIDE DEF y
    <3> QED
      BY <1>5, <2>1
  <2> QED
    BY <2>2
<1>8. ASSUME NEW x \in 1 .. n * ChunkSize PROVE outputfile[x] = flat[x]
  <2> DEFINE IsAt(m, size, z) == \E i \in 1 .. m, j \in 1 .. size : z = (i - 1) * size + j
  <2>1. ASSUME NEW m \in Nat, NEW size \in Nat \ {0}, NEW z \in 1 .. m * size
        PROVE  IsAt(m, size, z)
    BY Position
  <2>2. ChunkSize \in Nat \ {0}
    BY Sizes
  <2> HIDE DEF IsAt
  <2>3. IsAt(n, ChunkSize, x)
    BY <2>1, <2>2
  <2>4. PICK i \in 1 .. n, j \in 1 .. ChunkSize : x = (i - 1) * ChunkSize + j
    BY <2>3 DEF IsAt
  <2>5. flat[x] = Chunk(ids[i])[j]
    BY <1>2, <1>4, <2>4
  <2>6. outputfile[x] = Chunk(ids[i])[j]
    BY <2>4 DEF IsInPlace
  <2> QED
    BY <2>5, <2>6
<1>9. outputfile = flat
  BY <1>4, <1>5, <1>7, <1>8, SeqEqual
<1> QED
  BY <1>9 DEF flat, pieces

LEMMA InvListed ==
  Inv => OutputIsListed
<1> SUFFICES ASSUME Inv, chunks # None
             PROVE  /\ \A i \in DOMAIN chunks : chunks[i].finished =>
                         /\ Len(outputfile) >= i * ChunkSize
                         /\ SubSeq(outputfile, (i - 1) * ChunkSize + 1, i * ChunkSize) = Chunk(chunks[i].id)
                    /\ (\A i \in DOMAIN chunks : chunks[i].finished) =>
                         outputfile = FlattenSeq([i \in DOMAIN chunks |-> Chunk(chunks[i].id)])
  BY DEF OutputIsListed
<1>1. PICK n \in Nat : chunks \in [1 .. n -> Requested]
                       /\ \A i \in 1 .. n : IsLine(chunks[i].id, chunks[i].hash)
  BY DEF Inv, ChunksInv
<1>2. FilesInv /\ Len(chunks) = n /\ DOMAIN chunks = 1 .. n
  BY <1>1, FunctionIsSeq DEF Inv
<1>3. /\ Len(outputfile) <= n * ChunkSize
      /\ \A i \in 1 .. n : chunks[i].finished => IsInPlace(i, chunks[i].id)
  BY <1>2 DEF Inv, OutputInv
<1>4. \A i \in 1 .. n : chunks[i].id \in Nat
  BY <1>1 DEF Requested
<1>5. ASSUME NEW i \in 1 .. n, chunks[i].finished
      PROVE  /\ Len(outputfile) >= i * ChunkSize
             /\ SubSeq(outputfile, (i - 1) * ChunkSize + 1, i * ChunkSize) = Chunk(chunks[i].id)
  <2>1. IsInPlace(i, chunks[i].id) /\ i \in Nat /\ i >= 1 /\ chunks[i].id \in Nat
    BY <1>3, <1>4, <1>5
  <2>2. i * ChunkSize <= Len(outputfile)
    BY <2>1 DEF IsInPlace
  <2>3. Len(outputfile) \in Nat /\ i * ChunkSize \in Nat
    BY <1>2, <2>1, LenProperties, Multiples, Sizes DEF FilesInv
  <2> QED
    BY <1>2, <2>1, <2>2, <2>3, InPlaceIs
<1>6. ASSUME \A i \in 1 .. n : chunks[i].finished
      PROVE  outputfile = FlattenSeq([i \in 1 .. n |-> Chunk(chunks[i].id)])
  <2> DEFINE ids == [i \in 1 .. n |-> chunks[i].id]
  <2>1. ids \in [1 .. n -> Nat] /\ \A i \in 1 .. n : ids[i] = chunks[i].id
    BY <1>4
  <2> HIDE DEF ids
  <2>2. \A i \in 1 .. n : IsInPlace(i, ids[i])
    BY <1>3, <1>6, <2>1
  <2>3. outputfile = FlattenSeq([i \in 1 .. n |-> Chunk(ids[i])])
    BY <1>2, <1>3, <2>1, <2>2, AllInPlace
  <2>4. [i \in 1 .. n |-> Chunk(ids[i])] = [i \in 1 .. n |-> Chunk(chunks[i].id)]
    BY <2>1
  <2> QED
    BY <2>3, <2>4
<1> QED
  BY <1>2, <1>5, <1>6

LEMMA StepTakesWhole ==
  Inv /\ [Next]_vars =>
    \A i \in 1 .. MaxList :
      sent # None /\ sent.chunk = i /\ sent' = None /\ ~ junk =>
        (chunks'[i].finished <=> IsWhole(chunks[i].id))
<1> SUFFICES ASSUME Inv, [Next]_vars, NEW i \in 1 .. MaxList,
                    sent # None, sent.chunk = i, sent' = None, ~ junk
             PROVE  chunks'[i].finished <=> IsWhole(chunks[i].id)
  OBVIOUS
<1>1. FinishChunk
  BY DEF Next, vars, MakeChunks, InitResponser, InitRequestor, SendChunk
<1>2. chunks # None /\ i \in DOMAIN chunks /\ ~ chunks[i].finished
  BY DEF Inv, SentInv
<1>3. IsGenuine(i) <=> IsWhole(chunks[i].id)
  BY TakenIsWhole
<1>4. CASE IsGenuine(i)
  <2>1. chunks' = [chunks EXCEPT ![i].finished = TRUE]
    BY <1>1, <1>4 DEF FinishChunk
  <2>2. PICK n \in Nat : chunks \in [1 .. n -> Requested]
    BY <1>2 DEF Inv, ChunksInv
  <2>3. chunks'[i].finished
    BY <1>2, <2>1, <2>2 DEF Requested
  <2> QED
    BY <1>3, <1>4, <2>3
<1>5. CASE ~ IsGenuine(i)
  <2>1. chunks' = chunks
    BY <1>1, <1>5 DEF FinishChunk
  <2> QED
    BY <1>2, <1>3, <1>5, <2>1
<1> QED
  BY <1>4, <1>5

(* What a finished chunk has put into the output is the listed chunk, at   *)
(* its place and whole, and the output of a list finished to the end is    *)
(* the listed chunks one after the other: for every file and every list,   *)
(* with whatever a server sent (finish_chunk and its fseek and fwrite).    *)
THEOREM OutputIsListedHolds ==
  Spec => []OutputIsListed
<1>1. Inv => OutputIsListed
  BY InvListed
<1> QED
  BY <1>1, FilesInductive, PTL

(* What a server built without JUNK sends of a chunk (send_chunk) is taken *)
(* by the client (finish_chunk) if and only if the chunk is a whole one.   *)
THEOREM WholeChunksAreTakenHolds ==
  Spec => WholeChunksAreTaken
<1>1. Inv /\ [Next]_vars =>
        \A i \in 1 .. MaxList :
          sent # None /\ sent.chunk = i /\ sent' = None /\ ~ junk =>
            (chunks'[i].finished <=> IsWhole(chunks[i].id))
  BY StepTakesWhole
<1> QED
  BY <1>1, FilesInductive, PTL DEF Spec, WholeChunksAreTaken

(* make-chunks prints as many lines as main has allocated hashes for by    *)
(* the length of the file, the k-th is numbered k - 1, and its hash is     *)
(* what the standard says SHA-1 is of the k-th chunk: that of the message  *)
(* padded and with its length as shahash does it, the short last chunk     *)
(* included, for every file and every size of blocks and chunks.           *)
THEOREM ListingIsExactHolds ==
  Spec => []ListingIsExact
<1>1. Inv => ListingIsExact
  <2> DEFINE n == GetNumChunks(Len(file))
             Line(k) == [id |-> k - 1, hash |-> ShaHash(Chunk(k - 1))]
             Standard(k) == [id |-> k - 1, hash |-> StandardBlocks(Chunk(k - 1))]
  <2> SUFFICES ASSUME Inv, listing # None
               PROVE  Len(listing) = n /\ \A k \in DOMAIN listing : listing[k] = Standard(k)
    BY DEF ListingIsExact
  <2>1. n \in Nat
    BY NumReadsIs DEF Inv
  <2>2. listing = [k \in 1 .. n |-> Line(k)]
    BY DEF Inv, ListingInv
  <2>3. ASSUME NEW k \in 1 .. n PROVE Line(k) = Standard(k)
    <3>1. k - 1 \in Nat
      BY <2>1
    <3>2. Chunk(k - 1) \in Seq(Byte)
      BY <3>1, ChunkIs DEF Inv
    <3>3. ShaHash(Chunk(k - 1)) = StandardBlocks(Chunk(k - 1))
      BY <3>2, StandardBlocksAre
    <3> QED
      BY <3>3
  <2> HIDE DEF n, Line, Standard
  <2>4. listing \in [1 .. n -> {Line(k) : k \in 1 .. n}]
    BY <2>2
  <2>5. Len(listing) = n
    BY <2>1, <2>4, FunctionIsSeq
  <2>6. \A k \in DOMAIN listing : k \in 1 .. n /\ listing[k] = Line(k)
    BY <2>2
  <2> QED
    BY <2>3, <2>5, <2>6
<1> QED
  BY <1>1, FilesInductive, PTL
=============================================================================
