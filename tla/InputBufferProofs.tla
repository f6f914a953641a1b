-------------------------- MODULE InputBufferProofs --------------------------
(* Proofs about the input buffer, for every size of it and whatever is     *)
(* typed.                                                                  *)
EXTENDS InputBuffer, FiniteSetTheorems, SequenceTheorems, WellFoundedInduction, TLAPS

Bytes == Letters \cup {NL}

(* Up to about half of the buffer is enough: the bytes that memmove leaves *)
(* behind the rest have all been overwritten by it or are zero.            *)
HalfIsEnough == 2 * MaxFill <= Size + 2

(***************************************************************************)
(* Induction: a set of numbers for which something fails has a smallest.   *)
(***************************************************************************)

LEMMA Smallest ==
  ASSUME NEW S \in SUBSET Nat, S # {}
  PROVE  \E m \in S : \A k \in S : m <= k
<1> DEFINE R == {p \in Nat \X Nat : p[1] < p[2]}
<1>1. OpToRel(<, Nat) = R
  BY DEF OpToRel
<1>2. PICK m \in S : \A k \in S : <<k, m>> \notin R
  <2> HIDE DEF R
  <2> QED
  BY <1>1, NatLessThanWellFounded, WFMin
<1>3. ASSUME NEW k \in S, k < m PROVE FALSE
  <2>1. <<k, m>> \in R
    BY <1>3
  <2> QED
    BY <1>2, <2>1
<1> QED
  BY <1>3

(* The buffer after each round of the loop.                                *)
Rounds(after, b, c) ==
  /\ after[0] = [buf |-> b, cur |-> c, handed |-> <<>>]
  /\ \A n \in 1 .. Size : after[n] = NextLine(after[n - 1])

LEMMA SplitRounds ==
  ASSUME NEW b, NEW c
  PROVE  \E after : Split(b, c) = after[Size] /\ Rounds(after, b, c)
<1> DEFINE first == [buf |-> b, cur |-> c, handed |-> <<>>]
           Round(f, n) == IF n = 0 THEN first ELSE NextLine(f[n - 1])
           Is(f, m) == f = [n \in 0 .. m |-> Round(f, n)]
           after == CHOOSE f : Is(f, Size)
           Bad == {m \in Nat : ~ \E f : Is(f, m)}
<1>1. Split(b, c) = after[Size]
  BY DEF Split
<1> HIDE DEF first
<1>2. Bad = {}
  <2>1. SUFFICES ASSUME Bad # {} PROVE FALSE
    OBVIOUS
  <2>2. PICK m \in Bad : \A k \in Bad : m <= k
    <3> HIDE DEF Is
    <3> QED
      BY <2>1, Smallest
  <2>3. m # 0
    <3> DEFINE f == [n \in 0 .. 0 |-> first]
    <3>1. \A n \in 0 .. 0 : Round(f, n) = first
      OBVIOUS
    <3>2. Is(f, 0)
      BY <3>1
    <3> QED
      BY <3>2
  <2>4. PICK f : Is(f, m - 1)
    <3>1. m - 1 \in Nat /\ m - 1 \notin Bad
      BY <2>2, <2>3
    <3> HIDE DEF Is
    <3> QED
      BY <3>1
  <2> DEFINE g == [n \in 0 .. m |-> Round(f, n)]
  <2>5. ASSUME NEW n \in 0 .. m PROVE Round(g, n) = Round(f, n)
    <3>1. CASE n # 0
      <4>1. n - 1 \in 0 .. m - 1 /\ n - 1 \in 0 .. m
        BY <3>1
      <4>2. f[n - 1] = Round(f, n - 1)
        BY <2>4, <4>1
      <4>3. g[n - 1] = f[n - 1]
        BY <4>1, <4>2
      <4> HIDE DEF g
      <4> QED
        BY <4>3
    <3> QED
      BY <3>1
  <2>6. Is(g, m)
    <3> HIDE DEF Round
    <3> QED
      BY <2>5
  <2> QED
    BY <2>2, <2>6
<1>3. Is(after, Size)
  <2>1. Size \in Nat /\ Size \notin Bad
    BY <1>2, InputBufferAssumption
  <2> HIDE DEF Is
  <2>2. \E f : Is(f, Size)
    BY <2>1
  <2> QED
    BY <2>2
<1> HIDE DEF after
<1>4. after[0] = first
  BY <1>3, InputBufferAssumption
<1>5. ASSUME NEW n \in 1 .. Size PROVE after[n] = NextLine(after[n - 1])
  <2>1. n \in 0 .. Size /\ n # 0
    BY InputBufferAssumption
  <2> QED
    BY <1>3, <2>1
<1> QED
  BY <1>1, <1>4, <1>5 DEF first, Rounds

----------------------------------------------------------------------------
(***************************************************************************)
(* The lines of a text.                                                    *)
(***************************************************************************)

NumLines(t) == Cardinality(Ends(t))
EndsTo(t, e) == {d \in Ends(t) : d <= e}

LEMMA EndsFinite ==
  ASSUME NEW t \in Seq(Bytes)
  PROVE  /\ IsFiniteSet(Ends(t)) /\ NumLines(t) \in Nat /\ NumLines(t) <= Len(t) /\ Len(t) \in Nat
         /\ Ends(t) = {e \in 1 .. Len(t) : t[e] = NL}
<1>1. Len(t) \in Nat /\ DOMAIN t = 1 .. Len(t)
  BY LenProperties
<1>2. Ends(t) = {e \in 1 .. Len(t) : t[e] = NL}
  BY <1>1 DEF Ends
<1>3. IsFiniteSet(1 .. Len(t)) /\ Cardinality(1 .. Len(t)) = Len(t)
  BY <1>1, FS_Interval
<1>4. Ends(t) \in SUBSET (1 .. Len(t))
  BY <1>2
<1>5. IsFiniteSet(Ends(t)) /\ Cardinality(Ends(t)) <= Cardinality(1 .. Len(t))
  BY <1>3, <1>4, FS_Subset
<1> QED
  BY <1>1, <1>2, <1>3, <1>5, FS_CardinalityType DEF NumLines

(* Each end has its number, which grows from one to the next.              *)
LEMMA EndsNumbered ==
  ASSUME NEW t \in Seq(Bytes)
  PROVE  /\ \A e \in Ends(t) : Cardinality(EndsTo(t, e)) \in 1 .. NumLines(t)
         /\ \A e, f \in Ends(t) : e < f => Cardinality(EndsTo(t, e)) < Cardinality(EndsTo(t, f))
<1> DEFINE E == Ends(t)
<1>1. IsFiniteSet(E) /\ E \subseteq Int
  BY EndsFinite
<1>2. ASSUME NEW e \in E
      PROVE  /\ IsFiniteSet(EndsTo(t, e)) /\ Cardinality(EndsTo(t, e)) \in Nat
             /\ Cardinality(EndsTo(t, e)) <= NumLines(t) /\ Cardinality(EndsTo(t, e)) # 0
  <2>1. EndsTo(t, e) \in SUBSET E /\ e \in EndsTo(t, e)
    BY <1>1 DEF EndsTo
  <2>2. IsFiniteSet(EndsTo(t, e)) /\ Cardinality(EndsTo(t, e)) <= NumLines(t)
    BY <1>1, <2>1, FS_Subset DEF NumLines
  <2> QED
    BY <2>1, <2>2, FS_EmptySet, FS_CardinalityType
<1>3. ASSUME NEW e \in E, NEW f \in E, e < f
      PROVE  Cardinality(EndsTo(t, e)) < Cardinality(EndsTo(t, f))
  <2>1. EndsTo(t, e) \in SUBSET EndsTo(t, f) /\ f \in EndsTo(t, f) /\ f \notin EndsTo(t, e)
    BY <1>1, <1>3 DEF EndsTo
  <2>2. /\ Cardinality(EndsTo(t, e)) <= Cardinality(EndsTo(t, f))
        /\ Cardinality(EndsTo(t, f)) = Cardinality(EndsTo(t, e)) => EndsTo(t, f) = EndsTo(t, e)
    BY <1>2, <2>1, FS_Subset
  <2> QED
    BY <1>2, <2>1, <2>2
<1>4. NumLines(t) \in Nat
  BY EndsFinite
<1> QED
  BY <1>2, <1>3, <1>4

(* So there is a k-th end for each k up to their number.                   *)
LEMMA LineEndIs ==
  ASSUME NEW t \in Seq(Bytes), NEW k \in 1 .. NumLines(t)
  PROVE  LineEnd(t, k) \in Ends(t) /\ Cardinality(EndsTo(t, LineEnd(t, k))) = k
<1> DEFINE E == Ends(t)
           N == NumLines(t)
           rank == [e \in E |-> Cardinality(EndsTo(t, e))]
<1>1. N \in Nat /\ IsFiniteSet(E) /\ E \subseteq Int
  BY EndsFinite
<1>2. IsFiniteSet(1 .. N) /\ Cardinality(1 .. N) = N
  BY <1>1, FS_Interval
<1>3. rank \in [E -> 1 .. N]
  BY EndsNumbered
<1>4. ASSUME NEW e \in E, NEW f \in E, rank[e] = rank[f] PROVE e = f
  <2>1. ~ e < f /\ ~ f < e
    BY <1>3, <1>4, EndsNumbered
  <2> QED
    BY <1>1, <2>1
<1>5. rank \in Injection(E, 1 .. N)
  <2> HIDE DEF rank
  <2> QED
    BY <1>3, <1>4 DEF Injection, IsInjective
<1>6. rank \in Surjection(E, 1 .. N)
  <2> HIDE DEF rank
  <2> QED
    BY <1>2, <1>5, FS_Injection DEF NumLines
<1>7. PICK e \in E : rank[e] = k
  <2> HIDE DEF rank
  <2> QED
    BY <1>6 DEF Surjection
<1>8. \E d \in E : Cardinality({c \in E : c <= d}) = k
  BY <1>7 DEF EndsTo
<1> QED
  BY <1>8 DEF LineEnd, EndsTo

(* Line k + 1 starts behind the end of line k and has no newline before    *)
(* its own end; if it has none, it is what remains.                        *)
LEMMA LineBreaks ==
  ASSUME NEW t \in Seq(Bytes), NEW k \in 0 .. NumLines(t)
  PROVE  /\ LineStart(t, k + 1) \in 1 .. Len(t) + 1
         /\ k < NumLines(t) =>
              /\ LineEnd(t, k + 1) \in LineStart(t, k + 1) .. Len(t) /\ t[LineEnd(t, k + 1)] = NL
              /\ \A j \in LineStart(t, k + 1) .. LineEnd(t, k + 1) - 1 : t[j] # NL
              /\ LineStart(t, k + 2) = LineEnd(t, k + 1) + 1
         /\ k = NumLines(t) => \A j \in LineStart(t, k + 1) .. Len(t) : t[j] # NL
<1> DEFINE N == NumLines(t)
           start == LineStart(t, k + 1)
           end == LineEnd(t, k + 1)
<1>1. N \in Nat /\ Len(t) \in Nat /\ Ends(t) = {e \in 1 .. Len(t) : t[e] = NL} /\ k \in Nat
  BY EndsFinite
<1>2. start = IF k = 0 THEN 1 ELSE LineEnd(t, k) + 1
  <2>1. k + 1 = 1 <=> k = 0
    BY <1>1
  <2>2. (k + 1) - 1 = k
    BY <1>1
  <2> QED
    BY <2>1, <2>2 DEF LineStart
<1>3. ASSUME k # 0
      PROVE  /\ LineEnd(t, k) \in Ends(t) /\ Cardinality(EndsTo(t, LineEnd(t, k))) = k
             /\ start = LineEnd(t, k) + 1
  <2>1. k \in 1 .. N
    BY <1>1, <1>3
  <2> QED
    BY <1>2, <1>3, <2>1, LineEndIs
<1>4. start \in 1 .. Len(t) + 1
  BY <1>1, <1>2, <1>3
<1>5. ASSUME NEW j \in Ends(t), j >= start PROVE Cardinality(EndsTo(t, j)) > k
  <2>1. CASE k = 0
    BY <1>1, <2>1, EndsNumbered
  <2>2. CASE k # 0
    <3>1. LineEnd(t, k) < j
      BY <1>1, <1>3, <1>5, <2>2
    <3> QED
      BY <1>3, <2>2, <3>1, EndsNumbered
  <2> QED
    BY <2>1, <2>2
<1>6. ASSUME k = N, NEW j \in start .. Len(t), t[j] = NL PROVE FALSE
  <2>1. j \in Ends(t) /\ j >= start
    BY <1>1, <1>4, <1>6
  <2>2. Cardinality(EndsTo(t, j)) > k /\ Cardinality(EndsTo(t, j)) \in 1 .. N
    BY <1>5, <2>1, EndsNumbered
  <2> QED
    BY <1>1, <1>6, <2>2
<1>7. ASSUME k < N
      PROVE  /\ end \in start .. Len(t) /\ t[end] = NL
             /\ \A j \in start .. end - 1 : t[j] # NL
             /\ LineStart(t, k + 2) = end + 1
  <2>1. k + 1 \in 1 .. N
    BY <1>1, <1>7
  <2>2. end \in Ends(t) /\ Cardinality(EndsTo(t, end)) = k + 1
    BY <2>1, LineEndIs
  <2>3. start <= end
    <3>1. CASE k = 0
      BY <1>1, <1>2, <2>2, <3>1
    <3>2. CASE k # 0
      <4>1. ~ end < LineEnd(t, k) /\ end # LineEnd(t, k)
        BY <1>1, <1>3, <2>2, <3>2, EndsNumbered
      <4> QED
        BY <1>1, <1>3, <2>2, <3>2, <4>1
    <3> QED
      BY <3>1, <3>2
  <2>4. ASSUME NEW j \in start .. end - 1, t[j] = NL PROVE FALSE
    <3>1. j \in Ends(t) /\ j >= start /\ j < end
      BY <1>1, <1>4, <2>2, <2>4
    <3>2. Cardinality(EndsTo(t, j)) > k /\ Cardinality(EndsTo(t, j)) < k + 1
      BY <1>5, <2>2, <3>1, EndsNumbered
    <3>3. Cardinality(EndsTo(t, j)) \in Nat
      BY <1>1, <3>1, EndsNumbered
    <3> QED
      BY <1>1, <3>2, <3>3
  <2>5. LineStart(t, k + 2) = end + 1
    <3>1. k + 2 # 1 /\ (k + 2) - 1 = k + 1
      BY <1>1
    <3> QED
      BY <3>1 DEF LineStart
  <2> QED
    BY <1>1, <2>2, <2>3, <2>4, <2>5
<1> QED
  BY <1>1, <1>4, <1>6, <1>7

----------------------------------------------------------------------------
(***************************************************************************)
(* The loop over the lines of t, the text that waits when it starts.       *)
(***************************************************************************)

(* The k-th of the lines handed over, and so on: k lines are handed over,  *)
(* what is behind them is in the buffer, and all places behind that are    *)
(* zero.                                                                   *)
Loop(t, s, k) ==
  /\ s.handed = [j \in 1 .. k |-> SubSeq(t, LineStart(t, j), LineEnd(t, j) - 1)]
  /\ s.cur = Len(t) - LineStart(t, k + 1) + 1
  /\ s.buf = [i \in Places |-> IF i < s.cur THEN t[i + LineStart(t, k + 1)] ELSE NUL]

Waiting(t) == t \in Seq(Bytes) /\ Len(t) <= MaxFill

LEMMA BytesNotZero == \A c \in Bytes : c # NUL
  BY InputBufferAssumption DEF Bytes

(* strchr finds the end of line k + 1, and nothing when there is none.     *)
LEMMA FoundEnd ==
  ASSUME NEW t, Waiting(t), NEW k \in 0 .. NumLines(t), NEW s, Loop(t, s, k), NEW r \in Places
  PROVE  Found(s.buf, r) <=> k < NumLines(t) /\ r = LineEnd(t, k + 1) - LineStart(t, k + 1)
<1> DEFINE start == LineStart(t, k + 1)
           end == LineEnd(t, k + 1)
           b == s.buf
<1>1. /\ Len(t) \in Nat /\ start \in 1 .. Len(t) + 1 /\ Len(t) <= Size
      /\ NumLines(t) \in Nat /\ k \in Nat /\ Size \in Nat
  BY EndsFinite, LineBreaks, InputBufferAssumption DEF Waiting
<1>2. s.cur = Len(t) - start + 1 /\ s.cur \in 0 .. Size
  BY <1>1 DEF Loop
<1>3. \A i \in Places : i < s.cur => b[i] = t[i + start] /\ i + start \in 1 .. Len(t)
  BY <1>1, <1>2 DEF Loop, Places
<1>4. \A i \in Places : ~ i < s.cur => b[i] = NUL
  BY DEF Loop
<1>5. \A j \in 1 .. Len(t) : t[j] # NUL
  BY BytesNotZero, ElementOfSeq DEF Waiting
<1> HIDE DEF b, start, end
<1>6. ASSUME k = NumLines(t), Found(b, r) PROVE FALSE
  <2>1. b[r] = NL /\ NL # NUL
    BY <1>6, InputBufferAssumption DEF Found
  <2>2. r < s.cur /\ r \in Nat
    BY <1>4, <2>1 DEF Places
  <2>3. r + start \in start .. Len(t) /\ t[r + start] = NL
    BY <1>1, <1>2, <1>3, <2>1, <2>2
  <2> QED
    BY <1>6, <2>3, LineBreaks DEF Waiting, start
<1>7. ASSUME k < NumLines(t) PROVE Found(b, r) <=> r = end - start
  <2>1. end \in start .. Len(t) /\ t[end] = NL /\ \A j \in start .. end - 1 : t[j] # NL
    BY <1>7, LineBreaks DEF Waiting, start, end
  <2>2. end - start \in Places /\ end - start < s.cur /\ (end - start) + start = end
    BY <1>1, <1>2, <2>1 DEF Places
  <2>3. b[end - start] = NL
    BY <1>3, <2>1, <2>2
  <2>4. ASSUME NEW i \in 0 .. end - start - 1 PROVE i \in Places /\ b[i] \notin {NL, NUL}
    <3>1. i \in Places /\ i < s.cur /\ i + start \in start .. end - 1
      BY <1>1, <1>2, <2>1, <2>2 DEF Places
    <3>2. b[i] = t[i + start] /\ i + start \in 1 .. Len(t)
      BY <1>3, <3>1
    <3>3. t[i + start] # NL
      BY <2>1, <3>1
    <3> QED
      BY <1>5, <3>1, <3>2, <3>3
  <2>5. ASSUME Found(b, r), r # end - start PROVE FALSE
    <3>1. CASE r < end - start
      <4>1. r \in 0 .. end - start - 1
        BY <1>1, <2>1, <3>1 DEF Places
      <4> QED
        BY <2>4, <2>5, <4>1 DEF Found
    <3>2. CASE end - start < r
      <4>1. end - start \in 0 .. r - 1
        BY <1>1, <2>1, <3>2 DEF Places
      <4> QED
        BY <2>3, <2>5, <4>1 DEF Found
    <3> QED
      BY <1>1, <2>1, <2>5, <3>1, <3>2 DEF Places
  <2>6. Found(b, end - start)
    BY <2>3, <2>4 DEF Found
  <2> QED
    BY <2>5, <2>6
<1>8. k = NumLines(t) \/ k < NumLines(t)
  BY <1>1
<1> QED
  BY <1>1, <1>6, <1>7, <1>8 DEF b, start, end

(* A round hands over one line more.                                       *)
LEMMA LineHanded ==
  ASSUME HalfIsEnough, NEW t, Waiting(t), NEW k \in Nat, k < NumLines(t), NEW s, Loop(t, s, k)
  PROVE  Loop(t, NextLine(s), k + 1)
<1> DEFINE start == LineStart(t, k + 1)
           end == LineEnd(t, k + 1)
           r == end - start
           b == s.buf
           line == [j \in 1 .. r |-> b[j - 1]]
           new == Moved([b EXCEPT ![r] = NUL], r)
<1>1. /\ Len(t) \in Nat /\ start \in 1 .. Len(t) + 1 /\ Len(t) <= MaxFill /\ MaxFill <= Size
      /\ NumLines(t) \in Nat /\ Size \in Nat /\ MaxFill \in Nat /\ k \in 0 .. NumLines(t)
  BY EndsFinite, LineBreaks, InputBufferAssumption DEF Waiting
<1>2. end \in start .. Len(t) /\ LineStart(t, (k + 1) + 1) = end + 1
  <2>1. (k + 1) + 1 = k + 2
    OBVIOUS
  <2> QED
    BY <1>1, <2>1, LineBreaks DEF Waiting
<1>3. s.cur = Len(t) - start + 1 /\ s.cur \in 1 .. MaxFill /\ r \in 0 .. s.cur - 1
  BY <1>1, <1>2 DEF Loop
<1>4. r \in Places /\ \A q \in Places : Found(b, q) <=> q = r
  BY <1>1, <1>2, FoundEnd DEF Places
<1> HIDE DEF r
<1>5. NextLine(s) = [buf |-> new, cur |-> CurAfter(s.cur, r), handed |-> Append(s.handed, line)]
  <2>1. (CHOOSE q \in Places : Found(b, q)) = r
    BY <1>4
  <2> QED
    BY <1>4, <2>1 DEF NextLine
<1>6. \A i \in Places : b[i] = IF i < s.cur THEN t[i + start] ELSE NUL
  BY DEF Loop
<1>7. CurAfter(s.cur, r) = Len(t) - (end + 1) + 1
  <2>1. s.cur - (r + 1) = Len(t) - (end + 1) + 1
    BY <1>1, <1>2, <1>3, SMTT(30) DEF r
  <2>2. s.cur - (r + 1) \in 0 .. UnsignedModulus - 1 /\ UnsignedModulus \in Nat \ {0}
    BY <1>1, <1>3, InputBufferAssumption
  <2> QED
    BY <2>1, <2>2 DEF CurAfter
<1>8. line = SubSeq(t, start, end - 1)
  <2>1. SubSeq(t, start, end - 1) = [j \in 1 .. (end - 1) - start + 1 |-> t[start + j - 1]]
    <3>1. \A j \in start .. end - 1 : t[j] \in Bytes
      BY <1>1, <1>2, ElementOfSeq DEF Waiting
    <3>2. start \in Int /\ end - 1 \in Int /\ (start <= end - 1 \/ (end - 1) - start + 1 = 0)
      BY <1>1, <1>2
    <3> HIDE DEF start, end
    <3> DEFINE u == SubSeq(t, start, end - 1)
    <3>3. /\ u \in Seq(Bytes) /\ Len(u) = IF start <= end - 1 THEN (end - 1) - start + 1 ELSE 0
          /\ \A j \in 1 .. (end - 1) - start + 1 : u[j] = t[start + j - 1]
      BY <3>1, <3>2, SubSeqProperties
    <3> HIDE DEF u
    <3>4. Len(u) = (end - 1) - start + 1
      BY <3>2, <3>3
    <3>5. u = [j \in 1 .. (end - 1) - start + 1 |-> u[j]]
      BY <3>3, <3>4, LenProperties
    <3>6. u = [j \in 1 .. (end - 1) - start + 1 |-> t[start + j - 1]]
      BY <3>3, <3>5
    <3> QED
      BY <3>6 DEF u
  <2>2. (end - 1) - start + 1 = r
    BY <1>1, <1>2 DEF r
  <2>3. ASSUME NEW j \in 1 .. r PROVE b[j - 1] = t[start + j - 1]
    <3>1. j - 1 \in Places /\ j - 1 < s.cur /\ (j - 1) + start = start + j - 1
      BY <1>1, <1>3 DEF Places
    <3> QED
      BY <1>6, <3>1
  <2> HIDE DEF start, end, b
  <2> QED
    BY <2>1, <2>2, <2>3
<1>9. Append(s.handed, line) = [j \in 1 .. k + 1 |-> SubSeq(t, LineStart(t, j), LineEnd(t, j) - 1)]
  <2> DEFINE l(j) == SubSeq(t, LineStart(t, j), LineEnd(t, j) - 1)
  <2>1. s.handed = [j \in 1 .. k |-> l(j)]
    BY DEF Loop
  <2>2. line = l(k + 1)
    BY <1>8
  <2> HIDE DEF l, line
  <2>3. Len(s.handed) = k
    BY <2>1
  <2>4. Append(s.handed, line) = [j \in 1 .. k + 1 |-> IF j = k + 1 THEN line ELSE s.handed[j]]
    BY <2>1, <2>3
  <2>5. \A j \in 1 .. k + 1 : (IF j = k + 1 THEN line ELSE s.handed[j]) = l(j)
    BY <2>1, <2>2
  <2>6. Append(s.handed, line) = [j \in 1 .. k + 1 |-> l(j)]
    BY <2>4, <2>5
  <2> QED
    BY <2>6 DEF l
<1>10. new = [i \in Places |-> IF i < Len(t) - (end + 1) + 1 THEN t[i + (end + 1)] ELSE NUL]
  <2> DEFINE z == [b EXCEPT ![r] = NUL]
  <2>1. \A i \in Places : z[i] = IF i = r \/ ~ i < s.cur THEN NUL ELSE t[i + start]
    BY <1>6 DEF Loop
  <2> HIDE DEF z
  <2>2. r = end - start
    BY DEF r
  <2> HIDE DEF start, end, b
  <2>3. ASSUME NEW i \in Places
        PROVE  (IF i + r + 1 <= Size THEN z[i + r + 1] ELSE z[i])
                 = IF i < Len(t) - (end + 1) + 1 THEN t[i + (end + 1)] ELSE NUL
    <3>1. i \in Nat /\ i <= Size
      BY <1>1 DEF Places
    <3>2. CASE i + r + 1 <= Size
      <4>1. i + r + 1 \in Places /\ i + r + 1 # r
        BY <1>1, <1>3, <3>1, <3>2 DEF Places
      <4>2. i + r + 1 < s.cur <=> i < Len(t) - (end + 1) + 1
        BY <1>1, <1>2, <1>3, <3>1, <2>2
      <4>3. (i + r + 1) + start = i + (end + 1)
        BY <1>1, <1>2, <3>1, <2>2
      <4> QED
        BY <2>1, <3>2, <4>1, <4>2, <4>3
    <3>3. CASE ~ (i + r + 1 <= Size)
      <4>1. i = r \/ ~ i < s.cur
        BY <1>1, <1>3, <3>1, <3>3 DEF HalfIsEnough
      <4>2. ~ (i < Len(t) - (end + 1) + 1)
        BY <1>1, <1>2, <1>3, <3>1, <3>3, <2>2
      <4> QED
        BY <2>1, <3>3, <4>1, <4>2
    <3> QED
      BY <3>2, <3>3
  <2>4. Moved(z, r) = [i \in Places |-> IF i < Len(t) - (end + 1) + 1 THEN t[i + (end + 1)] ELSE NUL]
    BY <2>3 DEF Moved
  <2> QED
    BY <2>4 DEF z
<1> DEFINE next == [buf |-> new, cur |-> CurAfter(s.cur, r), handed |-> Append(s.handed, line)]
<1>11. Loop(t, next, k + 1)
  <2>1. next.buf = new /\ next.cur = CurAfter(s.cur, r) /\ next.handed = Append(s.handed, line)
    OBVIOUS
  <2> HIDE DEF next, new, line, b
  <2> QED
    BY <1>2, <1>7, <1>9, <1>10, <2>1 DEF Loop
<1> HIDE DEF next
<1> QED
  BY <1>5, <1>11 DEF next

(* When the loop ends all lines have been handed over.                     *)
LEMMA SplitAll ==
  ASSUME HalfIsEnough, NEW t, Waiting(t),
         NEW b, b = [i \in Places |-> IF i < Len(t) THEN t[i + 1] ELSE NUL]
  PROVE  Loop(t, Split(b, Len(t)), NumLines(t))
<1> DEFINE N == NumLines(t)
           first == [buf |-> b, cur |-> Len(t), handed |-> <<>>]
           upTo(n) == IF n <= N THEN n ELSE N
<1>1. N \in Nat /\ N <= Size /\ Size \in Nat /\ Len(t) \in Nat
  BY EndsFinite, InputBufferAssumption DEF Waiting
<1>2. PICK after : Split(b, Len(t)) = after[Size] /\ Rounds(after, b, Len(t))
  BY SplitRounds
<1>3. after[0] = first /\ \A n \in 1 .. Size : after[n] = NextLine(after[n - 1])
  BY <1>2 DEF Rounds
<1> DEFINE Bad == {n \in 0 .. Size : ~ Loop(t, after[n], upTo(n))}
<1>4. Loop(t, after[0], upTo(0))
  <2>1. LineStart(t, 0 + 1) = 1
    BY DEF LineStart
  <2>2. Loop(t, first, 0)
    <3>1. Len(t) - 1 + 1 = Len(t)
      BY <1>1
    <3>2. <<>> = [j \in 1 .. 0 |-> SubSeq(t, LineStart(t, j), LineEnd(t, j) - 1)]
      OBVIOUS
    <3> QED
      BY <2>1, <3>1, <3>2 DEF Loop
  <2>3. upTo(0) = 0
    BY <1>1
  <2> QED
    BY <1>3, <2>2, <2>3
<1>5. ASSUME NEW n \in 1 .. Size, Loop(t, after[n - 1], upTo(n - 1))
      PROVE  Loop(t, after[n], upTo(n))
  <2>1. after[n] = NextLine(after[n - 1])
    BY <1>3
  <2>2. CASE n <= N
    <3>1. upTo(n - 1) = n - 1 /\ upTo(n) = (n - 1) + 1 /\ n - 1 \in Nat /\ n - 1 < N
      BY <1>1, <2>2
    <3> HIDE DEF upTo
    <3> QED
      BY <1>5, <2>1, <3>1, LineHanded
  <2>3. CASE ~ n <= N
    <3>1. upTo(n - 1) = N /\ upTo(n) = N /\ N \in 0 .. N /\ ~ N < N
      BY <1>1, <2>3
    <3> HIDE DEF upTo
    <3>2. \A r \in Places : ~ Found(after[n - 1].buf, r)
      BY <1>5, <3>1, FoundEnd
    <3>3. after[n] = after[n - 1]
      BY <2>1, <3>2 DEF NextLine
    <3> QED
      BY <1>5, <3>1, <3>3
  <2> QED
    BY <2>2, <2>3
<1>6. Bad = {}
  <2>1. SUFFICES ASSUME Bad # {} PROVE FALSE
    OBVIOUS
  <2>2. PICK n \in Bad : \A j \in Bad : n <= j
    <3>1. Bad \in SUBSET Nat
      BY <1>1
    <3> HIDE DEF Bad
    <3> QED
      BY <2>1, <3>1, Smallest
  <2> HIDE DEF upTo
  <2>3. n \in 1 .. Size /\ n - 1 \in 0 .. Size /\ ~ (n <= n - 1)
    BY <1>1, <1>4, <2>2
  <2>4. Loop(t, after[n - 1], upTo(n - 1))
    BY <2>2, <2>3
  <2> QED
    BY <1>5, <2>2, <2>3, <2>4
<1>7. Size \in 0 .. Size /\ upTo(Size) = N
  BY <1>1
<1> HIDE DEF upTo, N
<1>8. Loop(t, after[Size], N)
  BY <1>6, <1>7
<1> QED
  BY <1>2, <1>8 DEF N

----------------------------------------------------------------------------
(***************************************************************************)
(* The input as a whole.                                                   *)
(***************************************************************************)

LEMMA RestIs ==
  ASSUME NEW t \in Seq(Bytes)
  PROVE  /\ Rest(t) \in Seq(Bytes) /\ Len(Rest(t)) = Len(t) - LineStart(t, NumLines(t) + 1) + 1
         /\ \A i \in 1 .. Len(Rest(t)) :
              Rest(t)[i] = t[LineStart(t, NumLines(t) + 1) + i - 1] /\ Rest(t)[i] # NL
<1> DEFINE start == LineStart(t, NumLines(t) + 1)
           u == SubSeq(t, start, Len(t))
<1>1. NumLines(t) \in 0 .. NumLines(t) /\ Len(t) \in Nat
  BY EndsFinite
<1>2. start \in 1 .. Len(t) + 1 /\ \A j \in start .. Len(t) : t[j] # NL
  BY <1>1, LineBreaks
<1>3. Rest(t) = u
  BY DEF Rest, NumLines
<1> HIDE DEF start
<1>4. \A j \in start .. Len(t) : t[j] \in Bytes
  BY <1>1, <1>2, ElementOfSeq
<1>5. /\ u \in Seq(Bytes) /\ Len(u) = IF start <= Len(t) THEN Len(t) - start + 1 ELSE 0
      /\ \A i \in 1 .. Len(t) - start + 1 : u[i] = t[start + i - 1]
  BY <1>1, <1>2, <1>4, SubSeqProperties
<1> HIDE DEF u
<1>6. Len(u) = Len(t) - start + 1
  BY <1>1, <1>2, <1>5
<1>7. \A i \in 1 .. Len(u) : start + i - 1 \in start .. Len(t)
  BY <1>1, <1>2, <1>6
<1> QED
  BY <1>2, <1>3, <1>5, <1>6, <1>7 DEF start

(* What remains has no line.                                               *)
LEMMA RestOfRest ==
  ASSUME NEW t \in Seq(Bytes)
  PROVE  Lines(Rest(t)) = <<>> /\ Rest(Rest(t)) = Rest(t)
<1> DEFINE u == Rest(t)
<1>1. u \in Seq(Bytes) /\ \A i \in 1 .. Len(u) : u[i] # NL
  BY RestIs
<1> HIDE DEF u
<1>2. Ends(u) = {}
  BY <1>1, EndsFinite
<1>3. Cardinality(Ends(u)) = 0
  BY <1>2, FS_EmptySet
<1>4. Lines(u) = <<>>
  BY <1>3 DEF Lines
<1>5. LineStart(u, 0 + 1) = 1
  BY DEF LineStart
<1>6. Rest(u) = SubSeq(u, 1, Len(u))
  BY <1>3, <1>5 DEF Rest
<1> QED
  BY <1>1, <1>4, <1>6, SubSeqFull DEF u

(* The inductive invariant: what remains of the input is in the buffer,    *)
(* and all the rest of the buffer is zero.                                 *)
IInv ==
  /\ input \in Seq(Bytes)
  /\ Waiting(Rest(input))
  /\ cur = Len(Rest(input))
  /\ buf = [i \in Places |-> IF i < cur THEN Rest(input)[i + 1] ELSE NUL]
  /\ handed = Lines(input)

LEMMA InitInv == Init => IInv
<1> SUFFICES ASSUME Init PROVE IInv
  OBVIOUS
<1>1. input = <<>> /\ handed = <<>> /\ cur = 0 /\ buf = [i \in Places |-> NUL]
  BY DEF Init
<1>2. <<>> \in Seq(Bytes) /\ Len(<<>>) = 0
  BY EmptySeq
<1> DEFINE e == <<>>
<1>3. Rest(e) \in Seq(Bytes) /\ Rest(e) = e /\ Lines(e) = e
  <2>1. e \in Seq(Bytes) /\ \A i \in 1 .. Len(e) : FALSE
    BY <1>2
  <2>2. Ends(e) = {}
    BY <2>1, EndsFinite
  <2>3. Cardinality(Ends(e)) = 0
    BY <2>2, FS_EmptySet
  <2>4. LineStart(e, 0 + 1) = 1
    BY DEF LineStart
  <2>5. Rest(e) = SubSeq(e, 1, Len(e))
    BY <2>3, <2>4 DEF Rest
  <2>6. Lines(e) = <<>>
    BY <2>3 DEF Lines
  <2> HIDE DEF e
  <2>7. Rest(e) = e
    BY <2>1, <2>5, SubSeqFull
  <2> QED
    BY <2>1, <2>6, <2>7 DEF e
<1>4. Waiting(e)
  BY <1>2, InputBufferAssumption DEF Waiting
<1>5. \A i \in Places : ~ (i < 0)
  BY InputBufferAssumption DEF Places
<1>6. buf = [i \in Places |-> IF i < 0 THEN Rest(e)[i + 1] ELSE NUL]
  BY <1>1, <1>5
<1> QED
  BY <1>1, <1>2, <1>3, <1>4, <1>6 DEF IInv

LEMMA ReadInv ==
  ASSUME HalfIsEnough, IInv, NEW bytes \in Seq(Bytes), Read(bytes) PROVE IInv'
<1> DEFINE u == Rest(input)
           t == u \o bytes
           filled == [i \in Places |-> IF cur <= i /\ i < cur + Len(bytes)
                                       THEN bytes[i - cur + 1] ELSE buf[i]]
           split == Split(filled, cur + Len(bytes))
           start == LineStart(t, NumLines(t) + 1)
<1>1. buf' = split.buf /\ cur' = split.cur /\ handed' = split.handed /\ input' = t
  BY DEF Read
<1>2. /\ u \in Seq(Bytes) /\ cur = Len(u) /\ Len(u) \in Nat /\ Len(bytes) \in Nat
      /\ cur + Len(bytes) <= MaxFill
  BY LenProperties, InputBufferAssumption DEF IInv, Waiting, Read, Readable
<1>3. /\ t \in Seq(Bytes) /\ Len(t) = cur + Len(bytes)
      /\ \A i \in 1 .. Len(u) + Len(bytes) : t[i] = IF i <= Len(u) THEN u[i] ELSE bytes[i - Len(u)]
  <2> HIDE DEF u
  <2> QED
    BY <1>2, ConcatProperties
<1>4. Waiting(t)
  BY <1>2, <1>3 DEF Waiting
<1>5. filled = [i \in Places |-> IF i < Len(t) THEN t[i + 1] ELSE NUL]
  <2>1. \A i \in Places : buf[i] = IF i < cur THEN u[i + 1] ELSE NUL
    BY DEF IInv
  <2> HIDE DEF u, t
  <2>2. ASSUME NEW i \in Places
        PROVE  (IF cur <= i /\ i < cur + Len(bytes) THEN bytes[i - cur + 1] ELSE buf[i])
                 = IF i < Len(t) THEN t[i + 1] ELSE NUL
    <3>1. i \in Nat
      BY InputBufferAssumption DEF Places
    <3>2. CASE i < cur
      BY <1>2, <1>3, <2>1, <3>1, <3>2
    <3>3. CASE cur <= i /\ i < cur + Len(bytes)
      <4>1. i + 1 \in 1 .. Len(u) + Len(bytes) /\ ~ (i + 1 <= Len(u)) /\ (i + 1) - Len(u) = i - cur + 1
        BY <1>2, <3>1, <3>3
      <4> QED
        BY <1>3, <3>3, <4>1
    <3>4. CASE ~ (i < cur + Len(bytes))
      BY <1>2, <1>3, <2>1, <3>1, <3>4
    <3> QED
      BY <1>2, <3>1, <3>2, <3>3, <3>4
  <2> QED
    BY <2>2
<1> HIDE DEF t, filled
<1>6. Loop(t, Split(filled, Len(t)), NumLines(t))
  BY <1>4, <1>5, SplitAll
<1>7. Loop(t, split, NumLines(t))
  BY <1>3, <1>6
<1> HIDE DEF split
<1>8. /\ Rest(t) \in Seq(Bytes) /\ Len(Rest(t)) = Len(t) - start + 1
      /\ \A i \in 1 .. Len(Rest(t)) : Rest(t)[i] = t[start + i - 1]
  BY <1>3, RestIs
<1>9. start \in 1 .. Len(t) + 1 /\ Len(t) \in Nat
  <2>1. NumLines(t) \in 0 .. NumLines(t)
    BY <1>3, EndsFinite
  <2> QED
    BY <1>2, <1>3, <2>1, LineBreaks
<1> HIDE DEF start
<1>10. /\ split.handed = Lines(t) /\ split.cur = Len(Rest(t))
       /\ split.buf = [i \in Places |-> IF i < Len(Rest(t)) THEN t[i + start] ELSE NUL]
  BY <1>7, <1>8 DEF Loop, Lines, NumLines, start
<1>11. ASSUME NEW i \in Places, i < Len(Rest(t)) PROVE t[i + start] = Rest(t)[i + 1]
  <2>1. i + 1 \in 1 .. Len(Rest(t)) /\ start + (i + 1) - 1 = i + start
    BY <1>8, <1>9, <1>11, InputBufferAssumption DEF Places
  <2> QED
    BY <1>8, <2>1
<1>12. split.buf = [i \in Places |-> IF i < Len(Rest(t)) THEN Rest(t)[i + 1] ELSE NUL]
  BY <1>10, <1>11
<1>13. Waiting(Rest(t))
  BY <1>2, <1>3, <1>8, <1>9, InputBufferAssumption DEF Waiting
<1> QED
  BY <1>1, <1>3, <1>10, <1>12, <1>13 DEF IInv

LEMMA NextInv == HalfIsEnough /\ IInv /\ [Next]_vars => IInv'
<1> SUFFICES ASSUME HalfIsEnough, IInv, [Next]_vars PROVE IInv'
  OBVIOUS
<1>1. ASSUME NEW n \in 1 .. Size, NEW bytes \in [1 .. n -> Letters \cup {NL}], Read(bytes) PROVE IInv'
  <2>1. n \in Nat
    BY InputBufferAssumption
  <2>2. bytes \in Seq(Bytes)
    BY <2>1, SeqDef DEF Bytes
  <2> QED
    BY <1>1, <2>2, ReadInv
<1>2. CASE Stop
  <2>1. handed' = <<>> /\ input' = Rest(input) /\ buf' = buf /\ cur' = cur
    BY <1>2 DEF Stop
  <2>2. Lines(Rest(input)) = <<>> /\ Rest(Rest(input)) = Rest(input) /\ Rest(input) \in Seq(Bytes)
    BY RestOfRest, RestIs DEF IInv
  <2> DEFINE u == Rest(input)
  <2>3. /\ Waiting(u) /\ cur = Len(u)
        /\ buf = [i \in Places |-> IF i < cur THEN u[i + 1] ELSE NUL]
    BY DEF IInv
  <2> HIDE DEF u
  <2>4. /\ Waiting(Rest(u)) /\ cur = Len(Rest(u))
        /\ buf = [i \in Places |-> IF i < cur THEN Rest(u)[i + 1] ELSE NUL]
    BY <2>2, <2>3 DEF u
  <2>5. input' = u /\ Lines(u) = <<>> /\ u \in Seq(Bytes)
    BY <2>1, <2>2 DEF u
  <2> QED
    BY <2>1, <2>4, <2>5 DEF IInv
<1>3. CASE UNCHANGED vars
  BY <1>3 DEF vars, IInv
<1> QED
  BY <1>1, <1>2, <1>3 DEF Next

LEMMA Invariant == ASSUME HalfIsEnough PROVE Spec => []IInv
<1>1. IInv /\ [Next]_vars => IInv'
  BY NextInv
<1> QED
  BY <1>1, InitInv, PTL DEF Spec

(* As long as about half of the buffer is enough for what waits: the lines *)
(* that process_user_input hands over are those typed, each once.          *)
THEOREM LinesAreTypedHolds == ASSUME HalfIsEnough PROVE Spec => []LinesAreTyped
<1>1. IInv => LinesAreTyped
  BY DEF IInv, LinesAreTyped
<1> QED
  BY <1>1, Invariant, PTL

(* Under the same condition the buffer holds what remains, and strchr      *)
(* never runs past it.                                                     *)
THEOREM HoldsTheRestHolds == ASSUME HalfIsEnough PROVE Spec => []HoldsTheRest
<1>1. ASSUME IInv PROVE HoldsTheRest
  <2> DEFINE u == Rest(input)
  <2>1. /\ u \in Seq(Bytes) /\ cur = Len(u) /\ Len(u) <= MaxFill /\ Len(u) \in Nat
        /\ \A i \in 1 .. Len(u) : u[i] # NL
    BY <1>1, RestIs, LenProperties DEF IInv, Waiting
  <2>2. \A i \in Places : buf[i] = IF i < cur THEN u[i + 1] ELSE NUL
    BY <1>1 DEF IInv
  <2> HIDE DEF u
  <2>3. buf[Size] = NUL
    BY <2>1, <2>2, InputBufferAssumption DEF Places
  <2>4. \A i \in 0 .. cur - 1 : buf[i] = u[i + 1]
    BY <2>1, <2>2, InputBufferAssumption DEF Places
  <2>5. ASSUME NEW r \in Places, Found(buf, r) PROVE FALSE
    <3>1. buf[r] = NL /\ NL # NUL
      BY <2>5, InputBufferAssumption DEF Found
    <3>2. r < cur /\ r + 1 \in 1 .. Len(u) /\ buf[r] = u[r + 1]
      BY <2>1, <2>2, <3>1, InputBufferAssumption DEF Places
    <3> QED
      BY <2>1, <3>1, <3>2
  <2> QED
    BY <2>1, <2>3, <2>4, <2>5 DEF HoldsTheRest, u
<1> QED
  BY <1>1, Invariant, PTL
=============================================================================
