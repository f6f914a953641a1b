--------------------------- MODULE SimulatorProofs ---------------------------
(* Proofs about the network simulator, for every value of the constants:   *)
(* that its set-up makes tables along shortest paths, and what holds of    *)
(* the queues when it runs with them.                                      *)
EXTENDS Routing, HupSim, SequenceTheorems, FiniteSetTheorems, FunctionTheorems,
        WellFoundedInduction, TLAPS

(***************************************************************************)
(* Numbers and recursion.                                                  *)
(***************************************************************************)

LEMMA Smallest ==
  ASSUME NEW S \in SUBSET Nat, S # {}
  PROVE  \E m \in S : \A k \in S : m <= k
<1> DEFINE R == {p \in Nat \X Nat : p[1] < p[2]}
<1>1. OpToRel(<, Nat) = R
  BY DEF OpToRel
<1>2. PICK m \in S : \A k \in S : <<k, m>> \notin R
  <2> HIDE DEF R
  <2> QED
  BY <1>1, NatLessThanWellFounded, WFMin
<1>3. ASSUME NEW k \in S, k < m PROVE FALSE
  <2>1. <<k, m>> \in R
    BY <1>3
  <2> QED
    BY <1>2, <2>1
<1> QED
  BY <1>3

LEMMA Induction ==
  ASSUME NEW R \in Nat, NEW S, 0 \in S, \A n \in 0 .. R : n \in S /\ n < R => n + 1 \in S
  PROVE  \A n \in 0 .. R : n \in S
<1> DEFINE Bad == {n \in 0 .. R : n \notin S}
<1>1. SUFFICES ASSUME Bad # {} PROVE FALSE
  OBVIOUS
<1>2. PICK m \in Bad : \A k \in Bad : m <= k
  <2>1. Bad \in SUBSET Nat
    OBVIOUS
  <2> HIDE DEF Bad
  <2> QED
    BY <1>1, <2>1, Smallest
<1>3. m # 0 /\ m \in 0 .. R
  OBVIOUS
<1>4. m - 1 \in 0 .. R /\ m - 1 < R /\ m - 1 \notin Bad
  BY <1>2, <1>3
<1> QED
  BY <1>3, <1>4

(* A function defined by recursion from a first value, with what holds of  *)
(* its values.                                                             *)
Recurses(f, R, first, step) ==
  /\ f = [n \in 0 .. R |-> f[n]]
  /\ f[0] = first
  /\ \A n \in 1 .. R : f[n] = step[<<n, f[n - 1]>>]

Closed(G, R, first, step) ==
  /\ <<0, first>> \in G
  /\ \A n \in 1 .. R : \A x : <<n - 1, x>> \in G => <<n, step[<<n, x>>]>> \in G

LEMMA ValuesAreGood ==
  ASSUME NEW R \in Nat, NEW G, NEW first, NEW step, NEW f,
         Closed(G, R, first, step), Recurses(f, R, first, step)
  PROVE  \A n \in 0 .. R : <<n, f[n]>> \in G
<1> DEFINE S == {n \in 0 .. R : <<n, f[n]>> \in G}
<1>1. 0 \in S
  BY DEF Closed, Recurses
<1>2. ASSUME NEW n \in 0 .. R, n \in S, n < R PROVE n + 1 \in S
  <2>1. n + 1 \in 1 .. R /\ (n + 1) - 1 = n
    BY <1>2
  <2>2. <<(n + 1) - 1, f[n]>> \in G
    BY <1>2, <2>1
  <2>3. <<n + 1, step[<<n + 1, f[n]>>]>> \in G
    BY <2>1, <2>2 DEF Closed
  <2>4. f[n + 1] = step[<<n + 1, f[n]>>]
    BY <2>1 DEF Recurses
  <2> QED
    BY <2>1, <2>3, <2>4
<1> HIDE DEF S
<1>3. \A n \in 0 .. R : n \in S
  BY <1>1, <1>2, Induction
<1> QED
  BY <1>3 DEF S

LEMMA Recursion ==
  ASSUME NEW R \in Nat, NEW first, NEW step
  PROVE  \E f : Recurses(f, R, first, step)
<1> DEFINE S == {m \in 0 .. R : \E f : Recurses(f, m, first, step)}
<1>1. 0 \in S
  <2> DEFINE f == [n \in 0 .. 0 |-> first]
  <2>1. Recurses(f, 0, first, step)
    BY DEF Recurses
  <2> QED
    BY <2>1
<1>2. ASSUME NEW m \in 0 .. R, m \in S, m < R PROVE m + 1 \in S
  <2>1. PICK f : Recurses(f, m, first, step)
    BY <1>2
  <2> DEFINE g == [n \in 0 .. m + 1 |-> IF n = m + 1 THEN step[<<m + 1, f[m]>>] ELSE f[n]]
  <2>2. g[0] = first
    BY <2>1 DEF Recurses
  <2>3. ASSUME NEW n \in 1 .. m + 1 PROVE g[n] = step[<<n, g[n - 1]>>]
    <3>1. n - 1 \in 0 .. m + 1 /\ n - 1 # m + 1
      OBVIOUS
    <3>2. g[n - 1] = f[n - 1]
      BY <3>1
    <3>3. CASE n = m + 1
      <4>1. n - 1 = m /\ g[n] = step[<<m + 1, f[m]>>]
        BY <3>3
      <4> HIDE DEF g
      <4> QED
        BY <3>2, <3>3, <4>1
    <3>4. CASE n # m + 1
      <4>1. n \in 1 .. m
        BY <3>4
      <4>2. g[n] = f[n]
        BY <3>4
      <4>3. f[n] = step[<<n, f[n - 1]>>]
        BY <2>1, <4>1 DEF Recurses
      <4> HIDE DEF g
      <4> QED
        BY <3>2, <4>2, <4>3
    <3> QED
      BY <3>3, <3>4
  <2>4. g = [n \in 0 .. m + 1 |-> g[n]]
    OBVIOUS
  <2> HIDE DEF g
  <2>5. Recurses(g, m + 1, first, step)
    BY <2>2, <2>3, <2>4 DEF Recurses
  <2> QED
    BY <1>2, <2>5
<1> HIDE DEF S
<1>3. R \in S
  BY <1>1, <1>2, Induction
<1> QED
  BY <1>3 DEF S

(***************************************************************************)
(* The search.                                                             *)
(***************************************************************************)

Size == Cardinality(Routers)

LEMMA SizeIs == Size \in Nat /\ Size < INFINITY /\ INFINITY \in Nat
  BY FS_CardinalityType, RoutersAssumption DEF Size, INFINITY

LEMMA RouterIs == ASSUME NEW r \in Routers PROVE r \in Nat /\ r # Nobody
  BY RoutersAssumption DEF Nobody

Searching ==
  [distance : [Routers -> 0 .. INFINITY], pred : [Routers -> Routers \cup {Nobody}],
   done : SUBSET Routers]

Predecessors == [Routers -> Routers \cup {Nobody}]

(* What holds of a search of self that began with the predecessors old and *)
(* has made n visits: only self is at no distance; a router that was found *)
(* is one hop behind its predecessor, which was visited; the others are as *)
(* they were; what was visited is nearest; no neighbour of it is further   *)
(* away than a hop; distances are less than the number of visits.          *)
Rooted(s, self)      == \A r \in Routers : s.distance[r] = 0 <=> r = self
Linked(s, self, edges) ==
  \A r \in Routers \ {self} : s.distance[r] < INFINITY =>
    /\ s.pred[r] \in s.done /\ <<s.pred[r], r>> \in edges
    /\ s.distance[r] = s.distance[s.pred[r]] + 1
Kept(s, self, old)   ==
  \A r \in Routers : s.distance[r] = INFINITY \/ r = self => s.pred[r] = old[r]
Sorted(s)            == \A d \in s.done, r \in Routers \ s.done : s.distance[d] <= s.distance[r]
Relaxed(s, edges)    ==
  \A d \in s.done, r \in Routers : <<d, r>> \in edges => s.distance[r] <= s.distance[d] + 1
Bounded(s, n)        ==
  \A r \in Routers : s.distance[r] < INFINITY =>
    s.distance[r] <= n /\ (r \in s.done => s.distance[r] < n)

Searched(s, self, edges, old, n) ==
  /\ s \in Searching
  /\ Cardinality(s.done) = n
  /\ Rooted(s, self) /\ Linked(s, self, edges) /\ Kept(s, self, old)
  /\ Sorted(s) /\ Relaxed(s, edges) /\ Bounded(s, n)

LEMMA StartSearched ==
  ASSUME NEW self \in Routers, NEW edges \in SUBSET (Routers \X Routers), NEW old \in Predecessors
  PROVE  Searched(Start(self, old), self, edges, old, 0)
<1> DEFINE s == Start(self, old)
<1>1. /\ s.distance = [r \in Routers |-> IF r = self THEN 0 ELSE INFINITY]
      /\ s.pred = old /\ s.done = {}
  BY DEF Start
<1>2. s \in Searching
  BY SizeIs DEF Start, Searching, Predecessors
<1>3. Cardinality({}) = 0
  BY FS_EmptySet
<1>4. INFINITY # 0 /\ ~ INFINITY < INFINITY
  BY DEF INFINITY
<1> HIDE DEF s
<1>5. Rooted(s, self) /\ Linked(s, self, edges) /\ Kept(s, self, old)
  BY <1>1, <1>4 DEF Rooted, Linked, Kept
<1>6. Sorted(s) /\ Relaxed(s, edges)
  BY <1>1 DEF Sorted, Relaxed
<1>7. Bounded(s, 0)
  BY <1>1, <1>4 DEF Bounded
<1>8. Searched(s, self, edges, old, 0)
  BY <1>1, <1>2, <1>3, <1>5, <1>6, <1>7 DEF Searched
<1> QED
  BY <1>8 DEF s

LEMMA NearestIs ==
  ASSUME NEW s \in Searching, s.done # Routers
  PROVE  /\ Nearest(s) \in Routers \ s.done
         /\ \A q \in Routers \ s.done : s.distance[Nearest(s)] <= s.distance[q]
<1> DEFINE T == Routers \ s.done
           D == {s.distance[r] : r \in T}
<1>1. D \in SUBSET Nat /\ D # {} /\ s.distance \in [Routers -> 0 .. INFINITY]
  BY SizeIs DEF Searching
<1>2. PICK d \in D : \A e \in D : d <= e
  <2> HIDE DEF D
  <2> QED
    BY <1>1, Smallest
<1> DEFINE F == {r \in T : s.distance[r] = d}
<1>3. F \in SUBSET Nat /\ F # {}
  BY <1>2, RouterIs
<1>4. PICK r \in F : \A q \in F : r <= q
  <2> HIDE DEF F
  <2> QED
    BY <1>3, Smallest
<1>5. r \in T /\ s.distance[r] = d /\ d \in Nat
  BY <1>1, <1>2, <1>4
<1>6. ASSUME NEW q \in T
      PROVE  s.distance[r] < s.distance[q] \/ (s.distance[r] = s.distance[q] /\ r <= q)
  <2>1. s.distance[q] \in Nat /\ d <= s.distance[q]
    BY <1>1, <1>2
  <2>2. CASE s.distance[q] = d
    BY <1>4, <1>5, <2>2
  <2>3. CASE s.distance[q] # d
    <3> HIDE DEF D, F, T
    <3> QED
      BY <1>5, <2>1, <2>3
  <2> QED
    BY <2>2, <2>3
<1>7. /\ Nearest(s) \in T
      /\ \A q \in T : \/ s.distance[Nearest(s)] < s.distance[q]
                      \/ s.distance[Nearest(s)] = s.distance[q] /\ Nearest(s) <= q
  <2> HIDE DEF D, F
  <2> QED
    BY <1>5, <1>6 DEF Nearest
<1>8. \A q \in T : s.distance[q] \in Nat
  BY <1>1
<1> HIDE DEF D, F
<1> QED
  BY <1>7, <1>8

LEMMA VisitSearched ==
  ASSUME NEW self \in Routers, NEW edges \in SUBSET (Routers \X Routers), NEW old \in Predecessors,
         NEW n \in Nat, n < Size, NEW s, Searched(s, self, edges, old, n)
  PROVE  Searched(Visited(s, edges, Nearest(s)), self, edges, old, n + 1)
<1> DEFINE v      == Nearest(s)
           w      == s.distance[v] + 1
           nearer == {q \in Neighbours(edges, v) : s.distance[q] > w}
           t      == Visited(s, edges, v)
<1>1. /\ s \in Searching /\ s.distance \in [Routers -> 0 .. INFINITY]
      /\ s.pred \in [Routers -> Routers \cup {Nobody}] /\ s.done \in SUBSET Routers
  BY DEF Searched, Searching
<1>2. s.done # Routers
  BY DEF Searched, Size
<1>3. v \in Routers \ s.done /\ \A q \in Routers \ s.done : s.distance[v] <= s.distance[q]
  BY <1>1, <1>2, NearestIs
<1>4. /\ t.distance = [q \in Routers |-> IF q \in nearer THEN w ELSE s.distance[q]]
      /\ t.pred     = [q \in Routers |-> IF q \in nearer THEN v ELSE s.pred[q]]
      /\ t.done     = s.done \cup {v}
  BY DEF Visited
<1>5. t = [distance |-> t.distance, pred |-> t.pred, done |-> t.done]
  BY DEF Visited
<1>6. nearer = {q \in Routers : <<v, q>> \in edges /\ s.distance[q] > w}
  BY DEF Neighbours
<1> HIDE DEF t, v, nearer
<1>7. w \in Nat /\ s.distance[v] \in 0 .. INFINITY /\ \A r \in Routers : s.distance[r] \in 0 .. INFINITY
  BY <1>1, <1>3, SizeIs
<1>8. \A q \in nearer : w < INFINITY /\ s.distance[v] < INFINITY
  BY <1>6, <1>7, SizeIs
<1>9. \A d \in s.done : d \notin nearer
  BY <1>1, <1>3, <1>6, <1>7 DEF Searched, Sorted
<1>10. v \notin nearer
  BY <1>6, <1>7
<1>11. t \in Searching
  <2>1. t.distance \in [Routers -> 0 .. INFINITY]
    BY <1>4, <1>7, <1>8, SizeIs
  <2>2. t.pred \in [Routers -> Routers \cup {Nobody}] /\ t.done \in SUBSET Routers
    BY <1>1, <1>3, <1>4
  <2> QED
    BY <1>5, <2>1, <2>2 DEF Searching
<1>12. Cardinality(t.done) = n + 1
  <2>1. IsFiniteSet(s.done)
    BY <1>1, FS_Subset, RoutersAssumption
  <2>2. v \notin s.done /\ t.done = s.done \cup {v} /\ Cardinality(s.done) = n
    BY <1>3, <1>4 DEF Searched
  <2>3. Cardinality(s.done \cup {v}) = IF v \in s.done THEN Cardinality(s.done) ELSE Cardinality(s.done) + 1
    BY <2>1, FS_AddElement
  <2> QED
    BY <2>2, <2>3
<1>13. Rooted(t, self)
  <2>1. \A r \in Routers : s.distance[r] = 0 <=> r = self
    BY DEF Searched, Rooted
  <2>2. self \notin nearer
    BY <1>6, <1>7, <2>1
  <2> QED
    BY <1>4, <1>7, <2>1, <2>2 DEF Rooted
<1>14. Linked(t, self, edges)
  <2>1. SUFFICES ASSUME NEW r \in Routers \ {self}, t.distance[r] < INFINITY
                 PROVE  /\ t.pred[r] \in t.done /\ <<t.pred[r], r>> \in edges
                        /\ t.distance[r] = t.distance[t.pred[r]] + 1
    BY DEF Linked
  <2>2. CASE r \in nearer
    BY <1>3, <1>4, <1>6, <1>10, <2>2
  <2>3. CASE r \notin nearer
    <3>1. /\ s.pred[r] \in s.done /\ <<s.pred[r], r>> \in edges
          /\ s.distance[r] = s.distance[s.pred[r]] + 1
      BY <1>4, <2>1, <2>3 DEF Searched, Linked
    <3>2. t.pred[r] = s.pred[r] /\ t.distance[r] = s.distance[r]
      BY <1>4, <2>3
    <3>3. t.distance[s.pred[r]] = s.distance[s.pred[r]]
      BY <1>1, <1>4, <1>9, <3>1
    <3> QED
      BY <1>4, <3>1, <3>2, <3>3
  <2> QED
    BY <2>2, <2>3
<1>15. Kept(t, self, old)
  <2>1. SUFFICES ASSUME NEW r \in Routers, t.distance[r] = INFINITY \/ r = self
                 PROVE  t.pred[r] = old[r]
    BY DEF Kept
  <2>2. r \notin nearer
    <3>1. s.distance[self] = 0
      BY DEF Searched, Rooted
    <3> QED
    BY <1>4, <1>6, <1>7, <1>8, <2>1, <3>1, SizeIs
  <2>3. s.distance[r] = INFINITY \/ r = self
    BY <1>4, <2>1, <2>2
  <2> QED
    BY <1>4, <2>2, <2>3 DEF Searched, Kept
<1>16. Sorted(t)
  <2>1. SUFFICES ASSUME NEW d \in t.done, NEW r \in Routers \ t.done
                 PROVE  t.distance[d] <= t.distance[r]
    BY DEF Sorted
  <2>2. d \notin nearer /\ d \in Routers /\ t.distance[d] = s.distance[d]
    BY <1>1, <1>3, <1>4, <1>9, <1>10
  <2>3. r \in Routers \ s.done
    BY <1>4
  <2>4. s.distance[d] <= s.distance[v] /\ s.distance[v] <= s.distance[r]
    BY <1>3, <1>4, <1>7, <2>3 DEF Searched, Sorted
  <2>5. t.distance[r] = w \/ t.distance[r] = s.distance[r]
    BY <1>4
  <2> QED
    BY <1>7, <2>2, <2>4, <2>5
<1>17. Relaxed(t, edges)
  <2>1. SUFFICES ASSUME NEW d \in t.done, NEW r \in Routers, <<d, r>> \in edges
                 PROVE  t.distance[r] <= t.distance[d] + 1
    BY DEF Relaxed
  <2>2. d \notin nearer /\ d \in Routers /\ t.distance[d] = s.distance[d]
    BY <1>1, <1>3, <1>4, <1>9, <1>10
  <2>3. t.distance[r] <= s.distance[r] /\ t.distance[r] \in Nat
    BY <1>4, <1>6, <1>7
  <2>4. CASE d = v
    BY <1>4, <1>6, <1>7, <2>1, <2>2, <2>4
  <2>5. CASE d # v
    <3>1. s.distance[r] <= s.distance[d] + 1
      BY <1>4, <2>1, <2>5 DEF Searched, Relaxed
    <3> QED
      BY <1>7, <2>2, <2>3, <3>1
  <2> QED
    BY <2>4, <2>5
<1>18. Bounded(t, n + 1)
  <2>1. SUFFICES ASSUME NEW r \in Routers, t.distance[r] < INFINITY
                 PROVE  t.distance[r] <= n + 1 /\ (r \in t.done => t.distance[r] < n + 1)
    BY DEF Bounded
  <2>2. CASE r \in nearer
    <3>1. s.distance[v] <= n
      BY <1>3, <1>8, <2>2 DEF Searched, Bounded
    <3>2. r \notin t.done /\ t.distance[r] = w
      BY <1>4, <1>9, <1>10, <2>2
    <3> QED
      BY <1>7, <3>1, <3>2
  <2>3. CASE r \notin nearer
    <3>1. t.distance[r] = s.distance[r]
      BY <1>4, <2>3
    <3>2. s.distance[r] <= n
      BY <2>1, <3>1 DEF Searched, Bounded
    <3> QED
      BY <1>7, <3>1, <3>2
  <2> QED
    BY <2>2, <2>3
<1>19. Searched(t, self, edges, old, n + 1)
  BY <1>11, <1>12, <1>13, <1>14, <1>15, <1>16, <1>17, <1>18 DEF Searched
<1> QED
  BY <1>19 DEF t, v

(* After each number of visits, and when every vertex has been visited.    *)
LEMMA VisitsAre ==
  ASSUME NEW self \in Routers, NEW edges \in SUBSET (Routers \X Routers), NEW old \in Predecessors
  PROVE  \A n \in 0 .. Size : Searched(Visits(self, edges, old)[n], self, edges, old, n)
<1> DEFINE first == Start(self, old)
           next(x) == Visited(x, edges, Nearest(x))
           step  == [p \in Nat \X Searching |-> next(p[2])]
           G     == {p \in Nat \X Searching : p[1] <= Size /\ Searched(p[2], self, edges, old, p[1])}
           after == Visits(self, edges, old)
           Of(f) == [n \in 0 .. Size |-> IF n = 0 THEN first ELSE next(f[n - 1])]
<1>1. Closed(G, Size, first, step)
  <2>1. <<0, first>> \in G
    BY StartSearched, SizeIs DEF Searched
  <2>2. ASSUME NEW n \in 1 .. Size, NEW x, <<n - 1, x>> \in G
        PROVE  <<n, step[<<n, x>>]>> \in G
    <3>1. x \in Searching /\ Searched(x, self, edges, old, n - 1) /\ n - 1 \in Nat /\ n - 1 < Size
      BY <2>2, SizeIs
    <3>2. Searched(next(x), self, edges, old, (n - 1) + 1)
      BY <3>1, VisitSearched
    <3>3. (n - 1) + 1 = n /\ n \in Nat /\ n <= Size
      BY SizeIs
    <3> HIDE DEF next
    <3>4. step[<<n, x>>] = next(x)
      BY <3>1, <3>3
    <3>5. next(x) \in Searching
      BY <3>2 DEF Searched
    <3> QED
      BY <3>2, <3>3, <3>4, <3>5
  <2> HIDE DEF G, first, step
  <2> QED
    BY <2>1, <2>2 DEF Closed
<1> HIDE DEF first, next, G
<1>2. ASSUME NEW f, f = Of(f) PROVE f[0] = first /\ \A n \in 1 .. Size : f[n] = next(f[n - 1])
  <2>1. f[0] = first
    BY <1>2, SizeIs
  <2>2. ASSUME NEW n \in 1 .. Size PROVE f[n] = next(f[n - 1])
    <3>1. n \in 0 .. Size /\ n # 0
      BY SizeIs
    <3> QED
      BY <1>2, <3>1
  <2> QED
    BY <2>1, <2>2
<1>3. \E f : f = Of(f)
  <2>1. PICK f : Recurses(f, Size, first, step)
    <3> HIDE DEF step
    <3> QED
      BY SizeIs, Recursion
  <2>2. \A n \in 0 .. Size : <<n, f[n]>> \in G
    <3> HIDE DEF step
    <3> QED
      BY <1>1, <2>1, SizeIs, ValuesAreGood
  <2>3. ASSUME NEW n \in 1 .. Size PROVE f[n] = next(f[n - 1])
    <3>1. n \in Nat /\ n - 1 \in 0 .. Size
      BY SizeIs
    <3>2. f[n - 1] \in Searching
      BY <2>2, <3>1 DEF G
    <3>3. f[n] = step[<<n, f[n - 1]>>]
      BY <2>1 DEF Recurses
    <3> QED
      BY <3>1, <3>2, <3>3
  <2>4. f = [n \in 0 .. Size |-> f[n]] /\ f[0] = first
    BY <2>1 DEF Recurses
  <2>5. ASSUME NEW n \in 0 .. Size PROVE f[n] = IF n = 0 THEN first ELSE next(f[n - 1])
    <3>1. n = 0 \/ n \in 1 .. Size
      BY SizeIs
    <3> QED
      BY <2>3, <2>4, <3>1
  <2> QED
    BY <2>4, <2>5
<1>4. after = Of(after)
  <2>1. after = CHOOSE f : f = Of(f)
    BY DEF Visits, Size, first, next
  <2> HIDE DEF after, Of
  <2> QED
    BY <1>3, <2>1
<1> HIDE DEF after
<1>5. after[0] = first /\ \A n \in 1 .. Size : after[n] = next(after[n - 1])
  BY <1>2, <1>4
<1> DEFINE S == {n \in 0 .. Size : <<n, after[n]>> \in G}
<1>6. 0 \in S
  BY <1>1, <1>5, SizeIs DEF Closed
<1>7. ASSUME NEW n \in 0 .. Size, n \in S, n < Size PROVE n + 1 \in S
  <2>1. n + 1 \in 1 .. Size /\ (n + 1) - 1 = n
    BY <1>7, SizeIs
  <2>2. <<n, after[n]>> \in G
    BY <1>7
  <2>3. <<n + 1, step[<<n + 1, after[n]>>]>> \in G
    <3> HIDE DEF step
    <3> QED
    BY <1>1, <2>1, <2>2 DEF Closed
  <2>4. after[n] \in Searching /\ n + 1 \in Nat
    BY <2>1, <2>2, SizeIs DEF G
  <2>5. step[<<n + 1, after[n]>>] = after[n + 1]
    BY <1>5, <2>1, <2>4
  <2> HIDE DEF step
  <2> QED
    BY <2>1, <2>3, <2>5
<1>8. \A n \in 0 .. Size : n \in S
  <2> HIDE DEF S
  <2> QED
  BY <1>6, <1>7, SizeIs, Induction
<1> QED
  BY <1>8 DEF G, after

(* What a search finds: d is how far from self each router is, p the       *)
(* predecessors it leaves.                                                 *)
Finds(d, p, self, edges, old) ==
  /\ d \in [Routers -> 0 .. INFINITY] /\ p \in Predecessors
  /\ \A r \in Routers : d[r] = 0 <=> r = self
  /\ \A r \in Routers \ {self} : d[r] < INFINITY =>
       p[r] \in Routers /\ <<p[r], r>> \in edges /\ d[r] = d[p[r]] + 1
  /\ \A r \in Routers : d[r] = INFINITY \/ r = self => p[r] = old[r]
  /\ \A r, q \in Routers : <<r, q>> \in edges /\ d[r] < INFINITY =>
       d[q] <= d[r] + 1 /\ d[q] < INFINITY
  /\ \A r \in Routers : d[r] < INFINITY => d[r] < Size

FindsSome(self, edges, old) == \E d : Finds(d, Search(self, edges, old), self, edges, old)

LEMMA SearchFinds ==
  ASSUME NEW self \in Routers, NEW edges \in SUBSET (Routers \X Routers), NEW old \in Predecessors
  PROVE  FindsSome(self, edges, old)
<1> DEFINE s == Visits(self, edges, old)[Size]
<1>1. Searched(s, self, edges, old, Size)
  BY VisitsAre, SizeIs
<1>2. Search(self, edges, old) = s.pred
  BY DEF Search, Size
<1> HIDE DEF s
<1>3. s \in Searching /\ s.done = Routers
  <2>1. s \in Searching /\ s.done \in SUBSET Routers
    BY <1>1 DEF Searched, Searching
  <2> QED
    BY <1>1, <2>1, FS_Subset, RoutersAssumption DEF Searched, Size
<1>4. s.distance \in [Routers -> 0 .. INFINITY] /\ s.pred \in Predecessors
  BY <1>3 DEF Searching, Predecessors
<1>5. \A r \in Routers : s.distance[r] = 0 <=> r = self
  BY <1>1 DEF Searched, Rooted
<1>6. \A r \in Routers \ {self} : s.distance[r] < INFINITY =>
         s.pred[r] \in Routers /\ <<s.pred[r], r>> \in edges /\ s.distance[r] = s.distance[s.pred[r]] + 1
  BY <1>1, <1>3 DEF Searched, Linked
<1>7. \A r \in Routers : s.distance[r] = INFINITY \/ r = self => s.pred[r] = old[r]
  BY <1>1 DEF Searched, Kept
<1>8. \A r \in Routers : s.distance[r] < INFINITY => s.distance[r] < Size
  BY <1>1, <1>3 DEF Searched, Bounded
<1>9. ASSUME NEW r \in Routers, NEW q \in Routers, <<r, q>> \in edges, s.distance[r] < INFINITY
      PROVE  s.distance[q] <= s.distance[r] + 1 /\ s.distance[q] < INFINITY
  <2>1. s.distance[q] <= s.distance[r] + 1
    BY <1>1, <1>3, <1>9 DEF Searched, Relaxed
  <2> QED
    BY <1>4, <1>8, <1>9, <2>1, SizeIs
<1>10. Finds(s.distance, s.pred, self, edges, old)
  BY <1>4, <1>5, <1>6, <1>7, <1>8, <1>9 DEF Finds
<1> QED
  BY <1>2, <1>10 DEF FindsSome

(***************************************************************************)
(* Distances.                                                              *)
(***************************************************************************)

LEMMA WithinIs ==
  ASSUME NEW edges \in SUBSET (Routers \X Routers), NEW r \in Routers
  PROVE  /\ Within(edges, r)[0] = {r}
         /\ \A n \in 1 .. Size :
              Within(edges, r)[n] =
                Within(edges, r)[n - 1] \cup UNION {Neighbours(edges, q) : q \in Within(edges, r)[n - 1]}
<1> DEFINE next(b) == b \cup UNION {Neighbours(edges, q) : q \in b}
           step  == [p \in Nat \X SUBSET Routers |-> next(p[2])]
           G     == Nat \X SUBSET Routers
           ball  == Within(edges, r)
           Of(f) == [n \in 0 .. Size |-> IF n = 0 THEN {r} ELSE next(f[n - 1])]
<1>1. Closed(G, Size, {r}, step)
  <2>1. <<0, {r}>> \in G
    OBVIOUS
  <2>2. ASSUME NEW n \in 1 .. Size, NEW x, <<n - 1, x>> \in G
        PROVE  <<n, step[<<n, x>>]>> \in G
    <3>1. n \in Nat /\ x \in SUBSET Routers
      BY <2>2, SizeIs
    <3>2. next(x) \in SUBSET Routers
      BY <3>1 DEF Neighbours
    <3> HIDE DEF next
    <3> QED
      BY <3>1, <3>2
  <2> HIDE DEF G, step
  <2> QED
    BY <2>1, <2>2 DEF Closed
<1> HIDE DEF next
<1>2. ASSUME NEW f, f = Of(f) PROVE f[0] = {r} /\ \A n \in 1 .. Size : f[n] = next(f[n - 1])
  <2>1. f[0] = {r}
    BY <1>2, SizeIs
  <2>2. ASSUME NEW n \in 1 .. Size PROVE f[n] = next(f[n - 1])
    <3>1. n \in 0 .. Size /\ n # 0
      BY SizeIs
    <3> QED
      BY <1>2, <3>1
  <2> QED
    BY <2>1, <2>2
<1>3. \E f : f = Of(f)
  <2>1. PICK f : Recurses(f, Size, {r}, step)
    <3> HIDE DEF step
    <3> QED
      BY SizeIs, Recursion
  <2>2. \A n \in 0 .. Size : <<n, f[n]>> \in G
    <3> HIDE DEF step, G
    <3> QED
      BY <1>1, <2>1, SizeIs, ValuesAreGood
  <2>3. ASSUME NEW n \in 1 .. Size PROVE f[n] = next(f[n - 1])
    <3>1. n \in Nat /\ n - 1 \in 0 .. Size
      BY SizeIs
    <3>2. f[n - 1] \in SUBSET Routers
      BY <2>2, <3>1
    <3>3. f[n] = step[<<n, f[n - 1]>>]
      BY <2>1 DEF Recurses
    <3> QED
      BY <3>1, <3>2, <3>3
  <2>4. f = [n \in 0 .. Size |-> f[n]] /\ f[0] = {r}
    BY <2>1 DEF Recurses
  <2>5. ASSUME NEW n \in 0 .. Size PROVE f[n] = IF n = 0 THEN {r} ELSE next(f[n - 1])
    <3>1. n = 0 \/ n \in 1 .. Size
      BY SizeIs
    <3> QED
      BY <2>3, <2>4, <3>1
  <2> QED
    BY <2>4, <2>5
<1>4. ball = Of(ball)
  <2>1. ball = CHOOSE f : f = Of(f)
    BY DEF Within, Size, next
  <2> HIDE DEF ball, Of
  <2> QED
    BY <1>3, <2>1
<1> HIDE DEF ball
<1>5. ball[0] = {r} /\ \A n \in 1 .. Size : ball[n] = next(ball[n - 1])
  BY <1>2, <1>4
<1> QED
  BY <1>5 DEF ball, next

LEMMA WithinReached ==
  ASSUME NEW self \in Routers, NEW edges \in SUBSET (Routers \X Routers), NEW old, NEW d, NEW p,
         Finds(d, p, self, edges, old)
  PROVE  \A n \in 0 .. Size : Within(edges, self)[n] = {r \in Routers : d[r] <= n}
<1> DEFINE ball == Within(edges, self)
           S    == {n \in 0 .. Size : ball[n] = {r \in Routers : d[r] <= n}}
<1>1. /\ ball[0] = {self}
      /\ \A n \in 1 .. Size : ball[n] = ball[n - 1] \cup UNION {Neighbours(edges, q) : q \in ball[n - 1]}
  BY WithinIs
<1> HIDE DEF ball
<1>2. \A r \in Routers : d[r] \in Nat /\ d[r] <= INFINITY
  BY SizeIs DEF Finds
<1>3. 0 \in S
  BY <1>1, <1>2, SizeIs DEF Finds
<1>4. ASSUME NEW n \in 0 .. Size, n \in S, n < Size PROVE n + 1 \in S
  <2>1. n + 1 \in 1 .. Size /\ (n + 1) - 1 = n /\ n + 1 \in 0 .. Size
    BY <1>4, SizeIs
  <2>2. ball[n + 1] = ball[n] \cup UNION {Neighbours(edges, q) : q \in ball[n]}
    BY <1>1, <2>1
  <2>3. ball[n] = {r \in Routers : d[r] <= n}
    BY <1>4
  <2>4. ASSUME NEW r \in ball[n + 1] PROVE r \in Routers /\ d[r] <= n + 1
    <3>1. CASE r \in ball[n]
      BY <1>2, <2>1, <2>3, <3>1
    <3>2. CASE r \notin ball[n]
      <4>1. PICK q \in ball[n] : r \in Neighbours(edges, q)
        BY <2>2, <2>4, <3>2
      <4>2. q \in Routers /\ d[q] <= n /\ r \in Routers /\ <<q, r>> \in edges
        BY <2>3, <4>1 DEF Neighbours
      <4>3. d[q] < INFINITY
        BY <1>2, <1>4, <4>2, SizeIs
      <4>4. d[r] <= d[q] + 1
        BY <4>2, <4>3 DEF Finds
      <4> QED
        BY <1>2, <4>2, <4>4
    <3> QED
      BY <3>1, <3>2
  <2>5. ASSUME NEW r \in Routers, d[r] <= n + 1 PROVE r \in ball[n + 1]
    <3>1. CASE d[r] <= n
      BY <2>2, <2>3, <3>1
    <3>2. CASE ~ d[r] <= n
      <4>1. d[r] = n + 1 /\ d[r] # 0 /\ d[r] < INFINITY
        BY <1>2, <1>4, <2>5, <3>2, SizeIs
      <4>2. p[r] \in Routers /\ <<p[r], r>> \in edges /\ d[r] = d[p[r]] + 1
        BY <4>1 DEF Finds
      <4>3. p[r] \in ball[n] /\ r \in Neighbours(edges, p[r])
        BY <1>2, <2>3, <4>1, <4>2 DEF Neighbours
      <4> QED
        BY <2>2, <4>3
    <3> QED
      BY <3>1, <3>2
  <2>6. ball[n + 1] = {r \in Routers : d[r] <= n + 1}
    BY <2>4, <2>5
  <2> QED
    BY <2>1, <2>6
<1>5. \A n \in 0 .. Size : n \in S
  <2> HIDE DEF S
  <2> QED
    BY <1>3, <1>4, SizeIs, Induction
<1> QED
  BY <1>5 DEF ball

(* The distance is the least number of hops.                               *)
LEMMA DistanceIs ==
  ASSUME NEW edges, NEW r, NEW q, NEW n \in 0 .. Size,
         q \in Within(edges, r)[n], \A m \in 0 .. n - 1 : q \notin Within(edges, r)[m]
  PROVE  Distance(edges, r, q) = n
<1> DEFINE ball == Within(edges, r)
           x    == Distance(edges, r, q)
<1>1. x \in 0 .. Size /\ q \in ball[x] /\ \A m \in 0 .. x - 1 : q \notin ball[m]
  BY DEF Distance, Size
<1> HIDE DEF x, ball
<1>2. q \in ball[n] /\ \A m \in 0 .. n - 1 : q \notin ball[m]
  BY DEF ball
<1>3. ~ x < n
  BY <1>1, <1>2
<1>4. ~ n < x
  BY <1>1, <1>2
<1> QED
  BY <1>1, <1>3, <1>4, SizeIs DEF x

Measures(d, self, edges) ==
  \A q \in Routers : d[q] < INFINITY => Distance(edges, self, q) = d[q]

LEMMA DistanceFound ==
  ASSUME NEW self \in Routers, NEW edges \in SUBSET (Routers \X Routers), NEW old, NEW d, NEW p,
         Finds(d, p, self, edges, old)
  PROVE  Measures(d, self, edges)
<1> SUFFICES ASSUME NEW q \in Routers, d[q] < INFINITY PROVE Distance(edges, self, q) = d[q]
  BY DEF Measures
<1>1. d[q] \in 0 .. Size
  BY SizeIs DEF Finds
<1>2. \A n \in 0 .. Size : q \in Within(edges, self)[n] <=> d[q] <= n
  BY WithinReached
<1>3. q \in Within(edges, self)[d[q]] /\ \A m \in 0 .. d[q] - 1 : q \notin Within(edges, self)[m]
  BY <1>1, <1>2, SizeIs
<1> QED
  BY <1>1, <1>3, DistanceIs

(* What is k hops from one end of a link is k + 1 at most from the other.  *)
LEMMA WithinOneMore ==
  ASSUME NEW edges \in SUBSET (Routers \X Routers), NEW a \in Routers, NEW b \in Routers,
         <<a, b>> \in edges
  PROVE  \A k \in 0 .. Size - 1 : Within(edges, b)[k] \subseteq Within(edges, a)[k + 1]
<1> DEFINE A == Within(edges, a)
           B == Within(edges, b)
           S == {k \in Nat : k < Size => B[k] \subseteq A[k + 1]}
<1>1. /\ A[0] = {a}
      /\ \A n \in 1 .. Size : A[n] = A[n - 1] \cup UNION {Neighbours(edges, q) : q \in A[n - 1]}
      /\ B[0] = {b}
      /\ \A n \in 1 .. Size : B[n] = B[n - 1] \cup UNION {Neighbours(edges, q) : q \in B[n - 1]}
  BY WithinIs
<1> HIDE DEF A, B
<1>2. ASSUME NEW n \in Nat, n < Size
      PROVE  /\ A[n + 1] = A[n] \cup UNION {Neighbours(edges, q) : q \in A[n]}
             /\ B[n + 1] = B[n] \cup UNION {Neighbours(edges, q) : q \in B[n]}
  <2>1. n + 1 \in 1 .. Size /\ (n + 1) - 1 = n
    BY <1>2, SizeIs
  <2> QED
    BY <1>1, <2>1
<1>3. 0 \in S
  <2>1. SUFFICES ASSUME 0 < Size PROVE B[0] \subseteq A[0 + 1]
    OBVIOUS
  <2>2. A[0 + 1] = A[0] \cup UNION {Neighbours(edges, q) : q \in A[0]}
    BY <1>2, <2>1
  <2>3. b \in Neighbours(edges, a)
    BY DEF Neighbours
  <2> QED
    BY <1>1, <2>2, <2>3
<1>4. ASSUME NEW n \in 0 .. Size, n \in S, n < Size PROVE n + 1 \in S
  <2>1. SUFFICES ASSUME n + 1 < Size PROVE B[n + 1] \subseteq A[(n + 1) + 1]
    BY <1>4
  <2>2. B[n] \subseteq A[n + 1]
    BY <1>4
  <2>3. B[n + 1] = B[n] \cup UNION {Neighbours(edges, q) : q \in B[n]}
    BY <1>2, <1>4
  <2>4. A[(n + 1) + 1] = A[n + 1] \cup UNION {Neighbours(edges, q) : q \in A[n + 1]}
    BY <1>2, <2>1
  <2> QED
    BY <2>2, <2>3, <2>4
<1>5. \A n \in 0 .. Size : n \in S
  <2> HIDE DEF S
  <2> QED
    BY <1>3, <1>4, SizeIs, Induction
<1>6. \A k \in 0 .. Size - 1 : B[k] \subseteq A[k + 1]
  BY <1>5, SizeIs
<1> QED
  BY <1>6 DEF A, B

Symmetric(edges) == \A l \in edges : <<l[2], l[1]>> \in edges

(* All routers are connected if one of them reaches all.                   *)
LEMMA ConnectedIffReached ==
  ASSUME NEW self \in Routers, NEW edges \in SUBSET (Routers \X Routers), Symmetric(edges),
         NEW old \in Predecessors, NEW d, NEW p, Finds(d, p, self, edges, old)
  PROVE  Connected(edges) <=> \A q \in Routers : d[q] < INFINITY
<1>1. \A n \in 0 .. Size : Within(edges, self)[n] = {r \in Routers : d[r] <= n}
  BY WithinReached
<1>2. Within(edges, self)[Size] = {r \in Routers : d[r] <= Size}
  BY <1>1, SizeIs
<1>3. \A r \in Routers : d[r] \in Nat /\ (d[r] < INFINITY => d[r] < Size)
  BY SizeIs DEF Finds
<1>4. ASSUME Connected(edges) PROVE \A q \in Routers : d[q] < INFINITY
  BY <1>2, <1>3, <1>4, SizeIs DEF Connected, Size
<1>5. ASSUME \A q \in Routers : d[q] < INFINITY, NEW r \in Routers
      PROVE  Within(edges, r)[Size] = Routers
  <2>1. FindsSome(r, edges, old)
    BY SearchFinds
  <2>2. PICK e : Finds(e, Search(r, edges, old), r, edges, old)
    BY <2>1 DEF FindsSome
  <2> DEFINE U == {x \in Routers : e[x] < INFINITY}
             S == {n \in 0 .. Size : Within(edges, self)[n] \subseteq U}
             T == {n \in 0 .. Size : Within(edges, self)[n] \cap U = {}}
  <2>3. ASSUME NEW x \in Routers, NEW y \in Routers, <<x, y>> \in edges PROVE x \in U <=> y \in U
    <3>1. <<y, x>> \in edges
      BY <2>3 DEF Symmetric
    <3>2. \A r1, q1 \in Routers : <<r1, q1>> \in edges /\ e[r1] < INFINITY => e[q1] < INFINITY
      BY <2>2 DEF Finds
    <3> QED
      BY <2>3, <3>1, <3>2
  <2>4. r \in U
    BY <2>2, SizeIs DEF Finds
  <2>5. Within(edges, self)[Size] = Routers
    BY <1>2, <1>3, <1>5, SizeIs
  <2>6. /\ Within(edges, self)[0] = {self}
        /\ \A n \in 1 .. Size : Within(edges, self)[n] =
             Within(edges, self)[n - 1] \cup UNION {Neighbours(edges, q) : q \in Within(edges, self)[n - 1]}
    BY WithinIs
  <2>7. ASSUME NEW n \in 0 .. Size, n < Size
        PROVE  /\ n + 1 \in 0 .. Size
               /\ \A y \in Within(edges, self)[n + 1] :
                    \/ y \in Within(edges, self)[n]
                    \/ \E x \in Within(edges, self)[n] : x \in Routers /\ y \in Routers /\ <<x, y>> \in edges
    <3>1. n + 1 \in 1 .. Size /\ (n + 1) - 1 = n
      BY <2>7, SizeIs
    <3>2. Within(edges, self)[n + 1] =
            Within(edges, self)[n] \cup UNION {Neighbours(edges, q) : q \in Within(edges, self)[n]}
      BY <2>6, <3>1
    <3>3. Within(edges, self)[n] \subseteq Routers
      BY <1>1, <2>7
    <3> DEFINE b == Within(edges, self)[n]
    <3>4. ASSUME NEW y \in Within(edges, self)[n + 1], y \notin b
          PROVE  \E x \in b : x \in Routers /\ y \in Routers /\ <<x, y>> \in edges
      <4>1. PICK x \in b : y \in Neighbours(edges, x)
        BY <3>2, <3>4
      <4> QED
        BY <3>3, <4>1 DEF Neighbours
    <3>5. n + 1 \in 0 .. Size
      BY <3>1, SizeIs
    <3> HIDE DEF b
    <3>6. \A y \in Within(edges, self)[n + 1] :
            y \in b \/ \E x \in b : x \in Routers /\ y \in Routers /\ <<x, y>> \in edges
      BY <3>4
    <3> QED
      BY <3>5, <3>6 DEF b
  <2> HIDE DEF U
  <2>8. self \in U
    <3>1. SUFFICES ASSUME self \notin U PROVE FALSE
      OBVIOUS
    <3>2. 0 \in T
      BY <2>6, <3>1, SizeIs
    <3>3. ASSUME NEW n \in 0 .. Size, n \in T, n < Size PROVE n + 1 \in T
      BY <2>3, <2>7, <3>3
    <3>4. \A n \in 0 .. Size : n \in T
      <4> HIDE DEF T
      <4> QED
        BY <3>2, <3>3, SizeIs, Induction
    <3>5. Size \in T
      BY <3>4, SizeIs
    <3> QED
      BY <2>4, <2>5, <3>5
  <2>9. 0 \in S
    BY <2>6, <2>8, SizeIs
  <2>10. ASSUME NEW n \in 0 .. Size, n \in S, n < Size PROVE n + 1 \in S
    BY <2>3, <2>7, <2>10
  <2>11. \A n \in 0 .. Size : n \in S
    <3> HIDE DEF S
    <3> QED
      BY <2>9, <2>10, SizeIs, Induction
  <2>12. Routers \subseteq U
    <3>1. Size \in S
      BY <2>11, SizeIs
    <3> QED
      BY <2>5, <3>1
  <2>13. \A n \in 0 .. Size : Within(edges, r)[n] = {x \in Routers : e[x] <= n}
    BY <2>2, WithinReached
  <2>14. Within(edges, r)[Size] = {x \in Routers : e[x] <= Size}
    BY <2>13, SizeIs
  <2>15. \A x \in Routers : e[x] \in Nat /\ (e[x] < INFINITY => e[x] < Size)
    BY <2>2, SizeIs DEF Finds
  <2> QED
    BY <2>12, <2>14, <2>15, SizeIs DEF U
<1> QED
  BY <1>4, <1>5 DEF Connected, Size

(***************************************************************************)
(* The walk back.                                                          *)
(***************************************************************************)

Back(p, self, r) == IF r = Nobody \/ p[r] = self THEN r ELSE p[r]

LEMMA WalkIs ==
  ASSUME NEW self, NEW p \in Predecessors, NEW dest \in Routers
  PROVE  /\ Walk(self, p, dest)[0] = dest
         /\ \A n \in 1 .. Size : Walk(self, p, dest)[n] = Back(p, self, Walk(self, p, dest)[n - 1])
<1> DEFINE next(r) == Back(p, self, r)
           step  == [x \in Nat \X (Routers \cup {Nobody}) |-> next(x[2])]
           G     == Nat \X (Routers \cup {Nobody})
           walk  == Walk(self, p, dest)
           Of(f) == [n \in 0 .. Size |-> IF n = 0 THEN dest ELSE next(f[n - 1])]
<1>1. Closed(G, Size, dest, step)
  <2>1. <<0, dest>> \in G
    OBVIOUS
  <2>2. ASSUME NEW n \in 1 .. Size, NEW x, <<n - 1, x>> \in G
        PROVE  <<n, step[<<n, x>>]>> \in G
    <3>1. n \in Nat /\ x \in Routers \cup {Nobody}
      BY <2>2, SizeIs
    <3>2. next(x) \in Routers \cup {Nobody}
      BY <3>1 DEF Back, Predecessors
    <3> HIDE DEF next
    <3> QED
      BY <3>1, <3>2
  <2> HIDE DEF G, step
  <2> QED
    BY <2>1, <2>2 DEF Closed
<1> HIDE DEF next
<1>2. ASSUME NEW f, f = Of(f) PROVE f[0] = dest /\ \A n \in 1 .. Size : f[n] = next(f[n - 1])
  <2>1. f[0] = dest
    BY <1>2, SizeIs
  <2>2. ASSUME NEW n \in 1 .. Size PROVE f[n] = next(f[n - 1])
    <3>1. n \in 0 .. Size /\ n # 0
      BY SizeIs
    <3> QED
      BY <1>2, <3>1
  <2> QED
    BY <2>1, <2>2
<1>3. \E f : f = Of(f)
  <2>1. PICK f : Recurses(f, Size, dest, step)
    <3> HIDE DEF step
    <3> QED
      BY SizeIs, Recursion
  <2>2. \A n \in 0 .. Size : <<n, f[n]>> \in G
    <3> HIDE DEF step, G
    <3> QED
      BY <1>1, <2>1, SizeIs, ValuesAreGood
  <2>3. ASSUME NEW n \in 1 .. Size PROVE f[n] = next(f[n - 1])
    <3>1. n \in Nat /\ n - 1 \in 0 .. Size
      BY SizeIs
    <3>2. f[n - 1] \in Routers \cup {Nobody}
      BY <2>2, <3>1
    <3>3. f[n] = step[<<n, f[n - 1]>>]
      BY <2>1 DEF Recurses
    <3> QED
      BY <3>1, <3>2, <3>3
  <2>4. f = [n \in 0 .. Size |-> f[n]] /\ f[0] = dest
    BY <2>1 DEF Recurses
  <2>5. ASSUME NEW n \in 0 .. Size PROVE f[n] = IF n = 0 THEN dest ELSE next(f[n - 1])
    <3>1. n = 0 \/ n \in 1 .. Size
      BY SizeIs
    <3> QED
      BY <2>3, <2>4, <3>1
  <2> QED
    BY <2>4, <2>5
<1>4. walk = Of(walk)
  <2>1. walk = CHOOSE f : f = Of(f)
    BY DEF Walk, Size, next, Back
  <2> HIDE DEF walk, Of
  <2> QED
    BY <1>3, <2>1
<1> HIDE DEF walk
<1>5. walk[0] = dest /\ \A n \in 1 .. Size : walk[n] = next(walk[n - 1])
  BY <1>2, <1>4
<1> QED
  BY <1>5 DEF walk, next

(* The walk back from a router that was found ends next to self, on the    *)
(* way to it.                                                              *)
NextTo(h, self, edges, p)  == h \in Routers /\ <<self, h>> \in edges /\ p[h] = self
OnTheWay(h, edges, d, q)   == d[q] \in 1 .. Size /\ q \in Within(edges, h)[d[q] - 1]
Nearer(h, self, edges, q)  == Distance(edges, h, q) = Distance(edges, self, q) - 1

LEMMA FirstHopFound ==
  ASSUME NEW self \in Routers, NEW edges \in SUBSET (Routers \X Routers), NEW old, NEW d, NEW p,
         Finds(d, p, self, edges, old), NEW q \in Routers \ {self}, d[q] < INFINITY
  PROVE  NextTo(FirstHop(self, p, q), self, edges, p) /\ OnTheWay(FirstHop(self, p, q), edges, d, q)
<1> DEFINE walk == Walk(self, p, q)
           left(n) == IF n < d[q] THEN d[q] - n ELSE 1
           On(n) == /\ walk[n] \in Routers \ {self} /\ d[walk[n]] = left(n)
                    /\ q \in Within(edges, walk[n])[d[q] - left(n)]
           S    == {n \in 0 .. Size : On(n)}
<1>1. /\ p \in Predecessors /\ d[q] \in 1 .. Size /\ d[q] < Size
      /\ \A r \in Routers : d[r] \in Nat /\ (d[r] = 0 <=> r = self)
      /\ \A r \in Routers \ {self} : d[r] < INFINITY =>
           p[r] \in Routers /\ <<p[r], r>> \in edges /\ d[r] = d[p[r]] + 1
  BY SizeIs DEF Finds
<1>2. walk[0] = q /\ \A n \in 1 .. Size : walk[n] = Back(p, self, walk[n - 1])
  BY <1>1, WalkIs
<1> HIDE DEF walk
<1>3. 0 \in S
  <2>1. Within(edges, q)[0] = {q}
    BY WithinIs
  <2>2. left(0) = d[q] /\ d[q] - left(0) = 0
    BY <1>1
  <2> HIDE DEF left
  <2> QED
    BY <1>2, <2>1, <2>2, SizeIs
<1>4. ASSUME NEW n \in 0 .. Size, n \in S, n < Size PROVE n + 1 \in S
  <2> DEFINE r == walk[n]
  <2>1. r \in Routers \ {self} /\ d[r] = left(n) /\ q \in Within(edges, r)[d[q] - left(n)]
    BY <1>4
  <2>2. left(n) \in 1 .. d[q] /\ n + 1 \in 1 .. Size /\ (n + 1) - 1 = n /\ n + 1 \in 0 .. Size
    BY <1>1, <1>4, SizeIs
  <2>3. walk[n + 1] = Back(p, self, r)
    BY <1>2, <2>2
  <2> HIDE DEF r
  <2>4. p[r] \in Routers /\ <<p[r], r>> \in edges /\ d[r] = d[p[r]] + 1
    <3>1. d[r] < INFINITY
      BY <1>1, <2>1, <2>2, SizeIs
    <3> QED
      BY <1>1, <2>1, <3>1
  <2>5. r # Nobody
    BY <2>1, RouterIs
  <2>6. CASE p[r] = self
    <3>1. walk[n + 1] = r
      BY <2>3, <2>6 DEF Back
    <3>2. left(n) = 1 /\ left(n + 1) = left(n)
      BY <1>1, <1>4, <2>1, <2>4, <2>6
    <3> HIDE DEF left
    <3> QED
      BY <2>1, <2>2, <3>1, <3>2
  <2>7. CASE p[r] # self
    <3>1. walk[n + 1] = p[r]
      BY <2>3, <2>5, <2>7 DEF Back
    <3>2. d[p[r]] # 0 /\ d[p[r]] \in Nat
      BY <1>1, <2>4, <2>7
    <3>3. left(n + 1) = left(n) - 1 /\ d[p[r]] = left(n) - 1 /\ d[q] - left(n + 1) = (d[q] - left(n)) + 1
      BY <1>1, <1>4, <2>1, <2>2, <2>4, <3>2
    <3>4. d[q] - left(n) \in 0 .. Size - 1
      BY <1>1, <2>2, SizeIs
    <3> HIDE DEF left
    <3>5. Within(edges, r)[d[q] - left(n)] \subseteq Within(edges, p[r])[(d[q] - left(n)) + 1]
      BY <2>1, <2>4, <3>4, WithinOneMore
    <3> QED
      BY <2>1, <2>2, <2>4, <2>7, <3>1, <3>3, <3>5
  <2> QED
    BY <2>6, <2>7
<1>5. \A n \in 0 .. Size : n \in S
  <2> HIDE DEF S
  <2> QED
    BY <1>3, <1>4, SizeIs, Induction
<1>6. On(Size) /\ left(Size) = 1
  BY <1>1, <1>5, SizeIs
<1>7. FirstHop(self, p, q) = walk[Size]
  BY DEF FirstHop, walk, Size
<1> DEFINE h == walk[Size]
<1>8. h \in Routers \ {self} /\ d[h] = 1 /\ q \in Within(edges, h)[d[q] - 1]
  BY <1>6
<1> HIDE DEF h, left
<1>9. p[h] \in Routers /\ <<p[h], h>> \in edges /\ d[p[h]] = 0
  <2>1. 1 < INFINITY
    BY DEF INFINITY
  <2>2. p[h] \in Routers /\ <<p[h], h>> \in edges /\ d[h] = d[p[h]] + 1
    BY <1>1, <1>8, <2>1
  <2> QED
    BY <1>1, <1>8, <2>2
<1>10. p[h] = self
  BY <1>1, <1>9
<1> QED
  BY <1>1, <1>7, <1>8, <1>9, <1>10 DEF h, NextTo, OnTheWay

(* It is one hop nearer than self.                                         *)
LEMMA FirstHopNearer ==
  ASSUME NEW self \in Routers, NEW edges \in SUBSET (Routers \X Routers), NEW old, NEW d, NEW p,
         Finds(d, p, self, edges, old), NEW q \in Routers \ {self}, d[q] < INFINITY
  PROVE  Nearer(FirstHop(self, p, q), self, edges, q)
<1> DEFINE h == FirstHop(self, p, q)
<1> HIDE DEF h
<1>1. /\ h \in Routers /\ <<self, h>> \in edges
      /\ d[q] \in 1 .. Size /\ q \in Within(edges, h)[d[q] - 1]
  <2>1. NextTo(h, self, edges, p) /\ OnTheWay(h, edges, d, q)
    BY FirstHopFound DEF h
  <2> QED
    BY <2>1 DEF NextTo, OnTheWay
<1>2. ASSUME NEW m \in 0 .. (d[q] - 1) - 1 PROVE q \notin Within(edges, h)[m]
  <2>1. m \in 0 .. Size - 1 /\ m + 1 \in 0 .. Size /\ ~ d[q] <= m + 1
    BY <1>1, SizeIs
  <2>2. Within(edges, h)[m] \subseteq Within(edges, self)[m + 1]
    BY <1>1, <2>1, WithinOneMore
  <2>3. Within(edges, self)[m + 1] = {r \in Routers : d[r] <= m + 1}
    BY <2>1, WithinReached
  <2> QED
    BY <2>1, <2>2, <2>3
<1>3. d[q] - 1 \in 0 .. Size
  BY <1>1, SizeIs
<1>4. Distance(edges, h, q) = d[q] - 1
  BY <1>1, <1>2, <1>3, DistanceIs
<1>5. Distance(edges, self, q) = d[q]
  <2>1. Measures(d, self, edges)
    BY DistanceFound
  <2> QED
    BY <2>1 DEF Measures
<1> QED
  BY <1>4, <1>5 DEF h, Nearer

(* Predecessors are neighbours, whichever search left them.                *)
Adjacent(edges, p) ==
  \A r \in Routers : p[r] = Nobody \/ (p[r] \in Routers /\ <<p[r], r>> \in edges)

LEMMA SearchAdjacent ==
  ASSUME NEW self \in Routers, NEW edges \in SUBSET (Routers \X Routers),
         NEW old \in Predecessors, Adjacent(edges, old)
  PROVE  Search(self, edges, old) \in Predecessors /\ Adjacent(edges, Search(self, edges, old))
<1> DEFINE p == Search(self, edges, old)
<1>1. FindsSome(self, edges, old)
  BY SearchFinds
<1>2. PICK d : Finds(d, p, self, edges, old)
  BY <1>1 DEF FindsSome
<1> HIDE DEF p
<1>3. ASSUME NEW r \in Routers PROVE p[r] = Nobody \/ (p[r] \in Routers /\ <<p[r], r>> \in edges)
  <2>1. CASE d[r] = INFINITY \/ r = self
    BY <1>2, <2>1 DEF Finds, Adjacent
  <2>2. CASE ~ (d[r] = INFINITY \/ r = self)
    <3>1. d[r] < INFINITY
      BY <1>2, <2>2, SizeIs DEF Finds
    <3> QED
      BY <1>2, <2>2, <3>1 DEF Finds
  <2> QED
    BY <2>1, <2>2
<1>4. p \in Predecessors
  BY <1>2 DEF Finds
<1> QED
  BY <1>3, <1>4 DEF Adjacent, p

(* The walk back from any other router never gets to the end.              *)
LEMMA WalkLost ==
  ASSUME NEW self \in Routers, NEW edges \in SUBSET (Routers \X Routers),
         NEW old \in Predecessors, Adjacent(edges, old), NEW d, NEW p,
         Finds(d, p, self, edges, old), NEW q \in Routers, ~ d[q] < INFINITY
  PROVE  ~ WalkEnds(self, p, q)
<1> DEFINE walk == Walk(self, p, q)
           Lost(r) == r = Nobody \/ (r \in Routers /\ d[r] = INFINITY)
           S    == {n \in 0 .. Size : Lost(walk[n])}
<1>1. /\ p \in Predecessors
      /\ \A r \in Routers : d[r] \in 0 .. INFINITY /\ (d[r] = INFINITY => p[r] = old[r])
      /\ \A r \in Routers : d[r] = 0 <=> r = self
      /\ \A r, x \in Routers : <<r, x>> \in edges /\ d[r] < INFINITY => d[x] < INFINITY
  BY DEF Finds
<1>2. walk[0] = q /\ \A n \in 1 .. Size : walk[n] = Back(p, self, walk[n - 1])
  BY <1>1, WalkIs
<1> HIDE DEF walk
<1>3. ASSUME NEW r \in Routers, d[r] = INFINITY PROVE p[r] # self /\ Lost(p[r])
  <2>1. p[r] = old[r]
    BY <1>1, <1>3
  <2>2. old[r] = Nobody \/ (old[r] \in Routers /\ <<old[r], r>> \in edges)
    BY DEF Adjacent
  <2>3. old[r] \in Routers => ~ d[old[r]] < INFINITY
    BY <1>1, <1>3, <2>2, SizeIs, RouterIs
  <2>4. old[r] \in Routers => d[old[r]] = INFINITY
    BY <1>1, <2>3, SizeIs
  <2>5. INFINITY # 0 /\ self # Nobody
    BY RouterIs DEF INFINITY
  <2>6. old[r] # self
    BY <1>1, <2>4, <2>5
  <2> QED
    BY <2>1, <2>2, <2>4, <2>6
<1>4. 0 \in S
  BY <1>1, <1>2, SizeIs
<1>5. ASSUME NEW n \in 0 .. Size, n \in S, n < Size PROVE n + 1 \in S
  <2>1. n + 1 \in 1 .. Size /\ (n + 1) - 1 = n /\ n + 1 \in 0 .. Size
    BY <1>5, SizeIs
  <2>2. walk[n + 1] = Back(p, self, walk[n])
    BY <1>2, <2>1
  <2>3. Lost(walk[n])
    BY <1>5
  <2>4. Lost(walk[n + 1])
    BY <1>3, <2>2, <2>3 DEF Back
  <2> QED
    BY <2>1, <2>4
<1>6. \A n \in 0 .. Size : n \in S
  <2> HIDE DEF S
  <2> QED
    BY <1>4, <1>5, SizeIs, Induction
<1>7. Lost(walk[Size])
  BY <1>6, SizeIs
<1>8. FirstHop(self, p, q) = walk[Size]
  BY DEF FirstHop, walk, Size
<1> QED
  BY <1>3, <1>7, <1>8 DEF WalkEnds

(***************************************************************************)
(* The set-up.                                                             *)
(***************************************************************************)

RoutingTypeOK ==
  /\ links \in SUBSET (Routers \X Routers) /\ Symmetric(links)
  /\ pred \in Predecessors
  /\ table \in [Routers -> [Routers -> Routers \cup {Nobody}]]
  /\ built \in SUBSET Routers

(* The tables lead over links.                                             *)
TablesLead == \A r \in built : \A q \in Routers \ {r} : <<r, table[r][q]>> \in links

RoutingInv ==
  RoutingTypeOK /\ Adjacent(links, pred) /\ TablesLead /\ EveryHopGetsNearer

LEMMA RoutingInitially == RoutingInit => RoutingInv
<1> SUFFICES ASSUME RoutingInit PROVE RoutingInv
  OBVIOUS
<1>1. /\ pred = [r \in Routers |-> Nobody] /\ built = {}
      /\ table = [r \in Routers |-> [q \in Routers |-> Nobody]]
  BY DEF RoutingInit
<1>2. PICK lines \in SUBSET {l \in Routers \X Routers : l[1] < l[2]} :
        links = lines \cup {<<l[2], l[1]>> : l \in lines}
  BY DEF RoutingInit
<1>3. links \in SUBSET (Routers \X Routers)
  BY <1>2
<1>4. Symmetric(links)
  <2>1. SUFFICES ASSUME NEW l \in links PROVE <<l[2], l[1]>> \in links
    BY DEF Symmetric
  <2>2. CASE l \in lines
    BY <1>2, <2>2
  <2>3. CASE l \notin lines
    <3>1. PICK k \in lines : l = <<k[2], k[1]>>
      BY <1>2, <2>3
    <3>2. k = <<k[1], k[2]>>
      BY <1>2
    <3>3. <<l[2], l[1]>> = k
      BY <3>1, <3>2
    <3> QED
      BY <1>2, <3>3
  <2> QED
    BY <2>2, <2>3
<1>5. RoutingTypeOK
  BY <1>1, <1>3, <1>4 DEF RoutingTypeOK, Predecessors
<1>6. Adjacent(links, pred)
  BY <1>1 DEF Adjacent
<1> QED
  BY <1>1, <1>5, <1>6 DEF RoutingInv, TablesLead, EveryHopGetsNearer

(* A router's new table leads over its links, to routers that are nearer.  *)
LEMMA CreateTableKeeps ==
  ASSUME RoutingInv, NEW r \in Routers, CreateTable(r)
  PROVE  RoutingInv'
<1>1. /\ links \in SUBSET (Routers \X Routers) /\ Symmetric(links) /\ pred \in Predecessors
      /\ table \in [Routers -> [Routers -> Routers \cup {Nobody}]]
      /\ built \in SUBSET Routers /\ Adjacent(links, pred) /\ TablesLead /\ EveryHopGetsNearer
  BY DEF RoutingInv, RoutingTypeOK
<1>2. /\ pred' = Search(r, links, pred) /\ table' = [table EXCEPT ![r] = TableOf(r, pred')]
      /\ built' = built \cup {r} /\ links' = links
      /\ \A q \in Routers \ {r} : WalkEnds(r, pred', q)
  BY DEF CreateTable
<1>3. FindsSome(r, links, pred)
  BY <1>1, SearchFinds
<1>4. PICK d : Finds(d, pred', r, links, pred)
  BY <1>2, <1>3 DEF FindsSome
<1>5. \A q \in Routers \ {r} : d[q] < INFINITY
  BY <1>1, <1>2, <1>4, WalkLost
<1>6. ASSUME NEW q \in Routers \ {r}
      PROVE  /\ FirstHop(r, pred', q) \in Routers /\ <<r, FirstHop(r, pred', q)>> \in links
             /\ Distance(links, FirstHop(r, pred', q), q) = Distance(links, r, q) - 1
  <2>1. d[q] < INFINITY
    BY <1>5
  <2>2. NextTo(FirstHop(r, pred', q), r, links, pred')
    BY <1>1, <1>4, <2>1, FirstHopFound
  <2>3. Nearer(FirstHop(r, pred', q), r, links, q)
    BY <1>1, <1>4, <2>1, FirstHopNearer
  <2> QED
    BY <2>2, <2>3 DEF NextTo, Nearer
<1>7. pred' \in Predecessors /\ Adjacent(links, pred')
  BY <1>1, <1>2, SearchAdjacent
<1>8. TableOf(r, pred') \in [Routers -> Routers \cup {Nobody}]
  BY <1>6 DEF TableOf
<1>9. ASSUME NEW s \in built', NEW q \in Routers \ {s}
      PROVE  /\ <<s, table'[s][q]>> \in links'
             /\ Distance(links', table'[s][q], q) = Distance(links', s, q) - 1
  <2>1. CASE s = r
    <3>1. table'[s][q] = FirstHop(r, pred', q)
      BY <1>1, <1>2, <2>1 DEF TableOf
    <3> QED
      BY <1>2, <1>6, <2>1, <3>1
  <2>2. CASE s # r
    <3>1. s \in built /\ table'[s] = table[s]
      BY <1>1, <1>2, <2>2
    <3>2. <<s, table[s][q]>> \in links
      BY <1>1, <3>1 DEF TablesLead
    <3>3. Distance(links, table[s][q], q) = Distance(links, s, q) - 1
      BY <1>1, <3>1 DEF EveryHopGetsNearer
    <3> QED
      BY <1>2, <3>1, <3>2, <3>3
  <2> QED
    BY <2>1, <2>2
<1>10. RoutingTypeOK'
  BY <1>1, <1>2, <1>7, <1>8 DEF RoutingTypeOK, Symmetric
<1>11. TablesLead' /\ EveryHopGetsNearer'
  BY <1>9 DEF TablesLead, EveryHopGetsNearer
<1> QED
  BY <1>2, <1>7, <1>10, <1>11 DEF RoutingInv

(* The searches find shortest paths although each starts with what the     *)
(* last one left: the tables lead over links, and to routers a hop nearer. *)
THEOREM RoutingInductive == RoutingSpec => []RoutingInv
<1>1. RoutingInit => RoutingInv
  BY RoutingInitially
<1>2. RoutingInv /\ [RoutingNext]_routingVars => RoutingInv'
  <2>1. SUFFICES ASSUME RoutingInv, [RoutingNext]_routingVars PROVE RoutingInv'
    OBVIOUS
  <2>2. CASE RoutingNext
    BY <2>1, <2>2, CreateTableKeeps DEF RoutingNext
  <2>3. CASE UNCHANGED routingVars
    BY <2>1, <2>3 DEF RoutingInv, RoutingTypeOK, TablesLead, EveryHopGetsNearer, routingVars
  <2> QED
    BY <2>1, <2>2, <2>3
<1> QED
  BY <1>1, <1>2, PTL DEF RoutingSpec

(* No table leads astray or in a circle, on a map of any size.             *)
THEOREM EveryHopGetsNearerHolds == RoutingSpec => []EveryHopGetsNearer
<1>1. RoutingInv => EveryHopGetsNearer
  BY DEF RoutingInv
<1> QED
  BY <1>1, RoutingInductive, PTL

LEMMA SetUpGoesOnFollows == RoutingInv => SetUpGoesOn
<1> SUFFICES ASSUME RoutingInv, NEW r \in Routers
             PROVE  Connected(links) <=>
                      \A q \in Routers \ {r} : WalkEnds(r, Search(r, links, pred), q)
  BY DEF SetUpGoesOn
<1> DEFINE p == Search(r, links, pred)
<1>1. /\ links \in SUBSET (Routers \X Routers) /\ Symmetric(links) /\ pred \in Predecessors
      /\ Adjacent(links, pred)
  BY DEF RoutingInv, RoutingTypeOK
<1>2. FindsSome(r, links, pred)
  BY <1>1, SearchFinds
<1>3. PICK d : Finds(d, p, r, links, pred)
  BY <1>2 DEF FindsSome
<1> HIDE DEF p
<1>4. Connected(links) <=> \A q \in Routers : d[q] < INFINITY
  BY <1>1, <1>3, ConnectedIffReached
<1>5. d[r] < INFINITY
  <2>1. d[r] = 0
    BY <1>3 DEF Finds
  <2> QED
    BY <2>1 DEF INFINITY
<1>6. ASSUME NEW q \in Routers \ {r}
      PROVE  WalkEnds(r, p, q) <=> d[q] < INFINITY
  <2>1. ASSUME d[q] < INFINITY PROVE WalkEnds(r, p, q)
    <3>1. NextTo(FirstHop(r, p, q), r, links, p)
      BY <1>1, <1>3, <2>1, FirstHopFound
    <3> QED
      BY <3>1, RouterIs DEF WalkEnds, NextTo
  <2>2. ASSUME ~ d[q] < INFINITY PROVE ~ WalkEnds(r, p, q)
    <3>1. q \in Routers
      OBVIOUS
    <3> QED
      BY <1>1, <1>3, <2>2, <3>1, WalkLost
  <2> QED
    BY <2>1, <2>2
<1> QED
  BY <1>4, <1>5, <1>6 DEF p

(* The set-up comes to its end exactly if the map is connected; on any     *)
(* other, of any size, it stays in a walk back for ever.                   *)
THEOREM SetUpGoesOnHolds == RoutingSpec => []SetUpGoesOn
  BY SetUpGoesOnFollows, RoutingInductive, PTL

(* What stays true from one value of a function to the next.               *)
Staying(f, R, V) == \A n \in 1 .. R : f[n - 1] \in V => f[n] \in V
Typed(f, R, V)   == \A n \in 0 .. R : f[n] \in V

LEMMA Stays ==
  ASSUME NEW R \in Nat, NEW V, NEW f, f[0] \in V, Staying(f, R, V)
  PROVE  Typed(f, R, V)
<1> DEFINE S == {n \in 0 .. R : f[n] \in V}
<1>1. 0 \in S
  OBVIOUS
<1>2. ASSUME NEW n \in 0 .. R, n \in S, n < R PROVE n + 1 \in S
  <2>1. n + 1 \in 1 .. R /\ n + 1 \in 0 .. R /\ (n + 1) - 1 = n
    BY <1>2
  <2>2. f[(n + 1) - 1] \in V
    BY <1>2, <2>1
  <2> QED
    BY <2>1, <2>2 DEF Staying
<1>3. \A n \in 0 .. R : n \in S
  <2> HIDE DEF S
  <2> QED
    BY <1>1, <1>2, Induction
<1> QED
  BY <1>3 DEF Typed

(* A function by recursion exists with values in the set that the step     *)
(* stays in.                                                               *)
Runs(a, R, V, first, step) ==
  /\ a \in [0 .. R -> V]
  /\ a[0] = first
  /\ \A n \in 1 .. R : a[n] = step[<<n, a[n - 1]>>]

LEMMA RunsExist ==
  ASSUME NEW R \in Nat, NEW V, NEW first \in V, NEW step \in [Nat \X V -> V]
  PROVE  \E a : Runs(a, R, V, first, step)
<1>1. PICK f : Recurses(f, R, first, step)
  BY Recursion
<1>2. /\ f = [n \in 0 .. R |-> f[n]] /\ f[0] = first
      /\ \A n \in 1 .. R : f[n] = step[<<n, f[n - 1]>>]
  BY <1>1 DEF Recurses
<1>3. Staying(f, R, V)
  <2>1. ASSUME NEW n \in 1 .. R, f[n - 1] \in V PROVE f[n] \in V
    <3>1. <<n, f[n - 1]>> \in Nat \X V
      BY <2>1
    <3> QED
      BY <1>2, <3>1
  <2> QED
    BY <2>1 DEF Staying
<1>4. Typed(f, R, V)
  BY <1>2, <1>3, Stays
<1>5. f \in [0 .. R -> V]
  BY <1>2, <1>4 DEF Typed
<1> QED
  BY <1>2, <1>5 DEF Runs

LengthRuns(a, ps) ==
  /\ a \in [0 .. Len(ps) -> Nat] /\ a[0] = 0
  /\ \A n \in 1 .. Len(ps) : a[n] = a[n - 1] + ps[n].len
  /\ Length(ps) = a[Len(ps)]

LEMMA LengthIs ==
  ASSUME NEW ps \in Seq(Packets)
  PROVE  \E a : LengthRuns(a, ps)
<1> DEFINE R          == Len(ps)
           V          == Nat
           first      == 0
           next(n, x) == x + ps[n].len
           step       == [q \in Nat \X V |-> IF q[1] \in 1 .. R THEN next(q[1], q[2]) ELSE first]
           Of(g)      == [n \in 0 .. R |-> IF n = 0 THEN first ELSE next(n, g[n - 1])]
           after      == CHOOSE g : g = Of(g)
<1>1. R \in Nat /\ first \in V
  OBVIOUS
<1>2. ASSUME NEW n \in 1 .. R, NEW x \in V PROVE next(n, x) \in V
  <2>1. ps[n] \in Packets
    BY <1>2
  <2> QED
    BY <2>1, HupSimAssumption DEF Packets
<1>3. Length(ps) = after[R]
  BY DEF Length
<1> HIDE DEF next, R, V, first
<1>4. step \in [Nat \X V -> V]
  BY <1>1, <1>2
<1>5. PICK b : Runs(b, R, V, first, step)
  <2> HIDE DEF step
  <2> QED
    BY <1>1, <1>4, RunsExist
<1>6. \E g : g = Of(g)
  <2>1. ASSUME NEW n \in 1 .. R PROVE b[n] = next(n, b[n - 1])
    <3>1. n \in Nat /\ n - 1 \in 0 .. R
      BY <1>1
    <3>2. b[n] = step[<<n, b[n - 1]>>] /\ b[n - 1] \in V
      <4> HIDE DEF step
      <4> QED
        BY <1>5, <3>1 DEF Runs
    <3> QED
      BY <3>1, <3>2
  <2>2. ASSUME NEW n \in 0 .. R PROVE b[n] = IF n = 0 THEN first ELSE next(n, b[n - 1])
    <3>1. n = 0 \/ n \in 1 .. R
      BY <1>1
    <3> QED
      BY <1>5, <2>1, <3>1 DEF Runs
  <2>3. b = [n \in 0 .. R |-> b[n]]
    BY <1>5 DEF Runs
  <2>4. b = Of(b)
    BY <2>2, <2>3
  <2> QED
    BY <2>4
<1>7. after = Of(after)
  <2> HIDE DEF Of
  <2> QED
    BY <1>6
<1> HIDE DEF after
<1>8. after[0] = first
  BY <1>1, <1>7
<1>9. ASSUME NEW n \in 1 .. R PROVE after[n] = next(n, after[n - 1])
  <2>1. n \in 0 .. R /\ n # 0
    BY <1>1
  <2> QED
    BY <1>7, <2>1
<1>10. after \in [0 .. R -> V]
  <2>1. Staying(after, R, V)
    BY <1>2, <1>9 DEF Staying
  <2>2. Typed(after, R, V)
    BY <1>1, <1>8, <2>1, Stays
  <2>3. after = [n \in 0 .. R |-> after[n]]
    BY <1>7
  <2> QED
    BY <2>2, <2>3 DEF Typed
<1>11. LengthRuns(after, ps)
  BY <1>3, <1>8, <1>9, <1>10 DEF LengthRuns, R, V, first, next
<1> QED
  BY <1>11

OfFlowRuns(a, ps, f) ==
  /\ a \in [0 .. Len(ps) -> Seq(Packets)] /\ a[0] = <<>>
  /\ \A n \in 1 .. Len(ps) :
       a[n] = IF <<ps[n].src, ps[n].dst>> = f THEN Append(a[n - 1], ps[n]) ELSE a[n - 1]
  /\ OfFlow(ps, f) = a[Len(ps)]

LEMMA OfFlowIs ==
  ASSUME NEW ps \in Seq(Packets), NEW f
  PROVE  \E a : OfFlowRuns(a, ps, f)
<1> DEFINE R          == Len(ps)
           V          == Seq(Packets)
           first      == <<>>
           next(n, x) == IF <<ps[n].src, ps[n].dst>> = f THEN Append(x, ps[n]) ELSE x
           step       == [q \in Nat \X V |-> IF q[1] \in 1 .. R THEN next(q[1], q[2]) ELSE first]
           Of(g)      == [n \in 0 .. R |-> IF n = 0 THEN first ELSE next(n, g[n - 1])]
           after      == CHOOSE g : g = Of(g)
<1>1. R \in Nat /\ first \in V
  OBVIOUS
<1>2. ASSUME NEW n \in 1 .. R, NEW x \in V PROVE next(n, x) \in V
  <2>1. ps[n] \in Packets
    BY <1>2
  <2>2. Append(x, ps[n]) \in Seq(Packets)
    BY <1>2, <2>1
  <2> QED
    BY <1>2, <2>2
<1>3. OfFlow(ps, f) = after[R]
  BY DEF OfFlow
<1> HIDE DEF next, R, V, first
<1>4. step \in [Nat \X V -> V]
  BY <1>1, <1>2
<1>5. PICK b : Runs(b, R, V, first, step)
  <2> HIDE DEF step
  <2> QED
    BY <1>1, <1>4, RunsExist
<1>6. \E g : g = Of(g)
  <2>1. ASSUME NEW n \in 1 .. R PROVE b[n] = next(n, b[n - 1])
    <3>1. n \in Nat /\ n - 1 \in 0 .. R
      BY <1>1
    <3>2. b[n] = step[<<n, b[n - 1]>>] /\ b[n - 1] \in V
      <4> HIDE DEF step
      <4> QED
        BY <1>5, <3>1 DEF Runs
    <3> QED
      BY <3>1, <3>2
  <2>2. ASSUME NEW n \in 0 .. R PROVE b[n] = IF n = 0 THEN first ELSE next(n, b[n - 1])
    <3>1. n = 0 \/ n \in 1 .. R
      BY <1>1
    <3> QED
      BY <1>5, <2>1, <3>1 DEF Runs
  <2>3. b = [n \in 0 .. R |-> b[n]]
    BY <1>5 DEF Runs
  <2>4. b = Of(b)
    BY <2>2, <2>3
  <2> QED
    BY <2>4
<1>7. after = Of(after)
  <2> HIDE DEF Of
  <2> QED
    BY <1>6
<1> HIDE DEF after
<1>8. after[0] = first
  BY <1>1, <1>7
<1>9. ASSUME NEW n \in 1 .. R PROVE after[n] = next(n, after[n - 1])
  <2>1. n \in 0 .. R /\ n # 0
    BY <1>1
  <2> QED
    BY <1>7, <2>1
<1>10. after \in [0 .. R -> V]
  <2>1. Staying(after, R, V)
    BY <1>2, <1>9 DEF Staying
  <2>2. Typed(after, R, V)
    BY <1>1, <1>8, <2>1, Stays
  <2>3. after = [n \in 0 .. R |-> after[n]]
    BY <1>7
  <2> QED
    BY <2>2, <2>3 DEF Typed
<1>11. OfFlowRuns(after, ps, f)
  BY <1>3, <1>8, <1>9, <1>10 DEF OfFlowRuns, R, V, first, next
<1> QED
  BY <1>11

LEMMA LengthConcat ==
  ASSUME NEW s \in Seq(Packets), NEW t \in Seq(Packets)
  PROVE  Length(s \o t) = Length(s) + Length(t)
<1> DEFINE u == s \o t
           m == Len(s)
<1>1. PICK a : LengthRuns(a, s)
  BY LengthIs
<1>2. PICK b : LengthRuns(b, t)
  BY LengthIs
<1>3. u \in Seq(Packets) /\ Len(u) = m + Len(t) /\ m \in Nat /\ Len(t) \in Nat
  OBVIOUS
<1>4. PICK c : LengthRuns(c, u)
  <2> HIDE DEF u
  <2> QED
    BY <1>3, LengthIs
<1>5. \A n \in 1 .. m : u[n] = s[n]
  OBVIOUS
<1>6. \A n \in 1 .. Len(t) : u[m + n] = t[n]
  OBVIOUS
<1> HIDE DEF u, m
<1> DEFINE S == {n \in 0 .. m : c[n] = a[n]}
           T == {n \in 0 .. Len(t) : c[m + n] = a[m] + b[n]}
<1>7. a[0] = 0 /\ b[0] = 0 /\ c[0] = 0
  BY <1>1, <1>2, <1>4 DEF LengthRuns
<1>8. 0 \in S
  BY <1>3, <1>7
<1>9. ASSUME NEW n \in 0 .. m, n \in S, n < m PROVE n + 1 \in S
  <2>1. n + 1 \in 1 .. m /\ n + 1 \in 1 .. Len(u) /\ (n + 1) - 1 = n
    BY <1>3, <1>9
  <2>2. c[n + 1] = c[(n + 1) - 1] + u[n + 1].len
    BY <1>4, <2>1 DEF LengthRuns
  <2>3. a[n + 1] = a[(n + 1) - 1] + s[n + 1].len
    BY <1>1, <2>1 DEF LengthRuns, m
  <2>4. u[n + 1] = s[n + 1] /\ c[n] = a[n]
    BY <1>5, <1>9, <2>1
  <2> QED
    BY <2>1, <2>2, <2>3, <2>4
<1>10. \A n \in 0 .. m : n \in S
  <2> HIDE DEF S
  <2> QED
    BY <1>3, <1>8, <1>9, Induction
<1>11. c[m] = a[m] /\ a[m] \in Nat
  <2>1. m \in 0 .. m
    BY <1>3
  <2>2. a[m] \in Nat
    BY <1>1, <2>1 DEF LengthRuns, m
  <2>3. c[m] = a[m]
    BY <1>10, <2>1
  <2> QED
    BY <2>2, <2>3
<1>12. 0 \in T
  BY <1>3, <1>7, <1>11
<1>13. ASSUME NEW n \in 0 .. Len(t), n \in T, n < Len(t) PROVE n + 1 \in T
  <2>1. /\ n + 1 \in 1 .. Len(t) /\ m + (n + 1) \in 1 .. Len(u) /\ (n + 1) - 1 = n
        /\ (m + (n + 1)) - 1 = m + n
    BY <1>3, <1>13
  <2>2. c[m + (n + 1)] = c[(m + (n + 1)) - 1] + u[m + (n + 1)].len
    BY <1>4, <2>1 DEF LengthRuns
  <2>3. b[n + 1] = b[(n + 1) - 1] + t[n + 1].len
    BY <1>2, <2>1 DEF LengthRuns
  <2>4. u[m + (n + 1)] = t[n + 1] /\ c[m + n] = a[m] + b[n]
    BY <1>6, <1>13, <2>1
  <2>5. b[n] \in Nat
    BY <1>2 DEF LengthRuns
  <2>6. t[n + 1].len \in Nat
    <3>1. t[n + 1] \in Packets
      BY <2>1
    <3> QED
      BY <3>1, HupSimAssumption DEF Packets
  <2>7. c[m + (n + 1)] = a[m] + b[n + 1]
    BY <1>11, <2>1, <2>2, <2>3, <2>4, <2>5, <2>6, SMTT(30)
  <2> QED
    BY <2>1, <2>7
<1>14. \A n \in 0 .. Len(t) : n \in T
  <2> HIDE DEF T
  <2> QED
    BY <1>3, <1>12, <1>13, Induction
<1>15. c[m + Len(t)] = a[m] + b[Len(t)]
  BY <1>3, <1>14
<1> QED
  BY <1>1, <1>2, <1>3, <1>4, <1>15 DEF LengthRuns, u, m

LEMMA LengthOfNone == Length(<<>>) = 0
<1>1. <<>> \in Seq(Packets) /\ Len(<<>>) = 0
  OBVIOUS
<1>2. PICK a : LengthRuns(a, <<>>)
  BY <1>1, LengthIs
<1> QED
  BY <1>1, <1>2 DEF LengthRuns

LEMMA LengthOfOne == ASSUME NEW p \in Packets PROVE Length(<<p>>) = p.len
<1> DEFINE s == <<p>>
<1>1. s \in Seq(Packets) /\ Len(s) = 1 /\ s[1] = p
  OBVIOUS
<1> HIDE DEF s
<1>2. PICK a : LengthRuns(a, s)
  BY <1>1, LengthIs
<1>3. 1 \in 1 .. Len(s) /\ 1 - 1 = 0
  BY <1>1
<1>4. a[1] = a[0] + p.len
  BY <1>1, <1>2, <1>3 DEF LengthRuns
<1>5. p.len \in Nat
  BY HupSimAssumption DEF Packets
<1> QED
  BY <1>1, <1>2, <1>4, <1>5 DEF LengthRuns, s

LEMMA LengthType == ASSUME NEW s \in Seq(Packets) PROVE Length(s) \in Nat
<1>1. PICK a : LengthRuns(a, s)
  BY LengthIs
<1> QED
  BY <1>1 DEF LengthRuns

(***************************************************************************)
(* Queues.                                                                 *)
(***************************************************************************)

Entries == [pkt : Packets, left : Nat]
Queues  == {c \in [queue : Seq(Entries), size : Nat] :
              Len(c.queue) <= QueueMax /\ c.size = Length(Pkts(c))}

LEMMA PktsAre ==
  ASSUME NEW c, c.queue \in Seq(Entries)
  PROVE  /\ Pkts(c) \in Seq(Packets) /\ Len(Pkts(c)) = Len(c.queue)
         /\ \A k \in 1 .. Len(c.queue) : Pkts(c)[k] = c.queue[k].pkt
<1> DEFINE q == c.queue
<1>1. DOMAIN q = 1 .. Len(q) /\ Len(q) \in Nat /\ \A k \in 1 .. Len(q) : q[k] \in Entries
  OBVIOUS
<1>2. \A k \in 1 .. Len(q) : q[k].pkt \in Packets
  BY <1>1 DEF Entries
<1>3. Pkts(c) = [k \in 1 .. Len(q) |-> q[k].pkt]
  BY <1>1 DEF Pkts
<1> HIDE DEF q
<1>4. Pkts(c) \in [1 .. Len(q) -> Packets]
  BY <1>2, <1>3
<1> QED
  BY <1>1, <1>3, <1>4 DEF q

LEMMA EmptyQueue == [queue |-> <<>>, size |-> 0] \in Queues
<1> DEFINE c == [queue |-> <<>>, size |-> 0]
<1>1. c.queue = <<>> /\ c.size = 0 /\ <<>> \in Seq(Entries) /\ Len(<<>>) = 0
  OBVIOUS
<1>2. c \in [queue : Seq(Entries), size : Nat]
  BY <1>1
<1> HIDE DEF c
<1>3. Pkts(c) = <<>>
  <2>1. c.queue \in Seq(Entries) /\ Len(c.queue) = 0
    BY <1>1
  <2>2. Pkts(c) \in Seq(Packets) /\ Len(Pkts(c)) = 0
    BY <2>1, PktsAre
  <2> QED
    BY <2>2
<1> QED
  BY <1>1, <1>2, <1>3, LengthOfNone, HupSimAssumption DEF Queues, c

LEMMA EnQIs ==
  ASSUME NEW c \in Queues, NEW p \in Packets
  PROVE  /\ EnQ(c, p) \in Queues
         /\ Pkts(EnQ(c, p)) = IF IsFull(c) THEN Pkts(c) ELSE Pkts(c) \o <<p>>
<1>1. /\ p.len \in Nat /\ c.size \in Nat /\ c.queue \in Seq(Entries)
      /\ Len(c.queue) <= QueueMax /\ c.size = Length(Pkts(c))
  BY HupSimAssumption DEF Packets, Queues
<1> DEFINE backlog == IF c.queue # <<>> THEN c.size ELSE 0
           l       == Latency + TxTime * (p.len + backlog)
           e       == [pkt |-> p, left |-> l]
           d       == [queue |-> Append(c.queue, e), size |-> c.size + p.len]
<1>2. p.len + backlog \in Nat
  BY <1>1
<1>3. TxTime * (p.len + backlog) \in Nat
  <2> HIDE DEF backlog
  <2> QED
    BY <1>1, <1>2, HupSimAssumption
<1>4. l \in Nat
  <2> DEFINE x == TxTime * (p.len + backlog)
  <2> HIDE DEF x
  <2>1. Latency + x \in Nat
    BY <1>3, HupSimAssumption DEF x
  <2> QED
    BY <2>1 DEF x
<1>5. EnQ(c, p) = IF Len(c.queue) >= QueueMax THEN c ELSE d
  BY DEF EnQ, IsFull
<1> HIDE DEF l
<1>6. e \in Entries /\ e.pkt = p
  BY <1>4 DEF Entries
<1> HIDE DEF e
<1>7. /\ d.queue = Append(c.queue, e) /\ d.queue \in Seq(Entries) /\ d.size = c.size + p.len
      /\ Len(d.queue) = Len(c.queue) + 1
      /\ \A k \in 1 .. Len(c.queue) : d.queue[k] = c.queue[k]
      /\ d.queue[Len(c.queue) + 1] = e
  BY <1>1, <1>6
<1>8. d \in [queue : Seq(Entries), size : Nat]
  BY <1>1, <1>7
<1> HIDE DEF d
<1>9. Pkts(d) = Pkts(c) \o <<p>>
  <2>1. /\ Pkts(c) \in Seq(Packets) /\ Len(Pkts(c)) = Len(c.queue)
        /\ \A k \in 1 .. Len(c.queue) : Pkts(c)[k] = c.queue[k].pkt
    BY <1>1, PktsAre
  <2>2. /\ Pkts(d) \in Seq(Packets) /\ Len(Pkts(d)) = Len(d.queue)
        /\ \A k \in 1 .. Len(d.queue) : Pkts(d)[k] = d.queue[k].pkt
    BY <1>7, PktsAre
  <2> DEFINE s == Pkts(c)
             t == Pkts(d)
             u == s \o <<p>>
  <2> HIDE DEF s, t
  <2>3. /\ u \in Seq(Packets) /\ Len(u) = Len(s) + 1 /\ u[Len(s) + 1] = p
        /\ \A k \in 1 .. Len(s) : u[k] = s[k]
    BY <2>1 DEF s
  <2> HIDE DEF u
  <2>4. Len(t) = Len(u)
    BY <1>7, <2>1, <2>2, <2>3 DEF s, t
  <2>5. ASSUME NEW k \in 1 .. Len(t) PROVE t[k] = u[k]
    <3>1. CASE k = Len(s) + 1
      BY <1>6, <1>7, <2>1, <2>2, <2>3, <3>1 DEF s, t
    <3>2. CASE k # Len(s) + 1
      <4>1. k \in 1 .. Len(s) /\ k \in 1 .. Len(c.queue) /\ k \in 1 .. Len(d.queue)
        BY <1>7, <2>1, <2>2, <3>2 DEF s, t
      <4> QED
        BY <1>7, <2>1, <2>2, <2>3, <4>1 DEF s, t
    <3> QED
      BY <3>1, <3>2
  <2>6. t = u
    BY <2>2, <2>3, <2>4, <2>5, SeqEqual DEF t
  <2> QED
    BY <2>6 DEF s, t, u
<1>10. Length(Pkts(d)) = c.size + p.len
  <2>1. Pkts(c) \in Seq(Packets) /\ <<p>> \in Seq(Packets)
    BY <1>1, PktsAre
  <2>2. Length(Pkts(c) \o <<p>>) = Length(Pkts(c)) + Length(<<p>>)
    BY <2>1, LengthConcat
  <2> QED
    BY <1>1, <1>9, <2>2, LengthOfOne
<1>11. CASE Len(c.queue) >= QueueMax
  BY <1>5, <1>11 DEF IsFull
<1>12. CASE ~ Len(c.queue) >= QueueMax
  <2>1. Len(d.queue) <= QueueMax
    BY <1>1, <1>7, <1>12, HupSimAssumption
  <2>2. d \in Queues
    BY <1>7, <1>8, <1>10, <2>1 DEF Queues
  <2> QED
    BY <1>5, <1>9, <1>12, <2>2 DEF IsFull
<1> QED
  BY <1>11, <1>12

ReceivedRuns(a, c, l, ps) ==
  /\ a \in [0 .. Len(ps) -> Queues] /\ a[0] = c
  /\ \A n \in 1 .. Len(ps) :
       a[n] = IF PassesOn(l[1], ps[n]) /\ Via(l[1], ps[n]) = l[2] THEN EnQ(a[n - 1], ps[n])
              ELSE a[n - 1]
  /\ Received(c, l, ps) = a[Len(ps)]

LEMMA ReceivedIs ==
  ASSUME NEW c \in Queues, NEW l, NEW ps \in Seq(Packets)
  PROVE  \E a : ReceivedRuns(a, c, l, ps)
<1> DEFINE R          == Len(ps)
           V          == Queues
           first      == c
           next(n, x) == IF PassesOn(l[1], ps[n]) /\ Via(l[1], ps[n]) = l[2] THEN EnQ(x, ps[n]) ELSE x
           step       == [q \in Nat \X V |-> IF q[1] \in 1 .. R THEN next(q[1], q[2]) ELSE first]
           Of(g)      == [n \in 0 .. R |-> IF n = 0 THEN first ELSE next(n, g[n - 1])]
           after      == CHOOSE g : g = Of(g)
<1>1. R \in Nat /\ first \in V
  OBVIOUS
<1>2. ASSUME NEW n \in 1 .. R, NEW x \in V PROVE next(n, x) \in V
  <2>1. ps[n] \in Packets
    BY <1>2
  <2>2. EnQ(x, ps[n]) \in Queues
    BY <1>2, <2>1, EnQIs
  <2> QED
    BY <1>2, <2>2
<1>3. Received(c, l, ps) = after[R]
  BY DEF Received
<1> HIDE DEF next, R, V, first
<1>4. step \in [Nat \X V -> V]
  BY <1>1, <1>2
<1>5. PICK b : Runs(b, R, V, first, step)
  <2> HIDE DEF step
  <2> QED
    BY <1>1, <1>4, RunsExist
<1>6. \E g : g = Of(g)
  <2>1. ASSUME NEW n \in 1 .. R PROVE b[n] = next(n, b[n - 1])
    <3>1. n \in Nat /\ n - 1 \in 0 .. R
      BY <1>1
    <3>2. b[n] = step[<<n, b[n - 1]>>] /\ b[n - 1] \in V
      <4> HIDE DEF step
      <4> QED
        BY <1>5, <3>1 DEF Runs
    <3> QED
      BY <3>1, <3>2
  <2>2. ASSUME NEW n \in 0 .. R PROVE b[n] = IF n = 0 THEN first ELSE next(n, b[n - 1])
    <3>1. n = 0 \/ n \in 1 .. R
      BY <1>1
    <3> QED
      BY <1>5, <2>1, <3>1 DEF Runs
  <2>3. b = [n \in 0 .. R |-> b[n]]
    BY <1>5 DEF Runs
  <2>4. b = Of(b)
    BY <2>2, <2>3
  <2> QED
    BY <2>4
<1>7. after = Of(after)
  <2> HIDE DEF Of
  <2> QED
    BY <1>6
<1> HIDE DEF after
<1>8. after[0] = first
  BY <1>1, <1>7
<1>9. ASSUME NEW n \in 1 .. R PROVE after[n] = next(n, after[n - 1])
  <2>1. n \in 0 .. R /\ n # 0
    BY <1>1
  <2> QED
    BY <1>7, <2>1
<1>10. after \in [0 .. R -> V]
  <2>1. Staying(after, R, V)
    BY <1>2, <1>9 DEF Staying
  <2>2. Typed(after, R, V)
    BY <1>1, <1>8, <2>1, Stays
  <2>3. after = [n \in 0 .. R |-> after[n]]
    BY <1>7
  <2> QED
    BY <2>2, <2>3 DEF Typed
<1>11. ReceivedRuns(after, c, l, ps)
  BY <1>3, <1>8, <1>9, <1>10 DEF ReceivedRuns, R, V, first, next
<1> QED
  BY <1>11

LEMMA ReceivedType ==
  ASSUME NEW c \in Queues, NEW l, NEW ps \in Seq(Packets)
  PROVE  Received(c, l, ps) \in Queues
<1>1. PICK a : ReceivedRuns(a, c, l, ps)
  BY ReceivedIs
<1> QED
  BY <1>1 DEF ReceivedRuns

(* Shifting what is due keeps a queue exact.                               *)
LEMMA DueIs ==
  ASSUME NEW c \in Queues
  PROVE  /\ DueCount(c) \in 0 .. Len(c.queue)
         /\ Due(c) \in Seq(Packets) /\ Len(Due(c)) = DueCount(c)
         /\ \A k \in 1 .. DueCount(c) : Due(c)[k] = c.queue[k].pkt /\ c.queue[k].left = 0
         /\ DueCount(c) < Len(c.queue) => c.queue[DueCount(c) + 1].left # 0
<1> DEFINE q     == c.queue
           ready == {n \in 0 .. Len(q) : \A k \in 1 .. n : q[k].left = 0}
           d     == DueCount(c)
<1>1. q \in Seq(Entries) /\ Len(q) \in Nat /\ \A k \in 1 .. Len(q) : q[k].pkt \in Packets
  <2>1. q \in Seq(Entries)
    BY DEF Queues
  <2>2. \A k \in 1 .. Len(q) : q[k] \in Entries
    BY <2>1
  <2> QED
    BY <2>1, <2>2 DEF Entries
<1>2. d = CHOOSE n \in ready : \A m \in ready : m <= n
  BY DEF DueCount
<1> HIDE DEF d
<1>3. \E n \in ready : \A m \in ready : m <= n
  <2> DEFINE S == {n \in Nat : n <= Len(q) /\ Len(q) - n \in ready}
  <2>1. S \in SUBSET Nat
    OBVIOUS
  <2>2. S # {}
    <3>1. 0 \in ready
      BY <1>1
    <3>2. Len(q) \in S
      BY <1>1, <3>1
    <3> QED
      BY <3>2
  <2>3. PICK m \in S : \A k \in S : m <= k
    <3> HIDE DEF S
    <3> QED
      BY <2>1, <2>2, Smallest
  <2>4. \A n \in ready : n \in Nat /\ n <= Len(q) /\ Len(q) - n \in S
    BY <1>1
  <2>5. ASSUME NEW n \in ready PROVE n <= Len(q) - m
    <3>1. n \in Nat /\ m <= Len(q) - n
      BY <2>3, <2>4
    <3>2. m \in Nat
      OBVIOUS
    <3> HIDE DEF S, ready
    <3> QED
      BY <1>1, <3>1, <3>2
  <2> QED
    BY <2>3, <2>5
<1>4. d \in ready /\ \A m \in ready : m <= d
  <2> HIDE DEF ready
  <2> QED
    BY <1>2, <1>3
<1>5. Due(c) = [k \in 1 .. d |-> q[k].pkt]
  BY DEF Due, d
<1>6. Due(c) \in [1 .. d -> Packets]
  BY <1>1, <1>4, <1>5
<1>7. ASSUME d < Len(q) PROVE q[d + 1].left # 0
  <2>1. SUFFICES ASSUME q[d + 1].left = 0 PROVE FALSE
    OBVIOUS
  <2>2. d \in Nat /\ \A k \in 1 .. d : q[k].left = 0
    BY <1>4
  <2>3. \A k \in 1 .. d + 1 : k \in 1 .. d \/ k = d + 1
    BY <2>2
  <2>4. d + 1 \in ready
    BY <1>1, <1>7, <2>1, <2>2, <2>3
  <2> QED
    BY <1>4, <2>2, <2>4
<1> QED
  BY <1>4, <1>5, <1>6, <1>7 DEF d

LEMMA ShiftedIs ==
  ASSUME NEW c \in Queues
  PROVE  Pkts(c) = Due(c) \o Pkts(Shifted(c)) /\ Shifted(c) \in Queues
<1> DEFINE q == c.queue
           d == DueCount(c)
           e == Shifted(c)
           r == SubSeq(q, d + 1, Len(q))
<1>1. /\ q \in Seq(Entries) /\ Len(q) \in Nat /\ c.size \in Nat
      /\ Len(q) <= QueueMax /\ c.size = Length(Pkts(c))
  BY DEF Queues
<1>2. /\ d \in 0 .. Len(q) /\ Due(c) \in Seq(Packets) /\ Len(Due(c)) = d
      /\ \A k \in 1 .. d : Due(c)[k] = q[k].pkt
  BY DueIs
<1> HIDE DEF d
<1>3. r \in Seq(Entries) /\ Len(r) = Len(q) - d /\ \A k \in 1 .. Len(r) : r[k] = q[d + k]
  BY <1>1, <1>2
<1> HIDE DEF r
<1>4. e.queue = r /\ e.size = c.size - Length(Due(c)) /\ e = [queue |-> e.queue, size |-> e.size]
  BY DEF Shifted, d, r
<1> HIDE DEF e
<1>5. /\ Pkts(e) \in Seq(Packets) /\ Len(Pkts(e)) = Len(r)
      /\ \A k \in 1 .. Len(r) : Pkts(e)[k] = r[k].pkt
  BY <1>3, <1>4, PktsAre
<1>6. /\ Pkts(c) \in Seq(Packets) /\ Len(Pkts(c)) = Len(q)
      /\ \A k \in 1 .. Len(q) : Pkts(c)[k] = q[k].pkt
  BY <1>1, PktsAre
<1> DEFINE u == Due(c) \o Pkts(e)
<1>7. /\ u \in Seq(Packets) /\ Len(u) = d + Len(r)
      /\ \A k \in 1 .. d + Len(r) : u[k] = IF k <= d THEN Due(c)[k] ELSE Pkts(e)[k - d]
  <2> DEFINE x == Due(c)
             y == Pkts(e)
  <2>1. x \in Seq(Packets) /\ y \in Seq(Packets) /\ Len(x) = d /\ Len(y) = Len(r)
    BY <1>2, <1>5
  <2> HIDE DEF x, y
  <2>2. /\ x \o y \in Seq(Packets) /\ Len(x \o y) = d + Len(r)
        /\ \A k \in 1 .. d + Len(r) : (x \o y)[k] = IF k <= d THEN x[k] ELSE y[k - d]
    BY <2>1
  <2> QED
    BY <2>2 DEF x, y
<1> HIDE DEF u
<1>8. Pkts(c) = u
  <2> DEFINE s == Pkts(c)
  <2>1. Len(s) = Len(u) /\ s \in Seq(Packets)
    BY <1>1, <1>2, <1>3, <1>6, <1>7
  <2>2. ASSUME NEW k \in 1 .. Len(s) PROVE s[k] = u[k]
    <3>1. s[k] = q[k].pkt /\ k \in 1 .. d + Len(r)
      BY <1>6, <1>7, <2>1
    <3>2. CASE k <= d
      BY <1>2, <1>7, <3>1, <3>2
    <3>3. CASE ~ k <= d
      <4>1. d \in Nat /\ Len(r) \in Nat
        BY <1>1, <1>2, <1>3
      <4>2. k - d \in 1 .. Len(r) /\ d + (k - d) = k
        BY <3>1, <3>3, <4>1
      <4> QED
        BY <1>3, <1>5, <1>7, <3>1, <3>3, <4>2
    <3> QED
      BY <3>2, <3>3
  <2> HIDE DEF s
  <2>3. s = u
    BY <1>7, <2>1, <2>2, SeqEqual
  <2> QED
    BY <2>3 DEF s
<1>9. Length(Pkts(c)) = Length(Due(c)) + Length(Pkts(e))
  <2>1. Length(u) = Length(Due(c)) + Length(Pkts(e))
    BY <1>2, <1>5, LengthConcat DEF u
  <2> QED
    BY <1>8, <2>1
<1>10. e.size = Length(Pkts(e)) /\ e.size \in Nat
  <2>1. Length(Pkts(e)) \in Nat /\ Length(Due(c)) \in Nat
    BY <1>2, <1>5, LengthType
  <2> QED
    BY <1>1, <1>4, <1>9, <2>1
<1>11. Len(e.queue) <= QueueMax
  BY <1>1, <1>2, <1>3, <1>4, HupSimAssumption
<1>12. e \in [queue : Seq(Entries), size : Nat]
  BY <1>3, <1>4, <1>10
<1>13. e \in Queues
  BY <1>10, <1>11, <1>12 DEF Queues
<1> QED
  BY <1>8, <1>13 DEF e, u

(* Time does not change what is in a queue.                                *)
Aged(c) == [queue |-> [k \in DOMAIN c.queue |-> Later(c.queue[k])], size |-> c.size]

LEMMA AgedIs ==
  ASSUME NEW c \in Queues
  PROVE  Aged(c) \in Queues /\ Pkts(Aged(c)) = Pkts(c) /\ Len(Aged(c).queue) = Len(c.queue)
<1> DEFINE q == c.queue
           r == [k \in DOMAIN q |-> Later(q[k])]
           d == Aged(c)
<1>1. q \in Seq(Entries) /\ c.size \in Nat /\ Len(q) <= QueueMax /\ c.size = Length(Pkts(c))
  BY DEF Queues
<1>2. Len(q) \in Nat /\ DOMAIN q = 1 .. Len(q) /\ \A k \in 1 .. Len(q) : q[k] \in Entries
  BY <1>1
<1> HIDE DEF q
<1>3. \A k \in 1 .. Len(q) : r[k] \in Entries /\ r[k].pkt = q[k].pkt
  BY <1>2 DEF Entries, Later
<1>4. r = [k \in 1 .. Len(q) |-> r[k]]
  BY <1>2
<1> HIDE DEF r
<1>5. r \in Seq(Entries) /\ Len(r) = Len(q)
  BY <1>2, <1>3, <1>4
<1>6. d = [queue |-> r, size |-> c.size]
  BY DEF Aged, r, q
<1>7. d.queue = r /\ d.size = c.size /\ d \in [queue : Seq(Entries), size : Nat]
  BY <1>1, <1>5, <1>6
<1> HIDE DEF d
<1>8. /\ Pkts(d) \in Seq(Packets) /\ Len(Pkts(d)) = Len(r)
      /\ \A k \in 1 .. Len(r) : Pkts(d)[k] = r[k].pkt
  BY <1>5, <1>7, PktsAre
<1>9. /\ Pkts(c) \in Seq(Packets) /\ Len(Pkts(c)) = Len(q)
      /\ \A k \in 1 .. Len(q) : Pkts(c)[k] = q[k].pkt
  BY <1>1, PktsAre DEF q
<1>10. Pkts(d) = Pkts(c)
  <2> DEFINE s == Pkts(d)
             t == Pkts(c)
  <2>1. s \in Seq(Packets) /\ t \in Seq(Packets) /\ Len(s) = Len(t)
    BY <1>5, <1>8, <1>9
  <2>2. \A k \in 1 .. Len(s) : s[k] = t[k]
    BY <1>2, <1>3, <1>5, <1>8, <1>9
  <2> HIDE DEF s, t
  <2>3. s = t
    BY <2>1, <2>2, SeqEqual
  <2> QED
    BY <2>3 DEF s, t
<1> QED
  BY <1>1, <1>5, <1>7, <1>10 DEF Queues, d, q

(***************************************************************************)
(* The routers, in their order.                                            *)
(***************************************************************************)

LEMMA OrderedIs ==
  /\ Ordered \in [1 .. Size -> Routers] /\ Ordered \in Seq(Routers) /\ Len(Ordered) = Size
  /\ \A r \in Routers : \E n \in 1 .. Size : Ordered[n] = r
  /\ \A m, n \in 1 .. Size : Ordered[m] = Ordered[n] => m = n
<1> DEFINE before(r) == {q \in Routers : q < r}
           rank      == [r \in Routers |-> Cardinality(before(r)) + 1]
<1>1. \A r \in Routers : IsFiniteSet(before(r)) /\ before(r) \subseteq Routers /\ r \notin before(r)
  <2> TAKE r \in Routers
  <2>1. before(r) \in SUBSET Routers
    OBVIOUS
  <2>2. r \notin before(r)
    BY RouterIs
  <2> QED
    BY <2>1, <2>2, FS_Subset, RoutersAssumption
<1>2. ASSUME NEW r \in Routers PROVE rank[r] \in 1 .. Size
  <2>1. before(r) \in SUBSET Routers /\ before(r) # Routers
    BY <1>1
  <2> HIDE DEF before
  <2>2. Cardinality(before(r)) <= Size /\ Cardinality(before(r)) # Size /\ Cardinality(before(r)) \in Nat
    BY <1>1, <2>1, FS_Subset, FS_CardinalityType, RoutersAssumption DEF Size
  <2> QED
    BY <2>2, SizeIs
<1>3. ASSUME NEW r \in Routers, NEW q \in Routers, q < r PROVE rank[q] < rank[r]
  <2>1. before(q) \cup {q} \in SUBSET before(r)
    BY <1>3, RouterIs
  <2>2. IsFiniteSet(before(r)) /\ IsFiniteSet(before(q)) /\ q \notin before(q)
    BY <1>1
  <2> HIDE DEF before
  <2>3. Cardinality(before(q) \cup {q}) = Cardinality(before(q)) + 1
    BY <2>2, FS_AddElement
  <2>4. Cardinality(before(q) \cup {q}) <= Cardinality(before(r))
    BY <2>1, <2>2, FS_Subset
  <2>5. Cardinality(before(q)) \in Nat /\ Cardinality(before(r)) \in Nat
    BY <2>2, FS_CardinalityType
  <2> QED
    BY <2>3, <2>4, <2>5
<1> HIDE DEF before
<1>4. \A r, q \in Routers : rank[r] = rank[q] => r = q
  <2> SUFFICES ASSUME NEW r \in Routers, NEW q \in Routers, rank[r] = rank[q], r # q PROVE FALSE
    OBVIOUS
  <2>1. r < q \/ q < r
    BY RouterIs
  <2>2. rank[r] \in Nat /\ rank[q] \in Nat
    BY <1>2, SizeIs
  <2> HIDE DEF rank
  <2> QED
    BY <1>3, <2>1, <2>2
<1>5. rank \in Injection(Routers, 1 .. Size)
  <2>1. rank = [r \in Routers |-> rank[r]]
    OBVIOUS
  <2> HIDE DEF rank
  <2>2. rank \in [Routers -> 1 .. Size]
    BY <1>2, <2>1
  <2> QED
    BY <1>4, <2>2 DEF Injection, IsInjective
<1>6. IsFiniteSet(1 .. Size) /\ Cardinality(1 .. Size) = Size
  BY SizeIs, FS_Interval
<1>7. rank \in Surjection(Routers, 1 .. Size)
  <2> HIDE DEF rank
  <2> QED
    BY <1>5, <1>6, FS_Injection DEF Size
<1>8. \A n \in 1 .. Size : \E r \in Routers : rank[r] = n
  <2> HIDE DEF rank
  <2> QED
    BY <1>7 DEF Surjection
<1>9. ASSUME NEW n \in 1 .. Size PROVE Ordered[n] \in Routers /\ rank[Ordered[n]] = n
  <2>1. Ordered[n] = CHOOSE r \in Routers : Cardinality(before(r)) = n - 1
    BY <1>9 DEF Ordered, Size, before
  <2>2. \E r \in Routers : Cardinality(before(r)) = n - 1
    <3>1. PICK r \in Routers : rank[r] = n
      BY <1>8
    <3>2. Cardinality(before(r)) \in Nat
      BY <1>1, FS_CardinalityType
    <3> QED
      BY <3>1, <3>2
  <2>3. Ordered[n] \in Routers /\ Cardinality(before(Ordered[n])) = n - 1
    BY <2>1, <2>2
  <2> QED
    BY <2>3
<1>10. Ordered \in [1 .. Size -> Routers]
  <2> DEFINE o(n) == CHOOSE r \in Routers : Cardinality({q \in Routers : q < r}) = n - 1
  <2>1. Ordered = [n \in 1 .. Size |-> o(n)]
    BY DEF Ordered, Size
  <2> HIDE DEF o
  <2>2. Ordered = [n \in 1 .. Size |-> Ordered[n]]
    BY <2>1
  <2> QED
    BY <1>9, <2>2
<1> HIDE DEF rank
<1>11. \A r \in Routers : \E n \in 1 .. Size : Ordered[n] = r
  <2> TAKE r \in Routers
  <2>1. rank[r] \in 1 .. Size /\ Ordered[rank[r]] \in Routers /\ rank[Ordered[rank[r]]] = rank[r]
    BY <1>2, <1>9
  <2> QED
    BY <1>4, <2>1
<1>12. \A m, n \in 1 .. Size : Ordered[m] = Ordered[n] => m = n
  BY <1>9
<1>13. Ordered \in Seq(Routers) /\ Len(Ordered) = Size
  BY <1>10, SizeIs
<1> QED
  BY <1>10, <1>11, <1>12, <1>13

InSeq(x, s) == \E k \in 1 .. Len(s) : s[k] = x

LEMMA WokenIs ==
  ASSUME NEW r \in Routers, NEW ps \in Seq(Packets)
  PROVE  /\ Woken(r, ps) \in Seq(Routers)
         /\ (\E n \in 1 .. Len(ps) : PassesOn(r, ps[n])) => InSeq(r, Woken(r, ps))
<1> DEFINE S == {n \in DOMAIN ps : PassesOn(r, ps[n])}
           w == [k \in 1 .. Cardinality(S) |-> r]
<1>1. DOMAIN ps = 1 .. Len(ps) /\ Len(ps) \in Nat
  OBVIOUS
<1>2. IsFiniteSet(S)
  <2>1. S \in SUBSET (1 .. Len(ps)) /\ IsFiniteSet(1 .. Len(ps))
    BY <1>1, FS_Interval
  <2> QED
    BY <2>1, FS_Subset
<1>3. Cardinality(S) \in Nat /\ (Cardinality(S) = 0 <=> S = {})
  <2> HIDE DEF S
  <2> QED
    BY <1>2, FS_CardinalityType, FS_EmptySet
<1>4. Woken(r, ps) = w
  BY DEF Woken
<1>5. w \in Seq(Routers) /\ Len(w) = Cardinality(S) /\ \A k \in 1 .. Cardinality(S) : w[k] = r
  <2> HIDE DEF S
  <2> QED
    BY <1>3
<1> HIDE DEF w
<1>6. ASSUME NEW n \in 1 .. Len(ps), PassesOn(r, ps[n]) PROVE InSeq(r, w)
  <2>1. S # {}
    BY <1>1, <1>6
  <2> HIDE DEF S
  <2>2. 1 \in 1 .. Cardinality(S)
    BY <1>3, <2>1
  <2> QED
    BY <1>5, <2>2 DEF InSeq
<1> QED
  BY <1>4, <1>5, <1>6

AllWokenRuns(a, out) ==
  /\ a \in [0 .. Size -> Seq(Routers)] /\ a[0] = <<>>
  /\ \A n \in 1 .. Size : a[n] = a[n - 1] \o Woken(Ordered[n], out[Ordered[n]])
  /\ AllWoken(out) = a[Size]

LEMMA AllWokenIs ==
  ASSUME NEW out \in [Routers -> Seq(Packets)]
  PROVE  \E a : AllWokenRuns(a, out)
<1> DEFINE R          == Size
           V          == Seq(Routers)
           first      == <<>>
           next(n, x) == x \o Woken(Ordered[n], out[Ordered[n]])
           step       == [q \in Nat \X V |-> IF q[1] \in 1 .. R THEN next(q[1], q[2]) ELSE first]
           Of(g)      == [n \in 0 .. R |-> IF n = 0 THEN first ELSE next(n, g[n - 1])]
           after      == CHOOSE g : g = Of(g)
<1>1. R \in Nat /\ first \in V
  BY SizeIs
<1>2. ASSUME NEW n \in 1 .. R, NEW x \in V PROVE next(n, x) \in V
  <2>1. Ordered[n] \in Routers
    BY <1>2, OrderedIs
  <2>2. Woken(Ordered[n], out[Ordered[n]]) \in Seq(Routers)
    BY <2>1, WokenIs
  <2> QED
    BY <1>2, <2>2
<1>3. AllWoken(out) = after[R]
  BY DEF AllWoken, Size
<1> HIDE DEF next, R, V, first
<1>4. step \in [Nat \X V -> V]
  BY <1>1, <1>2
<1>5. PICK b : Runs(b, R, V, first, step)
  <2> HIDE DEF step
  <2> QED
    BY <1>1, <1>4, RunsExist
<1>6. \E g : g = Of(g)
  <2>1. ASSUME NEW n \in 1 .. R PROVE b[n] = next(n, b[n - 1])
    <3>1. n \in Nat /\ n - 1 \in 0 .. R
      BY <1>1
    <3>2. b[n] = step[<<n, b[n - 1]>>] /\ b[n - 1] \in V
      <4> HIDE DEF step
      <4> QED
        BY <1>5, <3>1 DEF Runs
    <3> QED
      BY <3>1, <3>2
  <2>2. ASSUME NEW n \in 0 .. R PROVE b[n] = IF n = 0 THEN first ELSE next(n, b[n - 1])
    <3>1. n = 0 \/ n \in 1 .. R
      BY <1>1
    <3> QED
      BY <1>5, <2>1, <3>1 DEF Runs
  <2>3. b = [n \in 0 .. R |-> b[n]]
    BY <1>5 DEF Runs
  <2>4. b = Of(b)
    BY <2>2, <2>3
  <2> QED
    BY <2>4
<1>7. after = Of(after)
  <2> HIDE DEF Of
  <2> QED
    BY <1>6
<1> HIDE DEF after
<1>8. after[0] = first
  BY <1>1, <1>7
<1>9. ASSUME NEW n \in 1 .. R PROVE after[n] = next(n, after[n - 1])
  <2>1. n \in 0 .. R /\ n # 0
    BY <1>1
  <2> QED
    BY <1>7, <2>1
<1>10. after \in [0 .. R -> V]
  <2>1. Staying(after, R, V)
    BY <1>2, <1>9 DEF Staying
  <2>2. Typed(after, R, V)
    BY <1>1, <1>8, <2>1, Stays
  <2>3. after = [n \in 0 .. R |-> after[n]]
    BY <1>7
  <2> QED
    BY <2>2, <2>3 DEF Typed
<1>11. AllWokenRuns(after, out)
  BY <1>3, <1>8, <1>9, <1>10 DEF AllWokenRuns, R, V, first, next
<1> QED
  BY <1>11

LEMMA InSeqConcat ==
  ASSUME NEW S, NEW s \in Seq(S), NEW t \in Seq(S), NEW x
  PROVE  InSeq(x, s \o t) <=> InSeq(x, s) \/ InSeq(x, t)
<1> DEFINE u == s \o t
<1>1. /\ Len(s) \in Nat /\ Len(t) \in Nat /\ Len(u) = Len(s) + Len(t)
      /\ \A k \in 1 .. Len(s) : u[k] = s[k]
      /\ \A k \in 1 .. Len(t) : u[Len(s) + k] = t[k]
  OBVIOUS
<1> HIDE DEF u
<1>2. ASSUME InSeq(x, u) PROVE InSeq(x, s) \/ InSeq(x, t)
  <2>1. PICK k \in 1 .. Len(u) : u[k] = x
    BY <1>2 DEF InSeq
  <2>2. CASE k <= Len(s)
    <3>1. k \in 1 .. Len(s)
      BY <1>1, <2>2
    <3> QED
      BY <1>1, <2>1, <3>1 DEF InSeq
  <2>3. CASE ~ k <= Len(s)
    <3>1. k - Len(s) \in 1 .. Len(t) /\ Len(s) + (k - Len(s)) = k
      BY <1>1, <2>3
    <3>2. t[k - Len(s)] = x
      BY <1>1, <2>1, <3>1
    <3> QED
      BY <3>1, <3>2 DEF InSeq
  <2> QED
    BY <2>2, <2>3
<1>3. ASSUME InSeq(x, s) PROVE InSeq(x, u)
  <2>1. PICK k \in 1 .. Len(s) : s[k] = x
    BY <1>3 DEF InSeq
  <2>2. k \in 1 .. Len(u)
    BY <1>1
  <2> QED
    BY <1>1, <2>1, <2>2 DEF InSeq
<1>4. ASSUME InSeq(x, t) PROVE InSeq(x, u)
  <2>1. PICK k \in 1 .. Len(t) : t[k] = x
    BY <1>4 DEF InSeq
  <2>2. Len(s) + k \in 1 .. Len(u)
    BY <1>1
  <2> QED
    BY <1>1, <2>1, <2>2 DEF InSeq
<1> QED
  BY <1>2, <1>3, <1>4 DEF u

(* Each router that receives a packet to pass on joins those that run.     *)
LEMMA AllWokenHas ==
  ASSUME NEW out \in [Routers -> Seq(Packets)], NEW r \in Routers,
         \E n \in 1 .. Len(out[r]) : PassesOn(r, out[r][n])
  PROVE  InSeq(r, AllWoken(out))
<1>1. PICK a : AllWokenRuns(a, out)
  BY AllWokenIs
<1>2. PICK m \in 1 .. Size : Ordered[m] = r
  BY OrderedIs
<1>3. ASSUME NEW n \in 1 .. Size
      PROVE  /\ a[n] = a[n - 1] \o Woken(Ordered[n], out[Ordered[n]])
             /\ a[n - 1] \in Seq(Routers) /\ Woken(Ordered[n], out[Ordered[n]]) \in Seq(Routers)
  <2>1. Ordered[n] \in Routers
    BY OrderedIs
  <2>2. Woken(Ordered[n], out[Ordered[n]]) \in Seq(Routers)
    BY <2>1, WokenIs
  <2>3. n - 1 \in 0 .. Size
    BY SizeIs
  <2>4. a[n] = a[n - 1] \o Woken(Ordered[n], out[Ordered[n]])
    BY <1>1 DEF AllWokenRuns
  <2>5. a[n - 1] \in Seq(Routers)
    BY <1>1, <2>3 DEF AllWokenRuns
  <2> QED
    BY <2>2, <2>4, <2>5
<1> DEFINE S == {n \in 0 .. Size : n >= m => InSeq(r, a[n])}
<1>4. 0 \in S
  BY SizeIs
<1>5. ASSUME NEW n \in 0 .. Size, n \in S, n < Size PROVE n + 1 \in S
  <2>1. n + 1 \in 0 .. Size
    BY <1>5, SizeIs
  <2>2. SUFFICES ASSUME n + 1 >= m PROVE InSeq(r, a[n + 1])
    BY <2>1
  <2>3. n + 1 \in 1 .. Size /\ (n + 1) - 1 = n
    BY <1>5, SizeIs
  <2> DEFINE w == Woken(Ordered[n + 1], out[Ordered[n + 1]])
  <2>4. a[n + 1] = a[n] \o w /\ a[n] \in Seq(Routers) /\ w \in Seq(Routers)
    BY <1>3, <2>3
  <2>5. InSeq(r, a[n]) \/ InSeq(r, w)
    <3>1. CASE n >= m
      BY <1>5, <3>1
    <3>2. CASE ~ n >= m
      <4>1. n + 1 = m
        BY <2>2, <3>2, SizeIs
      <4> QED
        BY <1>2, <4>1, WokenIs
    <3> QED
      BY <3>1, <3>2
  <2> HIDE DEF w
  <2> QED
    BY <2>4, <2>5, InSeqConcat
<1>6. \A n \in 0 .. Size : n \in S
  <2> HIDE DEF S
  <2> QED
    BY <1>4, <1>5, SizeIs, Induction
<1>7. Size \in 0 .. Size /\ Size >= m
  BY SizeIs
<1> QED
  BY <1>1, <1>6, <1>7 DEF AllWokenRuns

(* A queue gets something only if its router passes something on.          *)
LEMMA ReceivedOnlyPassed ==
  ASSUME NEW c \in Queues, NEW l, NEW ps \in Seq(Packets),
         ~ \E n \in 1 .. Len(ps) : PassesOn(l[1], ps[n])
  PROVE  Received(c, l, ps) = c
<1>1. PICK a : ReceivedRuns(a, c, l, ps)
  BY ReceivedIs
<1>2. Len(ps) \in Nat
  OBVIOUS
<1>3. Staying(a, Len(ps), {c})
  BY <1>1 DEF Staying, ReceivedRuns
<1>4. Typed(a, Len(ps), {c})
  BY <1>1, <1>2, <1>3, Stays DEF ReceivedRuns
<1> QED
  BY <1>1, <1>2, <1>4 DEF Typed, ReceivedRuns

LEMMA OfFlowType == ASSUME NEW ps \in Seq(Packets), NEW f PROVE OfFlow(ps, f) \in Seq(Packets)
<1>1. PICK a : OfFlowRuns(a, ps, f)
  BY OfFlowIs
<1> QED
  BY <1>1 DEF OfFlowRuns

LEMMA SoonestIs ==
  ASSUME NEW waits \in SUBSET Nat
  PROVE  IF waits = {} THEN Soonest(waits) = Forever ELSE Soonest(waits) \in Nat
<1>1. CASE waits = {}
  BY <1>1 DEF Soonest
<1>2. CASE waits # {}
  <2>1. \E w \in waits : \A v \in waits : w <= v
    BY <1>2, Smallest
  <2>2. Soonest(waits) \in waits
    BY <1>2, <2>1 DEF Soonest
  <2> QED
    BY <1>2, <2>2
<1> QED
  BY <1>1, <1>2

(***************************************************************************)
(* The loop.                                                               *)
(***************************************************************************)

SimTypeOK ==
  /\ routes \in [Links -> Queues]
  /\ runRouters \in Seq(Routers)
  /\ selecting \in BOOLEAN
  /\ sleep \in Nat \cup {Forever}
  /\ sending \in BOOLEAN
  /\ got \in [Flows -> Seq(Packets)]

(* The loop sleeps when no router has to run; and for each packet there is *)
(* a router that has to run, or a time when they all do.                   *)
SleepsWhenDone == selecting <=> runRouters = <<>>
SomeoneCares   ==
  \A l \in Links : routes[l].queue # <<>> => sleep # Forever \/ InSeq(l[1], runRouters)

SimInv == SimTypeOK /\ SleepsWhenDone /\ SomeoneCares

LEMMA SimInitially == Init => SimInv
<1> SUFFICES ASSUME Init PROVE SimInv
  OBVIOUS
<1>1. /\ routes = [l \in Links |-> [queue |-> <<>>, size |-> 0]] /\ runRouters = <<>>
      /\ selecting = TRUE /\ sleep = Forever /\ sending = TRUE /\ got = [f \in Flows |-> <<>>]
  BY DEF Init, NoArrivals
<1>2. routes \in [Links -> Queues]
  BY <1>1, EmptyQueue
<1>3. SimTypeOK
  BY <1>1, <1>2 DEF SimTypeOK
<1> QED
  BY <1>1, <1>3 DEF SimInv, SleepsWhenDone, SomeoneCares

LEMMA LinkIs == ASSUME NEW l \in Links PROVE l = <<l[1], l[2]>> /\ l[1] \in Routers /\ l[2] \in Routers
  BY HupSimAssumption

LEMMA AllRun ==
  ASSUME NEW w \in Seq(Routers), NEW r \in Routers
  PROVE  w \o Ordered \in Seq(Routers) /\ InSeq(r, w \o Ordered)
<1>1. Ordered \in Seq(Routers) /\ InSeq(r, Ordered)
  BY OrderedIs DEF InSeq
<1>2. InSeq(r, w \o Ordered)
  BY <1>1, InSeqConcat
<1> QED
  BY <1>1, <1>2

LEMMA ReceiveKeeps ==
  ASSUME SimInv, NEW p \in Packets, Receive(p)
  PROVE  SimInv'
<1>1. SimTypeOK
  BY DEF SimInv
<1>2. /\ routes' = [l \in Links |-> IF l[1] = p.src THEN Received(routes[l], l, <<p>>) ELSE routes[l]]
      /\ runRouters' = (IF p.src \in Routers THEN Woken(p.src, <<p>>) ELSE <<>>) \o Ordered
      /\ selecting' = (runRouters' = <<>>) /\ sleep' = Forever
      /\ got' = NoArrivals /\ sending' = sending
  BY DEF Receive
<1>3. routes' \in [Links -> Queues]
  <2>1. <<p>> \in Seq(Packets)
    OBVIOUS
  <2>2. \A l \in Links : Received(routes[l], l, <<p>>) \in Queues
    BY <1>1, <2>1, ReceivedType DEF SimTypeOK
  <2> QED
    BY <1>1, <1>2, <2>2 DEF SimTypeOK
<1> DEFINE w == IF p.src \in Routers THEN Woken(p.src, <<p>>) ELSE <<>>
<1>4. w \in Seq(Routers)
  <2>1. <<p>> \in Seq(Packets)
    OBVIOUS
  <2>2. CASE p.src \in Routers
    <3>1. Woken(p.src, <<p>>) \in Seq(Routers)
      BY <2>1, <2>2, WokenIs
    <3> QED
      BY <2>2, <3>1
  <2>3. CASE p.src \notin Routers
    BY <2>3
  <2> QED
    BY <2>2, <2>3
<1> HIDE DEF w
<1>5. runRouters' = w \o Ordered
  BY <1>2 DEF w
<1>6. runRouters' \in Seq(Routers)
  BY <1>4, <1>5, OrderedIs
<1>7. SimTypeOK'
  BY <1>1, <1>2, <1>3, <1>6 DEF SimTypeOK, NoArrivals
<1>8. SomeoneCares'
  <2>1. \A r \in Routers : InSeq(r, runRouters')
    BY <1>4, <1>5, AllRun
  <2> QED
    BY <2>1, LinkIs DEF SomeoneCares
<1> QED
  BY <1>2, <1>7, <1>8 DEF SimInv, SleepsWhenDone

LEMMA WakeUpKeeps ==
  ASSUME SimInv, WakeUp
  PROVE  SimInv'
<1>1. SimTypeOK
  BY DEF SimInv
<1>2. /\ routes' = routes /\ runRouters' = Ordered /\ selecting' = (runRouters' = <<>>)
      /\ sleep' = Forever /\ got' = NoArrivals /\ sending' = sending
  BY DEF WakeUp
<1>3. SimTypeOK'
  BY <1>1, <1>2, OrderedIs DEF SimTypeOK, NoArrivals
<1>4. \A r \in Routers : InSeq(r, runRouters')
  BY <1>2, OrderedIs DEF InSeq
<1>5. SomeoneCares'
  BY <1>4, LinkIs DEF SomeoneCares
<1> QED
  BY <1>2, <1>3, <1>5 DEF SimInv, SleepsWhenDone

LEMMA ElapseKeeps ==
  ASSUME SimInv, Elapse
  PROVE  SimInv'
<1>1. SimTypeOK
  BY DEF SimInv
<1>2. /\ routes' = [l \in Links |-> Aged(routes[l])]
      /\ sleep' = (IF selecting /\ sleep > 0 THEN sleep - 1 ELSE sleep)
      /\ got' = NoArrivals /\ runRouters' = runRouters /\ selecting' = selecting /\ sending' = sending
  BY DEF Elapse, Aged
<1>3. \A l \in Links : Aged(routes[l]) \in Queues /\ Len(Aged(routes[l]).queue) = Len(routes[l].queue)
  BY <1>1, AgedIs DEF SimTypeOK
<1>4. sleep' \in Nat \cup {Forever} /\ (sleep' = Forever => sleep = Forever)
  BY <1>1, <1>2 DEF SimTypeOK, Forever
<1>5. SimTypeOK'
  BY <1>1, <1>2, <1>3, <1>4 DEF SimTypeOK, NoArrivals
<1>6. ASSUME NEW l \in Links, routes'[l].queue # <<>> PROVE routes[l].queue # <<>>
  <2>1. routes'[l] = Aged(routes[l])
    BY <1>2
  <2>2. /\ Len(routes'[l].queue) = Len(routes[l].queue)
        /\ routes[l].queue \in Seq(Entries) /\ routes'[l].queue \in Seq(Entries)
    BY <1>1, <1>3, <2>1 DEF SimTypeOK, Queues
  <2> QED
    BY <1>6, <2>2
<1>7. SomeoneCares'
  BY <1>2, <1>4, <1>6 DEF SomeoneCares, SimInv
<1> QED
  BY <1>2, <1>5, <1>7 DEF SimInv, SleepsWhenDone

(* What the router that runs hands to each of the others, and what it      *)
(* waits for then.                                                         *)
Out(self) == [r \in Routers |-> IF <<self, r>> \in Links THEN Due(routes[<<self, r>>]) ELSE <<>>]
Waits(self, to) == UNION {Wait(to[l]) : l \in {k \in Links : k[1] = self}}

Ran(self, out) ==
  /\ routes' = [l \in Links |-> IF l[1] = self THEN Shifted(routes[l])
                                ELSE Received(routes[l], l, out[l[1]])]
  /\ got' = [f \in Flows |-> IF f[2] \in Routers THEN OfFlow(out[f[2]], f) ELSE <<>>]
  /\ runRouters' = Tail(runRouters) \o AllWoken(out)
  /\ sleep' = SleepAfter(Waits(self, routes'))
  /\ selecting' = (runRouters' = <<>>)
  /\ sending' = sending

LEMMA RunIs ==
  ASSUME SimInv, Run
  PROVE  /\ Head(runRouters) \in Routers /\ runRouters # <<>>
         /\ Out(Head(runRouters)) \in [Routers -> Seq(Packets)]
         /\ Ran(Head(runRouters), Out(Head(runRouters)))
<1> DEFINE self == Head(runRouters)
           out  == Out(self)
<1>1. SimTypeOK /\ runRouters \in Seq(Routers) /\ ~ selecting
  BY DEF SimInv, SimTypeOK, Run
<1>2. runRouters # <<>>
  BY <1>1 DEF SimInv, SleepsWhenDone
<1>3. self \in Routers
  BY <1>1, <1>2
<1>4. Ran(self, out)
  BY DEF Run, Ran, Out, Waits
<1> HIDE DEF self
<1>5. \A r \in Routers : <<self, r>> \in Links => Due(routes[<<self, r>>]) \in Seq(Packets)
  <2> TAKE r \in Routers
  <2> HAVE <<self, r>> \in Links
  <2>1. routes[<<self, r>>] \in Queues
    BY <1>1 DEF SimTypeOK
  <2> QED
    BY <2>1, DueIs
<1>6. out \in [Routers -> Seq(Packets)]
  BY <1>5 DEF Out
<1> QED
  BY <1>2, <1>3, <1>4, <1>6 DEF self

LEMMA RanQueues ==
  ASSUME SimTypeOK, NEW self \in Routers, NEW out \in [Routers -> Seq(Packets)], Ran(self, out)
  PROVE  routes' \in [Links -> Queues]
<1>1. ASSUME NEW l \in Links
      PROVE  Shifted(routes[l]) \in Queues /\ Received(routes[l], l, out[l[1]]) \in Queues
  <2>1. routes[l] \in Queues /\ out[l[1]] \in Seq(Packets)
    BY LinkIs DEF SimTypeOK
  <2> QED
    BY <2>1, ShiftedIs, ReceivedType
<1> QED
  BY <1>1 DEF Ran

LEMMA WaitIs ==
  ASSUME NEW c \in Queues
  PROVE  Wait(c) \in SUBSET Nat /\ (c.queue # <<>> => Wait(c) # {})
<1>1. c.queue \in Seq(Entries)
  BY DEF Queues
<1>2. c.queue # <<>> => Head(c.queue) \in Entries
  BY <1>1
<1> QED
  BY <1>2 DEF Wait, Entries

LEMMA RunKeeps ==
  ASSUME SimInv, Run
  PROVE  SimInv'
<1> DEFINE self == Head(runRouters)
           out  == Out(self)
<1>1. /\ self \in Routers /\ runRouters # <<>> /\ out \in [Routers -> Seq(Packets)] /\ Ran(self, out)
  BY RunIs
<1>2. SimTypeOK /\ runRouters \in Seq(Routers)
  BY DEF SimInv, SimTypeOK
<1>3. \A r : InSeq(r, runRouters) => r = self \/ InSeq(r, Tail(runRouters))
  <2> TAKE r
  <2>1. SUFFICES ASSUME InSeq(r, runRouters), r # self PROVE InSeq(r, Tail(runRouters))
    OBVIOUS
  <2>2. PICK k \in 1 .. Len(runRouters) : runRouters[k] = r
    BY <2>1 DEF InSeq
  <2>3. k # 1
    BY <1>1, <1>2, <2>1, <2>2
  <2>4. k - 1 \in 1 .. Len(Tail(runRouters)) /\ Tail(runRouters)[k - 1] = runRouters[(k - 1) + 1]
    BY <1>1, <1>2, <2>3, HeadTailProperties
  <2>5. (k - 1) + 1 = k
    OBVIOUS
  <2> QED
    BY <2>2, <2>4, <2>5 DEF InSeq
<1>4. Tail(runRouters) \in Seq(Routers)
  BY <1>1, <1>2
<1> HIDE DEF self, out
<1>5. AllWoken(out) \in Seq(Routers)
  <2>1. PICK a : AllWokenRuns(a, out)
    BY <1>1, AllWokenIs
  <2> QED
    BY <2>1, SizeIs DEF AllWokenRuns
<1>6. routes' \in [Links -> Queues]
  BY <1>1, <1>2, RanQueues
<1>7. runRouters' \in Seq(Routers) /\ runRouters' = Tail(runRouters) \o AllWoken(out)
  BY <1>1, <1>4, <1>5 DEF Ran
<1> DEFINE ws == Waits(self, routes')
           vs == ws \cup (IF sleep = Forever THEN {} ELSE {sleep})
<1>8. \A l \in Links : Wait(routes'[l]) \in SUBSET Nat /\ (routes'[l].queue # <<>> => Wait(routes'[l]) # {})
  BY <1>6, WaitIs
<1>9. ws \in SUBSET Nat /\ \A l \in Links : l[1] = self /\ routes'[l].queue # <<>> => ws # {}
  <2>1. ws \in SUBSET Nat
    BY <1>8 DEF Waits
  <2>2. ASSUME NEW l \in Links, l[1] = self, routes'[l].queue # <<>> PROVE ws # {}
    <3>1. Wait(routes'[l]) # {}
      BY <1>8, <2>2
    <3>2. Wait(routes'[l]) \subseteq ws
      BY <2>2 DEF Waits
    <3> QED
      BY <3>1, <3>2
  <2> QED
    BY <2>1, <2>2
<1> HIDE DEF ws
<1>10. vs \in SUBSET Nat /\ (vs = {} <=> ws = {} /\ sleep = Forever)
  BY <1>2, <1>9 DEF SimTypeOK
<1>11. sleep' = Soonest(vs)
  BY <1>1 DEF Ran, SleepAfter, ws
<1> HIDE DEF vs
<1>12. sleep' \in Nat \cup {Forever} /\ (sleep' = Forever => ws = {} /\ sleep = Forever)
  <2>1. Forever \notin Nat
    BY DEF Forever
  <2> QED
    BY <1>10, <1>11, <2>1, SoonestIs
<1>13. got' \in [Flows -> Seq(Packets)]
  <2>1. \A f \in Flows : f[2] \in Routers => OfFlow(out[f[2]], f) \in Seq(Packets)
    BY <1>1, OfFlowType
  <2> QED
    BY <1>1, <2>1 DEF Ran
<1>14. selecting' = (runRouters' = <<>>) /\ sending' = sending
  BY <1>1 DEF Ran
<1>15. SimTypeOK'
  BY <1>2, <1>6, <1>7, <1>12, <1>13, <1>14 DEF SimTypeOK
<1>16. ASSUME NEW l \in Links, routes'[l].queue # <<>>, sleep' = Forever
       PROVE  InSeq(l[1], runRouters')
  <2>1. l[1] # self /\ sleep = Forever
    BY <1>9, <1>12, <1>16
  <2>2. InSeq(l[1], Tail(runRouters)) \/ InSeq(l[1], AllWoken(out))
    <3>1. CASE routes[l].queue # <<>>
      BY <1>3, <2>1, <3>1 DEF SimInv, SomeoneCares
    <3>2. CASE routes[l].queue = <<>>
      <4>1. routes'[l] = Received(routes[l], l, out[l[1]])
        BY <1>1, <2>1 DEF Ran
      <4>2. Received(routes[l], l, out[l[1]]) # routes[l]
        BY <1>16, <3>2, <4>1
      <4>3. routes[l] \in Queues /\ l[1] \in Routers /\ out[l[1]] \in Seq(Packets)
        BY <1>1, <1>2, LinkIs DEF SimTypeOK
      <4>4. \E n \in 1 .. Len(out[l[1]]) : PassesOn(l[1], out[l[1]][n])
        BY <4>2, <4>3, ReceivedOnlyPassed
      <4> QED
        BY <1>1, <4>3, <4>4, AllWokenHas
    <3> QED
      BY <3>1, <3>2
  <2> QED
    BY <1>4, <1>5, <1>7, <2>2, InSeqConcat
<1>17. SomeoneCares'
  BY <1>16 DEF SomeoneCares
<1> QED
  BY <1>14, <1>15, <1>17 DEF SimInv, SleepsWhenDone

LEMMA CeaseKeeps ==
  ASSUME SimInv, Cease
  PROVE  SimInv'
<1>1. SimTypeOK
  BY DEF SimInv
<1>2. /\ sending' = FALSE /\ got' = [f \in Flows |-> <<>>] /\ routes' = routes
      /\ runRouters' = runRouters /\ selecting' = selecting /\ sleep' = sleep
  BY DEF Cease, NoArrivals
<1>3. got' \in [Flows -> Seq(Packets)]
  BY <1>2
<1>4. SimTypeOK'
  BY <1>1, <1>2, <1>3 DEF SimTypeOK
<1> QED
  BY <1>2, <1>4 DEF SimInv, SleepsWhenDone, SomeoneCares

(* Routers that ran may get packets again while the others run.            *)
THEOREM SimInductive == Spec => []SimInv
<1>1. Init => SimInv
  BY SimInitially
<1>2. SimInv /\ [Next]_vars => SimInv'
  <2>1. SUFFICES ASSUME SimInv, [Next]_vars PROVE SimInv'
    OBVIOUS
  <2>2. CASE Next
    BY <2>1, <2>2, ReceiveKeeps, WakeUpKeeps, RunKeeps, ElapseKeeps, CeaseKeeps DEF Next
  <2>3. CASE UNCHANGED vars
    BY <2>1, <2>3 DEF SimInv, SimTypeOK, SleepsWhenDone, SomeoneCares, vars
  <2> QED
    BY <2>1, <2>2, <2>3
<1> QED
  BY <1>1, <1>2, PTL DEF Spec

(* At every moment each queue of the simulator holds at most queuesize      *)
(* packets, and its size is the sum of the lengths of what is in it: the    *)
(* enqueuing of enQ and the dequeuing of run never let the two drift.       *)
THEOREM QueuesAreExactHolds == Spec => []QueuesAreExact
<1>1. SimInv => QueuesAreExact
  BY DEF SimInv, SimTypeOK, QueuesAreExact, Queues
<1> QED
  BY <1>1, SimInductive, PTL

(* The loop of run goes to sleep without a time limit only when no queue    *)
(* holds a packet: a packet that waits for its delivery has set the timer.  *)
THEOREM SleepsOnlyIdleHolds == Spec => []SleepsOnlyIdle
<1>1. SimInv => SleepsOnlyIdle
  <2>1. \A r : ~ InSeq(r, <<>>)
    BY DEF InSeq
  <2> QED
    BY <2>1 DEF SimInv, SleepsWhenDone, SomeoneCares, SleepsOnlyIdle
<1> QED
  BY <1>1, SimInductive, PTL

(***************************************************************************)
(* The tables and the paths.                                               *)
(***************************************************************************)

Neighbourly == {p \in Predecessors : Adjacent(Links, p)}
None        == [r \in Routers |-> Nobody]

LEMMA LinksAre == Links \in SUBSET (Routers \X Routers) /\ Symmetric(Links) /\ Connected(Links)
  BY HupSimAssumption DEF Symmetric

PredsRuns(a) ==
  /\ a \in [0 .. Size -> Neighbourly] /\ a[0] = None
  /\ \A n \in 1 .. Size : a[n] = Search(Ordered[n], Links, a[n - 1])
  /\ Table = [r \in Routers |-> TableOf(r, a[CHOOSE n \in DOMAIN Ordered : Ordered[n] = r])]

LEMMA PredsIs == \E a : PredsRuns(a)
<1> DEFINE R          == Size
           V          == Neighbourly
           first      == None
           next(n, x) == Search(Ordered[n], Links, x)
           step       == [q \in Nat \X V |-> IF q[1] \in 1 .. R THEN next(q[1], q[2]) ELSE first]
           Of(g)      == [n \in 0 .. R |-> IF n = 0 THEN first ELSE next(n, g[n - 1])]
           after      == CHOOSE g : g = Of(g)
<1>1. R \in Nat /\ first \in V
  <2>1. Size \in Nat
    BY SizeIs
  <2>2. None \in Neighbourly
    BY DEF None, Neighbourly, Predecessors, Adjacent
  <2> QED
    BY <2>1, <2>2
<1>2. ASSUME NEW n \in 1 .. R, NEW x \in V PROVE next(n, x) \in V
  <2>1. Ordered[n] \in Routers
    BY <1>2, OrderedIs
  <2>2. x \in Predecessors /\ Adjacent(Links, x)
    BY <1>2 DEF Neighbourly
  <2>3. Search(Ordered[n], Links, x) \in Predecessors /\ Adjacent(Links, Search(Ordered[n], Links, x))
    BY <2>1, <2>2, LinksAre, SearchAdjacent
  <2> QED
    BY <2>3 DEF Neighbourly
<1>3. Table = [r \in Routers |-> TableOf(r, after[CHOOSE n \in DOMAIN Ordered : Ordered[n] = r])]
  BY DEF Table, Size, None
<1> HIDE DEF next, R, V, first
<1>4. step \in [Nat \X V -> V]
  BY <1>1, <1>2
<1>5. PICK b : Runs(b, R, V, first, step)
  <2> HIDE DEF step
  <2> QED
    BY <1>1, <1>4, RunsExist
<1>6. \E g : g = Of(g)
  <2>1. ASSUME NEW n \in 1 .. R PROVE b[n] = next(n, b[n - 1])
    <3>1. n \in Nat /\ n - 1 \in 0 .. R
      BY <1>1
    <3>2. b[n] = step[<<n, b[n - 1]>>] /\ b[n - 1] \in V
      <4> HIDE DEF step
      <4> QED
        BY <1>5, <3>1 DEF Runs
    <3> QED
      BY <3>1, <3>2
  <2>2. ASSUME NEW n \in 0 .. R PROVE b[n] = IF n = 0 THEN first ELSE next(n, b[n - 1])
    <3>1. n = 0 \/ n \in 1 .. R
      BY <1>1
    <3> QED
      BY <1>5, <2>1, <3>1 DEF Runs
  <2>3. b = [n \in 0 .. R |-> b[n]]
    BY <1>5 DEF Runs
  <2>4. b = Of(b)
    BY <2>2, <2>3
  <2> QED
    BY <2>4
<1>7. after = Of(after)
  <2> HIDE DEF Of
  <2> QED
    BY <1>6
<1> HIDE DEF after
<1>8. after[0] = first
  BY <1>1, <1>7
<1>9. ASSUME NEW n \in 1 .. R PROVE after[n] = next(n, after[n - 1])
  <2>1. n \in 0 .. R /\ n # 0
    BY <1>1
  <2> QED
    BY <1>7, <2>1
<1>10. after \in [0 .. R -> V]
  <2>1. Staying(after, R, V)
    BY <1>2, <1>9 DEF Staying
  <2>2. Typed(after, R, V)
    BY <1>1, <1>8, <2>1, Stays
  <2>3. after = [n \in 0 .. R |-> after[n]]
    BY <1>7
  <2> QED
    BY <2>2, <2>3 DEF Typed
<1>11. PredsRuns(after)
  BY <1>3, <1>8, <1>9, <1>10 DEF PredsRuns, R, V, first, next
<1> QED
  BY <1>11

(* Each table leads over links to routers that are a hop nearer.           *)
Leads(r, q) == <<r, Table[r][q]>> \in Links /\ Nearer(Table[r][q], r, Links, q)

LEMMA TableLeads ==
  ASSUME NEW r \in Routers, NEW q \in Routers \ {r}
  PROVE  Leads(r, q)
<1>1. PICK a : PredsRuns(a)
  BY PredsIs
<1> DEFINE n == CHOOSE i \in DOMAIN Ordered : Ordered[i] = r
<1>2. n \in 1 .. Size /\ Ordered[n] = r
  <2>1. \E m \in DOMAIN Ordered : Ordered[m] = r
    BY OrderedIs
  <2>2. n \in DOMAIN Ordered /\ Ordered[n] = r
    BY <2>1
  <2> HIDE DEF n
  <2> QED
    BY <2>2, OrderedIs
<1>3. Table[r] = TableOf(r, a[n])
  BY <1>1 DEF PredsRuns
<1> HIDE DEF n
<1>4. n - 1 \in 0 .. Size
  BY <1>2, SizeIs
<1> DEFINE old == a[n - 1]
           p   == a[n]
<1>5. old \in Predecessors /\ Adjacent(Links, old) /\ p = Search(r, Links, old)
  <2>1. old \in Neighbourly /\ p = Search(Ordered[n], Links, old)
    BY <1>1, <1>2, <1>4 DEF PredsRuns
  <2> QED
    BY <1>2, <2>1 DEF Neighbourly
<1> HIDE DEF old, p
<1>6. FindsSome(r, Links, old)
  BY <1>5, LinksAre, SearchFinds
<1>7. PICK d : Finds(d, p, r, Links, old)
  BY <1>5, <1>6 DEF FindsSome
<1>8. d[q] < INFINITY
  BY <1>5, <1>7, LinksAre, ConnectedIffReached
<1>9. NextTo(FirstHop(r, p, q), r, Links, p)
  BY <1>7, <1>8, LinksAre, FirstHopFound
<1>10. Nearer(FirstHop(r, p, q), r, Links, q)
  BY <1>7, <1>8, LinksAre, FirstHopNearer
<1>11. Table[r][q] = FirstHop(r, p, q)
  BY <1>3 DEF TableOf, p
<1> QED
  BY <1>9, <1>10, <1>11 DEF Leads, NextTo

(* On a connected map each router is some hops away, and only itself none. *)
Far(r, q)    == Distance(Links, r, q)
InReach(r, q) == Far(r, q) \in 0 .. Size /\ (Far(r, q) = 0 <=> r = q)

LEMMA DistanceType ==
  ASSUME NEW r \in Routers, NEW q \in Routers
  PROVE  InReach(r, q)
<1>1. FindsSome(r, Links, None)
  <2>1. None \in Predecessors
    BY DEF None, Predecessors
  <2> QED
    BY <2>1, LinksAre, SearchFinds
<1>2. PICK d : Finds(d, Search(r, Links, None), r, Links, None)
  BY <1>1 DEF FindsSome
<1>3. d[q] < INFINITY
  <2>1. None \in Predecessors
    BY DEF None, Predecessors
  <2> QED
    BY <1>2, <2>1, LinksAre, ConnectedIffReached
<1>4. Measures(d, r, Links)
  BY <1>2, LinksAre, DistanceFound
<1>5. Distance(Links, r, q) = d[q]
  BY <1>3, <1>4 DEF Measures
<1>6. d[q] \in 0 .. INFINITY /\ d[q] < Size /\ (d[q] = 0 <=> q = r)
  BY <1>2, <1>3 DEF Finds
<1> QED
  BY <1>5, <1>6, SizeIs DEF InReach, Far

OnMap == Flows \cap (Routers \X Routers)

PathRuns(a, f) ==
  /\ a \in [0 .. Size -> Routers] /\ a[0] = f[1]
  /\ \A n \in 1 .. Size : a[n] = IF a[n - 1] = f[2] THEN a[n - 1] ELSE Table[a[n - 1]][f[2]]
  /\ Paths[f] = [n \in 0 .. Size |-> a[n]]

LEMMA PathIs ==
  ASSUME NEW f \in OnMap
  PROVE  \E a : PathRuns(a, f)
<1> DEFINE R          == Size
           V          == Routers
           first      == f[1]
           next(n, x) == IF x = f[2] THEN x ELSE Table[x][f[2]]
           step       == [q \in Nat \X V |-> IF q[1] \in 1 .. R THEN next(q[1], q[2]) ELSE first]
           Of(g)      == [n \in 0 .. R |-> IF n = 0 THEN first ELSE next(n, g[n - 1])]
           after      == CHOOSE g : g = Of(g)
<1>1. R \in Nat /\ first \in V
  BY SizeIs DEF OnMap
<1>2. ASSUME NEW n \in 1 .. R, NEW x \in V PROVE next(n, x) \in V
  <2>1. f[2] \in Routers
    BY DEF OnMap
  <2>2. x # f[2] => <<x, Table[x][f[2]]>> \in Links
    BY <1>2, <2>1, TableLeads DEF Leads
  <2> QED
    BY <1>2, <2>2, LinksAre
<1>3. Paths[f] = [n \in 0 .. R |-> after[n]]
  BY DEF Paths, OnMap, Size
<1> HIDE DEF next, R, V, first
<1>4. step \in [Nat \X V -> V]
  BY <1>1, <1>2
<1>5. PICK b : Runs(b, R, V, first, step)
  <2> HIDE DEF step
  <2> QED
    BY <1>1, <1>4, RunsExist
<1>6. \E g : g = Of(g)
  <2>1. ASSUME NEW n \in 1 .. R PROVE b[n] = next(n, b[n - 1])
    <3>1. n \in Nat /\ n - 1 \in 0 .. R
      BY <1>1
    <3>2. b[n] = step[<<n, b[n - 1]>>] /\ b[n - 1] \in V
      <4> HIDE DEF step
      <4> QED
        BY <1>5, <3>1 DEF Runs
    <3> QED
      BY <3>1, <3>2
  <2>2. ASSUME NEW n \in 0 .. R PROVE b[n] = IF n = 0 THEN first ELSE next(n, b[n - 1])
    <3>1. n = 0 \/ n \in 1 .. R
      BY <1>1
    <3> QED
      BY <1>5, <2>1, <3>1 DEF Runs
  <2>3. b = [n \in 0 .. R |-> b[n]]
    BY <1>5 DEF Runs
  <2>4. b = Of(b)
    BY <2>2, <2>3
  <2> QED
    BY <2>4
<1>7. after = Of(after)
  <2> HIDE DEF Of
  <2> QED
    BY <1>6
<1> HIDE DEF after
<1>8. after[0] = first
  BY <1>1, <1>7
<1>9. ASSUME NEW n \in 1 .. R PROVE after[n] = next(n, after[n - 1])
  <2>1. n \in 0 .. R /\ n # 0
    BY <1>1
  <2> QED
    BY <1>7, <2>1
<1>10. after \in [0 .. R -> V]
  <2>1. Staying(after, R, V)
    BY <1>2, <1>9 DEF Staying
  <2>2. Typed(after, R, V)
    BY <1>1, <1>8, <2>1, Stays
  <2>3. after = [n \in 0 .. R |-> after[n]]
    BY <1>7
  <2> QED
    BY <2>2, <2>3 DEF Typed
<1>11. PathRuns(after, f)
  BY <1>3, <1>8, <1>9, <1>10 DEF PathRuns, R, V, first, next
<1> QED
  BY <1>11

(* The path of a flow, of d hops: each link is the first of the shortest   *)
(* path from there, so no router comes twice.                              *)
IsPath(at, f, d) ==
  /\ at \in [0 .. Size -> Routers] /\ at[0] = f[1] /\ d \in 1 .. Size
  /\ \A n \in 0 .. Size : at[n] = f[2] <=> n >= d
  /\ \A n \in 0 .. d - 1 : <<at[n], at[n + 1]>> \in Links /\ at[n + 1] = Via(at[n], [dst |-> f[2]])
  /\ \A m, n \in 0 .. d : at[m] = at[n] => m = n

HasPath(f) == \E d : IsPath(Paths[f], f, d)

LEMMA PathFound ==
  ASSUME NEW f \in OnMap
  PROVE  HasPath(f)
<1>1. PICK a : PathRuns(a, f)
  BY PathIs
<1>2. /\ a \in [0 .. Size -> Routers] /\ a[0] = f[1]
      /\ \A n \in 1 .. Size : a[n] = IF a[n - 1] = f[2] THEN a[n - 1] ELSE Table[a[n - 1]][f[2]]
      /\ Paths[f] = a
  BY <1>1 DEF PathRuns
<1>3. f[1] \in Routers /\ f[2] \in Routers /\ f[1] # f[2]
  BY HupSimAssumption DEF OnMap
<1> DEFINE d == Far(f[1], f[2])
           S == {n \in 0 .. Size : Far(a[n], f[2]) = IF n < d THEN d - n ELSE 0}
<1>4. d \in 1 .. Size
  BY <1>3, DistanceType, SizeIs DEF InReach
<1>5. \A r \in Routers : Far(r, f[2]) \in 0 .. Size /\ (Far(r, f[2]) = 0 <=> r = f[2])
  BY <1>3, DistanceType DEF InReach
<1> HIDE DEF d
<1>6. ASSUME NEW n \in 0 .. Size, n < Size, a[n] # f[2]
      PROVE  /\ <<a[n], a[n + 1]>> \in Links /\ a[n + 1] = Table[a[n]][f[2]]
             /\ Far(a[n + 1], f[2]) = Far(a[n], f[2]) - 1
  <2>1. n + 1 \in 1 .. Size /\ (n + 1) - 1 = n
    BY <1>6, SizeIs
  <2>2. a[n + 1] = Table[a[n]][f[2]] /\ a[n] \in Routers
    BY <1>2, <1>6, <2>1
  <2>3. Leads(a[n], f[2])
    BY <1>3, <1>6, <2>2, TableLeads
  <2> QED
    BY <2>2, <2>3 DEF Leads, Nearer, Far
<1>7. 0 \in S
  BY <1>2, <1>4, SizeIs DEF d
<1>8. ASSUME NEW n \in 0 .. Size, n \in S, n < Size PROVE n + 1 \in S
  <2>1. n + 1 \in 1 .. Size /\ (n + 1) - 1 = n /\ n + 1 \in 0 .. Size
    BY <1>8, SizeIs
  <2>2. a[n] \in Routers
    BY <1>2
  <2>3. CASE n < d
    <3>1. Far(a[n], f[2]) = d - n /\ d - n # 0
      BY <1>4, <1>8, <2>3
    <3>2. Far(a[n + 1], f[2]) = (d - n) - 1
      BY <1>5, <1>6, <1>8, <2>2, <3>1
    <3>3. (d - n) - 1 = IF n + 1 < d THEN d - (n + 1) ELSE 0
      BY <1>4, <2>3
    <3> QED
      BY <2>1, <3>2, <3>3
  <2>4. CASE ~ n < d
    <3>1. Far(a[n], f[2]) = 0
      BY <1>8, <2>4
    <3>2. a[n] = f[2]
      BY <1>5, <2>2, <3>1
    <3>3. a[n + 1] = a[n]
      BY <1>2, <2>1, <3>2
    <3>4. ~ n + 1 < d
      BY <1>4, <2>4
    <3> QED
      BY <2>1, <3>1, <3>3, <3>4
  <2> QED
    BY <2>3, <2>4
<1>9. \A n \in 0 .. Size : n \in S
  <2> HIDE DEF S
  <2> QED
    BY <1>7, <1>8, SizeIs, Induction
<1>10. ASSUME NEW n \in 0 .. Size PROVE a[n] = f[2] <=> n >= d
  <2>1. Far(a[n], f[2]) = 0 <=> a[n] = f[2]
    BY <1>2, <1>5
  <2>2. Far(a[n], f[2]) = IF n < d THEN d - n ELSE 0
    BY <1>9
  <2> QED
    BY <1>4, <2>1, <2>2
<1>11. ASSUME NEW n \in 0 .. d - 1
       PROVE  <<a[n], a[n + 1]>> \in Links /\ a[n + 1] = Via(a[n], [dst |-> f[2]])
  <2>1. n \in 0 .. Size /\ n < Size /\ ~ n >= d
    BY <1>4, SizeIs
  <2>2. a[n] # f[2]
    BY <1>10, <2>1
  <2> QED
    BY <1>6, <2>1, <2>2 DEF Via
<1>12. ASSUME NEW m \in 0 .. d, NEW n \in 0 .. d, a[m] = a[n] PROVE m = n
  <2>1. m \in 0 .. Size /\ n \in 0 .. Size
    BY <1>4, SizeIs
  <2>2. (IF m < d THEN d - m ELSE 0) = (IF n < d THEN d - n ELSE 0)
    BY <1>9, <1>12, <2>1
  <2> QED
    BY <1>4, <2>2
<1>13. IsPath(a, f, d)
  BY <1>2, <1>4, <1>10, <1>11, <1>12 DEF IsPath
<1> QED
  BY <1>2, <1>13 DEF HasPath

(***************************************************************************)
(* The packets of a flow.                                                  *)
(***************************************************************************)

LEMMA OfFlowNone == ASSUME NEW f PROVE OfFlow(<<>>, f) = <<>>
<1>1. <<>> \in Seq(Packets) /\ Len(<<>>) = 0
  OBVIOUS
<1>2. PICK a : OfFlowRuns(a, <<>>, f)
  BY <1>1, OfFlowIs
<1> QED
  BY <1>1, <1>2 DEF OfFlowRuns

LEMMA OfFlowOne ==
  ASSUME NEW p \in Packets, NEW f
  PROVE  OfFlow(<<p>>, f) = IF <<p.src, p.dst>> = f THEN <<p>> ELSE <<>>
<1> DEFINE s == <<p>>
<1>1. s \in Seq(Packets) /\ Len(s) = 1 /\ s[1] = p
  OBVIOUS
<1> HIDE DEF s
<1>2. PICK a : OfFlowRuns(a, s, f)
  BY <1>1, OfFlowIs
<1>3. 1 \in 1 .. Len(s) /\ 1 - 1 = 0
  BY <1>1
<1>4. a[1] = (IF <<p.src, p.dst>> = f THEN Append(a[0], p) ELSE a[0]) /\ a[0] = <<>>
  BY <1>1, <1>2, <1>3 DEF OfFlowRuns
<1>5. OfFlow(s, f) = a[1]
  BY <1>1, <1>2 DEF OfFlowRuns
<1>6. Append(<<>>, p) = <<p>>
  OBVIOUS
<1> QED
  BY <1>4, <1>5, <1>6 DEF s

Regroups(s, t, u) == (s \o t) \o u = s \o (t \o u)

LEMMA Regroup ==
  ASSUME NEW s \in Seq(Packets), NEW t \in Seq(Packets), NEW u \in Seq(Packets)
  PROVE  Regroups(s, t, u)
  BY ConcatAssociative DEF Regroups

LEMMA JoinType == ASSUME NEW s \in Seq(Packets), NEW t \in Seq(Packets) PROVE s \o t \in Seq(Packets)
  OBVIOUS

LEMMA AppendConcat ==
  ASSUME NEW s \in Seq(Packets), NEW t \in Seq(Packets), NEW e \in Packets
  PROVE  Append(s \o t, e) = s \o Append(t, e)
<1> DEFINE u == s \o t
           o == <<e>>
<1>1. o \in Seq(Packets) /\ u \in Seq(Packets)
  OBVIOUS
<1>2. Append(t, e) = t \o o
  OBVIOUS
<1>3. Append(u, e) = u \o o
  <2> HIDE DEF u
  <2> QED
    BY <1>1
<1> HIDE DEF o
<1>4. Regroups(s, t, o)
  BY <1>1, Regroup
<1> QED
  BY <1>2, <1>3, <1>4 DEF u, Regroups

OfBoth(s, t, f) == OfFlow(s \o t, f) = OfFlow(s, f) \o OfFlow(t, f)

LEMMA OfFlowConcat ==
  ASSUME NEW s \in Seq(Packets), NEW t \in Seq(Packets), NEW f
  PROVE  OfBoth(s, t, f)
<1> DEFINE u == s \o t
           m == Len(s)
<1>1. PICK a : OfFlowRuns(a, s, f)
  BY OfFlowIs
<1>2. PICK b : OfFlowRuns(b, t, f)
  BY OfFlowIs
<1>3. u \in Seq(Packets) /\ Len(u) = m + Len(t) /\ m \in Nat /\ Len(t) \in Nat
  OBVIOUS
<1>4. PICK c : OfFlowRuns(c, u, f)
  <2> HIDE DEF u
  <2> QED
    BY <1>3, OfFlowIs
<1>5. \A n \in 1 .. m : u[n] = s[n]
  OBVIOUS
<1>6. \A n \in 1 .. Len(t) : u[m + n] = t[n] /\ t[n] \in Packets
  OBVIOUS
<1> HIDE DEF u, m
<1> DEFINE S    == {n \in 0 .. m : c[n] = a[n]}
           V(n) == a[m] \o b[n]
           T    == {n \in 0 .. Len(t) : c[m + n] = V(n)}
<1>7. a[0] = <<>> /\ b[0] = <<>> /\ c[0] = <<>>
  BY <1>1, <1>2, <1>4 DEF OfFlowRuns
<1>8. 0 \in S
  BY <1>3, <1>7
<1>9. ASSUME NEW n \in 0 .. m, n \in S, n < m PROVE n + 1 \in S
  <2>1. n + 1 \in 1 .. m /\ n + 1 \in 1 .. Len(u) /\ (n + 1) - 1 = n
    BY <1>3, <1>9
  <2>2. c[n + 1] = IF <<u[n + 1].src, u[n + 1].dst>> = f THEN Append(c[(n + 1) - 1], u[n + 1])
                   ELSE c[(n + 1) - 1]
    BY <1>4, <2>1 DEF OfFlowRuns
  <2>3. a[n + 1] = IF <<s[n + 1].src, s[n + 1].dst>> = f THEN Append(a[(n + 1) - 1], s[n + 1])
                   ELSE a[(n + 1) - 1]
    BY <1>1, <2>1 DEF OfFlowRuns, m
  <2>4. u[n + 1] = s[n + 1] /\ c[n] = a[n]
    BY <1>5, <1>9, <2>1
  <2>5. c[n + 1] = a[n + 1]
    BY <2>1, <2>2, <2>3, <2>4
  <2> QED
    BY <2>1, <2>5
<1>10. \A n \in 0 .. m : n \in S
  <2> HIDE DEF S
  <2> QED
    BY <1>3, <1>8, <1>9, Induction
<1>11. c[m] = a[m] /\ a[m] \in Seq(Packets)
  <2>1. m \in 0 .. m
    BY <1>3
  <2>2. a[m] \in Seq(Packets)
    BY <1>1, <2>1 DEF OfFlowRuns, m
  <2>3. c[m] = a[m]
    BY <1>10, <2>1
  <2> QED
    BY <2>2, <2>3
<1>12. 0 \in T
  <2>1. m + 0 = m /\ 0 \in 0 .. Len(t) /\ a[m] \o <<>> = a[m]
    BY <1>3, <1>11
  <2>2. V(0) = a[m]
    BY <1>7, <2>1
  <2> HIDE DEF V
  <2> QED
    BY <1>11, <2>1, <2>2
<1>13. ASSUME NEW n \in 0 .. Len(t), n \in T, n < Len(t) PROVE n + 1 \in T
  <2>1. /\ n + 1 \in 1 .. Len(t) /\ m + (n + 1) \in 1 .. Len(u) /\ (n + 1) - 1 = n
        /\ (m + (n + 1)) - 1 = m + n
    BY <1>3, <1>13
  <2>2. c[m + (n + 1)] = IF <<u[m + (n + 1)].src, u[m + (n + 1)].dst>> = f
                         THEN Append(c[(m + (n + 1)) - 1], u[m + (n + 1)])
                         ELSE c[(m + (n + 1)) - 1]
    BY <1>4, <2>1 DEF OfFlowRuns
  <2>3. b[n + 1] = IF <<t[n + 1].src, t[n + 1].dst>> = f THEN Append(b[(n + 1) - 1], t[n + 1])
                   ELSE b[(n + 1) - 1]
    BY <1>2, <2>1 DEF OfFlowRuns
  <2>4. u[m + (n + 1)] = t[n + 1] /\ c[m + n] = V(n) /\ t[n + 1] \in Packets
    <3> HIDE DEF V
    <3> QED
      BY <1>6, <1>13, <2>1
  <2>5. b[n] \in Seq(Packets)
    BY <1>2 DEF OfFlowRuns
  <2>6. Append(a[m] \o b[n], t[n + 1]) = a[m] \o Append(b[n], t[n + 1])
    <3> DEFINE x == a[m]
               y == b[n]
               e == t[n + 1]
    <3>1. x \in Seq(Packets) /\ y \in Seq(Packets) /\ e \in Packets
      BY <1>11, <2>4, <2>5
    <3> HIDE DEF x, y, e
    <3>2. Append(x \o y, e) = x \o Append(y, e)
      BY <3>1, AppendConcat
    <3> QED
      BY <3>2 DEF x, y, e
  <2>7. c[m + (n + 1)] = V(n + 1)
    BY <2>1, <2>2, <2>3, <2>4, <2>6
  <2> HIDE DEF V
  <2> QED
    BY <2>1, <2>7
<1>14. \A n \in 0 .. Len(t) : n \in T
  <2> HIDE DEF T
  <2> QED
    BY <1>3, <1>12, <1>13, Induction
<1>15. c[m + Len(t)] = V(Len(t))
  <2> HIDE DEF V
  <2> QED
    BY <1>3, <1>14
<1> QED
  BY <1>1, <1>2, <1>3, <1>4, <1>15 DEF OfBoth, OfFlowRuns, u, m

(* What is of the flow is among the packets.                               *)
LEMMA OfFlowEmpty ==
  ASSUME NEW ps \in Seq(Packets), NEW f,
         \A n \in 1 .. Len(ps) : <<ps[n].src, ps[n].dst>> # f
  PROVE  OfFlow(ps, f) = <<>>
<1>1. PICK a : OfFlowRuns(a, ps, f)
  BY OfFlowIs
<1>2. Len(ps) \in Nat
  OBVIOUS
<1>3. Staying(a, Len(ps), {<<>>})
  BY <1>1 DEF Staying, OfFlowRuns
<1>4. Typed(a, Len(ps), {<<>>})
  BY <1>1, <1>2, <1>3, Stays DEF OfFlowRuns
<1> QED
  BY <1>1, <1>2, <1>4 DEF Typed, OfFlowRuns

(***************************************************************************)
(* What may be left of a sequence.                                         *)
(***************************************************************************)

LEMMA RemainsItself == ASSUME NEW s \in Seq(Packets) PROVE C!Remains(s, s)
<1> DEFINE at == [k \in DOMAIN s |-> k]
<1>1. DOMAIN s = 1 .. Len(s) /\ Len(s) \in Nat
  OBVIOUS
<1>2. at \in [DOMAIN s -> DOMAIN s]
  OBVIOUS
<1>3. \A k \in DOMAIN s : s[k] = s[at[k]] /\ \A j \in 1 .. k - 1 : at[j] < at[k]
  BY <1>1
<1> HIDE DEF at
<1> QED
  BY <1>2, <1>3 DEF C!Remains

LEMMA RemainsNone == ASSUME NEW s \in Seq(Packets) PROVE C!Remains(<<>>, s)
<1> DEFINE at == [k \in {} |-> 0]
<1>1. DOMAIN <<>> = {}
  OBVIOUS
<1>2. at \in [DOMAIN <<>> -> DOMAIN s]
  BY <1>1
<1> HIDE DEF at
<1> QED
  BY <1>1, <1>2 DEF C!Remains

(* Positions in two parts of a sequence.                                   *)
LEMMA Before ==
  ASSUME NEW n \in Nat, NEW l \in Nat, NEW a \in 1 .. n, NEW b \in 1 .. l
  PROVE  a < n + b
  OBVIOUS

LEMMA Further ==
  ASSUME NEW n \in Nat, NEW l \in Nat, NEW a \in 1 .. l, NEW b \in 1 .. l, a < b
  PROVE  n + a < n + b
  OBVIOUS

LEMMA RemainsConcat ==
  ASSUME NEW t1 \in Seq(Packets), NEW s1 \in Seq(Packets), NEW t2 \in Seq(Packets), NEW s2 \in Seq(Packets),
         C!Remains(t1, s1), C!Remains(t2, s2)
  PROVE  C!Remains(t1 \o t2, s1 \o s2)
<1>1. PICK x \in [DOMAIN t1 -> DOMAIN s1] : \A k \in DOMAIN t1 :
        t1[k] = s1[x[k]] /\ \A j \in 1 .. k - 1 : x[j] < x[k]
  BY DEF C!Remains
<1>2. PICK y \in [DOMAIN t2 -> DOMAIN s2] : \A k \in DOMAIN t2 :
        t2[k] = s2[y[k]] /\ \A j \in 1 .. k - 1 : y[j] < y[k]
  BY DEF C!Remains
<1> DEFINE t == t1 \o t2
           s == s1 \o s2
           m == Len(t1)
           n == Len(s1)
           z == [k \in DOMAIN t |-> IF k <= m THEN x[k] ELSE n + y[k - m]]
<1>3. /\ DOMAIN t1 = 1 .. m /\ DOMAIN s1 = 1 .. n /\ m \in Nat /\ n \in Nat
      /\ DOMAIN t2 = 1 .. Len(t2) /\ DOMAIN s2 = 1 .. Len(s2) /\ Len(t2) \in Nat /\ Len(s2) \in Nat
      /\ DOMAIN t = 1 .. m + Len(t2) /\ DOMAIN s = 1 .. n + Len(s2)
      /\ \A k \in 1 .. m : t[k] = t1[k]
      /\ \A k \in 1 .. Len(t2) : t[m + k] = t2[k]
      /\ \A k \in 1 .. n : s[k] = s1[k]
      /\ \A k \in 1 .. Len(s2) : s[n + k] = s2[k]
  OBVIOUS
<1> HIDE DEF t, s, m, n
<1> DEFINE First(k)  == k \in 1 .. m /\ z[k] = x[k] /\ x[k] \in 1 .. n
           Second(k) == /\ k - m \in 1 .. Len(t2) /\ m + (k - m) = k /\ ~ k <= m
                        /\ z[k] = n + y[k - m] /\ y[k - m] \in 1 .. Len(s2)
<1>4. ASSUME NEW k \in 1 .. m + Len(t2) PROVE First(k) \/ Second(k)
  <2>1. CASE k <= m
    <3>1. k \in DOMAIN t /\ k \in DOMAIN t1
      BY <1>3, <2>1
    <3>2. z[k] = x[k] /\ x[k] \in DOMAIN s1
      BY <2>1, <3>1
    <3> QED
      BY <1>3, <3>1, <3>2
  <2>2. CASE ~ k <= m
    <3>1. k \in DOMAIN t /\ k - m \in 1 .. Len(t2) /\ m + (k - m) = k
      BY <1>3, <2>2
    <3>2. z[k] = n + y[k - m]
      BY <2>2, <3>1
    <3>3. y[k - m] \in 1 .. Len(s2)
      BY <1>3, <3>1
    <3> HIDE DEF z
    <3> QED
      BY <2>2, <3>1, <3>2, <3>3
  <2> QED
    BY <2>1, <2>2
<1>5. z \in [DOMAIN t -> DOMAIN s]
  <2>1. ASSUME NEW k \in DOMAIN t PROVE z[k] \in DOMAIN s
    <3>1. First(k) \/ Second(k)
      BY <1>3, <1>4
    <3>2. CASE First(k)
      <4> HIDE DEF z
      <4> QED
        BY <1>3, <3>2
    <3>3. CASE Second(k)
      <4> HIDE DEF z
      <4> QED
        BY <1>3, <3>3
    <3> QED
      BY <3>1, <3>2, <3>3
  <2> QED
    BY <2>1
<1> HIDE DEF z
<1>6. ASSUME NEW k \in DOMAIN t
      PROVE  t[k] = s[z[k]] /\ \A j \in 1 .. k - 1 : z[j] < z[k]
  <2>1. k \in 1 .. m + Len(t2) /\ (First(k) \/ Second(k))
    BY <1>3, <1>4
  <2>2. CASE First(k)
    <3>1. t[k] = s[z[k]]
      BY <1>1, <1>3, <2>2
    <3>2. ASSUME NEW j \in 1 .. k - 1 PROVE z[j] < z[k]
      <4>1. j \in 1 .. m /\ j \in 1 .. m + Len(t2)
        BY <1>3, <2>2
      <4>2. First(j)
        BY <1>3, <1>4, <4>1
      <4> QED
        BY <1>1, <1>3, <2>2, <4>2
    <3> QED
      BY <3>1, <3>2
  <2>3. CASE Second(k)
    <3>1. t[k] = s[z[k]]
      <4>1. t[k] = t2[k - m] /\ s[z[k]] = s2[y[k - m]]
        BY <1>3, <2>3, SMTT(30)
      <4>2. t2[k - m] = s2[y[k - m]]
        BY <1>2, <1>3, <2>3
      <4> QED
        BY <4>1, <4>2
    <3>2. ASSUME NEW j \in 1 .. k - 1 PROVE z[j] < z[k]
      <4>1. /\ j \in 1 .. m + Len(t2) /\ k \in Nat
            /\ m \in Nat /\ n \in Nat /\ Len(t2) \in Nat /\ Len(s2) \in Nat
        BY <1>3, <2>1
      <4>2. CASE First(j)
        <5>1. z[j] = x[j] /\ x[j] \in 1 .. n
          BY <4>2
        <5>2. z[k] = n + y[k - m] /\ y[k - m] \in 1 .. Len(s2)
          BY <2>3
        <5> HIDE DEF First, Second
        <5> QED
          BY <4>1, <5>1, <5>2, Before, Zenon
      <4>3. CASE Second(j)
        <5>1. j - m \in 1 .. (k - m) - 1
          <6>1. j - m \in 1 .. Len(t2)
            BY <4>3
          <6> HIDE DEF First, Second
          <6> QED
            BY <4>1, <6>1
        <5>2. y[j - m] < y[k - m]
          BY <1>2, <1>3, <2>3, <5>1
        <5>3. /\ z[j] = n + y[j - m] /\ y[j - m] \in 1 .. Len(s2)
              /\ z[k] = n + y[k - m] /\ y[k - m] \in 1 .. Len(s2)
          BY <2>3, <4>3
        <5> HIDE DEF First, Second
        <5> QED
          BY <4>1, <5>2, <5>3, Further
      <4> QED
        BY <1>4, <4>1, <4>2, <4>3
    <3> QED
      BY <3>1, <3>2
  <2> QED
    BY <2>1, <2>2, <2>3
<1>7. C!Remains(t, s)
  BY <1>5, <1>6 DEF C!Remains
<1> QED
  BY <1>7 DEF t, s

(***************************************************************************)
(* What a queue receives.                                                  *)
(***************************************************************************)

LEMMA PktsType == ASSUME NEW c \in Queues PROVE Pkts(c) \in Seq(Packets) /\ Len(Pkts(c)) = Len(c.queue)
<1>1. c.queue \in Seq(Entries)
  BY DEF Queues
<1> QED
  BY <1>1, PktsAre

LEMMA NothingAdded == ASSUME NEW s \in Seq(Packets) PROVE s \o <<>> = s /\ <<>> \o s = s
  OBVIOUS

(* Of each flow a queue gains, at its end, some of what it receives.       *)
Gains(c, d, fs, f) ==
  \E y \in Seq(Packets) :
    OfFlow(Pkts(d), f) = OfFlow(Pkts(c), f) \o y /\ C!Remains(y, fs)

LEMMA GainsMore ==
  ASSUME NEW c \in Queues, NEW d \in Queues, NEW e \in Queues, NEW f, NEW fs \in Seq(Packets),
         NEW w \in Seq(Packets), NEW v \in Seq(Packets),
         Gains(c, d, fs, f), Pkts(e) = Pkts(d) \/ Pkts(e) = Pkts(d) \o w,
         C!Remains(OfFlow(w, f), v)
  PROVE  Gains(c, e, fs \o v, f)
<1>1. PICK y \in Seq(Packets) :
        OfFlow(Pkts(d), f) = OfFlow(Pkts(c), f) \o y /\ C!Remains(y, fs)
  BY DEF Gains
<1>2. Pkts(c) \in Seq(Packets) /\ Pkts(d) \in Seq(Packets)
  BY PktsType
<1>3. OfFlow(Pkts(c), f) \in Seq(Packets) /\ OfFlow(w, f) \in Seq(Packets)
  BY <1>2, OfFlowType
<1>4. CASE Pkts(e) = Pkts(d)
  <2>1. C!Remains(<<>>, v)
    BY RemainsNone
  <2>2. <<>> \in Seq(Packets)
    OBVIOUS
  <2>3. C!Remains(y \o <<>>, fs \o v)
    BY <1>1, <2>1, <2>2, RemainsConcat
  <2>4. y \o <<>> = y
    BY NothingAdded
  <2> QED
    BY <1>1, <1>4, <2>3, <2>4 DEF Gains
<1>5. CASE Pkts(e) = Pkts(d) \o w
  <2> DEFINE x == OfFlow(w, f)
             z == OfFlow(Pkts(c), f)
  <2>1. OfFlow(Pkts(e), f) = OfFlow(Pkts(d), f) \o x
    <3>1. OfBoth(Pkts(d), w, f)
      BY <1>2, OfFlowConcat
    <3> QED
      BY <1>5, <3>1 DEF OfBoth
  <2>2. C!Remains(y \o x, fs \o v)
    BY <1>1, <1>3, RemainsConcat
  <2>3. x \in Seq(Packets) /\ y \in Seq(Packets) /\ z \in Seq(Packets)
    BY <1>3
  <2> HIDE DEF x, z
  <2>4. (z \o y) \o x = z \o (y \o x) /\ y \o x \in Seq(Packets)
    <3>1. Regroups(z, y, x)
      BY <2>3, Regroup
    <3>2. y \o x \in Seq(Packets)
      BY <2>3, JoinType
    <3> QED
      BY <3>1, <3>2 DEF Regroups
  <2>5. OfFlow(Pkts(e), f) = z \o (y \o x)
    BY <1>1, <2>1, <2>4 DEF z
  <2> QED
    BY <2>2, <2>4, <2>5 DEF Gains, z
<1> QED
  BY <1>4, <1>5

LEMMA ReceivedGains ==
  ASSUME NEW c \in Queues, NEW l, NEW ps \in Seq(Packets), NEW f
  PROVE  Gains(c, Received(c, l, ps), OfFlow(ps, f), f)
<1>1. PICK a : ReceivedRuns(a, c, l, ps)
  BY ReceivedIs
<1>2. PICK o : OfFlowRuns(o, ps, f)
  BY OfFlowIs
<1>3. Len(ps) \in Nat
  OBVIOUS
<1> DEFINE S == {n \in 0 .. Len(ps) : Gains(c, a[n], o[n], f)}
<1>4. 0 \in S
  <2>1. a[0] = c /\ o[0] = <<>>
    BY <1>1, <1>2 DEF ReceivedRuns, OfFlowRuns
  <2>2. <<>> \in Seq(Packets)
    OBVIOUS
  <2>3. Pkts(c) \in Seq(Packets)
    BY PktsType
  <2>4. OfFlow(Pkts(c), f) \in Seq(Packets)
    BY <2>3, OfFlowType
  <2>5. C!Remains(<<>>, <<>>) /\ OfFlow(Pkts(c), f) \o <<>> = OfFlow(Pkts(c), f)
    BY <2>2, <2>4, RemainsNone, NothingAdded
  <2>6. Gains(c, c, <<>>, f)
    BY <2>2, <2>5 DEF Gains
  <2> QED
    BY <1>3, <2>1, <2>6
<1>5. ASSUME NEW n \in 0 .. Len(ps), n \in S, n < Len(ps) PROVE n + 1 \in S
  <2> DEFINE p == ps[n + 1]
             v == IF <<p.src, p.dst>> = f THEN <<p>> ELSE <<>>
             w == <<p>>
  <2>1. n + 1 \in 1 .. Len(ps) /\ (n + 1) - 1 = n /\ n + 1 \in 0 .. Len(ps) /\ p \in Packets
    BY <1>3, <1>5
  <2>2. /\ a[n] \in Queues /\ a[n + 1] \in Queues
        /\ a[n + 1] = IF PassesOn(l[1], p) /\ Via(l[1], p) = l[2] THEN EnQ(a[n], p) ELSE a[n]
    BY <1>1, <2>1 DEF ReceivedRuns
  <2>3. o[n] \in Seq(Packets) /\ o[n + 1] = IF <<p.src, p.dst>> = f THEN Append(o[n], p) ELSE o[n]
    BY <1>2, <2>1 DEF OfFlowRuns
  <2> HIDE DEF p
  <2>4. OfFlow(w, f) = v /\ v \in Seq(Packets) /\ w \in Seq(Packets)
    BY <2>1, OfFlowOne
  <2>5. o[n + 1] = o[n] \o v
    <3>1. Append(o[n], p) = o[n] \o <<p>> /\ o[n] \o <<>> = o[n]
      BY <2>1, <2>3, AppendIsConcat
    <3> QED
      BY <2>3, <3>1
  <2> HIDE DEF v, w
  <2>6. C!Remains(OfFlow(w, f), v)
    BY <2>4, RemainsItself
  <2>7. Pkts(a[n + 1]) = Pkts(a[n]) \/ Pkts(a[n + 1]) = Pkts(a[n]) \o w
    BY <2>1, <2>2, EnQIs DEF w
  <2>8. Gains(c, a[n], o[n], f)
    BY <1>5
  <2>9. Gains(c, a[n + 1], o[n] \o v, f)
    BY <2>2, <2>3, <2>4, <2>6, <2>7, <2>8, GainsMore
  <2> QED
    BY <2>1, <2>5, <2>9
<1>6. \A n \in 0 .. Len(ps) : n \in S
  <2> HIDE DEF S
  <2> QED
    BY <1>3, <1>4, <1>5, Induction
<1>7. Gains(c, a[Len(ps)], o[Len(ps)], f)
  BY <1>3, <1>6
<1> QED
  BY <1>1, <1>2, <1>7 DEF ReceivedRuns, OfFlowRuns

(* And it gains nothing else.                                              *)
IsFor(p, l) == PassesOn(l[1], p) /\ Via(l[1], p) = l[2]

LEMMA ReceivedFrom ==
  ASSUME NEW c \in Queues, NEW l, NEW ps \in Seq(Packets), NEW p, InSeq(p, Pkts(Received(c, l, ps)))
  PROVE  InSeq(p, Pkts(c)) \/ (InSeq(p, ps) /\ IsFor(p, l))
<1>1. PICK a : ReceivedRuns(a, c, l, ps)
  BY ReceivedIs
<1>2. Len(ps) \in Nat
  OBVIOUS
<1> DEFINE From(d) == InSeq(p, Pkts(d)) => InSeq(p, Pkts(c)) \/ (InSeq(p, ps) /\ IsFor(p, l))
           S       == {n \in 0 .. Len(ps) : From(a[n])}
<1>3. 0 \in S
  BY <1>1, <1>2 DEF ReceivedRuns
<1>4. ASSUME NEW n \in 0 .. Len(ps), n \in S, n < Len(ps) PROVE n + 1 \in S
  <2> DEFINE q == ps[n + 1]
  <2>1. n + 1 \in 1 .. Len(ps) /\ (n + 1) - 1 = n /\ n + 1 \in 0 .. Len(ps) /\ q \in Packets
    BY <1>2, <1>4
  <2>2. InSeq(q, ps)
    BY <2>1 DEF InSeq
  <2>3. /\ a[n] \in Queues
        /\ a[n + 1] = IF IsFor(q, l) THEN EnQ(a[n], q) ELSE a[n]
    BY <1>1, <2>1 DEF ReceivedRuns, IsFor
  <2> HIDE DEF q
  <2>4. CASE Pkts(a[n + 1]) = Pkts(a[n])
    BY <1>4, <2>1, <2>4
  <2>5. CASE IsFor(q, l) /\ Pkts(a[n + 1]) = Pkts(a[n]) \o <<q>>
    <3>1. Pkts(a[n]) \in Seq(Packets) /\ <<q>> \in Seq(Packets)
      BY <2>1, <2>3, PktsType
    <3>2. InSeq(p, Pkts(a[n + 1])) => InSeq(p, Pkts(a[n])) \/ InSeq(p, <<q>>)
      <4> DEFINE u == Pkts(a[n])
                 o == <<q>>
      <4>1. u \in Seq(Packets) /\ o \in Seq(Packets)
        BY <3>1
      <4>2. Pkts(a[n + 1]) = u \o o
        BY <2>5
      <4> HIDE DEF From, S, u, o
      <4>3. InSeq(p, u \o o) => InSeq(p, u) \/ InSeq(p, o)
        BY <4>1, InSeqConcat
      <4> QED
        BY <4>2, <4>3 DEF u, o
    <3>3. InSeq(p, <<q>>) => p = q
      BY DEF InSeq
    <3>4. From(a[n + 1])
      BY <1>4, <2>2, <2>5, <3>2, <3>3
    <3> QED
      BY <2>1, <3>4
  <2>6. \/ Pkts(a[n + 1]) = Pkts(a[n])
        \/ IsFor(q, l) /\ Pkts(a[n + 1]) = Pkts(a[n]) \o <<q>>
    BY <2>1, <2>3, EnQIs
  <2> QED
    BY <2>4, <2>5, <2>6
<1>5. \A n \in 0 .. Len(ps) : n \in S
  <2> HIDE DEF S
  <2> QED
    BY <1>2, <1>3, <1>4, Induction
<1>6. From(a[Len(ps)])
  BY <1>2, <1>5
<1> QED
  BY <1>1, <1>6 DEF ReceivedRuns

(***************************************************************************)
(* Packets stay on the paths of their flows.                               *)
(***************************************************************************)

Hop(f, n) == <<Paths[f][n - 1], Paths[f][n]>>

(* Link l is on the path of p, before its end.                             *)
Travels(l, p) ==
  /\ <<p.src, p.dst>> \in OnMap
  /\ \E n \in 1 .. Size :
       l = Hop(<<p.src, p.dst>>, n) /\ Paths[<<p.src, p.dst>>][n - 1] # p.dst

OnTheirWay ==
  \A l \in Links : \A p \in Packets : InSeq(p, Pkts(routes[l])) => Travels(l, p)

IsHop(f, n) ==
  /\ Hop(f, n) \in Links
  /\ Hop(f, n)[1] = Paths[f][n - 1] /\ Hop(f, n)[2] = Paths[f][n]
  /\ Paths[f][n - 1] # f[2]
  /\ Paths[f][n] = Table[Paths[f][n - 1]][f[2]]

LEMMA HopIs ==
  ASSUME NEW f, NEW d, IsPath(Paths[f], f, d), NEW n \in 1 .. d
  PROVE  IsHop(f, n)
<1>1. n - 1 \in 0 .. d - 1 /\ (n - 1) + 1 = n /\ n - 1 \in 0 .. Size /\ ~ n - 1 >= d
  BY SizeIs DEF IsPath
<1>2. Hop(f, n)[1] = Paths[f][n - 1] /\ Hop(f, n)[2] = Paths[f][n]
  BY DEF Hop
<1>3. Hop(f, n) \in Links /\ Paths[f][n] = Table[Paths[f][n - 1]][f[2]]
  BY <1>1 DEF IsPath, Hop, Via
<1>4. Paths[f][n - 1] # f[2]
  BY <1>1 DEF IsPath
<1> QED
  BY <1>2, <1>3, <1>4 DEF IsHop

LEMMA TravelsFirst ==
  ASSUME NEW p \in Packets, <<p.src, p.dst>> \in Flows, NEW l \in Links, l[1] = p.src, IsFor(p, l)
  PROVE  Travels(l, p)
<1> DEFINE f == <<p.src, p.dst>>
<1>1. f \in OnMap /\ f[1] = p.src /\ f[2] = p.dst /\ p.dst # l[1]
  BY LinkIs DEF IsFor, PassesOn, OnMap
<1> HIDE DEF f
<1>2. PICK d : IsPath(Paths[f], f, d)
  BY <1>1, PathFound DEF HasPath
<1>3. 1 \in 1 .. d /\ 1 \in 1 .. Size /\ 1 - 1 = 0
  BY <1>2, SizeIs DEF IsPath
<1>4. IsHop(f, 1) /\ Paths[f][0] = f[1]
  BY <1>2, <1>3, HopIs DEF IsPath
<1>5. l = Hop(f, 1)
  <2>1. l = <<l[1], l[2]>> /\ l[2] = Table[l[1]][p.dst]
    BY LinkIs DEF IsFor, Via
  <2> QED
    BY <1>1, <1>3, <1>4, <2>1 DEF IsHop, Hop
<1>6. Paths[f][1 - 1] # p.dst
  BY <1>1, <1>3, <1>4 DEF IsHop
<1> QED
  BY <1>1, <1>3, <1>5, <1>6 DEF Travels, f

LEMMA TravelsOn ==
  ASSUME NEW p \in Packets, NEW k \in Links, NEW l \in Links, Travels(k, p), k[2] = l[1], IsFor(p, l)
  PROVE  Travels(l, p)
<1> DEFINE f == <<p.src, p.dst>>
<1>1. f \in OnMap /\ f[2] = p.dst
  BY DEF Travels
<1>2. PICK n \in 1 .. Size : k = Hop(f, n) /\ Paths[f][n - 1] # p.dst
  BY DEF Travels
<1> HIDE DEF f
<1>3. PICK d : IsPath(Paths[f], f, d)
  BY <1>1, PathFound DEF HasPath
<1>4. l[1] = Paths[f][n] /\ l[1] # p.dst /\ l[2] = Table[l[1]][p.dst]
  BY <1>2 DEF IsFor, PassesOn, Via, Hop
<1>5. n \in 0 .. Size /\ ~ n >= d /\ d \in 1 .. Size
  BY <1>1, <1>3, <1>4, SizeIs DEF IsPath
<1>6. n + 1 \in 1 .. d /\ n + 1 \in 1 .. Size /\ (n + 1) - 1 = n
  BY <1>5, SizeIs
<1>7. IsHop(f, n + 1)
  BY <1>3, <1>6, HopIs
<1>8. l = Hop(f, n + 1)
  <2>1. l = <<l[1], l[2]>>
    BY LinkIs
  <2>2. Paths[f][n + 1] = Table[Paths[f][n]][f[2]]
    BY <1>6, <1>7 DEF IsHop
  <2> QED
    BY <1>1, <1>4, <1>6, <2>1, <2>2 DEF Hop
<1>9. Paths[f][(n + 1) - 1] # p.dst
  BY <1>4, <1>6
<1> QED
  BY <1>1, <1>6, <1>8, <1>9 DEF Travels, f

LEMMA OnTheirWayInitially == Init => OnTheirWay
<1> SUFFICES ASSUME Init PROVE OnTheirWay
  OBVIOUS
<1>1. \A l \in Links : routes[l].queue = <<>>
  BY DEF Init
<1>2. \A l \in Links : routes[l] \in Queues
  BY EmptyQueue DEF Init
<1>3. \A l \in Links : Len(Pkts(routes[l])) = 0
  BY <1>1, <1>2, PktsType
<1> QED
  BY <1>3 DEF OnTheirWay, InSeq

LEMMA ReceiveOnTheirWay ==
  ASSUME SimTypeOK, OnTheirWay, NEW p \in Packets, <<p.src, p.dst>> \in Flows, Receive(p)
  PROVE  OnTheirWay'
<1> SUFFICES ASSUME NEW l \in Links, NEW q \in Packets, InSeq(q, Pkts(routes'[l]))
             PROVE  Travels(l, q)
  BY DEF OnTheirWay
<1>1. routes'[l] = IF l[1] = p.src THEN Received(routes[l], l, <<p>>) ELSE routes[l]
  BY DEF Receive
<1>2. routes[l] \in Queues /\ <<p>> \in Seq(Packets)
  BY DEF SimTypeOK
<1>3. CASE InSeq(q, Pkts(routes[l]))
  BY <1>3 DEF OnTheirWay
<1>4. CASE ~ InSeq(q, Pkts(routes[l]))
  <2>1. l[1] = p.src /\ InSeq(q, Pkts(Received(routes[l], l, <<p>>)))
    BY <1>1, <1>4
  <2>2. InSeq(q, <<p>>) /\ IsFor(q, l)
    BY <1>2, <1>4, <2>1, ReceivedFrom
  <2>3. q = p
    BY <2>2 DEF InSeq
  <2> QED
    BY <2>1, <2>2, <2>3, TravelsFirst
<1> QED
  BY <1>3, <1>4

LEMMA OutTravels ==
  ASSUME SimTypeOK, OnTheirWay, NEW self \in Routers, NEW r \in Routers, NEW p \in Packets,
         InSeq(p, Out(self)[r])
  PROVE  <<self, r>> \in Links /\ Travels(<<self, r>>, p)
<1>1. <<self, r>> \in Links /\ Out(self)[r] = Due(routes[<<self, r>>])
  <2>1. ~ InSeq(p, <<>>)
    BY DEF InSeq
  <2> QED
    BY <2>1 DEF Out
<1> DEFINE c == routes[<<self, r>>]
<1>2. c \in Queues
  BY <1>1 DEF SimTypeOK
<1>3. Pkts(c) = Due(c) \o Pkts(Shifted(c)) /\ Due(c) \in Seq(Packets) /\ Pkts(Shifted(c)) \in Seq(Packets)
  BY <1>2, ShiftedIs, DueIs, PktsType
<1>4. InSeq(p, Pkts(c))
  <2> HIDE DEF c
  <2>1. InSeq(p, Due(c))
    BY <1>1 DEF c
  <2>2. InSeq(p, Due(c) \o Pkts(Shifted(c)))
    BY <1>3, <2>1, InSeqConcat
  <2> QED
    BY <1>3, <2>2
<1> QED
  BY <1>1, <1>4 DEF OnTheirWay

LEMMA RunOnTheirWay ==
  ASSUME SimInv, OnTheirWay, Run
  PROVE  OnTheirWay'
<1> DEFINE self == Head(runRouters)
           out  == Out(self)
<1>1. self \in Routers /\ out \in [Routers -> Seq(Packets)] /\ Ran(self, out)
  BY RunIs
<1>2. SimTypeOK
  BY DEF SimInv
<1> HIDE DEF self
<1> SUFFICES ASSUME NEW l \in Links, NEW p \in Packets, InSeq(p, Pkts(routes'[l]))
             PROVE  Travels(l, p)
  BY DEF OnTheirWay
<1>3. routes'[l] = IF l[1] = self THEN Shifted(routes[l]) ELSE Received(routes[l], l, out[l[1]])
  BY <1>1 DEF Ran
<1>4. routes[l] \in Queues /\ l[1] \in Routers /\ l[2] \in Routers /\ out[l[1]] \in Seq(Packets)
  BY <1>1, <1>2, LinkIs DEF SimTypeOK
<1>5. CASE InSeq(p, Pkts(routes[l]))
  BY <1>5 DEF OnTheirWay
<1>6. CASE l[1] = self
  <2>1. /\ Pkts(routes[l]) = Due(routes[l]) \o Pkts(Shifted(routes[l]))
        /\ Due(routes[l]) \in Seq(Packets) /\ Pkts(Shifted(routes[l])) \in Seq(Packets)
    BY <1>4, ShiftedIs, DueIs, PktsType
  <2>2. InSeq(p, Pkts(Shifted(routes[l])))
    BY <1>3, <1>6
  <2>3. InSeq(p, Due(routes[l]) \o Pkts(Shifted(routes[l])))
    BY <2>1, <2>2, InSeqConcat
  <2> QED
    BY <1>5, <2>1, <2>3
<1>7. CASE l[1] # self /\ ~ InSeq(p, Pkts(routes[l]))
  <2>1. InSeq(p, Pkts(Received(routes[l], l, out[l[1]])))
    BY <1>3, <1>7
  <2>2. InSeq(p, out[l[1]]) /\ IsFor(p, l)
    BY <1>4, <1>7, <2>1, ReceivedFrom
  <2>3. <<self, l[1]>> \in Links /\ Travels(<<self, l[1]>>, p)
    BY <1>1, <1>2, <1>4, <2>2, OutTravels
  <2>4. <<self, l[1]>>[2] = l[1]
    OBVIOUS
  <2> QED
    BY <2>2, <2>3, <2>4, TravelsOn
<1> QED
  BY <1>5, <1>6, <1>7

LEMMA ElapseOnTheirWay ==
  ASSUME SimTypeOK, OnTheirWay, Elapse
  PROVE  OnTheirWay'
<1>1. \A l \in Links : routes'[l] = Aged(routes[l]) /\ routes[l] \in Queues
  BY DEF SimTypeOK, Elapse, Aged
<1>2. \A l \in Links : Pkts(routes'[l]) = Pkts(routes[l])
  BY <1>1, AgedIs
<1> QED
  BY <1>2 DEF OnTheirWay

(* At every moment a packet in a queue is on the path of its own flow, and  *)
(* not yet at the path's end: no step of enQ or run puts one elsewhere.     *)
THEOREM PathsAreKept == Spec => [](SimInv /\ OnTheirWay)
<1>1. Init => SimInv /\ OnTheirWay
  BY SimInitially, OnTheirWayInitially
<1>2. SimInv /\ OnTheirWay /\ SimInv' /\ [Next]_vars => OnTheirWay'
  <2>1. SUFFICES ASSUME SimInv, OnTheirWay, [Next]_vars PROVE OnTheirWay'
    OBVIOUS
  <2>2. SimTypeOK
    BY <2>1 DEF SimInv
  <2>3. CASE \E p \in Packets : <<p.src, p.dst>> \in Flows /\ Receive(p)
    BY <2>1, <2>2, <2>3, ReceiveOnTheirWay
  <2>4. CASE Run
    BY <2>1, <2>4, RunOnTheirWay
  <2>5. CASE Elapse
    BY <2>1, <2>2, <2>5, ElapseOnTheirWay
  <2>6. CASE routes' = routes
    BY <2>1, <2>6 DEF OnTheirWay
  <2> QED
    BY <2>1, <2>3, <2>4, <2>5, <2>6 DEF Next, WakeUp, Cease, vars
<1> QED
  BY <1>1, <1>2, SimInductive, PTL DEF Spec

(***************************************************************************)
(* What a flow has in the network.                                         *)
(***************************************************************************)

Held(to, f, n) == OfFlow(Pkts(to[Hop(f, n)]), f)

WayOf(to, f) ==
  LET at == Paths[f]
      trail[n \in 0 .. Cardinality(Routers)] ==
        IF n = 0 THEN <<>>
        ELSE IF at[n - 1] = f[2] THEN trail[n - 1]
        ELSE OfFlow(Pkts(to[<<at[n - 1], at[n]>>]), f) \o trail[n - 1]
  IN  trail[Cardinality(Routers)]

TrailRuns(a, to, f) ==
  /\ a \in [0 .. Size -> Seq(Packets)] /\ a[0] = <<>>
  /\ \A n \in 1 .. Size :
       a[n] = IF Paths[f][n - 1] = f[2] THEN a[n - 1] ELSE Held(to, f, n) \o a[n - 1]
  /\ WayOf(to, f) = a[Size]

LEMMA HeldType ==
  ASSUME NEW to \in [Links -> Queues], NEW f, NEW n, Hop(f, n) \in Links
  PROVE  Held(to, f, n) \in Seq(Packets)
<1>1. Pkts(to[Hop(f, n)]) \in Seq(Packets)
  BY PktsType
<1> QED
  BY <1>1, OfFlowType DEF Held

LEMMA TrailIs ==
  ASSUME NEW to \in [Links -> Queues], NEW f \in OnMap
  PROVE  \E a : TrailRuns(a, to, f)
<1> DEFINE R          == Size
           V          == Seq(Packets)
           first      == <<>>
           next(n, x) == IF Paths[f][n - 1] = f[2] THEN x ELSE Held(to, f, n) \o x
           step       == [q \in Nat \X V |-> IF q[1] \in 1 .. R THEN next(q[1], q[2]) ELSE first]
           Of(g)      == [n \in 0 .. R |-> IF n = 0 THEN first ELSE next(n, g[n - 1])]
           after      == CHOOSE g : g = Of(g)
<1>1. R \in Nat /\ first \in V
  BY SizeIs
<1>2. ASSUME NEW n \in 1 .. R, NEW x \in V PROVE next(n, x) \in V
  <2>1. PICK d : IsPath(Paths[f], f, d)
    BY PathFound DEF HasPath
  <2>2. CASE Paths[f][n - 1] = f[2]
    BY <1>2, <2>2
  <2>3. CASE Paths[f][n - 1] # f[2]
    <3>1. n \in 1 .. d
      <4>1. n - 1 \in 0 .. Size
        BY <1>2, SizeIs
      <4>2. ~ n - 1 >= d /\ d \in 1 .. Size
        BY <2>1, <2>3, <4>1 DEF IsPath
      <4> QED
        BY <1>2, <4>1, <4>2, SizeIs
    <3>2. Hop(f, n) \in Links
      BY <2>1, <3>1, HopIs DEF IsHop
    <3>3. Held(to, f, n) \in Seq(Packets)
      BY <3>2, HeldType
    <3> QED
      BY <1>2, <2>3, <3>3
  <2> QED
    BY <2>2, <2>3
<1>3. WayOf(to, f) = after[R]
  BY DEF WayOf, Size, Held, Hop
<1> HIDE DEF next, R, V, first
<1>4. step \in [Nat \X V -> V]
  BY <1>1, <1>2
<1>5. PICK b : Runs(b, R, V, first, step)
  <2> HIDE DEF step
  <2> QED
    BY <1>1, <1>4, RunsExist
<1>6. \E g : g = Of(g)
  <2>1. ASSUME NEW n \in 1 .. R PROVE b[n] = next(n, b[n - 1])
    <3>1. n \in Nat /\ n - 1 \in 0 .. R
      BY <1>1
    <3>2. b[n] = step[<<n, b[n - 1]>>] /\ b[n - 1] \in V
      <4> HIDE DEF step
      <4> QED
        BY <1>5, <3>1 DEF Runs
    <3> QED
      BY <3>1, <3>2
  <2>2. ASSUME NEW n \in 0 .. R PROVE b[n] = IF n = 0 THEN first ELSE next(n, b[n - 1])
    <3>1. n = 0 \/ n \in 1 .. R
      BY <1>1
    <3> QED
      BY <1>5, <2>1, <3>1 DEF Runs
  <2>3. b = [n \in 0 .. R |-> b[n]]
    BY <1>5 DEF Runs
  <2>4. b = Of(b)
    BY <2>2, <2>3
  <2> QED
    BY <2>4
<1>7. after = Of(after)
  <2> HIDE DEF Of
  <2> QED
    BY <1>6
<1> HIDE DEF after
<1>8. after[0] = first
  BY <1>1, <1>7
<1>9. ASSUME NEW n \in 1 .. R PROVE after[n] = next(n, after[n - 1])
  <2>1. n \in 0 .. R /\ n # 0
    BY <1>1
  <2> QED
    BY <1>7, <2>1
<1>10. after \in [0 .. R -> V]
  <2>1. Staying(after, R, V)
    BY <1>2, <1>9 DEF Staying
  <2>2. Typed(after, R, V)
    BY <1>1, <1>8, <2>1, Stays
  <2>3. after = [n \in 0 .. R |-> after[n]]
    BY <1>7
  <2> QED
    BY <2>2, <2>3 DEF Typed
<1>11. TrailRuns(after, to, f)
  BY <1>3, <1>8, <1>9, <1>10 DEF TrailRuns, R, V, first, next
<1> QED
  BY <1>11

(* On a path of d hops.                                                    *)
IsTrail(a, to, f, d) ==
  /\ a \in [0 .. d -> Seq(Packets)] /\ a[0] = <<>>
  /\ \A n \in 1 .. d : a[n] = Held(to, f, n) \o a[n - 1] /\ Held(to, f, n) \in Seq(Packets)
  /\ WayOf(to, f) = a[d]

HasTrail(to, f, d) == \E a : IsTrail(a, to, f, d)

LEMMA TrailFound ==
  ASSUME NEW to \in [Links -> Queues], NEW f \in OnMap, NEW d, IsPath(Paths[f], f, d)
  PROVE  HasTrail(to, f, d)
<1>1. PICK b : TrailRuns(b, to, f)
  BY TrailIs
<1>2. d \in 1 .. Size /\ \A n \in 0 .. Size : Paths[f][n] = f[2] <=> n >= d
  BY DEF IsPath
<1> DEFINE S == {n \in 0 .. Size : n >= d => b[n] = b[d]}
           a == [n \in 0 .. d |-> b[n]]
<1>3. 0 \in S
  BY <1>2, SizeIs
<1>4. ASSUME NEW n \in 0 .. Size, n \in S, n < Size PROVE n + 1 \in S
  <2>1. n + 1 \in 1 .. Size /\ (n + 1) - 1 = n /\ n + 1 \in 0 .. Size
    BY <1>4, SizeIs
  <2>2. CASE n >= d
    <3>1. b[n + 1] = b[n]
      BY <1>1, <1>2, <1>4, <2>1, <2>2 DEF TrailRuns
    <3> QED
      BY <1>4, <2>1, <2>2, <3>1
  <2>3. CASE ~ n >= d
    <3>1. n + 1 >= d => n + 1 = d
      BY <1>2, <2>1, <2>3
    <3> QED
      BY <2>1, <3>1
  <2> QED
    BY <2>2, <2>3
<1>5. \A n \in 0 .. Size : n \in S
  <2> HIDE DEF S
  <2> QED
    BY <1>3, <1>4, SizeIs, Induction
<1>6. b[Size] = b[d]
  BY <1>2, <1>5, SizeIs
<1>7. \A n \in 0 .. d : n \in 0 .. Size /\ a[n] = b[n]
  BY <1>2, SizeIs
<1>8. a \in [0 .. d -> Seq(Packets)]
  BY <1>1, <1>7 DEF TrailRuns
<1>9. ASSUME NEW n \in 1 .. d
      PROVE  a[n] = Held(to, f, n) \o a[n - 1] /\ Held(to, f, n) \in Seq(Packets)
  <2>1. n \in 1 .. Size /\ n - 1 \in 0 .. d /\ n \in 0 .. d
    BY <1>2, SizeIs
  <2>2. IsHop(f, n)
    BY HopIs
  <2>3. b[n] = Held(to, f, n) \o b[n - 1]
    BY <1>1, <2>1, <2>2 DEF TrailRuns, IsHop
  <2>4. Held(to, f, n) \in Seq(Packets)
    BY <2>2, HeldType DEF IsHop
  <2>5. a[n] = b[n] /\ a[n - 1] = b[n - 1]
    BY <1>7, <2>1
  <2> HIDE DEF a
  <2> QED
    BY <2>3, <2>4, <2>5
<1>10. a[0] = <<>> /\ a[d] = b[d]
  BY <1>1, <1>2 DEF TrailRuns
<1> HIDE DEF a
<1>11. IsTrail(a, to, f, d)
  BY <1>1, <1>6, <1>8, <1>9, <1>10 DEF IsTrail, TrailRuns
<1> QED
  BY <1>11 DEF HasTrail

(***************************************************************************)
(* What leaves the way of a flow, and what is left of it.                  *)
(***************************************************************************)

(* The first packets x of a arrive, and of the others b is left.           *)
Leaves(x, a, b) == \E r \in Seq(Packets) : C!Remains(b, r) /\ a = x \o r

LEMMA SplitAt ==
  ASSUME NEW x \in Seq(Packets), NEW r \in Seq(Packets)
  PROVE  /\ Len(x) \in 0 .. Len(x \o r)
         /\ SubSeq(x \o r, 1, Len(x)) = x
         /\ SubSeq(x \o r, Len(x) + 1, Len(x \o r)) = r
<1> DEFINE a == x \o r
           m == Len(x)
           s == SubSeq(a, 1, m)
           t == SubSeq(a, m + 1, Len(a))
<1>1. /\ a \in Seq(Packets) /\ m \in Nat /\ Len(r) \in Nat /\ Len(a) = m + Len(r)
      /\ \A k \in 1 .. m : a[k] = x[k]
      /\ \A k \in 1 .. Len(r) : a[m + k] = r[k]
  OBVIOUS
<1> HIDE DEF a, m
<1>2. s \in Seq(Packets) /\ Len(s) = m /\ \A k \in 1 .. m : s[k] = a[k]
  BY <1>1
<1>3. t \in Seq(Packets) /\ Len(t) = Len(r) /\ \A k \in 1 .. Len(r) : t[k] = a[m + k]
  BY <1>1
<1> HIDE DEF s, t
<1>4. s = x
  BY <1>1, <1>2 DEF m
<1>5. t = r
  <2>1. \A k \in 1 .. Len(r) : t[k] = r[k]
    BY <1>1, <1>3
  <2> QED
    BY <1>3, <2>1
<1>6. m \in 0 .. Len(a)
  BY <1>1
<1> QED
  BY <1>4, <1>5, <1>6 DEF s, t, a, m

LEMMA LeavesMoves ==
  ASSUME NEW x \in Seq(Packets), NEW a, NEW b, Leaves(x, a, b)
  PROVE  C!Moves(a, x, b)
<1>1. PICK r \in Seq(Packets) : C!Remains(b, r) /\ a = x \o r
  BY DEF Leaves
<1>2. /\ Len(x) \in 0 .. Len(a) /\ SubSeq(a, 1, Len(x)) = x
      /\ SubSeq(a, Len(x) + 1, Len(a)) = r
  BY <1>1, SplitAt
<1>3. C!Remains(x, x)
  BY RemainsItself
<1> QED
  BY <1>1, <1>2, <1>3 DEF C!Moves

(* One queue more: x1 leaves it, y1 of what comes from the next joins it.  *)
LEMMA LeavesMore ==
  ASSUME NEW x0 \in Seq(Packets), NEW a0 \in Seq(Packets), NEW b0 \in Seq(Packets),
         NEW x1 \in Seq(Packets), NEW r1 \in Seq(Packets), NEW y1 \in Seq(Packets),
         Leaves(x0, a0, b0), C!Remains(y1, x0)
  PROVE  Leaves(x1, (x1 \o r1) \o a0, (r1 \o y1) \o b0)
<1>1. PICK r \in Seq(Packets) : C!Remains(b0, r) /\ a0 = x0 \o r
  BY DEF Leaves
<1>2. Regroups(r1, y1, b0)
  BY Regroup
<1>3. Regroups(x1, r1, a0)
  BY Regroup
<1>4. y1 \o b0 \in Seq(Packets) /\ r1 \o a0 \in Seq(Packets)
  BY JoinType
<1>5. C!Remains(y1 \o b0, a0)
  BY <1>1, RemainsConcat
<1> DEFINE yb == y1 \o b0
           ra == r1 \o a0
<1> HIDE DEF yb, ra
<1>6. C!Remains(r1 \o yb, ra)
  <2>1. C!Remains(r1, r1)
    BY RemainsItself
  <2>2. yb \in Seq(Packets) /\ C!Remains(yb, a0)
    BY <1>4, <1>5 DEF yb
  <2>3. C!Remains(r1 \o yb, r1 \o a0)
    BY <2>1, <2>2, RemainsConcat
  <2> QED
    BY <2>3 DEF ra
<1>7. /\ (r1 \o y1) \o b0 = r1 \o yb /\ (x1 \o r1) \o a0 = x1 \o ra
      /\ ra \in Seq(Packets)
  BY <1>2, <1>3, <1>4 DEF yb, ra, Regroups
<1> QED
  BY <1>6, <1>7 DEF Leaves

(* At hop n x1 leaves the queue and some of x0 joins it.                   *)
Passes(from, to, f, n, x0, x1) ==
  \E r, y \in Seq(Packets) :
    /\ Held(from, f, n) = x1 \o r /\ Held(to, f, n) = r \o y
    /\ C!Remains(y, x0)

LEMMA WayMoves ==
  ASSUME NEW from \in [Links -> Queues], NEW to \in [Links -> Queues], NEW f \in OnMap,
         NEW d, IsPath(Paths[f], f, d), NEW x \in [0 .. d -> Seq(Packets)], x[0] = <<>>,
         \A n \in 1 .. d : Passes(from, to, f, n, x[n - 1], x[n])
  PROVE  C!Moves(WayOf(from, f), x[d], WayOf(to, f))
<1>1. PICK a : IsTrail(a, from, f, d)
  BY TrailFound DEF HasTrail
<1>2. PICK b : IsTrail(b, to, f, d)
  BY TrailFound DEF HasTrail
<1>3. d \in Nat
  BY SizeIs DEF IsPath
<1> DEFINE S == {n \in 0 .. d : Leaves(x[n], a[n], b[n])}
<1>4. 0 \in S
  <2>1. a[0] = <<>> /\ b[0] = <<>>
    BY <1>1, <1>2 DEF IsTrail
  <2>2. <<>> \in Seq(Packets)
    OBVIOUS
  <2>3. C!Remains(<<>>, <<>>) /\ <<>> \o <<>> = <<>>
    BY <2>2, RemainsNone, NothingAdded
  <2>4. Leaves(<<>>, <<>>, <<>>)
    BY <2>2, <2>3 DEF Leaves
  <2> QED
    BY <1>3, <2>1, <2>4
<1>5. ASSUME NEW n \in 0 .. d, n \in S, n < d PROVE n + 1 \in S
  <2>1. n + 1 \in 1 .. d /\ (n + 1) - 1 = n /\ n + 1 \in 0 .. d
    BY <1>3, <1>5
  <2>2. PICK r, y \in Seq(Packets) :
          /\ Held(from, f, n + 1) = x[n + 1] \o r /\ Held(to, f, n + 1) = r \o y
          /\ C!Remains(y, x[n])
    <3>1. Passes(from, to, f, n + 1, x[(n + 1) - 1], x[n + 1])
      BY <2>1
    <3> QED
      BY <2>1, <3>1 DEF Passes
  <2>3. /\ a[n] \in Seq(Packets) /\ b[n] \in Seq(Packets)
        /\ a[n + 1] = Held(from, f, n + 1) \o a[n]
        /\ b[n + 1] = Held(to, f, n + 1) \o b[n]
    BY <1>1, <1>2, <2>1 DEF IsTrail
  <2>4. x[n] \in Seq(Packets) /\ x[n + 1] \in Seq(Packets)
    BY <2>1
  <2>5. Leaves(x[n], a[n], b[n])
    BY <1>5
  <2>6. Leaves(x[n + 1], (x[n + 1] \o r) \o a[n], (r \o y) \o b[n])
    BY <2>2, <2>3, <2>4, <2>5, LeavesMore
  <2>7. Leaves(x[n + 1], a[n + 1], b[n + 1])
    BY <2>2, <2>3, <2>6
  <2> QED
    BY <2>1, <2>7
<1>6. \A n \in 0 .. d : n \in S
  <2> HIDE DEF S
  <2> QED
    BY <1>3, <1>4, <1>5, Induction
<1>7. Leaves(x[d], a[d], b[d]) /\ x[d] \in Seq(Packets)
  BY <1>3, <1>6
<1>8. C!Moves(a[d], x[d], b[d])
  BY <1>7, LeavesMoves
<1> QED
  BY <1>1, <1>2, <1>8 DEF IsTrail

(* When only the first queue of the way gains w, at its end, so does the   *)
(* way.                                                                    *)
FirstGains(from, to, f, d, w) ==
  \A n \in 1 .. d : Held(to, f, n) = IF n = 1 THEN Held(from, f, n) \o w ELSE Held(from, f, n)

Grows(from, to, f, w) ==
  WayOf(from, f) \in Seq(Packets) /\ WayOf(to, f) = WayOf(from, f) \o w

LEMMA WayGrows ==
  ASSUME NEW from \in [Links -> Queues], NEW to \in [Links -> Queues], NEW f \in OnMap,
         NEW d, IsPath(Paths[f], f, d), NEW w \in Seq(Packets), FirstGains(from, to, f, d, w)
  PROVE  Grows(from, to, f, w)
<1>1. PICK a : IsTrail(a, from, f, d)
  BY TrailFound DEF HasTrail
<1>2. PICK b : IsTrail(b, to, f, d)
  BY TrailFound DEF HasTrail
<1>3. d \in Nat /\ d # 0
  BY SizeIs DEF IsPath
<1> DEFINE S == {n \in 0 .. d : n # 0 => b[n] = a[n] \o w}
<1>4. 0 \in S
  BY <1>3
<1>5. ASSUME NEW n \in 0 .. d, n \in S, n < d PROVE n + 1 \in S
  <2>1. n + 1 \in 1 .. d /\ (n + 1) - 1 = n /\ n + 1 \in 0 .. d
    BY <1>3, <1>5
  <2> DEFINE h == Held(from, f, n + 1)
  <2>2. /\ a[n] \in Seq(Packets) /\ h \in Seq(Packets) /\ a[n + 1] = h \o a[n]
        /\ b[n + 1] = Held(to, f, n + 1) \o b[n]
    BY <1>1, <1>2, <2>1 DEF IsTrail
  <2>3. Held(to, f, n + 1) = IF n = 0 THEN h \o w ELSE h
    <3>1. n + 1 = 1 <=> n = 0
      BY <1>3
    <3> QED
      BY <2>1, <3>1 DEF FirstGains
  <2> HIDE DEF h
  <2>4. CASE n = 0
    <3>1. a[n] = <<>> /\ b[n] = <<>>
      BY <1>1, <1>2, <2>4 DEF IsTrail
    <3>2. h \o <<>> = h /\ (h \o w) \o <<>> = h \o w
      BY <2>2, JoinType, NothingAdded
    <3> QED
      BY <2>1, <2>2, <2>3, <2>4, <3>1, <3>2
  <2>5. CASE n # 0
    <3>1. b[n + 1] = h \o (a[n] \o w)
      BY <1>5, <2>2, <2>3, <2>5
    <3>2. Regroups(h, a[n], w)
      BY <2>2, Regroup
    <3> QED
      BY <2>1, <2>2, <3>1, <3>2 DEF Regroups
  <2> QED
    BY <2>4, <2>5
<1>6. \A n \in 0 .. d : n \in S
  <2> HIDE DEF S
  <2> QED
    BY <1>3, <1>4, <1>5, Induction
<1>7. b[d] = a[d] \o w /\ a[d] \in Seq(Packets)
  <2>1. d \in 0 .. d
    BY <1>3
  <2>2. a[d] \in Seq(Packets)
    BY <1>1, <2>1 DEF IsTrail
  <2> QED
    BY <1>3, <1>6, <2>1, <2>2
<1> QED
  BY <1>1, <1>2, <1>7 DEF IsTrail, Grows

LEMMA WayStays ==
  ASSUME NEW from \in [Links -> Queues], NEW to \in [Links -> Queues], NEW f \in OnMap,
         \A l \in Links : OfFlow(Pkts(to[l]), f) = OfFlow(Pkts(from[l]), f)
  PROVE  WayOf(from, f) \in Seq(Packets) /\ WayOf(to, f) = WayOf(from, f)
<1>1. PICK d : IsPath(Paths[f], f, d)
  BY PathFound DEF HasPath
<1> DEFINE w == <<>>
<1>2. w \in Seq(Packets)
  OBVIOUS
<1>3. ASSUME NEW n \in 1 .. d
      PROVE  Held(to, f, n) = IF n = 1 THEN Held(from, f, n) \o w ELSE Held(from, f, n)
  <2>1. Hop(f, n) \in Links
    BY <1>1, HopIs DEF IsHop
  <2>2. Held(from, f, n) \in Seq(Packets) /\ Held(to, f, n) = Held(from, f, n)
    BY <2>1, HeldType DEF Held
  <2>3. Held(from, f, n) \o w = Held(from, f, n)
    BY <2>2, NothingAdded
  <2> QED
    BY <2>2, <2>3
<1>4. Grows(from, to, f, w)
  <2> HIDE DEF w
  <2>1. FirstGains(from, to, f, d, w)
    BY <1>3 DEF FirstGains
  <2> QED
    BY <1>1, <1>2, <2>1, WayGrows
<1> QED
  BY <1>4, NothingAdded DEF Grows

(***************************************************************************)
(* The channels of Channel, and the steps of the simulator as steps of it. *)
(***************************************************************************)

ChanOf(to) == [f \in Flows |-> IF f \in Routers \X Routers THEN WayOf(to, f) ELSE <<>>]
Chan       == [f \in Flows |-> IF f \in Routers \X Routers THEN OnItsWay(f) ELSE <<>>]

LEMMA ChanIs == Chan = ChanOf(routes) /\ Chan' = ChanOf(routes')
<1>1. \A f : OnItsWay(f) = WayOf(routes, f)
  BY DEF OnItsWay, WayOf
<1>2. \A f : OnItsWay(f)' = WayOf(routes', f)
  BY DEF OnItsWay, WayOf
<1> QED
  BY <1>1, <1>2 DEF Chan, ChanOf

LEMMA StepMoves ==
  ASSUME DOMAIN got' = Flows,
         \A f \in Flows : C!Moves(ChanOf(routes)[f], got'[f], ChanOf(routes')[f])
  PROVE  C!Next
<1>1. DOMAIN Chan' = Flows
  BY ChanIs DEF ChanOf
<1>2. \A f \in Flows : C!Moves(Chan[f], got'[f], Chan'[f])
  BY ChanIs
<1>3. C!Move
  BY <1>1, <1>2 DEF C!Move, Chan
<1> QED
  BY <1>3 DEF C!Next

LEMMA OffMap ==
  ASSUME NEW f \in Flows, f \notin OnMap
  PROVE  /\ \A to : ChanOf(to)[f] = <<>>
         /\ C!Moves(<<>>, <<>>, <<>>)
<1>1. \A to : ChanOf(to)[f] = <<>>
  BY DEF ChanOf, OnMap
<1>2. <<>> \in Seq(Packets)
  OBVIOUS
<1>3. Leaves(<<>>, <<>>, <<>>)
  BY <1>2, RemainsNone, NothingAdded DEF Leaves
<1> QED
  BY <1>1, <1>2, <1>3, LeavesMoves

LEMMA OnMapChan ==
  ASSUME NEW f \in OnMap
  PROVE  f \in Flows /\ \A to : ChanOf(to)[f] = WayOf(to, f)
  BY DEF OnMap, ChanOf

(* A step in which no packet moves.                                        *)
LEMMA QuietStep ==
  ASSUME SimTypeOK, routes' \in [Links -> Queues], got' = NoArrivals,
         \A l \in Links : Pkts(routes'[l]) = Pkts(routes[l])
  PROVE  C!Next
<1>1. DOMAIN got' = Flows /\ \A f \in Flows : got'[f] = <<>>
  BY DEF NoArrivals
<1>2. routes \in [Links -> Queues]
  BY DEF SimTypeOK
<1>3. ASSUME NEW f \in Flows PROVE C!Moves(ChanOf(routes)[f], got'[f], ChanOf(routes')[f])
  <2>1. CASE f \notin OnMap
    BY <1>1, <2>1, OffMap
  <2>2. CASE f \in OnMap
    <3> DEFINE w == WayOf(routes, f)
    <3>1. w \in Seq(Packets) /\ WayOf(routes', f) = w
      BY <1>2, <2>2, WayStays
    <3> HIDE DEF w
    <3>2. C!Remains(w, w) /\ w = <<>> \o w /\ <<>> \in Seq(Packets)
      BY <3>1, RemainsItself, NothingAdded
    <3>3. Leaves(<<>>, w, w)
      BY <3>1, <3>2 DEF Leaves
    <3>4. C!Moves(w, <<>>, w)
      BY <3>2, <3>3, LeavesMoves
    <3> QED
      BY <1>1, <2>2, <3>1, <3>4, OnMapChan DEF w
  <2> QED
    BY <2>1, <2>2
<1> QED
  BY <1>1, <1>3, StepMoves

(* What comes from self to a router of the path comes by way of the path.  *)
LEMMA NotComing ==
  ASSUME SimTypeOK, OnTheirWay, NEW self \in Routers, Out(self) \in [Routers -> Seq(Packets)],
         NEW f \in OnMap, NEW d, IsPath(Paths[f], f, d), NEW n \in 0 .. d,
         n # 0 => Paths[f][n - 1] # self
  PROVE  OfFlow(Out(self)[Paths[f][n]], f) = <<>>
<1> DEFINE r  == Paths[f][n]
           ps == Out(self)[r]
<1>1. r \in Routers /\ d \in 1 .. Size /\ \A m \in 0 .. d : m \in 0 .. Size
  <2> HIDE DEF ps
  <2>1. d \in 1 .. Size /\ Paths[f] \in [0 .. Size -> Routers]
    BY DEF IsPath
  <2>2. \A m \in 0 .. d : m \in 0 .. Size
    BY <2>1, SizeIs
  <2> QED
    BY <2>1, <2>2
<1>2. ps \in Seq(Packets)
  BY <1>1
<1>3. ASSUME NEW k \in 1 .. Len(ps), <<ps[k].src, ps[k].dst>> = f PROVE FALSE
  <2> DEFINE p == ps[k]
  <2>1. p \in Packets /\ InSeq(p, ps)
    BY <1>2 DEF InSeq
  <2> HIDE DEF r
  <2>2. Travels(<<self, r>>, p)
    BY <1>1, <2>1, OutTravels
  <2>3. f[2] = p.dst
    BY <1>3
  <2>4. PICK m \in 1 .. Size : <<self, r>> = Hop(f, m) /\ Paths[f][m - 1] # f[2]
    BY <1>3, <2>2, <2>3 DEF Travels
  <2>5. Paths[f][m - 1] = self /\ Paths[f][m] = r
    BY <2>4 DEF Hop
  <2>6. m \in 1 .. d /\ m \in 0 .. d /\ m # 0
    <3>1. m - 1 \in 0 .. Size
      BY SizeIs
    <3>2. ~ m - 1 >= d
      BY <2>4, <3>1 DEF IsPath
    <3> QED
      BY <1>1, <3>1, <3>2, SizeIs
  <2>7. m = n
    BY <2>5, <2>6 DEF IsPath, r
  <2> QED
    BY <2>5, <2>6, <2>7
<1>4. \A k \in 1 .. Len(ps) : <<ps[k].src, ps[k].dst>> # f
  BY <1>3
<1> HIDE DEF ps
<1>5. OfFlow(ps, f) = <<>>
  BY <1>2, <1>4, OfFlowEmpty
<1> QED
  BY <1>5 DEF ps, r

(* What run does at a hop of the path.                                     *)
LEMMA RunPasses ==
  ASSUME SimTypeOK, OnTheirWay, NEW self \in Routers, Out(self) \in [Routers -> Seq(Packets)],
         Ran(self, Out(self)), NEW f \in OnMap, NEW d, IsPath(Paths[f], f, d), NEW n \in 1 .. d
  PROVE  Passes(routes, routes', f, n, OfFlow(Out(self)[Paths[f][n - 1]], f),
                OfFlow(Out(self)[Paths[f][n]], f))
<1> DEFINE l   == Hop(f, n)
           c   == routes[l]
           e   == routes'[l]
           x0  == OfFlow(Out(self)[Paths[f][n - 1]], f)
           x1  == OfFlow(Out(self)[Paths[f][n]], f)
<1>1. l \in Links /\ l[1] = Paths[f][n - 1] /\ l[2] = Paths[f][n] /\ l = <<l[1], l[2]>>
  BY HopIs, LinkIs DEF IsHop
<1>2. c \in Queues /\ l[1] \in Routers /\ l[2] \in Routers
  BY <1>1, LinkIs DEF SimTypeOK
<1>3. e = IF l[1] = self THEN Shifted(c) ELSE Received(c, l, Out(self)[l[1]])
  BY <1>1 DEF Ran
<1>4. Held(routes, f, n) = OfFlow(Pkts(c), f) /\ Held(routes', f, n) = OfFlow(Pkts(e), f)
  BY DEF Held
<1>5. x0 \in Seq(Packets)
  <2>1. Out(self)[l[1]] \in Seq(Packets)
    BY <1>2
  <2> QED
    BY <1>1, <2>1, OfFlowType
<1> HIDE DEF l, c, e
<1>6. CASE l[1] = self
  <2> DEFINE s == Due(c)
             t == Pkts(e)
  <2>1. Out(self)[Paths[f][n]] = s
    BY <1>1, <1>2, <1>6 DEF Out, c
  <2>2. Pkts(c) = s \o t /\ s \in Seq(Packets) /\ e \in Queues
    BY <1>2, <1>3, <1>6, ShiftedIs, DueIs
  <2>3. t \in Seq(Packets)
    BY <2>2, PktsType
  <2> HIDE DEF s, t
  <2>4. OfBoth(s, t, f)
    BY <2>2, <2>3, OfFlowConcat
  <2>5. OfFlow(Pkts(c), f) = x1 \o OfFlow(t, f)
    BY <2>1, <2>2, <2>4 DEF OfBoth
  <2>6. OfFlow(t, f) \in Seq(Packets) /\ <<>> \in Seq(Packets)
    BY <2>3, OfFlowType
  <2>7. OfFlow(t, f) = OfFlow(t, f) \o <<>> /\ C!Remains(<<>>, x0)
    BY <1>5, <2>6, NothingAdded, RemainsNone
  <2>8. Held(routes, f, n) = x1 \o OfFlow(t, f) /\ Held(routes', f, n) = OfFlow(t, f) \o <<>>
    BY <1>4, <2>5, <2>7 DEF t
  <2> HIDE DEF x0, x1
  <2>9. Passes(routes, routes', f, n, x0, x1)
    BY <2>6, <2>7, <2>8 DEF Passes
  <2> QED
    BY <2>9 DEF x0, x1
<1>7. CASE l[1] # self
  <2>1. x1 = <<>>
    <3>1. n \in 0 .. d /\ Paths[f][n - 1] # self
      <4>1. d \in Nat
        BY SizeIs DEF IsPath
      <4> QED
        BY <1>1, <1>7, <4>1
    <3> QED
      BY <3>1, NotComing
  <2> DEFINE o == Out(self)[l[1]]
  <2>2. o \in Seq(Packets) /\ e = Received(c, l, o) /\ x0 = OfFlow(o, f)
    BY <1>1, <1>2, <1>3, <1>7
  <2> HIDE DEF o, x0, x1
  <2>3. Gains(c, e, x0, f)
    BY <1>2, <2>2, ReceivedGains
  <2>4. PICK y \in Seq(Packets) :
          OfFlow(Pkts(e), f) = OfFlow(Pkts(c), f) \o y /\ C!Remains(y, x0)
    BY <2>3 DEF Gains
  <2> DEFINE h == OfFlow(Pkts(c), f)
  <2>5. h \in Seq(Packets)
    <3>1. Pkts(c) \in Seq(Packets)
      BY <1>2, PktsType
    <3> QED
      BY <3>1, OfFlowType
  <2>6. Held(routes, f, n) = h /\ Held(routes', f, n) = h \o y
    BY <1>4, <2>4
  <2> HIDE DEF h
  <2>7. Held(routes, f, n) = x1 \o h
    BY <2>1, <2>5, <2>6, NothingAdded
  <2>8. Passes(routes, routes', f, n, x0, x1)
    BY <2>4, <2>5, <2>6, <2>7 DEF Passes
  <2> QED
    BY <2>8 DEF x0, x1
<1> QED
  BY <1>6, <1>7

LEMMA RunStep ==
  ASSUME SimInv, OnTheirWay, SimTypeOK', Run
  PROVE  C!Next
<1> DEFINE self == Head(runRouters)
           out  == Out(self)
<1>1. self \in Routers /\ out \in [Routers -> Seq(Packets)] /\ Ran(self, out)
  BY RunIs
<1>2. SimTypeOK /\ routes \in [Links -> Queues] /\ routes' \in [Links -> Queues]
  BY DEF SimInv, SimTypeOK
<1> HIDE DEF self
<1>3. \A f \in Flows : got'[f] = IF f[2] \in Routers THEN OfFlow(out[f[2]], f) ELSE <<>>
  BY <1>1 DEF Ran
<1>4. DOMAIN got' = Flows
  BY <1>1 DEF Ran
<1>5. ASSUME NEW f \in Flows PROVE C!Moves(ChanOf(routes)[f], got'[f], ChanOf(routes')[f])
  <2>1. CASE f \notin OnMap
    <3>1. got'[f] = <<>>
      <4>1. CASE f[2] \notin Routers
        BY <1>3, <4>1
      <4>2. CASE f[2] \in Routers
        <5> DEFINE r  == f[2]
                   ps == out[r]
        <5>1. ps \in Seq(Packets)
          BY <1>1, <4>2
        <5>2. ASSUME NEW k \in 1 .. Len(ps), <<ps[k].src, ps[k].dst>> = f PROVE FALSE
          <6>1. ps[k] \in Packets /\ InSeq(ps[k], ps)
            BY <5>1 DEF InSeq
          <6>2. Travels(<<self, r>>, ps[k])
            BY <1>1, <1>2, <4>2, <6>1, OutTravels
          <6> QED
            BY <2>1, <5>2, <6>2 DEF Travels
        <5>3. \A k \in 1 .. Len(ps) : <<ps[k].src, ps[k].dst>> # f
          BY <5>2
        <5> HIDE DEF ps
        <5>4. OfFlow(ps, f) = <<>>
          BY <5>1, <5>3, OfFlowEmpty
        <5> QED
          BY <1>3, <4>2, <5>4 DEF ps
      <4> QED
        BY <4>1, <4>2
    <3> QED
      BY <2>1, <3>1, OffMap
  <2>2. CASE f \in OnMap
    <3>1. PICK d : IsPath(Paths[f], f, d)
      BY <2>2, PathFound DEF HasPath
    <3>2. /\ d \in Nat /\ d # 0 /\ Paths[f] \in [0 .. Size -> Routers]
          /\ (\A n \in 0 .. d : n \in 0 .. Size) /\ Paths[f][d] = f[2]
      BY <3>1, SizeIs DEF IsPath
    <3> DEFINE x == [n \in 0 .. d |-> OfFlow(out[Paths[f][n]], f)]
    <3>3. x \in [0 .. d -> Seq(Packets)]
      <4>1. ASSUME NEW n \in 0 .. d PROVE OfFlow(out[Paths[f][n]], f) \in Seq(Packets)
        <5>1. out[Paths[f][n]] \in Seq(Packets)
          BY <1>1, <3>2
        <5> QED
          BY <5>1, OfFlowType
      <4> QED
        BY <4>1
    <3>4. x[0] = <<>>
      <4>1. 0 \in 0 .. d
        BY <3>2
      <4>2. OfFlow(out[Paths[f][0]], f) = <<>>
        BY <1>1, <1>2, <2>2, <3>1, <4>1, NotComing
      <4> QED
        BY <4>1, <4>2
    <3>5. ASSUME NEW n \in 1 .. d PROVE Passes(routes, routes', f, n, x[n - 1], x[n])
      <4>1. n \in 0 .. d /\ n - 1 \in 0 .. d
        BY <3>2
      <4>2. x[n] = OfFlow(out[Paths[f][n]], f) /\ x[n - 1] = OfFlow(out[Paths[f][n - 1]], f)
        BY <4>1
      <4>3. Passes(routes, routes', f, n, OfFlow(out[Paths[f][n - 1]], f), OfFlow(out[Paths[f][n]], f))
        BY <1>1, <1>2, <2>2, <3>1, RunPasses
      <4> QED
        BY <4>2, <4>3
    <3>6. x[d] = got'[f]
      <4>1. f[2] \in Routers /\ d \in 0 .. d
        BY <2>2, <3>2 DEF OnMap
      <4> QED
        BY <1>3, <3>2, <4>1
    <3> HIDE DEF x
    <3>7. C!Moves(WayOf(routes, f), x[d], WayOf(routes', f))
      BY <1>2, <2>2, <3>1, <3>3, <3>4, <3>5, WayMoves
    <3> QED
      BY <2>2, <3>6, <3>7, OnMapChan
  <2> QED
    BY <2>1, <2>2
<1> QED
  BY <1>4, <1>5, StepMoves

LEMMA ReceivedOne ==
  ASSUME NEW c \in Queues, NEW l, NEW p \in Packets
  PROVE  Received(c, l, <<p>>) = IF IsFor(p, l) THEN EnQ(c, p) ELSE c
<1> DEFINE ps == <<p>>
<1>1. ps \in Seq(Packets) /\ Len(ps) = 1 /\ ps[1] = p
  OBVIOUS
<1> HIDE DEF ps
<1>2. PICK a : ReceivedRuns(a, c, l, ps)
  BY <1>1, ReceivedIs
<1>3. 1 \in 1 .. Len(ps) /\ 1 - 1 = 0
  BY <1>1
<1>4. a[1] = IF IsFor(p, l) THEN EnQ(a[0], p) ELSE a[0]
  BY <1>1, <1>2, <1>3 DEF ReceivedRuns, IsFor
<1> QED
  BY <1>1, <1>2, <1>4 DEF ReceivedRuns, ps

(* What a queue has of a flow when p was received: at most p is new.       *)
Joins(c, e, p, f) ==
  \/ OfFlow(Pkts(e), f) = OfFlow(Pkts(c), f)
  \/ /\ <<p.src, p.dst>> = f
     /\ OfFlow(Pkts(e), f) = OfFlow(Pkts(c), f) \o <<p>>

LEMMA ReceivedJoins ==
  ASSUME NEW c \in Queues, NEW l, NEW p \in Packets, NEW f
  PROVE  Joins(c, Received(c, l, <<p>>), p, f)
<1> DEFINE e == Received(c, l, <<p>>)
           w == <<p>>
           s == Pkts(c)
<1>1. s \in Seq(Packets) /\ w \in Seq(Packets)
  BY PktsType
<1>2. OfFlow(w, f) = IF <<p.src, p.dst>> = f THEN w ELSE <<>>
  BY OfFlowOne
<1>3. Pkts(e) = s \/ Pkts(e) = s \o w
  <2>1. e = IF IsFor(p, l) THEN EnQ(c, p) ELSE c
    BY ReceivedOne
  <2>2. Pkts(EnQ(c, p)) = s \/ Pkts(EnQ(c, p)) = s \o w
    BY EnQIs
  <2> HIDE DEF e, s, w
  <2>3. Pkts(c) = s
    BY DEF s
  <2> QED
    BY <2>1, <2>2, <2>3
<1> HIDE DEF e, w
<1>4. OfFlow(s, f) \in Seq(Packets)
  BY <1>1, OfFlowType
<1> HIDE DEF s
<1>5. CASE Pkts(e) = s
  BY <1>5 DEF Joins, e, s, w
<1>6. CASE Pkts(e) = s \o w
  <2>1. OfBoth(s, w, f)
    BY <1>1, OfFlowConcat
  <2>2. OfFlow(Pkts(e), f) = OfFlow(s, f) \o OfFlow(w, f)
    BY <1>6, <2>1 DEF OfBoth
  <2>3. OfFlow(s, f) \o <<>> = OfFlow(s, f)
    BY <1>4, NothingAdded
  <2>4. \/ OfFlow(Pkts(e), f) = OfFlow(s, f)
        \/ <<p.src, p.dst>> = f /\ OfFlow(Pkts(e), f) = OfFlow(s, f) \o w
    BY <1>2, <2>2, <2>3
  <2> QED
    BY <2>4 DEF Joins, e, s, w
<1> QED
  BY <1>3, <1>5, <1>6

LEMMA ReceiveStep ==
  ASSUME SimTypeOK, SimTypeOK', NEW p \in Packets, <<p.src, p.dst>> \in Flows, Receive(p)
  PROVE  C!Next
<1> DEFINE f0 == <<p.src, p.dst>>
           w0 == <<p>>
<1>1. routes \in [Links -> Queues] /\ routes' \in [Links -> Queues] /\ w0 \in Seq(Packets)
  BY DEF SimTypeOK
<1>2. \A l \in Links : routes'[l] = IF l[1] = p.src THEN Received(routes[l], l, <<p>>) ELSE routes[l]
  BY DEF Receive
<1>3. f0 \in Flows /\ f0[1] = p.src
  OBVIOUS
<1>4. ASSUME NEW l \in Links, NEW f PROVE Joins(routes[l], routes'[l], p, f)
  <2>1. CASE l[1] = p.src
    BY <1>1, <1>2, <2>1, ReceivedJoins
  <2>2. CASE l[1] # p.src
    BY <1>2, <2>2 DEF Joins
  <2> QED
    BY <2>1, <2>2
<1>5. ASSUME NEW f \in Flows, f # f0 PROVE ChanOf(routes')[f] = ChanOf(routes)[f]
  <2>1. \A l \in Links : OfFlow(Pkts(routes'[l]), f) = OfFlow(Pkts(routes[l]), f)
    BY <1>4, <1>5 DEF Joins
  <2>2. CASE f \in OnMap
    BY <1>1, <2>1, <2>2, WayStays, OnMapChan
  <2>3. CASE f \notin OnMap
    BY <2>3, OffMap
  <2> QED
    BY <2>2, <2>3
<1>6. \/ ChanOf(routes')[f0] = ChanOf(routes)[f0]
      \/ ChanOf(routes')[f0] = Append(ChanOf(routes)[f0], p)
  <2>1. CASE f0 \notin OnMap
    BY <1>3, <2>1, OffMap
  <2>2. CASE f0 \in OnMap
    <3> HIDE DEF f0
    <3>1. PICK d : IsPath(Paths[f0], f0, d)
      BY <2>2, PathFound DEF HasPath
    <3>2. d \in Nat /\ 1 \in 1 .. d /\ 0 \in 0 .. d /\ Paths[f0][0] = p.src
      BY <1>3, <3>1, SizeIs DEF IsPath
    <3>3. ASSUME NEW n \in 1 .. d
          PROVE  /\ Hop(f0, n) \in Links /\ Held(routes, f0, n) \in Seq(Packets)
                 /\ n # 1 => Held(routes', f0, n) = Held(routes, f0, n)
      <4>1. IsHop(f0, n)
        BY <3>1, HopIs
      <4>2. Hop(f0, n) \in Links /\ Hop(f0, n)[1] = Paths[f0][n - 1]
        BY <4>1 DEF IsHop
      <4>3. ASSUME n # 1 PROVE Held(routes', f0, n) = Held(routes, f0, n)
        <5>1. n - 1 \in 0 .. d /\ n - 1 # 0
          BY <3>2, <4>3
        <5>2. Paths[f0][n - 1] # p.src
          BY <3>1, <3>2, <5>1 DEF IsPath
        <5> QED
          BY <1>2, <4>2, <5>2 DEF Held
      <4> QED
        BY <1>1, <4>2, <4>3, HeldType
    <3> DEFINE h == Held(routes, f0, 1)
    <3>4. h \in Seq(Packets) /\ (Held(routes', f0, 1) = h \/ Held(routes', f0, 1) = h \o w0)
      <4>1. h \in Seq(Packets) /\ Hop(f0, 1) \in Links
        BY <3>2, <3>3
      <4>2. Joins(routes[Hop(f0, 1)], routes'[Hop(f0, 1)], p, f0)
        BY <1>4, <4>1
      <4> QED
        BY <4>1, <4>2 DEF Joins, Held
    <3> HIDE DEF h, w0
    <3>5. PICK w \in {<<>>, w0} : Held(routes', f0, 1) = h \o w
      <4>1. h = h \o <<>>
        BY <3>4, NothingAdded
      <4> QED
        BY <3>4, <4>1
    <3>6. w \in Seq(Packets)
      <4>1. <<>> \in Seq(Packets)
        OBVIOUS
      <4>2. w = <<>> \/ w = w0
        OBVIOUS
      <4> QED
        BY <1>1, <4>1, <4>2
    <3>7. FirstGains(routes, routes', f0, d, w)
      BY <3>3, <3>5 DEF FirstGains, h
    <3>8. Grows(routes, routes', f0, w)
      BY <1>1, <2>2, <3>1, <3>6, <3>7, WayGrows
    <3> DEFINE y == WayOf(routes, f0)
    <3>9. y \in Seq(Packets) /\ WayOf(routes', f0) = y \o w
      BY <3>8 DEF Grows
    <3> HIDE DEF y
    <3>10. y \o <<>> = y /\ y \o w0 = Append(y, p)
      BY <3>9, NothingAdded, AppendIsConcat DEF w0
    <3>11. WayOf(routes', f0) = y \/ WayOf(routes', f0) = Append(y, p)
      BY <3>5, <3>9, <3>10
    <3> QED
      BY <2>2, <3>11, OnMapChan DEF y
  <2> QED
    BY <2>1, <2>2
<1> HIDE DEF f0
<1>7. Chan' \in {Chan, [Chan EXCEPT ![f0] = Append(@, p)]}
  <2> DEFINE new == ChanOf(routes')
             old == ChanOf(routes)
  <2>1. DOMAIN new = Flows /\ DOMAIN old = Flows /\ new = [f \in Flows |-> new[f]] /\ old = [f \in Flows |-> old[f]]
    BY DEF ChanOf
  <2>2. \A f \in Flows : f # f0 => new[f] = old[f]
    BY <1>5
  <2>3. new[f0] = old[f0] \/ new[f0] = Append(old[f0], p)
    BY <1>6
  <2> HIDE DEF new, old
  <2>4. CASE new[f0] = old[f0]
    <3>1. new = old
      BY <2>1, <2>2, <2>4
    <3> QED
      BY <3>1, ChanIs DEF new, old
  <2>5. CASE new[f0] = Append(old[f0], p)
    <3>1. new = [old EXCEPT ![f0] = Append(@, p)]
      BY <1>3, <2>1, <2>2, <2>5
    <3> QED
      BY <3>1, ChanIs DEF new, old
  <2> QED
    BY <2>3, <2>4, <2>5
<1>8. got' = [g \in Flows |-> <<>>]
  BY DEF Receive, NoArrivals
<1>9. C!Send(f0, p)
  BY <1>7, <1>8 DEF C!Send, Chan
<1> QED
  BY <1>3, <1>9 DEF C!Next

LEMMA ElapseStep ==
  ASSUME SimTypeOK, SimTypeOK', Elapse
  PROVE  C!Next
<1>1. \A l \in Links : routes'[l] = Aged(routes[l]) /\ routes[l] \in Queues
  BY DEF SimTypeOK, Elapse, Aged
<1>2. \A l \in Links : Pkts(routes'[l]) = Pkts(routes[l])
  BY <1>1, AgedIs
<1>3. routes' \in [Links -> Queues] /\ got' = NoArrivals
  BY DEF SimTypeOK, Elapse
<1> QED
  BY <1>2, <1>3, QuietStep

LEMMA StartsAsChannel == Init => C!Init
<1> SUFFICES ASSUME Init PROVE C!Init
  OBVIOUS
<1>1. SimTypeOK
  BY SimInitially DEF SimInv
<1>2. routes \in [Links -> Queues]
  BY <1>1 DEF SimTypeOK
<1>3. ASSUME NEW f \in Flows PROVE Chan[f] = <<>>
  <2>1. CASE f \notin OnMap
    BY <2>1, ChanIs, OffMap
  <2>2. CASE f \in OnMap
    <3>1. \A l \in Links : routes[l].queue = <<>>
      BY DEF Init
    <3>2. ASSUME NEW l \in Links PROVE OfFlow(Pkts(routes[l]), f) = <<>>
      <4>1. Pkts(routes[l]) \in Seq(Packets) /\ Len(Pkts(routes[l])) = 0
        BY <1>2, <3>1, PktsType
      <4>2. Pkts(routes[l]) = <<>>
        BY <4>1
      <4> QED
        BY <4>2, OfFlowNone
    <3>3. PICK d : IsPath(Paths[f], f, d)
      BY <2>2, PathFound DEF HasPath
    <3>4. PICK a : IsTrail(a, routes, f, d)
      BY <1>2, <2>2, <3>3, TrailFound DEF HasTrail
    <3>5. d \in Nat
      BY <3>3, SizeIs DEF IsPath
    <3>6. Staying(a, d, {<<>>})
      <4>1. ASSUME NEW n \in 1 .. d, a[n - 1] = <<>> PROVE a[n] = <<>>
        <5>1. IsHop(f, n)
          BY <3>3, HopIs
        <5>2. Held(routes, f, n) = <<>>
          BY <3>2, <5>1 DEF IsHop, Held
        <5>3. a[n] = Held(routes, f, n) \o a[n - 1]
          BY <3>4 DEF IsTrail
        <5> QED
          BY <4>1, <5>2, <5>3
      <4> QED
        BY <4>1 DEF Staying
    <3>7. a[0] \in {<<>>}
      BY <3>4 DEF IsTrail
    <3>8. Typed(a, d, {<<>>})
      BY <3>5, <3>6, <3>7, Stays
    <3>9. WayOf(routes, f) = <<>>
      BY <3>4, <3>5, <3>8 DEF IsTrail, Typed
    <3> QED
      BY <2>2, <3>9, ChanIs, OnMapChan
  <2> QED
    BY <2>1, <2>2
<1>4. Chan = [f \in Flows |-> <<>>]
  <2>1. Chan = [f \in Flows |-> Chan[f]]
    BY ChanIs DEF ChanOf
  <2> QED
    BY <1>3, <2>1
<1>5. got = [f \in Flows |-> <<>>]
  BY DEF Init, NoArrivals
<1> QED
  BY <1>4, <1>5 DEF C!Init, Chan

LEMMA ChannelStep ==
  ASSUME SimInv, OnTheirWay, SimInv', [Next]_vars
  PROVE  [C!Next]_(C!vars)
<1>1. SimTypeOK /\ SimTypeOK'
  BY DEF SimInv
<1>2. CASE \E p \in Packets : <<p.src, p.dst>> \in Flows /\ Receive(p)
  BY <1>1, <1>2, ReceiveStep
<1>3. CASE Run
  BY <1>1, <1>3, RunStep
<1>4. CASE Elapse
  BY <1>1, <1>4, ElapseStep
<1>5. CASE WakeUp \/ Cease
  <2>1. routes' = routes /\ got' = NoArrivals
    BY <1>5 DEF WakeUp, Cease
  <2>2. routes' \in [Links -> Queues]
    BY <1>1 DEF SimTypeOK
  <2> QED
    BY <1>1, <2>1, <2>2, QuietStep
<1>6. CASE UNCHANGED vars
  <2>1. routes' = routes /\ got' = got
    BY <1>6 DEF vars
  <2>2. Chan' = Chan
    BY <2>1, ChanIs
  <2> QED
    BY <2>1, <2>2 DEF C!vars, Chan
<1> QED
  BY <1>2, <1>3, <1>4, <1>5, <1>6 DEF Next

(* Whatever the map, the flows and the delays: the network of queues is    *)
(* for each flow a channel that may lose what it carries, but neither      *)
(* reorders nor repeats it.                                                *)
THEOREM ChannelRefinement == Spec => ImplementsChannel
<1>1. Init => C!Init
  BY StartsAsChannel
<1>2. SimInv /\ OnTheirWay /\ SimInv' /\ [Next]_vars => [C!Next]_(C!vars)
  BY ChannelStep
<1> QED
  BY <1>1, <1>2, PathsAreKept, PTL DEF Spec, C!Spec, ImplementsChannel

(***************************************************************************)
(* Counting places.                                                        *)
(***************************************************************************)

SameCard(S, T) == IsFiniteSet(S) /\ IsFiniteSet(T) /\ Cardinality(S) = Cardinality(T)

(* The places of A, one set of numbers for each of I.                      *)
PlacesOf(I, A) == {x \in I \X Nat : x[2] \in A[x[1]]}

LEMMA BijectionIs ==
  ASSUME NEW S, NEW T, NEW m \in [S -> T],
         \A x, y \in S : m[x] = m[y] => x = y, \A y \in T : \E x \in S : m[x] = y
  PROVE  ExistsBijection(S, T)
<1>1. IsInjective(m)
  BY DEF IsInjective
<1> QED
  BY <1>1 DEF ExistsBijection, Bijection, Injection, Surjection

LEMMA InjectionBounds ==
  ASSUME NEW S, NEW T, IsFiniteSet(T), NEW m \in [S -> T], \A x, y \in S : m[x] = m[y] => x = y
  PROVE  IsFiniteSet(S) /\ Cardinality(S) <= Cardinality(T)
<1>1. IsInjective(m)
  BY DEF IsInjective
<1>2. m \in Injection(S, T)
  BY <1>1 DEF Injection
<1> QED
  BY <1>2, FS_Injection

(* Sets of numbers that are as large one by one are so together.           *)
LEMMA Glue ==
  ASSUME NEW I, NEW A \in [I -> SUBSET Nat], NEW B \in [I -> SUBSET Nat],
         \A i \in I : SameCard(A[i], B[i])
  PROVE  ExistsBijection(PlacesOf(I, A), PlacesOf(I, B))
<1> DEFINE S == PlacesOf(I, A)
           T == PlacesOf(I, B)
           h == [i \in I |-> CHOOSE g : g \in Bijection(A[i], B[i])]
           m == [x \in S |-> <<x[1], h[x[1]][x[2]]>>]
<1>1. \A i \in I : h[i] \in Bijection(A[i], B[i])
  <2> TAKE i \in I
  <2>1. Bijection(A[i], B[i]) # {}
    BY FS_SameCardinalityBij DEF SameCard, ExistsBijection
  <2> QED
    BY <2>1
<1> HIDE DEF h
<1>2. ASSUME NEW i \in I
      PROVE  /\ h[i] \in [A[i] -> B[i]]
             /\ \A j, k \in A[i] : h[i][j] = h[i][k] => j = k
             /\ \A j \in B[i] : \E k \in A[i] : h[i][k] = j
  BY <1>1 DEF Bijection, Injection, Surjection, IsInjective
<1>3. \A x \in S : x = <<x[1], x[2]>> /\ x[1] \in I /\ x[2] \in A[x[1]]
  BY DEF PlacesOf
<1>4. \A i \in I : \A k \in B[i] : <<i, k>> \in T
  BY DEF PlacesOf
<1>5. m \in [S -> T]
  BY <1>2, <1>3, <1>4
<1>6. \A x \in S : m[x] = <<x[1], h[x[1]][x[2]]>>
  OBVIOUS
<1> HIDE DEF m
<1>7. ASSUME NEW x \in S, NEW y \in S, m[x] = m[y] PROVE x = y
  <2>1. x[1] = y[1] /\ h[x[1]][x[2]] = h[y[1]][y[2]]
    BY <1>6, <1>7
  <2>2. x[2] = y[2]
    BY <1>2, <1>3, <2>1
  <2> QED
    BY <1>3, <2>1, <2>2
<1>8. ASSUME NEW y \in T PROVE \E x \in S : m[x] = y
  <2>1. y = <<y[1], y[2]>> /\ y[1] \in I /\ y[2] \in B[y[1]]
    BY DEF PlacesOf
  <2>2. PICK k \in A[y[1]] : h[y[1]][k] = y[2]
    BY <1>2, <2>1
  <2>3. <<y[1], k>> \in S
    BY <2>1, <2>2 DEF PlacesOf
  <2> QED
    BY <1>6, <2>1, <2>2, <2>3
<1> HIDE DEF S, T
<1> QED
  BY <1>5, <1>7, <1>8, BijectionIs DEF S, T

LEMMA AsMany ==
  ASSUME NEW S, NEW T, NEW U, IsFiniteSet(T), ExistsBijection(S, T), ExistsBijection(S, U)
  PROVE  IsFiniteSet(U) /\ Cardinality(U) = Cardinality(T)
<1>1. ExistsBijection(T, S)
  BY Fun_ExistsBijSymmetric
<1>2. IsFiniteSet(S) /\ Cardinality(S) = Cardinality(T)
  BY <1>1, FS_Bijection
<1> QED
  BY <1>2, FS_Bijection

(* How many numbers up to n are of a kind.                                 *)
LEMMA OneMore ==
  ASSUME NEW T \in SUBSET Nat, NEW n \in Nat
  PROVE  /\ IsFiniteSet(T \cap (1 .. n)) /\ Cardinality(T \cap (1 .. n)) \in Nat
         /\ Cardinality(T \cap (1 .. n + 1)) =
              Cardinality(T \cap (1 .. n)) + IF n + 1 \in T THEN 1 ELSE 0
<1> DEFINE U == T \cap (1 .. n)
           V == T \cap (1 .. n + 1)
<1>1. IsFiniteSet(1 .. n)
  BY FS_Interval
<1>2. IsFiniteSet(U) /\ Cardinality(U) \in Nat
  BY <1>1, FS_Subset, FS_CardinalityType
<1>3. V = IF n + 1 \in T THEN U \cup {n + 1} ELSE U
  OBVIOUS
<1>4. n + 1 \notin U
  OBVIOUS
<1> HIDE DEF U, V
<1>5. Cardinality(V) = Cardinality(U) + IF n + 1 \in T THEN 1 ELSE 0
  BY <1>2, <1>3, <1>4, FS_AddElement
<1> QED
  BY <1>2, <1>5 DEF U, V

LEMMA NoneUpToNone == ASSUME NEW T \in SUBSET Nat PROVE Cardinality(T \cap (1 .. 0)) = 0
<1>1. T \cap (1 .. 0) = {}
  OBVIOUS
<1> QED
  BY <1>1, FS_EmptySet

(* Where the packets of a flow are, and those that go to a link.           *)
WhereOf(ps, f)  == {n \in 1 .. Len(ps) : <<ps[n].src, ps[n].dst>> = f}
WhereFor(ps, l) == {n \in 1 .. Len(ps) : IsFor(ps[n], l)}

LEMMA WhereIs ==
  ASSUME NEW ps \in Seq(Packets), NEW T, T \subseteq 1 .. Len(ps)
  PROVE  /\ T \in SUBSET Nat /\ IsFiniteSet(T) /\ Cardinality(T) \in Nat
         /\ T \cap (1 .. Len(ps)) = T
<1>1. IsFiniteSet(1 .. Len(ps)) /\ Len(ps) \in Nat
  BY FS_Interval
<1>2. T \in SUBSET Nat /\ T \cap (1 .. Len(ps)) = T
  <2>1. 1 .. Len(ps) \in SUBSET Nat
    BY <1>1
  <2> QED
    BY <2>1
<1>3. IsFiniteSet(T)
  BY <1>1, FS_Subset
<1> QED
  BY <1>2, <1>3, FS_CardinalityType

LEMMA OfFlowCounts ==
  ASSUME NEW ps \in Seq(Packets), NEW f
  PROVE  Len(OfFlow(ps, f)) = Cardinality(WhereOf(ps, f))
<1> DEFINE T == WhereOf(ps, f)
<1>1. PICK a : OfFlowRuns(a, ps, f)
  BY OfFlowIs
<1>2. T \in SUBSET Nat /\ T \cap (1 .. Len(ps)) = T /\ Len(ps) \in Nat
  BY WhereIs DEF WhereOf
<1>3. \A n \in 1 .. Len(ps) : n \in T <=> <<ps[n].src, ps[n].dst>> = f
  BY DEF WhereOf
<1> HIDE DEF T
<1> DEFINE S == {n \in 0 .. Len(ps) : Len(a[n]) = Cardinality(T \cap (1 .. n))}
<1>4. 0 \in S
  <2>1. Len(a[0]) = 0 /\ Cardinality(T \cap (1 .. 0)) = 0
    BY <1>1, <1>2, NoneUpToNone DEF OfFlowRuns
  <2> QED
    BY <1>2, <2>1
<1>5. ASSUME NEW n \in 0 .. Len(ps), n \in S, n < Len(ps) PROVE n + 1 \in S
  <2>1. n + 1 \in 1 .. Len(ps) /\ (n + 1) - 1 = n /\ n + 1 \in 0 .. Len(ps) /\ n \in Nat
    BY <1>2, <1>5
  <2>2. /\ a[n] \in Seq(Packets) /\ ps[n + 1] \in Packets
        /\ a[n + 1] = IF n + 1 \in T THEN Append(a[n], ps[n + 1]) ELSE a[n]
    BY <1>1, <1>3, <2>1 DEF OfFlowRuns
  <2>3. Len(a[n + 1]) = Len(a[n]) + IF n + 1 \in T THEN 1 ELSE 0
    <3> DEFINE s == a[n]
               t == a[n + 1]
    <3>1. s \in Seq(Packets) /\ (n + 1 \in T => t = Append(s, ps[n + 1])) /\ (n + 1 \notin T => t = s)
      BY <2>2
    <3> HIDE DEF s, t
    <3>2. Len(Append(s, ps[n + 1])) = Len(s) + 1 /\ Len(s) \in Nat
      BY <2>2, <3>1
    <3>3. Len(t) = Len(s) + IF n + 1 \in T THEN 1 ELSE 0
      BY <3>1, <3>2
    <3> QED
      BY <3>3 DEF s, t
  <2>4. Cardinality(T \cap (1 .. n + 1)) = Cardinality(T \cap (1 .. n)) + IF n + 1 \in T THEN 1 ELSE 0
    BY <1>2, <2>1, OneMore
  <2>5. Len(a[n + 1]) = Cardinality(T \cap (1 .. n + 1))
    BY <1>5, <2>3, <2>4
  <2> QED
    BY <2>1, <2>5
<1>6. \A n \in 0 .. Len(ps) : n \in S
  <2> HIDE DEF S
  <2> QED
    BY <1>2, <1>4, <1>5, Induction
<1>7. Len(a[Len(ps)]) = Cardinality(T)
  BY <1>2, <1>6
<1> QED
  BY <1>1, <1>7 DEF OfFlowRuns, T

(* A queue with room for all that is for its link gets all of it.          *)
LEMMA ReceivedCounts ==
  ASSUME NEW c \in Queues, NEW l, NEW ps \in Seq(Packets),
         Len(c.queue) + Cardinality(WhereFor(ps, l)) <= QueueMax
  PROVE  Len(Received(c, l, ps).queue) = Len(c.queue) + Cardinality(WhereFor(ps, l))
<1> DEFINE T    == WhereFor(ps, l)
           U(n) == Cardinality(T \cap (1 .. n))
           b    == Len(c.queue)
<1>1. PICK a : ReceivedRuns(a, c, l, ps)
  BY ReceivedIs
<1>2. T \in SUBSET Nat /\ IsFiniteSet(T) /\ Cardinality(T) \in Nat /\ T \cap (1 .. Len(ps)) = T /\ Len(ps) \in Nat
  BY WhereIs DEF WhereFor
<1>3. \A n \in 1 .. Len(ps) : n \in T <=> IsFor(ps[n], l)
  BY DEF WhereFor
<1>4. b \in Nat /\ b + Cardinality(T) <= QueueMax /\ QueueMax \in Nat
  <2>1. c.queue \in Seq(Entries)
    BY DEF Queues
  <2> QED
    BY <2>1, HupSimAssumption
<1> HIDE DEF T, b
<1> DEFINE S == {n \in 0 .. Len(ps) : Len(a[n].queue) = b + U(n)}
<1>5. 0 \in S
  <2>1. Len(a[0].queue) = b /\ U(0) = 0
    BY <1>1, <1>2, NoneUpToNone DEF ReceivedRuns, b
  <2> QED
    BY <1>2, <1>4, <2>1
<1>6. ASSUME NEW n \in 0 .. Len(ps), n \in S, n < Len(ps) PROVE n + 1 \in S
  <2> DEFINE p == ps[n + 1]
  <2>1. n + 1 \in 1 .. Len(ps) /\ (n + 1) - 1 = n /\ n + 1 \in 0 .. Len(ps) /\ n \in Nat /\ p \in Packets
    BY <1>2, <1>6
  <2>2. /\ a[n] \in Queues /\ a[n + 1] \in Queues
        /\ a[n + 1] = IF n + 1 \in T THEN EnQ(a[n], p) ELSE a[n]
    BY <1>1, <1>3, <2>1 DEF ReceivedRuns, IsFor
  <2> HIDE DEF p
  <2>3. U(n) \in Nat /\ U(n + 1) = U(n) + (IF n + 1 \in T THEN 1 ELSE 0)
    BY <1>2, <2>1, OneMore
  <2>4. U(n + 1) <= Cardinality(T)
    BY <1>2, FS_Subset
  <2>5. Len(a[n].queue) = b + U(n)
    BY <1>6
  <2> HIDE DEF U
  <2>6. CASE n + 1 \in T
    <3>1. ~ IsFull(a[n])
      BY <1>2, <1>4, <2>3, <2>4, <2>5, <2>6 DEF IsFull
    <3>2. Pkts(a[n + 1]) = Pkts(a[n]) \o <<p>>
      BY <2>1, <2>2, <2>6, <3>1, EnQIs
    <3>3. /\ Pkts(a[n]) \in Seq(Packets) /\ Len(Pkts(a[n])) = Len(a[n].queue)
          /\ Len(Pkts(a[n + 1])) = Len(a[n + 1].queue)
      BY <2>2, PktsType
    <3>4. Len(a[n + 1].queue) = Len(a[n].queue) + 1
      <4> DEFINE s == Pkts(a[n])
      <4>1. s \in Seq(Packets) /\ Len(a[n + 1].queue) = Len(s \o <<p>>) /\ Len(a[n].queue) = Len(s)
        BY <3>2, <3>3
      <4> HIDE DEF s
      <4>2. Len(s \o <<p>>) = Len(s) + 1
        BY <2>1, <4>1
      <4> QED
        BY <4>1, <4>2
    <3>5. Len(a[n + 1].queue) = b + U(n + 1)
      BY <1>4, <2>3, <2>5, <2>6, <3>4
    <3> QED
      BY <2>1, <3>5
  <2>7. CASE n + 1 \notin T
    <3>1. Len(a[n + 1].queue) = b + U(n + 1)
      BY <1>4, <2>2, <2>3, <2>5, <2>7
    <3> QED
      BY <2>1, <3>1
  <2> QED
    BY <2>6, <2>7
<1>7. \A n \in 0 .. Len(ps) : n \in S
  <2> HIDE DEF S
  <2> QED
    BY <1>2, <1>5, <1>6, Induction
<1>8. Len(a[Len(ps)].queue) = b + Cardinality(T)
  <2>1. Len(a[Len(ps)].queue) = b + U(Len(ps))
    BY <1>2, <1>7
  <2> QED
    BY <1>2, <2>1
<1> QED
  BY <1>1, <1>8 DEF ReceivedRuns, T, b

(***************************************************************************)
(* Light traffic.                                                          *)
(***************************************************************************)

(* No link on the path of a packet leads back to where it comes from.      *)
LEMMA TravelsAway ==
  ASSUME NEW l, NEW p, Travels(l, p)
  PROVE  l[1] # l[2]
<1> DEFINE f == <<p.src, p.dst>>
<1>1. f \in OnMap /\ f[2] = p.dst
  BY DEF Travels
<1>2. PICK n \in 1 .. Size : l = Hop(f, n) /\ Paths[f][n - 1] # p.dst
  BY DEF Travels
<1> HIDE DEF f
<1>3. PICK d : IsPath(Paths[f], f, d)
  BY <1>1, PathFound DEF HasPath
<1>4. n - 1 \in 0 .. Size /\ ~ n - 1 >= d /\ d \in 1 .. Size
  BY <1>1, <1>2, <1>3, SizeIs DEF IsPath
<1>5. n - 1 \in 0 .. d /\ n \in 0 .. d /\ n - 1 # n
  BY <1>4, SizeIs
<1>6. Paths[f][n - 1] # Paths[f][n]
  BY <1>3, <1>5 DEF IsPath
<1> QED
  BY <1>2, <1>6 DEF Hop

(* The places that are taken in the queues.                                *)
Places(to) == {x \in Links \X (1 .. QueueMax) : x[2] \in DOMAIN to[x[1]].queue}
Taken(to)  == [l \in Links |-> 1 .. Len(to[l].queue)]

LEMMA PlacesAre ==
  ASSUME NEW to \in [Links -> Queues]
  PROVE  /\ Places(to) = PlacesOf(Links, Taken(to)) /\ IsFiniteSet(Places(to))
         /\ Taken(to) \in [Links -> SUBSET Nat]
<1>1. \A l \in Links : Len(to[l].queue) \in 0 .. QueueMax /\ DOMAIN to[l].queue = 1 .. Len(to[l].queue)
  <2> TAKE l \in Links
  <2>1. to[l].queue \in Seq(Entries) /\ Len(to[l].queue) <= QueueMax
    BY DEF Queues
  <2> QED
    BY <2>1, HupSimAssumption
<1>2. QueueMax \in Nat
  BY HupSimAssumption
<1>3. ASSUME NEW x PROVE x \in Places(to) <=> x \in PlacesOf(Links, Taken(to))
  <2>1. CASE x \in Links \X Nat
    <3>1. x[1] \in Links /\ x[2] \in Nat /\ x = <<x[1], x[2]>>
      BY <2>1
    <3>2. x \in Links \X (1 .. QueueMax) <=> x[2] \in 1 .. QueueMax
      BY <2>1
    <3>3. Taken(to)[x[1]] = 1 .. Len(to[x[1]].queue)
      BY <3>1 DEF Taken
    <3>4. x \in PlacesOf(Links, Taken(to)) <=> x[2] \in 1 .. Len(to[x[1]].queue)
      BY <2>1, <3>3 DEF PlacesOf
    <3>5. x \in Places(to) <=> x[2] \in 1 .. QueueMax /\ x[2] \in 1 .. Len(to[x[1]].queue)
      BY <1>1, <3>1, <3>2 DEF Places
    <3>6. x[2] \in 1 .. Len(to[x[1]].queue) => x[2] \in 1 .. QueueMax
      BY <1>1, <1>2, <3>1
    <3> QED
      BY <3>4, <3>5, <3>6
  <2>2. CASE x \notin Links \X Nat
    BY <1>2, <2>2 DEF Places, PlacesOf
  <2> QED
    BY <2>1, <2>2
<1>4. IsFiniteSet(Links)
  <2>1. IsFiniteSet(Routers \X Routers)
    BY RoutersAssumption, FS_Product
  <2> QED
    BY <2>1, HupSimAssumption, FS_Subset
<1>5. IsFiniteSet(Places(to))
  <2>1. IsFiniteSet(1 .. QueueMax)
    BY <1>2, FS_Interval
  <2>2. IsFiniteSet(Links \X (1 .. QueueMax))
    BY <1>4, <2>1, FS_Product
  <2>3. Places(to) \in SUBSET (Links \X (1 .. QueueMax))
    BY DEF Places
  <2> HIDE DEF Places
  <2> QED
    BY <2>2, <2>3, FS_Subset
<1>6. \A l \in Links : 1 .. Len(to[l].queue) \in SUBSET Nat
  BY <1>1
<1> QED
  BY <1>3, <1>5, <1>6 DEF Taken

(* What the router that runs hands on: places from which the packets go on *)
(* to a link of the next router, and those from which they arrive.         *)
DueOn(self)     == {x \in Places(routes) : x[1][1] = self /\ x[2] <= DueCount(routes[x[1]])}
PacketAt(x)     == routes[x[1]].queue[x[2]].pkt
GoOn(self)      == {x \in DueOn(self) : PassesOn(x[1][2], PacketAt(x))}
Arrive(self)    == {x \in DueOn(self) : ~ PassesOn(x[1][2], PacketAt(x))}
StayOn(self)    == Places(routes) \ DueOn(self)

(* For each link which of the packets handed to its router are for it, and *)
(* for each flow which arrive.                                             *)
ForLink(self) ==
  [l \in Links |-> IF l[1] = self THEN {} ELSE WhereFor(Out(self)[l[1]], l)]
ForFlow(self) ==
  [f \in Flows |-> IF f[2] \in Routers THEN WhereOf(Out(self)[f[2]], f) ELSE {}]

LEMMA OutType == ASSUME SimTypeOK, NEW self, NEW r \in Routers PROVE Out(self)[r] \in Seq(Packets)
<1>1. CASE <<self, r>> \in Links
  <2>1. routes[<<self, r>>] \in Queues
    BY <1>1 DEF SimTypeOK
  <2> QED
    BY <1>1, <2>1, DueIs DEF Out
<1>2. CASE <<self, r>> \notin Links
  BY <1>2 DEF Out
<1> QED
  BY <1>1, <1>2

(* What is handed over to r comes from the queue to it.                    *)
HandedOver(self, r, k) ==
  /\ <<self, r>> \in Links /\ <<<<self, r>>, k>> \in DueOn(self)
  /\ Out(self)[r][k] = PacketAt(<<<<self, r>>, k>>)
  /\ Out(self)[r][k] \in Packets /\ Travels(<<self, r>>, Out(self)[r][k])

LEMMA OutIs ==
  ASSUME SimTypeOK, OnTheirWay, NEW self \in Routers, NEW r \in Routers, NEW k \in 1 .. Len(Out(self)[r])
  PROVE  HandedOver(self, r, k)
<1> DEFINE c == routes[<<self, r>>]
           x == <<<<self, r>>, k>>
<1>1. <<self, r>> \in Links /\ Out(self)[r] = Due(c)
  <2>1. Len(<<>>) = 0 /\ 1 .. 0 = {}
    OBVIOUS
  <2> QED
    BY <2>1 DEF Out
<1>2. c \in Queues
  BY <1>1 DEF SimTypeOK
<1>3. /\ DueCount(c) \in 0 .. Len(c.queue) /\ Due(c) \in Seq(Packets) /\ Len(Due(c)) = DueCount(c)
      /\ \A i \in 1 .. DueCount(c) : Due(c)[i] = c.queue[i].pkt
  BY <1>2, DueIs
<1>4. c.queue \in Seq(Entries) /\ Len(c.queue) <= QueueMax /\ QueueMax \in Nat
  BY <1>2, HupSimAssumption DEF Queues
<1> HIDE DEF c
<1>5. k \in 1 .. DueCount(c) /\ k \in 1 .. Len(c.queue) /\ k \in 1 .. QueueMax /\ k <= DueCount(c)
  BY <1>1, <1>3, <1>4
<1>6. Out(self)[r][k] = c.queue[k].pkt /\ Out(self)[r][k] \in Packets
  <2>1. Due(c)[k] \in Packets
    BY <1>3, <1>5
  <2> QED
    BY <1>1, <1>3, <1>5, <2>1
<1>7. x[1] = <<self, r>> /\ x[1][1] = self /\ x[2] = k /\ routes[x[1]] = c
  BY DEF c
<1>8. x \in Places(routes)
  <2>1. k \in DOMAIN c.queue
    BY <1>4, <1>5
  <2>2. x \in Links \X (1 .. QueueMax)
    BY <1>1, <1>5
  <2> HIDE DEF x
  <2> QED
    BY <1>7, <2>1, <2>2 DEF Places
<1>9. InSeq(Out(self)[r][k], Out(self)[r])
  BY DEF InSeq
<1>10. Travels(<<self, r>>, Out(self)[r][k])
  BY <1>6, <1>9, OutTravels
<1>11. x \in DueOn(self) /\ PacketAt(x) = c.queue[k].pkt
  <2> HIDE DEF x
  <2> QED
    BY <1>5, <1>7, <1>8 DEF DueOn, PacketAt
<1> QED
  BY <1>1, <1>6, <1>10, <1>11 DEF HandedOver

(* And all that is due is handed over.                                     *)
LEMMA DueIsOut ==
  ASSUME SimTypeOK, OnTheirWay, NEW self \in Routers, NEW x \in DueOn(self)
  PROVE  /\ x = <<<<self, x[1][2]>>, x[2]>> /\ x[1][2] \in Routers
         /\ x[2] \in 1 .. Len(Out(self)[x[1][2]])
<1>1. x[1] \in Links /\ x[2] \in Nat /\ x = <<x[1], x[2]>> /\ x[1][1] = self
      /\ x[2] \in 1 .. QueueMax /\ x[2] <= DueCount(routes[x[1]])
  BY HupSimAssumption DEF DueOn, Places
<1>2. x[1] = <<self, x[1][2]>> /\ x[1][2] \in Routers
  BY <1>1, LinkIs
<1>3. Out(self)[x[1][2]] = Due(routes[x[1]])
  BY <1>1, <1>2 DEF Out
<1>4. routes[x[1]] \in Queues
  BY <1>1 DEF SimTypeOK
<1>5. Len(Due(routes[x[1]])) = DueCount(routes[x[1]]) /\ DueCount(routes[x[1]]) \in Int
  BY <1>4, DueIs
<1> QED
  BY <1>1, <1>2, <1>3, <1>5

LEMMA OutIsFunction == ASSUME SimTypeOK, NEW self PROVE Out(self) \in [Routers -> Seq(Packets)]
<1>1. Out(self) = [r \in Routers |-> Out(self)[r]]
  BY DEF Out
<1> QED
  BY <1>1, OutType

LEMMA OutFits ==
  ASSUME SimTypeOK, NEW self, NEW r \in Routers
  PROVE  Len(Out(self)[r]) <= QueueMax
<1>1. CASE <<self, r>> \in Links
  <2> DEFINE c == routes[<<self, r>>]
  <2>1. c \in Queues /\ Out(self)[r] = Due(c)
    BY <1>1 DEF SimTypeOK, Out
  <2> HIDE DEF c
  <2>2. /\ Len(Due(c)) = DueCount(c) /\ DueCount(c) \in 0 .. Len(c.queue)
        /\ c.queue \in Seq(Entries) /\ Len(c.queue) <= QueueMax
    BY <2>1, DueIs DEF Queues
  <2> QED
    BY <2>1, <2>2, HupSimAssumption
<1>2. CASE <<self, r>> \notin Links
  <2>1. Out(self)[r] = <<>> /\ Len(<<>>) = 0
    BY <1>2 DEF Out
  <2> QED
    BY <2>1, HupSimAssumption
<1> QED
  BY <1>1, <1>2

LEMMA ForLinkIs ==
  ASSUME SimTypeOK, NEW self \in Routers
  PROVE  /\ ForLink(self) \in [Links -> SUBSET Nat]
         /\ \A l \in Links : IsFiniteSet(ForLink(self)[l]) /\ Cardinality(ForLink(self)[l]) \in Nat
         /\ \A l \in Links : l[1] # self => ForLink(self)[l] = WhereFor(Out(self)[l[1]], l)
<1>1. ASSUME NEW l \in Links
      PROVE  /\ ForLink(self)[l] \in SUBSET Nat /\ IsFiniteSet(ForLink(self)[l])
             /\ Cardinality(ForLink(self)[l]) \in Nat
  <2>1. CASE l[1] = self
    BY <2>1, FS_EmptySet DEF ForLink
  <2>2. CASE l[1] # self
    <3>1. Out(self)[l[1]] \in Seq(Packets)
      BY LinkIs, OutType
    <3>2. WhereFor(Out(self)[l[1]], l) \subseteq 1 .. Len(Out(self)[l[1]])
      BY DEF WhereFor
    <3>3. ForLink(self)[l] = WhereFor(Out(self)[l[1]], l)
      BY <2>2 DEF ForLink
    <3> QED
      BY <3>1, <3>2, <3>3, WhereIs
  <2> QED
    BY <2>1, <2>2
<1>2. \A l \in Links : l[1] # self => ForLink(self)[l] = WhereFor(Out(self)[l[1]], l)
  BY DEF ForLink
<1>3. ForLink(self) = [l \in Links |-> ForLink(self)[l]]
  BY DEF ForLink
<1> QED
  BY <1>1, <1>2, <1>3

LEMMA ForFlowIs ==
  ASSUME SimTypeOK, NEW self \in Routers
  PROVE  /\ ForFlow(self) \in [Flows -> SUBSET Nat]
         /\ \A f \in Flows : IsFiniteSet(ForFlow(self)[f])
         /\ \A f \in Flows : f[2] \in Routers => ForFlow(self)[f] = WhereOf(Out(self)[f[2]], f)
<1>1. ASSUME NEW f \in Flows
      PROVE  ForFlow(self)[f] \in SUBSET Nat /\ IsFiniteSet(ForFlow(self)[f])
  <2>1. CASE f[2] \notin Routers
    BY <2>1, FS_EmptySet DEF ForFlow
  <2>2. CASE f[2] \in Routers
    <3>1. Out(self)[f[2]] \in Seq(Packets)
      BY <2>2, OutType
    <3>2. WhereOf(Out(self)[f[2]], f) \subseteq 1 .. Len(Out(self)[f[2]])
      BY DEF WhereOf
    <3>3. ForFlow(self)[f] = WhereOf(Out(self)[f[2]], f)
      BY <2>2 DEF ForFlow
    <3> QED
      BY <3>1, <3>2, <3>3, WhereIs
  <2> QED
    BY <2>1, <2>2
<1>2. \A f \in Flows : f[2] \in Routers => ForFlow(self)[f] = WhereOf(Out(self)[f[2]], f)
  BY DEF ForFlow
<1>3. ForFlow(self) = [f \in Flows |-> ForFlow(self)[f]]
  BY DEF ForFlow
<1> QED
  BY <1>1, <1>2, <1>3

(* Each packet that goes on is for exactly one link.                       *)
LEMMA GoOnCounts ==
  ASSUME SimTypeOK, OnTheirWay, NEW self \in Routers
  PROVE  ExistsBijection(PlacesOf(Links, ForLink(self)), GoOn(self))
<1> DEFINE S == PlacesOf(Links, ForLink(self))
           T == GoOn(self)
           m == [x \in S |-> <<<<self, x[1][1]>>, x[2]>>]
<1>1. ASSUME NEW x \in S
      PROVE  /\ x = <<x[1], x[2]>> /\ x[1] \in Links /\ x[1] = <<x[1][1], x[1][2]>>
             /\ x[1][1] \in Routers
             /\ x[2] \in 1 .. Len(Out(self)[x[1][1]]) /\ IsFor(Out(self)[x[1][1]][x[2]], x[1])
  <2>1. x = <<x[1], x[2]>> /\ x[1] \in Links /\ x[2] \in ForLink(self)[x[1]]
    BY DEF PlacesOf
  <2>2. x[1] = <<x[1][1], x[1][2]>> /\ x[1][1] \in Routers
    BY <2>1, LinkIs
  <2>3. x[2] \in WhereFor(Out(self)[x[1][1]], x[1])
    BY <2>1 DEF ForLink
  <2> QED
    BY <2>1, <2>2, <2>3 DEF WhereFor
<1>2. ASSUME NEW x \in S
      PROVE  /\ m[x] = <<<<self, x[1][1]>>, x[2]>> /\ m[x] \in T
             /\ x[1][2] = Via(x[1][1], PacketAt(m[x]))
  <2> DEFINE r == x[1][1]
             k == x[2]
             y == <<<<self, r>>, k>>
  <2>1. r \in Routers /\ k \in 1 .. Len(Out(self)[r]) /\ IsFor(Out(self)[r][k], x[1])
    BY <1>1
  <2>2. m[x] = y /\ y[1] = <<self, r>> /\ y[1][2] = r
    OBVIOUS
  <2>3. HandedOver(self, r, k)
    <3> HIDE DEF r, k
    <3> QED
      BY <2>1, OutIs
  <2>4. y \in DueOn(self) /\ Out(self)[r][k] = PacketAt(y)
    BY <2>3 DEF HandedOver
  <2>5. PassesOn(r, PacketAt(y)) /\ x[1][2] = Via(r, PacketAt(y))
    BY <2>1, <2>4 DEF IsFor
  <2> HIDE DEF y
  <2>6. y \in T
    BY <2>2, <2>4, <2>5 DEF GoOn
  <2> QED
    BY <2>2, <2>5, <2>6 DEF y
<1>3. m \in [S -> T]
  <2>1. m = [x \in S |-> m[x]]
    OBVIOUS
  <2> HIDE DEF m
  <2> QED
    BY <1>2, <2>1
<1> HIDE DEF m
<1>4. ASSUME NEW x \in S, NEW y \in S, m[x] = m[y] PROVE x = y
  <2>1. x[1][1] = y[1][1] /\ x[2] = y[2]
    BY <1>2, <1>4
  <2>2. x[1][2] = y[1][2]
    BY <1>2, <1>4, <2>1
  <2>3. x[1] = y[1]
    BY <1>1, <2>1, <2>2
  <2> QED
    BY <1>1, <2>1, <2>3
<1>5. ASSUME NEW y \in T PROVE \E x \in S : m[x] = y
  <2> DEFINE r == y[1][2]
             k == y[2]
             p == PacketAt(y)
             l == <<r, Via(r, p)>>
             x == <<l, k>>
  <2>1. y \in DueOn(self) /\ PassesOn(r, p)
    BY DEF GoOn
  <2>2. y = <<<<self, r>>, k>> /\ r \in Routers /\ k \in 1 .. Len(Out(self)[r])
    <3> HIDE DEF T, r, k
    <3>1. y = <<<<self, y[1][2]>>, y[2]>> /\ y[1][2] \in Routers /\ y[2] \in 1 .. Len(Out(self)[y[1][2]])
      BY <2>1, DueIsOut
    <3> QED
      BY <3>1 DEF r, k
  <2>3. HandedOver(self, r, k)
    <3> HIDE DEF T, r, k
    <3> QED
      BY <2>2, OutIs
  <2>4. Out(self)[r][k] = p /\ Travels(<<self, r>>, p)
    <3> HIDE DEF T, r, k
    <3> QED
      BY <2>2, <2>3 DEF HandedOver
  <2>5. self # r
    <3>1. <<self, r>>[1] # <<self, r>>[2]
      BY <2>4, TravelsAway
    <3> QED
      BY <3>1
  <2>6. l \in Links
    <3>1. p.dst \in Routers \ {r}
      BY <2>1 DEF PassesOn
    <3> HIDE DEF r, p
    <3>2. Leads(r, p.dst)
      BY <2>2, <3>1, TableLeads
    <3> QED
      BY <3>2 DEF Leads, Via
  <2> HIDE DEF T, r, k, p
  <2>7. l[1] = r /\ l[2] = Via(r, p)
    OBVIOUS
  <2>8. k \in ForLink(self)[l]
    <3> HIDE DEF l
    <3>1. IsFor(Out(self)[r][k], l)
      BY <2>1, <2>4, <2>7 DEF IsFor
    <3>2. k \in WhereFor(Out(self)[r], l)
      BY <2>2, <3>1 DEF WhereFor
    <3> QED
      BY <2>5, <2>6, <2>7, <3>2 DEF ForLink
  <2>9. x \in S
    <3> HIDE DEF l
    <3>1. k \in Nat
      BY <2>2
    <3> QED
      BY <2>6, <2>8, <3>1 DEF PlacesOf
  <2>10. x[1][1] = r /\ x[2] = k
    BY <2>7
  <2> HIDE DEF x, S
  <2>11. m[x] = y
    BY <1>2, <2>2, <2>9, <2>10
  <2> QED
    BY <2>9, <2>11
<1> HIDE DEF S, T
<1> QED
  BY <1>3, <1>4, <1>5, BijectionIs DEF S, T

(* And each packet that arrives is one of exactly one flow.                *)
LEMMA ArriveCounts ==
  ASSUME SimTypeOK, OnTheirWay, NEW self \in Routers
  PROVE  ExistsBijection(PlacesOf(Flows, ForFlow(self)), Arrive(self))
<1> DEFINE S == PlacesOf(Flows, ForFlow(self))
           T == Arrive(self)
           m == [x \in S |-> <<<<self, x[1][2]>>, x[2]>>]
<1>1. ASSUME NEW x \in S
      PROVE  /\ x = <<x[1], x[2]>> /\ x[1][2] \in Routers
             /\ x[2] \in 1 .. Len(Out(self)[x[1][2]])
             /\ <<Out(self)[x[1][2]][x[2]].src, Out(self)[x[1][2]][x[2]].dst>> = x[1]
  <2>1. x = <<x[1], x[2]>> /\ x[1] \in Flows /\ x[2] \in ForFlow(self)[x[1]]
    BY DEF PlacesOf
  <2>2. x[1][2] \in Routers /\ x[2] \in WhereOf(Out(self)[x[1][2]], x[1])
    BY <2>1 DEF ForFlow
  <2> QED
    BY <2>1, <2>2 DEF WhereOf
<1>2. ASSUME NEW x \in S
      PROVE  /\ m[x] = <<<<self, x[1][2]>>, x[2]>> /\ m[x] \in T
             /\ x[1] = <<PacketAt(m[x]).src, PacketAt(m[x]).dst>>
  <2> DEFINE r == x[1][2]
             k == x[2]
             y == <<<<self, r>>, k>>
  <2>1. r \in Routers /\ k \in 1 .. Len(Out(self)[r])
    BY <1>1
  <2>2. m[x] = y /\ y[1] = <<self, r>> /\ y[1][2] = r
    OBVIOUS
  <2>3. HandedOver(self, r, k)
    <3> HIDE DEF r, k
    <3> QED
      BY <2>1, OutIs
  <2>4. y \in DueOn(self) /\ Out(self)[r][k] = PacketAt(y)
    BY <2>3 DEF HandedOver
  <2>5. x[1] = <<PacketAt(y).src, PacketAt(y).dst>>
    BY <1>1, <2>4
  <2>6. ~ PassesOn(r, PacketAt(y))
    BY <2>5 DEF PassesOn
  <2> HIDE DEF y
  <2>7. y \in T
    BY <2>2, <2>4, <2>6 DEF Arrive
  <2> QED
    BY <2>2, <2>5, <2>7 DEF y
<1>3. m \in [S -> T]
  <2>1. m = [x \in S |-> m[x]]
    OBVIOUS
  <2> HIDE DEF m
  <2> QED
    BY <1>2, <2>1
<1> HIDE DEF m
<1>4. ASSUME NEW x \in S, NEW y \in S, m[x] = m[y] PROVE x = y
  <2>1. x[2] = y[2] /\ x[1] = y[1]
    BY <1>2, <1>4
  <2> QED
    BY <1>1, <2>1
<1>5. ASSUME NEW y \in T PROVE \E x \in S : m[x] = y
  <2> DEFINE r == y[1][2]
             k == y[2]
             p == PacketAt(y)
             f == <<p.src, p.dst>>
             x == <<f, k>>
  <2>1. y \in DueOn(self) /\ ~ PassesOn(r, p)
    BY DEF Arrive
  <2>2. y = <<<<self, r>>, k>> /\ r \in Routers /\ k \in 1 .. Len(Out(self)[r])
    <3> HIDE DEF T, r, k
    <3>1. y = <<<<self, y[1][2]>>, y[2]>> /\ y[1][2] \in Routers /\ y[2] \in 1 .. Len(Out(self)[y[1][2]])
      BY <2>1, DueIsOut
    <3> QED
      BY <3>1 DEF r, k
  <2>3. HandedOver(self, r, k)
    <3> HIDE DEF T, r, k
    <3> QED
      BY <2>2, OutIs
  <2>4. Out(self)[r][k] = p /\ Travels(<<self, r>>, p)
    <3> HIDE DEF T, r, k
    <3> QED
      BY <2>2, <2>3 DEF HandedOver
  <2> HIDE DEF T, r, k, p
  <2>5. f \in OnMap /\ f[2] = p.dst
    BY <2>4 DEF Travels
  <2> HIDE DEF f
  <2>6. f \in Flows /\ f[2] \in Routers
    BY <2>5 DEF OnMap
  <2>7. f[2] = r
    BY <2>1, <2>5, <2>6 DEF PassesOn
  <2>8. k \in WhereOf(Out(self)[r], f)
    BY <2>2, <2>4 DEF WhereOf, f
  <2>9. k \in ForFlow(self)[f] /\ k \in Nat
    BY <2>2, <2>6, <2>7, <2>8 DEF ForFlow
  <2>10. x \in S
    BY <2>6, <2>9 DEF PlacesOf
  <2>11. x[1] = f /\ x[2] = k
    OBVIOUS
  <2> HIDE DEF x, S
  <2>12. m[x] = y
    BY <1>2, <2>2, <2>7, <2>10, <2>11
  <2> QED
    BY <2>10, <2>12
<1> HIDE DEF S, T
<1> QED
  BY <1>3, <1>4, <1>5, BijectionIs DEF S, T

(* Two sets that make up a third, and have nothing in common.              *)
Splits(S, A, B) == S = A \cup B /\ A \cap B = {}

LEMMA SplitCounts ==
  ASSUME NEW S, NEW A, NEW B, Splits(S, A, B), IsFiniteSet(A), IsFiniteSet(B)
  PROVE  IsFiniteSet(S) /\ Cardinality(S) = Cardinality(A) + Cardinality(B)
<1>1. Cardinality({}) = 0
  BY FS_EmptySet
<1>2. Cardinality(A) \in Nat /\ Cardinality(B) \in Nat
  BY FS_CardinalityType
<1>3. /\ IsFiniteSet(A \cup B)
      /\ Cardinality(A \cup B) = Cardinality(A) + Cardinality(B) - Cardinality(A \cap B)
  BY FS_Union
<1>4. S = A \cup B /\ A \cap B = {}
  BY DEF Splits
<1>5. Cardinality(S) = Cardinality(A) + Cardinality(B) - 0
  BY <1>1, <1>3, <1>4
<1> QED
  BY <1>2, <1>3, <1>4, <1>5

(* With few packets in all, what comes to a queue finds room.              *)
LEMMA RoomForAll ==
  ASSUME SimTypeOK, OnTheirWay, NEW self \in Routers, NEW l \in Links, l[1] # self,
         Cardinality(Places(routes)) <= QueueMax
  PROVE  Len(routes[l].queue) + Cardinality(ForLink(self)[l]) <= QueueMax
<1> DEFINE P == Places(routes)
           A == {x \in P : x[1] = l}
           B == {x \in P : x[1] = <<self, l[1]>>}
           n == Len(routes[l].queue)
           F == ForLink(self)[l]
<1>1. P = PlacesOf(Links, Taken(routes)) /\ IsFiniteSet(P)
  BY PlacesAre DEF SimTypeOK
<1>2. routes[l] \in Queues
  BY DEF SimTypeOK
<1>3. n \in Nat
  <2>1. routes[l].queue \in Seq(Entries)
    BY <1>2 DEF Queues
  <2> QED
    BY <2>1
<1>4. l # <<self, l[1]>>
  BY LinkIs
<1>5. n <= Cardinality(A) /\ IsFiniteSet(A)
  <2> DEFINE m == [k \in 1 .. n |-> <<l, k>>]
  <2>1. IsFiniteSet(A)
    BY <1>1, FS_Subset
  <2>2. \A k \in 1 .. n : <<l, k>> \in A
    <3> TAKE k \in 1 .. n
    <3>1. k \in Taken(routes)[l] /\ k \in Nat
      BY <1>3 DEF Taken
    <3> HIDE DEF P
    <3> QED
      BY <1>1, <3>1 DEF PlacesOf
  <2>3. m \in [1 .. n -> A]
    BY <2>2
  <2>4. \A i, j \in 1 .. n : m[i] = m[j] => i = j
    OBVIOUS
  <2> HIDE DEF m, A
  <2>5. Cardinality(1 .. n) <= Cardinality(A)
    BY <2>1, <2>3, <2>4, InjectionBounds
  <2>6. Cardinality(1 .. n) = n
    BY <1>3, FS_Interval
  <2> QED
    BY <2>1, <2>5, <2>6
<1>6. Cardinality(F) <= Cardinality(B) /\ IsFiniteSet(B)
  <2> DEFINE m == [k \in F |-> <<<<self, l[1]>>, k>>]
  <2>1. IsFiniteSet(B)
    BY <1>1, FS_Subset
  <2>2. \A k \in F : <<<<self, l[1]>>, k>> \in B
    <3> TAKE k \in F
    <3>1. k \in WhereFor(Out(self)[l[1]], l)
      BY ForLinkIs
    <3>2. k \in 1 .. Len(Out(self)[l[1]]) /\ l[1] \in Routers
      BY <3>1, LinkIs DEF WhereFor
    <3>3. <<<<self, l[1]>>, k>> \in DueOn(self)
      BY <3>2, OutIs DEF HandedOver
    <3>4. <<<<self, l[1]>>, k>> \in P
      BY <3>3 DEF DueOn
    <3> QED
      BY <3>4
  <2>3. m \in [F -> B]
    BY <2>2
  <2>4. \A i, j \in F : m[i] = m[j] => i = j
    OBVIOUS
  <2> HIDE DEF m, B, F
  <2>5. Cardinality(F) <= Cardinality(B)
    BY <2>1, <2>3, <2>4, InjectionBounds
  <2> QED
    BY <2>1, <2>5
<1>7. Cardinality(A \cup B) = Cardinality(A) + Cardinality(B) /\ Cardinality(A \cup B) <= Cardinality(P)
  <2>1. Splits(A \cup B, A, B)
    BY <1>4 DEF Splits
  <2>2. A \cup B \in SUBSET P
    OBVIOUS
  <2> HIDE DEF A, B, P
  <2>3. Cardinality(A \cup B) = Cardinality(A) + Cardinality(B)
    BY <1>5, <1>6, <2>1, SplitCounts
  <2>4. Cardinality(A \cup B) <= Cardinality(P)
    BY <1>1, <2>2, FS_Subset
  <2> QED
    BY <2>3, <2>4
<1>8. Cardinality(F) \in Nat /\ QueueMax \in Nat /\ Cardinality(P) <= QueueMax
  BY ForLinkIs, HupSimAssumption
<1>9. Cardinality(A) \in Nat /\ Cardinality(B) \in Nat /\ Cardinality(P) \in Nat
  BY <1>1, <1>5, <1>6, FS_CardinalityType
<1> HIDE DEF A, B, P, F, n
<1>10. n + Cardinality(F) <= QueueMax
  BY <1>3, <1>5, <1>6, <1>7, <1>8, <1>9
<1> QED
  BY <1>10 DEF n, F

(* What stays, before and after, and what comes.                           *)
StaysBefore(self) ==
  [l \in Links |-> IF l[1] = self THEN DueCount(routes[l]) + 1 .. Len(routes[l].queue)
                   ELSE 1 .. Len(routes[l].queue)]
StaysAfter(self) ==
  [l \in Links |-> IF l[1] = self THEN 1 .. Len(routes'[l].queue) ELSE 1 .. Len(routes[l].queue)]
Comes(self) ==
  [l \in Links |-> IF l[1] = self THEN {}
                   ELSE Len(routes[l].queue) + 1 .. Len(routes'[l].queue)]

(* How long a queue is when the router has run.                            *)
RanLength(self, l) ==
  /\ Len(routes[l].queue) \in Nat /\ DueCount(routes[l]) \in 0 .. Len(routes[l].queue)
  /\ Len(routes'[l].queue) =
       IF l[1] = self THEN Len(routes[l].queue) - DueCount(routes[l])
       ELSE Len(routes[l].queue) + Cardinality(ForLink(self)[l])

LEMMA RanLengthIs ==
  ASSUME SimTypeOK, OnTheirWay, NEW self \in Routers, Ran(self, Out(self)), NEW l \in Links,
         Cardinality(Places(routes)) <= QueueMax
  PROVE  RanLength(self, l)
<1>1. routes[l] \in Queues
  BY DEF SimTypeOK
<1>2. routes[l].queue \in Seq(Entries) /\ DueCount(routes[l]) \in 0 .. Len(routes[l].queue)
  BY <1>1, DueIs DEF Queues
<1>3. CASE l[1] = self
  <2>1. routes'[l] = Shifted(routes[l])
    BY <1>3 DEF Ran
  <2>2. routes'[l].queue = SubSeq(routes[l].queue, DueCount(routes[l]) + 1, Len(routes[l].queue))
    <3> DEFINE c == routes[l]
    <3>1. Shifted(c).queue = SubSeq(c.queue, DueCount(c) + 1, Len(c.queue))
      BY DEF Shifted
    <3> QED
      BY <2>1, <3>1
  <2> DEFINE q == routes[l].queue
             d == DueCount(routes[l])
  <2>3. q \in Seq(Entries) /\ d \in 0 .. Len(q)
    BY <1>2
  <2> HIDE DEF q, d
  <2>4. Len(SubSeq(q, d + 1, Len(q))) = Len(q) - d
    BY <2>3
  <2> QED
    BY <1>2, <1>3, <2>2, <2>4 DEF RanLength, q, d
<1>4. CASE l[1] # self
  <2>1. routes'[l] = Received(routes[l], l, Out(self)[l[1]])
    BY <1>4 DEF Ran
  <2>2. ForLink(self)[l] = WhereFor(Out(self)[l[1]], l)
    BY <1>4, ForLinkIs
  <2>3. Out(self)[l[1]] \in Seq(Packets)
    BY LinkIs, OutType
  <2>4. Len(routes[l].queue) + Cardinality(WhereFor(Out(self)[l[1]], l)) <= QueueMax
    BY <1>4, <2>2, RoomForAll
  <2>5. Len(routes'[l].queue) = Len(routes[l].queue) + Cardinality(ForLink(self)[l])
    BY <1>1, <2>1, <2>2, <2>3, <2>4, ReceivedCounts
  <2> QED
    BY <1>2, <1>4, <2>5 DEF RanLength
<1> QED
  BY <1>3, <1>4

LEMMA IntervalCounts ==
  ASSUME NEW a \in Nat, NEW b \in Nat, a <= b
  PROVE  /\ IsFiniteSet(a + 1 .. b) /\ Cardinality(a + 1 .. b) = b - a
         /\ IsFiniteSet(1 .. b) /\ Cardinality(1 .. b) = b
<1> DEFINE c == a + 1
<1>1. c \in Int /\ b \in Int /\ 1 \in Int
  OBVIOUS
<1>2. IsFiniteSet(c .. b) /\ Cardinality(c .. b) = IF c > b THEN 0 ELSE b - c + 1
  <2> HIDE DEF c
  <2> QED
    BY <1>1, FS_Interval
<1>3. IsFiniteSet(1 .. b) /\ Cardinality(1 .. b) = IF 1 > b THEN 0 ELSE b - 1 + 1
  <2> HIDE DEF c
  <2> QED
    BY <1>1, FS_Interval
<1>4. (IF c > b THEN 0 ELSE b - c + 1) = b - a /\ (IF 1 > b THEN 0 ELSE b - 1 + 1) = b
  OBVIOUS
<1> QED
  BY <1>2, <1>3, <1>4

LEMMA SameInterval ==
  ASSUME NEW a \in Nat, NEW b \in Nat, NEW S, IsFiniteSet(S),
         b = a + Cardinality(S)
  PROVE  SameCard(a + 1 .. b, S)
<1>1. Cardinality(S) \in Nat
  BY FS_CardinalityType
<1>2. IsFiniteSet(a + 1 .. b) /\ Cardinality(a + 1 .. b) = b - a
  BY <1>1, IntervalCounts
<1>3. Cardinality(a + 1 .. b) = Cardinality(S)
  BY <1>1, <1>2
<1> QED
  BY <1>2, <1>3 DEF SameCard

LEMMA StaysAre ==
  ASSUME SimTypeOK, OnTheirWay, NEW self \in Routers, Ran(self, Out(self)),
         Cardinality(Places(routes)) <= QueueMax
  PROVE  /\ StaysBefore(self) \in [Links -> SUBSET Nat] /\ StaysAfter(self) \in [Links -> SUBSET Nat]
         /\ Comes(self) \in [Links -> SUBSET Nat]
         /\ \A l \in Links : SameCard(StaysBefore(self)[l], StaysAfter(self)[l])
         /\ \A l \in Links : SameCard(ForLink(self)[l], Comes(self)[l])
<1>1. ASSUME NEW l \in Links
      PROVE  /\ StaysBefore(self)[l] \in SUBSET Nat /\ StaysAfter(self)[l] \in SUBSET Nat
             /\ Comes(self)[l] \in SUBSET Nat
             /\ SameCard(StaysBefore(self)[l], StaysAfter(self)[l])
             /\ SameCard(ForLink(self)[l], Comes(self)[l])
  <2> DEFINE n == Len(routes[l].queue)
             m == Len(routes'[l].queue)
             d == DueCount(routes[l])
             F == ForLink(self)[l]
  <2>1. n \in Nat /\ d \in 0 .. n /\ m = IF l[1] = self THEN n - d ELSE n + Cardinality(F)
    <3> HIDE DEF F
    <3> QED
      BY RanLengthIs DEF RanLength, F
  <2>2. IsFiniteSet(F) /\ Cardinality(F) \in Nat
    BY ForLinkIs
  <2>3. /\ StaysBefore(self)[l] = IF l[1] = self THEN d + 1 .. n ELSE 1 .. n
        /\ StaysAfter(self)[l] = IF l[1] = self THEN 1 .. m ELSE 1 .. n
        /\ Comes(self)[l] = IF l[1] = self THEN {} ELSE n + 1 .. m
    BY DEF StaysBefore, StaysAfter, Comes
  <2>4. l[1] = self => F = {}
    BY DEF ForLink
  <2> HIDE DEF n, m, d, F
  <2>5. m \in Nat
    BY <2>1, <2>2
  <2>6. /\ StaysBefore(self)[l] \in SUBSET Nat /\ StaysAfter(self)[l] \in SUBSET Nat
        /\ Comes(self)[l] \in SUBSET Nat
    BY <2>1, <2>3, <2>5
  <2>7. CASE l[1] = self
    <3>1. IsFiniteSet(d + 1 .. n) /\ Cardinality(d + 1 .. n) = n - d
      BY <2>1, IntervalCounts
    <3>2. IsFiniteSet(1 .. m) /\ Cardinality(1 .. m) = n - d
      BY <2>1, <2>5, <2>7, FS_Interval
    <3>3. SameCard({}, {})
      BY FS_EmptySet DEF SameCard
    <3> QED
      BY <2>3, <2>4, <2>6, <2>7, <3>1, <3>2, <3>3 DEF SameCard, F
  <2>8. CASE l[1] # self
    <3>1. SameCard(1 .. n, 1 .. n)
      BY <2>1, FS_Interval DEF SameCard
    <3>2. SameCard(n + 1 .. m, F)
      BY <2>1, <2>2, <2>5, <2>8, SameInterval
    <3>3. SameCard(F, n + 1 .. m)
      BY <3>2 DEF SameCard
    <3> QED
      BY <2>3, <2>6, <2>8, <3>1, <3>3 DEF F
  <2> QED
    BY <2>7, <2>8
<1>2. /\ StaysBefore(self) = [l \in Links |-> StaysBefore(self)[l]]
      /\ StaysAfter(self) = [l \in Links |-> StaysAfter(self)[l]]
      /\ Comes(self) = [l \in Links |-> Comes(self)[l]]
  BY DEF StaysBefore, StaysAfter, Comes
<1> QED
  BY <1>1, <1>2

LEMMA PlacesSplit ==
  ASSUME SimTypeOK, OnTheirWay, NEW self \in Routers, Ran(self, Out(self)),
         Cardinality(Places(routes)) <= QueueMax
  PROVE  /\ Splits(Places(routes), StayOn(self), DueOn(self))
         /\ Splits(DueOn(self), GoOn(self), Arrive(self))
         /\ StayOn(self) = PlacesOf(Links, StaysBefore(self))
         /\ Splits(Places(routes'), PlacesOf(Links, StaysAfter(self)), PlacesOf(Links, Comes(self)))
<1>1. routes' \in [Links -> Queues]
  BY OutIsFunction, RanQueues
<1>2. /\ Places(routes) = PlacesOf(Links, Taken(routes))
      /\ Places(routes') = PlacesOf(Links, Taken(routes'))
  BY <1>1, PlacesAre DEF SimTypeOK
<1>3. ASSUME NEW l \in Links, NEW k \in Nat
      PROVE  /\ k \in Taken(routes)[l] /\ ~ (l[1] = self /\ k <= DueCount(routes[l]))
                  <=> k \in StaysBefore(self)[l]
             /\ k \in Taken(routes')[l] <=> k \in StaysAfter(self)[l] \/ k \in Comes(self)[l]
             /\ ~ (k \in StaysAfter(self)[l] /\ k \in Comes(self)[l])
  <2> DEFINE n == Len(routes[l].queue)
             m == Len(routes'[l].queue)
             d == DueCount(routes[l])
  <2>1. n \in Nat /\ d \in 0 .. n /\ m = IF l[1] = self THEN n - d ELSE n + Cardinality(ForLink(self)[l])
    BY RanLengthIs DEF RanLength
  <2>2. Cardinality(ForLink(self)[l]) \in Nat
    BY ForLinkIs
  <2>3. /\ StaysBefore(self)[l] = IF l[1] = self THEN d + 1 .. n ELSE 1 .. n
        /\ StaysAfter(self)[l] = IF l[1] = self THEN 1 .. m ELSE 1 .. n
        /\ Comes(self)[l] = IF l[1] = self THEN {} ELSE n + 1 .. m
    BY DEF StaysBefore, StaysAfter, Comes
  <2>4. Taken(routes)[l] = 1 .. n /\ Taken(routes')[l] = 1 .. m
    BY DEF Taken
  <2> HIDE DEF n, m, d
  <2>5. m \in Nat /\ (l[1] # self => m >= n)
    BY <2>1, <2>2
  <2>6. k \in Taken(routes)[l] /\ ~ (l[1] = self /\ k <= d) <=> k \in StaysBefore(self)[l]
    BY <2>1, <2>3, <2>4
  <2>7. k \in Taken(routes')[l] <=> k \in StaysAfter(self)[l] \/ k \in Comes(self)[l]
    BY <2>1, <2>3, <2>4, <2>5
  <2>8. ~ (k \in StaysAfter(self)[l] /\ k \in Comes(self)[l])
    BY <2>1, <2>3, <2>5
  <2> QED
    BY <2>6, <2>7, <2>8 DEF d
<1>4. Splits(Places(routes), StayOn(self), DueOn(self))
  BY DEF Splits, StayOn, DueOn
<1>5. Splits(DueOn(self), GoOn(self), Arrive(self))
  BY DEF Splits, GoOn, Arrive
<1>6. StayOn(self) = PlacesOf(Links, StaysBefore(self))
  <2>1. ASSUME NEW x PROVE x \in StayOn(self) <=> x \in PlacesOf(Links, StaysBefore(self))
    <3>1. CASE x \notin Links \X Nat
      BY <1>2, <3>1 DEF StayOn, PlacesOf
    <3>2. CASE x \in Links \X Nat
      <4>1. x[1] \in Links /\ x[2] \in Nat
        BY <3>2
      <4>2. x \in Places(routes) <=> x[2] \in Taken(routes)[x[1]]
        BY <1>2, <3>2 DEF PlacesOf
      <4>3. x \in PlacesOf(Links, StaysBefore(self)) <=> x[2] \in StaysBefore(self)[x[1]]
        BY <3>2 DEF PlacesOf
      <4> QED
        BY <1>3, <4>1, <4>2, <4>3 DEF StayOn, DueOn
    <3> QED
      BY <3>1, <3>2
  <2> QED
    BY <2>1
<1>7. Splits(Places(routes'), PlacesOf(Links, StaysAfter(self)), PlacesOf(Links, Comes(self)))
  <2> DEFINE A == PlacesOf(Links, StaysAfter(self))
             B == PlacesOf(Links, Comes(self))
  <2>1. ASSUME NEW x PROVE (x \in Places(routes') <=> x \in A \/ x \in B) /\ ~ (x \in A /\ x \in B)
    <3>1. CASE x \notin Links \X Nat
      BY <1>2, <3>1 DEF PlacesOf
    <3>2. CASE x \in Links \X Nat
      <4>1. x[1] \in Links /\ x[2] \in Nat
        BY <3>2
      <4>2. x \in Places(routes') <=> x[2] \in Taken(routes')[x[1]]
        BY <1>2, <3>2 DEF PlacesOf
      <4>3. /\ x \in A <=> x[2] \in StaysAfter(self)[x[1]]
            /\ x \in B <=> x[2] \in Comes(self)[x[1]]
        BY <3>2 DEF PlacesOf
      <4> HIDE DEF A, B
      <4> QED
        BY <1>3, <4>1, <4>2, <4>3
    <3> QED
      BY <3>1, <3>2
  <2> HIDE DEF A, B
  <2>2. Places(routes') = A \cup B /\ A \cap B = {}
    BY <2>1
  <2> QED
    BY <2>2 DEF Splits, A, B
<1> QED
  BY <1>4, <1>5, <1>6, <1>7

(* The places of what arrives.                                             *)
ArrivedAt   == {x \in Flows \X (1 .. QueueMax) : x[2] \in DOMAIN got'[x[1]]}
Numbered(g) == [f \in Flows |-> 1 .. Len(g[f])]

LEMMA ArrivedIs ==
  ASSUME SimTypeOK, OnTheirWay, NEW self \in Routers, Ran(self, Out(self))
  PROVE  /\ ArrivedAt = PlacesOf(Flows, Numbered(got')) /\ Numbered(got') \in [Flows -> SUBSET Nat]
         /\ \A f \in Flows : SameCard(ForFlow(self)[f], Numbered(got')[f])
<1>1. ASSUME NEW f \in Flows
      PROVE  /\ Len(got'[f]) \in Nat /\ DOMAIN got'[f] = 1 .. Len(got'[f])
             /\ Len(got'[f]) = Cardinality(ForFlow(self)[f]) /\ Len(got'[f]) <= QueueMax
  <2>1. CASE f[2] \notin Routers
    <3>1. got'[f] = <<>> /\ ForFlow(self)[f] = {}
      BY <2>1 DEF Ran, ForFlow
    <3>2. Len(<<>>) = 0 /\ DOMAIN <<>> = 1 .. 0
      OBVIOUS
    <3> QED
      BY <3>1, <3>2, FS_EmptySet, HupSimAssumption
  <2>2. CASE f[2] \in Routers
    <3> DEFINE ps == Out(self)[f[2]]
    <3>1. got'[f] = OfFlow(ps, f) /\ ForFlow(self)[f] = WhereOf(ps, f)
      BY <2>2 DEF Ran, ForFlow
    <3>2. ps \in Seq(Packets)
      BY <2>2, OutType
    <3>3. Len(ps) <= QueueMax
      BY <2>2, OutFits
    <3> HIDE DEF ps
    <3>4. OfFlow(ps, f) \in Seq(Packets) /\ Len(OfFlow(ps, f)) = Cardinality(WhereOf(ps, f))
      BY <3>2, OfFlowType, OfFlowCounts
    <3>5. Cardinality(WhereOf(ps, f)) <= Len(ps)
      <4>1. WhereOf(ps, f) \in SUBSET (1 .. Len(ps)) /\ Len(ps) \in Nat
        BY <3>2 DEF WhereOf
      <4>2. IsFiniteSet(1 .. Len(ps)) /\ Cardinality(1 .. Len(ps)) = Len(ps)
        BY <4>1, IntervalCounts
      <4> QED
        BY <4>1, <4>2, FS_Subset
    <3>6. Len(got'[f]) \in Nat /\ DOMAIN got'[f] = 1 .. Len(got'[f]) /\ Len(ps) \in Nat
      BY <3>1, <3>2, <3>4
    <3> QED
      BY <3>1, <3>3, <3>4, <3>5, <3>6, HupSimAssumption
  <2> QED
    BY <2>1, <2>2
<1>2. \A f \in Flows : Numbered(got')[f] = 1 .. Len(got'[f])
  BY DEF Numbered
<1>3. ArrivedAt = PlacesOf(Flows, Numbered(got'))
  <2>1. ASSUME NEW x PROVE x \in ArrivedAt <=> x \in PlacesOf(Flows, Numbered(got'))
    <3>1. CASE x \notin Flows \X Nat
      BY <3>1, HupSimAssumption DEF ArrivedAt, PlacesOf
    <3>2. CASE x \in Flows \X Nat
      <4>1. x[1] \in Flows /\ x[2] \in Nat
        BY <3>2
      <4>2. x \in PlacesOf(Flows, Numbered(got')) <=> x[2] \in 1 .. Len(got'[x[1]])
        BY <1>2, <3>2, <4>1 DEF PlacesOf
      <4>3. x \in ArrivedAt <=> x[2] \in 1 .. QueueMax /\ x[2] \in 1 .. Len(got'[x[1]])
        BY <1>1, <3>2, <4>1 DEF ArrivedAt
      <4>4. x[2] \in 1 .. Len(got'[x[1]]) => x[2] \in 1 .. QueueMax
        BY <1>1, <4>1, HupSimAssumption
      <4> QED
        BY <4>2, <4>3, <4>4
    <3> QED
      BY <3>1, <3>2
  <2> QED
    BY <2>1
<1>4. \A f \in Flows : SameCard(ForFlow(self)[f], Numbered(got')[f])
  <2> TAKE f \in Flows
  <2>1. IsFiniteSet(ForFlow(self)[f])
    BY ForFlowIs
  <2>2. Cardinality(1 .. Len(got'[f])) = Len(got'[f]) /\ IsFiniteSet(1 .. Len(got'[f]))
    BY <1>1, FS_Interval
  <2> QED
    BY <1>1, <1>2, <2>1, <2>2 DEF SameCard
<1>5. \A f \in Flows : Numbered(got')[f] \in SUBSET Nat
  BY <1>1, <1>2
<1>6. Numbered(got') = [f \in Flows |-> Numbered(got')[f]]
  BY DEF Numbered
<1> QED
  BY <1>3, <1>4, <1>5, <1>6

LEMMA RunConserves ==
  ASSUME SimInv, OnTheirWay, Run, InNetwork <= QueueMax
  PROVE  InNetwork' + Arrivals' = InNetwork
<1> DEFINE self == Head(runRouters)
<1>1. SimTypeOK /\ self \in Routers /\ Ran(self, Out(self))
  BY RunIs DEF SimInv
<1> HIDE DEF self
<1>2. /\ InNetwork = Cardinality(Places(routes)) /\ InNetwork' = Cardinality(Places(routes'))
      /\ Arrivals' = Cardinality(ArrivedAt)
  BY DEF InNetwork, Arrivals, Places, ArrivedAt
<1>3. Cardinality(Places(routes)) <= QueueMax
  BY <1>2
<1> DEFINE stay  == StayOn(self)
           go    == GoOn(self)
           come  == Arrive(self)
           kept  == PlacesOf(Links, StaysAfter(self))
           added == PlacesOf(Links, Comes(self))
<1>4. /\ Splits(Places(routes), stay, DueOn(self)) /\ Splits(DueOn(self), go, come)
      /\ stay = PlacesOf(Links, StaysBefore(self)) /\ Splits(Places(routes'), kept, added)
  BY <1>1, <1>3, PlacesSplit
<1>5. IsFiniteSet(Places(routes))
  BY <1>1, PlacesAre DEF SimTypeOK
<1>6. ExistsBijection(stay, kept)
  <2>1. ExistsBijection(PlacesOf(Links, StaysBefore(self)), PlacesOf(Links, StaysAfter(self)))
    BY <1>1, <1>3, StaysAre, Glue
  <2> QED
    BY <1>4, <2>1
<1>7. ExistsBijection(PlacesOf(Links, ForLink(self)), go)
  BY <1>1, GoOnCounts
<1>8. ExistsBijection(PlacesOf(Links, ForLink(self)), added)
  BY <1>1, <1>3, StaysAre, ForLinkIs, Glue
<1>9. ExistsBijection(PlacesOf(Flows, ForFlow(self)), come)
  BY <1>1, ArriveCounts
<1>10. ExistsBijection(PlacesOf(Flows, ForFlow(self)), ArrivedAt)
  <2>1. ExistsBijection(PlacesOf(Flows, ForFlow(self)), PlacesOf(Flows, Numbered(got')))
    BY <1>1, ArrivedIs, ForFlowIs, Glue
  <2> QED
    BY <1>1, <2>1, ArrivedIs
<1>11. IsFiniteSet(stay) /\ IsFiniteSet(DueOn(self)) /\ IsFiniteSet(go) /\ IsFiniteSet(come)
  <2>1. stay \in SUBSET Places(routes) /\ DueOn(self) \in SUBSET Places(routes)
    BY <1>4 DEF Splits
  <2>2. go \in SUBSET DueOn(self) /\ come \in SUBSET DueOn(self)
    BY <1>4 DEF Splits
  <2> HIDE DEF stay, go, come
  <2>3. IsFiniteSet(stay) /\ IsFiniteSet(DueOn(self))
    BY <1>5, <2>1, FS_Subset
  <2> QED
    BY <2>2, <2>3, FS_Subset
<1> HIDE DEF stay, go, come, kept, added
<1>12. IsFiniteSet(kept) /\ Cardinality(kept) = Cardinality(stay)
  BY <1>6, <1>11, FS_Bijection
<1>13. IsFiniteSet(added) /\ Cardinality(added) = Cardinality(go)
  BY <1>7, <1>8, <1>11, AsMany
<1>14. Cardinality(ArrivedAt) = Cardinality(come)
  BY <1>9, <1>10, <1>11, AsMany
<1>15. /\ Cardinality(Places(routes)) = Cardinality(stay) + Cardinality(DueOn(self))
       /\ Cardinality(DueOn(self)) = Cardinality(go) + Cardinality(come)
       /\ Cardinality(Places(routes')) = Cardinality(kept) + Cardinality(added)
  BY <1>4, <1>11, <1>12, <1>13, SplitCounts
<1>16. Cardinality(stay) \in Nat /\ Cardinality(go) \in Nat /\ Cardinality(come) \in Nat
  BY <1>11, FS_CardinalityType
<1> QED
  BY <1>2, <1>12, <1>13, <1>14, <1>15, <1>16

(* A step that leaves the queues as long as they are, and delivers nothing. *)
LEMMA NothingMoves ==
  ASSUME SimTypeOK, got' = NoArrivals, \A l \in Links : DOMAIN routes'[l].queue = DOMAIN routes[l].queue
  PROVE  InNetwork' + Arrivals' = InNetwork
<1>1. Places(routes') = Places(routes)
  BY DEF Places
<1>2. ArrivedAt = {}
  <2>1. \A f \in Flows : DOMAIN got'[f] = {}
    BY DEF NoArrivals
  <2> QED
    BY <2>1 DEF ArrivedAt
<1>3. /\ InNetwork = Cardinality(Places(routes)) /\ InNetwork' = Cardinality(Places(routes'))
      /\ Arrivals' = Cardinality(ArrivedAt)
  BY DEF InNetwork, Arrivals, Places, ArrivedAt
<1>4. Cardinality(Places(routes)) \in Nat /\ Cardinality(ArrivedAt) = 0
  <2>1. IsFiniteSet(Places(routes))
    BY PlacesAre DEF SimTypeOK
  <2> QED
    BY <1>2, <2>1, FS_CardinalityType, FS_EmptySet
<1> QED
  BY <1>1, <1>3, <1>4

(* On any map: while the whole network holds no more packets than one      *)
(* queue can, none is lost on the way, whichever queues they meet in.      *)
THEOREM LightTrafficIsKeptHolds == Spec => LightTrafficIsKept
<1> DEFINE NoneLost == ~ selecting /\ InNetwork <= QueueMax => InNetwork' + Arrivals' = InNetwork
<1>1. SimInv /\ OnTheirWay /\ [Next]_vars => [NoneLost]_vars
  <2>1. SUFFICES ASSUME SimInv, OnTheirWay, Next, ~ selecting, InNetwork <= QueueMax
                 PROVE  InNetwork' + Arrivals' = InNetwork
    OBVIOUS
  <2>2. SimTypeOK
    BY <2>1 DEF SimInv
  <2>3. CASE Run
    BY <2>1, <2>3, RunConserves
  <2>4. CASE Elapse
    <3>1. \A l \in Links : routes'[l] = Aged(routes[l]) /\ routes[l] \in Queues
      BY <2>2, <2>4 DEF SimTypeOK, Elapse, Aged
    <3>2. \A l \in Links : DOMAIN routes'[l].queue = DOMAIN routes[l].queue
      <4>1. \A c : DOMAIN Aged(c).queue = DOMAIN c.queue
        BY DEF Aged
      <4> QED
        BY <3>1, <4>1
    <3>3. got' = NoArrivals
      BY <2>4 DEF Elapse
    <3> QED
      BY <2>2, <3>2, <3>3, NothingMoves
  <2>5. CASE Cease
    <3>1. routes' = routes /\ got' = NoArrivals
      BY <2>5 DEF Cease
    <3> QED
      BY <2>2, <3>1, NothingMoves
  <2> QED
    BY <2>1, <2>3, <2>4, <2>5 DEF Next, Receive, WakeUp
<1> HIDE DEF NoneLost
<1>2. Spec => [][NoneLost]_vars
  BY <1>1, PathsAreKept, PTL DEF Spec
<1> QED
  BY <1>2 DEF LightTrafficIsKept, NoneLost
=============================================================================
