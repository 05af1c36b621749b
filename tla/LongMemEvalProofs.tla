------------------------- MODULE LongMemEvalProofs -------------------------
(***************************************************************************)
(* Proofs about LongMemEval, for all cases, limits and cutoffs.            *)
(***************************************************************************)
EXTENDS LongMemEval, FiniteSetTheorems, WellFoundedInduction, TLAPS

----------------------------------------------------------------------------
(* Recursion over numbers, and sums over sets *)

\* The numbers up to n are n.
LEMMA UpTo ==
  ASSUME NEW n \in Nat
  PROVE  IsFiniteSet(1 .. n) /\ Cardinality(1 .. n) = n
BY FS_Interval

\* A nonempty set of numbers has a least one: what induction is made of here.
LEMMA LeastElement ==
  ASSUME NEW S \in SUBSET Nat, S # {}
  PROVE  \E m \in S : \A k \in S : m <= k
<1> DEFINE Less == {p \in Nat \X Nat : p[1] < p[2]}
<1>1. IsWellFoundedOn(Less, Nat)
  BY NatLessThanWellFounded DEF OpToRel
<1>2. PICK m \in S : \A k \in S : ~(<<k, m>> \in Less)
  BY <1>1, WFMin, Zenon
<1>3. \A k \in S : ~(k < m)
  BY <1>2
<1> QED BY <1>3

\* A value for 0 and a step define the values up to any number.
Steps(f, n, base, next) ==
  f = [k \in 0 .. n |-> IF k = 0 THEN base ELSE next[<<f[k - 1], k>>]]

\* There is a function with these values.
LEMMA RecursionDefined ==
  ASSUME NEW n \in Nat, NEW S, NEW base \in S, NEW next \in [S \X (1 .. n) -> S]
  PROVE  \E f \in [0 .. n -> S] : Steps(f, n, base, next)
<1> DEFINE Right(f, m) == f[0] = base /\ \A k \in 1 .. m : f[k] = next[<<f[k - 1], k>>]
           Up(m) == \E f \in [0 .. m -> S] : Right(f, m)
           Wrong == {m \in 0 .. n : ~Up(m)}
<1>1. ASSUME NEW m \in 1 .. n, NEW g \in [0 .. m - 1 -> S], Right(g, m - 1) PROVE Up(m)
  <2> DEFINE f == [k \in 0 .. m |-> IF k = m THEN next[<<g[m - 1], m>>] ELSE g[k]]
  <2>1. g[m - 1] \in S /\ \A k \in 0 .. m : k # m => k \in 0 .. m - 1
    OBVIOUS
  <2>2. next[<<g[m - 1], m>>] \in S
    BY <2>1
  <2>3. f \in [0 .. m -> S]
    BY <2>1, <2>2
  <2>4. f[m] = next[<<g[m - 1], m>>] /\ \A k \in 0 .. m - 1 : f[k] = g[k]
    OBVIOUS
  <2> HIDE DEF f
  <2>5. f[0] = base
    BY <1>1, <2>4
  <2>6. ASSUME NEW k \in 1 .. m PROVE f[k] = next[<<f[k - 1], k>>]
    <3>1. k - 1 \in 0 .. m - 1 /\ f[k - 1] = g[k - 1]
      BY <2>4
    <3>2. CASE k = m
      BY <3>1, <3>2, <2>4
    <3>3. CASE k # m
      <4>1. k \in 1 .. m - 1 /\ f[k] = g[k]
        BY <3>3, <2>4
      <4> QED BY <4>1, <3>1, <1>1
    <3> QED BY <3>2, <3>3
  <2> QED BY <2>3, <2>5, <2>6
<1>2. Up(0)
  <2> DEFINE f == [k \in 0 .. 0 |-> base]
  <2>1. f \in [0 .. 0 -> S] /\ f[0] = base /\ 1 .. 0 = {}
    OBVIOUS
  <2> QED BY <2>1
<1>3. \A m \in 1 .. n : Up(m - 1) => Up(m)
  BY <1>1, Zenon
<1> HIDE DEF Up
<1>4. ASSUME Wrong # {} PROVE FALSE
  <2>1. Wrong \in SUBSET Nat
    OBVIOUS
  <2> HIDE DEF Wrong
  <2>2. PICK m \in Wrong : \A k \in Wrong : m <= k
    BY <1>4, <2>1, LeastElement
  <2> USE DEF Wrong
  <2>3. m \in 0 .. n /\ ~Up(m) /\ m # 0
    BY <1>2
  <2>4. m \in 1 .. n /\ m - 1 \in 0 .. n /\ ~(m <= m - 1)
    BY <2>3
  <2>5. Up(m - 1)
    BY <2>2, <2>4
  <2> QED BY <1>3, <2>3, <2>4, <2>5
<1>5. Up(n)
  BY <1>4
<1>6. PICK f \in [0 .. n -> S] : Right(f, n)
  BY <1>5 DEF Up
<1>7. Steps(f, n, base, next)
  <2>1. ASSUME NEW k \in 0 .. n PROVE f[k] = IF k = 0 THEN base ELSE next[<<f[k - 1], k>>]
    BY <1>6
  <2> QED BY <2>1 DEF Steps
<1> QED BY <1>6, <1>7

\* What is true of the first value and kept by the step is true of all.
LEMMA Stepwise ==
  ASSUME NEW n \in Nat, NEW Good, 0 \in Good, \A k \in 1 .. n : k - 1 \in Good => k \in Good
  PROVE  \A k \in 0 .. n : k \in Good
<1> DEFINE Wrong == {m \in 0 .. n : m \notin Good}
<1>1. ASSUME Wrong # {} PROVE FALSE
  <2>1. Wrong \in SUBSET Nat
    OBVIOUS
  <2> HIDE DEF Wrong
  <2>2. PICK m \in Wrong : \A k \in Wrong : m <= k
    BY <1>1, <2>1, LeastElement
  <2> USE DEF Wrong
  <2>3. m # 0 /\ m \in 1 .. n /\ m - 1 \in 0 .. n /\ ~(m <= m - 1)
    OBVIOUS
  <2>4. m - 1 \in Good
    BY <2>2, <2>3
  <2> QED BY <2>3, <2>4
<1> QED BY <1>1

\* The sums over the subsets of a set, as the library defines them.
Some(s) == CHOOSE x \in s : TRUE
Sums(g, f, D) ==
  g = [s \in SUBSET D |-> IF s = {} THEN 0 ELSE f[Some(s)] + g[s \ {Some(s)}]]

\* The library's sum is the chosen function of sums, at the whole set.
LEMMA SumsChosen ==
  ASSUME NEW f, NEW D
  PROVE  SumFunctionOnSet(f, D) = (CHOOSE g : Sums(g, f, D))[D]
BY DEF SumFunctionOnSet, FoldFunctionOnSet, MapThenFoldSet, Sums, Some

\* Over a finite set there are such sums.
LEMMA SumsExist ==
  ASSUME NEW D, IsFiniteSet(D), NEW f, \A x \in D : f[x] \in Nat
  PROVE  \E g \in [SUBSET D -> Nat] : Sums(g, f, D)
<1> DEFINE n == Cardinality(D)
           S == [SUBSET D -> Nat]
           base == [s \in SUBSET D |-> 0]
           step(g) == [s \in SUBSET D |-> IF s = {} THEN 0 ELSE f[Some(s)] + g[s \ {Some(s)}]]
           next == [p \in S \X (1 .. n + 1) |-> step(p[1])]
<1>1. n \in Nat /\ base \in S
  BY FS_CardinalityType
<1>2. \A s \in SUBSET D : s # {} => Some(s) \in s /\ s \ {Some(s)} \in SUBSET D
  BY DEF Some
<1>3. ASSUME NEW g \in S PROVE step(g) \in S
  <2>1. ASSUME NEW s \in SUBSET D PROVE (IF s = {} THEN 0 ELSE f[Some(s)] + g[s \ {Some(s)}]) \in Nat
    <3>1. CASE s = {}
      BY <3>1
    <3>2. CASE s # {}
      <4>1. f[Some(s)] \in Nat /\ g[s \ {Some(s)}] \in Nat
        BY <1>2, <3>2
      <4> QED BY <4>1
    <3> QED BY <3>1, <3>2
  <2> QED BY <2>1
<1> HIDE DEF base, step
<1>4. next \in [S \X (1 .. n + 1) -> S]
  BY <1>3
<1>5. n + 1 \in Nat
  BY <1>1
<1> HIDE DEF n, S, next
<1>6. PICK w \in [0 .. n + 1 -> S] : Steps(w, n + 1, base, next)
  BY <1>1, <1>4, <1>5, RecursionDefined, Zenon
<1>7. /\ w[0] = base
      /\ \A i \in 1 .. n + 1 : w[i] = step(w[i - 1])
  <2>1. \A k \in 0 .. n + 1 : w[k] = IF k = 0 THEN base ELSE next[<<w[k - 1], k>>]
    BY <1>6 DEF Steps
  <2>2. ASSUME NEW i \in 1 .. n + 1 PROVE w[i] = step(w[i - 1])
    <3>1. i \in 0 .. n + 1 /\ i - 1 \in 0 .. n + 1 /\ i # 0
      BY <1>1
    <3>2. w[i] = next[<<w[i - 1], i>>] /\ w[i - 1] \in S
      BY <2>1, <3>1, <1>6
    <3> QED BY <3>2 DEF next
  <2>3. 0 \in 0 .. n + 1
    BY <1>1
  <2> QED BY <2>1, <2>2, <2>3
<1> DEFINE Good == {i \in 0 .. n : \A s \in SUBSET D : Cardinality(s) <= i => w[i + 1][s] = w[i][s]}
<1>8. \A g \in S, s \in SUBSET D : step(g)[s] = IF s = {} THEN 0 ELSE f[Some(s)] + g[s \ {Some(s)}]
  BY DEF step
<1>9. \A s \in SUBSET D : IsFiniteSet(s) /\ Cardinality(s) \in Nat /\ Cardinality(s) <= n
  BY FS_Subset, FS_CardinalityType DEF n
<1>10. 0 \in Good
  <2>1. ASSUME NEW s \in SUBSET D, Cardinality(s) <= 0 PROVE w[1][s] = w[0][s]
    <3>1. s = {}
      BY <1>9, <2>1, FS_EmptySet
    <3>2. w[1] = step(w[0]) /\ w[0] \in S
      BY <1>1, <1>6, <1>7
    <3> QED BY <3>1, <3>2, <1>7, <1>8 DEF base
  <2> QED BY <2>1, <1>1
<1>11. ASSUME NEW k \in 1 .. n, k - 1 \in Good PROVE k \in Good
  <2>1. ASSUME NEW s \in SUBSET D, Cardinality(s) <= k PROVE w[k + 1][s] = w[k][s]
    <3>1. w[k + 1] = step(w[k]) /\ w[k] = step(w[k - 1]) /\ w[k] \in S /\ w[k - 1] \in S
      BY <1>1, <1>6, <1>7
    <3>2. CASE s = {}
      BY <3>1, <3>2, <1>8
    <3>3. CASE s # {}
      <4> DEFINE t == s \ {Some(s)}
      <4>1. t \in SUBSET D /\ Cardinality(t) <= k - 1
        BY <3>3, <1>2, <1>9, <2>1, FS_RemoveElement
      <4>2. w[k][t] = w[k - 1][t]
        BY <4>1, <1>11
      <4> QED BY <4>2, <3>1, <3>3, <1>8
    <3> QED BY <3>2, <3>3
  <2> QED BY <2>1
<1>12. \A k \in 0 .. n : k \in Good
  <2> HIDE DEF Good
  <2> QED BY <1>1, <1>10, <1>11, Stepwise, Zenon
<1>13. w[n] \in S /\ w[n + 1] = step(w[n])
  BY <1>1, <1>6, <1>7
<1>14. ASSUME NEW s \in SUBSET D
       PROVE  w[n][s] = IF s = {} THEN 0 ELSE f[Some(s)] + w[n][s \ {Some(s)}]
  <2>1. w[n + 1][s] = w[n][s]
    BY <1>12, <1>9, <1>1
  <2> QED BY <2>1, <1>13, <1>8
<1>15. w[n] = [s \in SUBSET D |-> IF s = {} THEN 0 ELSE f[Some(s)] + w[n][s \ {Some(s)}]]
  BY <1>13, <1>14 DEF S
<1> QED BY <1>13, <1>15 DEF Sums, S

\* Two functions of sums agree on the sets both know.
LEMMA SumsUnique ==
  ASSUME NEW D, NEW E, IsFiniteSet(D), NEW f, NEW g, NEW h, Sums(g, f, D), Sums(h, f, E)
  PROVE  \A s \in SUBSET (D \cap E) : g[s] = h[s]
<1> DEFINE n == Cardinality(D)
           Good == {i \in 0 .. n : \A s \in SUBSET (D \cap E) : Cardinality(s) <= i => g[s] = h[s]}
<1>1. \A s \in SUBSET D : IsFiniteSet(s) /\ Cardinality(s) \in Nat /\ Cardinality(s) <= n
  BY FS_Subset, FS_CardinalityType
<1>2. n \in Nat
  BY FS_CardinalityType
<1> HIDE DEF n
<1>3. \A s \in SUBSET (D \cap E) : s # {} => Some(s) \in s /\ s \ {Some(s)} \in SUBSET (D \cap E)
  BY DEF Some
<1>4. \A s \in SUBSET (D \cap E) :
        /\ g[s] = IF s = {} THEN 0 ELSE f[Some(s)] + g[s \ {Some(s)}]
        /\ h[s] = IF s = {} THEN 0 ELSE f[Some(s)] + h[s \ {Some(s)}]
  <2>1. \A s \in SUBSET D : g[s] = IF s = {} THEN 0 ELSE f[Some(s)] + g[s \ {Some(s)}]
    BY DEF Sums
  <2>2. \A s \in SUBSET E : h[s] = IF s = {} THEN 0 ELSE f[Some(s)] + h[s \ {Some(s)}]
    BY DEF Sums
  <2> QED BY <2>1, <2>2
<1>5. 0 \in Good
  <2>1. ASSUME NEW s \in SUBSET (D \cap E), Cardinality(s) <= 0 PROVE g[s] = h[s]
    <3>1. s = {}
      BY <1>1, <2>1, FS_EmptySet
    <3> QED BY <3>1, <1>4
  <2> QED BY <2>1, <1>2
<1>6. ASSUME NEW k \in 1 .. n, k - 1 \in Good PROVE k \in Good
  <2>1. ASSUME NEW s \in SUBSET (D \cap E), Cardinality(s) <= k PROVE g[s] = h[s]
    <3>1. CASE s = {}
      BY <3>1, <1>4
    <3>2. CASE s # {}
      <4> DEFINE t == s \ {Some(s)}
      <4>1. t \in SUBSET (D \cap E) /\ Cardinality(t) <= k - 1
        BY <3>2, <1>1, <1>3, <2>1, FS_RemoveElement
      <4>2. g[t] = h[t]
        BY <4>1, <1>6
      <4> QED BY <4>2, <1>4, <3>2
    <3> QED BY <3>1, <3>2
  <2> QED BY <2>1
<1>7. \A k \in 0 .. n : k \in Good
  <2> HIDE DEF Good
  <2> QED BY <1>2, <1>5, <1>6, Stepwise, Zenon
<1>8. ASSUME NEW s \in SUBSET (D \cap E) PROVE g[s] = h[s]
  BY <1>7, <1>1, <1>2
<1> QED BY <1>8

\* A sum is that of the rest and of one element, whichever.
LEMMA SumAdds ==
  ASSUME NEW D, IsFiniteSet(D), NEW f, \A x \in D : f[x] \in Nat
  PROVE  /\ SumFunctionOnSet(f, {}) = 0
         /\ \A s \in SUBSET D : SumFunctionOnSet(f, s) \in Nat
         /\ \A s \in SUBSET D : \A x \in s :
              SumFunctionOnSet(f, s) = f[x] + SumFunctionOnSet(f, s \ {x})
<1>1. PICK g \in [SUBSET D -> Nat] : Sums(g, f, D)
  BY SumsExist
<1>2. ASSUME NEW s \in SUBSET D PROVE SumFunctionOnSet(f, s) = g[s]
  <2>1. IsFiniteSet(s) /\ \A x \in s : f[x] \in Nat
    BY FS_Subset
  <2>2. \E h : Sums(h, f, s)
    BY <2>1, SumsExist
  <2> DEFINE h == CHOOSE h : Sums(h, f, s)
  <2>3. Sums(h, f, s) /\ SumFunctionOnSet(f, s) = h[s]
    BY <2>2, SumsChosen
  <2> HIDE DEF h
  <2>4. \A t \in SUBSET (D \cap s) : g[t] = h[t]
    BY <1>1, <2>3, SumsUnique
  <2> QED BY <2>3, <2>4
<1>3. \A s \in SUBSET D : g[s] = IF s = {} THEN 0 ELSE f[Some(s)] + g[s \ {Some(s)}]
  BY <1>1 DEF Sums
<1> DEFINE n == Cardinality(D)
           Good == {i \in 0 .. n : \A s \in SUBSET D : Cardinality(s) <= i =>
                       \A x \in s : g[s] = f[x] + g[s \ {x}]}
<1>4. \A s \in SUBSET D : IsFiniteSet(s) /\ Cardinality(s) \in Nat /\ Cardinality(s) <= n
  BY FS_Subset, FS_CardinalityType
<1>5. n \in Nat
  BY FS_CardinalityType
<1> HIDE DEF n
<1>6. 0 \in Good
  <2>1. ASSUME NEW s \in SUBSET D, Cardinality(s) <= 0 PROVE s = {}
    BY <1>4, <2>1, FS_EmptySet
  <2> QED BY <2>1, <1>5
<1>7. ASSUME NEW k \in 1 .. n, k - 1 \in Good PROVE k \in Good
  <2>1. ASSUME NEW s \in SUBSET D, Cardinality(s) <= k, NEW x \in s
        PROVE  g[s] = f[x] + g[s \ {x}]
    <3> DEFINE y == Some(s)
               t == s \ {y}
               u == s \ {x}
               v == (s \ {x}) \ {y}
    <3>1. y \in s
      BY DEF Some
    <3> HIDE DEF y
    <3>2. g[s] = f[y] + g[t]
      BY <1>3, <2>1 DEF y
    <3>3. CASE x = y
      BY <3>2, <3>3
    <3>4. CASE x # y
      <4>1. t \in SUBSET D /\ u \in SUBSET D /\ v \in SUBSET D /\ x \in t /\ y \in u /\ v = t \ {x} /\ v = u \ {y}
        BY <3>1, <3>4
      <4>2. Cardinality(t) <= k - 1 /\ Cardinality(u) <= k - 1
        BY <3>1, <1>4, <2>1, FS_RemoveElement
      <4>3. \A w \in SUBSET D : Cardinality(w) <= k - 1 => \A z \in w : g[w] = f[z] + g[w \ {z}]
        BY <1>7
      <4> HIDE DEF t, u, v
      <4>5. g[t] = f[x] + g[v] /\ g[u] = f[y] + g[v]
        BY <4>1, <4>2, <4>3
      <4>4. f[x] \in Nat /\ f[y] \in Nat /\ g[v] \in Nat
        BY <4>1, <3>1
      <4> QED BY <3>2, <4>4, <4>5 DEF t, u
    <3> QED BY <3>3, <3>4
  <2> QED BY <2>1
<1>8. \A k \in 0 .. n : k \in Good
  <2> HIDE DEF Good
  <2> QED BY <1>5, <1>6, <1>7, Stepwise, Zenon
<1>9. ASSUME NEW s \in SUBSET D, NEW x \in s PROVE g[s] = f[x] + g[s \ {x}]
  BY <1>8, <1>4, <1>5
<1>10. g[{}] = 0
  BY <1>3
<1>11. SumFunctionOnSet(f, {}) = 0 /\ \A s \in SUBSET D : SumFunctionOnSet(f, s) \in Nat
  BY <1>2, <1>10
<1>12. ASSUME NEW s \in SUBSET D, NEW x \in s
       PROVE  SumFunctionOnSet(f, s) = f[x] + SumFunctionOnSet(f, s \ {x})
  BY <1>2, <1>9
<1> QED BY <1>11, <1>12

----------------------------------------------------------------------------
(* Sequences in a row *)

\* Sequences in a row: the last one comes last.
\* f holds what the library puts in a row of the first n of q.
RowOf(f, q, n) == \A i \in 1 .. n : f[i] = IF i = 1 THEN q[i] ELSE f[i - 1] \o q[i]
Agree(q, r, n) == \A i \in 1 .. n : q[i] = r[i]

\* Rows that join the same lists are the same.
LEMMA RowsAgree ==
  ASSUME NEW n \in Nat, NEW f, NEW g, NEW q, NEW r, Agree(q, r, n), RowOf(f, q, n), RowOf(g, r, n)
  PROVE  Agree(f, g, n)
<1> USE DEF RowOf, Agree
<1> DEFINE Good == {i \in 0 .. n : i # 0 => g[i] = f[i]}
<1>1. 0 \in Good
  OBVIOUS
<1>2. ASSUME NEW k \in 1 .. n, k - 1 \in Good PROVE k \in Good
  <2>1. CASE k = 1
    BY <2>1
  <2>2. CASE k # 1
    <3>1. k - 1 \in 1 .. n /\ g[k - 1] = f[k - 1]
      BY <2>2, <1>2
    <3>2. f[k] = f[k - 1] \o q[k] /\ g[k] = g[k - 1] \o r[k] /\ q[k] = r[k]
      BY <2>2
    <3> QED BY <3>1, <3>2
  <2> QED BY <2>1, <2>2
<1> HIDE DEF Good
<1>3. \A k \in 0 .. n : k \in Good
  BY <1>1, <1>2, Stepwise, Zenon
<1> USE DEF Good
<1> QED BY <1>3

\* The library's recursion over sequences in a row is defined.
LEMMA RowExists ==
  ASSUME NEW S, NEW q \in Seq(Seq(S)), Len(q) # 0
  PROVE  \E f \in [1 .. Len(q) -> Seq(S)] :
           RowOf(f, q, Len(q)) /\ FlattenSeq(q) = f[Len(q)]
<1> DEFINE n == Len(q)
           T == Seq(S)
           next == [p \in T \X (1 .. n) |-> p[1] \o q[p[2]]]
<1>1. n \in Nat /\ n \in 1 .. n /\ <<>> \in T /\ next \in [T \X (1 .. n) -> T]
  OBVIOUS
<1>2. \A i \in 1 .. n : q[i] \in T
  OBVIOUS
<1>3. FlattenSeq(q) = (CHOOSE g : g = [i \in 1 .. n |-> IF i = 1 THEN q[i] ELSE g[i - 1] \o q[i]])[n]
  BY DEF FlattenSeq
<1>4. \A t \in T, i \in 1 .. n : next[<<t, i>>] = t \o q[i]
  OBVIOUS
<1>5. \A t \in T : <<>> \o t = t
  OBVIOUS
<1> DEFINE none == <<>>
<1>none. none \in T /\ \A t \in T : none \o t = t
  BY <1>1, <1>5
<1> HIDE DEF n, next, T, none
<1>6. PICK w \in [0 .. n -> T] : Steps(w, n, none, next)
  BY <1>1, <1>none, RecursionDefined
<1>7. \A k \in 0 .. n : w[k] = IF k = 0 THEN none ELSE next[<<w[k - 1], k>>]
  BY <1>6 DEF Steps
<1>8. w[0] = none
  <2>1. 0 \in 0 .. n
    BY <1>1
  <2> QED BY <2>1, <1>7
<1>9. ASSUME NEW k \in 1 .. n PROVE w[k] = w[k - 1] \o q[k] /\ w[k] \in T /\ w[k - 1] \in T
  <2>1. k \in 0 .. n /\ k - 1 \in 0 .. n /\ k # 0
    BY <1>1
  <2>2. w[k] = next[<<w[k - 1], k>>] /\ w[k] \in T /\ w[k - 1] \in T
    BY <1>6, <1>7, <2>1
  <2> QED BY <2>2, <1>4
<1> DEFINE f == [i \in 1 .. n |-> w[i]]
<1>10. f \in [1 .. n -> T]
  BY <1>9
<1>11. ASSUME NEW i \in 1 .. n PROVE f[i] = IF i = 1 THEN q[i] ELSE f[i - 1] \o q[i]
  <2>1. CASE i = 1
    <3>1. w[i] = w[i - 1] \o q[i]
      BY <1>9
    <3>2. i - 1 = 0 /\ q[i] \in T
      BY <1>2, <2>1
    <3>3. w[i] = q[i]
      BY <3>1, <3>2, <1>none, <1>8
    <3> QED BY <3>3, <2>1
  <2>2. CASE i # 1
    <3>1. i - 1 \in 1 .. n
      BY <2>2, <1>1
    <3> QED BY <3>1, <2>2, <1>9
  <2> QED BY <2>1, <2>2
<1>12. f = [i \in 1 .. n |-> IF i = 1 THEN q[i] ELSE f[i - 1] \o q[i]]
  <2>1. f = [i \in 1 .. n |-> f[i]]
    OBVIOUS
  <2> HIDE DEF f
  <2> QED BY <1>11, <2>1
<1> HIDE DEF f
<1> DEFINE g == CHOOSE g : g = [i \in 1 .. n |-> IF i = 1 THEN q[i] ELSE g[i - 1] \o q[i]]
<1>13. g = [i \in 1 .. n |-> IF i = 1 THEN q[i] ELSE g[i - 1] \o q[i]]
  BY <1>12, Zenon
<1>14. FlattenSeq(q) = g[n]
  BY <1>3
<1> HIDE DEF g
<1>15. \A i \in 1 .. n : g[i] = IF i = 1 THEN q[i] ELSE g[i - 1] \o q[i]
  BY <1>13
<1>16. \A i \in 1 .. n : f[i] = g[i]
  <2>1. RowOf(f, q, n)
    BY <1>11 DEF RowOf
  <2>2. RowOf(g, q, n)
    BY <1>15 DEF RowOf
  <2>3. Agree(q, q, n)
    BY DEF Agree
  <2>4. Agree(f, g, n)
    BY <1>1, <2>1, <2>2, <2>3, RowsAgree
  <2> QED BY <2>4 DEF Agree
<1>17. FlattenSeq(q) = f[n]
  BY <1>1, <1>14, <1>16
<1>18. f \in [1 .. n -> T] /\ RowOf(f, q, n) /\ FlattenSeq(q) = f[n]
  BY <1>10, <1>11, <1>17 DEF RowOf
<1> QED BY <1>18 DEF n, T

\* What is in a row: a sequence, to which the last adds itself.
LEMMA FlattenAdds ==
  ASSUME NEW S, NEW seqs \in Seq(Seq(S)), NEW s \in Seq(S)
  PROVE  /\ FlattenSeq(seqs) \in Seq(S)
         /\ FlattenSeq(<<>>) = <<>>
         /\ FlattenSeq(Append(seqs, s)) = FlattenSeq(seqs) \o s
<1>1. FlattenSeq(<<>>) = <<>>
  BY DEF FlattenSeq
<1>2. Len(seqs) = 0 => seqs = <<>>
  OBVIOUS
<1> DEFINE both == Append(seqs, s)
           n == Len(seqs)
           m == Len(both)
<1>3. n \in Nat /\ m = n + 1 /\ both \in Seq(Seq(S)) /\ both[m] = s /\ \A i \in 1 .. n : both[i] = seqs[i]
  OBVIOUS
<1>4. m # 0 /\ m \in 1 .. m /\ m - 1 = n
  BY <1>3
<1> HIDE DEF both
<1>5. PICK f \in [1 .. m -> Seq(S)] :
        RowOf(f, both, m) /\ FlattenSeq(both) = f[m]
  BY <1>3, <1>4, RowExists
<1> HIDE DEF m, n
<1>6. FlattenSeq(both) = IF m = 1 THEN s ELSE f[n] \o s
  <2>1. f[m] = IF m = 1 THEN both[m] ELSE f[m - 1] \o both[m]
    BY <1>4, <1>5 DEF RowOf
  <2> QED BY <2>1, <1>3, <1>4, <1>5
<1>7. CASE n = 0
  <2>1. seqs = <<>> /\ m = 1
    BY <1>2, <1>3, <1>7 DEF n
  <2>2. <<>> \o s = s /\ <<>> \in Seq(S)
    OBVIOUS
  <2>3. FlattenSeq(seqs) = <<>>
    BY <2>1, <1>1
  <2> QED BY <2>1, <2>2, <2>3, <1>1, <1>6 DEF both
<1>8. CASE n # 0
  <2>1. PICK h \in [1 .. n -> Seq(S)] : RowOf(h, seqs, n) /\ FlattenSeq(seqs) = h[n]
    BY <1>8, RowExists DEF n
  <2>2. RowOf(f, both, n)
    <3>1. \A i \in 1 .. n : i \in 1 .. m
      BY <1>3
    <3> QED BY <3>1, <1>5, Zenon DEF RowOf
  <2>3. \A i \in 1 .. n : h[i] = f[i]
    <3>1. Agree(seqs, both, n)
      BY <1>3 DEF Agree
    <3>2. Agree(h, f, n)
      BY <3>1, <1>3, <2>1, <2>2, RowsAgree
    <3> QED BY <3>2 DEF Agree
  <2>4. n \in 1 .. n /\ m # 1
    BY <1>3, <1>8
  <2>5. h[n] = f[n] /\ h[n] \in Seq(S)
    BY <2>1, <2>3, <2>4
  <2> QED BY <2>1, <2>4, <2>5, <1>1, <1>6 DEF both
<1> QED BY <1>7, <1>8

\* Where in a row of sequences each of them ends.
Ends(seqs) == [k \in 0 .. Len(seqs) |-> Len(FlattenSeq(SubSeq(seqs, 1, k)))]

\* Everything in a row is at a place of its own, and nothing else is.
LEMMA FlattenPlaces ==
  ASSUME NEW S, NEW seqs \in Seq(Seq(S))
  PROVE  /\ FlattenSeq(seqs) \in Seq(S)
         /\ Ends(seqs) \in [0 .. Len(seqs) -> Nat]
         /\ Ends(seqs)[0] = 0 /\ Ends(seqs)[Len(seqs)] = Len(FlattenSeq(seqs))
         /\ \A i \in 1 .. Len(seqs) : Ends(seqs)[i] = Ends(seqs)[i - 1] + Len(seqs[i])
         /\ \A i \in 0 .. Len(seqs) : \A h \in 0 .. i : Ends(seqs)[h] <= Ends(seqs)[i]
         /\ \A i \in 1 .. Len(seqs) : \A j \in 1 .. Len(seqs[i]) :
              FlattenSeq(seqs)[Ends(seqs)[i - 1] + j] = seqs[i][j]
         /\ \A p \in 1 .. Len(FlattenSeq(seqs)) :
              \E i \in 1 .. Len(seqs) : \E j \in 1 .. Len(seqs[i]) : p = Ends(seqs)[i - 1] + j
<1> DEFINE n == Len(seqs)
           F == [k \in 0 .. n |-> FlattenSeq(SubSeq(seqs, 1, k))]
           O == Ends(seqs)
<1>1. n \in Nat /\ F[n] = FlattenSeq(seqs) /\ \A i \in 1 .. n : seqs[i] \in Seq(S)
  <2>1. SubSeq(seqs, 1, n) = seqs /\ n \in 0 .. n /\ n \in Nat /\ \A i \in 1 .. n : seqs[i] \in Seq(S)
    OBVIOUS
  <2>2. F[n] = FlattenSeq(SubSeq(seqs, 1, n))
    BY <2>1
  <2> HIDE DEF F
  <2>3. F[n] = FlattenSeq(seqs)
    BY <2>1, <2>2, Zenon
  <2> QED BY <2>1, <2>3
<1>2. F[0] = <<>>
  <2>1. SubSeq(seqs, 1, 0) = <<>> /\ 0 \in 0 .. n /\ <<>> \in Seq(S)
    BY <1>1
  <2>2. FlattenSeq(<<>>) = <<>>
    BY <2>1, FlattenAdds
  <2> QED BY <2>1, <2>2
<1>3. ASSUME NEW k \in 1 .. n PROVE F[k] = F[k - 1] \o seqs[k] /\ F[k - 1] \in Seq(S)
  <2> DEFINE less == SubSeq(seqs, 1, k - 1)
  <2>1. less \in Seq(Seq(S)) /\ SubSeq(seqs, 1, k) = Append(less, seqs[k])
    OBVIOUS
  <2>2. FlattenSeq(Append(less, seqs[k])) = FlattenSeq(less) \o seqs[k] /\ FlattenSeq(less) \in Seq(S)
    BY <1>1, <2>1, FlattenAdds
  <2>3. k \in 0 .. n /\ k - 1 \in 0 .. n
    BY <1>1
  <2> QED BY <2>1, <2>2, <2>3
<1>4. \A k \in 0 .. n : O[k] = Len(F[k])
  BY DEF Ends
<1>5. O = [k \in 0 .. n |-> O[k]]
  BY DEF Ends
<1> HIDE DEF n, F, O
<1>6. ASSUME NEW k \in 0 .. n PROVE F[k] \in Seq(S)
  <2>1. CASE k = 0
    BY <2>1, <1>2
  <2>2. CASE k # 0
    <3>1. k \in 1 .. n
      BY <2>2, <1>1
    <3>2. F[k] = F[k - 1] \o seqs[k] /\ F[k - 1] \in Seq(S) /\ seqs[k] \in Seq(S)
      BY <3>1, <1>3, <1>1
    <3> QED BY <3>2
  <2> QED BY <2>1, <2>2
<1>7. \A k \in 0 .. n : O[k] \in Nat /\ Len(F[k]) = O[k]
  BY <1>4, <1>6
<1>8. ASSUME NEW k \in 1 .. n
      PROVE  /\ O[k] = O[k - 1] + Len(seqs[k]) /\ O[k - 1] \in Nat /\ O[k] \in Nat /\ k - 1 \in 0 .. n /\ k \in 0 .. n
             /\ \A p \in 1 .. O[k - 1] : F[k][p] = F[k - 1][p]
             /\ \A j \in 1 .. Len(seqs[k]) : F[k][O[k - 1] + j] = seqs[k][j]
  <2>1. k - 1 \in 0 .. n /\ k \in 0 .. n
    BY <1>1
  <2>2. F[k] = F[k - 1] \o seqs[k] /\ F[k - 1] \in Seq(S) /\ seqs[k] \in Seq(S)
    BY <1>1, <1>3
  <2>3. O[k - 1] = Len(F[k - 1]) /\ O[k] = Len(F[k]) /\ O[k - 1] \in Nat /\ O[k] \in Nat
    BY <1>7, <2>1
  <2>4. O[k] = O[k - 1] + Len(seqs[k])
    BY <2>2, <2>3
  <2> DEFINE a == F[k - 1]
             b == seqs[k]
  <2>7. a \in Seq(S) /\ b \in Seq(S) /\ Len(a) = O[k - 1] /\ F[k] = a \o b
    BY <2>2, <2>3
  <2> HIDE DEF a, b
  <2>8. (\A p \in 1 .. Len(a) : (a \o b)[p] = a[p]) /\ (\A j \in 1 .. Len(b) : (a \o b)[Len(a) + j] = b[j])
    BY <2>7
  <2>5. \A p \in 1 .. O[k - 1] : F[k][p] = a[p]
    BY <2>7, <2>8
  <2>6. \A j \in 1 .. Len(b) : F[k][O[k - 1] + j] = b[j]
    BY <2>7, <2>8
  <2> USE DEF a, b
  <2> QED BY <2>1, <2>3, <2>4, <2>5, <2>6
<1>9. O[0] = 0
  BY <1>1, <1>2, <1>4
<1> DEFINE Rising(k) == \A h \in 0 .. k : O[h] <= O[k]
           Held(k) == \A i \in 1 .. k : \A j \in 1 .. Len(seqs[i]) : F[k][O[i - 1] + j] = seqs[i][j]
           Met(k) == \A p \in 1 .. O[k] : \E i \in 1 .. k : \E j \in 1 .. Len(seqs[i]) : p = O[i - 1] + j
           Good == {k \in 0 .. n : Rising(k) /\ Held(k) /\ Met(k)}
<1>10. 0 \in Good
  BY <1>1, <1>9
<1>11. ASSUME NEW k \in 1 .. n, k - 1 \in Good PROVE k \in Good
  <2>1. Rising(k - 1) /\ Held(k - 1) /\ Met(k - 1)
    BY <1>11
  <2>2. \A i \in 1 .. n : Len(seqs[i]) \in Nat
    BY <1>1
  <2>3. Rising(k)
    <3>1. ASSUME NEW h \in 0 .. k PROVE O[h] <= O[k]
      <4>1. CASE h = k
        BY <4>1, <1>8
      <4>2. CASE h # k
        <5>1. h \in 0 .. k - 1 /\ h \in 0 .. n
          BY <4>2, <1>1
        <5>2. O[h] <= O[k - 1] /\ O[h] \in Nat
          BY <5>1, <2>1, <1>7
        <5> QED BY <5>2, <1>8, <2>2
      <4> QED BY <4>1, <4>2
    <3> QED BY <3>1
  <2>4. Held(k)
    <3>1. ASSUME NEW i \in 1 .. k, NEW j \in 1 .. Len(seqs[i]) PROVE F[k][O[i - 1] + j] = seqs[i][j]
      <4>1. CASE i = k
        BY <4>1, <1>8
      <4>2. CASE i # k
        <5>1. i \in 1 .. k - 1 /\ i \in 1 .. n /\ i \in 0 .. k - 1
          BY <4>2, <1>1
        <5>2. F[k - 1][O[i - 1] + j] = seqs[i][j]
          BY <5>1, <2>1
        <5>3. O[i] = O[i - 1] + Len(seqs[i]) /\ O[i] <= O[k - 1] /\ O[i - 1] \in Nat /\ O[k - 1] \in Nat
          BY <5>1, <2>1, <1>8
        <5>4. O[i - 1] + j \in 1 .. O[k - 1]
          BY <5>1, <5>3, <2>2
        <5> QED BY <5>2, <5>4, <1>8
      <4> QED BY <4>1, <4>2
    <3> QED BY <3>1
  <2>5. Met(k)
    <3>1. ASSUME NEW p \in 1 .. O[k] PROVE \E i \in 1 .. k : \E j \in 1 .. Len(seqs[i]) : p = O[i - 1] + j
      <4>1. CASE p <= O[k - 1]
        <5>1. p \in 1 .. O[k - 1]
          BY <4>1, <1>8
        <5>2. PICK i \in 1 .. k - 1 : \E j \in 1 .. Len(seqs[i]) : p = O[i - 1] + j
          BY <5>1, <2>1
        <5>3. i \in 1 .. k
          OBVIOUS
        <5> QED BY <5>2, <5>3
      <4>2. CASE p > O[k - 1]
        <5>1. p - O[k - 1] \in 1 .. Len(seqs[k]) /\ p = O[k - 1] + (p - O[k - 1]) /\ k \in 1 .. k
          BY <4>2, <1>8, <2>2
        <5> QED BY <5>1
      <4> QED BY <4>1, <4>2, <1>8
    <3> QED BY <3>1
  <2> HIDE DEF Rising, Held, Met
  <2> QED BY <2>3, <2>4, <2>5, <1>8
<1>12. \A k \in 0 .. n : k \in Good
  <2> HIDE DEF Good
  <2> QED BY <1>1, <1>10, <1>11, Stepwise, Zenon
<1>13. \A k \in 0 .. n : Rising(k) /\ Held(k) /\ Met(k)
  <2> HIDE DEF Rising, Held, Met
  <2> QED BY <1>12
<1>14. n \in 0 .. n
  BY <1>1
<1>15. O[n] = Len(FlattenSeq(seqs)) /\ FlattenSeq(seqs) \in Seq(S)
  BY <1>1, <1>4, <1>6, <1>14
<1>16. O \in [0 .. n -> Nat]
  BY <1>5, <1>7
<1>17. \A i \in 1 .. n : O[i] = O[i - 1] + Len(seqs[i])
  BY <1>8
<1>18. Held(n) /\ Met(n)
  <2> HIDE DEF Held, Met
  <2> QED BY <1>13, <1>14
<1>19. \A i \in 0 .. n : \A h \in 0 .. i : O[h] <= O[i]
  <2> HIDE DEF Held, Met
  <2> QED BY <1>13
<1>20. /\ \A i \in 1 .. n : \A j \in 1 .. Len(seqs[i]) : FlattenSeq(seqs)[O[i - 1] + j] = seqs[i][j]
       /\ \A p \in 1 .. Len(FlattenSeq(seqs)) :
            \E i \in 1 .. n : \E j \in 1 .. Len(seqs[i]) : p = O[i - 1] + j
  BY <1>18, <1>1, <1>15
<1> QED BY <1>9, <1>15, <1>16, <1>17, <1>19, <1>20 DEF n, O

----------------------------------------------------------------------------
(* Chunks *)

Pair == Nat \X Nat

\* Chunks of the right size that hold all of X, each member once.
Tidy(Q, X, weight) ==
  /\ Q \in Seq(Seq(Pair))
  /\ \A i \in 1 .. Len(Q) :
       /\ Len(Q[i]) \in 1 .. MaxMessages
       /\ Len(Q[i]) = 1 \/ SumFunctionOnSet(weight, Range(Q[i])) <= MaxWords
  /\ \A i \in 1 .. Len(Q) : \A j \in 1 .. Len(Q[i]) : Q[i][j] \in X
  /\ \A x \in X : \E i \in 1 .. Len(Q) : \E j \in 1 .. Len(Q[i]) : Q[i][j] = x
  /\ \A i, k \in 1 .. Len(Q) : \A j \in 1 .. Len(Q[i]) : \A l \in 1 .. Len(Q[k]) :
       Q[i][j] = Q[k][l] => i = k /\ j = l

\* A new chunk of one.
LEMMA TidyNew ==
  ASSUME NEW Q, NEW X, NEW weight, Tidy(Q, X, weight), NEW t \in Pair, t \notin X
  PROVE  Tidy(Append(Q, <<t>>), X \cup {t}, weight)
<1> DEFINE n == Len(Q)
           R == Append(Q, <<t>>)
<1>1. n \in Nat /\ Q \in Seq(Seq(Pair)) /\ MaxMessages \in Nat \ {0}
  BY SizeAssumption DEF Tidy
<1>2. <<t>> \in Seq(Pair) /\ Len(<<t>>) = 1 /\ <<t>>[1] = t
  OBVIOUS
<1>3. R \in Seq(Seq(Pair)) /\ Len(R) = n + 1 /\ R[n + 1] = <<t>> /\ \A i \in 1 .. n : R[i] = Q[i]
  BY <1>1, <1>2
<1> HIDE DEF R, n
<1>4. \A i \in 1 .. n + 1 : i \in 1 .. n \/ i = n + 1
  BY <1>1
<1>5. /\ \A i \in 1 .. n : \A j \in 1 .. Len(Q[i]) : Q[i][j] \in X
      /\ \A x \in X : \E i \in 1 .. n : \E j \in 1 .. Len(Q[i]) : Q[i][j] = x
      /\ \A i, k \in 1 .. n : \A j \in 1 .. Len(Q[i]) : \A l \in 1 .. Len(Q[k]) :
           Q[i][j] = Q[k][l] => i = k /\ j = l
      /\ \A i \in 1 .. n :
           /\ Len(Q[i]) \in 1 .. MaxMessages
           /\ Len(Q[i]) = 1 \/ SumFunctionOnSet(weight, Range(Q[i])) <= MaxWords
  BY DEF Tidy, n
<1>6. \A j \in 1 .. Len(R[n + 1]) : j = 1 /\ R[n + 1][j] = t
  BY <1>2, <1>3
<1>7. \A i \in 1 .. n + 1 :
        /\ Len(R[i]) \in 1 .. MaxMessages
        /\ Len(R[i]) = 1 \/ SumFunctionOnSet(weight, Range(R[i])) <= MaxWords
  <2> SUFFICES ASSUME NEW i \in 1 .. n + 1
               PROVE  /\ Len(R[i]) \in 1 .. MaxMessages
                      /\ Len(R[i]) = 1 \/ SumFunctionOnSet(weight, Range(R[i])) <= MaxWords
    OBVIOUS
  <2>1. CASE i = n + 1
    BY <2>1, <1>1, <1>2, <1>3
  <2>2. CASE i \in 1 .. n
    <3>1. R[i] = Q[i]
      BY <2>2, <1>3
    <3> QED BY <3>1, <2>2, <1>5
  <2> QED BY <2>1, <2>2, <1>4
<1>8. \A i \in 1 .. n + 1 : \A j \in 1 .. Len(R[i]) : R[i][j] \in X \cup {t}
  BY <1>3, <1>4, <1>5, <1>6
<1>9. ASSUME NEW x \in X \cup {t} PROVE \E i \in 1 .. n + 1 : \E j \in 1 .. Len(R[i]) : R[i][j] = x
  <2>1. CASE x = t
    <3>1. n + 1 \in 1 .. n + 1 /\ 1 \in 1 .. Len(R[n + 1])
      BY <1>1, <1>2, <1>3
    <3> QED BY <3>1, <2>1, <1>6
  <2>2. CASE x # t
    <3>1. PICK i \in 1 .. n : \E j \in 1 .. Len(Q[i]) : Q[i][j] = x
      BY <1>5, <2>2
    <3>2. i \in 1 .. n + 1
      BY <1>1
    <3> QED BY <3>1, <3>2, <1>3
  <2> QED BY <2>1, <2>2
<1>10. ASSUME NEW i \in 1 .. n + 1, NEW k \in 1 .. n + 1, NEW j \in 1 .. Len(R[i]), NEW l \in 1 .. Len(R[k]),
              R[i][j] = R[k][l]
       PROVE  i = k /\ j = l
  <2>1. CASE i = n + 1 /\ k = n + 1
    BY <2>1, <1>6
  <2>2. CASE i \in 1 .. n /\ k \in 1 .. n
    BY <2>2, <1>3, <1>5, <1>10
  <2>3. CASE i = n + 1 /\ k \in 1 .. n
    <3>1. R[i][j] = t
      BY <2>3, <1>6
    <3>2. R[k][l] \in X
      BY <2>3, <1>3, <1>5
    <3> QED BY <3>1, <3>2, <1>10
  <2>4. CASE i \in 1 .. n /\ k = n + 1
    BY <2>4, <1>3, <1>5, <1>6, <1>10
  <2> QED BY <2>1, <2>2, <2>3, <2>4, <1>4
<1> QED BY <1>3, <1>7, <1>8, <1>9, <1>10 DEF Tidy, R

\* The chunk in hand becomes longer.
LEMMA TidyMore ==
  ASSUME NEW full \in Seq(Seq(Pair)), NEW chunk \in Seq(Pair), NEW X, NEW weight,
         Tidy(Append(full, chunk), X, weight), NEW t \in Pair, t \notin X,
         Len(chunk) < MaxMessages,
         SumFunctionOnSet(weight, Range(chunk) \cup {t}) <= MaxWords
  PROVE  Tidy(Append(full, Append(chunk, t)), X \cup {t}, weight)
<1> DEFINE n == Len(full) + 1
           m == Len(chunk) + 1
           Q == Append(full, chunk)
           more == Append(chunk, t)
           R == Append(full, more)
<1>1. n \in Nat /\ m \in Nat /\ MaxMessages \in Nat /\ n \in 1 .. n
  BY SizeAssumption
<1>2. Q[n] = chunk /\ Len(Q) = n /\ Len(chunk) = m - 1
  OBVIOUS
<1>3. more \in Seq(Pair) /\ Len(more) = m /\ more[m] = t /\ \A j \in 1 .. m - 1 : more[j] = chunk[j]
  OBVIOUS
<1>4. R \in Seq(Seq(Pair)) /\ Len(R) = n /\ R[n] = more /\ \A i \in 1 .. n - 1 : R[i] = Q[i]
  <2>1. more \in Seq(Pair)
    BY <1>3
  <2> HIDE DEF more
  <2> QED BY <2>1
<1>5. Range(more) = Range(chunk) \cup {t}
  <2>1. DOMAIN more = 1 .. m /\ DOMAIN chunk = 1 .. m - 1
    OBVIOUS
  <2>2. \A j \in 1 .. m : j \in 1 .. m - 1 \/ j = m
    BY <1>1
  <2>3. m \in 1 .. m /\ \A j \in 1 .. m - 1 : j \in 1 .. m
    BY <1>1
  <2> HIDE DEF more, m
  <2> QED BY <2>1, <2>2, <2>3, <1>3 DEF Range
<1> HIDE DEF n, m, Q, more, R
<1>6. /\ \A i \in 1 .. n : \A j \in 1 .. Len(Q[i]) : Q[i][j] \in X
      /\ \A x \in X : \E i \in 1 .. n : \E j \in 1 .. Len(Q[i]) : Q[i][j] = x
      /\ \A i, k \in 1 .. n : \A j \in 1 .. Len(Q[i]) : \A l \in 1 .. Len(Q[k]) :
           Q[i][j] = Q[k][l] => i = k /\ j = l
      /\ \A i \in 1 .. n :
           /\ Len(Q[i]) \in 1 .. MaxMessages
           /\ Len(Q[i]) = 1 \/ SumFunctionOnSet(weight, Range(Q[i])) <= MaxWords
  BY <1>2 DEF Tidy, Q
<1>7. \A i \in 1 .. n : i \in 1 .. n - 1 \/ i = n
  BY <1>1
<1>8. \A j \in 1 .. m : j \in 1 .. m - 1 \/ j = m
  BY <1>1
<1>9. Len(R[n]) \in 1 .. MaxMessages
  <2>1. m - 1 < MaxMessages /\ m >= 1
    BY <1>1, <1>2 DEF m
  <2> QED BY <2>1, <1>1, <1>3, <1>4
<1>10. ASSUME NEW i \in 1 .. n
       PROVE  /\ Len(R[i]) \in 1 .. MaxMessages
              /\ Len(R[i]) = 1 \/ SumFunctionOnSet(weight, Range(R[i])) <= MaxWords
  <2>1. CASE i = n
    BY <2>1, <1>4, <1>5, <1>9
  <2>2. CASE i \in 1 .. n - 1
    BY <2>2, <1>4, <1>6
  <2> QED BY <2>1, <2>2, <1>7
\* Every entry but the last is where it was.
<1>11. ASSUME NEW i \in 1 .. n, NEW j \in 1 .. Len(R[i]), ~(i = n /\ j = m)
       PROVE  j \in 1 .. Len(Q[i]) /\ R[i][j] = Q[i][j]
  <2>1. CASE i = n
    <3>1. j \in 1 .. m - 1 /\ R[i][j] = more[j]
      BY <2>1, <1>3, <1>4, <1>8, <1>11
    <3> QED BY <3>1, <2>1, <1>2, <1>3
  <2>2. CASE i \in 1 .. n - 1
    BY <2>2, <1>4
  <2> QED BY <2>1, <2>2, <1>7
<1>12. R[n][m] = t /\ m \in 1 .. Len(R[n])
  <2>1. m \in 1 .. m
    BY <1>1 DEF m
  <2> QED BY <2>1, <1>3, <1>4
<1>13. ASSUME NEW i \in 1 .. n, NEW j \in 1 .. Len(Q[i])
       PROVE  j \in 1 .. Len(R[i]) /\ R[i][j] = Q[i][j]
  <2>1. CASE i = n
    <3>1. j \in 1 .. m - 1 /\ j \in 1 .. m
      BY <2>1, <1>1, <1>2
    <3> QED BY <3>1, <2>1, <1>2, <1>3, <1>4
  <2>2. CASE i \in 1 .. n - 1
    BY <2>2, <1>4
  <2> QED BY <2>1, <2>2, <1>7
<1>14. ASSUME NEW i \in 1 .. n, NEW j \in 1 .. Len(R[i]) PROVE R[i][j] \in X \cup {t}
  <2>1. CASE i = n /\ j = m
    BY <2>1, <1>12
  <2>2. CASE ~(i = n /\ j = m)
    BY <2>2, <1>6, <1>11
  <2> QED BY <2>1, <2>2
<1>15. ASSUME NEW x \in X \cup {t} PROVE \E i \in 1 .. n : \E j \in 1 .. Len(R[i]) : R[i][j] = x
  <2>1. CASE x = t
    BY <2>1, <1>1, <1>12
  <2>2. CASE x # t
    <3>1. PICK i \in 1 .. n : \E j \in 1 .. Len(Q[i]) : Q[i][j] = x
      BY <1>6, <2>2
    <3>2. PICK j \in 1 .. Len(Q[i]) : Q[i][j] = x
      BY <3>1
    <3> QED BY <3>2, <1>13
  <2> QED BY <2>1, <2>2
<1>16. ASSUME NEW i \in 1 .. n, NEW k \in 1 .. n, NEW j \in 1 .. Len(R[i]), NEW l \in 1 .. Len(R[k]),
              R[i][j] = R[k][l]
       PROVE  i = k /\ j = l
  <2>1. CASE i = n /\ j = m
    <3>1. CASE k = n /\ l = m
      BY <2>1, <3>1
    <3>2. CASE ~(k = n /\ l = m)
      <4>1. R[k][l] \in X
        BY <3>2, <1>6, <1>11
      <4> QED BY <4>1, <2>1, <1>12, <1>16
    <3> QED BY <3>1, <3>2
  <2>2. CASE ~(i = n /\ j = m)
    <3>1. R[i][j] = Q[i][j] /\ j \in 1 .. Len(Q[i]) /\ R[i][j] \in X
      BY <2>2, <1>6, <1>11
    <3>2. CASE k = n /\ l = m
      BY <3>1, <3>2, <1>12, <1>16
    <3>3. CASE ~(k = n /\ l = m)
      <4>1. R[k][l] = Q[k][l] /\ l \in 1 .. Len(Q[k])
        BY <3>3, <1>11
      <4>2. Q[i][j] = Q[k][l]
        BY <3>1, <4>1, <1>16
      <4> QED BY <3>1, <4>1, <4>2, <1>6
    <3> QED BY <3>2, <3>3
  <2> QED BY <2>1, <2>2
<1>17. Tidy(R, X \cup {t}, weight)
  BY <1>4, <1>10, <1>14, <1>15, <1>16 DEF Tidy
<1> QED BY <1>17 DEF R, more

\* What is known of a case.
LEMMA CaseFacts ==
  ASSUME setup \in Setup, NEW c \in CaseId
  PROVE  /\ Sessions(c) \in Seq(ParsedSession)
         /\ \A s \in 1 .. Len(Sessions(c)) :
              /\ Sessions(c)[s].id \in STRING
              /\ Turns(c, s) \in Seq(ParsedTurn)
              /\ \A k \in 1 .. Len(Turns(c, s)) : Words(c, <<s, k>>) \in Nat
         /\ Spoken(c) \subseteq Pair
         /\ \A t \in Spoken(c) : /\ t[1] \in 1 .. Len(Sessions(c)) /\ t[2] \in 1 .. Len(Turns(c, t[1]))
                                 /\ Words(c, t) \in Nat \ {0}
         /\ \A s \in 1 .. Len(Sessions(c)) : \A k \in 1 .. Len(Turns(c, s)) :
              <<s, k>> \in Spoken(c) <=> Words(c, <<s, k>>) # 0
         /\ IsFiniteSet(Spoken(c))
         /\ IsFiniteSet(setup.options.cases[c].answers)
<1>1. Sessions(c) \in Seq(ParsedSession)
  BY SetupAssumption DEF IsCase, Sessions
<1>2. ASSUME NEW s \in 1 .. Len(Sessions(c))
      PROVE  /\ Sessions(c)[s].id \in STRING
             /\ Turns(c, s) \in Seq(ParsedTurn)
             /\ \A k \in 1 .. Len(Turns(c, s)) : Words(c, <<s, k>>) \in Nat
  <2>1. Sessions(c)[s] \in ParsedSession
    BY <1>1
  <2>2. Sessions(c)[s].id \in STRING /\ Turns(c, s) \in Seq(ParsedTurn)
    BY <2>1 DEF Turns, ParsedSession
  <2>3. ASSUME NEW k \in 1 .. Len(Turns(c, s)) PROVE Words(c, <<s, k>>) \in Nat
    <3>1. Turns(c, s)[k] \in ParsedTurn
      BY <2>2
    <3> QED BY <3>1 DEF Words, ParsedTurn
  <2> QED BY <2>2, <2>3
<1> DEFINE Row(s) == {<<s, k>> : k \in 1 .. Len(Turns(c, s))}
           All == UNION {Row(s) : s \in 1 .. Len(Sessions(c))}
<1>3. DOMAIN Sessions(c) = 1 .. Len(Sessions(c)) /\ Len(Sessions(c)) \in Nat
  BY <1>1
<1>4. \A s \in 1 .. Len(Sessions(c)) : DOMAIN Turns(c, s) = 1 .. Len(Turns(c, s)) /\ Len(Turns(c, s)) \in Nat
  BY <1>2
<1>5. Spoken(c) = {t \in All : Words(c, t) > 0}
  <2>1. ASSUME NEW s \in DOMAIN Sessions(c) PROVE {<<s, k>> : k \in DOMAIN Turns(c, s)} = Row(s)
    BY <1>3, <1>4
  <2>2. {{<<s, k>> : k \in DOMAIN Turns(c, s)} : s \in DOMAIN Sessions(c)} = {Row(s) : s \in 1 .. Len(Sessions(c))}
    <3> HIDE DEF Row
    <3> QED BY <2>1, <1>3
  <2> QED BY <2>2 DEF Spoken
<1>6. \A t \in All : t[1] \in 1 .. Len(Sessions(c)) /\ t[2] \in 1 .. Len(Turns(c, t[1])) /\ t = <<t[1], t[2]>>
  OBVIOUS
<1>7. \A t \in All : Words(c, t) \in Nat
  <2> HIDE DEF All
  <2> QED BY <1>6, <1>2
<1>8. Spoken(c) \subseteq Pair
  <2> SUFFICES ASSUME NEW t \in Spoken(c) PROVE t \in Pair
    OBVIOUS
  <2>1. t[1] \in Nat /\ t[2] \in Nat /\ t = <<t[1], t[2]>>
    <3> HIDE DEF All
    <3> QED BY <1>3, <1>4, <1>5, <1>6
  <2> QED BY <2>1 DEF Pair
<1>9. IsFiniteSet(All)
  <2>1. ASSUME NEW s \in 1 .. Len(Sessions(c)) PROVE IsFiniteSet(Row(s))
    <3> DEFINE D == 1 .. Len(Turns(c, s))
               f == [k \in D |-> <<s, k>>]
    <3>1. f \in Surjection(D, Row(s))
      BY DEF Surjection
    <3>2. IsFiniteSet(D)
      BY <1>4, FS_Interval
    <3> QED BY <3>1, <3>2, FS_Surjection
  <2> DEFINE D == 1 .. Len(Sessions(c))
             rows == {Row(s) : s \in D}
             f == [s \in D |-> Row(s)]
  <2>2. f \in Surjection(D, rows)
    <3> HIDE DEF Row
    <3> QED BY DEF Surjection
  <2>3. IsFiniteSet(D)
    BY <1>3, FS_Interval
  <2>4. IsFiniteSet(rows)
    BY <2>2, <2>3, FS_Surjection
  <2>5. \A row \in rows : IsFiniteSet(row)
    BY <2>1
  <2> HIDE DEF rows
  <2>6. IsFiniteSet(UNION rows)
    BY <2>4, <2>5, FS_UNION
  <2> QED BY <2>6 DEF rows
<1>10. IsFiniteSet(Spoken(c))
  <2> HIDE DEF All
  <2> QED BY <1>5, <1>9, FS_Subset
<1>11. ASSUME NEW s \in 1 .. Len(Sessions(c)), NEW k \in 1 .. Len(Turns(c, s))
       PROVE  <<s, k>> \in Spoken(c) <=> Words(c, <<s, k>>) # 0
  <2>1. <<s, k>> \in All
    OBVIOUS
  <2>2. Words(c, <<s, k>>) \in Nat
    BY <1>2
  <2> HIDE DEF All
  <2> QED BY <2>1, <2>2, <1>5
<1>12. \A t \in Spoken(c) : /\ t[1] \in 1 .. Len(Sessions(c)) /\ t[2] \in 1 .. Len(Turns(c, t[1]))
                            /\ Words(c, t) \in Nat \ {0}
  <2> HIDE DEF All
  <2> QED BY <1>5, <1>6, <1>7
<1>13. IsFiniteSet(setup.options.cases[c].answers)
  BY SetupAssumption DEF IsCase
<1> QED BY <1>1, <1>2, <1>8, <1>10, <1>11, <1>12, <1>13

\* What a turn makes of the chunks.
Chunking == [full : Seq(Seq(Pair)), chunk : Seq(Pair), words : Nat]
Place(acc, turn, words) ==
  IF words = 0 THEN acc
  ELSE IF acc.chunk # <<>> /\ (Len(acc.chunk) >= MaxMessages \/ acc.words + words > MaxWords)
    THEN Closed(acc, turn, words)
    ELSE [acc EXCEPT !.chunk = Append(@, turn), !.words = @ + words]
NoChunks == [full |-> <<>>, chunk |-> <<>>, words |-> 0]

\* Placing a turn leaves chunks of turns.
LEMMA PlaceType ==
  ASSUME NEW acc \in Chunking, NEW turn \in Pair, NEW words \in Nat
  PROVE  Place(acc, turn, words) \in Chunking
<1>1. acc.full \in Seq(Seq(Pair)) /\ acc.chunk \in Seq(Pair) /\ acc.words \in Nat
      /\ acc = [full |-> acc.full, chunk |-> acc.chunk, words |-> acc.words]
  BY DEF Chunking
<1>2. <<turn>> \in Seq(Pair) /\ Append(acc.chunk, turn) \in Seq(Pair) /\ Append(acc.full, acc.chunk) \in Seq(Seq(Pair))
  BY <1>1
<1>3. Closed(acc, turn, words) \in Chunking
  BY <1>1, <1>2 DEF Closed, Chunking
<1>4. [acc EXCEPT !.chunk = Append(@, turn), !.words = @ + words] \in Chunking
  <2> DEFINE longer == Append(acc.chunk, turn)
             more == acc.words + words
  <2>1. longer \in Seq(Pair) /\ more \in Nat
    BY <1>1, <1>2
  <2> HIDE DEF longer, more
  <2>2. [acc EXCEPT !.chunk = longer, !.words = more] \in Chunking
    BY <2>1 DEF Chunking
  <2> QED BY <2>2 DEF longer, more
<1> QED BY <1>3, <1>4 DEF Place

\* The recursive definition of the chunks defines them.
LEMMA PlacedSteps ==
  ASSUME setup \in Setup, NEW c \in CaseId, NEW s \in 1 .. Len(Sessions(c))
  PROVE  /\ Placed(c, s) \in [0 .. Len(Turns(c, s)) -> Chunking]
         /\ Placed(c, s)[0] = NoChunks
         /\ \A k \in 1 .. Len(Turns(c, s)) :
              Placed(c, s)[k] = Place(Placed(c, s)[k - 1], <<s, k>>, Words(c, <<s, k>>))
<1> DEFINE n == Len(Turns(c, s))
           words(k) == Words(c, <<s, k>>)
           next == [p \in Chunking \X (1 .. n) |-> Place(p[1], <<s, p[2]>>, words(p[2]))]
           Is(f) == f = [k \in 0 .. n |-> IF k = 0 THEN NoChunks ELSE Place(f[k - 1], <<s, k>>, words(k))]
<1>1. n \in Nat /\ s \in Nat /\ \A k \in 1 .. n : words(k) \in Nat /\ <<s, k>> \in Pair
  BY CaseFacts DEF Pair
<1>2. NoChunks \in Chunking
  BY DEF NoChunks, Chunking
<1>3. Placed(c, s) = CHOOSE f : Is(f)
  BY DEF Placed, Place, NoChunks
<1> HIDE DEF words, n
<1>4. next \in [Chunking \X (1 .. n) -> Chunking]
  BY <1>1, PlaceType
<1>5. \A a \in Chunking, k \in 1 .. n : next[<<a, k>>] = Place(a, <<s, k>>, words(k))
  OBVIOUS
<1> HIDE DEF next
<1>6. PICK w \in [0 .. n -> Chunking] : Steps(w, n, NoChunks, next)
  BY <1>1, <1>2, <1>4, RecursionDefined
<1>7. \A k \in 0 .. n : w[k] = IF k = 0 THEN NoChunks ELSE next[<<w[k - 1], k>>]
  BY <1>6 DEF Steps
<1>8. ASSUME NEW k \in 0 .. n
      PROVE  w[k] = IF k = 0 THEN NoChunks ELSE Place(w[k - 1], <<s, k>>, words(k))
  <2>1. CASE k = 0
    BY <2>1, <1>7
  <2>2. CASE k # 0
    <3>1. k - 1 \in 0 .. n /\ k \in 1 .. n
      BY <2>2, <1>1
    <3>2. w[k] = next[<<w[k - 1], k>>] /\ w[k - 1] \in Chunking
      BY <2>2, <3>1, <1>6, <1>7
    <3> QED BY <2>2, <3>1, <3>2, <1>5
  <2> QED BY <2>1, <2>2
<1>9. Is(w)
  <2>1. w = [k \in 0 .. n |-> w[k]]
    BY <1>6
  <2> QED BY <2>1, <1>8
<1> DEFINE f == Placed(c, s)
<1>10. Is(f)
  BY <1>3, <1>9, Zenon
<1> HIDE DEF f
<1>11. DOMAIN f = 0 .. n /\ \A k \in 0 .. n : f[k] = IF k = 0 THEN NoChunks ELSE Place(f[k - 1], <<s, k>>, words(k))
  BY <1>10
<1>12. 0 \in 0 .. n /\ \A k \in 1 .. n : k \in 0 .. n /\ k # 0
  BY <1>1
<1>13. f[0] = NoChunks /\ \A k \in 1 .. n : f[k] = Place(f[k - 1], <<s, k>>, words(k))
  BY <1>11, <1>12
<1> DEFINE Good == {k \in 0 .. n : f[k] \in Chunking}
<1>14. 0 \in Good
  BY <1>2, <1>12, <1>13
<1>15. ASSUME NEW k \in 1 .. n, k - 1 \in Good PROVE k \in Good
  BY <1>1, <1>12, <1>13, <1>15, PlaceType
<1>16. \A k \in 0 .. n : k \in Good
  <2> HIDE DEF Good
  <2> QED BY <1>1, <1>14, <1>15, Stepwise, Zenon
<1>17. f = [k \in 0 .. n |-> f[k]]
  BY <1>10
<1>18. f \in [0 .. n -> Chunking]
  BY <1>16, <1>17
<1> QED BY <1>13, <1>18 DEF f, n, words

\* The chunks of a session hold its turns that are not blank.
Weight(c) == [turn \in Spoken(c) |-> Words(c, turn)]
Opening(c, s, k) == {t \in Spoken(c) : t[1] = s /\ t[2] <= k}

\* The chunks of a session hold each of its spoken turns once and keep the limits.
LEMMA ChunkedTidy ==
  ASSUME setup \in Setup, NEW c \in CaseId, NEW s \in 1 .. Len(Sessions(c))
  PROVE  Tidy(Chunked(c, s), {t \in Spoken(c) : t[1] = s}, Weight(c))
<1> DEFINE n == Len(Turns(c, s))
           f == Placed(c, s)
           W == Weight(c)
           X(k) == Opening(c, s, k)
           AllOf(a) == IF a.chunk = <<>> THEN a.full ELSE Append(a.full, a.chunk)
           Right(k) == /\ Tidy(AllOf(f[k]), X(k), W)
                       /\ f[k].chunk = <<>> => f[k].full = <<>>
                       /\ f[k].words = SumFunctionOnSet(W, Range(f[k].chunk))
                       /\ Range(f[k].chunk) \subseteq X(k)
           Good == {k \in 0 .. n : Right(k)}
<1>1. /\ n \in Nat /\ s \in Nat /\ IsFiniteSet(Spoken(c)) /\ W \in [Spoken(c) -> Nat] /\ Spoken(c) \subseteq Pair
      /\ \A k \in 1 .. n : Words(c, <<s, k>>) \in Nat /\ <<s, k>> \in Pair
      /\ \A k \in 1 .. n : <<s, k>> \in Spoken(c) <=> Words(c, <<s, k>>) # 0
      /\ \A t \in Spoken(c) : t[1] = s => t[2] \in 1 .. n
  BY CaseFacts DEF Pair, Weight
<1>2. /\ f \in [0 .. n -> Chunking] /\ f[0] = NoChunks
      /\ \A k \in 1 .. n : f[k] = Place(f[k - 1], <<s, k>>, Words(c, <<s, k>>))
  BY PlacedSteps
<1>3. MaxMessages \in Nat \ {0} /\ MaxWords \in Nat \ {0}
  BY SizeAssumption
<1>4. X(0) = {}
  BY <1>1 DEF Opening
<1>5. Chunked(c, s) = AllOf(f[n]) /\ X(n) = {t \in Spoken(c) : t[1] = s}
  BY <1>1 DEF Chunked, Opening
<1>6. /\ SumFunctionOnSet(W, {}) = 0
      /\ \A r \in SUBSET Spoken(c) : SumFunctionOnSet(W, r) \in Nat
      /\ \A r \in SUBSET Spoken(c) : \A x \in r :
           SumFunctionOnSet(W, r) = W[x] + SumFunctionOnSet(W, r \ {x})
  BY <1>1, SumAdds
<1>7. \A k \in 0 .. n : X(k) \subseteq Spoken(c)
  BY DEF Opening
<1>8. ASSUME NEW k \in 1 .. n
      PROVE  /\ Words(c, <<s, k>>) = 0 => X(k) = X(k - 1)
             /\ Words(c, <<s, k>>) # 0 => X(k) = X(k - 1) \cup {<<s, k>>}
             /\ <<s, k>> \notin X(k - 1)
  <2>1. ASSUME NEW t \in Spoken(c), t[1] = s, t[2] <= k, ~(t[2] <= k - 1) PROVE t = <<s, k>>
    <3>1. t \in Pair /\ t[2] \in 1 .. n
      BY <1>1, <2>1
    <3>2. t = <<t[1], t[2]>> /\ t[2] = k
      BY <3>1, <2>1 DEF Pair
    <3> QED BY <3>2, <2>1
  <2>2. <<s, k>>[1] = s /\ <<s, k>>[2] = k /\ k <= k /\ ~(k <= k - 1)
    OBVIOUS
  <2>3. \A t \in Spoken(c) : t[1] = s => (t[2] <= k - 1 => t[2] <= k)
    BY <1>1
  <2> QED BY <1>1, <2>1, <2>2, <2>3 DEF Opening
<1> HIDE DEF n, f, W, X
<1>9. 0 \in Good
  <2>1. f[0].full = <<>> /\ f[0].chunk = <<>> /\ f[0].words = 0 /\ Range(f[0].chunk) = {}
    BY <1>2 DEF NoChunks, Range
  <2>2. Tidy(<<>>, {}, W)
    BY DEF Tidy
  <2>3. AllOf(f[0]) = <<>>
    BY <2>1
  <2>4. 0 \in 0 .. n
    BY <1>1
  <2> HIDE DEF AllOf
  <2>5. Right(0)
    BY <2>1, <2>2, <2>3, <1>4, <1>6
  <2> HIDE DEF Right
  <2> QED BY <2>4, <2>5
<1>10. ASSUME NEW k \in 1 .. n, k - 1 \in Good PROVE k \in Good
  <2> DEFINE a == f[k - 1]
             b == f[k]
             t == <<s, k>>
             w == Words(c, t)
  <2>1. a \in Chunking /\ b = Place(a, t, w) /\ t \in Pair /\ w \in Nat /\ t \notin X(k - 1)
    BY <1>1, <1>2, <1>8
  <2>2. /\ Tidy(AllOf(a), X(k - 1), W) /\ (a.chunk = <<>> => a.full = <<>>)
        /\ a.words = SumFunctionOnSet(W, Range(a.chunk)) /\ Range(a.chunk) \subseteq X(k - 1)
    BY <1>10
  <2>3. /\ a.full \in Seq(Seq(Pair)) /\ a.chunk \in Seq(Pair) /\ a.words \in Nat
        /\ a = [full |-> a.full, chunk |-> a.chunk, words |-> a.words]
    BY <2>1 DEF Chunking
  <2>4. (w = 0 => X(k) = X(k - 1)) /\ (w # 0 => X(k) = X(k - 1) \cup {t})
    BY <1>8
  <2>5. w # 0 => t \in Spoken(c) /\ W[t] = w
    BY <1>1 DEF W, Weight
  <2>6. k - 1 \in 0 .. n /\ k \in 0 .. n
    BY <1>1
  <2> HIDE DEF t, w
  <2>7. Range(<<t>>) = {t} /\ <<t>> # <<>>
    BY DEF Range
  <2>8. CASE w = 0
    <3>1. b = a /\ X(k) = X(k - 1)
      BY <2>1, <2>4, <2>8 DEF Place
    <3> HIDE DEF a, b
    <3>2. Right(k)
      BY <3>1, <2>2 DEF a, b
    <3> QED BY <3>2, <2>6
  <2>9. CASE w # 0 /\ a.chunk # <<>> /\ (Len(a.chunk) >= MaxMessages \/ a.words + w > MaxWords)
    <3>1. b = Closed(a, t, w)
      BY <2>1, <2>9 DEF Place
    <3>2. b.full = Append(a.full, a.chunk) /\ b.chunk = <<t>> /\ b.words = w
      BY <3>1 DEF Closed
    <3>3. AllOf(a) = Append(a.full, a.chunk) /\ AllOf(b) = Append(AllOf(a), <<t>>)
      BY <3>2, <2>7, <2>9
    <3>4. Tidy(AllOf(b), X(k), W)
      <4>1. X(k) = X(k - 1) \cup {t}
        BY <2>4, <2>9
      <4> HIDE DEF AllOf, a, b
      <4> QED BY <4>1, <3>3, <2>1, <2>2, TidyNew
    <3>5. SumFunctionOnSet(W, {t}) = w
      <4>1. {t} \in SUBSET Spoken(c) /\ {t} \ {t} = {}
        BY <2>5, <2>9
      <4>2. SumFunctionOnSet(W, {t}) = W[t] + SumFunctionOnSet(W, {})
        BY <4>1, <1>6
      <4> QED BY <4>2, <1>6, <2>1, <2>5, <2>9
    <3>6. Right(k)
      BY <3>2, <3>4, <3>5, <2>4, <2>7, <2>9
    <3> QED BY <3>6, <2>6
  <2>10. CASE w # 0 /\ ~(a.chunk # <<>> /\ (Len(a.chunk) >= MaxMessages \/ a.words + w > MaxWords))
    <3>1. b = [a EXCEPT !.chunk = Append(@, t), !.words = @ + w]
      BY <2>1, <2>10 DEF Place
    <3>2. b.full = a.full /\ b.chunk = Append(a.chunk, t) /\ b.words = a.words + w
      BY <3>1, <2>3
    <3>3. b.chunk # <<>> /\ Range(b.chunk) = Range(a.chunk) \cup {t}
      <4> DEFINE q == a.chunk
                 r == Append(q, t)
                 m == Len(q)
      <4>1. q \in Seq(Pair) /\ m \in Nat /\ DOMAIN q = 1 .. m /\ DOMAIN r = 1 .. m + 1 /\ r[m + 1] = t
            /\ (\A j \in 1 .. m : r[j] = q[j]) /\ r # <<>>
        <5>1. q \in Seq(Pair)
          BY <2>3
        <5> HIDE DEF q
        <5>2. m \in Nat /\ DOMAIN q = 1 .. m /\ r \in Seq(Pair) /\ Len(r) = m + 1 /\ r[m + 1] = t
          BY <5>1, <2>1
        <5>3. \A j \in 1 .. m : r[j] = q[j]
          BY <5>1, <2>1
        <5>4. r # <<>>
          BY <5>2
        <5> QED BY <5>1, <5>2, <5>3, <5>4
      <4> HIDE DEF q, r, m
      <4>2. \A j \in 1 .. m + 1 : j \in 1 .. m \/ j = m + 1
        BY <4>1
      <4>3. m + 1 \in 1 .. m + 1 /\ \A j \in 1 .. m : j \in 1 .. m + 1
        BY <4>1
      <4>4. Range(r) = Range(q) \cup {t}
        BY <4>1, <4>2, <4>3 DEF Range
      <4> QED BY <3>2, <4>1, <4>4 DEF q, r
    <3>4. SumFunctionOnSet(W, Range(b.chunk)) = w + a.words
      <4>1. Range(b.chunk) \in SUBSET Spoken(c) /\ t \in Range(b.chunk)
        BY <3>3, <2>2, <2>5, <2>6, <2>10, <1>7
      <4>2. Range(b.chunk) \ {t} = Range(a.chunk)
        BY <3>3, <2>1, <2>2
      <4>3. SumFunctionOnSet(W, Range(b.chunk)) = W[t] + SumFunctionOnSet(W, Range(b.chunk) \ {t})
        BY <4>1, <1>6
      <4> QED BY <4>2, <4>3, <2>2, <2>5, <2>10
    <3>5. Tidy(AllOf(b), X(k), W)
      <4>1. CASE a.chunk = <<>>
        <5>1. a.full = <<>> /\ AllOf(a) = <<>> /\ AllOf(b) = Append(<<>>, <<t>>)
          <6>1. Append(<<>>, t) = <<t>>
            OBVIOUS
          <6> QED BY <4>1, <6>1, <2>2, <3>2, <3>3
        <5>2. Tidy(<<>>, X(k - 1), W)
          BY <5>1, <2>2
        <5>3. Tidy(Append(<<>>, <<t>>), X(k - 1) \cup {t}, W)
          BY <5>2, <2>1, TidyNew
        <5> QED BY <5>1, <5>3, <2>4, <2>10
      <4>2. CASE a.chunk # <<>>
        <5>1. AllOf(a) = Append(a.full, a.chunk) /\ AllOf(b) = Append(a.full, Append(a.chunk, t))
          BY <4>2, <3>2, <3>3
        <5>2. Len(a.chunk) < MaxMessages /\ a.words + w <= MaxWords
          BY <4>2, <2>1, <2>3, <2>10, <1>3
        <5>3. SumFunctionOnSet(W, Range(a.chunk) \cup {t}) <= MaxWords
          BY <5>2, <3>3, <3>4, <2>1, <2>3
        <5>4. Tidy(Append(a.full, Append(a.chunk, t)), X(k - 1) \cup {t}, W)
          BY <5>1, <5>2, <5>3, <2>1, <2>2, <2>3, TidyMore
        <5> QED BY <5>1, <5>4, <2>4, <2>10
      <4> QED BY <4>1, <4>2
    <3>6. Right(k)
      <4>1. Range(b.chunk) \subseteq X(k)
        BY <3>3, <2>2, <2>4, <2>10
      <4>2. b.words = SumFunctionOnSet(W, Range(b.chunk))
        BY <3>2, <3>4, <2>1, <2>3
      <4> QED BY <3>3, <3>5, <4>1, <4>2
    <3> QED BY <3>6, <2>6
  <2> QED BY <2>8, <2>9, <2>10
<1>11. \A k \in 0 .. n : k \in Good
  <2> HIDE DEF Good
  <2> QED BY <1>1, <1>9, <1>10, Stepwise, Zenon
<1>12. Tidy(AllOf(f[n]), X(n), W)
  <2>1. n \in 0 .. n
    BY <1>1
  <2>2. n \in Good
    BY <1>11, <2>1, Zenon
  <2> QED BY <2>2
<1> QED BY <1>5, <1>12 DEF W

----------------------------------------------------------------------------
(* The plan of a case *)

\* The requests of a session.
Request == [id : Pair, turns : Seq(Pair)]
Requests(c, s) == [i \in DOMAIN Chunked(c, s) |-> [id |-> <<s, i>>, turns |-> Chunked(c, s)[i]]]

\* The requests of a session are its chunks, by number.
LEMMA RequestsOf ==
  ASSUME setup \in Setup, NEW c \in CaseId, NEW s \in 1 .. Len(Sessions(c))
  PROVE  /\ Requests(c, s) \in Seq(Request) /\ Len(Requests(c, s)) = Len(Chunked(c, s))
         /\ \A i \in 1 .. Len(Chunked(c, s)) :
              Requests(c, s)[i] = [id |-> <<s, i>>, turns |-> Chunked(c, s)[i]]
<1> DEFINE Q == Chunked(c, s)
<1>1. Q \in Seq(Seq(Pair)) /\ s \in Nat
  BY ChunkedTidy, CaseFacts DEF Tidy
<1> HIDE DEF Q
<1>2. DOMAIN Q = 1 .. Len(Q) /\ Len(Q) \in Nat /\ \A i \in 1 .. Len(Q) : Q[i] \in Seq(Pair)
  BY <1>1
<1>3. \A i \in 1 .. Len(Q) : <<s, i>> \in Pair
  BY <1>1 DEF Pair
<1>4. \A i \in 1 .. Len(Q) : [id |-> <<s, i>>, turns |-> Q[i]] \in Request
  BY <1>2, <1>3 DEF Request
<1>5. Requests(c, s) = [i \in 1 .. Len(Q) |-> [id |-> <<s, i>>, turns |-> Q[i]]]
  BY <1>2 DEF Requests, Q
<1> QED BY <1>2, <1>4, <1>5 DEF Q

\* The plan holds every turn with text once, in requests with ids of their own.
LEMMA PlanFacts ==
  ASSUME setup \in Setup, NEW c \in CaseId
  PROVE  /\ Plan(c) \in Seq(Request)
         /\ \A p, q \in 1 .. Len(Plan(c)) : Plan(c)[p].id = Plan(c)[q].id => p = q
         /\ Tidy([p \in 1 .. Len(Plan(c)) |-> Plan(c)[p].turns], Spoken(c), Weight(c))
<1> DEFINE n == Len(Sessions(c))
           R == [s \in 1 .. n |-> Requests(c, s)]
           P == Plan(c)
           O == Ends(R)
           C(s) == Chunked(c, s)
           W == Weight(c)
           T == [p \in 1 .. Len(P) |-> P[p].turns]
<1>1. n \in Nat /\ DOMAIN Sessions(c) = 1 .. n
  BY CaseFacts
<1>2. \A s \in 1 .. n : /\ Requests(c, s) \in Seq(Request) /\ Len(Requests(c, s)) = Len(C(s))
                        /\ Len(C(s)) \in Nat
                        /\ \A i \in 1 .. Len(C(s)) : Requests(c, s)[i] = [id |-> <<s, i>>, turns |-> C(s)[i]]
  BY RequestsOf, ChunkedTidy DEF Tidy
<1>3. P = FlattenSeq(R)
  BY <1>1 DEF Plan, Requests
<1>4. /\ \A t \in Spoken(c) : t[1] \in 1 .. n
      /\ \A s \in 1 .. n : Tidy(C(s), {t \in Spoken(c) : t[1] = s}, W)
  BY CaseFacts, ChunkedTidy
<1> HIDE DEF n, C, P, W, O
<1>5. R \in Seq(Seq(Request)) /\ Len(R) = n
  BY <1>1, <1>2
<1>6. \A s \in 1 .. n : /\ Len(R[s]) = Len(C(s)) /\ Len(C(s)) \in Nat
                        /\ \A i \in 1 .. Len(C(s)) : R[s][i] = [id |-> <<s, i>>, turns |-> C(s)[i]]
  BY <1>2
<1> HIDE DEF R
<1>7. /\ P \in Seq(Request)
      /\ O \in [0 .. n -> Nat] /\ O[0] = 0 /\ O[n] = Len(P)
      /\ \A i \in 1 .. n : O[i] = O[i - 1] + Len(R[i])
      /\ \A i \in 0 .. n : \A h \in 0 .. i : O[h] <= O[i]
      /\ \A i \in 1 .. n : \A j \in 1 .. Len(R[i]) : P[O[i - 1] + j] = R[i][j]
      /\ \A p \in 1 .. Len(P) : \E i \in 1 .. n : \E j \in 1 .. Len(R[i]) : p = O[i - 1] + j
  <2>1. /\ P \in Seq(Request)
        /\ O \in [0 .. Len(R) -> Nat] /\ O[0] = 0 /\ O[Len(R)] = Len(P)
        /\ \A i \in 1 .. Len(R) : O[i] = O[i - 1] + Len(R[i])
        /\ \A i \in 0 .. Len(R) : \A h \in 0 .. i : O[h] <= O[i]
        /\ \A i \in 1 .. Len(R) : \A j \in 1 .. Len(R[i]) : P[O[i - 1] + j] = R[i][j]
        /\ \A p \in 1 .. Len(P) : \E i \in 1 .. Len(R) : \E j \in 1 .. Len(R[i]) : p = O[i - 1] + j
    BY <1>3, <1>5, FlattenPlaces, Zenon DEF O
  <2> QED BY <2>1, <1>5
<1>8. ASSUME NEW p \in 1 .. Len(P)
      PROVE  \E s \in 1 .. n : \E i \in 1 .. Len(C(s)) :
               p = O[s - 1] + i /\ P[p].id = <<s, i>> /\ P[p].turns = C(s)[i]
  <2>10. PICK s \in 1 .. n : \E i \in 1 .. Len(R[s]) : p = O[s - 1] + i
    BY <1>7
  <2>1. PICK i \in 1 .. Len(R[s]) : p = O[s - 1] + i
    BY <2>10
  <2>2. i \in 1 .. Len(C(s)) /\ P[p] = [id |-> <<s, i>>, turns |-> C(s)[i]]
    BY <2>1, <1>6, <1>7
  <2> QED BY <2>1, <2>2
<1>9. ASSUME NEW p \in 1 .. Len(P), NEW q \in 1 .. Len(P), P[p].id = P[q].id PROVE p = q
  <2>10. PICK s \in 1 .. n : \E i \in 1 .. Len(C(s)) : p = O[s - 1] + i /\ P[p].id = <<s, i>>
    BY <1>8
  <2>1. PICK i \in 1 .. Len(C(s)) : p = O[s - 1] + i /\ P[p].id = <<s, i>>
    BY <2>10
  <2>20. PICK u \in 1 .. n : \E k \in 1 .. Len(C(u)) : q = O[u - 1] + k /\ P[q].id = <<u, k>>
    BY <1>8
  <2>2. PICK k \in 1 .. Len(C(u)) : q = O[u - 1] + k /\ P[q].id = <<u, k>>
    BY <2>20
  <2>3. s = u /\ i = k
    BY <2>1, <2>2, <1>9
  <2> QED BY <2>1, <2>2, <2>3
<1>10. T \in Seq(Seq(Pair)) /\ Len(T) = Len(P) /\ Len(P) \in Nat /\ \A p \in 1 .. Len(P) : T[p] = P[p].turns
  <2>1. Len(P) \in Nat /\ \A p \in 1 .. Len(P) : P[p] \in Request
    BY <1>7
  <2>2. \A r \in Request : r.turns \in Seq(Pair)
    BY DEF Request
  <2> QED BY <2>1, <2>2
<1> HIDE DEF T
<1>11. ASSUME NEW p \in 1 .. Len(P)
       PROVE  /\ Len(T[p]) \in 1 .. MaxMessages
              /\ Len(T[p]) = 1 \/ SumFunctionOnSet(W, Range(T[p])) <= MaxWords
              /\ \A j \in 1 .. Len(T[p]) : T[p][j] \in Spoken(c)
  <2>10. PICK s \in 1 .. n : \E i \in 1 .. Len(C(s)) : P[p].turns = C(s)[i]
    BY <1>8
  <2>1. PICK i \in 1 .. Len(C(s)) : P[p].turns = C(s)[i]
    BY <2>10
  <2>2. T[p] = C(s)[i] /\ Tidy(C(s), {t \in Spoken(c) : t[1] = s}, W)
    BY <2>1, <1>4, <1>10
  <2> QED BY <2>2 DEF Tidy
<1>12. ASSUME NEW t \in Spoken(c) PROVE \E p \in 1 .. Len(P) : \E j \in 1 .. Len(T[p]) : T[p][j] = t
  <2> DEFINE s == t[1]
  <2>1. s \in 1 .. n /\ t \in {u \in Spoken(c) : u[1] = s}
    BY <1>4
  <2> HIDE DEF s
  <2>2. Tidy(C(s), {u \in Spoken(c) : u[1] = s}, W)
    BY <2>1, <1>4
  <2>30. PICK i \in 1 .. Len(C(s)) : \E j \in 1 .. Len(C(s)[i]) : C(s)[i][j] = t
    BY <2>1, <2>2 DEF Tidy
  <2>3. PICK j \in 1 .. Len(C(s)[i]) : C(s)[i][j] = t
    BY <2>30
  <2>4. i \in 1 .. Len(R[s]) /\ R[s][i].turns = C(s)[i]
    <3>1. i \in 1 .. Len(C(s)) /\ Len(R[s]) = Len(C(s)) /\ R[s][i] = [id |-> <<s, i>>, turns |-> C(s)[i]]
      BY <2>1, <2>3, <1>6
    <3> QED BY <3>1
  <2> DEFINE p == O[s - 1] + i
  <2>5. p \in 1 .. Len(P)
    <3>1. s - 1 \in 0 .. n /\ s \in 0 .. n /\ s \in 0 .. n /\ n \in 0 .. n
      BY <2>1, <1>1
    <3>2. O[s - 1] \in Nat /\ O[s] \in Nat /\ O[s] = O[s - 1] + Len(R[s]) /\ O[s] <= O[n] /\ O[n] = Len(P)
      BY <3>1, <2>1, <1>7
    <3> QED BY <3>2, <2>1, <2>4, <1>6
  <2>6. T[p] = C(s)[i]
    BY <2>1, <2>4, <2>5, <1>7, <1>10
  <2> QED BY <2>3, <2>5, <2>6
<1>13. ASSUME NEW p \in 1 .. Len(P), NEW q \in 1 .. Len(P), NEW j \in 1 .. Len(T[p]), NEW l \in 1 .. Len(T[q]),
              T[p][j] = T[q][l]
       PROVE  p = q /\ j = l
  <2>10. PICK s \in 1 .. n : \E i \in 1 .. Len(C(s)) : p = O[s - 1] + i /\ P[p].turns = C(s)[i]
    BY <1>8
  <2>1. PICK i \in 1 .. Len(C(s)) : p = O[s - 1] + i /\ P[p].turns = C(s)[i]
    BY <2>10
  <2>20. PICK u \in 1 .. n : \E k \in 1 .. Len(C(u)) : q = O[u - 1] + k /\ P[q].turns = C(u)[k]
    BY <1>8
  <2>2. PICK k \in 1 .. Len(C(u)) : q = O[u - 1] + k /\ P[q].turns = C(u)[k]
    BY <2>20
  <2>3. T[p] = C(s)[i] /\ T[q] = C(u)[k]
    BY <2>1, <2>2, <1>10
  <2>4. Tidy(C(s), {t \in Spoken(c) : t[1] = s}, W) /\ Tidy(C(u), {t \in Spoken(c) : t[1] = u}, W)
    BY <1>4
  <2>5. T[p][j][1] = s /\ T[q][l][1] = u
    <3>1. T[p][j] \in {t \in Spoken(c) : t[1] = s}
      BY <2>1, <2>3, <2>4, <1>13 DEF Tidy
    <3>2. T[q][l] \in {t \in Spoken(c) : t[1] = u}
      BY <2>2, <2>3, <2>4, <1>13 DEF Tidy
    <3> QED BY <3>1, <3>2
  <2>6. s = u
    BY <2>5, <1>13
  <2>7. i = k /\ j = l
    BY <2>3, <2>4, <2>6, <1>13 DEF Tidy
  <2> QED BY <2>1, <2>2, <2>6, <2>7
<1>14. Tidy(T, Spoken(c), W)
  BY <1>10, <1>11, <1>12, <1>13 DEF Tidy
<1> QED BY <1>7, <1>9, <1>14 DEF P, T, W

\* The texts of a case are embedded in the order of the messages: whichever way
\* it is got, the vector of a message is that of its text.
LEMMA OwnVector ==
  ASSUME setup \in Setup, NEW c \in CaseId,
         NEW n \in 1 .. Len(Plan(c)), NEW i \in 1 .. Len(Plan(c)[n].turns)
  PROVE  Vector(c, n, i) = IF setup.options.semantic THEN Plan(c)[n].turns[i] ELSE None
<1> DEFINE P == Plan(c)
           N == Len(P)
           T == [p \in 1 .. N |-> P[p].turns]
           O == Ends(T)
<1>1. P \in Seq(Request) /\ N \in Nat /\ DOMAIN P = 1 .. N
  <2>1. P \in Seq(Request)
    BY PlanFacts
  <2> HIDE DEF P
  <2> QED BY <2>1
<1>2. T \in Seq(Seq(Pair))
  BY PlanFacts DEF Tidy
<1> HIDE DEF P
<1>3. Len(T) = N /\ T[n] = P[n].turns /\ n - 1 \in 0 .. N
  BY <1>1 DEF P
<1>4. Texts(c) = FlattenSeq(T)
  BY <1>1 DEF Texts, P
<1>5. Offset(c, n - 1) = O[n - 1]
  <2>1. SubSeq(T, 1, n - 1) = [p \in 1 .. n - 1 |-> P[p].turns]
    <3>1. \A p \in 1 .. n - 1 : p \in 1 .. N
      BY <1>1 DEF P
    <3> HIDE DEF N
    <3>2. SubSeq(T, 1, n - 1) = [p \in 1 .. n - 1 |-> T[p]]
      BY <1>1, <1>2, <1>3
    <3> QED BY <3>1, <3>2
  <2>2. O[n - 1] = Len(FlattenSeq(SubSeq(T, 1, n - 1)))
    BY <1>3 DEF Ends
  <2> QED BY <2>1, <2>2 DEF Offset, P
<1>6. \A k \in 1 .. N : \A j \in 1 .. Len(T[k]) : FlattenSeq(T)[O[k - 1] + j] = T[k][j]
  <2> HIDE DEF T, N, O
  <2>1. \A k \in 1 .. Len(T) : \A j \in 1 .. Len(T[k]) : FlattenSeq(T)[Ends(T)[k - 1] + j] = T[k][j]
    BY <1>2, FlattenPlaces
  <2> QED BY <2>1, <1>3 DEF O
<1>7. Texts(c)[Offset(c, n - 1) + i] = P[n].turns[i]
  <2>1. n \in 1 .. N /\ i \in 1 .. Len(T[n])
    BY <1>3 DEF P
  <2> HIDE DEF T, N, O
  <2> QED BY <2>1, <1>3, <1>4, <1>5, <1>6
<1> QED BY <1>7 DEF Vector, P

\* The messages of a request.
Message == [request : Pair, ordinal : Nat, session : STRING, text : Pair, vector : Pair \cup {None}]

\* A request is stored as one message for each of its turns.
LEMMA MessagesOf ==
  ASSUME setup \in Setup, NEW c \in CaseId, NEW n \in 1 .. Len(Plan(c))
  PROVE  /\ Messages(c, n) \in Seq(Message) /\ Len(Messages(c, n)) = Len(Plan(c)[n].turns)
         /\ \A i \in 1 .. Len(Plan(c)[n].turns) :
              LET m == Messages(c, n)[i]
                  turn == Plan(c)[n].turns[i] IN
              /\ turn \in Spoken(c)
              /\ m.request = Plan(c)[n].id /\ m.ordinal = i /\ m.text = turn
              /\ m.session = Sessions(c)[turn[1]].id
              /\ setup.options.semantic => m.vector = turn
<1> DEFINE r == Plan(c)[n]
           t == r.turns
           Told(i) == [request |-> r.id, ordinal |-> i, session |-> Sessions(c)[t[i][1]].id,
                       text |-> t[i], vector |-> Vector(c, n, i)]
<1>1. r \in Request
  <2>1. Plan(c) \in Seq(Request)
    BY PlanFacts
  <2> QED BY <2>1
<1>2. r.id \in Pair /\ t \in Seq(Pair)
  BY <1>1 DEF Request
<1>3. \A i \in 1 .. Len(t) : t[i] \in Spoken(c)
  <2> DEFINE Q == [p \in 1 .. Len(Plan(c)) |-> Plan(c)[p].turns]
  <2>1. Tidy(Q, Spoken(c), Weight(c)) /\ Q[n] = t
    BY PlanFacts
  <2>2. Q \in Seq(Seq(Pair)) /\ Len(Q) = Len(Plan(c))
    BY PlanFacts DEF Tidy
  <2> HIDE DEF Q
  <2> QED BY <2>1, <2>2 DEF Tidy
<1>4. \A i \in 1 .. Len(t) : Sessions(c)[t[i][1]].id \in STRING
  BY <1>3, CaseFacts
<1>5. \A i \in 1 .. Len(t) : Vector(c, n, i) = IF setup.options.semantic THEN t[i] ELSE None
  BY OwnVector
<1>6. Messages(c, n) = [i \in DOMAIN t |-> Told(i)]
  BY DEF Messages
<1> HIDE DEF r, t
<1>7. DOMAIN t = 1 .. Len(t) /\ Len(t) \in Nat /\ \A i \in 1 .. Len(t) : t[i] \in Pair /\ i \in Nat
  BY <1>2
<1>8. \A i \in 1 .. Len(t) : Told(i) \in Message
  <2> SUFFICES ASSUME NEW i \in 1 .. Len(t) PROVE Told(i) \in Message
    OBVIOUS
  <2>1. t[i] \in Pair /\ i \in Nat /\ Sessions(c)[t[i][1]].id \in STRING /\ Vector(c, n, i) \in Pair \cup {None}
    BY <1>4, <1>5, <1>7
  <2> QED BY <2>1, <1>2 DEF Message
<1>9. Messages(c, n) \in Seq(Message) /\ Len(Messages(c, n)) = Len(t)
      /\ \A i \in 1 .. Len(t) : Messages(c, n)[i] = Told(i)
  <2> HIDE DEF Told
  <2> QED BY <1>6, <1>7, <1>8
<1>10. ASSUME NEW i \in 1 .. Len(t)
       PROVE  LET m == Messages(c, n)[i] IN
              /\ m.request = r.id /\ m.ordinal = i /\ m.text = t[i]
              /\ m.session = Sessions(c)[t[i][1]].id
              /\ setup.options.semantic => m.vector = t[i]
  <2>1. Messages(c, n)[i] = Told(i) /\ (setup.options.semantic => Vector(c, n, i) = t[i])
    BY <1>5, <1>9
  <2> QED BY <2>1
<1> QED BY <1>3, <1>9, <1>10 DEF r, t

----------------------------------------------------------------------------
(* The memory of a case *)

\* What StoredAsPlanned says of the memory of a case.
Planned(c, held) ==
  /\ Len(held) = Cardinality(Spoken(c))
  /\ {held[i].text : i \in DOMAIN held} = Spoken(c)
  /\ \A i \in DOMAIN held :
       LET m == held[i]
           together == {j \in DOMAIN held : held[j].request = m.request} IN
       /\ Binding(c, m.request, m.ordinal) = TurnId(c, m.text)
       /\ \A j \in together : held[j].ordinal = m.ordinal => i = j
       /\ setup.options.semantic => m.vector = m.text
       /\ Cardinality(together) <= MaxMessages
       /\ \/ together = {i}
          \/ SumFunctionOnSet([turn \in Spoken(c) |-> Words(c, turn)],
                              {held[j].text : j \in together}) <= MaxWords

\* The messages of the first requests of a plan.
Ingested(c, n) == FlattenSeq([k \in 1 .. n |-> Messages(c, k)])

\* The request that a message names is found in the plan.
LEMMA BindingOf ==
  ASSUME setup \in Setup, NEW c \in CaseId, NEW n \in 1 .. Len(Plan(c)), NEW i
  PROVE  Binding(c, Plan(c)[n].id, i) = TurnId(c, Plan(c)[n].turns[i])
<1> DEFINE P == Plan(c)
           I == {k \in 1 .. Len(P) : P[k].id = P[n].id}
<1>1. I = {n}
  BY PlanFacts
<1>2. n \in Int
  OBVIOUS
<1>3. Min(I) = n
  BY <1>1, <1>2 DEF Min
<1>4. SelectInSeq(P, LAMBDA r : r.id = P[n].id) = n
  BY <1>1, <1>3 DEF SelectInSeq
<1> QED BY <1>4 DEF Binding

\* The memory of a case of which all is ingested holds what it should.
LEMMA AllPlanned ==
  ASSUME setup \in Setup, NEW c \in CaseId
  PROVE  Planned(c, Ingested(c, Len(Plan(c))))
<1> DEFINE P == Plan(c)
           N == Len(P)
           T == [n \in 1 .. N |-> P[n].turns]
           M == [n \in 1 .. N |-> Messages(c, n)]
           O == Ends(M)
           W == Weight(c)
           H == Ingested(c, N)
<1>1. N \in Nat /\ Tidy(T, Spoken(c), W)
  <2>1. Plan(c) \in Seq(Request)
    BY PlanFacts
  <2>2. Len(Plan(c)) \in Nat
    BY <2>1
  <2> QED BY <2>2, PlanFacts
<1>2. /\ \A n \in 1 .. N : Messages(c, n) \in Seq(Message) /\ Len(Messages(c, n)) = Len(P[n].turns)
      /\ \A n \in 1 .. N : \A i \in 1 .. Len(P[n].turns) :
              LET m == Messages(c, n)[i]
                  turn == P[n].turns[i] IN
              /\ turn \in Spoken(c)
              /\ m.request = P[n].id /\ m.ordinal = i /\ m.text = turn
              /\ m.session = Sessions(c)[turn[1]].id
              /\ setup.options.semantic => m.vector = turn
  BY MessagesOf
<1>3. \A n, k \in 1 .. N : P[n].id = P[k].id => n = k
  BY PlanFacts
<1>4. \A n \in 1 .. N : T[n] = P[n].turns
  OBVIOUS
<1>5. Len(T) = N
  BY <1>1
<1>6. IsFiniteSet(Spoken(c)) /\ MaxMessages \in Nat \ {0}
  BY CaseFacts, SizeAssumption
<1>7. \A n \in 1 .. N : \A i : Binding(c, P[n].id, i) = TurnId(c, P[n].turns[i])
  BY BindingOf
<1> HIDE DEF P, N, W
<1>8. M \in Seq(Seq(Message)) /\ Len(M) = N
  BY <1>1, <1>2
<1>9. H = FlattenSeq(M)
  BY DEF Ingested
<1> HIDE DEF T
<1>10. \A n \in 1 .. N :
         /\ Len(T[n]) \in 1 .. MaxMessages
         /\ Len(M[n]) = Len(T[n])
         /\ Len(T[n]) = 1 \/ SumFunctionOnSet(W, Range(T[n])) <= MaxWords
         /\ \A i \in 1 .. Len(T[n]) :
              /\ T[n][i] \in Spoken(c)
              /\ M[n][i].request = P[n].id /\ M[n][i].ordinal = i /\ M[n][i].text = T[n][i]
              /\ setup.options.semantic => M[n][i].vector = T[n][i]
              /\ Binding(c, P[n].id, i) = TurnId(c, T[n][i])
  <2> SUFFICES ASSUME NEW n \in 1 .. N
               PROVE  /\ Len(T[n]) \in 1 .. MaxMessages
                      /\ Len(M[n]) = Len(T[n])
                      /\ Len(T[n]) = 1 \/ SumFunctionOnSet(W, Range(T[n])) <= MaxWords
                      /\ \A i \in 1 .. Len(T[n]) :
                           /\ T[n][i] \in Spoken(c)
                           /\ M[n][i].request = P[n].id /\ M[n][i].ordinal = i /\ M[n][i].text = T[n][i]
                           /\ setup.options.semantic => M[n][i].vector = T[n][i]
                           /\ Binding(c, P[n].id, i) = TurnId(c, T[n][i])
    OBVIOUS
  <2>1. M[n] = Messages(c, n) /\ T[n] = P[n].turns
    BY <1>4
  <2>2. /\ Len(T[n]) \in 1 .. MaxMessages
        /\ Len(T[n]) = 1 \/ SumFunctionOnSet(W, Range(T[n])) <= MaxWords
    BY <1>1, <1>5 DEF Tidy
  <2> HIDE DEF M
  <2>3. ASSUME NEW i \in 1 .. Len(T[n])
        PROVE  /\ T[n][i] \in Spoken(c)
               /\ M[n][i].request = P[n].id /\ M[n][i].ordinal = i /\ M[n][i].text = T[n][i]
               /\ setup.options.semantic => M[n][i].vector = T[n][i]
               /\ Binding(c, P[n].id, i) = TurnId(c, T[n][i])
    BY <2>1, <1>2, <1>7
  <2> QED BY <2>1, <2>2, <2>3, <1>2
<1> HIDE DEF M, O, H
<1>11. /\ H \in Seq(Message)
       /\ O \in [0 .. N -> Nat]
       /\ \A i \in 1 .. N : O[i] = O[i - 1] + Len(M[i])
       /\ \A i \in 0 .. N : \A h \in 0 .. i : O[h] <= O[i]
       /\ O[N] = Len(H)
       /\ \A i \in 1 .. N : \A j \in 1 .. Len(M[i]) : H[O[i - 1] + j] = M[i][j]
       /\ \A p \in 1 .. Len(H) : \E i \in 1 .. N : \E j \in 1 .. Len(M[i]) : p = O[i - 1] + j
  <2>1. /\ H \in Seq(Message)
        /\ O \in [0 .. Len(M) -> Nat]
        /\ \A i \in 1 .. Len(M) : O[i] = O[i - 1] + Len(M[i])
        /\ \A i \in 0 .. Len(M) : \A h \in 0 .. i : O[h] <= O[i]
        /\ O[Len(M)] = Len(H)
        /\ \A i \in 1 .. Len(M) : \A j \in 1 .. Len(M[i]) : H[O[i - 1] + j] = M[i][j]
        /\ \A p \in 1 .. Len(H) : \E i \in 1 .. Len(M) : \E j \in 1 .. Len(M[i]) : p = O[i - 1] + j
    BY <1>8, <1>9, FlattenPlaces, Zenon DEF O
  <2> QED BY <2>1, <1>8
<1>12. DOMAIN H = 1 .. Len(H) /\ Len(H) \in Nat
  BY <1>11
\* A message of the memory: the one at place j of request n.
<1> DEFINE Lies(p, n, j) ==
             /\ p = O[n - 1] + j
             /\ H[p].request = P[n].id /\ H[p].ordinal = j /\ H[p].text = T[n][j]
             /\ setup.options.semantic => H[p].vector = T[n][j]
<1>13. \A n \in 1 .. N : \A j \in 1 .. Len(T[n]) :
         O[n - 1] + j \in 1 .. Len(H) /\ Lies(O[n - 1] + j, n, j)
  <2> SUFFICES ASSUME NEW n \in 1 .. N, NEW j \in 1 .. Len(T[n])
               PROVE  O[n - 1] + j \in 1 .. Len(H) /\ Lies(O[n - 1] + j, n, j)
    OBVIOUS
  <2>1. n - 1 \in 0 .. N /\ n \in 0 .. N /\ N \in 0 .. N
    BY <1>1
  <2>2. O[n - 1] \in Nat /\ O[n] \in Nat /\ O[n] = O[n - 1] + Len(M[n]) /\ O[n] <= O[N] /\ O[N] = Len(H)
    BY <2>1, <1>11
  <2>3. O[n - 1] + j \in 1 .. Len(H)
    BY <2>2, <1>10, <1>12
  <2>4. H[O[n - 1] + j] = M[n][j]
    BY <1>10, <1>11
  <2> QED BY <2>3, <2>4, <1>10
<1>14. \A p \in 1 .. Len(H) : \E n \in 1 .. N : \E j \in 1 .. Len(T[n]) : Lies(p, n, j)
  <2> SUFFICES ASSUME NEW p \in 1 .. Len(H)
               PROVE  \E n \in 1 .. N : \E j \in 1 .. Len(T[n]) : Lies(p, n, j)
    OBVIOUS
  <2>1. PICK n \in 1 .. N : \E j \in 1 .. Len(M[n]) : p = O[n - 1] + j
    BY <1>11
  <2>2. PICK j \in 1 .. Len(M[n]) : p = O[n - 1] + j
    BY <2>1
  <2>3. j \in 1 .. Len(T[n])
    BY <2>1, <2>2, <1>10
  <2>4. Lies(p, n, j)
    <3> HIDE DEF Lies
    <3> QED BY <2>1, <2>2, <2>3, <1>13
  <2> QED BY <2>1, <2>3, <2>4
<1> HIDE DEF Lies
<1>15. ASSUME NEW p \in 1 .. Len(H), NEW q \in 1 .. Len(H), H[p].text = H[q].text PROVE p = q
  <2>1. PICK n \in 1 .. N : \E j \in 1 .. Len(T[n]) : Lies(p, n, j)
    BY <1>14
  <2>2. PICK j \in 1 .. Len(T[n]) : Lies(p, n, j)
    BY <2>1
  <2>3. PICK k \in 1 .. N : \E l \in 1 .. Len(T[k]) : Lies(q, k, l)
    BY <1>14
  <2>4. PICK l \in 1 .. Len(T[k]) : Lies(q, k, l)
    BY <2>3
  <2>5. T[n][j] = T[k][l]
    BY <2>2, <2>4, <1>15 DEF Lies
  <2>6. n = k /\ j = l
    BY <2>1, <2>2, <2>3, <2>4, <2>5, <1>1, <1>5 DEF Tidy
  <2> QED BY <2>2, <2>4, <2>6 DEF Lies
<1>16. {H[p].text : p \in DOMAIN H} = Spoken(c)
  <2>1. ASSUME NEW p \in 1 .. Len(H) PROVE H[p].text \in Spoken(c)
    BY <1>10, <1>14 DEF Lies
  <2>2. ASSUME NEW t \in Spoken(c) PROVE \E p \in 1 .. Len(H) : H[p].text = t
    <3>1. PICK n \in 1 .. N : \E j \in 1 .. Len(T[n]) : T[n][j] = t
      BY <1>1, <1>5 DEF Tidy
    <3> QED BY <3>1, <1>13 DEF Lies
  <2> QED BY <2>1, <2>2, <1>12
<1>17. Len(H) = Cardinality(Spoken(c))
  <2> DEFINE f == [p \in 1 .. Len(H) |-> H[p].text]
  <2>1. f \in Bijection(1 .. Len(H), Spoken(c))
    <3>1. f \in [1 .. Len(H) -> Spoken(c)]
      BY <1>12, <1>16
    <3>2. \A p, q \in 1 .. Len(H) : f[p] = f[q] => p = q
      BY <1>15
    <3>3. \A t \in Spoken(c) : \E p \in 1 .. Len(H) : f[p] = t
      BY <1>12, <1>16
    <3> HIDE DEF f
    <3> QED BY <3>1, <3>2, <3>3 DEF Bijection, Injection, IsInjective, Surjection
  <2>2. IsFiniteSet(1 .. Len(H)) /\ Cardinality(1 .. Len(H)) = Len(H)
    BY <1>12, UpTo
  <2>3. ExistsBijection(1 .. Len(H), Spoken(c))
    BY <2>1 DEF ExistsBijection
  <2> QED BY <2>2, <2>3, FS_Bijection, Zenon
<1> DEFINE Together(p) == {q \in DOMAIN H : H[q].request = H[p].request}
<1>18. ASSUME NEW p \in DOMAIN H
       PROVE  /\ Binding(c, H[p].request, H[p].ordinal) = TurnId(c, H[p].text)
              /\ \A q \in Together(p) : H[q].ordinal = H[p].ordinal => p = q
              /\ setup.options.semantic => H[p].vector = H[p].text
              /\ Cardinality(Together(p)) <= MaxMessages
              /\ \/ Together(p) = {p}
                 \/ SumFunctionOnSet(W, {H[q].text : q \in Together(p)}) <= MaxWords
  <2>1. PICK n \in 1 .. N : \E j \in 1 .. Len(T[n]) : Lies(p, n, j)
    BY <1>12, <1>14
  <2>2. PICK j \in 1 .. Len(T[n]) : Lies(p, n, j)
    BY <2>1
  <2> DEFINE L == Len(T[n])
             Slot(l) == O[n - 1] + l
  <2>3. L \in Nat /\ O[n - 1] \in Nat
    <3>1. n - 1 \in 0 .. N
      BY <2>1, <1>1
    <3>2. Len(T[n]) \in 1 .. MaxMessages
      BY <2>1, <1>10
    <3>3. O[n - 1] \in Nat
      BY <3>1, <1>11
    <3> HIDE DEF L
    <3>4. L \in Nat
      BY <3>2, <1>6 DEF L
    <3> QED BY <3>3, <3>4
  <2>4. \A l \in 1 .. L : Slot(l) \in Together(p) /\ Lies(Slot(l), n, l)
    BY <2>1, <2>2, <1>12, <1>13 DEF Lies
  <2>5. ASSUME NEW q \in Together(p) PROVE \E l \in 1 .. L : q = Slot(l)
    <3>1. PICK k \in 1 .. N : \E l \in 1 .. Len(T[k]) : Lies(q, k, l)
      BY <1>12, <1>14
    <3>2. PICK l \in 1 .. Len(T[k]) : Lies(q, k, l)
      BY <3>1
    <3>3. P[k].id = P[n].id
      BY <2>2, <3>2, <2>5 DEF Lies
    <3>4. k = n
      BY <3>1, <3>3, <2>1, <1>3
    <3> QED BY <3>2, <3>4 DEF Lies
  <2>6. \A q \in Together(p) : H[q].ordinal = H[p].ordinal => p = q
    BY <2>2, <2>4, <2>5 DEF Lies
  <2> HIDE DEF Together
  <2>7. Cardinality(Together(p)) <= MaxMessages
    <3> DEFINE f == [l \in 1 .. L |-> Slot(l)]
    <3>1. f \in Surjection(1 .. L, Together(p))
      BY <2>4, <2>5 DEF Surjection
    <3>2. IsFiniteSet(1 .. L) /\ Cardinality(1 .. L) = L
      BY <2>3, UpTo
    <3> HIDE DEF f, L
    <3>3. IsFiniteSet(Together(p)) /\ Cardinality(Together(p)) <= Cardinality(1 .. L)
      BY <3>1, <3>2, FS_Surjection
    <3>4. Cardinality(Together(p)) \in Nat /\ L <= MaxMessages
      BY <3>3, <2>1, <1>10, FS_CardinalityType DEF L
    <3> QED BY <3>2, <3>3, <3>4, <2>3, <1>6
  <2>10. /\ Binding(c, H[p].request, H[p].ordinal) = TurnId(c, H[p].text)
         /\ setup.options.semantic => H[p].vector = H[p].text
    <3>1. Binding(c, P[n].id, j) = TurnId(c, T[n][j]) 
      BY <2>1, <2>2, <1>10
    <3> QED BY <3>1, <2>2 DEF Lies
  <2>8. CASE L = 1
    <3>1. 1 .. L = {1}
      BY <2>8
    <3>2. \A l \in 1 .. L : l = j
      BY <3>1, <2>2
    <3>3. p = Slot(j) /\ p \in Together(p)
      BY <2>2, <2>4 DEF Lies
    <3>4. Together(p) = {p}
      BY <3>2, <3>3, <2>5
    <3> QED BY <2>10, <2>6, <2>7, <3>4
  <2>9. CASE L # 1
    <3>1. {H[q].text : q \in Together(p)} = Range(T[n])
      <4>1. DOMAIN T[n] = 1 .. L
        <5>1. T \in Seq(Seq(Pair))
          BY <1>1 DEF Tidy
        <5>2. T[n] \in Seq(Pair)
          BY <5>1, <2>1, <1>5
        <5> QED BY <5>2
      <4>2. \A l \in 1 .. L : H[Slot(l)].text = T[n][l]
        BY <2>4 DEF Lies
      <4> HIDE DEF L, Slot
      <4> QED BY <4>1, <4>2, <2>4, <2>5 DEF Range
    <3>2. SumFunctionOnSet(W, Range(T[n])) <= MaxWords
      BY <2>1, <2>9, <1>10
    <3> QED BY <2>10, <2>6, <2>7, <3>1, <3>2
  <2> QED BY <2>8, <2>9
<1>19. Planned(c, H)
  BY <1>16, <1>17, <1>18 DEF Planned, W, Weight
<1> QED BY <1>19 DEF H, N, P

----------------------------------------------------------------------------
(* What is read *)

\* The first of some places.
LEMMA FirstAmong ==
  ASSUME NEW I \in SUBSET Nat, I # {}
  PROVE  Min(I) \in I /\ \A i \in I : Min(I) <= i
<1>1. \E m \in I : \A k \in I : m <= k
  BY LeastElement
<1> QED BY <1>1 DEF Min

\* Characters, and a position among them.
Reading == buffer \in Seq(Character) /\ position \in 0 .. Len(buffer)

\* skip_whitespace and raw_decode stay inside the text in hand.
LEMMA PositionsInside ==
  ASSUME Reading, NEW k \in 0 .. Len(buffer)
  PROVE  Skipped(k) \in 0 .. Len(buffer) /\ AfterNumber(k) \in 0 .. Len(buffer)
<1>1. buffer \in Seq(Character) /\ Len(buffer) \in Nat
  BY DEF Reading
<1> DEFINE n == Len(buffer)
           Other(x) == {i \in k + 1 .. n : buffer[i] # x}
           I == Other(" ")
           J == Other("7")
<1>0. \A x : Other(x) \in SUBSET Nat /\ \A i \in Other(x) : i - 1 \in 0 .. n
  BY <1>1
<1> HIDE DEF Other
<1>2. I \in SUBSET Nat /\ J \in SUBSET Nat
  BY <1>0, Zenon
<1>3. \A i \in I : i - 1 \in 0 .. n
  BY <1>0, Zenon
<1>6. \A i \in J : i - 1 \in 0 .. n
  BY <1>0, Zenon
<1>4. (I # {} => Min(I) \in I) /\ (J # {} => Min(J) \in J)
  <2> HIDE DEF I, J
  <2> QED BY <1>2, FirstAmong
<1>5. /\ Skipped(k) = LET next == IF I # {} THEN Min(I) ELSE 0 IN IF next = 0 THEN n ELSE next - 1
      /\ AfterNumber(k) = LET next == IF J # {} THEN Min(J) ELSE 0 IN IF next = 0 THEN n ELSE next - 1
  BY Zenon DEF Skipped, AfterNumber, SelectInSubSeq, Other
<1> HIDE DEF I, J
<1> QED BY <1>1, <1>3, <1>4, <1>5, <1>6

\* A character that is there is one of the buffer.
LEMMA CharactersThere ==
  ASSUME Reading, NEW k \in Nat, At(k) # None
  PROVE  k < Len(buffer) /\ At(k) \in Character
BY DEF Reading, At

\* fill leaves a text, and the position at its beginning.
LEMMA AfterFill ==
  ASSUME Reading, setup \in Setup, rest \in Seq(Character), NEW k \in 0 .. Len(buffer), Fill(k)
  PROVE  Reading' /\ rest' \in Seq(Character) /\ eof' \in BOOLEAN
<1>1. setup.options.chunk \in Nat \ {0} /\ buffer \in Seq(Character)
  BY SetupAssumption DEF Reading
<1> DEFINE chunk == setup.options.chunk
<1>2. /\ buffer' = After(buffer, k) \o FirstOf(rest, chunk) /\ position' = 0
      /\ rest' = After(rest, chunk) /\ eof' = (rest = <<>>)
  BY DEF Fill
<1> HIDE DEF chunk
<1>3. Len(rest) \in Nat /\ Len(buffer) \in Nat /\ chunk \in Nat /\ Least(chunk, Len(rest)) \in 0 .. Len(rest)
  BY <1>1 DEF Least, chunk
<1>4. After(buffer, k) \in Seq(Character) /\ After(rest, chunk) \in Seq(Character)
      /\ FirstOf(rest, chunk) \in Seq(Character)
  BY <1>1, <1>3 DEF After, FirstOf
<1>5. buffer' \in Seq(Character) /\ position' \in 0 .. Len(buffer')
  BY <1>2, <1>4
<1> QED BY <1>2, <1>4, <1>5 DEF Reading

\* A file spells out characters.
LEMMA TextOfTokens ==
  ASSUME NEW tokens \in Seq(Token)
  PROVE  Text(tokens) \in Seq(Character)
<1> DEFINE T == [i \in DOMAIN tokens |-> Spelling(tokens[i])]
<1>1. \A token \in Token : Spelling(token) \in Seq(Character)
  <2>1. \A token \in CaseId : <<"{", token, "}">> \in Seq(Character)
    <3>1. \A x, y, z \in Character : <<x, y, z>> \in Seq(Character)
      OBVIOUS
    <3>2. "{" \in Character /\ "}" \in Character /\ CaseId \subseteq Character
      BY Zenon DEF CaseId, Character
    <3> QED BY <3>1, <3>2, Zenon
  <2>2. <<"{", "a">> \in Seq(Character)
    <3>1. \A x, y \in Character : <<x, y>> \in Seq(Character)
      OBVIOUS
    <3>2. "{" \in Character /\ "a" \in Character
      BY Zenon DEF Character
    <3> QED BY <3>1, <3>2, Zenon
  <2>3. \A token \in Token \ (CaseId \cup {"cut"}) : <<token>> \in Seq(Character)
    <3>1. \A x \in Character : <<x>> \in Seq(Character)
      OBVIOUS
    <3>2. Token \ (CaseId \cup {"cut"}) \subseteq Character
      BY Zenon DEF CaseId, Character, Token
    <3> QED BY <3>1, <3>2, Zenon
  <2> QED BY <2>1, <2>2, <2>3, Zenon DEF Spelling, CaseId
<1>2. T \in Seq(Seq(Character))
  <2>1. DOMAIN tokens = 1 .. Len(tokens) /\ Len(tokens) \in Nat /\ \A i \in 1 .. Len(tokens) : tokens[i] \in Token
    OBVIOUS
  <2> QED BY <2>1, <1>1
<1> HIDE DEF T
<1>3. FlattenSeq(T) \in Seq(Character)
  BY <1>2, FlattenPlaces
<1> QED BY <1>3 DEF Text, T

----------------------------------------------------------------------------
(* Types *)

\* Beside the types: a case is in hand while it is stored and searched, and the
\* records are a sequence.
Typed ==
  /\ setup \in Setup
  /\ TypeOK
  /\ pc \in {"ingest", "search"} => case \in CaseId
  /\ records \in Seq(Range(records))

Step == {"open", "item", "next", "decode", "close", "case", "ingest", "search", "done", "failed"}

\* What the invariant says of the text in hand.
LEMMA TypedReading ==
  ASSUME Typed
  PROVE  Reading /\ rest \in Seq(Character) /\ buffer \in Seq(Character) /\ Skipped(position) \in 0 .. Len(buffer)
<1>1. Reading /\ rest \in Seq(Character) /\ buffer \in Seq(Character) /\ position \in 0 .. Len(buffer)
  BY DEF Typed, TypeOK, Reading
<1> QED BY <1>1, PositionsInside

\* A record more.
LEMMA AppendedRecord ==
  ASSUME NEW list, list \in Seq(Range(list)), NEW r
  PROVE  /\ Append(list, r) \in Seq(Range(Append(list, r)))
         /\ Len(Append(list, r)) = Len(list) + 1 /\ Append(list, r)[Len(list) + 1] = r
         /\ DOMAIN list = 1 .. Len(list) /\ Len(list) \in Nat
         /\ DOMAIN Append(list, r) = 1 .. Len(list) + 1
         /\ \A i \in 1 .. Len(list) : Append(list, r)[i] = list[i]
<1> DEFINE S == Range(list) \cup {r}
           n == Len(list)
           more == Append(list, r)
<1>1. list \in Seq(S) /\ n \in Nat /\ DOMAIN list = 1 .. n
  <2> DEFINE R == Range(list)
  <2>1. list \in Seq(R)
    OBVIOUS
  <2> HIDE DEF R
  <2>2. n \in Nat /\ DOMAIN list = 1 .. n /\ \A i \in 1 .. n : list[i] \in R
    BY <2>1
  <2>3. list \in Seq(R \cup {r})
    BY <2>1
  <2> QED BY <2>2, <2>3 DEF R
<1> HIDE DEF S
<1>2. /\ r \in S
      /\ more \in Seq(S) /\ Len(more) = n + 1 /\ more[n + 1] = r /\ DOMAIN more = 1 .. n + 1
      /\ \A i \in 1 .. n : more[i] = list[i]
  <2>1. r \in S
    BY DEF S
  <2> QED BY <1>1, <2>1
<1> HIDE DEF more, n
<1>3. Range(more) = S
  <2>1. \A i \in 1 .. n + 1 : i \in 1 .. n \/ i = n + 1
    BY <1>1
  <2>2. n + 1 \in 1 .. n + 1 /\ \A i \in 1 .. n : i \in 1 .. n + 1
    BY <1>1
  <2>3. Range(list) \cup {r} = Range(more)
    BY <2>1, <2>2, <1>1, <1>2 DEF Range
  <2> QED BY <2>3 DEF S
<1> QED BY <1>1, <1>2, <1>3 DEF more, n

\* An action that reads, or moves on in what is read, keeps the types.
LEMMA TypedMove ==
  ASSUME Typed, buffer' \in Seq(Character), position' \in 0 .. Len(buffer'), rest' \in Seq(Character),
         eof' \in BOOLEAN, first' \in BOOLEAN, case' \in CaseId \cup {None},
         pc' \in Step \ {"ingest", "search"},
         UNCHANGED <<setup, seen, selected, memory, records>>
  PROVE  Typed'
BY DEF Typed, TypeOK, Step, memory

\* A character ahead that is one: not the end.
LEMMA AheadThere ==
  ASSUME Typed, Ahead # None
  PROVE  Skipped(position) + 1 \in 0 .. Len(buffer)
<1>1. Skipped(position) \in 0 .. Len(buffer) /\ Reading /\ Len(buffer) \in Nat
  BY TypedReading
<1>2. Skipped(position) < Len(buffer)
  BY <1>1, CharactersThere DEF Ahead
<1> QED BY <1>1, <1>2

\* A step that only consumes blanks or the character ahead keeps the types.
LEMMA TypedTake ==
  ASSUME Typed, NEW step \in Step \ {"ingest", "search"},
         Leave(step) \/ (Ahead # None /\ Take(step)),
         UNCHANGED <<setup, rest, buffer, eof, first, case, seen, selected, memory, records>>
  PROVE  Typed'
<1>1. position' \in 0 .. Len(buffer)
  BY TypedReading, AheadThere DEF Leave, Take
<1>2. pc' \in Step \ {"ingest", "search"}
  BY DEF Leave, Take
<1>3. rest \in Seq(Character) /\ buffer \in Seq(Character)
  BY TypedReading
<1>4. eof \in BOOLEAN /\ first \in BOOLEAN /\ case \in CaseId \cup {None}
  BY DEF Typed, TypeOK
<1> QED BY <1>1, <1>2, <1>3, <1>4, TypedMove

\* A step that only reads on keeps the types.
LEMMA TypedFill ==
  ASSUME Typed, NEW k \in 0 .. Len(buffer), Fill(k),
         UNCHANGED <<setup, first, pc, case, seen, selected, memory, records>>,
         pc \notin {"ingest", "search"}
  PROVE  Typed'
<1>1. Reading /\ rest \in Seq(Character) /\ setup \in Setup
  BY TypedReading DEF Typed
<1>2. Reading' /\ rest' \in Seq(Character) /\ eof' \in BOOLEAN
  BY <1>1, AfterFill
<1>3. buffer' \in Seq(Character) /\ position' \in 0 .. Len(buffer')
  BY <1>2 DEF Reading
<1>4. first \in BOOLEAN /\ case \in CaseId \cup {None} /\ pc \in Step
  BY DEF Typed, TypeOK, Step
<1> QED BY <1>2, <1>3, <1>4, TypedMove

\* What is read at the position belongs to the buffer.
LEMMA TypedDecode ==
  ASSUME Typed, Decode
  PROVE  Typed'
<1>1. /\ Reading /\ rest \in Seq(Character) /\ buffer \in Seq(Character)
      /\ position \in 0 .. Len(buffer) /\ Len(buffer) \in Nat
      /\ eof \in BOOLEAN /\ first \in BOOLEAN /\ case \in CaseId \cup {None}
  BY TypedReading DEF Typed, TypeOK
<1>2. UNCHANGED <<setup, seen, selected, memory, records>> /\ pc = "decode"
  BY Zenon DEF Decode
<1>3. CASE IsItem(position) /\ position' = position + 3 /\ case' = At(position + 1)
           /\ first' = FALSE /\ pc' = "case" /\ UNCHANGED <<rest, buffer, eof>>
  <2>1. At(position + 2) # None /\ At(position + 1) \in CaseId
    <3>1. "}" \in Character
      BY Zenon DEF Character
    <3> QED BY <1>3, <3>1, NoneAssumption, Zenon DEF IsItem
  <2>2. position + 2 < Len(buffer)
    BY <2>1, <1>1, CharactersThere
  <2>3. position' \in 0 .. Len(buffer)
    BY <1>1, <1>3, <2>2
  <2> QED BY <1>1, <1>2, <1>3, <2>1, <2>3, TypedMove DEF Step
<1>4. CASE position' = AfterNumber(position) /\ case' = None
           /\ first' = FALSE /\ pc' = "case" /\ UNCHANGED <<rest, buffer, eof>>
  <2>1. position' \in 0 .. Len(buffer)
    BY <1>1, <1>4, PositionsInside
  <2> QED BY <1>1, <1>2, <1>4, <2>1, TypedMove DEF Step
<1>5. CASE Fill(position) /\ UNCHANGED <<first, pc, case>>
  BY <1>1, <1>2, <1>5, TypedFill
<1>6. CASE pc' = "failed" /\ UNCHANGED <<parser, case>>
  BY <1>1, <1>2, <1>6, TypedMove DEF Step, parser
<1> QED BY <1>3, <1>4, <1>5, <1>6, Zenon DEF Decode

\* The first item is decoded whatever it begins with.
LEMMA ItemBegins ==
  ASSUME Item, Ahead # "]", Ahead # None, first
  PROVE  Leave("decode")
BY Zenon DEF Item

\* Neither the end nor an item, and no comma where one must be.
LEMMA ItemFails ==
  ASSUME Item, Ahead # "]", ~(Ahead # "]" /\ Ahead # None /\ first), ~(Ahead = "," /\ ~first)
  PROVE  Leave("failed")
BY Zenon DEF Item

\* The types are kept by every step.
LEMMA TypedNext ==
  ASSUME Typed, [Next]_vars
  PROVE  Typed'
<1>1. /\ "[" \in Character /\ "]" \in Character /\ "," \in Character
      /\ {"open", "item", "next", "close", "failed", "done", "decode"} \subseteq Step \ {"ingest", "search"}
  <2>1. "[" \in Character /\ "]" \in Character /\ "," \in Character
    BY Zenon DEF Character
  <2> QED BY <2>1 DEF Step
<1>2. \A x \in Character : Ahead = x => Ahead # None
  BY NoneAssumption
<1> DEFINE Still == UNCHANGED <<setup, rest, buffer, eof, first, case, seen, selected, memory, records>>
<1>13. /\ Still /\ Leave("decode") => Typed'
       /\ Still /\ Leave("failed") => Typed'
       /\ Still /\ Leave("done") => Typed'
  <2>1. \A step \in Step \ {"ingest", "search"} : Still /\ Leave(step) => Typed'
    <3> SUFFICES ASSUME NEW step \in Step \ {"ingest", "search"}, Still, Leave(step) PROVE Typed'
      OBVIOUS
    <3>1. Leave(step) \/ (Ahead # None /\ Take(step))
      OBVIOUS
    <3> QED BY <3>1, TypedTake, Zenon
  <2>2. {"decode", "failed", "done"} \subseteq Step \ {"ingest", "search"}
    BY <1>1
  <2> QED BY <2>1, <2>2, Zenon
<1>14. /\ Still /\ Ahead # None /\ Take("item") => Typed'
       /\ Still /\ Ahead # None /\ Take("close") => Typed'
       /\ Still /\ Ahead # None /\ Take("next") => Typed'
  <2>1. \A step \in Step \ {"ingest", "search"} : Still /\ Ahead # None /\ Take(step) => Typed'
    BY TypedTake
  <2>2. {"item", "close", "next"} \subseteq Step \ {"ingest", "search"}
    BY <1>1
  <2> QED BY <2>1, <2>2, Zenon
<1>3. CASE SkipOn
  <2>1. Fill(Len(buffer)) /\ UNCHANGED <<setup, first, pc, case, seen, selected, memory, records>>
        /\ pc \notin {"ingest", "search"}
    BY <1>3 DEF SkipOn
  <2>2. Len(buffer) \in 0 .. Len(buffer)
    BY TypedReading
  <2> QED BY <2>1, <2>2, TypedFill
<1>4. CASE Open
  <2>1. Still
    BY <1>4, Zenon DEF Open
  <2>2. CASE Ahead = "["
    <3>1. Take("item") /\ Ahead # None
      BY <2>2, <1>1, <1>2, <1>4, Zenon DEF Open
    <3> QED BY <2>1, <3>1, <1>14, Zenon
  <2>3. CASE Ahead # "["
    <3>1. Leave("failed")
      BY <2>3, <1>4, Zenon DEF Open
    <3> QED BY <2>1, <3>1, <1>13, Zenon
  <2> QED BY <2>2, <2>3
<1>5. CASE Item
  <2>1. Still
    BY <1>5, Zenon DEF Item
  <2>2. CASE Ahead = "]"
    <3>1. Take("close") /\ Ahead # None
      BY <2>2, <1>1, <1>2, <1>5, Zenon DEF Item
    <3> QED BY <2>1, <3>1, <1>14, Zenon
  <2>3. CASE Ahead # "]" /\ Ahead # None /\ first
    <3>1. Leave("decode")
      BY <2>3, <1>5, ItemBegins
    <3> QED BY <2>1, <3>1, <1>13, Zenon
  <2>4. CASE Ahead = "," /\ ~first
    <3>1. Take("next") /\ Ahead # None
      BY <2>4, <1>1, <1>2, <1>5, Zenon DEF Item
    <3> QED BY <2>1, <3>1, <1>14, Zenon
  <2>5. CASE Ahead # "]" /\ ~(Ahead # "]" /\ Ahead # None /\ first) /\ ~(Ahead = "," /\ ~first)
    <3>1. Leave("failed")
      BY <2>5, <1>5, ItemFails
    <3> QED BY <2>1, <3>1, <1>13, Zenon
  <2> QED BY <2>2, <2>3, <2>4, <2>5, Zenon
<1>6. CASE AfterComma
  <2>1. Still
    BY <1>6, Zenon DEF AfterComma
  <2>2. Leave("decode") \/ Leave("failed")
    BY <1>6, Zenon DEF AfterComma
  <2> QED BY <2>1, <2>2, <1>13, Zenon
<1>7. CASE Decode
  BY <1>7, TypedDecode
<1>8. CASE Close
  <2>1. Still
    BY <1>8, Zenon DEF Close
  <2>2. Leave("done") \/ Leave("failed")
    BY <1>8, Zenon DEF Close
  <2> QED BY <2>1, <2>2, <1>13, Zenon
<1>9. CASE Receive
  <2>1. /\ pc' \in {"failed", "item", "done", "ingest"} /\ (pc' = "ingest" => case \in CaseId)
        /\ seen' \subseteq CaseId /\ selected' \in Seq(CaseId) /\ sent' = 0
        /\ UNCHANGED <<setup, parser, case, records>>
    <3>1. case \in CaseId \cup {None} /\ seen \subseteq CaseId /\ selected \in Seq(CaseId)
      BY DEF Typed, TypeOK
    <3> HIDE DEF CaseId
    <3>2. CASE pc' = "failed" /\ UNCHANGED <<seen, selected>>
      BY <1>9, <3>1, <3>2 DEF Receive
    <3>3. CASE case # None /\ seen' = seen \cup {case} /\ pc' \in {"item", "done"} /\ UNCHANGED selected
      BY <1>9, <3>1, <3>3 DEF Receive
    <3>4. CASE case # None /\ seen' = seen \cup {case} /\ pc' = "ingest" /\ selected' = Append(selected, case)
      BY <1>9, <3>1, <3>4 DEF Receive
    <3> QED BY <1>9, <3>2, <3>3, <3>4, Zenon DEF Receive
  <2> QED BY <2>1 DEF Typed, TypeOK, parser
<1>10. CASE Ingest
  <2>1. /\ pc' \in {"failed", "ingest", "search"} /\ case \in CaseId /\ sent' \in Nat
        /\ UNCHANGED <<setup, parser, case, seen, selected, records>>
    BY <1>10 DEF Ingest, Typed, TypeOK, memory
  <2> QED BY <2>1 DEF Typed, TypeOK, parser
<1>11. CASE Search
  <2>1. /\ case \in CaseId /\ pc' = "item" /\ UNCHANGED <<setup, parser, case, seen, selected, memory>>
        /\ \E r : records' = Append(records, r) /\ r.case = case
    BY <1>11 DEF Search, Typed
  <2>2. PICK r : records' = Append(records, r) /\ r.case = case
    BY <2>1
  <2>3. records' \in Seq(Range(records')) /\ \A i \in DOMAIN records' : records'[i].case \in CaseId
    BY <2>1, <2>2, AppendedRecord DEF Typed, TypeOK
  <2> QED BY <2>1, <2>3 DEF Typed, TypeOK, parser, memory
<1>12. CASE Over \/ UNCHANGED vars
  BY <1>12 DEF Over, vars, parser, memory, Typed, TypeOK
<1> QED BY <1>3, <1>4, <1>5, <1>6, <1>7, <1>8, <1>9, <1>10, <1>11, <1>12, Zenon DEF Next

\* The types are right at the start.
LEMMA TypedInit ==
  ASSUME Init
  PROVE  Typed
<1>1. setup \in Setup /\ setup.tokens \in Seq(Token)
  BY SetupAssumption DEF Init
<1>2. rest \in Seq(Character)
  BY <1>1, TextOfTokens DEF Init
<1>3. <<>> \in Seq(Range(<<>>)) /\ <<>> \in Seq(Character) /\ <<>> \in Seq(CaseId) /\ Len(<<>>) = 0
  OBVIOUS
<1>4. TypeOK
  <2>1. {rest, buffer} \subseteq Seq(Character) /\ position \in 0 .. Len(buffer)
    BY <1>2, <1>3 DEF Init
  <2>2. {eof, first} \subseteq BOOLEAN /\ case \in CaseId \cup {None} /\ seen \subseteq CaseId
    BY DEF Init
  <2>3. selected \in Seq(CaseId) /\ sent \in Nat /\ DOMAIN records = {}
    BY <1>3 DEF Init
  <2>4. pc = "open"
    BY DEF Init
  <2> QED BY <2>1, <2>2, <2>3, <2>4 DEF TypeOK
<1>5. records \in Seq(Range(records))
  BY <1>3 DEF Init
<1>6. pc = "open"
  BY DEF Init
<1> QED BY <1>1, <1>4, <1>5, <1>6 DEF Typed

\* Whatever the dataset and the options, the reader stays inside the text in
\* hand: fill, raw_decode and skip_whitespace leave a position that is one.
THEOREM TypeCorrect == Spec => []TypeOK
<1>1. Init => Typed
  BY TypedInit
<1>2. Typed /\ [Next]_vars => Typed'
  BY TypedNext
<1>3. Typed => TypeOK
  BY DEF Typed
<1> QED BY <1>1, <1>2, <1>3, PTL DEF Spec

----------------------------------------------------------------------------
(* The memory holds what is planned *)

\* While a case is ingested the memory holds the first requests of its plan, and
\* all of them before the search.
InHand ==
  pc \in {"ingest", "search"} =>
    /\ sent \in 0 .. Len(Plan(case))
    /\ stored = Ingested(case, sent)
    /\ pc = "search" => sent = Len(Plan(case))

\* The plan follows from the setup, which stays.
LEMMA SamePlan ==
  ASSUME UNCHANGED setup, NEW c, NEW n
  PROVE  Plan(c)' = Plan(c) /\ Ingested(c, n)' = Ingested(c, n)
<1>1. Plan(c)' = Plan(c)
  BY DEF Plan, Chunked, Placed, Closed, Turns, Sessions, Words
<1>2. Ingested(c, n)' = Ingested(c, n)
  BY DEF Ingested, Messages, Plan, Chunked, Placed, Closed, Turns, Sessions, Words, Vector, AtOnce, Texts, Offset
<1> QED BY <1>1, <1>2

\* One request more.
LEMMA IngestedMore ==
  ASSUME setup \in Setup, NEW c \in CaseId, NEW n \in 0 .. Len(Plan(c)) - 1
  PROVE  Ingested(c, n + 1) = Ingested(c, n) \o Messages(c, n + 1)
<1> DEFINE S == Message
           before == [k \in 1 .. n |-> Messages(c, k)]
           after == [k \in 1 .. n + 1 |-> Messages(c, k)]
<1>1. Len(Plan(c)) \in Nat
  <2>1. Plan(c) \in Seq(Request)
    BY PlanFacts
  <2> QED BY <2>1
<1>2. \A k \in 1 .. n + 1 : Messages(c, k) \in Seq(S)
  BY <1>1, MessagesOf
<1> HIDE DEF S
<1>3. before \in Seq(Seq(S)) /\ after = Append(before, Messages(c, n + 1)) /\ Messages(c, n + 1) \in Seq(S)
  BY <1>1, <1>2
<1> HIDE DEF before, after
<1>4. FlattenSeq(after) = FlattenSeq(before) \o Messages(c, n + 1)
  BY <1>3, FlattenAdds
<1> QED BY <1>4 DEF Ingested, before, after

\* What the memory holds of the plan is kept true by every step.
LEMMA InHandNext ==
  ASSUME Typed, InHand, [Next]_vars
  PROVE  InHand'
<1>1. setup \in Setup /\ UNCHANGED setup
  <2>1. UNCHANGED setup
    BY DEF Next, SkipOn, Open, Item, AfterComma, Decode, Close, Receive, Ingest, Search, Over, vars
  <2> QED BY <2>1 DEF Typed
<1>2. CASE Receive
  <2>1. CASE pc' = "ingest"
    <3>1. case \in CaseId /\ case' = case /\ stored' = <<>> /\ sent' = 0
      BY <1>2, <2>1 DEF Receive, Typed, TypeOK
    <3>2. Plan(case) \in Seq(Request)
      BY <1>1, <3>1, PlanFacts
    <3>3. Len(Plan(case)) \in Nat
      BY <3>2
    <3>4. Ingested(case, 0) = <<>>
      <4>1. [k \in 1 .. 0 |-> Messages(case, k)] = <<>> /\ <<>> \in Seq(Seq(Message)) /\ <<>> \in Seq(Message)
        OBVIOUS
      <4>2. FlattenSeq(<<>>) = <<>>
        BY <4>1, FlattenAdds
      <4> QED BY <4>1, <4>2 DEF Ingested
    <3>5. Plan(case)' = Plan(case) /\ Ingested(case, 0)' = Ingested(case, 0)
      BY <1>1, <3>1, SamePlan
    <3>6. Ingested(case, sent)' = <<>>
      BY <3>1, <3>4, <3>5
    <3> QED BY <2>1, <3>1, <3>3, <3>5, <3>6 DEF InHand
  <2>2. CASE pc' # "ingest"
    BY <1>2, <2>2 DEF Receive, InHand
  <2> QED BY <2>1, <2>2
<1>3. CASE Ingest
  <2> DEFINE n == sent
  <2>1. /\ case \in CaseId /\ UNCHANGED case /\ n \in 0 .. Len(Plan(case))
        /\ stored = Ingested(case, n)
    BY <1>3 DEF Ingest, Typed, InHand
  <2>2. Plan(case) \in Seq(Request)
    BY <1>1, <2>1, PlanFacts
  <2>3. Len(Plan(case)) \in Nat
    BY <2>2
  <2>4. \A c, k : Plan(c)' = Plan(c) /\ Ingested(c, k)' = Ingested(c, k)
    BY <1>1, SamePlan
  <2>5. CASE pc' = "failed"
    BY <2>5 DEF InHand
  <2>6. CASE sent < Len(Plan(case)) /\ stored' = stored \o Messages(case, sent + 1) /\ sent' = sent + 1 /\ pc' = "ingest"
    <3>1. n \in 0 .. Len(Plan(case)) - 1
      BY <2>1, <2>3, <2>6
    <3>2. stored' = Ingested(case, n + 1) /\ n + 1 \in 0 .. Len(Plan(case))
      <4> HIDE DEF n
      <4>1. Ingested(case, n + 1) = Ingested(case, n) \o Messages(case, n + 1)
        BY <1>1, <2>1, <3>1, IngestedMore
      <4>2. n + 1 \in 0 .. Len(Plan(case))
        BY <2>3, <3>1
      <4> QED BY <2>1, <2>6, <4>1, <4>2 DEF n
    <3> QED BY <2>1, <2>4, <2>6, <3>2 DEF InHand
  <2>7. CASE sent = Len(Plan(case)) /\ UNCHANGED memory
    BY <2>1, <2>4, <2>7 DEF InHand, memory
  <2> QED BY <1>3, <2>5, <2>6, <2>7 DEF Ingest
<1>4. CASE SkipOn \/ Open \/ Item \/ AfterComma \/ Close \/ Decode \/ Search
  <2>1. pc' \notin {"ingest", "search"}
    BY <1>4, Zenon DEF SkipOn, Open, Item, AfterComma, Close, Decode, Search, Take, Leave
  <2> QED BY <2>1 DEF InHand
<1>5. CASE Over \/ UNCHANGED vars
  <2>1. UNCHANGED <<pc, case, stored, sent>>
    BY <1>5 DEF Over, vars, memory
  <2>2. \A c, k : Plan(c)' = Plan(c) /\ Ingested(c, k)' = Ingested(c, k)
    BY <1>1, SamePlan
  <2> QED BY <2>1, <2>2 DEF InHand
<1> QED BY <1>2, <1>3, <1>4, <1>5, Zenon DEF Next

\* Before the search of a case, whatever its sessions and turns and whatever the
\* limits of a request, the memory holds every turn with text once, where its
\* official name is found again and with its own vector, in requests within the
\* limits: build_ingestion_plan loses no turn and run_evaluation mixes up none.
THEOREM EveryTurnStored == Spec => []StoredAsPlanned
<1>1. Init => Typed /\ InHand
  BY TypedInit DEF Init, InHand
<1>2. Typed /\ InHand /\ [Next]_vars => (Typed /\ InHand)'
  BY TypedNext, InHandNext
<1>3. Typed /\ InHand => StoredAsPlanned
  <2> SUFFICES ASSUME Typed, InHand, pc = "search" PROVE Planned(case, stored)
    BY DEF StoredAsPlanned, Planned
  <2>1. setup \in Setup /\ case \in CaseId /\ stored = Ingested(case, Len(Plan(case)))
    BY DEF Typed, InHand
  <2> QED BY <2>1, AllPlanned
<1> QED BY <1>1, <1>2, <1>3, PTL DEF Spec

----------------------------------------------------------------------------
(* What is ranked first *)

\* The different members before the place n of a sequence.
Before(s, n) == {s[j] : j \in 1 .. n}
Keep(a, x) == IF Contains(a, x) THEN a ELSE Append(a, x)

\* The recursive definition of Once keeps the members one after the other.
LEMMA OnceKeeps ==
  ASSUME NEW S, NEW s \in Seq(S)
  PROVE  \E kept \in [0 .. Len(s) -> Seq(S)] :
           /\ kept[0] = <<>> /\ Once(s) = kept[Len(s)]
           /\ \A k \in 1 .. Len(s) : kept[k] = Keep(kept[k - 1], s[k])
<1> DEFINE n == Len(s)
           T == Seq(S)
           next == [p \in T \X (1 .. n) |-> Keep(p[1], s[p[2]])]
           Is(f) == f = [k \in 0 .. n |-> IF k = 0 THEN <<>> ELSE Keep(f[k - 1], s[k])]
<1>1. n \in Nat /\ \A k \in 1 .. n : s[k] \in S
  OBVIOUS
<1>2. \A a \in T, x \in S : Keep(a, x) \in T
  BY DEF Keep
<1>3. <<>> \in T
  OBVIOUS
<1>4. Once(s) = (CHOOSE f : Is(f))[n]
  BY DEF Once, Keep
<1> HIDE DEF n, T
<1>5. next \in [T \X (1 .. n) -> T] /\ \A a \in T, k \in 1 .. n : next[<<a, k>>] = Keep(a, s[k])
  BY <1>1, <1>2
<1> HIDE DEF next
<1>6. PICK w \in [0 .. n -> T] : Steps(w, n, <<>>, next)
  BY <1>1, <1>3, <1>5, RecursionDefined
<1>7. \A k \in 0 .. n : w[k] = IF k = 0 THEN <<>> ELSE next[<<w[k - 1], k>>]
  BY <1>6 DEF Steps
<1>8. ASSUME NEW k \in 0 .. n PROVE w[k] = IF k = 0 THEN <<>> ELSE Keep(w[k - 1], s[k])
  <2>1. CASE k = 0
    BY <2>1, <1>7
  <2>2. CASE k # 0
    <3>1. k - 1 \in 0 .. n /\ k \in 1 .. n
      BY <2>2, <1>1
    <3>2. w[k] = next[<<w[k - 1], k>>] /\ w[k - 1] \in T
      BY <2>2, <3>1, <1>6, <1>7
    <3> QED BY <2>2, <3>1, <3>2, <1>5
  <2> QED BY <2>1, <2>2
<1>9. Is(w)
  <2>1. w = [k \in 0 .. n |-> w[k]]
    BY <1>6
  <2> QED BY <2>1, <1>8
<1> DEFINE f == CHOOSE f : Is(f)
<1>10. Is(f)
  BY <1>9, Zenon
<1>11. Once(s) = f[n]
  BY <1>4
<1> HIDE DEF f
<1>12. DOMAIN f = 0 .. n /\ \A k \in 0 .. n : f[k] = IF k = 0 THEN <<>> ELSE Keep(f[k - 1], s[k])
  BY <1>10
<1>13. 0 \in 0 .. n /\ \A k \in 1 .. n : k \in 0 .. n /\ k # 0
  BY <1>1
<1>14. f[0] = <<>> /\ \A k \in 1 .. n : f[k] = Keep(f[k - 1], s[k])
  BY <1>12, <1>13
<1> DEFINE Good == {k \in 0 .. n : f[k] \in T}
<1>15. 0 \in Good
  BY <1>3, <1>13, <1>14
<1>16. ASSUME NEW k \in 1 .. n, k - 1 \in Good PROVE k \in Good
  BY <1>1, <1>2, <1>13, <1>14, <1>16
<1>17. \A k \in 0 .. n : k \in Good
  <2> HIDE DEF Good
  <2> QED BY <1>1, <1>15, <1>16, Stepwise, Zenon
<1>18. f \in [0 .. n -> T]
  BY <1>10, <1>17
<1> QED BY <1>11, <1>14, <1>18 DEF n, T

\* Once loses nothing and repeats nothing, and a member comes after those which
\* occur before it does.
LEMMA OnceRanks ==
  ASSUME NEW S, NEW s \in Seq(S)
  PROVE  /\ Once(s) \in Seq(S)
         /\ \A p, q \in 1 .. Len(Once(s)) : Once(s)[p] = Once(s)[q] => p = q
         /\ \A p \in 1 .. Len(Once(s)) :
              \E i \in 1 .. Len(s) : /\ Once(s)[p] = s[i] /\ s[i] \notin Before(s, i - 1)
                                     /\ Cardinality(Before(s, i - 1)) = p - 1
         /\ \A i \in 1 .. Len(s) : \E p \in 1 .. Len(Once(s)) : Once(s)[p] = s[i]
<1> DEFINE n == Len(s)
           Right(a, k) ==
             /\ \A p, q \in 1 .. Len(a) : a[p] = a[q] => p = q
             /\ \A p \in 1 .. Len(a) :
                  \E i \in 1 .. k : /\ a[p] = s[i] /\ s[i] \notin Before(s, i - 1)
                                    /\ Cardinality(Before(s, i - 1)) = p - 1
             /\ \A i \in 1 .. k : \E p \in 1 .. Len(a) : a[p] = s[i]
<1>1. n \in Nat /\ \A k \in 1 .. n : s[k] \in S
  OBVIOUS
<1>2. PICK kept \in [0 .. n -> Seq(S)] :
        kept[0] = <<>> /\ Once(s) = kept[n] /\ \A k \in 1 .. n : kept[k] = Keep(kept[k - 1], s[k])
  BY OnceKeeps
<1> HIDE DEF n
<1> DEFINE Good == {k \in 0 .. n : Right(kept[k], k)}
<1>3. 0 \in Good
  <2>1. Len(kept[0]) = 0 /\ 0 \in 0 .. n
    BY <1>1, <1>2
  <2> QED BY <2>1
<1>4. ASSUME NEW k \in 1 .. n, k - 1 \in Good PROVE k \in Good
  <2> DEFINE a == kept[k - 1]
             b == kept[k]
             x == s[k]
             m == Len(a)
  <2>1. k - 1 \in 0 .. n /\ k \in 0 .. n /\ k - 1 \in Nat
    BY <1>1
  <2>2. a \in Seq(S) /\ b = Keep(a, x) /\ x \in S /\ Right(a, k - 1)
    BY <2>1, <1>1, <1>2, <1>4
  <2> HIDE DEF a, b, x, Right
  <2>3. m \in Nat
    BY <2>2
  <2>4. \A i \in 1 .. k : i \in 1 .. k - 1 \/ i = k
    BY <1>1
  <2>5. \A i \in 1 .. k - 1 : i \in 1 .. k
    BY <1>1
  <2>6. CASE Contains(a, x)
    <3>1. b = a /\ \E p \in 1 .. m : a[p] = x
      BY <2>2, <2>6 DEF Keep, Contains
    <3>2. Right(b, k)
      BY <3>1, <2>2, <2>4, <2>5 DEF Right, x
    <3> QED BY <3>2, <2>1 DEF b
  <2>7. CASE ~Contains(a, x)
    <3>1. b = Append(a, x) /\ \A p \in 1 .. m : a[p] # x
      BY <2>2, <2>7 DEF Keep, Contains
    <3>2. Len(b) = m + 1 /\ b[m + 1] = x /\ \A p \in 1 .. m : b[p] = a[p]
      <4>1. a \in Seq(S) /\ x \in S
        BY <2>2
      <4>2. Len(Append(a, x)) = m + 1 /\ Append(a, x)[m + 1] = x /\ \A p \in 1 .. m : Append(a, x)[p] = a[p]
        BY <4>1
      <4> HIDE DEF m
      <4> QED BY <3>1, <4>2
    <3>3. \A p \in 1 .. m + 1 : p \in 1 .. m \/ p = m + 1
      BY <2>3
    <3>4. m + 1 \in 1 .. m + 1 /\ \A p \in 1 .. m : p \in 1 .. m + 1
      BY <2>3
    <3>5. \A p, q \in 1 .. m + 1 : b[p] = b[q] => p = q
      BY <2>2, <3>1, <3>2, <3>3 DEF Right
    <3>6. Range(a) = Before(s, k - 1)
      <4>1. DOMAIN a = 1 .. m
        BY <2>2
      <4>2. \A p \in 1 .. m : \E i \in 1 .. k - 1 : a[p] = s[i]
        BY <2>2 DEF Right
      <4>3. \A i \in 1 .. k - 1 : \E p \in 1 .. m : a[p] = s[i]
        BY <2>2 DEF Right
      <4> HIDE DEF m
      <4>4. ASSUME NEW y \in Range(a) PROVE y \in Before(s, k - 1)
        <5>1. PICK p \in 1 .. m : y = a[p]
          BY <4>1, Zenon DEF Range
        <5>2. PICK i \in 1 .. k - 1 : a[p] = s[i]
          BY <4>2, <5>1, Zenon
        <5> QED BY <5>1, <5>2, Zenon DEF Before
      <4>5. ASSUME NEW y \in Before(s, k - 1) PROVE y \in Range(a)
        <5>1. PICK i \in 1 .. k - 1 : y = s[i]
          BY Zenon DEF Before
        <5>2. PICK p \in 1 .. m : a[p] = s[i]
          BY <4>3, <5>1, Zenon
        <5> QED BY <4>1, <5>1, <5>2, Zenon DEF Range
      <4> QED BY <4>4, <4>5, Zenon
    <3>7. x \notin Before(s, k - 1)
      <4>1. \A y \in Range(a) : \E p \in 1 .. m : y = a[p]
        BY <2>2 DEF Range
      <4> QED BY <3>1, <3>6, <4>1
    <3>8. Cardinality(Before(s, k - 1)) = m
      <4> HIDE DEF m
      <4>1. DOMAIN a = 1 .. m
        BY <2>2 DEF m
      <4>2. a \in Surjection(1 .. m, Range(a))
        BY <4>1, <2>2 DEF Surjection, Range
      <4>3. a \in Injection(1 .. m, Range(a))
        BY <4>1, <2>2, <4>2 DEF Right, m, Surjection, Injection, IsInjective
      <4>4. IsFiniteSet(1 .. m) /\ Cardinality(1 .. m) = m
        BY <2>3, UpTo
      <4>5. Cardinality(Range(a)) = Cardinality(1 .. m)
        BY <4>2, <4>3, <4>4, FS_Surjection
      <4> QED BY <4>4, <4>5, <3>6
    <3>9. \A p \in 1 .. m + 1 :
            \E i \in 1 .. k : /\ b[p] = s[i] /\ s[i] \notin Before(s, i - 1)
                              /\ Cardinality(Before(s, i - 1)) = p - 1
      <4> SUFFICES ASSUME NEW p \in 1 .. m + 1
                   PROVE  \E i \in 1 .. k : /\ b[p] = s[i] /\ s[i] \notin Before(s, i - 1)
                                            /\ Cardinality(Before(s, i - 1)) = p - 1
        OBVIOUS
      <4>1. CASE p = m + 1
        <5>1. k \in 1 .. k /\ m + 1 - 1 = m
          BY <1>1, <2>3
        <5> QED BY <4>1, <5>1, <3>2, <3>7, <3>8 DEF x
      <4>2. CASE p \in 1 .. m
        <5>1. PICK i \in 1 .. k - 1 : /\ a[p] = s[i] /\ s[i] \notin Before(s, i - 1)
                                      /\ Cardinality(Before(s, i - 1)) = p - 1
          BY <4>2, <2>2 DEF Right
        <5> QED BY <4>2, <5>1, <2>5, <3>2
      <4> QED BY <4>1, <4>2, <3>3
    <3>10. \A i \in 1 .. k : \E p \in 1 .. m + 1 : b[p] = s[i]
      <4> SUFFICES ASSUME NEW i \in 1 .. k PROVE \E p \in 1 .. m + 1 : b[p] = s[i]
        OBVIOUS
      <4>1. CASE i = k
        BY <4>1, <3>2, <3>4 DEF x
      <4>2. CASE i \in 1 .. k - 1
        <5>1. PICK p \in 1 .. m : a[p] = s[i]
          BY <4>2, <2>2 DEF Right
        <5> QED BY <5>1, <3>2, <3>4
      <4> QED BY <4>1, <4>2, <2>4
    <3>11. Right(b, k)
      <4> HIDE DEF m
      <4> QED BY <3>2, <3>5, <3>9, <3>10 DEF Right
    <3> QED BY <3>11, <2>1 DEF b
  <2> QED BY <2>6, <2>7
<1>5. \A k \in 0 .. n : k \in Good
  <2> HIDE DEF Good
  <2> QED BY <1>1, <1>3, <1>4, Stepwise, Zenon
<1>6. n \in 0 .. n
  BY <1>1
<1>7. Once(s) \in Seq(S) /\ Right(Once(s), n)
  <2> HIDE DEF Right
  <2> QED BY <1>2, <1>5, <1>6
<1> QED BY <1>7 DEF n

\* There are only so many members before a place, and no fewer before a later.
LEMMA BeforeFinite ==
  ASSUME NEW s, NEW n \in Int
  PROVE  /\ IsFiniteSet(Before(s, n))
         /\ \A h \in Int : h <= n => Before(s, h) \subseteq Before(s, n)
<1> DEFINE f == [j \in 1 .. n |-> s[j]]
<1>1. f \in Surjection(1 .. n, Before(s, n))
  BY DEF Surjection, Before
<1>2. IsFiniteSet(1 .. n)
  BY FS_Interval
<1>3. IsFiniteSet(Before(s, n))
  <2> HIDE DEF f
  <2> QED BY <1>1, <1>2, FS_Surjection
<1>4. ASSUME NEW h \in Int, h <= n PROVE Before(s, h) \subseteq Before(s, n)
  <2>1. \A j \in 1 .. h : j \in 1 .. n
    BY <1>4
  <2> QED BY <2>1 DEF Before
<1> QED BY <1>3, <1>4

\* A name is recalled at k if fewer than k others come before it.
Recall(names, id, k) ==
  \E i \in DOMAIN names : names[i] = id /\ Cardinality(Before(names, i - 1) \ {id}) < k

\* What is recalled at a cutoff is recalled at a larger one.
LEMMA RecallGrows ==
  ASSUME NEW S, NEW names \in Seq(S), NEW id, NEW k \in Nat, NEW l \in Nat, k <= l, Recall(names, id, k)
  PROVE  Recall(names, id, l)
<1>1. PICK i \in DOMAIN names : names[i] = id /\ Cardinality(Before(names, i - 1) \ {id}) < k
  BY DEF Recall
<1>2. i - 1 \in Int
  OBVIOUS
<1>3. IsFiniteSet(Before(names, i - 1) \ {id})
  BY <1>2, BeforeFinite, FS_Subset
<1>4. Cardinality(Before(names, i - 1) \ {id}) \in Nat
  BY <1>3, FS_CardinalityType
<1>5. Cardinality(Before(names, i - 1) \ {id}) < l
  BY <1>1, <1>4
<1> QED BY <1>1, <1>5 DEF Recall

\* Of the ranked names, the first k are those recalled at k.
LEMMA FirstRecalled ==
  ASSUME NEW S, NEW s \in Seq(S), NEW k \in Nat
  PROVE  /\ \A id : id \in ToSet(FirstOf(Once(s), k)) <=> Recall(s, id, k)
         /\ FirstOf(Once(s), k) \in Seq(S) /\ Len(FirstOf(Once(s), k)) <= k
         /\ \A p, q \in 1 .. Len(FirstOf(Once(s), k)) :
              FirstOf(Once(s), k)[p] = FirstOf(Once(s), k)[q] => p = q
<1> DEFINE o == Once(s)
           m == Least(k, Len(o))
           top == FirstOf(o, k)
<1>1. /\ o \in Seq(S)
      /\ \A p, q \in 1 .. Len(o) : o[p] = o[q] => p = q
      /\ \A p \in 1 .. Len(o) :
           \E i \in 1 .. Len(s) : /\ o[p] = s[i] /\ s[i] \notin Before(s, i - 1)
                                  /\ Cardinality(Before(s, i - 1)) = p - 1
      /\ \A i \in 1 .. Len(s) : \E p \in 1 .. Len(o) : o[p] = s[i]
  BY OnceRanks
<1> HIDE DEF o
<1>2. Len(o) \in Nat /\ m \in Nat /\ m <= k /\ m <= Len(o) /\ \A p \in 1 .. Len(o) : p <= k => p \in 1 .. m
  BY <1>1 DEF Least
<1>3. top = SubSeq(o, 1, m)
  BY DEF FirstOf
<1> HIDE DEF m, top
<1>4. top \in Seq(S) /\ Len(top) = m /\ DOMAIN top = 1 .. m /\ \A p \in 1 .. m : top[p] = o[p]
  BY <1>1, <1>2, <1>3
<1>5. \A p \in 1 .. m : p \in 1 .. Len(o) /\ p <= k
  BY <1>2
<1>6. DOMAIN s = 1 .. Len(s) /\ Len(s) \in Nat
  OBVIOUS
<1>7. ASSUME NEW id, id \in ToSet(top) PROVE Recall(s, id, k)
  <2>1. PICK p \in 1 .. m : id = o[p]
    BY <1>4, <1>7 DEF ToSet
  <2>2. PICK i \in 1 .. Len(s) : o[p] = s[i] /\ s[i] \notin Before(s, i - 1) /\ Cardinality(Before(s, i - 1)) = p - 1
    BY <1>1, <1>5
  <2>3. Before(s, i - 1) \ {id} = Before(s, i - 1)
    BY <2>1, <2>2
  <2>4. p - 1 < k
    BY <1>2, <1>5
  <2> QED BY <2>1, <2>2, <2>3, <2>4, <1>6 DEF Recall
<1>8. ASSUME NEW id, Recall(s, id, k) PROVE id \in ToSet(top)
  <2>1. PICK i \in 1 .. Len(s) : s[i] = id /\ Cardinality(Before(s, i - 1) \ {id}) < k
    BY <1>6, <1>8 DEF Recall
  <2>2. PICK p \in 1 .. Len(o) : o[p] = s[i]
    BY <1>1
  <2>3. PICK f \in 1 .. Len(s) : o[p] = s[f] /\ s[f] \notin Before(s, f - 1) /\ Cardinality(Before(s, f - 1)) = p - 1
    BY <1>1
  <2>4. f <= i
    <3>1. ASSUME ~(f <= i) PROVE FALSE
      <4>1. i \in 1 .. f - 1
        BY <3>1
      <4> QED BY <4>1, <2>2, <2>3 DEF Before
    <3> QED BY <3>1
  <2>5. Before(s, f - 1) \subseteq Before(s, i - 1) \ {id}
    <3>1. f - 1 \in Int /\ i - 1 \in Int /\ f - 1 <= i - 1
      BY <2>4
    <3>2. Before(s, f - 1) \subseteq Before(s, i - 1)
      BY <3>1, BeforeFinite
    <3> QED BY <3>2, <2>1, <2>2, <2>3
  <2>6. p - 1 < k
    <3> DEFINE B == Before(s, i - 1) \ {id}
    <3>1. i - 1 \in Int
      OBVIOUS
    <3>2. IsFiniteSet(B)
      BY <3>1, BeforeFinite, FS_Subset
    <3>3. Before(s, f - 1) \subseteq B /\ Cardinality(B) < k
      BY <2>1, <2>5
    <3> HIDE DEF B
    <3>4. Cardinality(Before(s, f - 1)) <= Cardinality(B) /\ Cardinality(B) \in Nat
      BY <3>2, <3>3, FS_Subset, FS_CardinalityType
    <3> QED BY <3>3, <3>4, <2>3
  <2>7. p \in 1 .. m
    BY <2>6, <1>2
  <2> QED BY <2>1, <2>2, <2>7, <1>4 DEF ToSet
<1>9. \A p, q \in 1 .. m : top[p] = top[q] => p = q
  BY <1>1, <1>4, <1>5
<1> QED BY <1>2, <1>4, <1>7, <1>8, <1>9 DEF top, o

----------------------------------------------------------------------------
(* Gains *)

\* The gain of ranks, of which each counts or not, is a sum.
Counts(list) == list \in Seq({0, 1})

\* A gain is the last of the sums up to each rank.
LEMMA GainSums ==
  ASSUME NEW k \in Cutoffs, NEW list, Counts(list), Len(list) <= k
  PROVE  \E sum \in [0 .. Len(list) -> Nat] :
           /\ sum[0] = 0 /\ Gain(list) = sum[Len(list)]
           /\ \A i \in 1 .. Len(list) : sum[i] = sum[i - 1] + list[i] * Discount[i]
<1> DEFINE n == Len(list)
           next == [p \in Nat \X (1 .. n) |-> p[1] + list[p[2]] * Discount[p[2]]]
           Is(f) == f = [i \in 0 .. n |-> IF i = 0 THEN 0 ELSE f[i - 1] + list[i] * Discount[i]]
<1>1. n \in Nat /\ n <= k /\ k \in Nat
  BY SizeAssumption DEF Counts
<1>2. \A i \in 1 .. n : list[i] * Discount[i] \in Nat
  <2> SUFFICES ASSUME NEW i \in 1 .. n PROVE list[i] * Discount[i] \in Nat
    OBVIOUS
  <2>1. i \in 1 .. k
    BY <1>1
  <2>2. Discount[i] \in Nat
    BY <2>1, DiscountAssumption
  <2>3. list[i] \in {0, 1}
    BY DEF Counts
  <2>4. 0 * Discount[i] = 0 /\ 1 * Discount[i] = Discount[i]
    BY <2>2
  <2> QED BY <2>2, <2>3, <2>4
<1>3. Gain(list) = (CHOOSE f : Is(f))[n]
  BY DEF Gain
<1> HIDE DEF n
<1>4. next \in [Nat \X (1 .. n) -> Nat] /\ \A a \in Nat, i \in 1 .. n : next[<<a, i>>] = a + list[i] * Discount[i]
  <2> DEFINE w(i) == list[i] * Discount[i]
  <2>1. \A a \in Nat, i \in 1 .. n : a + w(i) \in Nat
    BY <1>2
  <2> HIDE DEF w
  <2>2. [p \in Nat \X (1 .. n) |-> p[1] + w(p[2])] \in [Nat \X (1 .. n) -> Nat]
    BY <2>1
  <2>3. \A a \in Nat, i \in 1 .. n : [p \in Nat \X (1 .. n) |-> p[1] + w(p[2])][<<a, i>>] = a + w(i)
    OBVIOUS
  <2> QED BY <2>2, <2>3 DEF w
<1> HIDE DEF next
<1>5. PICK w \in [0 .. n -> Nat] : Steps(w, n, 0, next)
  BY <1>1, <1>4, RecursionDefined
<1>6. \A i \in 0 .. n : w[i] = IF i = 0 THEN 0 ELSE next[<<w[i - 1], i>>]
  BY <1>5 DEF Steps
<1>7. ASSUME NEW i \in 0 .. n PROVE w[i] = IF i = 0 THEN 0 ELSE w[i - 1] + list[i] * Discount[i]
  <2>1. CASE i = 0
    BY <2>1, <1>6
  <2>2. CASE i # 0
    <3>1. i - 1 \in 0 .. n /\ i \in 1 .. n
      BY <2>2, <1>1
    <3>2. w[i] = next[<<w[i - 1], i>>] /\ w[i - 1] \in Nat
      BY <2>2, <3>1, <1>5, <1>6
    <3> QED BY <2>2, <3>1, <3>2, <1>4
  <2> QED BY <2>1, <2>2
<1>8. Is(w)
  <2>1. w = [i \in 0 .. n |-> w[i]]
    BY <1>5
  <2> QED BY <2>1, <1>7
<1> DEFINE f == CHOOSE f : Is(f)
<1>9. Is(f)
  BY <1>8, Zenon
<1>10. Gain(list) = f[n]
  BY <1>3
<1> HIDE DEF f
<1> DEFINE g(i) == list[i] * Discount[i]
<1>11. f = [i \in 0 .. n |-> IF i = 0 THEN 0 ELSE f[i - 1] + g(i)] /\ \A i \in 1 .. n : g(i) \in Nat
  BY <1>9, <1>2
<1> HIDE DEF g
<1>12. f[0] = 0 /\ DOMAIN f = 0 .. n /\ \A i \in 1 .. n : f[i] = f[i - 1] + g(i)
  <2>1. DOMAIN f = 0 .. n /\ \A i \in 0 .. n : f[i] = IF i = 0 THEN 0 ELSE f[i - 1] + g(i)
    BY <1>11
  <2>2. 0 \in 0 .. n /\ \A i \in 1 .. n : i \in 0 .. n /\ i # 0
    BY <1>1
  <2> QED BY <2>1, <2>2
<1> DEFINE Good == {i \in 0 .. n : f[i] \in Nat}
<1>13. 0 \in Good
  BY <1>1, <1>12
<1>14. ASSUME NEW i \in 1 .. n, i - 1 \in Good PROVE i \in Good
  <2>1. f[i - 1] \in Nat /\ g(i) \in Nat /\ f[i] = f[i - 1] + g(i) /\ i \in 0 .. n
    BY <1>1, <1>11, <1>12, <1>14
  <2> QED BY <2>1
<1>15. \A i \in 0 .. n : i \in Good
  <2> HIDE DEF Good
  <2> QED BY <1>1, <1>13, <1>14, Stepwise, Zenon
<1>16. f \in [0 .. n -> Nat]
  <2>1. f = [i \in 0 .. n |-> f[i]]
    BY <1>11
  <2> QED BY <2>1, <1>15
<1> QED BY <1>10, <1>12, <1>16 DEF n, g

\* Ranks of which m count gain no more than the first m that all count.
LEMMA GainBounded ==
  ASSUME NEW k \in Cutoffs, NEW list, Counts(list), Len(list) <= k,
         NEW m \in Nat, m <= k, Cardinality({i \in 1 .. Len(list) : list[i] = 1}) <= m
  PROVE  Gain(list) <= Gain([i \in 1 .. m |-> 1])
<1> DEFINE n == Len(list)
           ideal == [i \in 1 .. k |-> 1]
           hits == [i \in 1 .. m |-> 1]
           Ones(i) == {j \in 1 .. i : list[j] = 1}
           c(i) == Cardinality(Ones(i))
<1>1. k \in Nat /\ n \in Nat /\ n <= k
  BY SizeAssumption DEF Counts
<1>2. Counts(hits) /\ Len(hits) = m /\ \A i \in 1 .. m : hits[i] = 1
  BY DEF Counts
<1>3. Counts(ideal) /\ Len(ideal) = k /\ (\A i \in 1 .. k : ideal[i] = 1) /\ k <= k
  BY <1>1 DEF Counts
<1>4. /\ \A i \in 1 .. k : Discount[i] \in Nat
      /\ \A i \in 1 .. k : \A j \in 1 .. i : Discount[i] <= Discount[j]
  BY DiscountAssumption
<1> HIDE DEF hits, ideal, n
<1>5. PICK e \in [0 .. k -> Nat] : /\ e[0] = 0 /\ Gain(ideal) = e[k]
                                   /\ \A i \in 1 .. k : e[i] = e[i - 1] + ideal[i] * Discount[i]
  BY <1>3, GainSums
<1>6. \A i \in 1 .. k : e[i] = e[i - 1] + Discount[i]
  <2> SUFFICES ASSUME NEW i \in 1 .. k PROVE e[i] = e[i - 1] + Discount[i]
    OBVIOUS
  <2>1. e[i] = e[i - 1] + ideal[i] * Discount[i] /\ ideal[i] = 1 /\ Discount[i] \in Nat
    BY <1>3, <1>4, <1>5
  <2>2. 1 * Discount[i] = Discount[i]
    BY <2>1
  <2> QED BY <2>1, <2>2
<1>7. PICK g \in [0 .. m -> Nat] : /\ g[0] = 0 /\ Gain(hits) = g[m]
                                   /\ \A i \in 1 .. m : g[i] = g[i - 1] + hits[i] * Discount[i]
  BY <1>2, GainSums
<1>8. \A i \in 1 .. m : g[i] = g[i - 1] + Discount[i]
  <2> SUFFICES ASSUME NEW i \in 1 .. m PROVE g[i] = g[i - 1] + Discount[i]
    OBVIOUS
  <2>1. i \in 1 .. k
    BY <1>1
  <2>2. g[i] = g[i - 1] + hits[i] * Discount[i] /\ hits[i] = 1 /\ Discount[i] \in Nat
    BY <2>1, <1>2, <1>4, <1>7
  <2>3. 1 * Discount[i] = Discount[i]
    BY <2>2
  <2> QED BY <2>2, <2>3
<1>9. \A i \in 0 .. m : g[i] = e[i]
  <2> DEFINE Good == {i \in 0 .. m : g[i] = e[i]}
  <2>1. 0 \in Good
    BY <1>5, <1>7
  <2>2. ASSUME NEW i \in 1 .. m, i - 1 \in Good PROVE i \in Good
    <3>1. i \in 1 .. k /\ i \in 0 .. m
      BY <1>1
    <3> QED BY <3>1, <2>2, <1>6, <1>8
  <2> HIDE DEF Good
  <2>3. \A i \in 0 .. m : i \in Good
    BY <2>1, <2>2, Stepwise, Zenon
  <2> QED BY <2>3 DEF Good
\* The gain up to a rank is that of as many first ranks as count up to it.
<1>10. PICK h \in [0 .. n -> Nat] : /\ h[0] = 0 /\ Gain(list) = h[n]
                                    /\ \A i \in 1 .. n : h[i] = h[i - 1] + list[i] * Discount[i]
  BY <1>1, GainSums DEF n
<1>11. Ones(0) = {} /\ c(0) = 0
  BY FS_EmptySet
<1>12. ASSUME NEW i \in 1 .. n
       PROVE  /\ c(i - 1) \in Nat
              /\ list[i] # 1 => c(i) = c(i - 1)
              /\ list[i] = 1 => c(i) = c(i - 1) + 1
              /\ c(i) <= i
  <2>1. i - 1 \in Nat /\ \A j \in 1 .. i : j \in 1 .. i - 1 \/ j = i
    BY <1>1
  <2>2. \A j \in 1 .. i - 1 : j \in 1 .. i /\ j # i
    BY <1>1
  <2>3. IsFiniteSet(1 .. i) /\ Cardinality(1 .. i) = i
    BY <1>1, UpTo
  <2>4. IsFiniteSet(Ones(i)) /\ c(i) <= i /\ IsFiniteSet(Ones(i - 1))
    <3>1. Ones(i) \subseteq 1 .. i /\ Ones(i - 1) \subseteq 1 .. i
      BY <2>2
    <3> HIDE DEF Ones
    <3> QED BY <3>1, <2>3, FS_Subset
  <2>5. list[i] # 1 => Ones(i) = Ones(i - 1)
    BY <2>1, <2>2
  <2>6. list[i] = 1 => Ones(i) = Ones(i - 1) \cup {i}
    <3> HIDE DEF n
    <3>1. i \in 1 .. i
      BY <1>1
    <3> QED BY <3>1, <2>1, <2>2
  <2>7. i \notin Ones(i - 1)
    BY <2>2
  <2> HIDE DEF Ones
  <2>8. list[i] = 1 => c(i) = c(i - 1) + 1
    BY <2>4, <2>6, <2>7, FS_AddElement
  <2>9. c(i - 1) \in Nat
    BY <2>4, FS_CardinalityType
  <2> QED BY <2>4, <2>5, <2>8, <2>9
<1> HIDE DEF Ones, c
<1>13. \A i \in 0 .. n : c(i) \in 0 .. i /\ h[i] <= e[c(i)]
  <2> DEFINE Good == {i \in 0 .. n : c(i) \in 0 .. i /\ h[i] <= e[c(i)]}
  <2>1. 0 \in Good
    BY <1>1, <1>5, <1>10, <1>11
  <2>2. ASSUME NEW i \in 1 .. n, i - 1 \in Good PROVE i \in Good
    <3>1. /\ i \in 0 .. n /\ i \in 1 .. k /\ i - 1 \in 0 .. n
          /\ c(i - 1) \in 0 .. i - 1 /\ h[i - 1] <= e[c(i - 1)]
      BY <2>2, <1>1
    <3>2. h[i] = h[i - 1] + list[i] * Discount[i] /\ list[i] \in {0, 1} /\ Discount[i] \in Nat /\ h[i - 1] \in Nat
      <4>1. list[i] \in {0, 1}
        BY DEF Counts, n
      <4> QED BY <4>1, <3>1, <1>4, <1>10
    <3>3. CASE list[i] # 1
      <4>1. list[i] = 0 /\ 0 * Discount[i] = 0
        BY <3>2, <3>3
      <4>2. h[i] = h[i - 1] /\ c(i) = c(i - 1)
        BY <4>1, <3>2, <3>3, <1>12
      <4> QED BY <4>2, <3>1
    <3>4. CASE list[i] = 1
      <4>1. 1 * Discount[i] = Discount[i]
        BY <3>2
      <4>2. h[i] = h[i - 1] + Discount[i] /\ c(i) = c(i - 1) + 1 /\ c(i) <= i
        BY <4>1, <3>2, <3>4, <1>12
      <4>3. c(i) \in 1 .. i /\ c(i) \in 1 .. k /\ c(i) - 1 = c(i - 1)
        <5>1. i \in Nat /\ i <= k /\ c(i - 1) \in Nat
          BY <3>1, <1>1, <1>12
        <5>2. c(i) \in Nat /\ 1 <= c(i) /\ c(i) <= i /\ c(i) - 1 = c(i - 1)
          BY <5>1, <4>2
        <5> QED BY <5>1, <5>2, <1>1
      <4>4. e[c(i)] = e[c(i - 1)] + Discount[c(i)] /\ Discount[i] <= Discount[c(i)] /\ Discount[c(i)] \in Nat
        BY <4>3, <3>1, <1>4, <1>6
      <4>5. e[c(i - 1)] \in Nat
        <5>1. c(i - 1) \in 0 .. k
          BY <3>1, <1>1
        <5> QED BY <5>1, <1>5
      <4> QED BY <4>2, <4>3, <4>4, <4>5, <3>1, <3>2
    <3> QED BY <3>3, <3>4
  <2> HIDE DEF Good
  <2>3. \A i \in 0 .. n : i \in Good
    BY <2>1, <2>2, <1>1, Stepwise, Zenon
  <2> QED BY <2>3 DEF Good
\* More ranks that count gain no less.
<1>14. \A i \in 0 .. m : \A j \in 0 .. i : e[j] <= e[i]
  <2> DEFINE Good == {i \in 0 .. m : \A j \in 0 .. i : e[j] <= e[i]}
  <2>1. 0 \in Good
    BY <1>5
  <2>2. ASSUME NEW i \in 1 .. m, i - 1 \in Good PROVE i \in Good
    <3>1. i \in 1 .. k /\ i \in 0 .. m /\ i \in 0 .. k /\ i - 1 \in 0 .. k /\ \A j \in 0 .. i : j \in 0 .. i - 1 \/ j = i
      BY <1>1
    <3>2. e[i] = e[i - 1] + Discount[i] /\ Discount[i] \in Nat /\ e[i - 1] \in Nat /\ e[i] \in Nat
      BY <3>1, <1>4, <1>5, <1>6
    <3>3. \A j \in 0 .. i - 1 : e[j] \in Nat /\ e[j] <= e[i - 1]
      <4>1. \A j \in 0 .. i - 1 : j \in 0 .. k
        BY <3>1, <1>1
      <4> QED BY <4>1, <2>2, <1>5
    <3>4. \A j \in 0 .. i : e[j] <= e[i]
      <4>1. \A j \in 0 .. i - 1 : e[j] <= e[i]
        <5> SUFFICES ASSUME NEW j \in 0 .. i - 1 PROVE e[j] <= e[i]
          OBVIOUS
        <5>1. e[j] \in Nat /\ e[j] <= e[i - 1]
          BY <3>3
        <5> QED BY <5>1, <3>2
      <4>2. e[i] <= e[i]
        BY <3>2
      <4> QED BY <4>1, <4>2, <3>1
    <3> QED BY <3>1, <3>4
  <2> HIDE DEF Good
  <2>3. \A i \in 0 .. m : i \in Good
    BY <2>1, <2>2, Stepwise, Zenon
  <2> QED BY <2>3 DEF Good
<1>15. n \in 0 .. n /\ c(n) <= m
  BY <1>1 DEF n, c, Ones
<1>16. c(n) \in 0 .. m /\ m \in 0 .. m /\ h[n] <= e[c(n)] /\ e[c(n)] \in Nat /\ h[n] \in Nat /\ e[m] \in Nat
  <2>1. c(n) \in 0 .. n /\ h[n] <= e[c(n)]
    BY <1>13, <1>15
  <2>2. c(n) \in 0 .. m /\ c(n) \in 0 .. k /\ m \in 0 .. k /\ m \in 0 .. m
    BY <2>1, <1>1, <1>15
  <2> QED BY <2>1, <2>2, <1>5, <1>10, <1>15
<1>17. e[c(n)] <= e[m] /\ Gain(hits) = e[m] /\ Gain(list) = h[n]
  BY <1>7, <1>9, <1>10, <1>14, <1>16
<1>18. Gain(list) <= Gain(hits)
  BY <1>16, <1>17
<1> QED BY <1>18 DEF hits

----------------------------------------------------------------------------
(* Metrics *)

\* The metrics at a cutoff say which answers are recalled, and no ranking gains
\* more than the ideal one.
LEMMA MetricsOfNames ==
  ASSUME NEW S, NEW names \in Seq(S), NEW correct, IsFiniteSet(correct), NEW k \in Cutoffs
  PROVE  LET m == AtK(Once(names), correct, k) IN
         /\ m.any <=> \E id \in correct : Recall(names, id, k)
         /\ m.all <=> \A id \in correct : Recall(names, id, k)
         /\ m.gain <= m.ideal
<1> DEFINE top == FirstOf(Once(names), k)
           list == Relevances(top, correct)
           m == Least(Cardinality(correct), k)
           Ones == {i \in 1 .. Len(list) : list[i] = 1}
<1>1. k \in Nat /\ Cardinality(correct) \in Nat
  BY SizeAssumption, FS_CardinalityType
<1>2. /\ \A id : id \in ToSet(top) <=> Recall(names, id, k)
      /\ top \in Seq(S) /\ Len(top) <= k
      /\ \A p, q \in 1 .. Len(top) : top[p] = top[q] => p = q
  BY <1>1, FirstRecalled
<1> HIDE DEF top
<1>3. DOMAIN top = 1 .. Len(top) /\ Len(top) \in Nat
  BY <1>2
<1>4. list = [n \in 1 .. Len(top) |-> IF top[n] \in correct THEN 1 ELSE 0]
  BY <1>3 DEF Relevances
<1> HIDE DEF list
<1>5. Counts(list) /\ Len(list) = Len(top) /\ \A n \in 1 .. Len(top) : list[n] = 1 <=> top[n] \in correct
  <2>1. list \in Seq({0, 1}) /\ Len(list) = Len(top)
    BY <1>3, <1>4
  <2>2. \A n \in 1 .. Len(top) : list[n] = 1 <=> top[n] \in correct
    BY <1>4
  <2> QED BY <2>1, <2>2 DEF Counts
<1>6. m \in Nat /\ m <= k /\ (m = Cardinality(correct) \/ m = k)
  BY <1>1 DEF Least
<1>7. Cardinality(Ones) <= m
  <2>1. Ones = {i \in 1 .. Len(top) : top[i] \in correct}
    BY <1>5
  <2>2. IsFiniteSet(1 .. Len(top)) /\ Cardinality(1 .. Len(top)) = Len(top)
    BY <1>3, UpTo
  <2> DEFINE f == [i \in Ones |-> top[i]]
  <2> HIDE DEF Ones
  <2>3. Ones \subseteq 1 .. Len(top) /\ \A i \in Ones : top[i] \in correct
    BY <2>1
  <2>4. f \in Injection(Ones, correct)
    BY <2>3, <1>2 DEF Injection, IsInjective
  <2> HIDE DEF f
  <2>5. Cardinality(Ones) <= Cardinality(correct) /\ IsFiniteSet(Ones)
    BY <2>4, FS_Injection
  <2>6. Cardinality(Ones) <= Len(top)
    BY <2>2, <2>3, FS_Subset
  <2>7. Cardinality(Ones) \in Nat
    BY <2>5, FS_CardinalityType
  <2> QED BY <2>5, <2>6, <2>7, <1>1, <1>2, <1>3, <1>6
<1>8. Gain(list) <= Gain([i \in 1 .. m |-> 1])
  <2> HIDE DEF m
  <2> QED BY <1>2, <1>5, <1>6, <1>7, GainBounded
<1>9. AtK(Once(names), correct, k) =
        [any |-> correct \cap ToSet(top) # {}, all |-> correct \subseteq ToSet(top),
         gain |-> Gain(list), ideal |-> Gain([i \in 1 .. m |-> 1])]
  BY DEF AtK, top, list, Ideal
<1>10. (correct \cap ToSet(top) # {}) <=> \E id \in correct : Recall(names, id, k)
  BY <1>2
<1>11. correct \subseteq ToSet(top) <=> \A id \in correct : Recall(names, id, k)
  BY <1>2
<1> DEFINE any == correct \cap ToSet(top) # {}
           all == correct \subseteq ToSet(top)
           gain == Gain(list)
           ideal == Gain([i \in 1 .. m |-> 1])
           metrics == AtK(Once(names), correct, k)
<1>12. metrics = [any |-> any, all |-> all, gain |-> gain, ideal |-> ideal]
  BY <1>9
<1> HIDE DEF m, any, all, gain, ideal, metrics
<1>13. metrics.any = any /\ metrics.all = all /\ metrics.gain = gain /\ metrics.ideal = ideal
  BY <1>12
<1>14. metrics.any <=> \E id \in correct : Recall(names, id, k)
  BY <1>10, <1>13, Zenon DEF any
<1>15. metrics.all <=> \A id \in correct : Recall(names, id, k)
  BY <1>11, <1>13, Zenon DEF all
<1>16. metrics.gain <= metrics.ideal
  BY <1>8, <1>13 DEF gain, ideal
<1> QED BY <1>14, <1>15, <1>16 DEF metrics

\* A session comes no later than its turns.
LEMMA SessionRecalled ==
  ASSUME NEW T, NEW turns \in Seq(T), NEW sessions \in Seq(STRING), Len(turns) = Len(sessions),
         \A i \in 1 .. Len(turns) : sessions[i] = turns[i][1],
         NEW id, NEW k \in Nat, Recall(turns, id, k)
  PROVE  Recall(sessions, id[1], k)
<1>1. PICK i \in DOMAIN turns : turns[i] = id /\ Cardinality(Before(turns, i - 1) \ {id}) < k
  BY DEF Recall
<1>2. i \in DOMAIN sessions /\ i \in 1 .. Len(turns) /\ i - 1 \in Int /\ sessions[i] = id[1]
      /\ \A j \in 1 .. i - 1 : sessions[j] = turns[j][1]
  BY <1>1
<1> DEFINE A == Before(turns, i - 1) \ {id}
           B == Before(sessions, i - 1) \ {id[1]}
           f == [t \in A |-> t[1]]
           C == {t[1] : t \in A}
<1>3. IsFiniteSet(A)
  BY <1>2, BeforeFinite, FS_Subset
<1>4. B \subseteq C
  <2> SUFFICES ASSUME NEW x \in B PROVE x \in C
    OBVIOUS
  <2>1. PICK j \in 1 .. i - 1 : x = sessions[j]
    BY DEF Before
  <2>2. x = turns[j][1] /\ turns[j] \in Before(turns, i - 1)
    BY <2>1, <1>2 DEF Before
  <2>3. turns[j] # id
    BY <2>2
  <2> QED BY <2>2, <2>3
<1>5. f \in Surjection(A, C)
  <2> HIDE DEF A
  <2> QED BY DEF Surjection
<1> HIDE DEF A, B, C, f
<1>6. IsFiniteSet(C) /\ Cardinality(C) <= Cardinality(A)
  BY <1>3, <1>5, FS_Surjection
<1>7. IsFiniteSet(B) /\ Cardinality(B) <= Cardinality(C)
  BY <1>4, <1>6, FS_Subset
<1>8. Cardinality(A) \in Nat /\ Cardinality(B) \in Nat /\ Cardinality(C) \in Nat
  BY <1>3, <1>6, <1>7, FS_CardinalityType
<1>9. Cardinality(B) < k
  BY <1>1, <1>6, <1>7, <1>8 DEF A
<1> QED BY <1>2, <1>9 DEF Recall, B

\* What comes back from the memory leads to the turns of the dataset.
LEMMA MemoryNames ==
  ASSUME setup \in Setup, NEW c \in CaseId, NEW m \in ToSet(Ingested(c, Len(Plan(c))))
  PROVE  /\ m.text \in Spoken(c) /\ m.session = Sessions(c)[m.text[1]].id
         /\ Binding(c, m.request, m.ordinal) = TurnId(c, m.text)
<1> DEFINE N == Len(Plan(c))
           M == [n \in 1 .. N |-> Messages(c, n)]
           H == Ingested(c, N)
<1>1. N \in Nat
  <2>1. Plan(c) \in Seq(Request)
    BY PlanFacts
  <2> QED BY <2>1
<1>2. \A n \in 1 .. N : /\ Messages(c, n) \in Seq(Message) /\ Len(Messages(c, n)) = Len(Plan(c)[n].turns)
                        /\ \A i \in 1 .. Len(Plan(c)[n].turns) :
                             LET p == Messages(c, n)[i] IN
                             /\ p.text \in Spoken(c) /\ p.session = Sessions(c)[p.text[1]].id
                             /\ Binding(c, p.request, p.ordinal) = TurnId(c, p.text)
  <2> SUFFICES ASSUME NEW n \in 1 .. N
               PROVE  /\ Messages(c, n) \in Seq(Message) /\ Len(Messages(c, n)) = Len(Plan(c)[n].turns)
                      /\ \A i \in 1 .. Len(Plan(c)[n].turns) :
                           LET p == Messages(c, n)[i] IN
                           /\ p.text \in Spoken(c) /\ p.session = Sessions(c)[p.text[1]].id
                           /\ Binding(c, p.request, p.ordinal) = TurnId(c, p.text)
    OBVIOUS
  <2>1. \A i : Binding(c, Plan(c)[n].id, i) = TurnId(c, Plan(c)[n].turns[i])
    BY BindingOf
  <2> QED BY <2>1, MessagesOf
<1> HIDE DEF N
<1>3. M \in Seq(Seq(Message)) /\ Len(M) = N /\ \A n \in 1 .. N : M[n] = Messages(c, n)
  BY <1>1, <1>2
<1>4. H = FlattenSeq(M)
  BY DEF Ingested
<1> HIDE DEF M
<1>5. /\ H \in Seq(Message)
      /\ \A i \in 1 .. Len(M) : \A j \in 1 .. Len(M[i]) : H[Ends(M)[i - 1] + j] = M[i][j]
      /\ \A p \in 1 .. Len(H) : \E i \in 1 .. Len(M) : \E j \in 1 .. Len(M[i]) : p = Ends(M)[i - 1] + j
  <2>1. M \in Seq(Seq(Message))
    BY <1>3
  <2>2. /\ FlattenSeq(M) \in Seq(Message)
        /\ \A i \in 1 .. Len(M) : \A j \in 1 .. Len(M[i]) : FlattenSeq(M)[Ends(M)[i - 1] + j] = M[i][j]
        /\ \A p \in 1 .. Len(FlattenSeq(M)) : \E i \in 1 .. Len(M) : \E j \in 1 .. Len(M[i]) : p = Ends(M)[i - 1] + j
    BY <2>1, FlattenPlaces
  <2> HIDE DEF H
  <2> QED BY <2>2, <1>4
<1> HIDE DEF H
<1>6. PICK p \in 1 .. Len(H) : m = H[p]
  <2>1. m \in ToSet(H)
    BY DEF H, N
  <2> QED BY <2>1, <1>5 DEF ToSet
<1>7. PICK n \in 1 .. N : \E j \in 1 .. Len(M[n]) : p = Ends(M)[n - 1] + j
  BY <1>3, <1>5
<1>8. PICK j \in 1 .. Len(M[n]) : p = Ends(M)[n - 1] + j
  BY <1>7
<1>9. m = Messages(c, n)[j] /\ j \in 1 .. Len(Plan(c)[n].turns)
  BY <1>2, <1>3, <1>5, <1>6, <1>7, <1>8
<1> QED BY <1>2, <1>7, <1>9

\* What MetricsSound says of a record.
NameOf(r, level, i) ==
  IF level = "session" THEN r.results[i].session ELSE TurnId(r.case, r.results[i].text)
RecalledIn(r, level, id, k) ==
  \E i \in DOMAIN r.results :
    /\ NameOf(r, level, i) = id
    /\ Cardinality({NameOf(r, level, j) : j \in 1 .. i - 1} \ {id}) < k
Sound(r) ==
  \A level \in Level : \A k \in DOMAIN r.metrics[level] :
    LET m == r.metrics[level][k]
        correct == Correct(r.case)[level] IN
    /\ m.any <=> \E id \in correct : RecalledIn(r, level, id, k)
    /\ m.all <=> \A id \in correct : RecalledIn(r, level, id, k)
    /\ m.gain <= m.ideal
    /\ \A larger \in {l \in Cutoffs : l >= k} :
         /\ m.any => r.metrics[level][larger].any
         /\ m.all => r.metrics[level][larger].all
    /\ \A id \in Correct(r.case).turn :
         RecalledIn(r, "turn", id, k) => RecalledIn(r, "session", id[1], k)

EverySound == \A r \in Range(records) : Sound(r)

\* The metrics are sound when every record is.
LEMMA EveryRecord == MetricsSound <=> EverySound
<1>1. MetricsSound <=> \A n \in DOMAIN records : Sound(records[n])
  BY DEF MetricsSound, Sound, RecalledIn, NameOf
<1> QED BY <1>1 DEF EverySound, Range

\* A record stays sound: the setup it is judged by does not change.
LEMMA SameSound ==
  ASSUME UNCHANGED setup, NEW r
  PROVE  Sound(r)' <=> Sound(r)
BY DEF Sound, RecalledIn, NameOf, Correct, TurnId, Spoken, Turns, Sessions, Words

\* The answers of a case are finitely many.
LEMMA CorrectFinite ==
  ASSUME setup \in Setup, NEW c \in CaseId
  PROVE  \A level \in Level : IsFiniteSet(Correct(c)[level])
<1> DEFINE A == {u \in Spoken(c) : Turns(c, u[1])[u[2]].answer}
           B == {TurnId(c, turn) : turn \in A}
           f == [turn \in A |-> TurnId(c, turn)]
<1>1. IsFiniteSet(A) /\ IsFiniteSet(setup.options.cases[c].answers)
  BY CaseFacts, FS_Subset
<1>2. f \in Surjection(A, B)
  <2> HIDE DEF A
  <2> QED BY DEF Surjection
<1> HIDE DEF f
<1>3. IsFiniteSet(B)
  <2> HIDE DEF A, B
  <2> QED BY <1>1, <1>2, FS_Surjection
<1>4. Correct(c) = [turn |-> B, session |-> setup.options.cases[c].answers]
  BY DEF Correct
<1> HIDE DEF A, B
<1> QED BY <1>1, <1>3, <1>4 DEF Level

\* The record of a search is sound.
LEMMA SearchSound ==
  ASSUME setup \in Setup, NEW c \in CaseId, NEW n \in Nat,
         NEW results \in [1 .. n -> ToSet(Ingested(c, Len(Plan(c))))],
         NEW K, K \in {{}, Cutoffs},
         NEW r, r = [case |-> c, results |-> results,
                     metrics |-> [level \in Level |-> [k \in K |->
                        AtK(Ranked(c, results)[level], Correct(c)[level], k)]]]
  PROVE  Sound(r)
<1> DEFINE T == [i \in 1 .. n |-> TurnId(c, results[i].text)]
           V == [i \in 1 .. n |-> results[i].session]
           Names(level) == IF level = "session" THEN V ELSE T
           R == Ranked(c, results)
           metrics(level, k) == AtK(Once(Names(level)), Correct(c)[level], k)
<1>1. \A i \in 1 .. n :
        /\ results[i].text \in Spoken(c)
        /\ results[i].session = Sessions(c)[results[i].text[1]].id
        /\ Binding(c, results[i].request, results[i].ordinal) = TurnId(c, results[i].text)
  <2> SUFFICES ASSUME NEW i \in 1 .. n
               PROVE  /\ results[i].text \in Spoken(c)
                      /\ results[i].session = Sessions(c)[results[i].text[1]].id
                      /\ Binding(c, results[i].request, results[i].ordinal) = TurnId(c, results[i].text)
    OBVIOUS
  <2>1. results[i] \in ToSet(Ingested(c, Len(Plan(c))))
    OBVIOUS
  <2> QED BY <2>1, MemoryNames
<1>2. DOMAIN results = 1 .. n
  OBVIOUS
<1>3. \A i \in 1 .. n : V[i] \in STRING /\ T[i] \in STRING \X Nat /\ V[i] = T[i][1]
  <2> SUFFICES ASSUME NEW i \in 1 .. n PROVE V[i] \in STRING /\ T[i] \in STRING \X Nat /\ V[i] = T[i][1]
    OBVIOUS
  <2> DEFINE t == results[i].text
  <2>1. t \in Spoken(c) /\ V[i] = Sessions(c)[t[1]].id /\ T[i] = <<Sessions(c)[t[1]].id, t[2]>>
    BY <1>1 DEF TurnId
  <2>2. Sessions(c)[t[1]].id \in STRING /\ t[2] \in Nat
    <3> HIDE DEF t
    <3>1. t[1] \in 1 .. Len(Sessions(c)) /\ t \in Pair
      BY <2>1, CaseFacts
    <3> QED BY <3>1, CaseFacts DEF Pair
  <2> QED BY <2>1, <2>2
<1>4. R["turn"] = Once(T) /\ R["session"] = Once(V)
  <2>1. [i \in DOMAIN results |-> Binding(c, results[i].request, results[i].ordinal)] = T
    BY <1>1, <1>2
  <2>2. [i \in DOMAIN results |-> results[i].session] = V
    BY <1>2
  <2> HIDE DEF T, V
  <2>3. R = [turn |-> Once(T), session |-> Once(V)]
    BY <2>1, <2>2 DEF Ranked
  <2> HIDE DEF R
  <2> QED BY <2>3
<1>5. T \in Seq(STRING \X Nat) /\ V \in Seq(STRING) /\ Len(T) = n /\ Len(V) = n
  <2>1. T = [i \in 1 .. n |-> T[i]] /\ V = [i \in 1 .. n |-> V[i]]
    OBVIOUS
  <2> HIDE DEF T, V
  <2>2. T \in [1 .. n -> STRING \X Nat] /\ V \in [1 .. n -> STRING]
    BY <2>1, <1>3
  <2>3. \A S : \A f \in [1 .. n -> S] : f \in Seq(S) /\ Len(f) = n
    OBVIOUS
  <2> QED BY <2>2, <2>3, Zenon
<1> DEFINE Sets(level) == IF level = "session" THEN STRING ELSE STRING \X Nat
<1>6. \A level \in Level : /\ R[level] = Once(Names(level)) /\ Names(level) \in Seq(Sets(level))
                           /\ Len(Names(level)) = n /\ DOMAIN Names(level) = 1 .. n
  <2> HIDE DEF T, V, R
  <2> QED BY <1>4, <1>5 DEF Level
<1>7. \A level \in Level : \A i \in 1 .. n : Names(level)[i] = NameOf(r, level, i)
  BY DEF NameOf, Level
<1>8. r.case = c /\ r.results = results
  OBVIOUS
<1>9. \A level \in Level : DOMAIN r.metrics[level] = K
  OBVIOUS
<1>10. \A level \in Level : \A k \in K : r.metrics[level][k] = metrics(level, k)
  <2>1. \A level \in Level : \A k \in K : r.metrics[level][k] = AtK(R[level], Correct(c)[level], k)
    OBVIOUS
  <2> HIDE DEF Names, R
  <2> QED BY <2>1, <1>6
<1> HIDE DEF Names, R, T, V, Sets
<1>11. ASSUME NEW level \in Level, NEW id, NEW k
       PROVE  RecalledIn(r, level, id, k) <=> Recall(Names(level), id, k)
  <2>1. \A i \in 1 .. n : {NameOf(r, level, j) : j \in 1 .. i - 1} = Before(Names(level), i - 1)
    <3> SUFFICES ASSUME NEW i \in 1 .. n
                 PROVE  {NameOf(r, level, j) : j \in 1 .. i - 1} = Before(Names(level), i - 1)
      OBVIOUS
    <3>1. \A j \in 1 .. i - 1 : j \in 1 .. n
      OBVIOUS
    <3>2. \A j \in 1 .. i - 1 : Names(level)[j] = NameOf(r, level, j)
      BY <3>1, <1>7
    <3> QED BY <3>2 DEF Before
  <2> QED BY <2>1, <1>2, <1>6, <1>7, <1>8 DEF RecalledIn, Recall
<1>12. ASSUME NEW level \in Level, NEW k \in K
       PROVE  /\ metrics(level, k).any <=> \E id \in Correct(c)[level] : Recall(Names(level), id, k)
              /\ metrics(level, k).all <=> \A id \in Correct(c)[level] : Recall(Names(level), id, k)
              /\ metrics(level, k).gain <= metrics(level, k).ideal
  <2>1. k \in Cutoffs
    OBVIOUS
  <2>2. IsFiniteSet(Correct(c)[level]) /\ Names(level) \in Seq(Sets(level))
    BY <1>6, CorrectFinite
  <2> QED BY <2>1, <2>2, MetricsOfNames
<1>13. ASSUME NEW level \in Level, NEW k \in K, NEW l \in Cutoffs, l >= k
       PROVE  /\ metrics(level, k).any => metrics(level, l).any
              /\ metrics(level, k).all => metrics(level, l).all
  <2>1. l \in K /\ k \in Nat /\ l \in Nat /\ k <= l
    BY <1>13, SizeAssumption
  <2>2. \A id : Recall(Names(level), id, k) => Recall(Names(level), id, l)
    BY <2>1, <1>6, RecallGrows
  <2> HIDE DEF metrics
  <2> QED BY <2>1, <2>2, <1>12, Zenon
<1>14. ASSUME NEW id, NEW k \in K, RecalledIn(r, "turn", id, k)
       PROVE  RecalledIn(r, "session", id[1], k)
  <2>1. "turn" \in Level /\ "session" \in Level /\ k \in Nat
    BY SizeAssumption DEF Level
  <2>2. Recall(T, id, k)
    BY <2>1, <1>11, <1>14 DEF Names
  <2>3. \A i \in 1 .. Len(T) : V[i] = T[i][1]
    BY <1>3, <1>5
  <2>4. Recall(V, id[1], k)
    BY <2>1, <2>2, <2>3, <1>5, SessionRecalled
  <2> QED BY <2>1, <2>4, <1>11 DEF Names
<1> HIDE DEF metrics
<1>15. ASSUME NEW level \in Level, NEW k \in K
       PROVE  /\ r.metrics[level][k].any <=> \E id \in Correct(c)[level] : RecalledIn(r, level, id, k)
              /\ r.metrics[level][k].all <=> \A id \in Correct(c)[level] : RecalledIn(r, level, id, k)
              /\ r.metrics[level][k].gain <= r.metrics[level][k].ideal
  BY <1>10, <1>11, <1>12
<1>16. ASSUME NEW level \in Level, NEW k \in K, NEW larger \in {l \in Cutoffs : l >= k}
       PROVE  /\ r.metrics[level][k].any => r.metrics[level][larger].any
              /\ r.metrics[level][k].all => r.metrics[level][larger].all
  <2>1. larger \in Cutoffs /\ larger >= k /\ larger \in K
    OBVIOUS
  <2> QED BY <2>1, <1>10, <1>13
<1> SUFFICES ASSUME NEW level \in Level, NEW k \in K
             PROVE  /\ r.metrics[level][k].any <=> \E id \in Correct(c)[level] : RecalledIn(r, level, id, k)
                    /\ r.metrics[level][k].all <=> \A id \in Correct(c)[level] : RecalledIn(r, level, id, k)
                    /\ r.metrics[level][k].gain <= r.metrics[level][k].ideal
                    /\ \A larger \in {l \in Cutoffs : l >= k} :
                         /\ r.metrics[level][k].any => r.metrics[level][larger].any
                         /\ r.metrics[level][k].all => r.metrics[level][larger].all
                    /\ \A id \in Correct(c).turn :
                         RecalledIn(r, "turn", id, k) => RecalledIn(r, "session", id[1], k)
  <2> HIDE DEF RecalledIn
  <2> QED BY <1>8, <1>9 DEF Sound
<1> QED BY <1>14, <1>15, <1>16, Zenon

\* The plan of a case is stored as a list of messages.
LEMMA IngestedType ==
  ASSUME setup \in Setup, NEW c \in CaseId
  PROVE  Ingested(c, Len(Plan(c))) \in Seq(Message)
<1> DEFINE N == Len(Plan(c))
           M == [n \in 1 .. N |-> Messages(c, n)]
<1>1. N \in Nat
  <2>1. Plan(c) \in Seq(Request)
    BY PlanFacts
  <2> QED BY <2>1
<1>2. \A n \in 1 .. N : Messages(c, n) \in Seq(Message)
  BY MessagesOf
<1> HIDE DEF N
<1>3. M \in Seq(Seq(Message))
  BY <1>1, <1>2
<1> HIDE DEF M
<1>4. FlattenSeq(M) \in Seq(Message)
  BY <1>3, FlattenPlaces
<1> QED BY <1>4 DEF Ingested, M, N

\* Everything stays in the records, and a search adds a sound one.
LEMMA EverySoundNext ==
  ASSUME Typed, InHand, EverySound, [Next]_vars
  PROVE  EverySound'
<1>1. UNCHANGED setup
  BY DEF Next, SkipOn, Open, Item, AfterComma, Decode, Close, Receive, Ingest, Search, Over, vars
<1>2. \A r : Sound(r)' <=> Sound(r)
  BY <1>1, SameSound
<1>3. \A r \in Range(records) : Sound(r)
  BY DEF EverySound
<1>4. ASSUME \A r \in Range(records') : Sound(r) PROVE EverySound'
  BY <1>2, <1>4 DEF EverySound
<1>5. CASE UNCHANGED records
  BY <1>3, <1>4, <1>5
<1>6. CASE Search
  <2> DEFINE c == case
             K == IF setup.options.cases[c].abstention THEN {} ELSE Cutoffs
             Told(results) == [case |-> c, results |-> results,
                               metrics |-> [level \in Level |-> [k \in K |->
                                  AtK(Ranked(c, results)[level], Correct(c)[level], k)]]]
  <2>1. PICK found \in SUBSET ToSet(stored) :
          \E results \in SetToSeqs(found) : records' = Append(records, Told(results))
    BY <1>6 DEF Search
  <2>2. PICK results \in SetToSeqs(found) : records' = Append(records, Told(results))
    BY <2>1
  <2>3. setup \in Setup /\ c \in CaseId /\ stored = Ingested(c, Len(Plan(c))) /\ records \in Seq(Range(records))
    BY <1>6 DEF Search, Typed, InHand
  <2>4. Cardinality(found) \in Nat
    <3>3. IsFiniteSet(DOMAIN stored)
      <4>1. stored \in Seq(Message)
        BY <2>3, IngestedType
      <4>2. DOMAIN stored = 1 .. Len(stored) /\ Len(stored) \in Nat
        BY <4>1
      <4> QED BY <4>2, UpTo
    <3>4. IsFiniteSet(ToSet(stored))
      <4> DEFINE S == ToSet(stored)
                 f == [i \in DOMAIN stored |-> stored[i]]
      <4>1. f \in Surjection(DOMAIN stored, S)
        BY DEF Surjection, ToSet
      <4> HIDE DEF S, f
      <4>2. IsFiniteSet(S)
        BY <3>3, <4>1, FS_Surjection
      <4> QED BY <4>2 DEF S
    <3> QED BY <3>4, FS_Subset, FS_CardinalityType
  <2>5. results \in [1 .. Cardinality(found) -> ToSet(Ingested(c, Len(Plan(c))))]
    <3>1. results \in [1 .. Cardinality(found) -> found]
      BY <2>2 DEF SetToSeqs
    <3> QED BY <3>1, <2>3
  <2>6. K \in {{}, Cutoffs}
    OBVIOUS
  <2> DEFINE r == Told(results)
  <2>7. Sound(r)
    <3> HIDE DEF c, K
    <3> QED BY <2>3, <2>4, <2>5, <2>6, SearchSound
  <2> HIDE DEF r
  <2>8. records' = Append(records, r)
    BY <2>2 DEF r
  <2>9. /\ DOMAIN records' = 1 .. Len(records) + 1 /\ DOMAIN records = 1 .. Len(records) /\ Len(records) \in Nat
        /\ records'[Len(records) + 1] = r /\ \A i \in 1 .. Len(records) : records'[i] = records[i]
    BY <2>3, <2>8, AppendedRecord
  <2>10. Range(records') \subseteq Range(records) \cup {r}
    <3>1. \A n \in 1 .. Len(records) + 1 : n \in 1 .. Len(records) \/ n = Len(records) + 1
      BY <2>9
    <3> QED BY <3>1, <2>9 DEF Range
  <2> QED BY <2>7, <2>10, <1>3, <1>4
<1>7. Next \/ UNCHANGED vars => UNCHANGED records \/ Search
  BY DEF Next, SkipOn, Open, Item, AfterComma, Decode, Close, Receive, Ingest, Over, vars
<1> QED BY <1>5, <1>6, <1>7

\* Of every record, whatever the memory answers: at each cutoff the metrics count
\* exactly the answers with fewer than that many other names before them, a
\* larger cutoff finds no less, an answer session is found when one of its turns
\* is, and ndcg is at most one, for any discount that does not grow with the
\* rank: rank_scored_messages and _evaluate_at_k score what was found.
THEOREM RecordsSound == Spec => []MetricsSound
<1>1. Init => Typed /\ InHand /\ EverySound
  <2> SUFFICES ASSUME Init PROVE Typed /\ InHand /\ EverySound
    OBVIOUS
  <2>1. pc = "open" /\ DOMAIN records = {}
    BY DEF Init
  <2> QED BY <2>1, TypedInit DEF InHand, EverySound, Range
<1>2. Typed /\ InHand /\ EverySound /\ [Next]_vars => (Typed /\ InHand /\ EverySound)'
  BY TypedNext, InHandNext, EverySoundNext
<1>3. EverySound => MetricsSound
  BY EveryRecord
<1> QED BY <1>1, <1>2, <1>3, PTL DEF Spec

----------------------------------------------------------------------------
(* Tokens and solid tokens *)

\* What Picked does at a place.
Pick(acc, s, k, P) == IF k \in P THEN Append(acc, s[k]) ELSE acc

\* Picking goes through a sequence place by place.
LEMMA PickedSteps ==
  ASSUME NEW S, NEW s \in Seq(S), NEW P
  PROVE  /\ Picked(s, P) \in [0 .. Len(s) -> Seq(S)]
         /\ Picked(s, P)[0] = <<>>
         /\ \A n \in 1 .. Len(s) : Picked(s, P)[n] = Pick(Picked(s, P)[n - 1], s, n, P)
<1> DEFINE n == Len(s)
           T == Seq(S)
           next == [p \in T \X (1 .. n) |-> Pick(p[1], s, p[2], P)]
           Is(f) == f = [k \in 0 .. n |-> IF k = 0 THEN <<>> ELSE Pick(f[k - 1], s, k, P)]
<1>1. n \in Nat /\ \A k \in 1 .. n : s[k] \in S
  OBVIOUS
<1>2. \A a \in T, k \in 1 .. n : Pick(a, s, k, P) \in T
  BY <1>1 DEF Pick
<1>3. <<>> \in T
  OBVIOUS
<1>4. Picked(s, P) = CHOOSE f : Is(f)
  BY DEF Picked, Pick
<1> HIDE DEF n, T
<1>5. next \in [T \X (1 .. n) -> T] /\ \A a \in T, k \in 1 .. n : next[<<a, k>>] = Pick(a, s, k, P)
  BY <1>1, <1>2
<1> HIDE DEF next
<1>6. PICK w \in [0 .. n -> T] : Steps(w, n, <<>>, next)
  BY <1>1, <1>3, <1>5, RecursionDefined
<1>7. \A k \in 0 .. n : w[k] = IF k = 0 THEN <<>> ELSE next[<<w[k - 1], k>>]
  BY <1>6 DEF Steps
<1>8. ASSUME NEW k \in 0 .. n PROVE w[k] = IF k = 0 THEN <<>> ELSE Pick(w[k - 1], s, k, P)
  <2>1. CASE k = 0
    BY <2>1, <1>7
  <2>2. CASE k # 0
    <3>1. k - 1 \in 0 .. n /\ k \in 1 .. n
      BY <2>2, <1>1
    <3>2. w[k] = next[<<w[k - 1], k>>] /\ w[k - 1] \in T
      BY <2>2, <3>1, <1>6, <1>7
    <3> QED BY <2>2, <3>1, <3>2, <1>5
  <2> QED BY <2>1, <2>2
<1>9. Is(w)
  <2>1. w = [k \in 0 .. n |-> w[k]]
    BY <1>6
  <2> QED BY <2>1, <1>8
<1> DEFINE f == Picked(s, P)
<1>10. Is(f)
  BY <1>4, <1>9, Zenon
<1> HIDE DEF f
<1>11. DOMAIN f = 0 .. n /\ \A k \in 0 .. n : f[k] = IF k = 0 THEN <<>> ELSE Pick(f[k - 1], s, k, P)
  BY <1>10
<1>12. 0 \in 0 .. n /\ \A k \in 1 .. n : k \in 0 .. n /\ k # 0
  BY <1>1
<1>13. f[0] = <<>> /\ \A k \in 1 .. n : f[k] = Pick(f[k - 1], s, k, P)
  BY <1>11, <1>12
<1> DEFINE Good == {k \in 0 .. n : f[k] \in T}
<1>14. 0 \in Good
  BY <1>3, <1>12, <1>13
<1>15. ASSUME NEW k \in 1 .. n, k - 1 \in Good PROVE k \in Good
  <2>1. f[k] = Pick(f[k - 1], s, k, P) /\ f[k - 1] \in T /\ s[k] \in S /\ k \in 0 .. n
    BY <1>1, <1>12, <1>13, <1>15
  <2>3. f[k] \in T
    BY <2>1, <1>2
  <2> QED BY <2>1, <2>3
<1>16. \A k \in 0 .. n : k \in Good
  <2> HIDE DEF Good
  <2> QED BY <1>1, <1>14, <1>15, Stepwise, Zenon
<1>17. f \in [0 .. n -> T]
  BY <1>10, <1>16
<1> QED BY <1>13, <1>17 DEF f, n, T

\* One sequence is the beginning of another.
Leads(a, b) == Len(a) <= Len(b) /\ \A i \in 1 .. Len(a) : b[i] = a[i]

\* What is picked first stays first.
LEMMA PickedGrows ==
  ASSUME NEW S, NEW s \in Seq(S), NEW P, NEW m \in 0 .. Len(s), NEW n \in m .. Len(s)
  PROVE  Leads(Picked(s, P)[m], Picked(s, P)[n])
<1> DEFINE f == Picked(s, P)
           N == Len(s)
           Good == {k \in 0 .. N - m : /\ Len(f[m]) <= Len(f[m + k])
                                       /\ \A i \in 1 .. Len(f[m]) : f[m + k][i] = f[m][i]}
<1>1. N \in Nat /\ m \in Nat /\ N - m \in Nat /\ \A k \in 1 .. N : s[k] \in S
  OBVIOUS
<1>2. f \in [0 .. N -> Seq(S)] /\ \A k \in 1 .. N : f[k] = Pick(f[k - 1], s, k, P)
  BY PickedSteps
<1> HIDE DEF f, N
<1>3. 0 \in Good
  BY <1>1, <1>2
<1>4. ASSUME NEW k \in 1 .. N - m, k - 1 \in Good PROVE k \in Good
  <2>1. m + k \in 1 .. N /\ m + k - 1 \in 0 .. N /\ m + (k - 1) = m + k - 1 /\ m \in 0 .. N
    BY <1>1 DEF N
  <2>2. f[m + k] = Pick(f[m + k - 1], s, m + k, P)
    BY <1>2, <2>1
  <2>3. f[m + k - 1] \in Seq(S) /\ f[m] \in Seq(S) /\ s[m + k] \in S
    BY <1>1, <1>2, <2>1
  <2>4. /\ Len(f[m]) <= Len(f[m + k - 1])
        /\ \A i \in 1 .. Len(f[m]) : f[m + k - 1][i] = f[m][i]
    BY <1>4, <2>1
  <2>5. /\ Len(f[m + k - 1]) <= Len(f[m + k])
        /\ \A i \in 1 .. Len(f[m + k - 1]) : f[m + k][i] = f[m + k - 1][i]
    <3>1. \A a \in Seq(S), x \in S :
            /\ Len(a) <= Len(Append(a, x)) /\ \A i \in 1 .. Len(a) : Append(a, x)[i] = a[i]
            /\ Len(a) <= Len(a)
      OBVIOUS
    <3>2. f[m + k] = Append(f[m + k - 1], s[m + k]) \/ f[m + k] = f[m + k - 1]
      BY <2>2 DEF Pick
    <3> QED BY <2>3, <3>1, <3>2
  <2>6. Len(f[m]) \in Nat /\ Len(f[m + k - 1]) \in Nat /\ Len(f[m + k]) \in Nat
    BY <2>1, <2>3, <1>2
  <2>7. \A i \in 1 .. Len(f[m]) : i \in 1 .. Len(f[m + k - 1])
    BY <2>4, <2>6
  <2>8. Len(f[m]) <= Len(f[m + k])
    BY <2>4, <2>5, <2>6
  <2>9. \A i \in 1 .. Len(f[m]) : f[m + k][i] = f[m][i]
    BY <2>4, <2>5, <2>7
  <2> QED BY <2>8, <2>9, <1>4
<1>5. \A k \in 0 .. N - m : k \in Good
  <2> HIDE DEF Good
  <2> QED BY <1>1, <1>3, <1>4, Stepwise, Zenon
<1>6. n - m \in 0 .. N - m /\ m + (n - m) = n
  BY <1>1 DEF N
<1>7. n - m \in Good
  BY <1>5, <1>6
<1> QED BY <1>6, <1>7 DEF f, Leads

\* The file, its tokens in characters, and where each begins.
File == Text(setup.tokens)
Spellings == [i \in DOMAIN setup.tokens |-> Spelling(setup.tokens[i])]
Border == Ends(Spellings)

\* Characters by name.
Blank == " "
Comma == ","
Brace == "{"
Closing == "}"
Symbols == {"[", "]", ",", " ", "7"}

\* No two of them are the same, and none is an id.
LEMMA SymbolsDiffer ==
  /\ Symbols = {"[", "]", Comma, Blank, "7"} /\ Symbols \cup CaseId \cup {Brace, Closing} = Character
  /\ Blank \notin {"[", "]", Comma, "7", Brace, Closing}
  /\ Comma \notin {"[", "]", "7", Brace, Closing}
  /\ Brace \notin {"[", "]", "7", Closing} /\ Closing \notin {"[", "]", "7"}
  /\ {"cut", Blank, Comma, Brace, Closing, "[", "]", "7"} \cap CaseId = {}
  /\ "cut" \notin Symbols
  /\ Token = Symbols \cup CaseId \cup {"cut"}
BY Zenon DEF Symbols, Blank, Comma, Brace, Closing, CaseId, Character, Token

\* An item is spelled with its id in braces, any other token by itself.
LEMMA SpellingFacts ==
  ASSUME NEW token \in Token
  PROVE  /\ Spelling(token) \in Seq(Character)
         /\ Len(Spelling(token)) \in {1, 2, 3}
         /\ IF token \in CaseId
            THEN /\ Len(Spelling(token)) = 3 /\ Spelling(token)[1] = Brace
                 /\ Spelling(token)[2] = token /\ Spelling(token)[3] = Closing
            ELSE IF token = "cut"
            THEN Len(Spelling(token)) = 2 /\ Spelling(token)[1] = Brace
            ELSE Len(Spelling(token)) = 1 /\ Spelling(token)[1] = token /\ token \in Symbols
<1>1. Brace \in Character /\ Closing \in Character /\ CaseId \subseteq Character /\ "a" \in Character
      /\ Symbols \subseteq Character
  BY Zenon DEF CaseId, Character, Brace, Closing, Symbols
<1>2. CASE token \in CaseId
  <2>1. Spelling(token) = <<Brace, token, Closing>>
    BY <1>2, Zenon DEF Spelling, CaseId, Brace, Closing
  <2>2. token \in Character
    BY <1>1, <1>2
  <2> QED BY <1>1, <1>2, <2>1, <2>2
<1>3. CASE token = "cut"
  <2>1. token \notin CaseId
    BY <1>3, SymbolsDiffer
  <2>2. Spelling(token) = <<Brace, "a">>
    BY <1>3, Zenon DEF Spelling, CaseId, Brace
  <2>3. \A x, y \in Character : <<x, y>> \in Seq(Character) /\ Len(<<x, y>>) = 2 /\ <<x, y>>[1] = x
    OBVIOUS
  <2>4. /\ Spelling(token) \in Seq(Character) /\ Len(Spelling(token)) = 2
        /\ Spelling(token)[1] = Brace
    BY <1>1, <2>2, <2>3, Zenon
  <2>5. Len(Spelling(token)) \in {1, 2, 3}
    BY <2>4
  <2> QED BY <1>3, <2>1, <2>4, <2>5, Zenon
<1>4. CASE token \notin CaseId \cup {"cut"}
  <2>1. Spelling(token) = <<token>> /\ token \in Symbols
    BY <1>4, Zenon DEF Spelling, CaseId, Token, Symbols
  <2>2. token \in Character
    BY <1>1, <2>1
  <2> QED BY <1>4, <2>1, <2>2
<1> QED BY <1>2, <1>3, <1>4

\* What the spelling of a token begins with tells it from others.
LEMMA FirstCharacter ==
  ASSUME NEW token \in Token
  PROVE  /\ Spelling(token)[1] # Closing
         /\ \A x \in Symbols : Spelling(token)[1] = x <=> token = x
         /\ Spelling(token)[1] = Brace <=> token \in CaseId \cup {"cut"}
<1>1. /\ \A x \in Symbols : x # Brace /\ x # Closing /\ x # "cut" /\ x \notin CaseId
      /\ Brace # Closing
  BY SymbolsDiffer
<1>2. CASE token \in CaseId \cup {"cut"}
  <2>1. Spelling(token)[1] = Brace
    BY <1>2, SpellingFacts
  <2> QED BY <1>1, <1>2, <2>1
<1>3. CASE token \notin CaseId \cup {"cut"}
  <2>1. Spelling(token)[1] = token /\ token \in Symbols
    BY <1>3, SpellingFacts
  <2> QED BY <1>1, <1>3, <2>1
<1> QED BY <1>2, <1>3

\* A file holds its tokens one behind the other.
LEMMA FileFacts ==
  ASSUME setup \in Setup
  PROVE  /\ setup.tokens \in Seq(Token)
         /\ File \in Seq(Character)
         /\ Border \in [0 .. Len(setup.tokens) -> Nat]
         /\ Border[0] = 0 /\ Border[Len(setup.tokens)] = Len(File)
         /\ \A t \in 1 .. Len(setup.tokens) : Border[t] = Border[t - 1] + Len(Spelling(setup.tokens[t]))
         /\ \A t \in 0 .. Len(setup.tokens) : \A h \in 0 .. t : Border[h] <= Border[t]
         /\ \A t \in 1 .. Len(setup.tokens) : \A j \in 1 .. Len(Spelling(setup.tokens[t])) :
              File[Border[t - 1] + j] = Spelling(setup.tokens[t])[j]
<1> DEFINE T == setup.tokens
<1>1. T \in Seq(Token)
  BY SetupAssumption
<1>2. DOMAIN T = 1 .. Len(T) /\ Len(T) \in Nat /\ \A i \in 1 .. Len(T) : T[i] \in Token
  BY <1>1
<1>3. Spellings \in Seq(Seq(Character)) /\ Len(Spellings) = Len(T)
      /\ \A i \in 1 .. Len(T) : Spellings[i] = Spelling(T[i])
  <2>1. \A i \in 1 .. Len(T) : Spelling(T[i]) \in Seq(Character)
    BY <1>2, SpellingFacts
  <2>2. Spellings = [i \in 1 .. Len(T) |-> Spelling(T[i])]
    BY <1>2 DEF Spellings
  <2> QED BY <1>2, <2>1, <2>2
<1>4. File = FlattenSeq(Spellings)
  BY DEF File, Text, Spellings
<1> HIDE DEF T
<1> DEFINE Q == Spellings
<1> HIDE DEF Q
<1>5. /\ FlattenSeq(Q) \in Seq(Character)
      /\ Ends(Q) \in [0 .. Len(Q) -> Nat]
      /\ Ends(Q)[0] = 0 /\ Ends(Q)[Len(Q)] = Len(FlattenSeq(Q))
      /\ \A i \in 1 .. Len(Q) : Ends(Q)[i] = Ends(Q)[i - 1] + Len(Q[i])
      /\ \A i \in 0 .. Len(Q) : \A h \in 0 .. i : Ends(Q)[h] <= Ends(Q)[i]
      /\ \A i \in 1 .. Len(Q) : \A j \in 1 .. Len(Q[i]) : FlattenSeq(Q)[Ends(Q)[i - 1] + j] = Q[i][j]
  <2>1. Q \in Seq(Seq(Character))
    BY <1>3 DEF Q
  <2> QED BY <2>1, FlattenPlaces
<1> QED BY <1>1, <1>3, <1>4, <1>5 DEF Border, Q, T

\* The places of the tokens that are not blank.
SolidAt == {i \in DOMAIN setup.tokens : setup.tokens[i] # Blank}

\* A blank adds nothing to the solid tokens, any other token is the next.
LEMMA SolidSteps ==
  ASSUME setup \in Setup
  PROVE  /\ Solids \in [0 .. Len(setup.tokens) -> Seq(Token)]
         /\ Solids[0] = <<>> /\ Solid \in Seq(Token)
         /\ \A t \in 0 .. Len(setup.tokens) : Len(Solids[t]) <= Len(Solid)
         /\ \A t \in 1 .. Len(setup.tokens) :
              IF setup.tokens[t] = Blank THEN Solids[t] = Solids[t - 1]
              ELSE /\ Len(Solids[t]) = Len(Solids[t - 1]) + 1
                   /\ Len(Solids[t - 1]) < Len(Solid)
                   /\ Solid[Len(Solids[t - 1]) + 1] = setup.tokens[t]
<1> DEFINE T == setup.tokens
           N == Len(T)
<1>1. T \in Seq(Token) /\ N \in Nat /\ DOMAIN T = 1 .. N
  BY SetupAssumption
<1>2. Solids = Picked(T, SolidAt) /\ Solid = Solids[N]
  BY Zenon DEF Solids, Solid, SolidAt, Blank
<1>3. \A t \in 1 .. N : t \in SolidAt <=> T[t] # Blank
  BY <1>1 DEF SolidAt
<1> HIDE DEF T
<1>4. /\ Solids \in [0 .. N -> Seq(Token)] /\ Solids[0] = <<>>
      /\ \A t \in 1 .. N : Solids[t] = Pick(Solids[t - 1], T, t, SolidAt)
  BY <1>1, <1>2, PickedSteps
<1>5. \A t \in 0 .. N : /\ Len(Solids[t]) <= Len(Solid)
                        /\ \A i \in 1 .. Len(Solids[t]) : Solid[i] = Solids[t][i]
  <2> SUFFICES ASSUME NEW t \in 0 .. N
               PROVE  /\ Len(Solids[t]) <= Len(Solid)
                      /\ \A i \in 1 .. Len(Solids[t]) : Solid[i] = Solids[t][i]
    OBVIOUS
  <2>1. t \in 0 .. Len(T) /\ N \in t .. Len(T) /\ T \in Seq(Token)
    BY <1>1
  <2> HIDE DEF N
  <2>2. Leads(Picked(T, SolidAt)[t], Picked(T, SolidAt)[N])
    BY <2>1, PickedGrows, Zenon
  <2> QED BY <1>2, <2>2 DEF Leads
<1>6. Solid \in Seq(Token)
  BY <1>1, <1>2, <1>4
<1> HIDE DEF N
<1>7. ASSUME NEW t \in 1 .. N
      PROVE  IF T[t] = Blank THEN Solids[t] = Solids[t - 1]
             ELSE /\ Len(Solids[t]) = Len(Solids[t - 1]) + 1
                  /\ Len(Solids[t - 1]) < Len(Solid)
                  /\ Solid[Len(Solids[t - 1]) + 1] = T[t]
  <2>1. t - 1 \in 0 .. N /\ t \in 0 .. N /\ T[t] \in Token
    BY <1>1 DEF N
  <2>2. Solids[t - 1] \in Seq(Token) /\ Solids[t] = Pick(Solids[t - 1], T, t, SolidAt)
    BY <1>4, <2>1
  <2>3. CASE T[t] = Blank
    BY <2>2, <2>3, <1>3 DEF Pick
  <2>4. CASE T[t] # Blank
    <3> DEFINE n == Len(Solids[t - 1])
    <3>1. Solids[t] = Append(Solids[t - 1], T[t])
      BY <2>2, <2>4, <1>3 DEF Pick
    <3>2. Len(Solids[t]) = n + 1 /\ Solids[t][n + 1] = T[t] /\ n \in Nat
      <4>1. \A a \in Seq(Token), x \in Token :
              Len(Append(a, x)) = Len(a) + 1 /\ Append(a, x)[Len(a) + 1] = x /\ Len(a) \in Nat
        OBVIOUS
      <4>2. Solids[t - 1] \in Seq(Token) /\ T[t] \in Token
        BY <2>1, <2>2
      <4>3. /\ Len(Append(Solids[t - 1], T[t])) = n + 1 /\ n \in Nat
            /\ Append(Solids[t - 1], T[t])[n + 1] = T[t]
        BY <4>1, <4>2
      <4> QED BY <3>1, <4>3
    <3>3. Len(Solid) \in Nat /\ n + 1 \in 1 .. Len(Solids[t])
      BY <3>2, <1>6
    <3>4. Solid[n + 1] = Solids[t][n + 1] /\ Len(Solids[t]) <= Len(Solid)
      BY <3>3, <1>5, <2>1
    <3>5. Solid[n + 1] = T[t] /\ n < Len(Solid)
      BY <3>2, <3>3, <3>4
    <3> QED BY <3>2, <3>5, <2>4
  <2> QED BY <2>3, <2>4
<1> QED BY <1>4, <1>5, <1>6, <1>7 DEF T, N

----------------------------------------------------------------------------
(* The text in hand and the file *)

\* Where in the file the text in hand begins, and where the reader is.
Start == Len(File) - Len(rest) - Len(buffer)
Here == Start + position

\* The text in hand and the rest are what follows there.
Aligned ==
  /\ Start \in Nat
  /\ \A i \in 1 .. Len(buffer) : buffer[i] = File[Start + i]
  /\ \A i \in 1 .. Len(rest) : rest[i] = File[Start + Len(buffer) + i]
  /\ eof => rest = <<>>

\* The first n solid tokens have been read.
ReadOf(n) == \E t \in 0 .. Len(setup.tokens) : Here = Border[t] /\ Len(Solids[t]) = n

\* The reader stands before what an item must be.
Facing(n) ==
  \E t \in 0 .. Len(setup.tokens) :
    /\ Here = Border[t] /\ Len(Solids[t]) = n
    /\ t < Len(setup.tokens) => setup.tokens[t + 1] \notin {Blank, "]"}

\* What the file holds does not change.
LEMMA SameFile ==
  ASSUME UNCHANGED setup
  PROVE  /\ File' = File /\ Border' = Border /\ Solids' = Solids /\ Solid' = Solid
         /\ Values' = Values /\ Cases' = Cases /\ PassingAt' = PassingAt
<1>1. File' = File
  BY DEF File
<1>2. Border' = Border
  BY DEF Border, Spellings
<1>3. Solids' = Solids /\ Solid' = Solid
  BY DEF Solids, Solid
<1>4. \A n : SoundUpTo(n)' <=> SoundUpTo(n)
  BY <1>3 DEF SoundUpTo
<1>5. Values' = Values
  BY <1>3, <1>4 DEF Values
<1>6. Cases' = Cases
  BY <1>5 DEF Cases
<1>7. PassingAt' = PassingAt
  BY <1>6 DEF PassingAt, Reached, Asked, TypeOf
<1> QED BY <1>1, <1>2, <1>3, <1>5, <1>6, <1>7

\* fill moves the text in hand on by what is consumed.
LEMMA AlignedFill ==
  ASSUME Typed, Aligned, NEW k \in 0 .. Len(buffer), Fill(k), UNCHANGED setup
  PROVE  Aligned' /\ Start' = Start + k
<1> DEFINE chunk == setup.options.chunk
           m == Least(chunk, Len(rest))
           left == After(buffer, k)
           got == FirstOf(rest, chunk)
<1>1. chunk \in Nat \ {0} /\ buffer \in Seq(Character) /\ rest \in Seq(Character)
  BY TypedReading, SetupAssumption DEF Typed
<1>2. /\ buffer' = left \o got /\ rest' = After(rest, chunk) /\ eof' = (rest = <<>>)
  BY DEF Fill
<1> HIDE DEF chunk
<1>3. m \in 0 .. Len(rest) /\ Len(rest) \in Nat /\ Len(buffer) \in Nat
  BY <1>1 DEF Least
<1>4. /\ left \in Seq(Character) /\ Len(left) = Len(buffer) - k
      /\ \A i \in 1 .. Len(left) : left[i] = buffer[k + i]
  BY <1>1, <1>3 DEF After
<1>5. /\ got \in Seq(Character) /\ Len(got) = m
      /\ \A i \in 1 .. Len(got) : got[i] = rest[i]
  <2> HIDE DEF m
  <2>1. got = SubSeq(rest, 1, m)
    BY DEF FirstOf, m
  <2> QED BY <2>1, <1>1, <1>3
<1>6. /\ rest' \in Seq(Character) /\ Len(rest') = Len(rest) - m
      /\ \A i \in 1 .. Len(rest') : rest'[i] = rest[m + i]
  <2>1. CASE chunk < Len(rest)
    <3>1. m = chunk
      BY <2>1 DEF Least
    <3> QED BY <2>1, <3>1, <1>1, <1>2, <1>3 DEF After
  <2>2. CASE ~(chunk < Len(rest))
    <3>1. m = Len(rest)
      BY <2>2 DEF Least
    <3>2. rest' = <<>>
      BY <2>2, <1>1, <1>2, <1>3 DEF After
    <3> QED BY <3>1, <3>2, <1>3
  <2> QED BY <2>1, <2>2
<1> HIDE DEF m, left, got
<1>7. /\ Len(buffer') = Len(left) + Len(got)
      /\ \A i \in 1 .. Len(left) : buffer'[i] = left[i]
      /\ \A i \in 1 .. Len(got) : buffer'[Len(left) + i] = got[i]
  <2>1. \A a, b \in Seq(Character) :
          /\ Len(a \o b) = Len(a) + Len(b)
          /\ \A i \in 1 .. Len(a) : (a \o b)[i] = a[i]
          /\ \A i \in 1 .. Len(b) : (a \o b)[Len(a) + i] = b[i]
    OBVIOUS
  <2> QED BY <2>1, <1>2, <1>4, <1>5
<1>8. Len(buffer') = Len(buffer) - k + m
  BY <1>3, <1>4, <1>5, <1>7
<1>9. File' = File
  BY SameFile
<1>10. Start \in Nat /\ Len(File) \in Nat
  BY FileFacts DEF Aligned, Typed
<1>11. Start' = Start + k /\ Start' \in Nat
  BY <1>3, <1>6, <1>8, <1>9, <1>10 DEF Start
<1>12. ASSUME NEW i \in 1 .. Len(buffer') PROVE buffer'[i] = File[Start + k + i]
  <2>1. CASE i <= Len(left)
    <3>1. buffer'[i] = buffer[k + i] /\ k + i \in 1 .. Len(buffer) /\ Start + (k + i) = Start + k + i
      BY <2>1, <1>3, <1>4, <1>7, <1>8, <1>10
    <3> QED BY <3>1 DEF Aligned
  <2>2. CASE ~(i <= Len(left))
    <3> DEFINE j == i - Len(left)
    <3>1. j \in 1 .. Len(got) /\ Len(left) + j = i /\ j \in 1 .. Len(rest)
      BY <2>2, <1>3, <1>4, <1>5, <1>7
    <3>2. Start + Len(buffer) + j = Start + k + i
      BY <1>3, <1>4, <1>10
    <3> HIDE DEF j
    <3>3. buffer'[i] = rest[j] /\ rest[j] = File[Start + Len(buffer) + j]
      BY <3>1, <1>5, <1>7 DEF Aligned
    <3> QED BY <3>2, <3>3
  <2> QED BY <2>1, <2>2
<1>13. ASSUME NEW i \in 1 .. Len(rest') PROVE rest'[i] = File[Start + k + Len(buffer') + i]
  <2>1. rest'[i] = rest[m + i] /\ m + i \in 1 .. Len(rest)
    BY <1>3, <1>6
  <2>2. Start + Len(buffer) + (m + i) = Start + k + Len(buffer') + i
    BY <1>3, <1>8, <1>10
  <2>3. rest[m + i] = File[Start + Len(buffer) + (m + i)]
    BY <2>1 DEF Aligned
  <2> QED BY <2>1, <2>2, <2>3
<1>14. eof' => rest' = <<>>
  <2>1. ASSUME rest = <<>> PROVE rest' = <<>>
    <3>1. Len(rest') = 0
      BY <2>1, <1>3, <1>6
    <3> QED BY <3>1, <1>6
  <2> QED BY <2>1, <1>2
<1> QED BY <1>9, <1>11, <1>12, <1>13, <1>14 DEF Aligned

\* Only fill touches the text.
LEMMA AlignedStays ==
  ASSUME Aligned, UNCHANGED <<setup, rest, buffer, eof>>
  PROVE  Aligned' /\ Start' = Start
BY SameFile DEF Aligned, Start

\* The file is before the reader at the start.
LEMMA AlignedInit ==
  ASSUME Init
  PROVE  Aligned /\ ReadOf(0)
<1>1. setup \in Setup /\ rest = File /\ buffer = <<>> /\ position = 0 /\ eof = FALSE
  BY DEF Init, File
<1>2. Len(File) \in Nat /\ Len(buffer) = 0
  BY <1>1, FileFacts
<1>3. Start = 0
  <2>1. Len(rest) = Len(File)
    BY <1>1, Zenon
  <2> QED BY <1>2, <2>1 DEF Start
<1>4. Aligned
  BY <1>1, <1>2, <1>3 DEF Aligned
<1>5. Here = Border[0] /\ Len(Solids[0]) = 0 /\ 0 \in 0 .. Len(setup.tokens)
  <2>1. setup.tokens \in Seq(Token)
    BY <1>1, FileFacts
  <2> QED BY <2>1, <1>1, <1>3, FileFacts, SolidSteps DEF Here
<1> QED BY <1>4, <1>5 DEF ReadOf

\* skip_whitespace passes blanks, and stops at no other.
LEMMA SkippedFacts ==
  ASSUME Typed
  PROVE  /\ Skipped(position) \in position .. Len(buffer)
         /\ \A i \in position + 1 .. Skipped(position) : buffer[i] = Blank
         /\ Skipped(position) < Len(buffer) => buffer[Skipped(position) + 1] # Blank
<1> DEFINE n == Len(buffer)
           I == {i \in position + 1 .. n : buffer[i] # Blank}
           s == Skipped(position)
<1>1. n \in Nat /\ position \in 0 .. n
  BY TypedReading DEF Reading
<1>2. s = LET next == IF I # {} THEN Min(I) ELSE 0 IN IF next = 0 THEN n ELSE next - 1
  BY Zenon DEF Skipped, SelectInSubSeq, Blank
<1>3. I \in SUBSET Nat
  BY <1>1
<1>4. CASE I = {}
  <2>1. s = n
    BY <1>2, <1>4
  <2>2. \A i \in position + 1 .. n : buffer[i] = Blank
    BY <1>4
  <2> HIDE DEF s
  <2> QED BY <2>1, <2>2, <1>1 DEF s
<1>5. CASE I # {}
  <2> DEFINE m == Min(I)
  <2>1. m \in I /\ \A i \in I : m <= i
    <3> HIDE DEF I
    <3> QED BY <1>3, <1>5, FirstAmong
  <2>2. m \in position + 1 .. n /\ buffer[m] # Blank
    BY <2>1
  <2>3. s = m - 1
    <3> HIDE DEF m
    <3>1. m # 0
      BY <2>2, <1>1
    <3> QED BY <1>2, <1>5, <3>1 DEF m
  <2> HIDE DEF s, m
  <2>4. \A i \in position + 1 .. s : i \notin I /\ i \in position + 1 .. n
    BY <1>1, <2>1, <2>2, <2>3
  <2>5. s \in position .. n /\ s + 1 = m
    BY <1>1, <2>2, <2>3
  <2> QED BY <2>2, <2>4, <2>5 DEF s
<1> QED BY <1>4, <1>5

\* While only blanks are passed, one token is passed for each of them.
LEMMA BlanksPassed ==
  ASSUME Typed, Aligned, NEW t \in 0 .. Len(setup.tokens), Here = Border[t]
  PROVE  \E u \in t .. Len(setup.tokens) :
           Border[u] = Start + Skipped(position) /\ Solids[u] = Solids[t]
<1> DEFINE T == setup.tokens
           N == Len(T)
           s == Skipped(position)
           k == s - position
           Good == {i \in 0 .. k : t + i \in 0 .. N /\ Border[t + i] = Here + i /\ Solids[t + i] = Solids[t]}
<1>1. /\ Len(buffer) \in Nat /\ position \in 0 .. Len(buffer) /\ Len(rest) \in Nat
      /\ Start \in Nat /\ Len(File) \in Nat /\ setup \in Setup
  BY TypedReading, FileFacts DEF Reading, Typed, Aligned
<1>2. N \in Nat /\ T \in Seq(Token)
  BY <1>1, FileFacts
<1>3. s \in position .. Len(buffer) /\ \A i \in position + 1 .. s : buffer[i] = Blank
  BY SkippedFacts
<1>4. Len(File) = Start + Len(buffer) + Len(rest)
  BY <1>1 DEF Start
<1> HIDE DEF T, N, s
<1>5. k \in Nat /\ Here = Start + position /\ Here \in Nat
  BY <1>1, <1>3 DEF Here
<1>6. 0 \in Good
  <2>1. t + 0 = t /\ Here + 0 = Here /\ t \in 0 .. N /\ 0 \in 0 .. k
    BY <1>2, <1>5 DEF N, T
  <2> HIDE DEF k
  <2>2. t + 0 \in 0 .. N /\ Border[t + 0] = Here + 0 /\ Solids[t + 0] = Solids[t]
    BY <2>1, Zenon
  <2> QED BY <2>1, <2>2, Zenon
<1>7. ASSUME NEW i \in 1 .. k, i - 1 \in Good PROVE i \in Good
  <2> DEFINE u == t + (i - 1)
  <2>1. u \in 0 .. N /\ Border[u] = Here + (i - 1) /\ Solids[u] = Solids[t]
    BY <1>7
  <2>2. position + i \in position + 1 .. s /\ position + i \in 1 .. Len(buffer)
    BY <1>1, <1>3
  <2>3. File[Here + i] = Blank /\ Here + i <= Len(File)
    <3>1. buffer[position + i] = Blank /\ buffer[position + i] = File[Start + (position + i)]
      BY <2>2, <1>3 DEF Aligned
    <3>2. Start + (position + i) = Here + i
      BY <1>1, <1>5
    <3>3. Here + i <= Len(File)
      BY <1>1, <1>4, <1>5, <2>2
    <3> QED BY <3>1, <3>2, <3>3
  <2> HIDE DEF u
  <2>4. u < N
    <3>1. Border[N] = Len(File)
      BY <1>1, FileFacts DEF N, T
    <3>2. Border[u] # Border[N]
      BY <2>1, <2>3, <3>1, <1>1, <1>5
    <3> QED BY <2>1, <3>2, <1>2
  <2> DEFINE v == u + 1
  <2>5. v \in 1 .. N /\ v - 1 = u /\ v = t + i
    BY <2>1, <2>4, <1>2 DEF u
  <2> HIDE DEF v
  <2>6. /\ Border[v] = Border[u] + Len(Spelling(T[v]))
        /\ \A j \in 1 .. Len(Spelling(T[v])) : File[Border[u] + j] = Spelling(T[v])[j]
    BY <2>5, <1>1, FileFacts DEF N, T
  <2>7. T[v] \in Token
    BY <2>5, <1>2 DEF N
  <2>8. Len(Spelling(T[v])) \in {1, 2, 3}
    BY <2>7, SpellingFacts
  <2>9. Spelling(T[v])[1] = Blank
    <3>1. 1 \in 1 .. Len(Spelling(T[v])) /\ Border[u] + 1 = Here + i
      <4>1. Here + (i - 1) + 1 = Here + i /\ Here + (i - 1) + 1 = Border[u] + 1
        BY <1>5, <2>1
      <4>2. \A n \in {1, 2, 3} : 1 \in 1 .. n
        OBVIOUS
      <4> QED BY <4>1, <4>2, <2>8, Zenon
    <3> QED BY <2>3, <2>6, <3>1
  <2>10. T[v] = Blank /\ Len(Spelling(T[v])) = 1
    <3>1. Blank \in Symbols /\ Blank \notin CaseId /\ Blank # "cut"
      BY SymbolsDiffer
    <3>2. T[v] = Blank
      BY <2>7, <2>9, <3>1, FirstCharacter
    <3> QED BY <2>7, <3>1, <3>2, SpellingFacts
  <2>11. Solids[v] = Solids[u]
    BY <2>5, <2>10, <1>1, SolidSteps DEF N, T
  <2>12. Border[v] = Here + i /\ v \in 0 .. N
    BY <2>1, <2>5, <2>6, <2>10, <1>5
  <2> QED BY <2>1, <2>5, <2>11, <2>12, <1>7
<1>8. \A i \in 0 .. k : i \in Good
  <2> HIDE DEF Good, k
  <2> QED BY <1>5, <1>6, <1>7, Stepwise, Zenon
<1>9. k \in Good
  BY <1>5, <1>8
<1>10. t + k \in t .. N /\ Border[t + k] = Start + s /\ Solids[t + k] = Solids[t]
  BY <1>1, <1>2, <1>3, <1>5, <1>9
<1> QED BY <1>10 DEF N, T, s

----------------------------------------------------------------------------
(* What the reader sees of a token *)

\* Where a token begins its spelling is in hand, as far as the text in hand goes.
LEMMA AtToken ==
  ASSUME Typed, Aligned, NEW t \in 0 .. Len(setup.tokens), NEW p \in 0 .. Len(buffer),
         Border[t] = Start + p
  PROVE  /\ p < Len(buffer) => t < Len(setup.tokens)
         /\ p = Len(buffer) /\ eof => t = Len(setup.tokens)
         /\ t < Len(setup.tokens) =>
              /\ t + 1 \in 1 .. Len(setup.tokens)
              /\ setup.tokens[t + 1] \in Token
              /\ Border[t + 1] = Start + p + Len(Spelling(setup.tokens[t + 1]))
              /\ eof => p + Len(Spelling(setup.tokens[t + 1])) <= Len(buffer)
              /\ \A j \in 1 .. Len(Spelling(setup.tokens[t + 1])) :
                   p + j <= Len(buffer) => At(p + j - 1) = Spelling(setup.tokens[t + 1])[j]
<1> DEFINE T == setup.tokens
           N == Len(T)
<1>1. /\ Len(buffer) \in Nat /\ Len(rest) \in Nat /\ Start \in Nat /\ Len(File) \in Nat
      /\ setup \in Setup /\ rest \in Seq(Character)
  BY TypedReading, FileFacts DEF Reading, Typed, Aligned
<1>2. N \in Nat /\ T \in Seq(Token) /\ \A i \in 1 .. N : T[i] \in Token
  BY <1>1, FileFacts
<1>3. Len(File) = Start + Len(buffer) + Len(rest)
  BY <1>1 DEF Start
<1>4. eof => Len(rest) = 0
  BY <1>1 DEF Aligned
<1> HIDE DEF T, N
<1>5. /\ Border[N] = Len(File) /\ \A i \in 0 .. N : Border[i] \in Nat
      /\ \A i \in 1 .. N : Border[i] = Border[i - 1] + Len(Spelling(T[i]))
      /\ \A i \in 0 .. N : \A h \in 0 .. i : Border[h] <= Border[i]
      /\ \A i \in 1 .. N : \A j \in 1 .. Len(Spelling(T[i])) :
           File[Border[i - 1] + j] = Spelling(T[i])[j]
  BY <1>1, FileFacts DEF N, T
<1>6. t \in 0 .. N
  BY DEF N, T
<1>7. ASSUME t < N
      PROVE  /\ t + 1 \in 1 .. N /\ T[t + 1] \in Token
             /\ Border[t + 1] = Start + p + Len(Spelling(T[t + 1]))
             /\ Len(Spelling(T[t + 1])) \in 1 .. 3
             /\ Border[t + 1] <= Len(File)
             /\ \A j \in 1 .. Len(Spelling(T[t + 1])) :
                  p + j <= Len(buffer) => At(p + j - 1) = Spelling(T[t + 1])[j]
  <2> DEFINE u == t + 1
             S == Spelling(T[u])
  <2>1. u \in 1 .. N /\ u - 1 = t /\ T[u] \in Token /\ u \in 0 .. N /\ N \in 0 .. N
    BY <1>2, <1>6, <1>7
  <2> HIDE DEF u
  <2>2. Len(S) \in 1 .. 3
    BY <2>1, SpellingFacts
  <2>3. Border[u] = Start + p + Len(S)
    BY <2>1, <1>5
  <2>4. Border[u] <= Len(File)
    BY <2>1, <1>5
  <2>5. ASSUME NEW j \in 1 .. Len(S), p + j <= Len(buffer) PROVE At(p + j - 1) = S[j]
    <3>1. File[Start + p + j] = S[j]
      <4>1. File[Border[u - 1] + j] = S[j]
        BY <2>1, <1>5
      <4> QED BY <4>1, <2>1
    <3> HIDE DEF S
    <3>2. p + j \in 1 .. Len(buffer) /\ Start + (p + j) = Start + p + j /\ p + j - 1 < Len(buffer)
          /\ p + j - 1 + 1 = p + j
      BY <2>2, <2>5, <1>1
    <3>3. buffer[p + j] = File[Start + (p + j)]
      BY <3>2 DEF Aligned
    <3>4. At(p + j - 1) = buffer[p + j]
      BY <3>2 DEF At
    <3> QED BY <3>1, <3>2, <3>3, <3>4
  <2> QED BY <2>1, <2>2, <2>3, <2>4, <2>5 DEF u
<1>8. ASSUME p < Len(buffer) PROVE t < N
  <2>1. Border[t] # Border[N]
    BY <1>1, <1>3, <1>5, <1>8
  <2> QED BY <2>1, <1>2, <1>6
<1>9. ASSUME p = Len(buffer), eof PROVE t = N
  <2>1. ~(t < N)
    <3> SUFFICES ASSUME t < N PROVE FALSE
      OBVIOUS
    <3>1. /\ Border[t + 1] = Start + p + Len(Spelling(T[t + 1]))
          /\ Len(Spelling(T[t + 1])) \in 1 .. 3 /\ Border[t + 1] <= Len(File)
      BY <1>7
    <3>2. Len(File) = Start + p
      BY <1>1, <1>3, <1>4, <1>9
    <3>3. p \in Nat /\ \A x \in 1 .. 3 : ~(Start + p + x <= Start + p)
      BY <1>1
    <3> QED BY <3>1, <3>2, <3>3, Zenon
  <2> QED BY <2>1, <1>2, <1>6
<1>10. ASSUME t < N, eof PROVE p + Len(Spelling(T[t + 1])) <= Len(buffer)
  BY <1>1, <1>3, <1>4, <1>7, <1>10
<1> QED BY <1>7, <1>8, <1>9, <1>10 DEF N, T

\* A text in which the reader passes the blanks: the token that follows, if any.
LEMMA AheadToken ==
  ASSUME Typed, Aligned, NEW n, ReadOf(n)
  PROVE  /\ n \in Nat /\ n <= Len(Solid) /\ Len(Solid) \in Nat
         /\ \E u \in 0 .. Len(setup.tokens) :
              /\ Border[u] = Start + Skipped(position) /\ Len(Solids[u]) = n
              /\ Ahead # None =>
                   /\ u < Len(setup.tokens) /\ setup.tokens[u + 1] # Blank
                   /\ n < Len(Solid) /\ Solid[n + 1] = setup.tokens[u + 1]
                   /\ Solid[n + 1] \in Token /\ Ahead = Spelling(Solid[n + 1])[1]
                   /\ Border[u + 1] = Start + Skipped(position) + Len(Spelling(Solid[n + 1]))
                   /\ Len(Solids[u + 1]) = n + 1
              /\ Ahead = None /\ (Skipped(position) < Len(buffer) \/ eof) =>
                   u = Len(setup.tokens) /\ n = Len(Solid)
<1> DEFINE T == setup.tokens
           N == Len(T)
           p == Skipped(position)
<1>1. setup \in Setup /\ Len(buffer) \in Nat /\ N \in Nat /\ position \in Nat
      /\ buffer \in Seq(Character)
  BY TypedReading, FileFacts DEF Typed, Reading
<1>2. PICK t \in 0 .. N : Here = Border[t] /\ Len(Solids[t]) = n
  BY DEF ReadOf
<1>3. PICK u \in t .. N : Border[u] = Start + p /\ Solids[u] = Solids[t]
  BY <1>2, BlanksPassed
<1>4. u \in 0 .. N /\ p \in 0 .. Len(buffer) /\ Len(Solids[u]) = n
  BY <1>1, <1>2, <1>3, SkippedFacts
<1>5. /\ Solids[u] \in Seq(Token) /\ Solid \in Seq(Token) /\ Len(Solids[u]) <= Len(Solid)
      /\ Solid = Solids[N]
  BY <1>1, <1>4, SolidSteps DEF Solid
<1>6. n \in Nat /\ n <= Len(Solid) /\ Len(Solid) \in Nat
  BY <1>4, <1>5
<1> HIDE DEF T, N, p
<1>7. /\ p < Len(buffer) => u < N
      /\ p = Len(buffer) /\ eof => u = N
      /\ u < N => /\ u + 1 \in 1 .. N /\ T[u + 1] \in Token
                  /\ Border[u + 1] = Start + p + Len(Spelling(T[u + 1]))
                  /\ \A j \in 1 .. Len(Spelling(T[u + 1])) :
                       p + j <= Len(buffer) => At(p + j - 1) = Spelling(T[u + 1])[j]
  BY <1>3, <1>4, AtToken DEF N, T
<1>8. ASSUME Ahead # None
      PROVE  /\ u < N /\ T[u + 1] # Blank /\ n < Len(Solid) /\ Solid[n + 1] = T[u + 1]
             /\ T[u + 1] \in Token /\ Ahead = Spelling(T[u + 1])[1]
             /\ Border[u + 1] = Start + p + Len(Spelling(T[u + 1]))
             /\ Len(Solids[u + 1]) = n + 1
  <2>1. p < Len(buffer)
    BY <1>8 DEF Ahead, At, p
  <2>2. Ahead = buffer[p + 1] /\ Ahead # Blank
    BY <2>1, SkippedFacts DEF Ahead, At, p
  <2>3. u < N /\ u + 1 \in 1 .. N /\ T[u + 1] \in Token
    BY <2>1, <1>7
  <2>4. Ahead = Spelling(T[u + 1])[1]
    <3>1. 1 \in 1 .. Len(Spelling(T[u + 1]))
      BY <2>3, SpellingFacts
    <3>2. p + 1 <= Len(buffer) /\ p + 1 - 1 = p
      BY <2>1, <1>1, <1>4
    <3>3. At(p + 1 - 1) = Spelling(T[u + 1])[1]
      BY <2>3, <3>1, <3>2, <1>7
    <3>4. Ahead = At(p)
      BY DEF Ahead, p
    <3> QED BY <3>2, <3>3, <3>4
  <2>5. T[u + 1] # Blank
    <3>1. Blank \in Symbols
      BY SymbolsDiffer
    <3> QED BY <2>2, <2>3, <2>4, <3>1, FirstCharacter
  <2> DEFINE v == u + 1
  <2>6. v \in 1 .. N /\ v - 1 = u /\ T[v] # Blank
    BY <2>3, <2>5, <1>4
  <2>7. /\ Len(Solids[v]) = Len(Solids[v - 1]) + 1
        /\ Len(Solids[v - 1]) < Len(Solid)
        /\ Solid[Len(Solids[v - 1]) + 1] = T[v]
    <3> HIDE DEF v
    <3> QED BY <2>6, <1>1, SolidSteps DEF N, T
  <2> QED BY <2>3, <2>4, <2>5, <2>6, <2>7, <1>4, <1>7
<1>9. ASSUME Ahead = None, p < Len(buffer) \/ eof PROVE u = N /\ n = Len(Solid)
  <2>1. ~(p < Len(buffer))
    <3> SUFFICES ASSUME p < Len(buffer) PROVE FALSE
      OBVIOUS
    <3>1. Ahead = buffer[p + 1] /\ buffer[p + 1] \in Character
      BY <1>1, <1>4 DEF Ahead, At, p
    <3> QED BY <3>1, <1>9, NoneAssumption
  <2>2. u = N
    BY <2>1, <1>4, <1>7, <1>9, <1>1
  <2> QED BY <2>2, <1>4, <1>5
<1> QED BY <1>3, <1>4, <1>6, <1>8, <1>9 DEF N, T, p

\* Where blanks alone are consumed no token is read; the next is not the end of
\* the array if that is not ahead.
LEMMA LeaveReads ==
  ASSUME Typed, Aligned, NEW n, ReadOf(n), NEW step, Leave(step), UNCHANGED <<setup, rest, buffer, eof>>
  PROVE  /\ Aligned' /\ ReadOf(n)'
         /\ Ahead # "]" /\ (Skipped(position) < Len(buffer) \/ eof) => Facing(n)'
<1> DEFINE T == setup.tokens
           N == Len(T)
<1>1. /\ Aligned' /\ Start' = Start /\ Border' = Border /\ Solids' = Solids
      /\ setup' = setup /\ position' = Skipped(position)
  BY AlignedStays, SameFile DEF Leave
<1>2. PICK u \in 0 .. N :
        /\ Border[u] = Start + Skipped(position) /\ Len(Solids[u]) = n
        /\ Ahead # None =>
             /\ u < N /\ T[u + 1] # Blank /\ Solid[n + 1] = T[u + 1]
             /\ Solid[n + 1] \in Token /\ Ahead = Spelling(Solid[n + 1])[1]
        /\ Ahead = None /\ (Skipped(position) < Len(buffer) \/ eof) => u = N
  BY AheadToken
<1>3. Here' = Border[u]
  BY <1>1, <1>2 DEF Here
<1> HIDE DEF T, N
<1>4. ASSUME Ahead # "]", Skipped(position) < Len(buffer) \/ eof
      PROVE  u < N => T[u + 1] \notin {Blank, "]"}
  <2> SUFFICES ASSUME u < N PROVE T[u + 1] \notin {Blank, "]"}
    OBVIOUS
  <2>1. u # N
    BY DEF N, T
  <2>2. /\ T[u + 1] # Blank /\ T[u + 1] \in Token /\ Ahead = Spelling(T[u + 1])[1]
    BY <2>1, <1>2, <1>4
  <2>3. "]" \in Symbols
    BY SymbolsDiffer
  <2>4. T[u + 1] # "]"
    BY <2>2, <2>3, <1>4, FirstCharacter
  <2> QED BY <2>2, <2>4
<1>5. ReadOf(n)'
  <2>1. \E t \in 0 .. Len(setup.tokens) : Here' = Border[t] /\ Len(Solids[t]) = n
    BY <1>2, <1>3 DEF N, T
  <2> QED BY <2>1, <1>1 DEF ReadOf
<1>6. ASSUME Ahead # "]", Skipped(position) < Len(buffer) \/ eof PROVE Facing(n)'
  <2>1. \E t \in 0 .. Len(setup.tokens) :
          /\ Here' = Border[t] /\ Len(Solids[t]) = n
          /\ t < Len(setup.tokens) => setup.tokens[t + 1] \notin {Blank, "]"}
    BY <1>2, <1>3, <1>4, <1>6 DEF N, T
  <2> QED BY <2>1, <1>1 DEF Facing
<1> QED BY <1>1, <1>5, <1>6

\* A bracket or comma that is consumed is the next solid token.
LEMMA TakeReads ==
  ASSUME Typed, Aligned, NEW n, ReadOf(n), NEW step, Take(step), Ahead \in {"[", "]", Comma},
         UNCHANGED <<setup, rest, buffer, eof>>
  PROVE  /\ Aligned' /\ n \in Nat /\ n < Len(Solid) /\ Solid[n + 1] = Ahead /\ ReadOf(n + 1)'
<1> DEFINE T == setup.tokens
           N == Len(T)
<1>1. /\ Aligned' /\ Start' = Start /\ Border' = Border /\ Solids' = Solids
      /\ setup' = setup /\ position' = Skipped(position) + 1
  BY AlignedStays, SameFile DEF Take
<1>2. Ahead \in Symbols /\ Ahead \in Character /\ Ahead # None /\ Ahead \notin CaseId \cup {"cut"}
  BY SymbolsDiffer, NoneAssumption
<1>3. n \in Nat
  BY AheadToken
<1>4. PICK u \in 0 .. N :
        /\ u < N /\ n < Len(Solid)
        /\ Solid[n + 1] \in Token /\ Ahead = Spelling(Solid[n + 1])[1]
        /\ Border[u + 1] = Start + Skipped(position) + Len(Spelling(Solid[n + 1]))
        /\ Len(Solids[u + 1]) = n + 1
  BY <1>2, AheadToken
<1>5. Solid[n + 1] = Ahead
  BY <1>2, <1>4, FirstCharacter
<1>6. Len(Spelling(Solid[n + 1])) = 1
  BY <1>2, <1>4, <1>5, SpellingFacts
<1>7. Skipped(position) \in Nat /\ Start \in Nat /\ N \in Nat
  BY TypedReading, SkippedFacts, FileFacts DEF Typed, Reading, Aligned
<1>8. Here' = Border[u + 1]
  BY <1>1, <1>4, <1>6, <1>7 DEF Here
<1>9. u + 1 \in 0 .. N
  BY <1>4, <1>7
<1>10. ReadOf(n + 1)'
  <2>1. \E t \in 0 .. Len(setup.tokens) : Here' = Border[t] /\ Len(Solids[t]) = n + 1
    BY <1>4, <1>8, <1>9
  <2> QED BY <2>1, <1>1 DEF ReadOf
<1> QED BY <1>1, <1>3, <1>4, <1>5, <1>10

\* Reading on, where all in hand is blank, reads no token.
LEMMA SkipReads ==
  ASSUME Typed, Aligned, NEW n, ReadOf(n), SkipOn
  PROVE  Aligned' /\ ReadOf(n)'
<1>1. Skipped(position) = Len(buffer) /\ Fill(Len(buffer)) /\ setup' = setup
  BY DEF SkipOn
<1>2. Len(buffer) \in 0 .. Len(buffer) /\ Start \in Nat
  BY TypedReading DEF Aligned
<1>3. Aligned' /\ Start' = Start + Len(buffer) /\ position' = 0
  BY <1>1, <1>2, AlignedFill DEF Fill
<1>4. PICK u \in 0 .. Len(setup.tokens) :
        Border[u] = Start + Skipped(position) /\ Len(Solids[u]) = n
  BY AheadToken
<1>5. Here' = Border[u]
  BY <1>1, <1>2, <1>3, <1>4 DEF Here
<1>6. Border' = Border /\ Solids' = Solids
  BY <1>1, SameFile
<1>7. \E t \in 0 .. Len(setup.tokens) : Here' = Border[t] /\ Len(Solids[t]) = n
  BY <1>4, <1>5
<1> QED BY <1>1, <1>3, <1>6, <1>7 DEF ReadOf

\* Reading on before a value moves nothing.
LEMMA FillFaces ==
  ASSUME Typed, Aligned, NEW n, Facing(n), Fill(position), UNCHANGED setup
  PROVE  Aligned' /\ Facing(n)'
<1>1. position \in 0 .. Len(buffer) /\ Start \in Nat /\ Len(buffer) \in Nat
  BY TypedReading DEF Aligned, Reading
<1>2. Aligned' /\ Start' = Start + position /\ position' = 0
  BY <1>1, AlignedFill DEF Fill
<1>3. Here' = Here
  BY <1>1, <1>2 DEF Here
<1>4. Border' = Border /\ Solids' = Solids
  BY SameFile
<1> QED BY <1>2, <1>3, <1>4 DEF Facing

\* An item by the names of its characters.
LEMMA ItemByName ==
  ASSUME NEW k
  PROVE  IsItem(k) <=> At(k) = Brace /\ At(k + 1) \in CaseId /\ At(k + 2) = Closing
BY Zenon DEF IsItem, Brace, Closing

\* raw_decode finds the value that is the next solid token, and finds none in
\* the whole rest of the file only if there is none.
LEMMA DecodeReads ==
  ASSUME Typed, Aligned, NEW n, Facing(n)
  PROVE  /\ n \in Nat /\ Len(Solid) \in Nat /\ n <= Len(Solid) /\ ReadOf(n)
         /\ IsItem(position) =>
              /\ n < Len(Solid) /\ Solid[n + 1] = At(position + 1) /\ Solid[n + 1] \in CaseId
              /\ \E t \in 0 .. Len(setup.tokens) :
                   Border[t] = Start + position + 3 /\ Len(Solids[t]) = n + 1
         /\ IsNumber(position) => n < Len(Solid) /\ Solid[n + 1] = "7"
         /\ ~IsItem(position) /\ ~IsNumber(position) /\ eof =>
              n = Len(Solid) \/ Solid[n + 1] \notin CaseId \cup {"7", "]"}
<1> DEFINE T == setup.tokens
           N == Len(T)
           p == position
<1>1. /\ setup \in Setup /\ Len(buffer) \in Nat /\ N \in Nat /\ p \in 0 .. Len(buffer)
      /\ buffer \in Seq(Character) /\ Start \in Nat
  BY TypedReading, FileFacts DEF Typed, Reading, Aligned
<1>2. PICK t \in 0 .. N :
        /\ Here = Border[t] /\ Len(Solids[t]) = n
        /\ t < N => T[t + 1] \notin {Blank, "]"}
  BY DEF Facing
<1>3. Border[t] = Start + p
  BY <1>2 DEF Here
<1>4. /\ Solids[t] \in Seq(Token) /\ Solid \in Seq(Token) /\ Len(Solids[t]) <= Len(Solid)
      /\ Solid = Solids[N]
  BY <1>1, <1>2, SolidSteps DEF Solid
<1>5. n \in Nat /\ n <= Len(Solid) /\ Len(Solid) \in Nat
  BY <1>2, <1>4
<1>6. ReadOf(n)
  BY <1>2 DEF ReadOf
<1> HIDE DEF T, N, p
<1>7. /\ p < Len(buffer) => t < N
      /\ p = Len(buffer) /\ eof => t = N
      /\ t < N =>
           /\ t + 1 \in 1 .. N /\ T[t + 1] \in Token
           /\ Border[t + 1] = Start + p + Len(Spelling(T[t + 1]))
           /\ eof => p + Len(Spelling(T[t + 1])) <= Len(buffer)
           /\ \A j \in 1 .. Len(Spelling(T[t + 1])) :
                p + j <= Len(buffer) => At(p + j - 1) = Spelling(T[t + 1])[j]
  BY <1>1, <1>2, <1>3, AtToken DEF N, T
<1>8. ASSUME t < N
      PROVE  /\ n < Len(Solid) /\ Solid[n + 1] = T[t + 1] /\ Len(Solids[t + 1]) = n + 1
             /\ T[t + 1] \in Token /\ T[t + 1] # "]"
             /\ p < Len(buffer) => At(p) = Spelling(T[t + 1])[1]
  <2> DEFINE v == t + 1
  <2>1. v \in 1 .. N /\ v - 1 = t /\ T[v] # Blank /\ T[v] # "]" /\ T[v] \in Token
    BY <1>2, <1>7, <1>8
  <2>2. /\ Len(Solids[v]) = Len(Solids[v - 1]) + 1
        /\ Len(Solids[v - 1]) < Len(Solid)
        /\ Solid[Len(Solids[v - 1]) + 1] = T[v]
    <3> HIDE DEF v
    <3> QED BY <2>1, <1>1, SolidSteps DEF N, T
  <2>3. ASSUME p < Len(buffer) PROVE At(p) = Spelling(T[t + 1])[1]
    <3>1. 1 \in 1 .. Len(Spelling(T[t + 1]))
      BY <2>1, SpellingFacts
    <3>2. p + 1 <= Len(buffer) /\ p + 1 - 1 = p
      BY <2>3, <1>1
    <3>3. At(p + 1 - 1) = Spelling(T[t + 1])[1]
      BY <1>8, <3>1, <3>2, <1>7
    <3> QED BY <3>2, <3>3
  <2> QED BY <2>1, <2>2, <2>3, <1>2
<1>9. \A k \in Nat : At(k) \in Character => k < Len(buffer)
  BY NoneAssumption DEF At
<1>10. {Brace, Closing, "7"} \subseteq Character /\ CaseId \subseteq Character
  BY SymbolsDiffer
<1>11. p \in Nat
  BY <1>1
<1>12. ASSUME IsItem(p)
       PROVE  /\ n < Len(Solid) /\ Solid[n + 1] = At(p + 1) /\ Solid[n + 1] \in CaseId
              /\ t + 1 \in 0 .. N /\ Border[t + 1] = Start + p + 3 /\ Len(Solids[t + 1]) = n + 1
  <2>1. At(p) = Brace /\ At(p + 1) \in CaseId /\ At(p + 2) = Closing
    BY <1>12, ItemByName
  <2>2. p < Len(buffer) /\ p + 1 < Len(buffer) /\ p + 2 < Len(buffer)
    BY <2>1, <1>9, <1>10, <1>11
  <2>3. t < N /\ T[t + 1] \in Token /\ Spelling(T[t + 1])[1] = Brace
    BY <2>1, <2>2, <1>7, <1>8
  <2>4. T[t + 1] \in CaseId \cup {"cut"}
    BY <2>3, FirstCharacter
  <2>5. T[t + 1] # "cut"
    <3> SUFFICES ASSUME T[t + 1] = "cut" PROVE FALSE
      OBVIOUS
    <3>1. Len(Spelling(T[t + 1])) = 2
      BY <2>3, SymbolsDiffer, SpellingFacts
    <3> DEFINE v == t + 1
               q == p + 2
    <3>2. v \in 0 .. N /\ q \in 0 .. Len(buffer) /\ q < Len(buffer) /\ Border[v] = Start + q
      <4>1. q \in 0 .. Len(buffer) /\ q < Len(buffer) /\ Start + p + 2 = Start + q
        BY <2>2, <1>1
      <4>2. v \in 0 .. N
        BY <2>3, <1>7
      <4>3. Border[v] = Start + p + Len(Spelling(T[v]))
        BY <2>3, <1>7
      <4>4. Border[v] = Start + p + 2
        <5> HIDE DEF q
        <5> QED BY <3>1, <4>3
      <4> HIDE DEF v, q
      <4> QED BY <4>1, <4>2, <4>4
    <3> HIDE DEF v, q
    <3>3. /\ v < N /\ T[v + 1] \in Token
          /\ \A j \in 1 .. Len(Spelling(T[v + 1])) :
               q + j <= Len(buffer) => At(q + j - 1) = Spelling(T[v + 1])[j]
      BY <3>2, AtToken DEF N, T
    <3>4. 1 \in 1 .. Len(Spelling(T[v + 1]))
      BY <3>3, SpellingFacts
    <3>5. q + 1 <= Len(buffer) /\ q + 1 - 1 = q
      BY <3>2, <1>1
    <3>6. At(q + 1 - 1) = Spelling(T[v + 1])[1]
      BY <3>3, <3>4, <3>5
    <3>7. Spelling(T[v + 1])[1] = Closing
      BY <2>1, <3>5, <3>6 DEF q
    <3> QED BY <3>3, <3>7, FirstCharacter
  <2>6. T[t + 1] \in CaseId
    BY <2>4, <2>5
  <2>7. Len(Spelling(T[t + 1])) = 3 /\ Spelling(T[t + 1])[2] = T[t + 1]
    BY <2>3, <2>6, SpellingFacts
  <2>8. At(p + 2 - 1) = Spelling(T[t + 1])[2]
    <3>1. 2 \in 1 .. Len(Spelling(T[t + 1])) /\ p + 2 <= Len(buffer)
      BY <2>2, <2>7, <1>1
    <3> QED BY <2>3, <3>1, <1>7
  <2>9. p + 2 - 1 = p + 1 /\ t + 1 \in 0 .. N
    BY <1>7, <1>11, <2>3
  <2>10. Border[t + 1] = Start + p + 3
    BY <2>3, <2>7, <1>7
  <2> QED BY <2>3, <2>6, <2>7, <2>8, <2>9, <2>10, <1>8
<1>13. ASSUME IsNumber(p) PROVE n < Len(Solid) /\ Solid[n + 1] = "7"
  <2>1. At(p) = "7"
    BY <1>13 DEF IsNumber
  <2>2. p < Len(buffer)
    BY <2>1, <1>9, <1>10, <1>11
  <2>3. t < N /\ T[t + 1] \in Token /\ Spelling(T[t + 1])[1] = "7"
    BY <2>1, <2>2, <1>7, <1>8
  <2>4. T[t + 1] = "7"
    <3>1. "7" \in Symbols
      BY SymbolsDiffer
    <3> QED BY <2>3, <3>1, FirstCharacter
  <2> QED BY <2>3, <2>4, <1>8
<1>14. ASSUME ~IsItem(p), ~IsNumber(p), eof
       PROVE  n = Len(Solid) \/ Solid[n + 1] \notin CaseId \cup {"7", "]"}
  <2>1. CASE t = N
    BY <2>1, <1>2, <1>4
  <2>2. CASE t < N
    <3>1. /\ T[t + 1] \in Token /\ Solid[n + 1] = T[t + 1] /\ T[t + 1] # "]"
          /\ p + Len(Spelling(T[t + 1])) <= Len(buffer)
      BY <2>2, <1>7, <1>8, <1>14
    <3>2. Len(Spelling(T[t + 1])) \in {1, 2, 3}
      BY <3>1, SpellingFacts
    <3>3. At(p) = Spelling(T[t + 1])[1]
      <4>1. p < Len(buffer)
        <5>1. \A x \in {1, 2, 3} : p + x <= Len(buffer) => p < Len(buffer)
          BY <1>1
        <5> QED BY <3>1, <3>2, <5>1, Zenon
      <4> QED BY <4>1, <2>2, <1>8
    <3>4. T[t + 1] # "7"
      <4>1. "7" \in Symbols
        BY SymbolsDiffer
      <4>2. At(p) # "7"
        BY <1>14 DEF IsNumber
      <4> QED BY <3>1, <3>3, <4>1, <4>2, FirstCharacter
    <3>5. T[t + 1] \notin CaseId
      <4> SUFFICES ASSUME T[t + 1] \in CaseId PROVE IsItem(p)
        BY <1>14
      <4>1. /\ Len(Spelling(T[t + 1])) = 3 /\ Spelling(T[t + 1])[1] = Brace
            /\ Spelling(T[t + 1])[2] = T[t + 1] /\ Spelling(T[t + 1])[3] = Closing
        BY <3>1, SpellingFacts
      <4>2. p + 2 <= Len(buffer) /\ p + 3 <= Len(buffer) /\ p + 2 - 1 = p + 1 /\ p + 3 - 1 = p + 2
            /\ 2 \in 1 .. 3 /\ 3 \in 1 .. 3
        BY <3>1, <4>1, <1>1
      <4>3. At(p + 2 - 1) = Spelling(T[t + 1])[2] /\ At(p + 3 - 1) = Spelling(T[t + 1])[3]
        BY <2>2, <4>1, <4>2, <1>7
      <4> QED BY <3>3, <4>1, <4>2, <4>3, ItemByName
    <3> QED BY <3>1, <3>4, <3>5
  <2> QED BY <2>1, <2>2, <1>1
<1> QED BY <1>5, <1>6, <1>12, <1>13, <1>14 DEF N, T, p

----------------------------------------------------------------------------
(* What the file says as a whole *)

\* A set of places without gaps is counted by its last.
LEMMA DownClosed ==
  ASSUME NEW m \in Nat, NEW S \in SUBSET (1 .. m), \A i \in S : \A j \in 1 .. i : j \in S
  PROVE  S = 1 .. Cardinality(S) /\ Cardinality(S) \in 0 .. m
<1> DEFINE Out == {i \in 1 .. m + 1 : i \notin S}
<1>1. Out \in SUBSET Nat /\ m + 1 \in Out
  OBVIOUS
<1>2. PICK k \in Out : \A i \in Out : k <= i
  <2> HIDE DEF Out
  <2> QED BY <1>1, LeastElement
<1>3. k \in 1 .. m + 1 /\ k \notin S /\ k - 1 \in 0 .. m /\ k - 1 \in Nat
  BY <1>2
<1>4. \A i \in 1 .. k - 1 : i \in S
  BY <1>2, <1>3
<1>5. \A i \in S : i \in 1 .. k - 1
  <2> SUFFICES ASSUME NEW i \in S, ~(i \in 1 .. k - 1) PROVE FALSE
    OBVIOUS
  <2>1. i \in 1 .. m /\ k \in 1 .. i
    BY <1>3
  <2> QED BY <2>1, <1>3
<1>6. S = 1 .. k - 1
  BY <1>4, <1>5
<1>7. Cardinality(1 .. k - 1) = k - 1
  BY <1>3, UpTo
<1> QED BY <1>3, <1>6, <1>7

\* What must be at a place of the file.
Fits(i) ==
  IF i = 1 THEN Solid[i] = "[" ELSE IF i % 2 = 0 THEN IsValue(Solid[i]) ELSE Solid[i] = Comma

\* Sound tokens are sound one by one.
LEMMA SoundSteps ==
  /\ SoundUpTo(0)
  /\ \A m \in Nat : \A n \in 0 .. m : SoundUpTo(m) => SoundUpTo(n)
  /\ \A n \in Nat : SoundUpTo(n + 1) <=> SoundUpTo(n) /\ Fits(n + 1)
<1>1. \A n : SoundUpTo(n) <=> \A i \in 1 .. n : Fits(i)
  BY Zenon DEF SoundUpTo, Fits, Comma
<1>2. \A i \in 1 .. 0 : Fits(i)
  OBVIOUS
<1>3. \A m \in Nat : \A n \in 0 .. m : \A i \in 1 .. n : i \in 1 .. m
  OBVIOUS
<1>4. \A n \in Nat : \A i : i \in 1 .. n + 1 <=> i \in 1 .. n \/ i = n + 1
  OBVIOUS
<1> QED BY <1>1, <1>2, <1>3, <1>4, Zenon

\* The values by place.
LEMMA ValuesFacts ==
  ASSUME setup \in Setup
  PROVE  /\ Values \in Seq(CaseId \cup {"7"}) /\ Len(Solid) \in Nat
         /\ \A j \in Nat \ {0} : j <= Len(Values) <=> 2 * j <= Len(Solid) /\ SoundUpTo(2 * j)
         /\ \A j \in 1 .. Len(Values) : Values[j] = Solid[2 * j]
<1> DEFINE L == Len(Solid)
           D == {i \in DOMAIN Solid : 2 * i <= Len(Solid) /\ SoundUpTo(2 * i)}
           V == Cardinality(D)
<1>1. L \in Nat /\ DOMAIN Solid = 1 .. L
  <2>1. Solid \in Seq(Token)
    BY SolidSteps
  <2> QED BY <2>1
<1>2. Values = [j \in 1 .. V |-> Solid[2 * j]]
  BY DEF Values
<1>3. \A i : i \in D <=> i \in 1 .. L /\ 2 * i <= L /\ SoundUpTo(2 * i)
  BY <1>1
<1> HIDE DEF L, D
<1>4. D \in SUBSET (1 .. L) /\ \A i \in D : \A j \in 1 .. i : j \in D
  <2>1. D \in SUBSET (1 .. L)
    BY <1>3
  <2>2. ASSUME NEW i \in D, NEW j \in 1 .. i PROVE j \in D
    <3>1. i \in 1 .. L /\ 2 * i <= L /\ SoundUpTo(2 * i)
      BY <1>3, <2>2
    <3>2. j \in 1 .. L /\ 2 * j <= L /\ 2 * i \in Nat /\ 2 * j \in 0 .. 2 * i
      BY <3>1, <1>1
    <3>3. SoundUpTo(2 * j)
      BY <3>1, <3>2, SoundSteps
    <3> QED BY <3>2, <3>3, <1>3
  <2> QED BY <2>1, <2>2
<1>5. D = 1 .. V /\ V \in 0 .. L
  BY <1>1, <1>4, DownClosed
<1> HIDE DEF V
<1>6. ASSUME NEW j \in 1 .. V PROVE Solid[2 * j] \in CaseId \cup {"7"}
  <2>0. j \in D
    BY <1>5
  <2>1. SoundUpTo(2 * j) /\ j \in Nat /\ j > 0
    BY <2>0, <1>1, <1>3
  <2>2. 2 * j - 1 \in Nat /\ 2 * j - 1 + 1 = 2 * j /\ 2 * j # 1 /\ (2 * j) % 2 = 0
    BY <2>1
  <2>3. Fits(2 * j)
    BY <2>1, <2>2, SoundSteps
  <2>4. IsValue(Solid[2 * j])
    BY <2>2, <2>3, Zenon DEF Fits
  <2> QED BY <2>4, Zenon DEF IsValue
<1>7. Values \in Seq(CaseId \cup {"7"}) /\ Len(Values) = V /\ \A j \in 1 .. V : Values[j] = Solid[2 * j]
  BY <1>1, <1>2, <1>5, <1>6
<1>8. ASSUME NEW j \in Nat \ {0} PROVE j <= V <=> 2 * j <= L /\ SoundUpTo(2 * j)
  <2>1. j <= V <=> j \in D
    BY <1>1, <1>5
  <2>2. 2 * j <= L => j \in 1 .. L
    BY <1>1
  <2> QED BY <2>1, <2>2, <1>3
<1> QED BY <1>1, <1>7, <1>8 DEF L

\* The cases are the first values, none of them twice, as far as it goes.
LEMMA CasesFacts ==
  ASSUME setup \in Setup
  PROVE  /\ Cases \in Seq(CaseId) /\ Len(Cases) \in Nat /\ Len(Values) \in Nat
         /\ Len(Cases) <= Len(Values)
         /\ \A j \in 1 .. Len(Cases) : Cases[j] = Values[j]
         /\ Len(Cases) = Len(Values) => Cases = Values
         /\ \A c \in 0 .. Len(Cases) : c + 1 <= Len(Values) =>
              (c < Len(Cases) <=>
                 Values[c + 1] \in CaseId /\ Values[c + 1] \notin {Cases[i] : i \in 1 .. c})
<1> DEFINE V == Len(Values)
           Good(n) == Values[n] \in CaseId /\ \A i \in 1 .. n - 1 : Values[i] # Values[n]
           S == {n \in DOMAIN Values : \A j \in 1 .. n : Good(j)}
           G == Cardinality(S)
<1>1. Values \in Seq(CaseId \cup {"7"}) /\ V \in Nat /\ DOMAIN Values = 1 .. V
  <2>1. Values \in Seq(CaseId \cup {"7"})
    BY ValuesFacts
  <2> QED BY <2>1
<1>2. Cases = SubSeq(Values, 1, G)
  BY DEF Cases
<1>3. \A n : n \in S <=> n \in 1 .. V /\ \A j \in 1 .. n : Good(j)
  BY <1>1
<1> HIDE DEF Good, S, V
<1>4. S \in SUBSET (1 .. V) /\ \A i \in S : \A j \in 1 .. i : j \in S
  <2>1. \A n \in 1 .. V : \A m \in 1 .. n : m \in 1 .. V /\ \A j \in 1 .. m : j \in 1 .. n
    BY <1>1
  <2> QED BY <1>3, <2>1
<1>5. S = 1 .. G /\ G \in 0 .. V
  BY <1>1, <1>4, DownClosed
<1> HIDE DEF G
<1>6. /\ Len(Cases) = G /\ \A j \in 1 .. G : Cases[j] = Values[j]
      /\ Cases \in Seq(CaseId \cup {"7"})
      /\ G = V => Cases = Values
  <2>1. \A S1 : \A v \in Seq(S1) : \A g \in 0 .. Len(v) :
          /\ SubSeq(v, 1, g) \in Seq(S1) /\ Len(SubSeq(v, 1, g)) = g
          /\ \A j \in 1 .. g : SubSeq(v, 1, g)[j] = v[j]
          /\ g = Len(v) => SubSeq(v, 1, g) = v
    OBVIOUS
  <2> QED BY <2>1, <1>1, <1>2, <1>5, Zenon DEF V
<1>7. \A j \in 1 .. G : Cases[j] \in CaseId
  <2>1. \A j \in 1 .. G : j \in S /\ j \in 1 .. j
    BY <1>1, <1>5
  <2>2. \A j \in 1 .. G : Good(j)
    BY <2>1, <1>3
  <2> QED BY <2>2, <1>6 DEF Good
<1>8. Cases \in Seq(CaseId)
  BY <1>6, <1>7
<1>9. ASSUME NEW c \in 0 .. G, c + 1 <= V
      PROVE  c < G <=> Values[c + 1] \in CaseId /\ Values[c + 1] \notin {Cases[i] : i \in 1 .. c}
  <2>1. c \in Nat /\ c + 1 \in 1 .. V /\ c + 1 - 1 = c /\ \A i \in 1 .. c : i \in 1 .. G
    BY <1>1, <1>5, <1>9
  <2>2. Good(c + 1) <=> Values[c + 1] \in CaseId /\ Values[c + 1] \notin {Cases[i] : i \in 1 .. c}
    BY <2>1, <1>6 DEF Good
  <2>3. c < G <=> c + 1 \in S
    BY <2>1, <1>1, <1>5
  <2>4. \A j \in 1 .. c : Good(j)
    <3>1. \A j \in 1 .. c : j \in S /\ j \in 1 .. j
      BY <2>1, <1>5
    <3> QED BY <3>1, <1>3
  <2>5. \A j \in 1 .. c + 1 : j \in 1 .. c \/ j = c + 1
    BY <2>1
  <2>6. c + 1 \in 1 .. c + 1
    BY <2>1
  <2>7. c + 1 \in S <=> Good(c + 1)
    BY <2>1, <2>4, <2>5, <2>6, <1>3
  <2> QED BY <2>2, <2>3, <2>7
<1>10. \A c \in 0 .. Len(Cases) : c + 1 <= V =>
         (c < Len(Cases) <=>
            Values[c + 1] \in CaseId /\ Values[c + 1] \notin {Cases[i] : i \in 1 .. c})
  BY <1>6, <1>9, Zenon
<1>11. Len(Cases) \in Nat /\ Len(Cases) <= V /\ \A j \in 1 .. Len(Cases) : Cases[j] = Values[j]
  BY <1>1, <1>5, <1>6
<1>12. Len(Cases) = V => Cases = Values
  BY <1>6
<1> QED BY <1>1, <1>8, <1>10, <1>11, <1>12, Zenon DEF V

\* A case more of a type, or of another.
LEMMA OfTypeAdds ==
  ASSUME NEW list \in Seq(CaseId), NEW c \in CaseId, NEW type
  PROVE  /\ OfType(<<>>, type) = 0 /\ OfType(list, type) \in Nat
         /\ OfType(Append(list, c), type) =
              IF TypeOf(c) = type THEN OfType(list, type) + 1 ELSE OfType(list, type)
<1> DEFINE n == Len(list)
           more == Append(list, c)
           A == {i \in DOMAIN list : TypeOf(list[i]) = type}
           B == {i \in DOMAIN more : TypeOf(more[i]) = type}
<1>1. n \in Nat /\ DOMAIN list = 1 .. n /\ DOMAIN more = 1 .. n + 1 /\ more[n + 1] = c
      /\ \A i \in 1 .. n : more[i] = list[i]
  OBVIOUS
<1>2. OfType(<<>>, type) = 0
  <2>1. {i \in DOMAIN <<>> : TypeOf(<<>>[i]) = type} = {}
    OBVIOUS
  <2> QED BY <2>1, FS_EmptySet, Zenon DEF OfType
<1>3. IsFiniteSet(A) /\ Cardinality(A) \in Nat
  <2>1. A \in SUBSET (1 .. n)
    BY <1>1
  <2> HIDE DEF A
  <2> QED BY <2>1, <1>1, UpTo, FS_Subset, FS_CardinalityType
<1>4. n + 1 \notin A
  BY <1>1
<1>5. CASE TypeOf(c) = type
  <2>1. B = A \cup {n + 1}
    BY <1>1, <1>5
  <2> HIDE DEF A, B, n, more
  <2>2. Cardinality(B) = Cardinality(A) + 1
    BY <2>1, <1>3, <1>4, FS_AddElement
  <2> QED BY <2>2, <1>2, <1>3, <1>5 DEF OfType, A, B, more
<1>6. CASE TypeOf(c) # type
  <2>1. B = A
    BY <1>1, <1>6
  <2> HIDE DEF A, B, n, more
  <2> QED BY <2>1, <1>2, <1>3, <1>6 DEF OfType, A, B, more
<1> QED BY <1>5, <1>6

\* A case more that is asked for, or not.
LEMMA AskedAdds ==
  ASSUME setup \in Setup, NEW k \in 1 .. Len(Cases), NEW type
  PROVE  /\ Cardinality(Asked(type, 0)) = 0
         /\ Cardinality(Asked(type, k - 1)) \in Nat
         /\ Cardinality(Asked(type, k)) =
              IF Cases[k] \in setup.options.wanted /\ TypeOf(Cases[k]) = type
              THEN Cardinality(Asked(type, k - 1)) + 1 ELSE Cardinality(Asked(type, k - 1))
<1>1. k \in Nat /\ k - 1 \in Nat /\ k > 0
  BY CasesFacts
<1> DEFINE A == Asked(type, k - 1)
           B == Asked(type, k)
<1>2. Asked(type, 0) = {}
  BY DEF Asked
<1>3. /\ A \in SUBSET (1 .. k - 1) /\ k \notin A
      /\ B = IF Cases[k] \in setup.options.wanted /\ TypeOf(Cases[k]) = type THEN A \cup {k} ELSE A
  BY <1>1 DEF Asked
<1> HIDE DEF A, B
<1>4. IsFiniteSet(A) /\ Cardinality(A) \in Nat
  BY <1>1, <1>3, UpTo, FS_Subset, FS_CardinalityType
<1>5. Cardinality(A \cup {k}) = Cardinality(A) + 1
  BY <1>3, <1>4, FS_AddElement
<1>6. Cardinality(Asked(type, 0)) = 0
  BY <1>2, FS_EmptySet
<1> QED BY <1>3, <1>4, <1>5, <1>6 DEF A, B

\* Values are at the even places, commas at the odd ones behind the first.
LEMMA SoundAt ==
  /\ Fits(1) <=> Solid[1] = "["
  /\ \A c \in Nat : Fits(2 * c + 2) <=> Solid[2 * c + 2] \in CaseId \cup {"7"}
  /\ \A c \in Nat \ {0} : Fits(2 * c + 1) <=> Solid[2 * c + 1] = Comma
  /\ \A n : Fits(n) => Solid[n] # "]"
<1>1. \A token : IsValue(token) <=> token \in CaseId \cup {"7"}
  BY Zenon DEF IsValue
<1>2. Fits(1) <=> Solid[1] = "["
  BY DEF Fits
<1>3. ASSUME NEW c \in Nat PROVE Fits(2 * c + 2) <=> Solid[2 * c + 2] \in CaseId \cup {"7"}
  <2>1. 2 * c + 2 # 1 /\ (2 * c + 2) % 2 = 0
    OBVIOUS
  <2> QED BY <2>1, <1>1, Zenon DEF Fits
<1>4. ASSUME NEW c \in Nat \ {0} PROVE Fits(2 * c + 1) <=> Solid[2 * c + 1] = Comma
  <2>1. 2 * c + 1 # 1 /\ (2 * c + 1) % 2 # 0
    OBVIOUS
  <2> QED BY <2>1, Zenon DEF Fits
<1>5. ASSUME NEW n, Fits(n) PROVE Solid[n] # "]"
  <2>1. Solid[n] = "[" \/ IsValue(Solid[n]) \/ Solid[n] = Comma
    BY <1>5, Zenon DEF Fits
  <2>2. "]" \notin CaseId \cup {"7"} /\ "]" # "[" /\ "]" # Comma
    BY SymbolsDiffer
  <2> QED BY <2>1, <2>2, <1>1
<1> QED BY <1>2, <1>3, <1>4, <1>5

\* Where no value follows there are no cases more, and no values.
LEMMA NoMoreValues ==
  ASSUME setup \in Setup, NEW c \in 0 .. Len(Cases), NEW n \in Nat,
         n <= 2 * c + 1, n <= Len(Solid), n = Len(Solid) \/ ~Fits(n + 1)
  PROVE  c = Len(Cases) /\ Cases = Values
<1>1. Len(Cases) \in Nat /\ Len(Values) \in Nat /\ Len(Cases) <= Len(Values) /\ Len(Solid) \in Nat
  BY CasesFacts, ValuesFacts
<1>2. c \in Nat /\ c + 1 \in Nat \ {0} /\ 2 * (c + 1) = 2 * c + 2
      /\ n + 1 \in 0 .. 2 * c + 2 /\ 2 * c + 2 \in Nat
  BY <1>1
<1>3. ~(c + 1 <= Len(Values))
  <2> SUFFICES ASSUME c + 1 <= Len(Values) PROVE FALSE
    OBVIOUS
  <2>1. 2 * c + 2 <= Len(Solid) /\ SoundUpTo(2 * c + 2)
    BY <1>2, ValuesFacts
  <2>2. SoundUpTo(n + 1)
    BY <2>1, <1>2, SoundSteps
  <2>3. Fits(n + 1)
    BY <2>2, SoundSteps
  <2>4. n # Len(Solid)
    BY <2>1, <1>1, <1>2
  <2> QED BY <2>3, <2>4
<1>4. c = Len(Cases) /\ Len(Cases) = Len(Values)
  BY <1>1, <1>2, <1>3
<1> QED BY <1>4, CasesFacts

\* A file that ends too early, or goes wrong, is not whole.
LEMMA NotWhole ==
  ASSUME setup \in Setup, NEW n \in Nat, n <= Len(Solid), SoundUpTo(n),
         \/ n = Len(Solid)
         \/ /\ ~Fits(n + 1)
            /\ \/ n = 0 \/ n + 1 < Len(Solid) \/ Solid[n + 1] # "]"
               \/ (n + 1) % 2 = 0 /\ n > 1
  PROVE  ~Whole
<1> DEFINE L == Len(Solid)
<1> SUFFICES ASSUME Whole PROVE FALSE
  OBVIOUS
<1>1. L \in Nat
  BY ValuesFacts
<1>2. L > 1 /\ Solid[L] = "]" /\ SoundUpTo(L - 1) /\ (L = 2 \/ L % 2 = 1)
  BY Zenon DEF Whole
<1> HIDE DEF L
<1>3. CASE n = L
  <2>1. n - 1 \in Nat /\ n - 1 + 1 = n
    BY <1>1, <1>2, <1>3
  <2>2. Fits(n)
    BY <2>1, SoundSteps
  <2> QED BY <2>2, <1>2, <1>3, SoundAt
<1>4. CASE n + 1 <= L - 1 /\ ~Fits(n + 1)
  <2>1. L - 1 \in Nat /\ n + 1 \in 0 .. L - 1
    BY <1>1, <1>4
  <2>2. SoundUpTo(n + 1)
    BY <2>1, <1>2, SoundSteps
  <2> QED BY <2>2, <1>4, SoundSteps
<1>5. CASE n + 1 = L
  <2>1. (n + 1) % 2 = 0 /\ n > 1 => L # 2 /\ L % 2 # 1
    BY <1>5
  <2>2. n # 0 /\ ~(n + 1 < L) /\ Solid[n + 1] = "]" /\ n # L
    BY <1>1, <1>2, <1>5
  <2> QED BY <2>1, <2>2, <1>2 DEF L
<1>6. n = L \/ n + 1 = L \/ n + 1 <= L - 1
  BY <1>1 DEF L
<1> QED BY <1>3, <1>4, <1>5, <1>6 DEF L

----------------------------------------------------------------------------
(* The filters *)

\* Of the first cases, those that pass.
Passed == Picked(Cases, PassingAt)

\* The cases that pass, one by one.
LEMMA PassedFacts ==
  ASSUME setup \in Setup
  PROVE  /\ Passed \in [0 .. Len(Cases) -> Seq(CaseId)] /\ Passed[0] = <<>>
         /\ \A k \in 1 .. Len(Cases) : Passed[k] = Pick(Passed[k - 1], Cases, k, PassingAt)
         /\ Passing = Passed[Len(Cases)] /\ Passing \in Seq(CaseId)
         /\ \A k \in 0 .. Len(Cases) :
              /\ Len(Passed[k]) <= Len(Passing)
              /\ \A i \in 1 .. Len(Passed[k]) : Passing[i] = Passed[k][i]
<1>1. Cases \in Seq(CaseId) /\ Len(Cases) \in Nat
  BY CasesFacts
<1> DEFINE L == Len(Cases)
<1>2. /\ Passed \in [0 .. L -> Seq(CaseId)] /\ Passed[0] = <<>>
      /\ \A k \in 1 .. L : Passed[k] = Pick(Passed[k - 1], Cases, k, PassingAt)
  BY <1>1, PickedSteps DEF Passed
<1>3. Passing = Passed[L]
  BY DEF Passing, Passed
<1>4. L \in 0 .. L
  BY <1>1
<1>5. ASSUME NEW k \in 0 .. L
      PROVE  /\ Len(Passed[k]) <= Len(Passing)
             /\ \A i \in 1 .. Len(Passed[k]) : Passing[i] = Passed[k][i]
  <2>1. k \in 0 .. Len(Cases) /\ L \in k .. Len(Cases) /\ Cases \in Seq(CaseId)
    BY <1>1
  <2> HIDE DEF L
  <2>2. Leads(Picked(Cases, PassingAt)[k], Picked(Cases, PassingAt)[L])
    BY <2>1, PickedGrows, Zenon
  <2> QED BY <2>2, <1>3 DEF Passed, Leads
<1> HIDE DEF L
<1> QED BY <1>2, <1>3, <1>4, <1>5 DEF L

\* The filter by type, which counts what is selected, and the one that counts
\* what is asked for, agree.
LEMMA SameReached ==
  ASSUME setup \in Setup, NEW m \in 0 .. Len(Cases), NEW type
  PROVE  Reached(setup.options.perType, OfType(Passed[m], type))
           <=> Reached(setup.options.perType, Cardinality(Asked(type, m)))
<1> DEFINE most == setup.options.perType
           L == Len(Cases)
           A(k) == Cardinality(Asked(type, k))
           Good == {k \in 0 .. L : OfType(Passed[k], type) = Least(most, A(k)) /\ A(k) \in Nat}
<1>1. CASE most = None
  BY <1>1 DEF Reached
<1>2. CASE most # None
  <2>1. most \in Nat \ {0}
    BY <1>2, SetupAssumption
  <2>2. L \in Nat /\ Cases \in Seq(CaseId) /\ \A k \in 1 .. L : Cases[k] \in CaseId
    BY CasesFacts
  <2>3. /\ Passed \in [0 .. L -> Seq(CaseId)] /\ Passed[0] = <<>>
        /\ \A k \in 1 .. L : Passed[k] = Pick(Passed[k - 1], Cases, k, PassingAt)
    BY PassedFacts
  <2>4. \A k \in 1 .. L : A(k - 1) \in Nat
          /\ A(k) = IF Cases[k] \in setup.options.wanted /\ TypeOf(Cases[k]) = type
                    THEN A(k - 1) + 1 ELSE A(k - 1)
    BY AskedAdds
  <2>5. A(0) = 0
    <3>1. Asked(type, 0) = {}
      BY DEF Asked
    <3> QED BY <3>1, FS_EmptySet
  <2>6. \A k \in 1 .. L : k \in PassingAt <=>
          Cases[k] \in setup.options.wanted
            /\ ~Reached(most, Cardinality(Asked(TypeOf(Cases[k]), k - 1)))
    <3>1. DOMAIN Cases = 1 .. L
      BY <2>2
    <3> QED BY <3>1, Zenon DEF PassingAt
  <2> HIDE DEF A, L, most
  <2>7. 0 \in Good
    <3>1. OfType(<<>>, type) = 0
      <4>1. "a" \in CaseId /\ <<>> \in Seq(CaseId)
        BY DEF CaseId
      <4> QED BY <4>1, OfTypeAdds
    <3> QED BY <2>1, <2>2, <2>3, <2>5, <3>1 DEF Least
  <2>8. ASSUME NEW k \in 1 .. L, k - 1 \in Good PROVE k \in Good
    <3> DEFINE before == Passed[k - 1]
    <3>1. /\ before \in Seq(CaseId) /\ Cases[k] \in CaseId /\ A(k - 1) \in Nat
          /\ OfType(before, type) = Least(most, A(k - 1)) /\ k \in 0 .. L
      BY <2>2, <2>3, <2>8
    <3>2. Passed[k] = IF k \in PassingAt THEN Append(before, Cases[k]) ELSE before
      BY <2>3 DEF Pick
    <3> HIDE DEF before
    <3>3. OfType(Append(before, Cases[k]), type) =
            IF TypeOf(Cases[k]) = type THEN OfType(before, type) + 1 ELSE OfType(before, type)
      BY <3>1, OfTypeAdds
    <3>4. CASE Cases[k] \in setup.options.wanted /\ TypeOf(Cases[k]) = type
      <4>1. A(k) = A(k - 1) + 1
        BY <2>4, <3>4
      <4>2. k \in PassingAt <=> ~(A(k - 1) >= most)
        <5>1. k \in PassingAt <=> ~Reached(most, A(k - 1))
          BY <2>6, <3>4 DEF A
        <5> QED BY <5>1, <1>2 DEF Reached
      <4>3. CASE k \in PassingAt
        <5>1. OfType(Passed[k], type) = OfType(before, type) + 1 /\ ~(A(k - 1) >= most)
          BY <3>2, <3>3, <3>4, <4>2, <4>3
        <5> QED BY <3>1, <4>1, <5>1, <2>1 DEF Least
      <4>4. CASE k \notin PassingAt
        <5>1. OfType(Passed[k], type) = OfType(before, type) /\ A(k - 1) >= most
          BY <3>2, <4>2, <4>4
        <5> QED BY <3>1, <4>1, <5>1, <2>1 DEF Least
      <4> QED BY <4>3, <4>4
    <3>5. CASE ~(Cases[k] \in setup.options.wanted /\ TypeOf(Cases[k]) = type)
      <4>1. A(k) = A(k - 1)
        BY <2>4, <3>5
      <4>2. k \in PassingAt => TypeOf(Cases[k]) # type
        BY <2>6, <3>5
      <4>3. OfType(Passed[k], type) = OfType(before, type)
        BY <3>2, <3>3, <4>2
      <4> QED BY <3>1, <4>1, <4>3
    <3> QED BY <3>4, <3>5
  <2>9. \A k \in 0 .. L : k \in Good
    <3> HIDE DEF Good
    <3> QED BY <2>2, <2>7, <2>8, Stepwise, Zenon
  <2>10. m \in Good
    BY <2>9 DEF L
  <2>11. OfType(Passed[m], type) = Least(most, A(m)) /\ A(m) \in Nat
    BY <2>10
  <2>12. Least(most, A(m)) >= most <=> A(m) >= most
    BY <2>1, <2>11 DEF Least
  <2> QED BY <1>2, <2>11, <2>12 DEF Reached, A, most
<1> QED BY <1>1, <1>2

\* The filters let a case pass as they should, when what is selected is.
LEMMA PassesWhole ==
  ASSUME setup \in Setup, NEW k \in 1 .. Len(Cases), selected = Passed[k - 1]
  PROVE  Passes(Cases[k]) <=> k \in PassingAt
<1>1. k - 1 \in 0 .. Len(Cases) /\ DOMAIN Cases = 1 .. Len(Cases)
  BY CasesFacts
<1> DEFINE type == TypeOf(Cases[k])
<1>2. Reached(setup.options.perType, OfType(selected, type))
        <=> Reached(setup.options.perType, Cardinality(Asked(type, k - 1)))
  BY <1>1, SameReached
<1> QED BY <1>1, <1>2, Zenon DEF Passes, PassingAt

\* A case has nothing to embed when nothing is spoken in it.
LEMMA TextlessPlan ==
  ASSUME setup \in Setup, NEW c \in CaseId
  PROVE  Textless(c) <=> AtOnce /\ Texts(c) = <<>>
<1> DEFINE P == Plan(c)
           N == Len(P)
           T == [p \in 1 .. N |-> P[p].turns]
           O == Ends(T)
<1>1. P \in Seq(Request) /\ N \in Nat /\ DOMAIN P = 1 .. N
  <2>1. P \in Seq(Request)
    BY PlanFacts
  <2> HIDE DEF P
  <2> QED BY <2>1
<1>2. Tidy(T, Spoken(c), Weight(c))
  BY PlanFacts
<1>3. Texts(c) = FlattenSeq(T)
  BY <1>1 DEF Texts
<1>4. /\ T \in Seq(Seq(Pair))
      /\ \A i \in 1 .. Len(T) : Len(T[i]) \in 1 .. MaxMessages
      /\ \A i \in 1 .. Len(T) : \A j \in 1 .. Len(T[i]) : T[i][j] \in Spoken(c)
      /\ \A x \in Spoken(c) : \E i \in 1 .. Len(T) : \E j \in 1 .. Len(T[i]) : T[i][j] = x
  BY <1>2, Zenon DEF Tidy
<1> HIDE DEF T
<1>5. ASSUME Spoken(c) = {} PROVE FlattenSeq(T) = <<>>
  <2>1. ~(1 \in 1 .. Len(T))
    <3> SUFFICES ASSUME 1 \in 1 .. Len(T) PROVE FALSE
      OBVIOUS
    <3>1. Len(T[1]) \in 1 .. MaxMessages
      BY <1>4
    <3>2. 1 \in 1 .. Len(T[1])
      <4>1. \A x \in 1 .. MaxMessages : 1 \in 1 .. x
        BY SizeAssumption
      <4> QED BY <3>1, <4>1
    <3>3. T[1][1] \in Spoken(c)
      BY <3>2, <1>4
    <3> QED BY <3>3, <1>5
  <2>2. T = <<>>
    BY <2>1, <1>4
  <2>3. <<>> \in Seq(Seq(Pair)) /\ <<>> \in Seq(Pair)
    OBVIOUS
  <2> QED BY <2>2, <2>3, FlattenAdds
<1>6. ASSUME FlattenSeq(T) = <<>> PROVE Spoken(c) = {}
  <2> SUFFICES ASSUME NEW x \in Spoken(c) PROVE FALSE
    OBVIOUS
  <2>1. PICK i \in 1 .. Len(T) : \E j \in 1 .. Len(T[i]) : T[i][j] = x
    BY <1>4
  <2>2. Len(T[i]) \in 1 .. MaxMessages
    BY <1>4
  <2>3. /\ Ends(T)[Len(T)] = Len(FlattenSeq(T)) /\ Ends(T) \in [0 .. Len(T) -> Nat]
        /\ Ends(T)[i] = Ends(T)[i - 1] + Len(T[i])
        /\ \A k \in 0 .. Len(T) : \A h \in 0 .. k : Ends(T)[h] <= Ends(T)[k]
    BY <1>4, FlattenPlaces
  <2>4. i \in 0 .. Len(T) /\ i - 1 \in 0 .. Len(T) /\ Len(T) \in 0 .. Len(T) /\ i \in 0 .. Len(T)
    BY <1>4
  <2>5. Ends(T)[i - 1] \in Nat /\ Ends(T)[i] <= Ends(T)[Len(T)]
    BY <2>3, <2>4
  <2>6. Len(FlattenSeq(T)) = 0
    BY <1>6
  <2>7. \A x1 \in Nat, y \in 1 .. MaxMessages : ~(x1 + y <= 0)
    BY SizeAssumption
  <2> QED BY <2>2, <2>3, <2>5, <2>6, <2>7
<1> QED BY <1>3, <1>5, <1>6 DEF Textless

\* The cases of the records.
LEMMA RecordedFacts ==
  ASSUME Typed
  PROVE  /\ Recorded \in Seq(CaseId) /\ Len(Recorded) = Len(records) /\ Len(records) \in Nat
         /\ \A i \in 1 .. Len(records) : Recorded[i] = records[i].case
<1>1. records \in Seq(Range(records)) /\ \A i \in DOMAIN records : records[i].case \in CaseId
  BY DEF Typed, TypeOK
<1>2. DOMAIN records = 1 .. Len(records) /\ Len(records) \in Nat
  BY <1>1
<1>3. Recorded = [i \in 1 .. Len(records) |-> records[i].case]
  BY <1>2 DEF Recorded
<1> QED BY <1>1, <1>2, <1>3

\* How an evaluation should end.
EndsWell ==
  Flawless /\ (\A i \in DOMAIN Chosen : ~Textless(Chosen[i])) /\ Chosen # <<>> /\ Recorded = Chosen
EndsBadly ==
  LET refused == {i \in DOMAIN Chosen : Textless(Chosen[i])} IN
  IF refused # {} THEN Len(Recorded) + 1 \in refused /\ IsPrefix(Recorded, Chosen)
  ELSE ~(Flawless /\ Chosen # <<>>) /\ Recorded = Chosen

\* That is what the property says.
LEMMA EndsAsItShould ==
  ASSUME pc = "done" => EndsWell, pc = "failed" => EndsBadly
  PROVE  ChunkingInvisible
<1>1. (\A i \in DOMAIN Chosen : ~Textless(Chosen[i])) => {i \in DOMAIN Chosen : Textless(Chosen[i])} = {}
  OBVIOUS
<1> QED BY <1>1, Zenon DEF ChunkingInvisible, EndsWell, EndsBadly

\* It follows from the setup and the records.
LEMMA SameEnd ==
  ASSUME UNCHANGED <<setup, records>>
  PROVE  /\ EndsWell => EndsWell'
         /\ EndsBadly => EndsBadly'
<1>1. /\ Solid' = Solid /\ Values' = Values /\ Cases' = Cases /\ PassingAt' = PassingAt
  BY SameFile
<1>2. Passing' = Passing
  BY <1>1 DEF Passing
<1>3. Stops' <=> Stops
  BY <1>2 DEF Stops
<1>4. Chosen' = Chosen
  BY <1>2, <1>3 DEF Chosen
<1>5. Whole' <=> Whole
  BY <1>1, Zenon DEF Whole, SoundUpTo
<1>6. Flawless' <=> Flawless
  BY <1>1, <1>3, <1>5 DEF Flawless
<1>7. \A c : Textless(c)' <=> Textless(c)
  BY DEF Textless, AtOnce, Spoken, Turns, Sessions, Words
<1>8. Recorded' = Recorded
  BY DEF Recorded
<1>9. {i \in DOMAIN Chosen : Textless(Chosen[i])}' = {i \in DOMAIN Chosen : Textless(Chosen[i])}
  BY <1>4, <1>7
<1>10. EndsWell => EndsWell'
  BY <1>4, <1>6, <1>7, <1>8 DEF EndsWell
<1>11. EndsBadly => EndsBadly'
  BY <1>4, <1>6, <1>8, <1>9, Zenon DEF EndsBadly
<1> QED BY <1>10, <1>11

\* Selected are the first of the chosen.
LEMMA SelectedFirst ==
  ASSUME setup \in Setup, NEW c \in 0 .. Len(Cases), selected = Passed[c],
         setup.options.limit # None => Len(selected) <= setup.options.limit
  PROVE  /\ Chosen \in Seq(CaseId) /\ selected \in Seq(CaseId)
         /\ Len(selected) <= Len(Chosen)
         /\ \A i \in 1 .. Len(selected) : Chosen[i] = selected[i]
         /\ c = Len(Cases) => Chosen = selected /\ ~Stops
<1> DEFINE limit == setup.options.limit
<1>1. /\ Passing \in Seq(CaseId) /\ selected \in Seq(CaseId) /\ Passing = Passed[Len(Cases)]
      /\ Len(selected) <= Len(Passing)
      /\ \A i \in 1 .. Len(selected) : Passing[i] = selected[i]
  BY PassedFacts
<1>2. Len(Passing) \in Nat /\ Len(selected) \in Nat
  BY <1>1
<1>3. CASE Stops
  <2>1. limit # None /\ Len(Passing) > limit /\ limit \in Nat
    BY <1>3, SetupAssumption DEF Stops
  <2>2. Chosen = SubSeq(Passing, 1, limit)
    BY <1>3 DEF Chosen
  <2>3. Len(selected) <= limit
    BY <2>1
  <2> HIDE DEF limit
  <2>4. \A v \in Seq(CaseId) : \A g \in 0 .. Len(v) :
          /\ SubSeq(v, 1, g) \in Seq(CaseId) /\ Len(SubSeq(v, 1, g)) = g
          /\ \A j \in 1 .. g : SubSeq(v, 1, g)[j] = v[j]
    OBVIOUS
  <2>5. limit \in 0 .. Len(Passing)
    BY <1>2, <2>1
  <2>6. Chosen \in Seq(CaseId) /\ Len(Chosen) = limit /\ \A j \in 1 .. limit : Chosen[j] = Passing[j]
    BY <1>1, <2>2, <2>4, <2>5
  <2>7. \A i \in 1 .. Len(selected) : i \in 1 .. limit
    BY <1>2, <2>1, <2>3
  <2>8. c # Len(Cases)
    BY <1>1, <1>2, <2>1, <2>3
  <2> QED BY <1>1, <2>3, <2>6, <2>7, <2>8
<1>4. CASE ~Stops
  <2>1. Chosen = Passing
    BY <1>4 DEF Chosen
  <2> QED BY <1>1, <1>4, <2>1
<1> QED BY <1>3, <1>4

\* When all the cases have been received the end says whether the file is whole.
LEMMA AllReceived ==
  ASSUME Typed, selected = Passed[Len(Cases)], selected = Recorded,
         setup.options.limit # None => Len(selected) <= setup.options.limit,
         \A i \in DOMAIN Recorded : ~Textless(Recorded[i])
  PROVE  /\ Whole /\ Cases = Values /\ selected # <<>> => EndsWell
         /\ ~Whole \/ Cases # Values \/ selected = <<>> => EndsBadly
<1>1. setup \in Setup /\ Len(Cases) \in 0 .. Len(Cases)
  BY CasesFacts DEF Typed
<1>2. Chosen = selected /\ ~Stops
  BY <1>1, SelectedFirst
<1>3. {i \in DOMAIN Chosen : Textless(Chosen[i])} = {}
  BY <1>2
<1>4. Flawless <=> Whole /\ Cases = Values
  BY <1>2 DEF Flawless
<1>5. Whole /\ Cases = Values /\ selected # <<>> => EndsWell
  BY <1>2, <1>3, <1>4 DEF EndsWell
<1>6. ~Whole \/ Cases # Values \/ selected = <<>> => EndsBadly
  BY <1>2, <1>3, <1>4, Zenon DEF EndsBadly
<1> QED BY <1>5, <1>6

\* When a case passes that is one too many, what is recorded is all.
LEMMA LimitReached ==
  ASSUME Typed, NEW k \in 1 .. Len(Cases), k \in PassingAt, selected = Passed[k - 1], selected = Recorded,
         setup.options.limit # None => Len(selected) <= setup.options.limit,
         Filled, \A i \in DOMAIN Recorded : ~Textless(Recorded[i])
  PROVE  EndsWell
<1> DEFINE limit == setup.options.limit
<1>1. setup \in Setup /\ k \in Nat /\ k - 1 \in 0 .. Len(Cases) /\ k \in 0 .. Len(Cases)
  BY CasesFacts DEF Typed
<1>2. limit # None /\ limit \in Nat \ {0} /\ Len(selected) >= limit
  BY <1>1, SetupAssumption DEF Filled, Reached
<1>3. /\ Passing \in Seq(CaseId) /\ selected \in Seq(CaseId) /\ Cases[k] \in CaseId
      /\ Len(Passed[k]) <= Len(Passing)
      /\ Passed[k] = Pick(selected, Cases, k, PassingAt)
  <2>1. Passing \in Seq(CaseId) /\ Len(Passed[k]) <= Len(Passing) /\ selected \in Seq(CaseId)
    BY <1>1, PassedFacts
  <2>2. Passed[k] = Pick(Passed[k - 1], Cases, k, PassingAt)
    BY <1>1, PassedFacts, Zenon
  <2>3. Cases[k] \in CaseId
    <3>1. Cases \in Seq(CaseId)
      BY <1>1, CasesFacts
    <3> QED BY <3>1
  <2> QED BY <2>1, <2>2, <2>3
<1>4. Len(Passed[k]) = Len(selected) + 1
  BY <1>3 DEF Pick
<1>5. Len(Passing) \in Nat /\ Len(selected) \in Nat
  BY <1>3
<1> HIDE DEF limit
<1>6. Stops /\ Len(selected) = limit
  <2>1. Len(selected) <= limit
    BY <1>2 DEF limit
  <2>2. Len(selected) = limit /\ Len(Passing) > limit
    BY <2>1, <1>2, <1>3, <1>4, <1>5
  <2> QED BY <2>2, <1>2 DEF Stops, limit
<1>7. Chosen = selected
  <2>1. Chosen = SubSeq(Passing, 1, limit)
    BY <1>6 DEF Chosen, limit
  <2>2. /\ Chosen \in Seq(CaseId) /\ Len(selected) <= Len(Chosen)
        /\ \A i \in 1 .. Len(selected) : Chosen[i] = selected[i]
    BY <1>1, SelectedFirst
  <2>3. Len(Chosen) = limit
    <3>1. limit \in 0 .. Len(Passing)
      BY <1>2, <1>3, <1>4, <1>5, <1>6
    <3> QED BY <2>1, <3>1, <1>3
  <2> QED BY <2>2, <2>3, <1>3, <1>6
<1>8. Chosen # <<>>
  <2>1. Len(selected) # 0
    BY <1>2, <1>6
  <2> QED BY <2>1, <1>7
<1> QED BY <1>6, <1>7, <1>8 DEF EndsWell, Flawless

\* A case that cannot be embedded is the one behind the recorded.
LEMMA CaseRefused ==
  ASSUME Typed, NEW c \in 0 .. Len(Cases), selected = Passed[c], case \in CaseId,
         selected = Append(Recorded, case), Textless(case),
         setup.options.limit # None => Len(selected) <= setup.options.limit
  PROVE  EndsBadly
<1>1. /\ Chosen \in Seq(CaseId) /\ Len(selected) <= Len(Chosen)
      /\ \A i \in 1 .. Len(selected) : Chosen[i] = selected[i]
  BY SelectedFirst DEF Typed
<1>2. Recorded \in Seq(CaseId)
  BY RecordedFacts
<1> DEFINE n == Len(Recorded)
<1>3. n \in Nat /\ Len(selected) = n + 1 /\ selected[n + 1] = case
      /\ \A i \in 1 .. n : selected[i] = Recorded[i]
  BY <1>2
<1> HIDE DEF n
<1>4. Len(Chosen) \in Nat /\ n + 1 <= Len(Chosen) /\ DOMAIN Chosen = 1 .. Len(Chosen)
  BY <1>1, <1>3
<1>5. n + 1 \in DOMAIN Chosen /\ Chosen[n + 1] = case
  BY <1>1, <1>3, <1>4
<1>6. IsPrefix(Recorded, Chosen)
  <2>1. n <= Len(Chosen) /\ \A i \in 1 .. n : Chosen[i] = Recorded[i]
    BY <1>1, <1>3, <1>4
  <2>2. SubSeq(Recorded, 1, n) = SubSeq(Chosen, 1, n)
    <3>1. /\ SubSeq(Recorded, 1, n) = [i \in 1 .. n |-> Recorded[i]]
          /\ SubSeq(Chosen, 1, n) = [i \in 1 .. n |-> Chosen[i]]
      BY <1>1, <1>2, <1>3, <2>1 DEF n
    <3> QED BY <2>1, <3>1
  <2> QED BY <2>1, <2>2 DEF IsPrefix, n
<1> DEFINE refused == {i \in DOMAIN Chosen : Textless(Chosen[i])}
<1>7. n + 1 \in refused
  BY <1>5
<1>8. refused # {}
  BY <1>7
<1> QED BY <1>6, <1>7, <1>8, Zenon DEF EndsBadly, n

----------------------------------------------------------------------------
(* How far the evaluation is *)

\* The first c cases have been received, and those of them that pass selected.
\* All of these are recorded but the one that is being evaluated.
Received(c) ==
  /\ c \in 0 .. Len(Cases)
  /\ seen = {Cases[i] : i \in 1 .. c} /\ selected = Passed[c]
  /\ setup.options.limit # None => Len(selected) <= setup.options.limit
  /\ selected = IF pc \in {"ingest", "search"} THEN Append(Recorded, case) ELSE Recorded
  /\ \A i \in DOMAIN Recorded : ~Textless(Recorded[i])
  /\ pc = "search" => ~Textless(case)

\* The solid tokens of the file that have been read after c cases, before each
\* kind of step, and that they are sound.
Behind(c) == IF c = 0 THEN 1 ELSE 2 * c
InOpen(c) == c = 0 /\ first /\ ReadOf(0)
InItem(c) == (first <=> c = 0) /\ ReadOf(Behind(c)) /\ SoundUpTo(Behind(c))
InNext(c) == c > 0 /\ ~first /\ ReadOf(2 * c + 1) /\ SoundUpTo(2 * c + 1)
InDecode(c) == Facing(2 * c + 1) /\ SoundUpTo(2 * c + 1)
InCase(c) ==
  /\ ~first /\ 2 * c + 2 <= Len(Solid) /\ SoundUpTo(2 * c + 2)
  /\ Solid[2 * c + 2] = IF case = None THEN "7" ELSE case
  /\ case # None => ReadOf(2 * c + 2)
InSearch(c) == c > 0 /\ ~first /\ ReadOf(2 * c) /\ SoundUpTo(2 * c)
InClose(c) ==
  /\ ReadOf(Behind(c) + 1) /\ SoundUpTo(Behind(c))
  /\ Behind(c) < Len(Solid) /\ Solid[Behind(c) + 1] = "]"
InFile(c) ==
  /\ pc = "open" => InOpen(c)
  /\ pc = "item" => InItem(c)
  /\ pc = "next" => InNext(c)
  /\ pc = "decode" => InDecode(c)
  /\ pc = "case" => InCase(c)
  /\ pc \in {"ingest", "search"} => InSearch(c)
  /\ pc = "close" => InClose(c)

\* Before the end the reader and the filters are where they should be, and the
\* end is as it should be.
Ended == pc \in {"done", "failed"}
Following ==
  /\ Aligned
  /\ pc = "done" => EndsWell
  /\ pc = "failed" => EndsBadly
  /\ ~Ended => \E c \in Nat : Received(c) /\ InFile(c)

\* What is said of the file and the cases does not change.
LEMMA SameCases ==
  ASSUME UNCHANGED setup
  PROVE  /\ Solid' = Solid /\ Cases' = Cases /\ Passed' = Passed
         /\ \A n : SoundUpTo(n)' <=> SoundUpTo(n)
         /\ \A c : Textless(c)' <=> Textless(c)
<1>1. /\ Solid' = Solid /\ Cases' = Cases /\ PassingAt' = PassingAt
  BY SameFile
<1>2. Passed' = Passed
  BY <1>1 DEF Passed
<1>3. \A n : SoundUpTo(n)' <=> SoundUpTo(n)
  BY <1>1, Zenon DEF SoundUpTo
<1>4. \A c : Textless(c)' <=> Textless(c)
  BY DEF Textless, AtOnce, Spoken, Turns, Sessions, Words
<1> QED BY <1>1, <1>2, <1>3, <1>4

\* Who reads nothing stays where it is.
LEMMA PlaceStays ==
  ASSUME UNCHANGED <<setup, rest, buffer, position>>
  PROVE  \A n : (ReadOf(n) => ReadOf(n)') /\ (Facing(n) => Facing(n)')
<1>1. Border' = Border /\ Solids' = Solids /\ File' = File
  BY SameFile
<1>2. Here' = Here
  BY <1>1 DEF Here, Start
<1> QED BY <1>1, <1>2 DEF ReadOf, Facing

\* A step of the reader receives no case.
LEMMA ReceivedStays ==
  ASSUME NEW c, Received(c), UNCHANGED <<setup, seen, selected, records>>,
         pc \notin {"ingest", "search"}, pc' \notin {"ingest", "search"}
  PROVE  Received(c)'
<1>1. Cases' = Cases /\ Passed' = Passed /\ \A d : Textless(d)' <=> Textless(d)
  BY SameCases
<1>2. Recorded' = Recorded
  BY DEF Recorded
<1>3. pc' # "search"
  OBVIOUS
<1> QED BY <1>1, <1>2, <1>3 DEF Received

\* What is ahead is the next solid token, or there is none.
LEMMA AheadTells ==
  ASSUME Typed, Aligned, NEW n, ReadOf(n), Skipped(position) < Len(buffer) \/ eof
  PROVE  /\ n \in Nat /\ n <= Len(Solid) /\ Len(Solid) \in Nat
         /\ Ahead = None => n = Len(Solid)
         /\ Ahead # None => n < Len(Solid) /\ \A x \in Symbols : Ahead = x <=> Solid[n + 1] = x
<1>1. /\ n \in Nat /\ n <= Len(Solid) /\ Len(Solid) \in Nat
      /\ Ahead = None => n = Len(Solid)
      /\ Ahead # None => n < Len(Solid) /\ Solid[n + 1] \in Token /\ Ahead = Spelling(Solid[n + 1])[1]
  BY AheadToken
<1>2. Ahead # None => \A x \in Symbols : Ahead = x <=> Solid[n + 1] = x
  BY <1>1, FirstCharacter
<1> QED BY <1>1, <1>2

\* Where the file goes wrong the evaluation fails.
LEMMA FailsHere ==
  ASSUME Typed, NEW c, Received(c), pc \notin {"ingest", "search"},
         NEW n \in Nat, n <= 2 * c + 1, n <= Len(Solid), SoundUpTo(n),
         \/ n = Len(Solid)
         \/ /\ ~Fits(n + 1)
            /\ \/ n = 0 \/ n + 1 < Len(Solid) \/ Solid[n + 1] # "]"
               \/ (n + 1) % 2 = 0 /\ n > 1
  PROVE  EndsBadly
<1>1. setup \in Setup
  BY DEF Typed
<1>2. ~Whole
  BY <1>1, NotWhole
<1>3. c \in 0 .. Len(Cases) /\ selected = Passed[c] /\ selected = Recorded
      /\ (setup.options.limit # None => Len(selected) <= setup.options.limit)
      /\ \A i \in DOMAIN Recorded : ~Textless(Recorded[i])
  BY DEF Received
<1>4. c = Len(Cases)
  BY <1>1, <1>3, NoMoreValues
<1> QED BY <1>2, <1>3, <1>4, AllReceived

\* _iter_json_array: the array begins, or the file is none.
LEMMA FollowsOpen ==
  ASSUME Typed, Aligned, NEW c \in Nat, Received(c), InFile(c), Open
  PROVE  Following'
<1>1. /\ UNCHANGED <<setup, rest, buffer, eof>> /\ UNCHANGED <<setup, seen, selected, records>>
      /\ first' = first /\ pc = "open"
      /\ Skipped(position) < Len(buffer) \/ eof
      /\ IF Ahead = "[" THEN Take("item") ELSE Leave("failed")
  BY Zenon DEF Open, Ready
<1>2. c = 0 /\ first /\ ReadOf(0)
  BY <1>1 DEF InFile, InOpen
<1>3. SoundUpTo(0) /\ "[" \in Symbols
  BY SoundSteps, SymbolsDiffer
<1>4. /\ 0 <= Len(Solid) /\ Len(Solid) \in Nat
      /\ Ahead = None => 0 = Len(Solid)
      /\ Ahead # None => 0 < Len(Solid) /\ \A x \in Symbols : Ahead = x <=> Solid[0 + 1] = x
  BY <1>1, <1>2, AheadTells
<1>5. 0 + 1 = 1 /\ 0 \in Nat /\ 0 <= 2 * c + 1
  BY <1>2
<1>6. CASE Ahead = "["
  <2>1. Take("item")
    BY <1>1, <1>6
  <2>2. Ahead \in {"[", "]", Comma}
    BY <1>6
  <2>3. Aligned' /\ Solid[0 + 1] = Ahead /\ ReadOf(0 + 1)'
    BY <1>1, <1>2, <2>1, <2>2, TakeReads
  <2>4. SoundUpTo(1)
    <3>1. Fits(0 + 1)
      BY <1>5, <1>6, <2>3, SoundAt
    <3>2. SoundUpTo(0 + 1)
      BY <1>3, <1>5, <3>1, SoundSteps
    <3> QED BY <1>5, <3>2
  <2>5. pc' = "item"
    BY <2>1 DEF Take
  <2>6. Received(c)'
    BY <1>1, <2>5, ReceivedStays
  <2>7. InItem(c)'
    <3>1. SoundUpTo(1)' /\ ReadOf(1)' /\ first'
      BY <1>1, <1>2, <1>5, <2>3, <2>4, SameCases
    <3>2. Behind(c) = 1
      BY <1>2 DEF Behind
    <3> QED BY <1>2, <3>1, <3>2 DEF InItem, Behind
  <2>8. InFile(c)'
    BY <2>5, <2>7 DEF InFile
  <2> QED BY <2>3, <2>5, <2>6, <2>8 DEF Following, Ended
<1>7. CASE Ahead # "["
  <2>1. Leave("failed")
    BY <1>1, <1>7
  <2>2. Aligned' /\ pc' = "failed"
    BY <1>1, <1>2, <2>1, LeaveReads DEF Leave
  <2>3. 0 = Len(Solid) \/ ~Fits(0 + 1)
    <3>1. Ahead # None => Solid[1] # "["
      BY <1>3, <1>4, <1>5, <1>7
    <3> QED BY <1>4, <1>5, <3>1, SoundAt
  <2>4. EndsBadly
    BY <1>1, <1>3, <1>4, <1>5, <2>3, FailsHere
  <2>5. EndsBadly'
    BY <1>1, <2>4, SameEnd
  <2> QED BY <2>2, <2>5 DEF Following, Ended
<1> QED BY <1>6, <1>7

\* Before an item or at the end.
LEMMA FollowsItem ==
  ASSUME Typed, Aligned, NEW c \in Nat, Received(c), InFile(c), Item
  PROVE  Following'
<1> DEFINE n == Behind(c)
<1>1. /\ UNCHANGED <<setup, rest, buffer, eof>> /\ UNCHANGED <<setup, seen, selected, records>>
      /\ first' = first /\ pc = "item"
      /\ Skipped(position) < Len(buffer) \/ eof
  BY Zenon DEF Item, Ready
<1>2. (first <=> c = 0) /\ ReadOf(n) /\ SoundUpTo(n)
  BY <1>1 DEF InFile, InItem
<1>3. {"[", "]", Comma} \subseteq Symbols
  BY SymbolsDiffer
<1>4. n \in Nat \ {0} /\ n <= 2 * c + 1 /\ (c = 0 => n = 1) /\ (c > 0 => n = 2 * c)
  BY DEF Behind
<1> HIDE DEF n
<1>5. /\ n <= Len(Solid) /\ Len(Solid) \in Nat
      /\ Ahead = None => n = Len(Solid)
      /\ Ahead # None => n < Len(Solid) /\ \A x \in Symbols : Ahead = x <=> Solid[n + 1] = x
  BY <1>1, <1>2, AheadTells
<1>6. "]" \in Character /\ Comma \in Character
  BY SymbolsDiffer
<1>7. CASE Ahead = "]"
  <2>1. Take("close")
    BY <1>7, Zenon DEF Item
  <2>2. Ahead \in {"[", "]", Comma} /\ pc' = "close"
    BY <1>7, <2>1 DEF Take
  <2>3. Aligned' /\ Solid[n + 1] = "]" /\ n < Len(Solid) /\ ReadOf(n + 1)'
    BY <1>1, <1>2, <1>7, <2>1, <2>2, TakeReads
  <2>4. Received(c)'
    BY <1>1, <2>2, ReceivedStays
  <2>5. InClose(c)'
    <3>1. SoundUpTo(n)' /\ Solid' = Solid
      BY <1>1, <1>2, SameCases
    <3> QED BY <2>3, <3>1 DEF InClose, n, Behind
  <2>6. InFile(c)'
    BY <2>2, <2>5 DEF InFile
  <2> QED BY <2>2, <2>3, <2>4, <2>6 DEF Following, Ended
<1>8. CASE Ahead # "]" /\ Ahead # None /\ first
  <2>1. Leave("decode")
    BY <1>8, ItemBegins
  <2>2. pc' = "decode"
    BY <2>1 DEF Leave
  <2>3. Aligned' /\ Facing(n)'
    BY <1>1, <1>2, <1>8, <2>1, LeaveReads
  <2>4. Received(c)'
    BY <1>1, <2>2, ReceivedStays
  <2>5. n = 2 * c + 1
    BY <1>2, <1>4, <1>8
  <2>6. InDecode(c)'
    <3>1. SoundUpTo(n)'
      BY <1>1, <1>2, SameCases
    <3> QED BY <2>3, <2>5, <3>1 DEF InDecode
  <2>7. InFile(c)'
    BY <2>2, <2>6 DEF InFile
  <2> QED BY <2>2, <2>3, <2>4, <2>7 DEF Following, Ended
<1>9. CASE Ahead = Comma /\ ~first
  <2>1. Take("next")
    <3>1. Comma # "]" /\ Comma # None
      BY <1>6, SymbolsDiffer, NoneAssumption
    <3> QED BY <1>9, <3>1, Zenon DEF Item, Comma
  <2>2. Ahead \in {"[", "]", Comma} /\ pc' = "next"
    BY <1>9, <2>1 DEF Take
  <2>3. Aligned' /\ Solid[n + 1] = Comma /\ n < Len(Solid) /\ ReadOf(n + 1)'
    BY <1>1, <1>2, <1>9, <2>1, <2>2, TakeReads
  <2>4. Received(c)'
    BY <1>1, <2>2, ReceivedStays
  <2>5. c > 0 /\ n = 2 * c /\ c \in Nat \ {0}
    BY <1>2, <1>4, <1>9
  <2>6. SoundUpTo(n + 1)
    <3>1. Fits(2 * c + 1)
      BY <2>3, <2>5, SoundAt
    <3> QED BY <1>2, <1>4, <2>5, <3>1, SoundSteps
  <2>7. InNext(c)'
    <3>1. SoundUpTo(n + 1)' /\ ~first'
      BY <1>1, <1>9, <2>6, SameCases
    <3> QED BY <2>3, <2>5, <3>1 DEF InNext
  <2>8. InFile(c)'
    BY <2>2, <2>7 DEF InFile
  <2> QED BY <2>2, <2>3, <2>4, <2>8 DEF Following, Ended
<1>10. CASE Ahead # "]" /\ ~(Ahead # "]" /\ Ahead # None /\ first) /\ ~(Ahead = Comma /\ ~first)
  <2>1. Leave("failed")
    <3>1. ~(Ahead = "," /\ ~first)
      BY <1>10, Zenon DEF Comma
    <3> QED BY <1>10, <3>1, ItemFails
  <2>2. Aligned' /\ pc' = "failed"
    BY <1>1, <1>2, <2>1, LeaveReads DEF Leave
  <2>3. n = Len(Solid) \/ (~Fits(n + 1) /\ Solid[n + 1] # "]")
    <3>1. CASE Ahead = None
      BY <3>1, <1>5
    <3>2. CASE Ahead # None
      <4>1. ~first /\ Ahead # Comma /\ Ahead # "]"
        BY <1>10, <3>2
      <4>2. c \in Nat \ {0} /\ n + 1 = 2 * c + 1
        BY <1>2, <1>4, <4>1
      <4>3. Solid[n + 1] # Comma /\ Solid[n + 1] # "]"
        BY <1>3, <1>5, <3>2, <4>1
      <4> QED BY <4>2, <4>3, SoundAt
    <3> QED BY <3>1, <3>2
  <2>4. EndsBadly
    BY <1>1, <1>2, <1>4, <1>5, <2>3, FailsHere
  <2>5. EndsBadly'
    BY <1>1, <2>4, SameEnd
  <2> QED BY <2>2, <2>5 DEF Following, Ended
<1> QED BY <1>7, <1>8, <1>9, <1>10

\* Behind a comma.
LEMMA FollowsComma ==
  ASSUME Typed, Aligned, NEW c \in Nat, Received(c), InFile(c), AfterComma
  PROVE  Following'
<1> DEFINE n == 2 * c + 1
<1>1. /\ UNCHANGED <<setup, rest, buffer, eof>> /\ UNCHANGED <<setup, seen, selected, records>>
      /\ pc = "next"
      /\ Skipped(position) < Len(buffer) \/ eof
      /\ IF Ahead = "]" THEN Leave("failed") ELSE Leave("decode")
  BY Zenon DEF AfterComma, Ready
<1>2. c > 0 /\ ReadOf(n) /\ SoundUpTo(n)
  BY <1>1 DEF InFile, InNext
<1>3. "]" \in Symbols
  BY SymbolsDiffer
<1>4. n \in Nat \ {0} /\ n <= 2 * c + 1 /\ n > 1 /\ n + 1 = 2 * c + 2 /\ (n + 1) % 2 = 0
  BY <1>2
<1> HIDE DEF n
<1>5. /\ n <= Len(Solid)
      /\ Ahead # None => n < Len(Solid) /\ \A x \in Symbols : Ahead = x <=> Solid[n + 1] = x
  BY <1>1, <1>2, AheadTells
<1>6. CASE Ahead = "]"
  <2>1. Leave("failed")
    BY <1>1, <1>6
  <2>2. Aligned' /\ pc' = "failed"
    BY <1>1, <1>2, <2>1, LeaveReads DEF Leave
  <2>3. ~Fits(n + 1)
    <3>1. Ahead # None
      <4>1. "]" \in Character
        BY SymbolsDiffer
      <4> QED BY <4>1, <1>6, NoneAssumption
    <3>2. Solid[n + 1] = "]"
      BY <1>3, <1>5, <1>6, <3>1
    <3> QED BY <3>2, SoundAt
  <2>4. EndsBadly
    BY <1>1, <1>2, <1>4, <1>5, <2>3, FailsHere
  <2>5. EndsBadly'
    BY <1>1, <2>4, SameEnd
  <2> QED BY <2>2, <2>5 DEF Following, Ended
<1>7. CASE Ahead # "]"
  <2>1. Leave("decode")
    BY <1>1, <1>7
  <2>2. pc' = "decode"
    BY <2>1 DEF Leave
  <2>3. Aligned' /\ Facing(n)'
    BY <1>1, <1>2, <1>7, <2>1, LeaveReads
  <2>4. Received(c)'
    BY <1>1, <2>2, ReceivedStays
  <2>5. InDecode(c)'
    <3>1. SoundUpTo(n)'
      BY <1>1, <1>2, SameCases
    <3> QED BY <2>3, <3>1 DEF InDecode, n
  <2>6. InFile(c)'
    BY <2>2, <2>5 DEF InFile
  <2> QED BY <2>2, <2>3, <2>4, <2>6 DEF Following, Ended
<1> QED BY <1>6, <1>7

\* Behind the array: the evaluation is done if nothing follows and something is
\* selected.
LEMMA FollowsClose ==
  ASSUME Typed, Aligned, NEW c \in Nat, Received(c), InFile(c), Close
  PROVE  Following'
<1> DEFINE n == Behind(c)
           L == Len(Solid)
<1>1. /\ UNCHANGED <<setup, rest, buffer, eof>> /\ UNCHANGED <<setup, seen, selected, records>>
      /\ pc = "close"
      /\ Skipped(position) < Len(buffer) \/ eof
      /\ IF Ahead = None /\ seen # {} /\ selected # <<>> THEN Leave("done") ELSE Leave("failed")
  BY Zenon DEF Close, Ready
<1>2. ReadOf(n + 1) /\ SoundUpTo(n) /\ n < L /\ Solid[n + 1] = "]"
  BY <1>1 DEF InFile, InClose
<1>3. n \in Nat \ {0} /\ n <= 2 * c + 1 /\ (c = 0 => n = 1) /\ (c > 0 => n = 2 * c)
  BY DEF Behind
<1> HIDE DEF n
<1>4. n + 1 <= L /\ L \in Nat /\ (Ahead = None => n + 1 = L) /\ (Ahead # None => n + 1 < L)
  BY <1>1, <1>2, AheadTells
<1>5. ~Fits(n + 1)
  BY <1>2, SoundAt
<1>6. /\ setup \in Setup /\ c \in 0 .. Len(Cases) /\ selected = Passed[c] /\ selected = Recorded
      /\ seen = {Cases[i] : i \in 1 .. c}
      /\ (setup.options.limit # None => Len(selected) <= setup.options.limit)
      /\ \A i \in DOMAIN Recorded : ~Textless(Recorded[i])
  BY <1>1 DEF Typed, Received
<1>7. c = Len(Cases) /\ Cases = Values
  BY <1>2, <1>3, <1>4, <1>5, <1>6, NoMoreValues
<1>8. CASE Ahead = None /\ seen # {} /\ selected # <<>>
  <2>1. Leave("done")
    BY <1>1, <1>8
  <2>2. Aligned' /\ pc' = "done"
    BY <1>1, <1>2, <2>1, LeaveReads DEF Leave
  <2>3. n + 1 = L
    BY <1>4, <1>8
  <2>4. L > 1 /\ Solid[L] = "]" /\ SoundUpTo(L - 1) /\ (L = 2 \/ L % 2 = 1)
    <3>1. L - 1 = n /\ L > 1
      BY <2>3, <1>3, <1>4
    <3>2. L = 2 \/ L % 2 = 1
      <4>1. CASE c = 0
        BY <4>1, <2>3, <1>3
      <4>2. CASE c > 0
        <5>1. L = 2 * c + 1
          BY <4>2, <2>3, <1>3
        <5>2. (2 * c + 1) % 2 = 1
          OBVIOUS
        <5> QED BY <5>1, <5>2
      <4> QED BY <4>1, <4>2
    <3> QED BY <1>2, <2>3, <3>1, <3>2
  <2>5. Whole
    BY <2>4, Zenon DEF Whole
  <2>6. EndsWell
    BY <1>6, <1>7, <1>8, <2>5, AllReceived
  <2>7. EndsWell'
    BY <1>1, <2>6, SameEnd
  <2> QED BY <2>2, <2>7 DEF Following, Ended
<1>9. CASE ~(Ahead = None /\ seen # {} /\ selected # <<>>)
  <2>1. Leave("failed")
    BY <1>1, <1>9
  <2>2. Aligned' /\ pc' = "failed"
    BY <1>1, <1>2, <2>1, LeaveReads DEF Leave
  <2>3. ~Whole \/ selected = <<>>
    <3>1. CASE Ahead # None
      <4>1. n + 1 < L
        BY <3>1, <1>4
      <4>2. n <= L
        BY <1>3, <1>4
      <4> QED BY <1>2, <1>3, <1>5, <1>6, <4>1, <4>2, NotWhole
    <3>2. CASE seen = {}
      <4>1. c = 0
        <5> SUFFICES ASSUME c # 0 PROVE FALSE
          OBVIOUS
        <5>1. 1 \in 1 .. c
          OBVIOUS
        <5> QED BY <5>1, <3>2, <1>6
      <4> QED BY <4>1, <1>6, PassedFacts
    <3> QED BY <3>1, <3>2, <1>9
  <2>4. EndsBadly
    BY <1>6, <1>7, <2>3, AllReceived
  <2>5. EndsBadly'
    BY <1>1, <2>4, SameEnd
  <2> QED BY <2>2, <2>5 DEF Following, Ended
<1> QED BY <1>8, <1>9

\* raw_decode: the value that is decoded is the next of the file, wherever the
\* chunks end.
LEMMA FollowsDecode ==
  ASSUME Typed, Aligned, NEW c \in Nat, Received(c), InFile(c), Decode
  PROVE  Following'
<1> DEFINE n == 2 * c + 1
<1>1. /\ UNCHANGED <<setup, seen, selected, records>> /\ pc = "decode"
  BY Zenon DEF Decode
<1>2. Facing(n) /\ SoundUpTo(n)
  BY <1>1 DEF InFile, InDecode
<1>3. n \in Nat /\ n <= 2 * c + 1 /\ n + 1 = 2 * c + 2
  OBVIOUS
<1> HIDE DEF n
<1>4. /\ n <= Len(Solid) /\ Len(Solid) \in Nat
      /\ IsItem(position) =>
           /\ n < Len(Solid) /\ Solid[n + 1] = At(position + 1) /\ Solid[n + 1] \in CaseId
           /\ \E t \in 0 .. Len(setup.tokens) :
                Border[t] = Start + position + 3 /\ Len(Solids[t]) = n + 1
      /\ IsNumber(position) => n < Len(Solid) /\ Solid[n + 1] = "7"
      /\ ~IsItem(position) /\ ~IsNumber(position) /\ eof =>
           n = Len(Solid) \/ Solid[n + 1] \notin CaseId \cup {"7", "]"}
  BY <1>2, DecodeReads
<1>5. ASSUME n < Len(Solid), Solid[n + 1] \in CaseId \cup {"7"} PROVE SoundUpTo(2 * c + 2) /\ 2 * c + 2 <= Len(Solid)
  <2>1. Fits(n + 1)
    BY <1>3, <1>5, SoundAt
  <2>2. SoundUpTo(n + 1)
    BY <1>2, <1>3, <2>1, SoundSteps
  <2> QED BY <2>2, <1>3, <1>4, <1>5
<1>6. CASE /\ IsItem(position) /\ position' = position + 3 /\ case' = At(position + 1)
           /\ first' = FALSE /\ pc' = "case" /\ UNCHANGED <<rest, buffer, eof>>
  <2>1. /\ n < Len(Solid) /\ Solid[n + 1] = case' /\ case' \in CaseId
        /\ \E t \in 0 .. Len(setup.tokens) :
             Border[t] = Start + position + 3 /\ Len(Solids[t]) = n + 1
    BY <1>4, <1>6
  <2>2. Aligned' /\ Start' = Start /\ Border' = Border /\ Solids' = Solids /\ setup' = setup
    BY <1>1, <1>6, AlignedStays, SameFile
  <2>3. ReadOf(n + 1)'
    <3>1. Here' = Start + position + 3
      <4>1. Start \in Nat /\ position \in Nat
        BY TypedReading DEF Aligned, Reading
      <4> QED BY <4>1, <2>2, <1>6 DEF Here
    <3> QED BY <2>1, <2>2, <3>1 DEF ReadOf
  <2>4. case' # None
    BY <2>1, SymbolsDiffer, NoneAssumption
  <2>5. Received(c)'
    BY <1>1, <1>6, ReceivedStays
  <2>6. InCase(c)'
    <3>1. SoundUpTo(2 * c + 2)' /\ 2 * c + 2 <= Len(Solid)' /\ Solid' = Solid
      BY <1>1, <1>5, <2>1, SameCases
    <3> QED BY <1>3, <1>6, <2>1, <2>3, <2>4, <3>1 DEF InCase
  <2>7. InFile(c)'
    BY <1>6, <2>6 DEF InFile
  <2> QED BY <1>6, <2>2, <2>5, <2>7 DEF Following, Ended
<1>7. CASE /\ IsNumber(position) /\ case' = None
           /\ first' = FALSE /\ pc' = "case" /\ UNCHANGED <<rest, buffer, eof>>
  <2>1. n < Len(Solid) /\ Solid[n + 1] = "7"
    BY <1>4, <1>7
  <2>2. Aligned'
    BY <1>1, <1>7, AlignedStays
  <2>3. Received(c)'
    BY <1>1, <1>7, ReceivedStays
  <2>4. InCase(c)'
    <3>1. SoundUpTo(2 * c + 2)' /\ 2 * c + 2 <= Len(Solid)' /\ Solid' = Solid
      BY <1>1, <1>5, <2>1, SameCases
    <3> QED BY <1>3, <1>7, <2>1, <3>1 DEF InCase
  <2>5. InFile(c)'
    BY <1>7, <2>4 DEF InFile
  <2> QED BY <1>7, <2>2, <2>3, <2>5 DEF Following, Ended
<1>8. CASE Fill(position) /\ UNCHANGED <<first, pc, case>>
  <2>1. Aligned' /\ Facing(n)' /\ pc' = "decode"
    BY <1>1, <1>2, <1>8, FillFaces
  <2>2. Received(c)'
    BY <1>1, <2>1, ReceivedStays
  <2>3. InDecode(c)'
    <3>1. SoundUpTo(n)'
      BY <1>1, <1>2, SameCases
    <3> QED BY <2>1, <3>1 DEF InDecode, n
  <2>4. InFile(c)'
    BY <2>1, <2>3 DEF InFile
  <2> QED BY <2>1, <2>2, <2>4 DEF Following, Ended
<1>9. CASE ~IsItem(position) /\ ~IsNumber(position) /\ eof /\ pc' = "failed" /\ UNCHANGED <<parser, case>>
  <2>1. n = Len(Solid) \/ Solid[n + 1] \notin CaseId \cup {"7", "]"}
    BY <1>4, <1>9
  <2>2. n = Len(Solid) \/ (~Fits(n + 1) /\ Solid[n + 1] # "]")
    BY <2>1, <1>3, SoundAt
  <2>3. EndsBadly
    BY <1>1, <1>2, <1>3, <1>4, <2>2, FailsHere
  <2>4. EndsBadly'
    BY <1>1, <2>3, SameEnd
  <2>5. Aligned'
    BY <1>1, <1>9, AlignedStays DEF parser
  <2> QED BY <1>9, <2>4, <2>5 DEF Following, Ended
<1> QED BY <1>6, <1>7, <1>8, <1>9, Zenon DEF Decode

\* skip_whitespace reads on.
LEMMA FollowsSkip ==
  ASSUME Typed, Aligned, NEW c \in Nat, Received(c), InFile(c), SkipOn
  PROVE  Following'
<1>1. /\ UNCHANGED <<setup, first, pc, case>> /\ UNCHANGED <<setup, seen, selected, records>>
      /\ pc \in {"open", "item", "next", "close"}
  BY Zenon DEF SkipOn
<1>2. Received(c)'
  BY <1>1, ReceivedStays
<1>3. \A n : SoundUpTo(n) => SoundUpTo(n)'
  BY <1>1, SameCases
<1>4. Solid' = Solid
  BY <1>1, SameCases
<1>5. CASE pc = "open"
  <2>1. c = 0 /\ first /\ ReadOf(0)
    BY <1>5 DEF InFile, InOpen
  <2>2. Aligned' /\ ReadOf(0)'
    BY <2>1, SkipReads
  <2>3. InFile(c)'
    BY <1>1, <1>5, <2>1, <2>2 DEF InFile, InOpen
  <2> QED BY <1>1, <1>2, <1>5, <2>2, <2>3 DEF Following, Ended
<1>6. CASE pc = "item"
  <2>1. (first <=> c = 0) /\ ReadOf(Behind(c)) /\ SoundUpTo(Behind(c))
    BY <1>6 DEF InFile, InItem
  <2>2. Aligned' /\ ReadOf(Behind(c))'
    BY <2>1, SkipReads
  <2>3. InItem(c)'
    BY <1>1, <1>3, <2>1, <2>2 DEF InItem, Behind
  <2>4. InFile(c)'
    BY <1>1, <1>6, <2>3 DEF InFile
  <2> QED BY <1>1, <1>2, <1>6, <2>2, <2>4 DEF Following, Ended
<1>7. CASE pc = "next"
  <2>1. c > 0 /\ ~first /\ ReadOf(2 * c + 1) /\ SoundUpTo(2 * c + 1)
    BY <1>7 DEF InFile, InNext
  <2>2. Aligned' /\ ReadOf(2 * c + 1)'
    BY <2>1, SkipReads
  <2>3. InNext(c)'
    BY <1>1, <1>3, <2>1, <2>2 DEF InNext
  <2>4. InFile(c)'
    BY <1>1, <1>7, <2>3 DEF InFile
  <2> QED BY <1>1, <1>2, <1>7, <2>2, <2>4 DEF Following, Ended
<1>8. CASE pc = "close"
  <2>1. /\ ReadOf(Behind(c) + 1) /\ SoundUpTo(Behind(c))
        /\ Behind(c) < Len(Solid) /\ Solid[Behind(c) + 1] = "]"
    BY <1>8 DEF InFile, InClose
  <2>2. Aligned' /\ ReadOf(Behind(c) + 1)'
    BY <2>1, SkipReads
  <2>3. InClose(c)'
    BY <1>1, <1>3, <1>4, <2>1, <2>2 DEF InClose, Behind
  <2>4. InFile(c)'
    BY <1>1, <1>8, <2>3 DEF InFile
  <2> QED BY <1>1, <1>2, <1>8, <2>2, <2>4 DEF Following, Ended
<1> QED BY <1>1, <1>5, <1>6, <1>7, <1>8

\* iter_longmemeval_cases and _selected_cases: the case received is the next of
\* the cases, or there are no more.
LEMMA FollowsReceive ==
  ASSUME Typed, Aligned, NEW c \in Nat, Received(c), InFile(c), Receive
  PROVE  Following'
<1> DEFINE k == c + 1
           limit == setup.options.limit
<1>1. UNCHANGED <<setup, rest, buffer, position, eof, first, case, records>> /\ pc = "case"
  BY Zenon DEF Receive, parser
<1>2. /\ ~first /\ 2 * c + 2 <= Len(Solid) /\ SoundUpTo(2 * c + 2)
      /\ Solid[2 * c + 2] = (IF case = None THEN "7" ELSE case)
      /\ case # None => ReadOf(2 * c + 2)
  BY <1>1 DEF InFile, InCase
<1>3. /\ setup \in Setup /\ c \in 0 .. Len(Cases) /\ selected = Passed[c] /\ selected = Recorded
      /\ seen = {Cases[i] : i \in 1 .. c} /\ selected \in Seq(CaseId)
      /\ (limit # None => Len(selected) <= limit)
      /\ \A i \in DOMAIN Recorded : ~Textless(Recorded[i])
      /\ case \in CaseId \cup {None}
  BY <1>1 DEF Typed, TypeOK, Received
<1>4. k \in Nat \ {0} /\ 2 * k = 2 * c + 2 /\ k - 1 = c
  OBVIOUS
<1>5. k <= Len(Values) /\ Values[k] = Solid[2 * c + 2]
  <2>1. k <= Len(Values)
    BY <1>2, <1>3, <1>4, ValuesFacts
  <2>2. k \in 1 .. Len(Values)
    BY <2>1, <1>3, <1>4, CasesFacts
  <2>3. Values[k] = Solid[2 * k]
    BY <2>2, <1>3, ValuesFacts
  <2> QED BY <2>1, <2>3, <1>4
<1>6. Len(Cases) \in Nat /\ Len(Values) \in Nat
      /\ (c < Len(Cases) <=> Values[k] \in CaseId /\ Values[k] \notin seen)
  <2>1. c < Len(Cases) <=> Values[c + 1] \in CaseId /\ Values[c + 1] \notin {Cases[i] : i \in 1 .. c}
    BY <1>3, <1>5, CasesFacts
  <2> QED BY <2>1, <1>3, CasesFacts
<1> HIDE DEF k, limit
<1>7. Aligned'
  BY <1>1, AlignedStays
<1>8. CASE (case = None \/ case \in seen) /\ pc' = "failed"
  <2>1. ~(Values[k] \in CaseId /\ Values[k] \notin seen)
    BY <1>2, <1>5, <1>8, SymbolsDiffer
  <2>2. c = Len(Cases) /\ Cases # Values
    <3>1. c = Len(Cases)
      BY <2>1, <1>3, <1>6
    <3> QED BY <3>1, <1>4, <1>5, <1>6
  <2>3. EndsBadly
    BY <2>2, <1>3, AllReceived DEF limit
  <2>4. EndsBadly'
    BY <1>1, <2>3, SameEnd
  <2> QED BY <1>7, <1>8, <2>4 DEF Following, Ended
<1>9. CASE case # None /\ case \notin seen
  <2>1. case \in CaseId /\ Values[k] = case
    BY <1>2, <1>3, <1>5, <1>9
  <2>2. k \in 1 .. Len(Cases) /\ Cases[k] = case
    <3>1. c < Len(Cases)
      BY <2>1, <1>6, <1>9
    <3>2. k \in 1 .. Len(Cases)
      BY <3>1, <1>3, <1>4, <1>6
    <3>3. Cases[k] = Values[k]
      BY <3>2, <1>3, CasesFacts
    <3> QED BY <2>1, <3>2, <3>3
  <2>3. seen \cup {case} = {Cases[i] : i \in 1 .. k}
    <3>1. \A i : i \in 1 .. k <=> i \in 1 .. c \/ i = k
      BY <1>4 DEF k
    <3> QED BY <3>1, <2>2, <1>3
  <2>4. Passed[k] = Pick(selected, Cases, k, PassingAt)
    BY <2>2, <1>3, <1>4, PassedFacts
  <2>5. Passes(case) <=> k \in PassingAt
    BY <2>2, <1>3, <1>4, PassesWhole
  <2>6. ReadOf(2 * k)' /\ SoundUpTo(2 * k)' /\ ~first' /\ k > 0 /\ Behind(k) = 2 * k
    <3>1. ReadOf(2 * c + 2)' /\ SoundUpTo(2 * c + 2)'
      BY <1>1, <1>2, <1>9, PlaceStays, SameCases
    <3>2. Behind(k) = 2 * k
      BY <1>4 DEF Behind
    <3> QED BY <1>1, <1>2, <1>4, <3>1, <3>2
  <2>7. /\ Cases' = Cases /\ Passed' = Passed /\ Recorded' = Recorded
        /\ \A d : Textless(d)' <=> Textless(d)
    BY <1>1, SameCases DEF Recorded
  <2>8. k \in 0 .. Len(Cases)
    BY <2>2, <1>4, <1>6
  <2>9. CASE seen' = seen \cup {case} /\ ~Passes(case) /\ pc' = "item" /\ UNCHANGED selected
    <3>1. Passed[k] = selected
      BY <2>4, <2>5, <2>9 DEF Pick
    <3>2. Received(k)'
      BY <1>1, <1>3, <2>3, <2>7, <2>8, <2>9, <3>1 DEF Received, limit
    <3>3. InItem(k)'
      BY <2>6, <1>4 DEF InItem, Behind
    <3>4. InFile(k)'
      BY <2>9, <3>3 DEF InFile
    <3> QED BY <1>4, <1>7, <2>9, <3>2, <3>4 DEF Following, Ended
  <2>10. CASE Passes(case) /\ Filled /\ pc' = "done"
    <3>1. k \in PassingAt /\ selected = Passed[k - 1]
      BY <1>3, <1>4, <2>5, <2>10
    <3>2. EndsWell
      BY <2>2, <2>10, <3>1, <1>3, LimitReached DEF limit
    <3>3. EndsWell'
      BY <1>1, <3>2, SameEnd
    <3> QED BY <1>7, <2>10, <3>3 DEF Following, Ended
  <2>11. CASE seen' = seen \cup {case} /\ Passes(case) /\ ~Filled /\ pc' = "ingest"
              /\ selected' = Append(selected, case)
    <3>1. Passed[k] = Append(selected, case)
      BY <2>2, <2>4, <2>5, <2>11 DEF Pick
    <3>2. limit # None => Len(selected') <= limit
      <4> SUFFICES ASSUME limit # None PROVE Len(selected') <= limit
        OBVIOUS
      <4>1. limit \in Nat /\ ~(Len(selected) >= limit)
        BY <1>3, <2>11, SetupAssumption DEF limit, Filled, Reached
      <4>2. Len(selected') = Len(selected) + 1 /\ Len(selected) \in Nat
        BY <1>3, <2>1, <2>11
      <4> QED BY <4>1, <4>2
    <3>3. Received(k)'
      <4>1. selected' = Passed[k]' /\ seen' = {Cases'[i] : i \in 1 .. k} /\ k \in 0 .. Len(Cases')
        BY <2>3, <2>7, <2>8, <2>11, <3>1
      <4>2. selected' = Append(Recorded', case') /\ pc' = "ingest"
        BY <1>1, <1>3, <2>7, <2>11
      <4>3. \A i \in DOMAIN Recorded' : ~Textless(Recorded[i])'
        BY <1>3, <2>7
      <4>4. (setup.options.limit # None => Len(selected) <= setup.options.limit)'
        BY <1>1, <3>2 DEF limit
      <4> QED BY <4>1, <4>2, <4>3, <4>4 DEF Received
    <3>4. InSearch(k)'
      BY <2>6 DEF InSearch
    <3>5. InFile(k)'
      BY <2>11, <3>4 DEF InFile
    <3> QED BY <1>4, <1>7, <2>11, <3>3, <3>5 DEF Following, Ended
  <2> QED
    <3>1. /\ seen' = seen \cup {case}
          /\ \/ ~Passes(case) /\ pc' = "item" /\ UNCHANGED selected
             \/ Passes(case) /\ Filled /\ pc' = "done" /\ UNCHANGED selected
             \/ /\ Passes(case) /\ ~Filled
                /\ pc' = "ingest"
                /\ selected' = Append(selected, case)
      BY <1>9, Zenon DEF Receive
    <3> QED BY <2>9, <2>10, <2>11, <3>1
<1> QED BY <1>8, <1>9, Zenon DEF Receive

\* run_evaluation: the Adds of a case, which fail only if it has no text.
LEMMA FollowsIngest ==
  ASSUME Typed, Aligned, NEW c \in Nat, Received(c), InFile(c), Ingest
  PROVE  Following'
<1>1. UNCHANGED <<setup, rest, buffer, position, eof, first, case, seen, selected, records>> /\ pc = "ingest"
  BY Zenon DEF Ingest, parser
<1>2. setup \in Setup /\ case \in CaseId
  BY <1>1 DEF Typed
<1>3. c > 0 /\ ~first /\ ReadOf(2 * c) /\ SoundUpTo(2 * c)
  BY <1>1 DEF InFile, InSearch
<1>4. Aligned' /\ ReadOf(2 * c)' /\ SoundUpTo(2 * c)'
  BY <1>1, <1>3, AlignedStays, PlaceStays, SameCases
<1>5. /\ c \in 0 .. Len(Cases) /\ selected = Passed[c] /\ selected = Append(Recorded, case)
      /\ (setup.options.limit # None => Len(selected) <= setup.options.limit)
  BY <1>1 DEF Received
<1>6. Textless(case) <=> AtOnce /\ Texts(case) = <<>>
  BY <1>2, TextlessPlan
<1>7. CASE AtOnce /\ Texts(case) = <<>> /\ pc' = "failed"
  <2>1. EndsBadly
    BY <1>2, <1>5, <1>6, <1>7, CaseRefused
  <2>2. EndsBadly'
    BY <1>1, <2>1, SameEnd
  <2> QED BY <1>4, <1>7, <2>2 DEF Following, Ended
<1>8. CASE pc' = "ingest" \/ (pc' = "search" /\ ~Textless(case))
  <2>1. /\ Cases' = Cases /\ Passed' = Passed /\ Recorded' = Recorded
        /\ \A d : Textless(d)' <=> Textless(d)
    BY <1>1, SameCases DEF Recorded
  <2>2. pc' = "search" => ~Textless(case)'
    BY <1>1, <1>8, <2>1
  <2>3. Received(c)'
    BY <1>1, <1>8, <2>1, <2>2 DEF Received
  <2>4. InFile(c)'
    BY <1>1, <1>3, <1>4, <1>8 DEF InFile, InSearch
  <2> QED BY <1>4, <1>8, <2>3, <2>4 DEF Following, Ended
<1>9. \/ AtOnce /\ Texts(case) = <<>> /\ pc' = "failed"
      \/ pc' = "ingest"
      \/ pc' = "search" /\ ~(AtOnce /\ Texts(case) = <<>>)
  BY <1>1, Zenon DEF Ingest
<1> QED BY <1>6, <1>7, <1>8, <1>9

\* run_evaluation: a case more is recorded.
LEMMA FollowsSearch ==
  ASSUME Typed, Aligned, NEW c \in Nat, Received(c), InFile(c), Search
  PROVE  Following'
<1>1. /\ UNCHANGED <<setup, rest, buffer, position, eof, first, case, seen, selected>>
      /\ pc = "search" /\ pc' = "item"
  BY Zenon DEF Search, parser
<1>2. \E r : records' = Append(records, r) /\ r.case = case
  BY DEF Search
<1>3. PICK r : records' = Append(records, r) /\ r.case = case
  BY <1>2
<1>4. c > 0 /\ ~first /\ ReadOf(2 * c) /\ SoundUpTo(2 * c)
  BY <1>1 DEF InFile, InSearch
<1>5. Aligned' /\ ReadOf(2 * c)' /\ SoundUpTo(2 * c)'
  BY <1>1, <1>4, AlignedStays, PlaceStays, SameCases
<1>6. selected = Append(Recorded, case) /\ ~Textless(case) /\ \A i \in DOMAIN Recorded : ~Textless(Recorded[i])
  BY <1>1 DEF Received
<1>7. Recorded' = Append(Recorded, case)
  <2>1. records \in Seq(Range(records)) /\ Recorded \in Seq(CaseId) /\ Len(Recorded) = Len(records)
        /\ Len(records) \in Nat /\ \A i \in 1 .. Len(records) : Recorded[i] = records[i].case
    BY RecordedFacts DEF Typed
  <2> DEFINE m == Len(records)
  <2>2. /\ Append(records, r)[m + 1] = r /\ DOMAIN Append(records, r) = 1 .. m + 1
        /\ \A i \in 1 .. m : Append(records, r)[i] = records[i]
    BY <2>1, AppendedRecord
  <2>3. Recorded' = [i \in 1 .. m + 1 |-> Append(records, r)[i].case]
    BY <1>3, <2>2 DEF Recorded
  <2>4. case \in CaseId
    BY <1>1 DEF Typed
  <2>5. Append(Recorded, case) = [i \in 1 .. m + 1 |-> IF i = m + 1 THEN case ELSE Recorded[i]]
    <3> DEFINE f == Append(Recorded, case)
    <3>1. f \in Seq(CaseId) /\ Len(f) = m + 1 /\ f[m + 1] = case /\ \A i \in 1 .. m : f[i] = Recorded[i]
      BY <2>1, <2>4
    <3> HIDE DEF f
    <3>2. f = [i \in 1 .. m + 1 |-> f[i]]
      BY <3>1
    <3>3. \A i \in 1 .. m + 1 : f[i] = IF i = m + 1 THEN case ELSE Recorded[i]
      <4>1. \A i \in 1 .. m + 1 : i = m + 1 \/ (i # m + 1 /\ i \in 1 .. m)
        BY <2>1
      <4> QED BY <3>1, <4>1
    <3> HIDE DEF m
    <3> QED BY <3>2, <3>3 DEF f
  <2>6. \A i \in 1 .. m + 1 : Append(records, r)[i].case = IF i = m + 1 THEN case ELSE Recorded[i]
    <3>1. \A i \in 1 .. m + 1 : i = m + 1 \/ i \in 1 .. m
      BY <2>1
    <3> QED BY <3>1, <2>1, <2>2, <1>3
  <2> HIDE DEF m
  <2> QED BY <2>3, <2>5, <2>6
<1>8. \A i \in DOMAIN Recorded' : ~Textless(Recorded'[i])
  <2>1. Recorded \in Seq(CaseId) /\ case \in CaseId
    BY <1>1, RecordedFacts DEF Typed
  <2>2. \A i \in DOMAIN Append(Recorded, case) :
          Append(Recorded, case)[i] = case
            \/ (i \in DOMAIN Recorded /\ Append(Recorded, case)[i] = Recorded[i])
    BY <2>1
  <2> QED BY <1>6, <1>7, <2>2
<1>9. Cases' = Cases /\ Passed' = Passed /\ \A d : Textless(d)' <=> Textless(d)
  BY <1>1, SameCases
<1>10. Received(c)'
  <2>1. \A i \in DOMAIN Recorded' : ~Textless(Recorded[i])'
    BY <1>8, SameCases, <1>1 DEF Textless, AtOnce, Spoken, Turns, Sessions, Words
  <2>2. c \in 0 .. Len(Cases) /\ seen = {Cases[i] : i \in 1 .. c} /\ selected = Passed[c]
        /\ (setup.options.limit # None => Len(selected) <= setup.options.limit)
    BY DEF Received
  <2>3. selected' = Recorded'
    BY <1>1, <1>6, <1>7
  <2>4. c \in 0 .. Len(Cases') /\ seen' = {Cases'[i] : i \in 1 .. c} /\ selected' = Passed'[c]
        /\ (setup'.options.limit # None => Len(selected') <= setup'.options.limit)
    BY <1>1, <1>9, <2>2
  <2> QED BY <1>1, <2>1, <2>3, <2>4 DEF Received
<1>11. InItem(c)'
  <2>1. Behind(c) = 2 * c
    BY <1>4 DEF Behind
  <2> QED BY <1>1, <1>4, <1>5, <2>1 DEF InItem, Behind
<1>12. InFile(c)'
  BY <1>1, <1>11 DEF InFile
<1> QED BY <1>1, <1>5, <1>10, <1>12 DEF Following, Ended

\* A step that changes nothing.
LEMMA FollowsStill ==
  ASSUME Following, UNCHANGED vars
  PROVE  Following'
<1>1. UNCHANGED <<setup, rest, buffer, position, eof, first, pc, case, seen, selected, records>>
  BY DEF vars, parser
<1>2. Aligned'
  BY <1>1, AlignedStays DEF Following
<1>3. (pc' = "done" => EndsWell') /\ (pc' = "failed" => EndsBadly')
  BY <1>1, SameEnd DEF Following
<1>4. ASSUME ~Ended PROVE \E c \in Nat : Received(c)' /\ InFile(c)'
  <2>1. PICK c \in Nat : Received(c) /\ InFile(c)
    BY <1>4 DEF Following
  <2>2. /\ Cases' = Cases /\ Passed' = Passed /\ Recorded' = Recorded /\ Solid' = Solid
        /\ \A d : Textless(d)' <=> Textless(d)
    BY <1>1, SameCases DEF Recorded
  <2>3. \A n : /\ ReadOf(n) => ReadOf(n)'
               /\ Facing(n) => Facing(n)'
               /\ SoundUpTo(n) => SoundUpTo(n)'
    BY <1>1, PlaceStays, SameCases
  <2>4. Received(c)'
    BY <1>1, <2>1, <2>2 DEF Received
  <2>5. InFile(c)'
    BY <1>1, <2>1, <2>2, <2>3 DEF InFile, InOpen, InItem, InNext, InDecode, InCase, InSearch, InClose, Behind
  <2> QED BY <2>4, <2>5
<1>5. ~Ended' => ~Ended
  BY <1>1 DEF Ended
<1> QED BY <1>2, <1>3, <1>4, <1>5 DEF Following

\* Every step keeps to the file.
LEMMA FollowsNext ==
  ASSUME Typed, Following, [Next]_vars
  PROVE  Following'
<1>1. Aligned
  BY DEF Following
<1>2. ASSUME ~Ended PROVE \E c \in Nat : Received(c) /\ InFile(c)
  BY <1>2 DEF Following
<1>3. CASE SkipOn
  <2>1. ~Ended
    BY <1>3 DEF SkipOn, Ended
  <2> QED BY <1>1, <1>2, <1>3, <2>1, FollowsSkip
<1>4. CASE Open
  <2>1. ~Ended
    BY <1>4, Zenon DEF Open, Ready, Ended
  <2> QED BY <1>1, <1>2, <1>4, <2>1, FollowsOpen
<1>5. CASE Item
  <2>1. pc = "item"
    BY <1>5, Zenon DEF Item, Ready
  <2>2. ~Ended
    BY <2>1 DEF Ended
  <2> QED BY <1>1, <1>2, <1>5, <2>2, FollowsItem
<1>6. CASE AfterComma
  <2>1. ~Ended
    BY <1>6 DEF AfterComma, Ready, Ended
  <2> QED BY <1>1, <1>2, <1>6, <2>1, FollowsComma
<1>7. CASE Decode
  <2>1. pc = "decode"
    BY <1>7, Zenon DEF Decode
  <2>2. ~Ended
    BY <2>1 DEF Ended
  <2> QED BY <1>1, <1>2, <1>7, <2>2, FollowsDecode
<1>8. CASE Close
  <2>1. ~Ended
    BY <1>8 DEF Close, Ready, Ended
  <2> QED BY <1>1, <1>2, <1>8, <2>1, FollowsClose
<1>9. CASE Receive
  <2>1. ~Ended
    BY <1>9 DEF Receive, Ended
  <2> QED BY <1>1, <1>2, <1>9, <2>1, FollowsReceive
<1>10. CASE Ingest
  <2>1. ~Ended
    BY <1>10 DEF Ingest, Ended
  <2> QED BY <1>1, <1>2, <1>10, <2>1, FollowsIngest
<1>11. CASE Search
  <2>1. ~Ended
    BY <1>11 DEF Search, Ended
  <2> QED BY <1>1, <1>2, <1>11, <2>1, FollowsSearch
<1>12. CASE Over \/ UNCHANGED vars
  BY <1>12, FollowsStill DEF Over
<1> QED BY <1>3, <1>4, <1>5, <1>6, <1>7, <1>8, <1>9, <1>10, <1>11, <1>12, Zenon DEF Next

\* It begins before the file.
LEMMA FollowsInit ==
  ASSUME Init
  PROVE  Following
<1>1. /\ setup \in Setup /\ records = <<>> /\ selected = <<>> /\ seen = {} /\ pc = "open" /\ first
  BY DEF Init
<1>2. Aligned /\ ReadOf(0)
  BY AlignedInit
<1>3. Recorded = <<>>
  BY <1>1 DEF Recorded
<1>4. Received(0)
  <2>1. 0 \in 0 .. Len(Cases) /\ Passed[0] = <<>> /\ {Cases[i] : i \in 1 .. 0} = {}
    BY <1>1, CasesFacts, PassedFacts
  <2>2. setup.options.limit # None => Len(<<>>) <= setup.options.limit
    <3>1. setup.options.limit # None => setup.options.limit \in Nat
      BY <1>1, SetupAssumption
    <3> QED BY <3>1
  <2> QED BY <1>1, <1>3, <2>1, <2>2 DEF Received
<1>5. InFile(0)
  BY <1>1, <1>2 DEF InFile, InOpen
<1> QED BY <1>1, <1>2, <1>4, <1>5 DEF Following, Ended

\* Whatever the dataset, wherever the chunks of the file end, and whatever the
\* filters: the cases that run_evaluation records, and whether it ends well, are
\* what the whole file and the filters say.  _iter_json_array neither loses nor
\* repeats a value at the end of a chunk, nor takes a file that is cut short or
\* goes wrong for a whole one.
THEOREM ChunksInvisible == Spec => []ChunkingInvisible
<1>1. Init => Typed /\ Following
  BY TypedInit, FollowsInit
<1>2. Typed /\ Following /\ [Next]_vars => (Typed /\ Following)'
  BY TypedNext, FollowsNext
<1>3. Typed /\ Following => ChunkingInvisible
  BY EndsAsItShould DEF Following
<1> QED BY <1>1, <1>2, <1>3, PTL DEF Spec
=============================================================================
