--------------------------- MODULE RankingProofs ---------------------------
(***************************************************************************)
(* The properties of Ranking, for all logs, queries and limits, and any    *)
(* number of messages.  First the operators: fractions keep their order    *)
(* through Gcd, sums and quotients; sorts exist and are what they should   *)
(* be; filters, cuts and joins leave the order of what they leave.  Then   *)
(* the invariant: where in a search the scores of the state chain follow   *)
(* time, so that later sorts by score cannot tear it apart.                *)
(***************************************************************************)
EXTENDS Ranking, FiniteSetTheorems, WellFoundedInduction, TLAPS

----------------------------------------------------------------------------
(* Numbers *)

\* A nonempty set of numbers has a least one: what induction is made of here.
LEMMA LeastElement ==
  ASSUME NEW S \in SUBSET Nat, S # {}
  PROVE  \E m \in S : \A k \in S : m <= k
<1> DEFINE Less == {p \in Nat \X Nat : p[1] < p[2]}
<1>1. IsWellFoundedOn(Less, Nat)
  BY NatLessThanWellFounded DEF OpToRel
<1>2. PICK m \in S : \A k \in S : ~(<<k, m>> \in Less)
  BY <1>1, WFMin, Zenon
<1>3. \A k \in S : ~(k < m)
  BY <1>2
<1> QED BY <1>3

Positive == Nat \ {0}

Divides(g, n) == \E k \in Int : n = g * k

\* The step of Euclid's algorithm keeps the common divisors.
LEMMA EuclidStep ==
  ASSUME NEW a \in Nat, NEW b \in Positive, NEW g \in Positive, Divides(g, b)
  PROVE  Divides(g, a) <=> Divides(g, a % b)
<1> DEFINE q == a \div b
<1> DEFINE r == a % b
<1>1. a = b * q + r /\ q \in Int /\ r \in Int
  BY DEF Positive
<1> HIDE DEF q, r
<1>2. PICK k \in Int : b = g * k
  BY DEF Divides
<1>3. b * q = g * (k * q) /\ k * q \in Int
  BY <1>1, <1>2 DEF Positive
<1>4. ASSUME Divides(g, a) PROVE Divides(g, r)
  <2>1. PICK j \in Int : a = g * j
    BY <1>4 DEF Divides
  <2>2. r = g * (j - k * q) /\ j - k * q \in Int
    BY <1>1, <1>3, <2>1 DEF Positive
  <2> QED BY <2>2 DEF Divides
<1>5. ASSUME Divides(g, r) PROVE Divides(g, a)
  <2>1. PICK j \in Int : r = g * j
    BY <1>5 DEF Divides
  <2>2. a = g * (j + k * q) /\ j + k * q \in Int
    BY <1>1, <1>3, <2>1 DEF Positive
  <2> QED BY <2>2 DEF Divides
<1> QED BY <1>4, <1>5 DEF r

\* The common divisors of a and b, for b # 0.
CommonDivisors(a, b) == {g \in 1 .. b : Divides(g, a) /\ Divides(g, b)}

\* Two numbers have a greatest common divisor.
LEMMA GreatestCommonDivisor ==
  ASSUME NEW a \in Nat, NEW b \in Positive
  PROVE  \E g \in CommonDivisors(a, b) : \A h \in CommonDivisors(a, b) : h <= g
<1>1. 1 \in CommonDivisors(a, b)
  <2>1. a = 1 * a /\ b = 1 * b /\ a \in Int /\ b \in Int
    BY DEF Positive
  <2>2. Divides(1, a) /\ Divides(1, b)
    BY <2>1 DEF Divides
  <2> QED BY <2>2 DEF CommonDivisors, Positive
<1> DEFINE Gaps == {b - g : g \in CommonDivisors(a, b)}
<1>2. Gaps \in SUBSET Nat /\ Gaps # {}
  BY <1>1 DEF CommonDivisors, Positive
<1>3. PICK m \in Gaps : \A k \in Gaps : m <= k
  BY <1>2, LeastElement, Zenon
<1>4. PICK g \in CommonDivisors(a, b) : m = b - g
  BY <1>3
<1>5. ASSUME NEW h \in CommonDivisors(a, b) PROVE h <= g
  <2>1. b - g <= b - h
    BY <1>3, <1>4
  <2> QED BY <2>1 DEF CommonDivisors, Positive
<1> QED BY <1>4, <1>5

\* Euclid's algorithm ends: the recursive definition defines a function.
LEMMA GcdDefined ==
  Gcd = [p \in Nat \X Nat |-> IF p[2] = 0 THEN p[1] ELSE Gcd[<<p[2], p[1] % p[2]>>]]
<1> DEFINE Greatest(a, b) == CHOOSE g \in CommonDivisors(a, b) : \A h \in CommonDivisors(a, b) : h <= g
<1> DEFINE W == [p \in Nat \X Nat |-> IF p[2] = 0 THEN p[1] ELSE Greatest(p[1], p[2])]
<1>1. ASSUME NEW a \in Nat, NEW b \in Nat
      PROVE  W[<<a, b>>] = IF b = 0 THEN a ELSE W[<<b, a % b>>]
  <2>1. CASE b = 0
    BY <2>1
  <2>2. CASE b # 0
    <3>1. b \in Positive /\ a % b \in 0 .. (b - 1)
      BY <2>2 DEF Positive
    <3>2. Greatest(a, b) \in CommonDivisors(a, b) /\ \A h \in CommonDivisors(a, b) : h <= Greatest(a, b)
      BY <3>1, GreatestCommonDivisor, Zenon
    <3>3. CASE a % b = 0
      <4>1. Divides(b, 0) /\ Divides(b, b)
        <5>1. 0 = b * 0 /\ b = b * 1 
          BY <3>1 DEF Positive
        <5> QED BY <5>1 DEF Divides
      <4>2. Divides(b, a)
        BY <3>1, <3>3, <4>1, EuclidStep
      <4>3. b \in CommonDivisors(a, b)
        BY <3>1, <4>1, <4>2 DEF CommonDivisors, Positive
      <4>4. Greatest(a, b) = b
        BY <3>2, <4>3, <3>1 DEF CommonDivisors, Positive
      <4>5. W[<<a, b>>] = b /\ W[<<b, 0>>] = b
        BY <4>4, <2>2
      <4> QED BY <4>5, <3>3, <2>2
    <3>4. CASE a % b # 0
      <4>1. a % b \in Positive
        BY <3>1, <3>4 DEF Positive
      <4>2. CommonDivisors(a, b) = CommonDivisors(b, a % b)
        <5>1. ASSUME NEW g \in CommonDivisors(a, b) PROVE g \in CommonDivisors(b, a % b)
          <6>1. g \in Positive /\ Divides(g, b) /\ Divides(g, a) 
            BY <3>1 DEF CommonDivisors, Positive
          <6>2. Divides(g, a % b)
            BY <6>1, <3>1, EuclidStep
          <6>3. g <= a % b
            <7>1. PICK k \in Int : a % b = g * k
              BY <6>2 DEF Divides
            <7>2. k >= 1
              BY <7>1, <6>1, <4>1 DEF Positive
            <7>3. g * k >= g
              BY <7>2, <6>1 DEF Positive
            <7> QED BY <7>1, <7>3
          <6> QED BY <6>1, <6>2, <6>3, <4>1 DEF CommonDivisors, Positive
        <5>2. ASSUME NEW g \in CommonDivisors(b, a % b) PROVE g \in CommonDivisors(a, b)
          <6>1. g \in Positive /\ Divides(g, b) /\ Divides(g, a % b) /\ g <= b
            BY <3>1, <4>1 DEF CommonDivisors, Positive
          <6>2. Divides(g, a)
            BY <6>1, <3>1, EuclidStep
          <6> QED BY <6>1, <6>2, <3>1 DEF CommonDivisors, Positive
        <5> QED BY <5>1, <5>2
      <4>3. Greatest(a, b) = Greatest(b, a % b)
        BY <4>2
      <4>4. W[<<a, b>>] = Greatest(a, b) /\ a % b \in Nat /\ b \in Nat
        BY <2>2, <3>1
      <4>5. W[<<b, a % b>>] = Greatest(b, a % b)
        BY <4>4, <3>4
      <4> QED BY <4>3, <4>4, <4>5, <2>2
    <3> QED BY <3>3, <3>4
  <2> QED BY <2>1, <2>2
<1>2. W = [p \in Nat \X Nat |-> IF p[2] = 0 THEN p[1] ELSE W[<<p[2], p[1] % p[2]>>]]
  <2>1. W \in [Nat \X Nat -> {W[p] : p \in Nat \X Nat}]
    <3> DEFINE V(p) == IF p[2] = 0 THEN p[1] ELSE Greatest(p[1], p[2])
    <3>1. W = [p \in Nat \X Nat |-> V(p)]
      OBVIOUS
    <3> HIDE DEF V, W
    <3> QED BY <3>1
  <2> HIDE DEF W
  <2>2. ASSUME NEW p \in Nat \X Nat PROVE W[p] = IF p[2] = 0 THEN p[1] ELSE W[<<p[2], p[1] % p[2]>>]
    <3>1. p = <<p[1], p[2]>> /\ p[1] \in Nat /\ p[2] \in Nat
      OBVIOUS
    <3> QED BY <1>1, <3>1
  <2> QED BY <2>1, <2>2
<1> HIDE DEF W
<1> QED BY <1>2, Zenon DEF Gcd

\* What it computes: a positive number that divides both.
LEMMA GcdDivides ==
  ASSUME NEW a \in Positive, NEW b \in Nat
  PROVE  Gcd[<<a, b>>] \in Positive /\ Divides(Gcd[<<a, b>>], a) /\ Divides(Gcd[<<a, b>>], b)
<1> DEFINE Right(x, y) == Gcd[<<x, y>>] \in Positive /\ Divides(Gcd[<<x, y>>], x) /\ Divides(Gcd[<<x, y>>], y)
<1> DEFINE Wrong == {y \in Nat : \E x \in Positive : ~Right(x, y)}
<1>1. \A x, y \in Nat : Gcd[<<x, y>>] = IF y = 0 THEN x ELSE Gcd[<<y, x % y>>]
  <2>1. \A p \in Nat \X Nat : Gcd[p] = IF p[2] = 0 THEN p[1] ELSE Gcd[<<p[2], p[1] % p[2]>>]
    BY GcdDefined
  <2> QED BY <2>1
<1>2. ASSUME Wrong # {} PROVE FALSE
  <2>1. PICK y \in Wrong : \A k \in Wrong : y <= k
    BY <1>2, LeastElement
  <2>2. PICK x \in Positive : ~Right(x, y)
    BY <2>1
  <2>3. x \in Nat /\ y \in Nat /\ x # 0
    BY <2>1, <2>2 DEF Positive
  <2>4. CASE y = 0
    <3>1. Gcd[<<x, y>>] = x
      BY <1>1, <2>3, <2>4
    <3>2. x = x * 1 /\ y = x * 0
      BY <2>3, <2>4
    <3> QED BY <2>2, <3>1, <3>2 DEF Divides
  <2>5. CASE y # 0
    <3>1. y \in Positive /\ x % y \in 0 .. (y - 1)
      BY <2>3, <2>5 DEF Positive
    <3>2. x % y \in Nat /\ x % y < y
      BY <3>1, <2>3
    <3>3. Right(y, x % y)
      BY <2>1, <3>1, <3>2, <2>3
    <3>4. Gcd[<<x, y>>] = Gcd[<<y, x % y>>]
      BY <1>1, <2>3, <2>5
    <3>5. Divides(Gcd[<<x, y>>], x)
      BY <3>1, <3>3, <3>4, <2>3, EuclidStep
    <3> QED BY <2>2, <3>3, <3>4, <3>5
  <2> QED BY <2>4, <2>5
<1> QED BY <1>2

----------------------------------------------------------------------------
(* Fractions *)

Score == Positive \X Positive

Same(x, y)    == x[1] * y[2] = y[1] * x[2]
AtLeast(x, y) == ~Above(y, x)

\* Products of inequalities.
LEMMA Times ==
  ASSUME NEW a \in Nat, NEW b \in Nat, NEW c \in Positive
  PROVE  (a < b <=> a * c < b * c) /\ (a <= b <=> a * c <= b * c) /\ (a = b <=> a * c = b * c)
<1>1. ASSUME a < b PROVE a * c < b * c
  BY <1>1 DEF Positive
<1>2. ASSUME b < a PROVE b * c < a * c
  BY <1>2 DEF Positive
<1>3. a * c \in Nat /\ b * c \in Nat
  BY DEF Positive
<1> QED BY <1>1, <1>2, <1>3

\* A fraction in its lowest terms has the same value.
LEMMA FractionValue ==
  ASSUME NEW n \in Positive, NEW d \in Positive
  PROVE  Fraction(n, d) \in Score /\ Same(Fraction(n, d), <<n, d>>)
<1> DEFINE g == Gcd[<<n, d>>]
<1>1. g \in Positive /\ Divides(g, n) /\ Divides(g, d)
  BY GcdDivides DEF Positive
<1> HIDE DEF g
<1>2. ASSUME NEW a \in Positive, Divides(g, a)
      PROVE  a = g * (a \div g) /\ a \div g \in Positive
  <2>1. PICK k \in Int : a = g * k
    BY <1>2 DEF Divides
  <2>2. k \in Positive
    BY <2>1, <1>1 DEF Positive
  <2>3. a \div g = k
    BY <2>1, <2>2, <1>1 DEF Positive
  <2> QED BY <2>1, <2>2, <2>3
<1>3. n = g * (n \div g) /\ n \div g \in Positive /\ d = g * (d \div g) /\ d \div g \in Positive
  BY <1>1, <1>2
<1>4. Fraction(n, d) = <<n \div g, d \div g>>
  BY DEF Fraction, g
<1> DEFINE p == n \div g
           q == d \div g
<1>5. n = g * p /\ d = g * q /\ p \in Positive /\ q \in Positive /\ Fraction(n, d) = <<p, q>>
  BY <1>3, <1>4
<1> HIDE DEF p, q
<1>6. p * d = n * q
  BY <1>5, <1>1 DEF Positive
<1> QED BY <1>5, <1>6 DEF Score, Same

\* Comparison is of values, and a total preorder.
LEMMA AboveValue ==
  ASSUME NEW x \in Score, NEW y \in Score, NEW z \in Score, Same(x, y)
  PROVE  (Above(x, z) <=> Above(y, z)) /\ (Above(z, x) <=> Above(z, y))
<1> DEFINE a == x[1]
           b == x[2]
           c == y[1]
           d == y[2]
           e == z[1]
           f == z[2]
<1>1. a \in Positive /\ b \in Positive /\ c \in Positive /\ d \in Positive /\ e \in Positive /\ f \in Positive
  BY DEF Score
<1>2. a * d = c * b
  BY DEF Same
<1>3. (Above(x, z) <=> a * f > e * b) /\ (Above(y, z) <=> c * f > e * d)
      /\ (Above(z, x) <=> e * b > a * f) /\ (Above(z, y) <=> e * d > c * f)
  BY DEF Above
<1> HIDE DEF a, b, c, d, e, f
<1>4. a * f \in Nat /\ e * b \in Nat /\ c * f \in Nat /\ e * d \in Nat
  BY <1>1 DEF Positive
<1>5. (a * f) * d = (c * f) * b /\ (e * b) * d = (e * d) * b
  <2>1. (a * f) * d = (a * d) * f /\ (c * f) * b = (c * b) * f
    BY <1>1 DEF Positive
  <2> QED BY <1>2, <2>1, <1>1 DEF Positive
<1>6. (a * f < e * b <=> c * f < e * d) /\ (e * b < a * f <=> e * d < c * f)
  <2>1. a * f < e * b <=> (a * f) * d < (e * b) * d
    BY <1>1, <1>4, Times
  <2>2. c * f < e * d <=> (c * f) * b < (e * d) * b
    BY <1>1, <1>4, Times
  <2>3. e * b < a * f <=> (e * b) * d < (a * f) * d
    BY <1>1, <1>4, Times
  <2>4. e * d < c * f <=> (e * d) * b < (c * f) * b
    BY <1>1, <1>4, Times
  <2> QED BY <1>5, <2>1, <2>2, <2>3, <2>4
<1> QED BY <1>3, <1>4, <1>6

\* How the order of scores chains.
LEMMA AboveOrder ==
  ASSUME NEW x \in Score, NEW y \in Score, NEW z \in Score
  PROVE  /\ ~Above(x, x)
         /\ Above(x, y) => AtLeast(x, y)
         /\ Above(x, y) /\ AtLeast(y, z) => Above(x, z)
         /\ AtLeast(x, y) /\ Above(y, z) => Above(x, z)
         /\ AtLeast(x, y) /\ AtLeast(y, z) => AtLeast(x, z)
<1> DEFINE a == x[1]
           b == x[2]
           c == y[1]
           d == y[2]
           e == z[1]
           f == z[2]
<1>1. a \in Positive /\ b \in Positive /\ c \in Positive /\ d \in Positive /\ e \in Positive /\ f \in Positive
  BY DEF Score
<1>2. (Above(x, y) <=> a * d > c * b) /\ (Above(y, x) <=> c * b > a * d)
      /\ (Above(y, z) <=> c * f > e * d) /\ (Above(z, y) <=> e * d > c * f)
      /\ (Above(x, z) <=> a * f > e * b) /\ (Above(z, x) <=> e * b > a * f)
      /\ (Above(x, x) <=> a * b > a * b)
  BY DEF Above
<1> HIDE DEF a, b, c, d, e, f
<1>3. /\ a * d \in Nat /\ c * b \in Nat /\ c * f \in Nat /\ e * d \in Nat /\ a * f \in Nat
      /\ e * b \in Nat /\ a * b \in Nat
  BY <1>1 DEF Positive
<1>4. /\ (a * d) * f = (a * f) * d /\ (c * b) * f = (c * f) * b /\ (e * d) * b = (e * b) * d
      /\ (a * d) * f \in Nat /\ (c * b) * f \in Nat /\ (e * d) * b \in Nat
  BY <1>1 DEF Positive
<1>5. (c * b < a * d <=> (c * b) * f < (a * d) * f) /\ (c * b <= a * d <=> (c * b) * f <= (a * d) * f)
  BY <1>1, <1>3, Times
<1>6. (e * d < c * f <=> (e * d) * b < (c * f) * b) /\ (e * d <= c * f <=> (e * d) * b <= (c * f) * b)
  BY <1>1, <1>3, Times
<1>7. (e * b < a * f <=> (e * b) * d < (a * f) * d) /\ (e * b <= a * f <=> (e * b) * d <= (a * f) * d)
  BY <1>1, <1>3, Times
<1> QED BY <1>2, <1>3, <1>4, <1>5, <1>6, <1>7 DEF AtLeast

\* Equal values compare alike.
LEMMA AboveValues ==
  ASSUME NEW x \in Score, NEW y \in Score, NEW u \in Score, NEW v \in Score, Same(x, u), Same(y, v)
  PROVE  Above(x, y) <=> Above(u, v)
<1>1. Above(x, y) <=> Above(u, y)
  BY AboveValue
<1>2. Above(u, y) <=> Above(u, v)
  BY AboveValue
<1> QED BY <1>1, <1>2

\* A product of positive numbers is positive.
LEMMA ProductPositive ==
  ASSUME NEW a \in Positive, NEW b \in Positive
  PROVE  a * b \in Positive /\ a + b \in Positive
BY DEF Positive

\* The value of a quotient, whatever Fraction reduces.
LEMMA QuotientValue ==
  ASSUME NEW x \in Score, NEW y \in Score
  PROVE  /\ DividedBy(x, y) \in Score
         /\ <<x[1] * y[2], x[2] * y[1]>> \in Score
         /\ Same(DividedBy(x, y), <<x[1] * y[2], x[2] * y[1]>>)
<1>1. x[1] \in Positive /\ x[2] \in Positive /\ y[1] \in Positive /\ y[2] \in Positive
  BY DEF Score
<1>2. x[1] * y[2] \in Positive /\ x[2] * y[1] \in Positive
  BY <1>1, ProductPositive
<1> QED BY <1>2, FractionValue DEF DividedBy, Score

\* The value of a sum, whatever Fraction reduces.
LEMMA SumValue ==
  ASSUME NEW x \in Score, NEW y \in Score
  PROVE  /\ Plus(x, y) \in Score
         /\ <<x[1] * y[2] + y[1] * x[2], x[2] * y[2]>> \in Score
         /\ Same(Plus(x, y), <<x[1] * y[2] + y[1] * x[2], x[2] * y[2]>>)
<1>1. x[1] \in Positive /\ x[2] \in Positive /\ y[1] \in Positive /\ y[2] \in Positive
  BY DEF Score
<1>2. x[1] * y[2] \in Positive /\ y[1] * x[2] \in Positive /\ x[2] * y[2] \in Positive
  BY <1>1, ProductPositive
<1>3. x[1] * y[2] + y[1] * x[2] \in Positive
  BY <1>2, ProductPositive
<1> QED BY <1>2, <1>3, FractionValue DEF Plus, Score

\* Division by one score keeps the order of all: normalization.
LEMMA QuotientOrder ==
  ASSUME NEW x \in Score, NEW y \in Score, NEW z \in Score
  PROVE  Above(DividedBy(x, z), DividedBy(y, z)) <=> Above(x, y)
<1> DEFINE a == x[1]
           b == x[2]
           c == y[1]
           d == y[2]
           e == z[1]
           f == z[2]
<1>1. a \in Positive /\ b \in Positive /\ c \in Positive /\ d \in Positive /\ e \in Positive /\ f \in Positive
  BY DEF Score
<1>2. Above(DividedBy(x, z), DividedBy(y, z)) <=> Above(<<a * f, b * e>>, <<c * f, d * e>>)
  BY QuotientValue, AboveValues
<1>3. Above(<<a * f, b * e>>, <<c * f, d * e>>) <=> (c * f) * (b * e) < (a * f) * (d * e)
  <2>1. \A p, r, s, t \in Positive : Above(<<p, r>>, <<s, t>>) <=> s * r < p * t
    BY DEF Above, Positive
  <2>2. a * f \in Positive /\ b * e \in Positive /\ c * f \in Positive /\ d * e \in Positive
    BY <1>1, ProductPositive
  <2> QED BY <2>1, <2>2
<1>4. Above(x, y) <=> c * b < a * d
  BY <1>1 DEF Above, Positive
<1> HIDE DEF a, b, c, d, e, f
<1>5. (c * f) * (b * e) = (c * b) * (f * e) /\ (a * f) * (d * e) = (a * d) * (f * e)
  BY <1>1 DEF Positive
<1>6. f * e \in Positive /\ c * b \in Nat /\ a * d \in Nat
  BY <1>1, ProductPositive DEF Positive
<1>7. c * b < a * d <=> (c * b) * (f * e) < (a * d) * (f * e)
  BY <1>6, Times
<1> QED BY <1>2, <1>3, <1>4, <1>5, <1>7

\* A sum is more than its parts, and grows with them.
LEMMA SumAbove ==
  ASSUME NEW x \in Score, NEW y \in Score
  PROVE  Above(Plus(x, y), x) /\ Above(Plus(x, y), y)
<1> DEFINE a == x[1]
           b == x[2]
           c == y[1]
           d == y[2]
           s == <<a * d + c * b, b * d>>
<1>1. a \in Positive /\ b \in Positive /\ c \in Positive /\ d \in Positive
  BY DEF Score
<1>2. s \in Score /\ Plus(x, y) \in Score /\ Same(Plus(x, y), s)
  BY SumValue
<1>3. (Above(s, x) <=> a * (b * d) < (a * d + c * b) * b) /\ (Above(s, y) <=> c * (b * d) < (a * d + c * b) * d)
  BY DEF Above
<1>4. (Above(Plus(x, y), x) <=> Above(s, x)) /\ (Above(Plus(x, y), y) <=> Above(s, y))
  BY <1>2, AboveValue
<1> HIDE DEF a, b, c, d, s
<1>5. (a * d + c * b) * b = a * (b * d) + (c * b) * b /\ (a * d + c * b) * d = c * (b * d) + (a * d) * d
  BY <1>1 DEF Positive
<1>6. (c * b) * b \in Positive /\ (a * d) * d \in Positive /\ a * (b * d) \in Positive /\ c * (b * d) \in Positive
  BY <1>1, ProductPositive
<1>7. a * (b * d) < (a * d + c * b) * b /\ c * (b * d) < (a * d + c * b) * d
  BY <1>5, <1>6 DEF Positive
<1> QED BY <1>3, <1>4, <1>7

\* A sum is the higher, the higher its summands are.
LEMMA SumGrows ==
  ASSUME NEW x \in Score, NEW y \in Score, NEW u \in Score, AtLeast(x, u)
  PROVE  /\ AtLeast(Plus(x, y), Plus(u, y)) /\ AtLeast(Plus(y, x), Plus(y, u))
         /\ Above(x, u) => Above(Plus(x, y), Plus(u, y)) /\ Above(Plus(y, x), Plus(y, u))
<1> DEFINE a == x[1]
           b == x[2]
           c == y[1]
           d == y[2]
           e == u[1]
           f == u[2]
<1>1. a \in Positive /\ b \in Positive /\ c \in Positive /\ d \in Positive /\ e \in Positive /\ f \in Positive
  BY DEF Score
<1>2. Plus(y, x) = Plus(x, y) /\ Plus(y, u) = Plus(u, y)
  <2>1. /\ y[1] * x[2] + x[1] * y[2] = x[1] * y[2] + y[1] * x[2] /\ y[2] * x[2] = x[2] * y[2]
        /\ y[1] * u[2] + u[1] * y[2] = u[1] * y[2] + y[1] * u[2] /\ y[2] * u[2] = u[2] * y[2]
    BY <1>1 DEF Positive
  <2> QED BY <2>1 DEF Plus
<1> DEFINE s == <<a * d + c * b, b * d>>
           t == <<e * d + c * f, f * d>>
           p == a * f
           q == e * b
           w == d * d
           k == (c * b) * (f * d)
<1>3. (Above(Plus(x, y), Plus(u, y)) <=> Above(s, t)) /\ (Above(Plus(u, y), Plus(x, y)) <=> Above(t, s))
  BY SumValue, AboveValues
<1>4. (Above(x, u) <=> q < p) /\ (Above(u, x) <=> p < q)
  BY DEF Above
<1>5. /\ Above(s, t) <=> (e * d + c * f) * (b * d) < (a * d + c * b) * (f * d)
      /\ Above(t, s) <=> (a * d + c * b) * (f * d) < (e * d + c * f) * (b * d)
  BY DEF Above
<1> HIDE DEF a, b, c, d, e, f
<1>6. (a * d + c * b) * (f * d) = p * w + k /\ (e * d + c * f) * (b * d) = q * w + k
  BY <1>1 DEF Positive
<1>7. p \in Positive /\ q \in Positive /\ w \in Positive /\ k \in Positive
  BY <1>1, ProductPositive
<1>8. p * w \in Positive /\ q * w \in Positive
  BY <1>7, ProductPositive
<1> HIDE DEF s, t, p, q, w, k
<1>9. (p < q <=> p * w < q * w) /\ (q < p <=> q * w < p * w)
  BY <1>7, Times DEF Positive
<1>10. /\ q * w + k < p * w + k <=> q < p
       /\ p * w + k < q * w + k <=> p < q
  BY <1>7, <1>8, <1>9 DEF Positive
<1>11. (Above(s, t) <=> q < p) /\ (Above(t, s) <=> p < q)
  BY <1>5, <1>6, <1>10
<1> QED BY <1>2, <1>3, <1>4, <1>11 DEF AtLeast

\* The share of a score over a larger number is smaller.
LEMMA ShareOrder ==
  ASSUME NEW x \in Score, NEW i \in Positive, NEW j \in Positive
  PROVE  /\ DividedBy(x, <<i, 1>>) \in Score
         /\ Above(DividedBy(x, <<i, 1>>), DividedBy(x, <<j, 1>>)) <=> i < j
         /\ Above(x, DividedBy(x, <<i, 1>>)) <=> 1 < i
<1>1. x[1] \in Positive /\ x[2] \in Positive /\ x[1] * 1 = x[1]
  BY DEF Score, Positive
<1>2. \A k \in Positive : /\ DividedBy(x, <<k, 1>>) \in Score /\ <<x[1], x[2] * k>> \in Score
                         /\ Same(DividedBy(x, <<k, 1>>), <<x[1], x[2] * k>>)
  <2> TAKE k \in Positive
  <2>1. <<k, 1>> \in Score
    BY DEF Score, Positive
  <2> QED BY <1>1, <2>1, QuotientValue
<1> DEFINE a == x[1]
           b == x[2]
<1>3. \A k, l \in Positive : Above(<<a, b * k>>, <<a, b * l>>) <=> k < l
  <2> TAKE k, l \in Positive
  <2>1. Above(<<a, b * k>>, <<a, b * l>>) <=> a * (b * k) < a * (b * l)
    BY DEF Above
  <2> HIDE DEF a, b
  <2>2. a * (b * k) = k * (a * b) /\ a * (b * l) = l * (a * b) /\ a * b \in Positive
    BY <1>1, ProductPositive DEF Positive, a, b
  <2>3. k < l <=> k * (a * b) < l * (a * b)
    BY <2>2, Times DEF Positive
  <2> QED BY <2>1, <2>2, <2>3
<1>4. Above(DividedBy(x, <<i, 1>>), DividedBy(x, <<j, 1>>)) <=> i < j
  <2>1. Above(DividedBy(x, <<i, 1>>), DividedBy(x, <<j, 1>>)) <=> Above(<<a, b * i>>, <<a, b * j>>)
    BY <1>2, AboveValues
  <2> QED BY <1>3, <2>1
<1>5. Above(x, DividedBy(x, <<i, 1>>)) <=> 1 < i
  <2>1. 1 \in Positive /\ b * 1 = b /\ x = <<a, b>>
    BY <1>1 DEF Positive, Score
  <2>2. Above(x, <<a, b * i>>) <=> 1 < i
    BY <1>3, <2>1
  <2>3. Same(x, x)
    BY DEF Same
  <2> QED BY <1>2, <2>2, <2>3, AboveValues
<1> QED BY <1>2, <1>4, <1>5

----------------------------------------------------------------------------
(* Lists and their order *)

\* Sets of messages are finite.
LEMMA MessagesFinite ==
  /\ IsFiniteSet(Message)
  /\ \A S \in SUBSET Message : IsFiniteSet(S) /\ Cardinality(S) \in Nat
<1>1. IsFiniteSet(Message)
  BY FS_Interval, MessageAssumption DEF Message
<1>2. \A S \in SUBSET Message : IsFiniteSet(S)
  BY <1>1, FS_Subset
<1> QED BY <1>1, <1>2, FS_CardinalityType

\* A list of S has all of S, each once.
LEMMA ListOfSet ==
  ASSUME NEW S, IsFiniteSet(S), NEW list \in SetToSeqs(S)
  PROVE  /\ list \in Seq(S) /\ Len(list) = Cardinality(S) /\ Range(list) = S
         /\ \A i, j \in DOMAIN list : list[i] = list[j] => i = j
<1> DEFINE D == 1 .. Cardinality(S)
<1>1. Cardinality(S) \in Nat
  BY FS_CardinalityType
<1>2. list \in [D -> S] /\ \A i, j \in D : list[i] = list[j] => i = j
  BY DEF SetToSeqs
<1>3. list \in Injection(D, S)
  BY <1>2 DEF Injection, IsInjective
<1>4. Cardinality(D) = Cardinality(S)
  BY <1>1, FS_Interval
<1>5. list \in Surjection(D, S)
  BY <1>3, <1>4, FS_Injection
<1>6. Range(list) = S
  BY <1>2, <1>5 DEF Surjection, Range
<1> QED BY <1>1, <1>2, <1>6

\* Conversely, a sequence of messages without repetition is a list.
LEMMA IsAList ==
  ASSUME NEW list \in Seq(Message), \A i, j \in DOMAIN list : list[i] = list[j] => i = j
  PROVE  list \in Lists /\ list \in SetToSeqs(Range(list)) /\ Len(list) = Cardinality(Range(list))
<1> DEFINE S == Range(list)
           D == 1 .. Len(list)
<1>1. S \in SUBSET Message /\ IsFiniteSet(S) /\ list \in [D -> S]
  BY MessagesFinite DEF Range
<1>2. list \in Injection(D, S) /\ list \in Surjection(D, S)
  BY <1>1 DEF Injection, IsInjective, Surjection, Range
<1>3. Cardinality(D) = Cardinality(S)
  BY <1>1, <1>2, FS_Injection
<1>4. Cardinality(D) = Len(list)
  <2>1. Len(list) \in Nat
    OBVIOUS
  <2> QED BY <2>1, FS_Interval
<1>5. list \in SetToSeqs(S)
  <2>1. D = 1 .. Cardinality(S) /\ \A i, j \in D : i # j => list[i] # list[j]
    BY <1>3, <1>4
  <2> HIDE DEF S, D
  <2> QED BY <1>1, <2>1 DEF SetToSeqs
<1> HIDE DEF S
<1>6. list \in Lists
  BY <1>1, <1>5 DEF Lists, SetToAllKPermutations
<1> QED BY <1>3, <1>4, <1>5, <1>6 DEF S

\* What a list of messages is.
LEMMA ListFacts ==
  ASSUME NEW list \in Lists
  PROVE  /\ list \in Seq(Message) /\ Len(list) \in Nat /\ DOMAIN list = 1 .. Len(list)
         /\ Range(list) \in SUBSET Message
         /\ \A i, j \in DOMAIN list : list[i] = list[j] => i = j
         /\ \A i \in DOMAIN list : list[i] \in Range(list)
         /\ \A m \in Range(list) : \E i \in DOMAIN list : list[i] = m
         /\ Len(list) = Cardinality(Range(list)) /\ Len(list) <= Size
<1>1. PICK S \in SUBSET Message : list \in SetToSeqs(S)
  BY DEF Lists, SetToAllKPermutations
<1>2. IsFiniteSet(S) /\ Cardinality(S) <= Cardinality(Message) /\ Cardinality(Message) = Size
  <2>1. Size \in Nat /\ 1 \in Nat
    BY MessageAssumption
  <2>2. Cardinality(Message) = Size
    BY <2>1, FS_Interval DEF Message
  <2> QED BY <1>1, <2>2, MessagesFinite, FS_Subset
<1>3. list \in Seq(S) /\ Len(list) = Cardinality(S) /\ Range(list) = S
      /\ \A i, j \in DOMAIN list : list[i] = list[j] => i = j
  BY <1>1, <1>2, ListOfSet
<1>4. list \in Seq(Message) /\ Len(list) \in Nat /\ DOMAIN list = 1 .. Len(list)
  <2>1. list \in [1 .. Len(list) -> Message] /\ Len(list) \in Nat
    BY <1>1, <1>3
  <2> QED BY <2>1
<1> QED BY <1>1, <1>2, <1>3, <1>4 DEF Range

\* The rank of a member.
LEMMA RankFacts ==
  ASSUME NEW list \in Lists
  PROVE  /\ \A m \in Range(list) : Rank(list, m) \in 1 .. Len(list) /\ list[Rank(list, m)] = m
         /\ \A i \in DOMAIN list : Rank(list, list[i]) = i
<1>1. ASSUME NEW m \in Range(list) PROVE Rank(list, m) \in DOMAIN list /\ list[Rank(list, m)] = m
  BY ListFacts, Zenon DEF Rank
<1>2. ASSUME NEW i \in DOMAIN list PROVE Rank(list, list[i]) = i
  BY <1>1, ListFacts
<1> QED BY <1>1, <1>2, ListFacts

\* A strict total order on S.
IsOrder(R, S) ==
  /\ \A a \in S : <<a, a>> \notin R
  /\ \A a, b, c \in S : <<a, b>> \in R /\ <<b, c>> \in R => <<a, c>> \in R
  /\ \A a, b \in S : a # b => <<a, b>> \in R \/ <<b, a>> \in R

InOrder(list, R) == \A i, j \in DOMAIN list : i < j => <<list[i], list[j]>> \in R

\* Any finite set can be put in order: a member's place is one more than the
\* number of members before it.
LEMMA SortExists ==
  ASSUME NEW S, IsFiniteSet(S), NEW R, IsOrder(R, S)
  PROVE  \E list \in SetToSeqs(S) : InOrder(list, R)
<1> DEFINE n == Cardinality(S)
           D == 1 .. n
           Below(x) == {y \in S : <<y, x>> \in R}
           place == [x \in S |-> Cardinality(Below(x)) + 1]
<1>1. n \in Nat
  BY FS_CardinalityType
<1>2. ASSUME NEW x \in S PROVE IsFiniteSet(Below(x)) /\ Cardinality(Below(x)) \in 0 .. (n - 1)
  <2>1. Below(x) \in SUBSET (S \ {x})
    BY DEF IsOrder
  <2>2. IsFiniteSet(S \ {x}) /\ Cardinality(S \ {x}) = n - 1
    BY FS_RemoveElement
  <2>3. IsFiniteSet(Below(x)) /\ Cardinality(Below(x)) <= n - 1
    BY <2>1, <2>2, FS_Subset
  <2> QED BY <2>3, FS_CardinalityType
<1>3. ASSUME NEW x \in S, NEW y \in S, <<x, y>> \in R PROVE place[x] < place[y]
  <2>1. Below(x) \cup {x} \in SUBSET Below(y) /\ x \notin Below(x)
    BY <1>3 DEF IsOrder
  <2>2. Cardinality(Below(x) \cup {x}) = Cardinality(Below(x)) + 1
    BY <1>2, <2>1, FS_AddElement
  <2>3. Cardinality(Below(x) \cup {x}) <= Cardinality(Below(y))
    BY <1>2, <2>1, FS_Subset
  <2> HIDE DEF Below
  <2> QED BY <2>2, <2>3, <1>2
<1>4. place \in [S -> D]
  <2> HIDE DEF Below
  <2> QED BY <1>1, <1>2
<1> HIDE DEF place
<1>5. ASSUME NEW x \in S, NEW y \in S, x # y PROVE place[x] # place[y]
  <2>1. <<x, y>> \in R \/ <<y, x>> \in R
    BY <1>5 DEF IsOrder
  <2> QED BY <2>1, <1>3, <1>4
<1>6. place \in Injection(S, D)
  BY <1>4, <1>5 DEF Injection, IsInjective
<1>7. IsFiniteSet(D) /\ Cardinality(D) = n
  BY <1>1, FS_Interval
<1>8. place \in Surjection(S, D)
  BY <1>6, <1>7, FS_Injection
<1>9. \A i \in D : \E x \in S : place[x] = i
  BY <1>8 DEF Surjection
<1> DEFINE list == [i \in D |-> CHOOSE x \in S : place[x] = i]
<1>10. \A i \in D : list[i] \in S /\ place[list[i]] = i
  BY <1>9
<1>11. list \in [D -> S] /\ DOMAIN list = D
  BY <1>10
<1> HIDE DEF list
<1>12. list \in SetToSeqs(S)
  BY <1>10, <1>11 DEF SetToSeqs
<1>13. ASSUME NEW i \in D, NEW j \in D, i < j PROVE <<list[i], list[j]>> \in R
  <2>1. list[i] # list[j]
    BY <1>10, <1>13
  <2>2. <<list[i], list[j]>> \in R \/ <<list[j], list[i]>> \in R
    BY <2>1, <1>10 DEF IsOrder
  <2>3. ~(j < i)
    BY <1>13
  <2> QED BY <2>2, <2>3, <1>3, <1>10
<1> QED BY <1>11, <1>12, <1>13 DEF InOrder

\* A list of S in an order is a list in which the order is that of the ranks.
LEMMA SortFacts ==
  ASSUME NEW S \in SUBSET Message, NEW R, IsOrder(R, S),
         NEW list \in SetToSeqs(S), InOrder(list, R)
  PROVE  /\ list \in Lists /\ Range(list) = S
         /\ \A a, b \in S : Before(list, a, b) <=> <<a, b>> \in R
<1>1. list \in Lists
  BY DEF Lists, SetToAllKPermutations
<1>2. Range(list) = S
  BY ListOfSet, MessagesFinite
<1>3. ASSUME NEW a \in S, NEW b \in S PROVE Before(list, a, b) <=> <<a, b>> \in R
  <2>1. /\ Rank(list, a) \in DOMAIN list /\ list[Rank(list, a)] = a
        /\ Rank(list, b) \in DOMAIN list /\ list[Rank(list, b)] = b
    BY <1>1, <1>2, RankFacts, ListFacts
  <2>2. DOMAIN list = 1 .. Len(list) /\ Len(list) \in Nat
    BY <1>1, ListFacts
  <2>3. Rank(list, a) < Rank(list, b) => <<a, b>> \in R
    BY <2>1 DEF InOrder
  <2>4. Rank(list, b) < Rank(list, a) => <<b, a>> \in R
    BY <2>1 DEF InOrder
  <2>5. Rank(list, a) = Rank(list, b) => a = b
    BY <2>1
  <2>6. Rank(list, a) < Rank(list, b) \/ Rank(list, b) < Rank(list, a) \/ Rank(list, a) = Rank(list, b)
    BY <2>1, <2>2
  <2>7. ~(<<a, b>> \in R /\ <<b, a>> \in R) /\ (a = b => <<a, b>> \notin R)
    BY DEF IsOrder
  <2> QED BY <2>3, <2>4, <2>5, <2>6, <2>7 DEF Before
<1> QED BY <1>1, <1>2, <1>3

\* The operator Sort, whose second argument is an operator, is met with each of
\* its arguments in turn.
LEMMA ListsOrder ==
  ASSUME NEW list \in Lists
  PROVE  IsOrder({p \in Range(list) \X Range(list) : Before(list, p[1], p[2])}, Range(list))
<1>1. \A m \in Range(list) : Rank(list, m) \in Nat /\ list[Rank(list, m)] = m
  BY RankFacts, ListFacts
<1>2. ASSUME NEW a \in Range(list), NEW b \in Range(list), a # b PROVE Before(list, a, b) \/ Before(list, b, a)
  BY <1>1, <1>2 DEF Before
<1>3. ASSUME NEW a \in Range(list), NEW b \in Range(list), NEW c \in Range(list),
             Before(list, a, b), Before(list, b, c)
      PROVE  Before(list, a, c)
  BY <1>1, <1>3 DEF Before
<1>4. \A a \in Range(list) : ~Before(list, a, a)
  BY <1>1 DEF Before
<1> QED BY <1>2, <1>3, <1>4 DEF IsOrder

\* An order on a set orders its subsets.
LEMMA OrderOfPart ==
  ASSUME NEW S, NEW R, IsOrder(R, S), NEW T \in SUBSET S
  PROVE  IsOrder(R, T)
BY DEF IsOrder

\* Taking messages out of a list leaves the others in their order.
LEMMA WithoutFacts ==
  ASSUME NEW list \in Lists, NEW out
  PROVE  /\ Without(list, out) \in Lists
         /\ Range(Without(list, out)) = Range(list) \ out
         /\ \A a, b \in Range(list) \ out : Before(Without(list, out), a, b) <=> Before(list, a, b)
<1> DEFINE S == Range(list) \ out
           R == {p \in Range(list) \X Range(list) : Before(list, p[1], p[2])}
           kept == Without(list, out)
<1>1. S \in SUBSET Message /\ S \in SUBSET Range(list) /\ IsFiniteSet(S)
  BY ListFacts, MessagesFinite
<1>2. IsOrder(R, S)
  BY <1>1, ListsOrder, OrderOfPart
<1>3. \E l \in SetToSeqs(S) : InOrder(l, R)
  BY <1>1, <1>2, SortExists
<1>4. \E l \in SetToSeqs(S) : \A i, j \in DOMAIN l : i < j => Before(list, l[i], l[j])
  BY <1>3 DEF InOrder
<1>5. kept \in SetToSeqs(S) /\ \A i, j \in DOMAIN kept : i < j => Before(list, kept[i], kept[j])
  BY <1>4 DEF Without, Sort
<1> HIDE DEF kept
<1>6. \A i \in DOMAIN kept : kept[i] \in S
  BY <1>1, <1>5, ListOfSet
<1>7. InOrder(kept, R)
  BY <1>1, <1>5, <1>6 DEF InOrder
<1>8. kept \in Lists /\ Range(kept) = S /\ \A a, b \in S : Before(kept, a, b) <=> <<a, b>> \in R
  BY <1>1, <1>2, <1>5, <1>7, SortFacts
<1>9. \A a, b \in S : <<a, b>> \in R <=> Before(list, a, b)
  BY <1>1
<1> QED BY <1>8, <1>9 DEF kept

\* A cut keeps what is first.
LEMMA CutFacts ==
  ASSUME NEW list \in Lists, NEW k \in Nat
  PROVE  /\ Cut(list, k) \in Lists
         /\ Len(Cut(list, k)) = IF k < Len(list) THEN k ELSE Len(list)
         /\ \A i \in 1 .. Len(Cut(list, k)) : Cut(list, k)[i] = list[i]
         /\ Range(Cut(list, k)) \in SUBSET Range(list)
         /\ \A a \in Range(list), b \in Range(Cut(list, k)) :
               Before(list, a, b) => a \in Range(Cut(list, k))
         /\ \A a, b \in Range(Cut(list, k)) : Before(Cut(list, k), a, b) <=> Before(list, a, b)
<1> DEFINE n == IF k < Len(list) THEN k ELSE Len(list)
           cut == Cut(list, k)
<1>1. list \in Seq(Message) /\ Len(list) \in Nat /\ DOMAIN list = 1 .. Len(list)
  BY ListFacts
<1>2. n \in 0 .. Len(list)
  BY <1>1
<1>3. cut = SubSeq(list, 1, n)
  BY DEF Cut
<1> HIDE DEF n, cut
<1>4. cut \in Seq(Message) /\ Len(cut) = n /\ DOMAIN cut = 1 .. n /\ \A i \in 1 .. n : cut[i] = list[i]
  BY <1>1, <1>2, <1>3
<1>5. \A i, j \in DOMAIN cut : cut[i] = cut[j] => i = j
  BY <1>1, <1>2, <1>4, ListFacts
<1>6. cut \in Lists
  BY <1>4, <1>5, IsAList
<1>7. Range(cut) \in SUBSET Range(list)
  BY <1>1, <1>2, <1>4 DEF Range
<1>8. \A b \in Range(cut) : Rank(list, b) = Rank(cut, b) /\ Rank(list, b) \in 1 .. n
  <2> TAKE b \in Range(cut)
  <2>1. Rank(cut, b) \in 1 .. n /\ cut[Rank(cut, b)] = b
    BY <1>4, <1>6, RankFacts
  <2>2. list[Rank(cut, b)] = b /\ Rank(cut, b) \in DOMAIN list
    BY <1>1, <1>2, <1>4, <2>1
  <2>3. Rank(list, b) = Rank(cut, b)
    BY <2>2, RankFacts
  <2> QED BY <2>1, <2>3
<1>9. ASSUME NEW a \in Range(list), NEW b \in Range(cut), Before(list, a, b) PROVE a \in Range(cut)
  <2>1. Rank(list, a) \in 1 .. Len(list) /\ list[Rank(list, a)] = a
    BY RankFacts
  <2>2. Rank(list, a) \in 1 .. n
    BY <1>1, <1>2, <1>8, <1>9, <2>1 DEF Before
  <2> QED BY <1>4, <2>1, <2>2 DEF Range
<1>10. \A a, b \in Range(cut) : Before(cut, a, b) <=> Before(list, a, b)
  BY <1>8 DEF Before
<1> QED BY <1>4, <1>6, <1>7, <1>9, <1>10 DEF n, cut

\* One list after another, with other messages.
LEMMA ConcatFacts ==
  ASSUME NEW list \in Lists, NEW more \in Lists, Range(list) \cap Range(more) = {}
  PROVE  /\ list \o more \in Lists
         /\ Range(list \o more) = Range(list) \cup Range(more)
         /\ \A a, b \in Range(list) : Before(list \o more, a, b) <=> Before(list, a, b)
<1> DEFINE both == list \o more
           n == Len(list)
           k == Len(more)
<1>1. list \in Seq(Message) /\ n \in Nat /\ DOMAIN list = 1 .. n
      /\ more \in Seq(Message) /\ k \in Nat /\ DOMAIN more = 1 .. k
  BY ListFacts
<1>2. both \in Seq(Message) /\ Len(both) = n + k /\ DOMAIN both = 1 .. (n + k)
      /\ (\A i \in 1 .. n : both[i] = list[i]) /\ \A i \in 1 .. k : both[n + i] = more[i]
  BY <1>1
<1>3. \A i \in (n + 1) .. (n + k) : both[i] = more[i - n] /\ i - n \in 1 .. k
  <2> TAKE i \in (n + 1) .. (n + k)
  <2>1. i - n \in 1 .. k /\ i = n + (i - n)
    BY <1>1
  <2> QED BY <1>2, <2>1
<1> HIDE DEF both, n, k
<1>4. \A i \in 1 .. n : both[i] \in Range(list)
  BY <1>1, <1>2, ListFacts
<1>5. \A i \in (n + 1) .. (n + k) : both[i] \in Range(more)
  BY <1>1, <1>3, ListFacts
<1>6. ASSUME NEW i \in 1 .. (n + k), NEW j \in 1 .. (n + k), both[i] = both[j] PROVE i = j
  <2>1. CASE i \in 1 .. n /\ j \in 1 .. n
    BY <1>1, <1>2, <1>6, <2>1, ListFacts
  <2>2. CASE i \in (n + 1) .. (n + k) /\ j \in (n + 1) .. (n + k)
    <3>1. more[i - n] = more[j - n] /\ i - n \in DOMAIN more /\ j - n \in DOMAIN more
      BY <1>1, <1>3, <1>6, <2>2
    <3>2. i - n = j - n
      BY <3>1, ListFacts
    <3> QED BY <3>2, <1>1
  <2>3. ~(i \in 1 .. n /\ j \in (n + 1) .. (n + k)) /\ ~(j \in 1 .. n /\ i \in (n + 1) .. (n + k))
    BY <1>4, <1>5, <1>6
  <2> QED BY <1>1, <2>1, <2>2, <2>3
<1>7. both \in Lists
  BY <1>2, <1>6, IsAList
<1>8. Range(both) = Range(list) \cup Range(more)
  <2>1. Range(both) \subseteq Range(list) \cup Range(more)
    BY <1>1, <1>2, <1>4, <1>5 DEF Range
  <2>2. ASSUME NEW m \in Range(list) PROVE m \in Range(both)
    <3>1. PICK i \in 1 .. n : list[i] = m
      BY <1>1, ListFacts
    <3>2. i \in DOMAIN both /\ both[i] = m
      BY <1>1, <1>2, <3>1
    <3> QED BY <3>2 DEF Range
  <2>3. ASSUME NEW m \in Range(more) PROVE m \in Range(both)
    <3>1. PICK i \in 1 .. k : more[i] = m
      BY <1>1, ListFacts
    <3>2. n + i \in DOMAIN both /\ both[n + i] = m
      BY <1>1, <1>2, <3>1
    <3> QED BY <3>2 DEF Range
  <2> QED BY <2>1, <2>2, <2>3
<1>9. \A m \in Range(list) : Rank(both, m) = Rank(list, m)
  <2> TAKE m \in Range(list)
  <2>1. Rank(list, m) \in 1 .. n /\ list[Rank(list, m)] = m
    BY RankFacts DEF n
  <2>2. Rank(list, m) \in DOMAIN both /\ both[Rank(list, m)] = m
    BY <1>1, <1>2, <2>1
  <2> QED BY <1>7, <2>2, RankFacts
<1> QED BY <1>7, <1>8, <1>9 DEF Before, both

\* Messages in the order of time, for the sorts of a state chain and of tags.
TimeOK == log \in Log

\* Both orders of time are strict and total, messages without a time included.
LEMMA TimesOrder ==
  ASSUME TimeOK
  PROVE  /\ IsOrder({p \in Message \X Message : InTime(p[1], p[2])}, Message)
         /\ IsOrder({p \in Message \X Message : NewestFirst(p[1], p[2])}, Message)
<1>1. \A m \in Message : m \in Int /\ (At(m) # None => At(m) \in Int)
  BY MessageAssumption DEF TimeOK, At, Message
<1> USE DEF OldestFirst, NewestFirst, Timed, Happened, SameTime
<1>2. IsOrder({p \in Message \X Message : OldestFirst(p[1], p[2])}, Message)
  <2>1. \A a \in Message : ~OldestFirst(a, a)
    BY <1>1
  <2>2. \A a, b, c \in Message : OldestFirst(a, b) /\ OldestFirst(b, c) => OldestFirst(a, c)
    BY <1>1
  <2>3. \A a, b \in Message : a # b => OldestFirst(a, b) \/ OldestFirst(b, a)
    BY <1>1
  <2> HIDE DEF OldestFirst
  <2> QED BY <2>1, <2>2, <2>3 DEF IsOrder
<1>3. IsOrder({p \in Message \X Message : NewestFirst(p[1], p[2])}, Message)
  <2>1. \A a \in Message : ~NewestFirst(a, a)
    BY <1>1
  <2>2. \A a, b, c \in Message : NewestFirst(a, b) /\ NewestFirst(b, c) => NewestFirst(a, c)
    BY <1>1
  <2>3. \A a, b \in Message : a # b => NewestFirst(a, b) \/ NewestFirst(b, a)
    BY <1>1
  <2> HIDE DEF NewestFirst
  <2> QED BY <2>1, <2>2, <2>3 DEF IsOrder
<1> HIDE DEF OldestFirst, NewestFirst
<1>4. CASE query.history
  <2>1. \A a, b : InTime(a, b) <=> OldestFirst(a, b)
    BY <1>4 DEF InTime
  <2> QED BY <1>2, <1>3, <2>1 DEF IsOrder
<1>5. CASE ~query.history
  <2>1. \A a, b : InTime(a, b) <=> NewestFirst(a, b)
    BY <1>5 DEF InTime
  <2> QED BY <1>3, <2>1 DEF IsOrder
<1> QED BY <1>3, <1>4, <1>5

\* Of two messages, one comes first in time.
LEMMA TimesTotal ==
  ASSUME TimeOK, NEW a \in Message, NEW b \in Message, a # b
  PROVE  InTime(a, b) \/ InTime(b, a)
<1> DEFINE R == {p \in Message \X Message : InTime(p[1], p[2])}
<1>1. <<a, b>> \in R \/ <<b, a>> \in R
  <2>1. IsOrder(R, Message)
    BY TimesOrder
  <2> HIDE DEF R
  <2> QED BY <2>1 DEF IsOrder
<1> QED BY <1>1

\* A state chain is sorted by time.
LEMMA InTimeSort ==
  ASSUME TimeOK, NEW S \in SUBSET Message
  PROVE  /\ Sort(S, InTime) \in Lists /\ Range(Sort(S, InTime)) = S
         /\ \A a, b \in S : Before(Sort(S, InTime), a, b) <=> InTime(a, b)
<1> DEFINE R == {p \in Message \X Message : InTime(p[1], p[2])}
           list == Sort(S, InTime)
<1>1. IsFiniteSet(S) /\ IsOrder(R, S)
  BY MessagesFinite, TimesOrder, OrderOfPart
<1>2. \E l \in SetToSeqs(S) : InOrder(l, R)
  BY <1>1, SortExists
<1>3. \E l \in SetToSeqs(S) : \A i, j \in DOMAIN l : i < j => InTime(l[i], l[j])
  BY <1>2 DEF InOrder
<1>4. list \in SetToSeqs(S) /\ \A i, j \in DOMAIN list : i < j => InTime(list[i], list[j])
  BY <1>3 DEF Sort
<1> HIDE DEF list
<1>5. \A i \in DOMAIN list : list[i] \in S
  BY <1>1, <1>4, ListOfSet
<1>6. InOrder(list, R)
  BY <1>4, <1>5 DEF InOrder
<1>7. list \in Lists /\ Range(list) = S /\ \A a, b \in S : Before(list, a, b) <=> <<a, b>> \in R
  BY <1>1, <1>4, <1>6, SortFacts
<1> QED BY <1>7 DEF list

\* Tagged messages are sorted, the newest first.
LEMMA NewestFirstSort ==
  ASSUME TimeOK, NEW S \in SUBSET Message
  PROVE  Sort(S, NewestFirst) \in Lists /\ Range(Sort(S, NewestFirst)) = S
<1> DEFINE R == {p \in Message \X Message : NewestFirst(p[1], p[2])}
           list == Sort(S, NewestFirst)
<1>1. IsFiniteSet(S) /\ IsOrder(R, S)
  BY MessagesFinite, TimesOrder, OrderOfPart
<1>2. \E l \in SetToSeqs(S) : InOrder(l, R)
  BY <1>1, SortExists
<1>3. \E l \in SetToSeqs(S) : \A i, j \in DOMAIN l : i < j => NewestFirst(l[i], l[j])
  BY <1>2 DEF InOrder
<1>4. list \in SetToSeqs(S)
  BY <1>3 DEF Sort
<1> HIDE DEF list
<1>5. list \in Lists /\ Range(list) = S
  BY <1>1, <1>4, ListOfSet DEF Lists, SetToAllKPermutations
<1> QED BY <1>5 DEF list

\* Ordering lexical hits neither adds nor loses one.
LEMMA OrderLexicalHitsFacts ==
  ASSUME TimeOK, NEW hits \in Lists
  PROVE  OrderLexicalHits(hits) \in Lists
<1>1. CASE ~WantsState
  BY <1>1 DEF OrderLexicalHits
<1>2. CASE WantsState
  <2> DEFINE S == Range(hits)
             R == {p \in S \X S : IF query.history \/ ~SameTime(p[1], p[2]) THEN InTime(p[1], p[2])
                                                                           ELSE Before(hits, p[1], p[2])}
             list == OrderLexicalHits(hits)
  <2>1. S \in SUBSET Message /\ IsFiniteSet(S)
    BY ListFacts, MessagesFinite
  <2>2. IsOrder({p \in Message \X Message : InTime(p[1], p[2])}, S)
    BY <2>1, TimesOrder, OrderOfPart
  <2>3. IsOrder({p \in S \X S : Before(hits, p[1], p[2])}, S)
    BY ListsOrder
  <2>4. \A a, b, c \in S : ~InTime(a, a) /\ (InTime(a, b) /\ InTime(b, c) => InTime(a, c)) /\ (a # b => InTime(a, b) \/ InTime(b, a))
    BY <2>1, <2>2 DEF IsOrder
  <2>5. \A a, b, c \in S : ~Before(hits, a, a) /\ (Before(hits, a, b) /\ Before(hits, b, c) => Before(hits, a, c))
                         /\ (a # b => Before(hits, a, b) \/ Before(hits, b, a))
    BY <2>3 DEF IsOrder
  <2>6. ASSUME query.history PROVE IsOrder(R, S)
    <3>1. \A a, b \in S : <<a, b>> \in R <=> InTime(a, b)
      BY <2>6
    <3> HIDE DEF R
    <3> QED BY <3>1, <2>4 DEF IsOrder
  <2>7. ASSUME ~query.history PROVE IsOrder(R, S)
    <3>1. \A a, b \in S : <<a, b>> \in R <=> IF SameTime(a, b) THEN Before(hits, a, b) ELSE InTime(a, b)
      BY <2>7
    <3>2. \A a, b, c \in S : SameTime(a, b) => SameTime(b, a) /\ (InTime(a, c) /\ ~SameTime(a, c) => InTime(b, c) /\ ~SameTime(b, c))
                                             /\ (InTime(c, a) /\ ~SameTime(c, a) => InTime(c, b) /\ ~SameTime(c, b))
      BY <2>7 DEF InTime, NewestFirst, SameTime, Timed, Happened
    <3>3. \A a, b, c \in S : SameTime(a, b) /\ SameTime(b, c) => SameTime(a, c)
      BY DEF SameTime
    <3>4. \A a \in S : SameTime(a, a)
      BY DEF SameTime
    <3>5. \A a \in S : <<a, a>> \notin R
      BY <3>1, <3>4, <2>5
    <3>6. \A a, b \in S : a # b => <<a, b>> \in R \/ <<b, a>> \in R
      BY <3>1, <3>2, <2>4, <2>5
    <3>7. ASSUME NEW a \in S, NEW b \in S, NEW c \in S, <<a, b>> \in R, <<b, c>> \in R PROVE <<a, c>> \in R
      <4> HIDE DEF R, S
      <4>1. CASE SameTime(a, b) /\ SameTime(b, c)
        BY <4>1, <3>1, <3>3, <3>7, <2>5
      <4>2. CASE SameTime(a, b) /\ ~SameTime(b, c)
        <5>1. SameTime(b, a) /\ InTime(b, c)
          BY <4>2, <3>1, <3>2, <3>7
        <5>2. InTime(a, c) /\ ~SameTime(a, c)
          BY <4>2, <5>1, <3>2
        <5> QED BY <5>2, <3>1
      <4>3. CASE ~SameTime(a, b) /\ SameTime(b, c)
        <5>1. InTime(a, b)
          BY <4>3, <3>1, <3>7
        <5>2. InTime(a, c) /\ ~SameTime(a, c)
          BY <4>3, <5>1, <3>2
        <5> QED BY <5>2, <3>1
      <4>4. CASE ~SameTime(a, b) /\ ~SameTime(b, c)
        <5>1. InTime(a, b) /\ InTime(b, c)
          BY <4>4, <3>1, <3>7
        <5>2. InTime(a, c)
          BY <5>1, <2>4
        <5>3. ~SameTime(a, c)
          <6>1. SUFFICES ASSUME SameTime(a, c) PROVE FALSE
            OBVIOUS
          <6>2. SameTime(c, a) 
            BY <6>1 DEF SameTime
          <6>3. InTime(c, b)
            BY <6>1, <5>1, <4>4, <3>2
          <6> QED BY <6>3, <5>1, <2>4
        <5> QED BY <5>2, <5>3, <3>1
      <4> QED BY <4>1, <4>2, <4>3, <4>4
    <3> HIDE DEF R
    <3> QED BY <3>5, <3>6, <3>7 DEF IsOrder
  <2>8. \E l \in SetToSeqs(S) : InOrder(l, R)
    BY <2>1, <2>6, <2>7, SortExists
  <2>9. \E l \in SetToSeqs(S) : \A i, j \in DOMAIN l : i < j =>
          IF query.history \/ ~SameTime(l[i], l[j]) THEN InTime(l[i], l[j]) ELSE Before(hits, l[i], l[j])
    <3>1. PICK l \in SetToSeqs(S) : InOrder(l, R)
      BY <2>8
    <3>2. \A i, j \in DOMAIN l : i < j => <<l[i], l[j]>> \in R
      BY <3>1 DEF InOrder
    <3> QED BY <3>2
  <2>10. list \in SetToSeqs(S)
    BY <1>2, <2>9 DEF OrderLexicalHits, Sort
  <2> QED BY <2>1, <2>10, ListOfSet DEF Lists, SetToAllKPermutations
<1> QED BY <1>1, <1>2

----------------------------------------------------------------------------
(* Scores *)

\* By score, and by sequence among equals.
LEMMA ScoresOrder ==
  ASSUME NEW S \in SUBSET Message, NEW score \in [S -> Score]
  PROVE  /\ IsOrder({p \in S \X S : Above(score[p[1]], score[p[2]])
                                 \/ (~Above(score[p[2]], score[p[1]]) /\ p[1] < p[2])}, S)
         /\ IsOrder({p \in S \X S : Above(score[p[1]], score[p[2]])
                                 \/ (~Above(score[p[2]], score[p[1]]) /\ p[1] > p[2])}, S)
<1> DEFINE above(a, b) == Above(score[a], score[b])
           less(a, b)  == a < b
           older(a, b) == above(a, b) \/ (~above(b, a) /\ less(a, b))
           newer(a, b) == above(a, b) \/ (~above(b, a) /\ less(b, a))
<1>1. \A m \in S : m \in Int /\ score[m] \in Score
  BY DEF Message
<1>2. ASSUME NEW a \in S, NEW b \in S, NEW c \in S
      PROVE  /\ ~above(a, a)
             /\ above(a, b) => ~above(b, a)
             /\ above(a, b) /\ ~above(c, b) => above(a, c)
             /\ ~above(b, a) /\ above(b, c) => above(a, c)
             /\ ~above(b, a) /\ ~above(c, b) => ~above(c, a)
  BY <1>1, AboveOrder DEF AtLeast
<1>3. ASSUME NEW a \in S, NEW b \in S, NEW c \in S
      PROVE  ~less(a, a) /\ (a # b => less(a, b) \/ less(b, a)) /\ (less(a, b) /\ less(b, c) => less(a, c))
  BY <1>1
<1> HIDE DEF above, less
<1>4. \A a \in S : ~older(a, a) /\ ~newer(a, a)
  BY <1>2, <1>3
<1>5. \A a, b \in S : a # b => (older(a, b) \/ older(b, a)) /\ (newer(a, b) \/ newer(b, a))
  BY <1>2, <1>3
<1>6. \A a, b, c \in S : older(a, b) /\ older(b, c) => older(a, c)
  BY <1>2, <1>3
<1>7. \A a, b, c \in S : newer(a, b) /\ newer(b, c) => newer(a, c)
  BY <1>2, <1>3
<1> HIDE DEF older, newer
<1>8. IsOrder({p \in S \X S : older(p[1], p[2])}, S) /\ IsOrder({p \in S \X S : newer(p[1], p[2])}, S)
  BY <1>4, <1>5, <1>6, <1>7 DEF IsOrder
<1> QED BY <1>8 DEF older, newer, above, less

\* What sorting by score gives, with the older first among equals.
LEMMA OlderFirstFacts ==
  ASSUME NEW S \in SUBSET Message, NEW score \in [S -> Score]
  PROVE  /\ OlderFirst(score).order \in Lists /\ Range(OlderFirst(score).order) = S
         /\ OlderFirst(score).score = score
         /\ \A a, b \in S : Before(OlderFirst(score).order, a, b) <=>
              Above(score[a], score[b]) \/ (~Above(score[b], score[a]) /\ a < b)
<1> DEFINE before(a, b) == Above(score[a], score[b]) \/ (~Above(score[b], score[a]) /\ a < b)
           R == {p \in S \X S : before(p[1], p[2])}
           list == OlderFirst(score).order
<1>1. IsFiniteSet(S) /\ IsOrder(R, S) /\ DOMAIN score = S
  BY MessagesFinite, ScoresOrder
<1>2. \E l \in SetToSeqs(S) : InOrder(l, R)
  BY <1>1, SortExists
<1>3. \E l \in SetToSeqs(S) : \A i, j \in DOMAIN l : i < j => before(l[i], l[j])
  <2> HIDE DEF before
  <2> QED BY <1>2 DEF InOrder
<1>4. list \in SetToSeqs(S) /\ \A i, j \in DOMAIN list : i < j => before(list[i], list[j])
  BY <1>1, <1>3 DEF Sort, OlderFirst
<1> HIDE DEF list, before
<1>5. \A i \in DOMAIN list : list[i] \in S
  BY <1>1, <1>4, ListOfSet
<1>6. InOrder(list, R)
  BY <1>4, <1>5 DEF InOrder
<1>7. list \in Lists /\ Range(list) = S /\ \A a, b \in S : Before(list, a, b) <=> <<a, b>> \in R
  BY <1>1, <1>4, <1>6, SortFacts
<1>8. \A a, b \in S : Before(list, a, b) <=> before(a, b)
  BY <1>7
<1>9. OlderFirst(score).score = score
  BY DEF OlderFirst
<1> QED BY <1>7, <1>8, <1>9 DEF list, before

\* The same, with the newer first among equals.
LEMMA NewerFirstFacts ==
  ASSUME NEW S \in SUBSET Message, NEW score \in [S -> Score]
  PROVE  /\ NewerFirst(score).order \in Lists /\ Range(NewerFirst(score).order) = S
         /\ NewerFirst(score).score = score
         /\ \A a, b \in S : Before(NewerFirst(score).order, a, b) <=>
              Above(score[a], score[b]) \/ (~Above(score[b], score[a]) /\ a > b)
<1> DEFINE before(a, b) == Above(score[a], score[b]) \/ (~Above(score[b], score[a]) /\ a > b)
           R == {p \in S \X S : before(p[1], p[2])}
           list == NewerFirst(score).order
<1>1. IsFiniteSet(S) /\ IsOrder(R, S) /\ DOMAIN score = S
  BY MessagesFinite, ScoresOrder
<1>2. \E l \in SetToSeqs(S) : InOrder(l, R)
  BY <1>1, SortExists
<1>3. \E l \in SetToSeqs(S) : \A i, j \in DOMAIN l : i < j => before(l[i], l[j])
  <2> HIDE DEF before
  <2> QED BY <1>2 DEF InOrder
<1>4. list \in SetToSeqs(S) /\ \A i, j \in DOMAIN list : i < j => before(list[i], list[j])
  BY <1>1, <1>3 DEF Sort, NewerFirst
<1> HIDE DEF list, before
<1>5. \A i \in DOMAIN list : list[i] \in S
  BY <1>1, <1>4, ListOfSet
<1>6. InOrder(list, R)
  BY <1>4, <1>5 DEF InOrder
<1>7. list \in Lists /\ Range(list) = S /\ \A a, b \in S : Before(list, a, b) <=> <<a, b>> \in R
  BY <1>1, <1>4, <1>6, SortFacts
<1>8. \A a, b \in S : Before(list, a, b) <=> before(a, b)
  BY <1>7
<1>9. NewerFirst(score).score = score
  BY DEF NewerFirst
<1> QED BY <1>7, <1>8, <1>9 DEF list, before

\* Normalization has a best score to divide by, and keeps the order.
LEMMA NormalizedFacts ==
  ASSUME NEW S \in SUBSET Message, NEW score \in [S -> Score]
  PROVE  /\ Normalized(score) \in [S -> Score]
         /\ \A a, b \in S : Above(Normalized(score)[a], Normalized(score)[b]) <=> Above(score[a], score[b])
<1> DEFINE best == CHOOSE b \in S : \A c \in S : ~Above(score[c], score[b])
           list == OlderFirst(score).order
<1>1. ASSUME S # {} PROVE best \in S
  <2>1. list \in Lists /\ Range(list) = S
    BY OlderFirstFacts
  <2> DEFINE b == list[1]
  <2>2. PICK m \in Range(list) : TRUE
    BY <1>1, <2>1
  <2>3. 1 \in DOMAIN list /\ b \in S /\ Rank(list, b) = 1
    BY <2>1, <2>2, ListFacts, RankFacts
  <2>4. ASSUME NEW c \in S PROVE ~Above(score[c], score[b])
    <3>1. ~Before(list, c, b)
      BY <2>1, <2>3, ListFacts, RankFacts DEF Before
    <3> QED BY <2>3, <3>1, OlderFirstFacts
  <2> QED BY <2>3, <2>4
<1>2. Normalized(score) = [m \in S |-> DividedBy(score[m], score[best])]
  BY DEF Normalized
<1> HIDE DEF best
<1>3. ASSUME NEW m \in S PROVE DividedBy(score[m], score[best]) \in Score
  BY <1>1, QuotientValue
<1>4. ASSUME NEW a \in S, NEW b \in S
      PROVE  Above(DividedBy(score[a], score[best]), DividedBy(score[b], score[best])) <=> Above(score[a], score[b])
  BY <1>1, QuotientOrder
<1> QED BY <1>2, <1>3, <1>4

\* Scores of some messages.
Scores == UNION {[S -> Score] : S \in SUBSET Message}

\* A score function scores its domain.
LEMMA ScoresAre ==
  /\ \A score \in Scores : DOMAIN score \in SUBSET Message /\ score \in [DOMAIN score -> Score]
  /\ \A S \in SUBSET Message : \A score \in [S -> Score] : score \in Scores /\ DOMAIN score = S
<1>1. ASSUME NEW score \in Scores PROVE DOMAIN score \in SUBSET Message /\ score \in [DOMAIN score -> Score]
  <2>1. PICK S \in SUBSET Message : score \in [S -> Score]
    BY DEF Scores
  <2> QED BY <2>1
<1>2. ASSUME NEW S \in SUBSET Message, NEW score \in [S -> Score] PROVE score \in Scores /\ DOMAIN score = S
  BY DEF Scores
<1> QED BY <1>1, <1>2

\* What a route adds to the scores.
Share(list, m, weight, offset) == DividedBy(weight, <<offset + Rank(list, m), 1>>)

\* What a route adds to each message, and to which.
LEMMA BoostedFacts ==
  ASSUME NEW score \in Scores, NEW list \in Lists, NEW weight \in Score, NEW offset \in Nat
  PROVE  /\ Boosted(score, list, weight, offset) \in Scores
         /\ DOMAIN Boosted(score, list, weight, offset) = DOMAIN score \cup Range(list)
         /\ \A m \in DOMAIN score \ Range(list) : Boosted(score, list, weight, offset)[m] = score[m]
         /\ \A m \in Range(list) \ DOMAIN score : Boosted(score, list, weight, offset)[m] = Share(list, m, weight, offset)
         /\ \A m \in Range(list) \cap DOMAIN score :
              Boosted(score, list, weight, offset)[m] = Plus(score[m], Share(list, m, weight, offset))
<1> DEFINE boosted == Boosted(score, list, weight, offset)
           part(m) == Share(list, m, weight, offset)
           S == DOMAIN score
<1>1. \A m \in Range(list) : part(m) \in Score
  <2> TAKE m \in Range(list)
  <2>1. Rank(list, m) \in 1 .. Len(list) /\ Len(list) \in Nat
    BY RankFacts, ListFacts
  <2>2. offset + Rank(list, m) \in Positive
    BY <2>1 DEF Positive
  <2> QED BY <2>2, ShareOrder DEF Share
<1>2. boosted = [m \in S \cup Range(list) |->
                   IF m \notin Range(list) THEN score[m] ELSE IF m \in S THEN Plus(score[m], part(m)) ELSE part(m)]
  BY DEF Boosted, Share
<1> HIDE DEF boosted, part
<1>3. S \in SUBSET Message /\ \A m \in S : score[m] \in Score
  BY ScoresAre
<1>4. \A m \in S \cap Range(list) : Plus(score[m], part(m)) \in Score
  BY <1>1, <1>3, SumValue
<1> HIDE DEF S
<1>5. boosted \in [S \cup Range(list) -> Score]
  BY <1>1, <1>2, <1>3, <1>4
<1>6. S \cup Range(list) \in SUBSET Message
  BY <1>3, ListFacts
<1>7. boosted \in Scores /\ DOMAIN boosted = S \cup Range(list)
  BY <1>5, <1>6, ScoresAre
<1> QED BY <1>2, <1>7 DEF boosted, part, S

\* The empty ranking.
LEMMA EmptyFacts ==
  /\ << >> \in Lists /\ Range(<< >>) = {} /\ << >> \in [{} -> Score]
  /\ \A list \in Lists : Range(list) = {} <=> list = << >>
<1>1. << >> \in Seq(Message) /\ DOMAIN << >> = {}
  OBVIOUS
<1>2. << >> \in Lists
  BY <1>1, IsAList
<1>3. ASSUME NEW list \in Lists, Range(list) = {} PROVE list = << >>
  <2>1. list \in Seq(Message) /\ DOMAIN list = 1 .. Len(list) /\ Len(list) \in Nat /\ 1 \notin DOMAIN list
    BY <1>3, ListFacts
  <2>2. Len(list) = 0
    BY <2>1
  <2> QED BY <2>1, <2>2
<1>4. Range(<< >>) = {}
  BY <1>1 DEF Range
<1>5. << >> \in [{} -> Score]
  OBVIOUS
<1> QED BY <1>2, <1>3, <1>4, <1>5

\* A ranking: each message once, with a positive score.
Ranked(r) ==
  /\ r = [order |-> r.order, score |-> r.score]
  /\ r.order \in Lists /\ r.score \in [Ids(r) -> Score]

\* A list and scores of its messages make a ranking.
LEMMA ARanking ==
  ASSUME NEW order \in Lists, NEW score \in [Range(order) -> Score]
  PROVE  Ranked([order |-> order, score |-> score]) /\ Ids([order |-> order, score |-> score]) = Range(order)
BY DEF Ranked, Ids

\* Such a ranking is one in the sense of TypeOK.
LEMMA RankedIsRanking ==
  ASSUME NEW r, Ranked(r)
  PROVE  IsRanking(r) /\ Ids(r) \in SUBSET Message
BY ListFacts DEF Ranked, IsRanking, Ids

\* Scores in order are a ranking.
LEMMA NewerFirstRanked ==
  ASSUME NEW S \in SUBSET Message, NEW score \in [S -> Score]
  PROVE  Ranked(NewerFirst(score)) /\ Ids(NewerFirst(score)) = S
<1>1. NewerFirst(score) = [order |-> NewerFirst(score).order, score |-> NewerFirst(score).score]
  BY DEF NewerFirst
<1> QED BY <1>1, NewerFirstFacts DEF Ranked, Ids

\* The same, with the older first among equals.
LEMMA OlderFirstRanked ==
  ASSUME NEW S \in SUBSET Message, NEW score \in [S -> Score]
  PROVE  Ranked(OlderFirst(score)) /\ Ids(OlderFirst(score)) = S
<1>1. OlderFirst(score) = [order |-> OlderFirst(score).order, score |-> OlderFirst(score).score]
  BY DEF OlderFirst
<1> QED BY <1>1, OlderFirstFacts DEF Ranked, Ids

\* Normalized scores in order are a ranking.
LEMMA ScoresRanked ==
  ASSUME NEW score \in Scores
  PROVE  Ranked(NewerFirst(Normalized(score)))
<1>1. DOMAIN score \in SUBSET Message /\ score \in [DOMAIN score -> Score]
  BY ScoresAre
<1>2. Normalized(score) \in [DOMAIN score -> Score]
  BY <1>1, NormalizedFacts
<1> QED BY <1>1, <1>2, NewerFirstRanked

\* Scores by rank are a ranking with the same order.
LEMMA ReciprocalRanked ==
  ASSUME NEW list \in Lists
  PROVE  /\ Ranked(Reciprocal(list)) /\ Ids(Reciprocal(list)) = Range(list) /\ Reciprocal(list).order = list
         /\ \A a, b \in Range(list) :
              Above(Reciprocal(list).score[a], Reciprocal(list).score[b]) <=> Before(list, a, b)
<1>1. Reciprocal(list).order = list /\ Reciprocal(list).score = [m \in Range(list) |-> <<1, Rank(list, m)>>]
  BY DEF Reciprocal
<1>2. \A m \in Range(list) : Rank(list, m) \in Positive
  BY RankFacts, ListFacts DEF Positive
<1>3. \A m \in Range(list) : <<1, Rank(list, m)>> \in Score
  BY <1>2 DEF Score, Positive
<1>4. \A k, l \in Positive : Above(<<1, k>>, <<1, l>>) <=> k < l
  BY DEF Above, Positive
<1>5. [m \in Range(list) |-> <<1, Rank(list, m)>>] \in [Range(list) -> Score]
  BY <1>3
<1>6. Ranked(Reciprocal(list)) /\ Ids(Reciprocal(list)) = Range(list)
  BY <1>5, ARanking DEF Reciprocal
<1> QED BY <1>1, <1>2, <1>3, <1>4, <1>6 DEF Before

\* The ranking that the search starts from.
LEMMA NothingRanked == Ranked(Nothing) /\ Ids(Nothing) = {} /\ Nothing.order = << >> /\ Nothing.score = << >>
<1>1. Ranked(Nothing) /\ Ids(Nothing) = {} /\ Nothing.order = << >>
  BY EmptyFacts, ReciprocalRanked DEF Nothing
<1>2. Nothing.score \in [{} -> Score]
  BY <1>1 DEF Ranked
<1> QED BY <1>1, <1>2, EmptyFacts

\* A filter leaves the order and the scores of what it leaves.
LEMMA ShownRanked ==
  ASSUME NEW r, Ranked(r)
  PROVE  /\ Ranked(Shown(r)) /\ Ids(Shown(r)) = Ids(r) \ hidden
         /\ \A m \in Ids(Shown(r)) : Shown(r).score[m] = r.score[m]
         /\ \A a, b \in Ids(Shown(r)) : Before(Shown(r).order, a, b) <=> Before(r.order, a, b)
<1>1. Shown(r).order = Without(r.order, hidden) /\ Shown(r).score = [m \in Ids(r) \ hidden |-> r.score[m]]
  BY DEF Shown
<1>2. Ids(r) = Range(r.order) /\ Ids(Shown(r)) = Range(Shown(r).order)
  BY DEF Ids
<1>3. Shown(r) = [order |-> Shown(r).order, score |-> Shown(r).score]
  BY DEF Shown
<1> QED BY <1>1, <1>2, <1>3, WithoutFacts DEF Ranked

\* A cut leaves the order and the scores, and nothing ahead of what it leaves goes.
LEMMA TruncatedRanked ==
  ASSUME NEW r, Ranked(r), NEW k \in Nat
  PROVE  /\ Ranked(Truncated(r, k)) /\ Ids(Truncated(r, k)) \in SUBSET Ids(r)
         /\ \A m \in Ids(Truncated(r, k)) : Truncated(r, k).score[m] = r.score[m]
         /\ \A a, b \in Ids(Truncated(r, k)) : Before(Truncated(r, k).order, a, b) <=> Before(r.order, a, b)
         /\ \A a \in Ids(r), b \in Ids(Truncated(r, k)) : Before(r.order, a, b) => a \in Ids(Truncated(r, k))
<1>1. Truncated(r, k).order = Cut(r.order, k)
      /\ Truncated(r, k).score = [m \in Range(Cut(r.order, k)) |-> r.score[m]]
  BY DEF Truncated
<1>2. Ids(r) = Range(r.order) /\ Ids(Truncated(r, k)) = Range(Truncated(r, k).order)
  BY DEF Ids
<1>3. Truncated(r, k) = [order |-> Truncated(r, k).order, score |-> Truncated(r, k).score]
  BY DEF Truncated
<1> QED BY <1>1, <1>2, <1>3, CutFacts DEF Ranked

\* Joining scores to a ranking changes none of those it has.
LEMMA JoinedFacts ==
  ASSUME NEW r, Ranked(r), NEW S \in SUBSET Message, NEW score \in [S -> Score]
  PROVE  /\ Joined(r, score) \in [Ids(r) \cup S -> Score] /\ Ids(r) \cup S \in SUBSET Message
         /\ \A m \in Ids(r) : Joined(r, score)[m] = r.score[m]
         /\ \A m \in S \ Ids(r) : Joined(r, score)[m] = score[m]
<1>1. Ids(r) \in SUBSET Message
  BY RankedIsRanking
<1>2. Joined(r, score) = [m \in Ids(r) \cup S |-> IF m \in Ids(r) THEN r.score[m] ELSE score[m]]
  BY DEF Joined
<1> QED BY <1>1, <1>2 DEF Ranked

----------------------------------------------------------------------------
(* Fusion *)

\* The scores before normalization, and what one rank adds to them.
Mixed(one, two, weight) == Boosted(Boosted(<< >>, one, <<1, 1>>, 60), two, weight, 60)

Part(list, m, weight) == Share(list, m, weight, 60)

\* The lower the rank, the higher the part.
LEMMA PartFacts ==
  ASSUME NEW list \in Lists, NEW weight \in Score
  PROVE  /\ \A m \in Range(list) : Part(list, m, weight) \in Score
         /\ \A a, b \in Range(list) : Above(Part(list, a, weight), Part(list, b, weight)) <=> Rank(list, a) < Rank(list, b)
<1>1. \A m \in Range(list) : 60 + Rank(list, m) \in Positive /\ Rank(list, m) \in Nat
  BY RankFacts, ListFacts DEF Positive
<1>2. \A m \in Range(list) : Part(list, m, weight) \in Score
  BY <1>1, ShareOrder DEF Part, Share
<1>3. ASSUME NEW a \in Range(list), NEW b \in Range(list)
      PROVE  Above(Part(list, a, weight), Part(list, b, weight)) <=> Rank(list, a) < Rank(list, b)
  <2>1. Above(Part(list, a, weight), Part(list, b, weight)) <=> 60 + Rank(list, a) < 60 + Rank(list, b)
    BY <1>1, ShareOrder DEF Part, Share
  <2> QED BY <2>1, <1>1
<1> QED BY <1>2, <1>3

\* The parts of a mixed score.
LEMMA MixedFacts ==
  ASSUME NEW one \in Lists, NEW two \in Lists, NEW weight \in Score
  PROVE  /\ Range(one) \cup Range(two) \in SUBSET Message
         /\ Mixed(one, two, weight) \in [Range(one) \cup Range(two) -> Score]
         /\ \A m \in Range(one) \ Range(two) : Mixed(one, two, weight)[m] = Part(one, m, <<1, 1>>)
         /\ \A m \in Range(two) \ Range(one) : Mixed(one, two, weight)[m] = Part(two, m, weight)
         /\ \A m \in Range(one) \cap Range(two) :
              Mixed(one, two, weight)[m] = Plus(Part(one, m, <<1, 1>>), Part(two, m, weight))
<1> DEFINE none == << >>
           full == <<1, 1>>
           k == 60
           base == Boosted(none, one, full, k)
           score == Boosted(base, two, weight, k)
           A == Range(one)
           B == Range(two)
<1>1. none \in [{} -> Score] /\ {} \in SUBSET Message /\ full \in Score /\ k \in Nat
  BY EmptyFacts DEF Score, Positive
<1>2. Mixed(one, two, weight) = score
  BY DEF Mixed
<1>3. /\ \A m : Part(one, m, <<1, 1>>) = Share(one, m, full, k)
      /\ \A m : Part(two, m, weight) = Share(two, m, weight, k)
  BY DEF Part
<1> HIDE DEF none, full, k
<1> HIDE DEF A, B
<1>4. base \in Scores /\ DOMAIN base = A /\ \A m \in A : base[m] = Share(one, m, full, k)
  <2>1. none \in Scores /\ DOMAIN none = {}
    BY <1>1, ScoresAre
  <2>2. base \in Scores /\ DOMAIN base = DOMAIN none \cup Range(one)
        /\ \A m \in Range(one) \ DOMAIN none : base[m] = Share(one, m, full, k)
    BY <1>1, <2>1, BoostedFacts, Zenon
  <2> HIDE DEF base
  <2> QED BY <2>1, <2>2 DEF A
<1> HIDE DEF base
<1>5. /\ score \in Scores /\ DOMAIN score = A \cup B
      /\ \A m \in A \ B : score[m] = base[m]
      /\ \A m \in B \ A : score[m] = Share(two, m, weight, k)
      /\ \A m \in B \cap A : score[m] = Plus(base[m], Share(two, m, weight, k))
  <2>1. /\ score \in Scores /\ DOMAIN score = DOMAIN base \cup Range(two)
        /\ \A m \in DOMAIN base \ Range(two) : score[m] = base[m]
        /\ \A m \in Range(two) \ DOMAIN base : score[m] = Share(two, m, weight, k)
        /\ \A m \in Range(two) \cap DOMAIN base : score[m] = Plus(base[m], Share(two, m, weight, k))
    <3>1. base \in Scores /\ k \in Nat
      BY <1>1, <1>4
    <3> QED BY <3>1, BoostedFacts, Zenon
  <2> HIDE DEF score
  <2> QED BY <1>4, <2>1 DEF B
<1> HIDE DEF score
<1>6. /\ \A m \in A \ B : score[m] = Share(one, m, full, k)
      /\ \A m \in A \cap B : score[m] = Plus(Share(one, m, full, k), Share(two, m, weight, k))
  BY <1>4, <1>5
<1>7. A \cup B \in SUBSET Message /\ score \in [A \cup B -> Score]
  BY <1>5, ScoresAre
<1> QED BY <1>2, <1>3, <1>5, <1>6, <1>7 DEF A, B

\* The order of a fusion is the order of the mixed scores.
LEMMA FusedFacts ==
  ASSUME NEW one \in Lists, NEW two \in Lists, NEW weight \in Score
  PROVE  /\ Ranked(Fused(<<one, two>>, weight)) /\ Ids(Fused(<<one, two>>, weight)) = Range(one) \cup Range(two)
         /\ \A a, b \in Range(one) \cup Range(two) :
              Above(Mixed(one, two, weight)[a], Mixed(one, two, weight)[b]) => Before(Fused(<<one, two>>, weight).order, a, b)
<1> DEFINE S == Range(one) \cup Range(two)
           score == Mixed(one, two, weight)
<1>1. S \in SUBSET Message /\ score \in [S -> Score]
  BY MixedFacts
<1> HIDE DEF S, score
<1>2. Normalized(score) \in [S -> Score]
      /\ \A a, b \in S : Above(Normalized(score)[a], Normalized(score)[b]) <=> Above(score[a], score[b])
  BY <1>1, NormalizedFacts
<1>3. Fused(<<one, two>>, weight) = OlderFirst(Normalized(score))
  BY DEF Fused, score, Mixed
<1>4. /\ Fused(<<one, two>>, weight).order \in Lists /\ Range(Fused(<<one, two>>, weight).order) = S
      /\ Fused(<<one, two>>, weight).score = Normalized(score)
      /\ \A a, b \in S : Above(Normalized(score)[a], Normalized(score)[b]) => Before(Fused(<<one, two>>, weight).order, a, b)
  BY <1>1, <1>2, <1>3, OlderFirstFacts
<1>5. OlderFirst(Normalized(score)) = [order |-> OlderFirst(Normalized(score)).order,
                                        score |-> OlderFirst(Normalized(score)).score]
  BY DEF OlderFirst
<1> QED BY <1>2, <1>3, <1>4, <1>5 DEF Ranked, Ids, S, score

\* What is as good in both rankings and better in one has the higher score.
LEMMA MixedBetter ==
  ASSUME NEW one \in Lists, NEW two \in Lists, NEW weight \in Score,
         NEW a \in Range(one) \cup Range(two), NEW b \in Range(one) \cup Range(two),
         b \in Range(one) => a \in Range(one) /\ Rank(one, a) <= Rank(one, b),
         b \in Range(two) => a \in Range(two) /\ Rank(two, a) <= Rank(two, b),
         \/ a \in Range(one) /\ (b \in Range(one) => Rank(one, a) < Rank(one, b))
         \/ a \in Range(two) /\ (b \in Range(two) => Rank(two, a) < Rank(two, b))
  PROVE  Above(Mixed(one, two, weight)[a], Mixed(one, two, weight)[b])
<1> DEFINE A == Range(one)
           B == Range(two)
           first(m) == Part(one, m, <<1, 1>>)
           second(m) == Part(two, m, weight)
           score == Mixed(one, two, weight)
<1>1. <<1, 1>> \in Score
  BY DEF Score, Positive
<1>2. /\ \A m \in A \ B : score[m] = first(m)
      /\ \A m \in B \ A : score[m] = second(m)
      /\ \A m \in A \cap B : score[m] = Plus(first(m), second(m))
  BY MixedFacts
<1>3. /\ \A m \in A : first(m) \in Score /\ Rank(one, m) \in Int
      /\ \A m \in B : second(m) \in Score /\ Rank(two, m) \in Int
  BY <1>1, PartFacts, RankFacts
<1>4. /\ \A x, y \in A : Above(first(x), first(y)) <=> Rank(one, x) < Rank(one, y)
      /\ \A x, y \in B : Above(second(x), second(y)) <=> Rank(two, x) < Rank(two, y)
  BY <1>1, PartFacts
<1>5. b \in A => a \in A /\ AtLeast(first(a), first(b))
  BY <1>3, <1>4 DEF AtLeast
<1>6. b \in B => a \in B /\ AtLeast(second(a), second(b))
  BY <1>3, <1>4 DEF AtLeast
<1>7. \/ a \in A /\ (b \in A => Above(first(a), first(b)))
      \/ a \in B /\ (b \in B => Above(second(a), second(b)))
  BY <1>4
<1> HIDE DEF A, B, first, second, score
<1>8. CASE b \in A /\ b \in B
  <2>1. a \in A /\ a \in B /\ score[a] = Plus(first(a), second(a)) /\ score[b] = Plus(first(b), second(b))
    BY <1>2, <1>5, <1>6, <1>8
  <2>2. first(a) \in Score /\ first(b) \in Score /\ second(a) \in Score /\ second(b) \in Score
    BY <1>3, <1>8, <2>1
  <2> DEFINE middle == Plus(first(b), second(a))
  <2>3. middle \in Score /\ score[a] \in Score /\ score[b] \in Score
    BY <2>1, <2>2, SumValue
  <2>4. AtLeast(score[a], middle) /\ (Above(first(a), first(b)) => Above(score[a], middle))
    BY <1>5, <1>8, <2>1, <2>2, SumGrows
  <2>5. AtLeast(middle, score[b]) /\ (Above(second(a), second(b)) => Above(middle, score[b]))
    BY <1>6, <1>8, <2>1, <2>2, SumGrows
  <2> HIDE DEF middle
  <2> QED BY <1>7, <1>8, <2>3, <2>4, <2>5, AboveOrder DEF score
<1>9. CASE b \in A /\ b \notin B
  <2>1. a \in A /\ AtLeast(first(a), first(b)) /\ first(a) \in Score /\ first(b) \in Score /\ score[b] = first(b)
    BY <1>2, <1>3, <1>5, <1>9
  <2>2. CASE a \in B
    <3>1. score[a] = Plus(first(a), second(a)) /\ second(a) \in Score
      BY <1>2, <1>3, <2>1, <2>2
    <3>2. score[a] \in Score /\ Above(score[a], first(a))
      BY <2>1, <3>1, SumValue, SumAbove
    <3> QED BY <2>1, <3>2, AboveOrder DEF score
  <2>3. CASE a \notin B
    BY <1>2, <1>7, <1>9, <2>1, <2>3 DEF score
  <2> QED BY <2>2, <2>3
<1>10. CASE b \notin A /\ b \in B
  <2>1. a \in B /\ AtLeast(second(a), second(b)) /\ second(a) \in Score /\ second(b) \in Score /\ score[b] = second(b)
    BY <1>2, <1>3, <1>6, <1>10
  <2>2. CASE a \in A
    <3>1. score[a] = Plus(first(a), second(a)) /\ first(a) \in Score
      BY <1>2, <1>3, <2>1, <2>2
    <3>2. score[a] \in Score /\ Above(score[a], second(a))
      BY <2>1, <3>1, SumValue, SumAbove
    <3> QED BY <2>1, <3>2, AboveOrder DEF score
  <2>3. CASE a \notin A
    BY <1>2, <1>7, <1>10, <2>1, <2>3 DEF score
  <2> QED BY <2>2, <2>3
<1> QED BY <1>8, <1>9, <1>10 DEF A, B

\* The first 549 of a ranking outscore all of another of a tenth of its weight.
LEMMA MixedExact ==
  ASSUME NEW one \in Lists, NEW two \in Lists, Len(one) < 550,
         NEW a \in Range(one), NEW b \in Range(two) \ Range(one)
  PROVE  Above(Mixed(one, two, VectorWeight)[a], Mixed(one, two, VectorWeight)[b])
<1> DEFINE k == 60 + Rank(one, a)
           l == 60 + Rank(two, b)
           score == Mixed(one, two, VectorWeight)
           first == Part(one, a, <<1, 1>>)
           second == Part(two, b, VectorWeight)
<1>1. one \in Lists /\ two \in Lists /\ <<1, 1>> \in Score /\ VectorWeight \in Score
  BY DEF Score, Positive, VectorWeight
<1>2. Rank(one, a) \in 1 .. 549 /\ Rank(two, b) \in Positive
  <2>1. Len(one) \in Nat /\ Len(two) \in Nat
    BY <1>1, ListFacts
  <2>2. Rank(one, a) \in 1 .. Len(one) /\ Rank(two, b) \in 1 .. Len(two)
    BY <1>1, RankFacts
  <2> DEFINE n == Len(one)
             r == Rank(one, a)
             t == Rank(two, b)
             p == Len(two)
  <2>3. n \in Nat /\ p \in Nat /\ n < 550 /\ r \in 1 .. n /\ t \in 1 .. p
    BY <2>1, <2>2
  <2> HIDE DEF n, r, t, p
  <2>4. r \in 1 .. 549 /\ t \in Positive
    BY <2>3 DEF Positive
  <2> QED BY <2>4 DEF r, t
<1>3. k \in Positive /\ l \in Positive /\ k < 10 * l /\ <<k, 1>> \in Score /\ <<l, 1>> \in Score
  <2>1. \A r \in 1 .. 549, t \in Positive :
          60 + r \in Nat /\ 60 + r # 0 /\ 60 + t \in Nat /\ 60 + t # 0 /\ 60 + r < 10 * (60 + t)
    BY DEF Positive
  <2>2. k \in Nat /\ k # 0 /\ l \in Nat /\ l # 0 /\ k < 10 * l
    BY <1>2, <2>1
  <2> HIDE DEF k, l
  <2> QED BY <2>2 DEF Positive, Score
<1>4. first \in Score /\ second \in Score
  BY <1>1, PartFacts
<1>5. first = DividedBy(<<1, 1>>, <<k, 1>>) /\ second = DividedBy(<<1, 10>>, <<l, 1>>)
  BY DEF Part, Share, VectorWeight
<1> HIDE DEF k, l
<1>6. Above(first, second)
  <2>1. Same(first, <<1, k>>) /\ <<1, k>> \in Score
    <3>1. <<1, 1>>[1] * <<k, 1>>[2] = 1 /\ <<1, 1>>[2] * <<k, 1>>[1] = k
      BY <1>3 DEF Positive
    <3> QED BY <1>1, <1>3, <1>5, <3>1, QuotientValue
  <2>2. Same(second, <<1, 10 * l>>) /\ <<1, 10 * l>> \in Score
    <3>1. <<1, 10>>[1] * <<l, 1>>[2] = 1 /\ <<1, 10>>[2] * <<l, 1>>[1] = 10 * l
      BY <1>3 DEF Positive
    <3>2. <<1, 10>> \in Score
      BY DEF Score, Positive
    <3> QED BY <1>3, <1>5, <3>1, <3>2, QuotientValue
  <2>3. Above(<<1, k>>, <<1, 10 * l>>)
    BY <1>3 DEF Above, Positive
  <2> HIDE DEF first, second
  <2> QED BY <1>4, <2>1, <2>2, <2>3, AboveValues DEF first, second
<1>7. /\ \A m \in Range(one) \ Range(two) : score[m] = Part(one, m, <<1, 1>>)
      /\ \A m \in Range(two) \ Range(one) : score[m] = Part(two, m, VectorWeight)
      /\ \A m \in Range(one) \cap Range(two) : score[m] = Plus(Part(one, m, <<1, 1>>), Part(two, m, VectorWeight))
  BY <1>1, MixedFacts, Zenon
<1>8. score[b] = second
  BY <1>7
<1>9. CASE a \in Range(two)
  <2> DEFINE other == Part(two, a, VectorWeight)
  <2>1. score[a] = Plus(first, other) /\ other \in Score
    <3>1. other \in Score
      BY <1>1, <1>9, PartFacts
    <3>2. score[a] = Plus(first, other)
      BY <1>7, <1>9
    <3> QED BY <3>1, <3>2, Zenon
  <2> HIDE DEF score, first, second, other
  <2>2. score[a] \in Score /\ Above(score[a], first)
    BY <1>4, <2>1, SumValue, SumAbove
  <2>3. AtLeast(first, second)
    BY <1>4, <1>6, AboveOrder
  <2> QED BY <1>4, <1>8, <2>2, <2>3, AboveOrder DEF score
<1>10. CASE a \notin Range(two)
  <2>1. score[a] = first
    BY <1>7, <1>10
  <2> HIDE DEF first, second
  <2> QED BY <1>6, <1>8, <2>1 DEF score
<1> QED BY <1>9, <1>10

----------------------------------------------------------------------------
(* Tags *)

\* A function defined by its value at 0 and a step from each number to the
\* next exists, and its values are where the step leads.
LEMMA Iterated ==
  ASSUME NEW n \in Nat, NEW start \in Scores, NEW G \in [1 .. n -> [Scores -> Scores]]
  PROVE  \E f \in [0 .. n -> Scores] : f[0] = start /\ \A i \in 1 .. n : f[i] = G[i][f[i - 1]]
<1> DEFINE Good(f, k) == f \in [0 .. k -> Scores] /\ f[0] = start /\ \A i \in 1 .. k : f[i] = G[i][f[i - 1]]
           Failing == {k \in 0 .. n : ~\E f : Good(f, k)}
<1>1. Failing = {}
  <2> SUFFICES ASSUME Failing # {} PROVE FALSE
    OBVIOUS
  <2>1. Failing \in SUBSET Nat
    OBVIOUS
  <2>2. PICK k \in Failing : \A j \in Failing : k <= j
    <3> HIDE DEF Failing
    <3> QED BY <2>1, LeastElement
  <2>3. k # 0
    <3> DEFINE f == [i \in 0 .. 0 |-> start]
    <3>1. Good(f, 0)
      OBVIOUS
    <3> HIDE DEF Good
    <3> QED BY <3>1
  <2>4. k \in 1 .. n /\ k - 1 \in 0 .. n /\ k - 1 \notin Failing
    <3>1. k \in 1 .. n
      BY <2>3
    <3>2. k - 1 \in 0 .. n /\ ~(k <= k - 1)
      BY <3>1
    <3> HIDE DEF Failing
    <3> QED BY <3>1, <3>2, <2>2
  <2>5. PICK f : Good(f, k - 1)
    <3> HIDE DEF Good
    <3> QED BY <2>4
  <2> DEFINE g == [i \in 0 .. k |-> IF i = k THEN G[k][f[k - 1]] ELSE f[i]]
  <2>6. f \in [0 .. (k - 1) -> Scores] /\ k - 1 \in 0 .. (k - 1) /\ f[k - 1] \in Scores /\ G[k] \in [Scores -> Scores]
    BY <2>4, <2>5
  <2>7. g \in [0 .. k -> Scores]
    BY <2>4, <2>6
  <2>8. g[0] = start
    BY <2>4, <2>5
  <2>9. ASSUME NEW i \in 1 .. k PROVE g[i] = G[i][g[i - 1]]
    <3>1. i - 1 \in 0 .. k /\ i - 1 # k /\ i \in 0 .. k
      BY <2>4
    <3>2. g[i - 1] = f[i - 1] /\ g[i] = IF i = k THEN G[k][f[k - 1]] ELSE f[i]
      BY <3>1
    <3> HIDE DEF g
    <3>3. CASE i = k
      BY <3>2, <3>3
    <3>4. CASE i # k
      <4>1. i \in 1 .. (k - 1)
        BY <2>4, <3>4
      <4> QED BY <2>5, <3>2, <3>4, <4>1
    <3> QED BY <3>3, <3>4
  <2>10. Good(g, k)
    <3> HIDE DEF g
    <3> QED BY <2>7, <2>8, <2>9
  <2> HIDE DEF Good, g
  <2> QED BY <2>2, <2>10
<1>2. n \in 0 .. n
  OBVIOUS
<1>3. \E f : Good(f, n)
  <2> HIDE DEF Good
  <2> QED BY <1>1, <1>2
<1> QED BY <1>3

\* Tagging adds scores, and nothing else.
LEMMA TaggedFacts ==
  ASSUME TimeOK, NEW score \in Scores, NEW n \in Nat, NEW lists \in [1 .. n -> SUBSET Message]
  PROVE  Tagged(score, lists) \in Scores
<1> DEFINE hits(i) == TagHits(lists[i])
           next(x, i) == Boosted(x, hits(i), <<5, 4>>, 0)
           Is(f) == f = [i \in 0 .. n |-> IF i = 0 THEN score ELSE next(f[i - 1], i)]
           Tag == CHOOSE f : Is(f)
<1>1. Len(lists) = n
  OBVIOUS
<1>2. Tagged(score, lists) = Tag[n]
  BY <1>1 DEF Tagged
<1>3. \A i \in 1 .. n : hits(i) \in Lists
  BY NewestFirstSort DEF TagHits
<1>4. <<5, 4>> \in Score /\ 0 \in Nat
  BY DEF Score, Positive
<1>5. \A i \in 1 .. n, x \in Scores : next(x, i) \in Scores
  <2> DEFINE weight == <<5, 4>>
  <2> HIDE DEF hits, weight
  <2>1. ASSUME NEW i \in 1 .. n, NEW x \in Scores PROVE Boosted(x, hits(i), weight, 0) \in Scores
    BY <1>3, <1>4, BoostedFacts, Zenon DEF weight
  <2> QED BY <2>1 DEF weight
<1> HIDE DEF next
<1>6. \E f : Is(f)
  <2> DEFINE G == [i \in 1 .. n |-> [x \in Scores |-> next(x, i)]]
  <2>1. G \in [1 .. n -> [Scores -> Scores]]
    BY <1>5
  <2>2. \A i \in 1 .. n, x \in Scores : G[i][x] = next(x, i)
    OBVIOUS
  <2> HIDE DEF G
  <2>3. PICK f \in [0 .. n -> Scores] : f[0] = score /\ \A i \in 1 .. n : f[i] = G[i][f[i - 1]]
    BY <2>1, Iterated
  <2>4. ASSUME NEW i \in 0 .. n PROVE f[i] = IF i = 0 THEN score ELSE next(f[i - 1], i)
    <3>1. CASE i = 0
      BY <2>3, <3>1
    <3>2. CASE i # 0
      <4>1. i \in 1 .. n /\ i - 1 \in 0 .. n
        BY <3>2
      <4>2. f[i - 1] \in Scores
        BY <4>1
      <4> QED BY <2>2, <2>3, <3>2, <4>1, <4>2
    <3> QED BY <3>1, <3>2
  <2>5. Is(f)
    BY <2>4
  <2> HIDE DEF Is
  <2> QED BY <2>5
<1>7. Is(Tag)
  <2> HIDE DEF Is
  <2> QED BY <1>6
<1> HIDE DEF Tag
<1>8. /\ 0 \in 0 .. n => Tag[0] = score
      /\ \A i \in 1 .. n : i \in 0 .. n /\ Tag[i] = next(Tag[i - 1], i)
  BY <1>7
<1> HIDE DEF Is
<1> DEFINE Wrong == {i \in 0 .. n : Tag[i] \notin Scores}
<1>9. Wrong = {}
  <2> SUFFICES ASSUME Wrong # {} PROVE FALSE
    OBVIOUS
  <2>1. Wrong \in SUBSET Nat
    OBVIOUS
  <2>2. PICK k \in Wrong : \A j \in Wrong : k <= j
    <3> HIDE DEF Wrong
    <3> QED BY <2>1, LeastElement
  <2>3. k \in 1 .. n
    BY <1>8
  <2>4. k - 1 \in 0 .. n /\ ~(k <= k - 1)
    BY <2>3
  <2>5. Tag[k - 1] \in Scores
    BY <2>2, <2>4
  <2> QED BY <1>5, <1>8, <2>3, <2>5
<1> QED BY <1>2, <1>9

----------------------------------------------------------------------------
(* Reserved seats *)

\* What the distinct messages of a sequence are, and which come first.
LEMMA DistinctFacts ==
  ASSUME NEW list \in Seq(Message)
  PROVE  /\ Distinct(list) \in Lists /\ Range(Distinct(list)) = Range(list)
         /\ Len(list) >= 1 => Len(Distinct(list)) >= 1 /\ Distinct(list)[1] = list[1]
         /\ Len(list) >= 2 /\ list[1] # list[2] => Len(Distinct(list)) >= 2 /\ Distinct(list)[2] = list[2]
<1> DEFINE n == Len(list)
           S == {i \in DOMAIN list : \A j \in 1 .. i - 1 : list[j] # list[i]}
           R == {p \in S \X S : p[1] < p[2]}
           first == Sort(S, <)
           distinct == Distinct(list)
<1>1. n \in Nat /\ DOMAIN list = 1 .. n /\ \A i \in 1 .. n : list[i] \in Message
  OBVIOUS
<1>2. S \in SUBSET (1 .. n) /\ \A i \in 1 .. n : i \in S <=> \A j \in 1 .. i - 1 : list[j] # list[i]
  BY <1>1
<1>3. distinct = [i \in DOMAIN first |-> list[first[i]]]
  BY DEF Distinct
<1> HIDE DEF n, S
<1>4. IsFiniteSet(S)
  <2>1. n \in Int /\ 1 \in Int
    BY <1>1
  <2>2. IsFiniteSet(1 .. n)
    BY <2>1, FS_Interval
  <2> QED BY <1>2, <2>2, FS_Subset
<1>5. IsOrder(R, S) /\ \A i, j \in S : <<i, j>> \in R <=> i < j
  <2>1. \A i, j \in S : <<i, j>> \in R <=> i < j
    OBVIOUS
  <2>2. \A i \in S : i \in Int
    BY <1>1, <1>2
  <2> HIDE DEF R
  <2> QED BY <2>1, <2>2 DEF IsOrder
<1> HIDE DEF R
<1>6. first \in SetToSeqs(S) /\ \A i, j \in DOMAIN first : i < j => first[i] < first[j]
  <2>1. PICK f \in SetToSeqs(S) : InOrder(f, R)
    BY <1>4, <1>5, SortExists
  <2>2. f \in Seq(S)
    BY <1>4, <2>1, ListOfSet
  <2>3. \A i, j \in DOMAIN f : i < j => f[i] < f[j]
    <3> SUFFICES ASSUME NEW i \in DOMAIN f, NEW j \in DOMAIN f, i < j PROVE f[i] < f[j]
      OBVIOUS
    <3>1. f[i] \in S /\ f[j] \in S
      BY <2>2
    <3>2. <<f[i], f[j]>> \in R
      BY <2>1 DEF InOrder
    <3> QED BY <1>5, <3>1, <3>2, Zenon
  <2> DEFINE Sorted(f1) == \A i, j \in DOMAIN f1 : i < j => f1[i] < f1[j]
  <2>4. first = CHOOSE f1 \in SetToSeqs(S) : Sorted(f1)
    BY DEF Sort
  <2>5. \E f1 \in SetToSeqs(S) : Sorted(f1)
    BY <2>1, <2>3
  <2> HIDE DEF first, Sorted
  <2>6. first \in SetToSeqs(S) /\ Sorted(first)
    BY <2>4, <2>5, Zenon
  <2> QED BY <2>6 DEF Sorted
<1> HIDE DEF first, distinct
<1> DEFINE k == Len(first)
<1>7. /\ k \in Nat /\ DOMAIN first = 1 .. k
      /\ \A i \in 1 .. k : first[i] \in S /\ first[i] \in 1 .. n
      /\ \A i \in S : \E j \in 1 .. k : first[j] = i
      /\ \A i, j \in 1 .. k : i < j => first[i] < first[j]
  <2>1. first \in Seq(S) /\ Range(first) = S
    BY <1>4, <1>6, ListOfSet
  <2>2. k \in Nat /\ DOMAIN first = 1 .. k /\ \A i \in 1 .. k : first[i] \in S
    BY <2>1
  <2> HIDE DEF k
  <2>3. \A i \in S : \E j \in 1 .. k : first[j] = i
    BY <2>1, <2>2 DEF Range
  <2> QED BY <1>2, <1>6, <2>2, <2>3
<1> HIDE DEF k
<1>8. distinct \in Seq(Message) /\ Len(distinct) = k /\ DOMAIN distinct = 1 .. k
      /\ \A i \in 1 .. k : distinct[i] = list[first[i]]
  <2>1. distinct = [i \in 1 .. k |-> list[first[i]]] /\ \A i \in 1 .. k : list[first[i]] \in Message
    BY <1>1, <1>3, <1>7
  <2> QED BY <1>7, <2>1
<1>9. \A i, j \in S : list[i] = list[j] => i = j
  <2> SUFFICES ASSUME NEW i \in S, NEW j \in S, list[i] = list[j], i # j PROVE FALSE
    OBVIOUS
  <2>1. i \in 1 .. n /\ j \in 1 .. n
    BY <1>2
  <2>2. i \in 1 .. j - 1 \/ j \in 1 .. i - 1
    BY <1>1, <2>1
  <2> QED BY <1>2, <2>1, <2>2
<1>10. \A i, j \in DOMAIN distinct : distinct[i] = distinct[j] => i = j
  <2> SUFFICES ASSUME NEW i \in 1 .. k, NEW j \in 1 .. k, distinct[i] = distinct[j], i # j PROVE FALSE
    BY <1>8
  <2>1. first[i] = first[j]
    <3>1. first[i] \in S /\ first[j] \in S /\ list[first[i]] = list[first[j]]
      BY <1>7, <1>8
    <3> QED BY <1>9, <3>1
  <2>2. (i < j \/ j < i) /\ first[i] \in Int
    BY <1>1, <1>7
  <2> QED BY <1>7, <2>1, <2>2
<1>11. distinct \in Lists
  BY <1>8, <1>10, IsAList
<1>12. Range(distinct) = Range(list)
  <2>1. ASSUME NEW m \in Range(distinct) PROVE m \in Range(list)
    <3>1. PICK i \in 1 .. k : m = distinct[i]
      BY <1>8, <2>1 DEF Range
    <3> QED BY <1>1, <1>7, <1>8, <3>1 DEF Range
  <2>2. ASSUME NEW m \in Range(list) PROVE m \in Range(distinct)
    <3> DEFINE at == {i \in 1 .. n : list[i] = m}
    <3>1. at # {} /\ at \in SUBSET Nat
      BY <1>1, <2>2 DEF Range
    <3>2. PICK i \in at : \A j \in at : i <= j
      <4> HIDE DEF at
      <4> QED BY <3>1, LeastElement
    <3>3. \A j \in 1 .. i - 1 : j \in 1 .. n /\ j \notin at
      <4> TAKE j \in 1 .. i - 1
      <4>1. i \in 1 .. n
        OBVIOUS
      <4>2. j \in 1 .. n /\ ~(i <= j)
        BY <1>1, <4>1
      <4> HIDE DEF at
      <4> QED BY <3>2, <4>2
    <3>4. i \in S
      BY <1>2, <3>3
    <3>5. PICK j \in 1 .. k : first[j] = i
      BY <1>7, <3>4
    <3> QED BY <1>8, <3>5 DEF Range
  <2> QED BY <2>1, <2>2
<1>13. n >= 1 => k >= 1 /\ first[1] = 1
  <2> SUFFICES ASSUME n >= 1 PROVE k >= 1 /\ first[1] = 1
    OBVIOUS
  <2>1. 1 \in S
    BY <1>1, <1>2
  <2>2. PICK j \in 1 .. k : first[j] = 1
    BY <1>7, <2>1
  <2>3. 1 \in 1 .. k /\ (j = 1 \/ 1 < j)
    BY <1>7
  <2>4. first[1] \in 1 .. n
    BY <1>7, <2>3
  <2> QED BY <1>1, <1>7, <2>2, <2>3, <2>4
<1>14. n >= 2 /\ list[1] # list[2] => k >= 2 /\ first[2] = 2
  <2> SUFFICES ASSUME n >= 2, list[1] # list[2] PROVE k >= 2 /\ first[2] = 2
    OBVIOUS
  <2>1. 2 \in S
    BY <1>1, <1>2
  <2>2. PICK j \in 1 .. k : first[j] = 2
    BY <1>7, <2>1
  <2>3. j # 1 /\ first[1] = 1
    BY <1>1, <1>13, <2>2
  <2>4. 1 \in 1 .. k /\ 2 \in 1 .. k /\ (j = 2 \/ 2 < j)
    BY <1>7, <2>3
  <2>5. first[2] \in 1 .. n /\ 1 < first[2]
    BY <1>7, <2>3, <2>4
  <2>6. 2 < j => first[2] < 2
    BY <1>7, <2>2, <2>4
  <2> QED BY <1>1, <1>7, <2>2, <2>4, <2>5, <2>6
<1>15. n >= 1 => Len(distinct) >= 1 /\ distinct[1] = list[1]
  BY <1>7, <1>8, <1>13
<1>16. n >= 2 /\ list[1] # list[2] => Len(distinct) >= 2 /\ distinct[2] = list[2]
  BY <1>7, <1>8, <1>14
<1> QED BY <1>11, <1>12, <1>15, <1>16 DEF distinct, n

----------------------------------------------------------------------------
(* Neighbors *)

\* The anchor of a message near to some result is a result it is near to, and
\* what it lends is less than it has.
LEMMA SupportFacts ==
  ASSUME Ranked(results), RequestAssumption, NEW m, NEW h \in Ids(results), Near(h, m)
  PROVE  /\ Anchor(m) \in Ids(results) /\ Near(Anchor(m), m)
         /\ Support(m) \in Score /\ Above(results.score[Anchor(m)], Support(m))
<1> DEFINE list == results.order
           near == {i \in DOMAIN list : Near(list[i], m)}
           First(i) == Near(list[i], m) /\ \A j \in 1 .. i - 1 : ~Near(list[j], m)
<1>1. list \in Lists /\ Ids(results) = Range(list) /\ results.score \in [Range(list) -> Score]
  BY DEF Ranked, Ids
<1> HIDE DEF list
<1>2. DOMAIN list = 1 .. Len(list) /\ Len(list) \in Nat
  BY <1>1, ListFacts
<1>3. near # {} /\ near \in SUBSET Nat
  <2>1. PICK i \in DOMAIN list : list[i] = h
    BY <1>1, ListFacts
  <2>2. i \in near
    BY <2>1
  <2> QED BY <1>2, <2>2
<1>4. PICK i \in near : \A j \in near : i <= j
  <2> HIDE DEF near
  <2> QED BY <1>3, LeastElement
<1>5. First(i) /\ i \in DOMAIN list
  <2>1. ASSUME NEW j \in 1 .. i - 1 PROVE ~Near(list[j], m)
    <3>1. i \in 1 .. Len(list)
      BY <1>2
    <3>2. j \in 1 .. Len(list) /\ ~(i <= j)
      BY <1>2, <3>1
    <3> QED BY <1>2, <1>4, <3>2
  <2> QED BY <2>1
<1>6. Anchor(m) = list[CHOOSE i1 \in DOMAIN list : First(i1)]
  BY DEF Anchor, list
<1> HIDE DEF First
<1>7. (CHOOSE i1 \in DOMAIN list : First(i1)) \in DOMAIN list /\ First(CHOOSE i1 \in DOMAIN list : First(i1))
  BY <1>5, Zenon
<1>8. Anchor(m) \in Range(list) /\ Near(Anchor(m), m)
  BY <1>1, <1>6, <1>7, ListFacts DEF First
<1>9. Apart(Anchor(m), m) \in 1 .. Radius /\ Radius \in Nat
  BY <1>8, RequestAssumption DEF Near
<1> DEFINE x == results.score[Anchor(m)]
           k == Apart(Anchor(m), m) + 1
<1>10. x \in Score /\ k \in Positive /\ 1 < k
  BY <1>1, <1>8, <1>9 DEF Positive
<1>11. Support(m) = DividedBy(x, <<k, 1>>)
  BY DEF Support
<1> HIDE DEF x, k
<1>12. DividedBy(x, <<k, 1>>) \in Score /\ Above(x, DividedBy(x, <<k, 1>>))
  BY <1>10, ShareOrder
<1> QED BY <1>1, <1>8, <1>11, <1>12 DEF x

----------------------------------------------------------------------------
(* The invariant *)

\* The members of S are ranked in the order of time.
RankedInTime(r, S) == \A a, b \in S : Before(r.order, a, b) => InTime(a, b)

\* They are, and a sort by score keeps them so.
ScoredInTime(r, S) ==
  /\ S \in SUBSET Ids(r) /\ RankedInTime(r, S)
  /\ \A a, b \in S : Above(r.score[a], r.score[b]) <=> InTime(a, b)

RankingsOK == Ranked(results) /\ Ranked(operands) /\ Ranked(local)

\* The chain from the stage that sorts it to the one that cuts it.
ChainOK ==
  WantsState /\ query.intents = {} =>
    /\ stage \in {"tags", "bridges", "graph"} => ScoredInTime(results, chain)
    /\ stage = "neighbors" => ScoredInTime(results, chain \ hidden)
    /\ stage \in {"connect", "operands"} \/ (stage = "answered" /\ pipeline = "lexical") =>
         RankedInTime(results, chain \cap Ids(results))

StageOK ==
  /\ stage = "neighbors" => Ids(results) \cap hidden = {}
  /\ stage = "fuse" /\ pipeline = "hybrid" => Len(rankings[1]) <= RouteLimit(LexicalLimit)
  /\ stage = "connect" => pipeline = "expanded"
  /\ stage \in {"operands", "interleave"} => pipeline = "hybrid"
  /\ stage = "interleave" /\ TopK = 1 => operands = Nothing

IInv == TypeOK /\ RankingsOK /\ ChainOK /\ StageOK

\* What IInv gives each action.
LEMMA InvFacts ==
  ASSUME IInv
  PROVE  /\ TimeOK /\ hidden \in SUBSET Message /\ chain \in SUBSET Message /\ K \in Nat /\ TopK \in Nat
         /\ Ranked(results) /\ Ranked(operands) /\ Ranked(local)
         /\ Ids(results) \in SUBSET Message /\ Ids(results) = Range(results.order) /\ results.order \in Lists
         /\ results.score \in [Ids(results) -> Score] /\ results.score \in Scores /\ DOMAIN results.score = Ids(results)
         /\ rankings \in Lists \X Lists
<1>1. TimeOK /\ hidden \in SUBSET Message /\ chain \in SUBSET Message /\ rankings \in Lists \X Lists
  BY DEF IInv, TypeOK, TimeOK
<1>2. K \in Nat /\ TopK \in Nat
  BY RequestAssumption DEF K
<1>3. Ranked(results) /\ Ranked(operands) /\ Ranked(local)
  BY DEF IInv, RankingsOK
<1>4. Ids(results) \in SUBSET Message
  BY <1>3, RankedIsRanking
<1>5. Ids(results) = Range(results.order) /\ results.order \in Lists /\ results.score \in [Ids(results) -> Score]
  BY <1>3 DEF Ranked, Ids
<1>6. results.score \in Scores /\ DOMAIN results.score = Ids(results)
  BY <1>4, <1>5, ScoresAre
<1> QED BY <1>1, <1>2, <1>3, <1>4, <1>5, <1>6

\* A step keeps the types if what it writes has them.
LEMMA TypesKept ==
  ASSUME IInv, UNCHANGED request, chain' \in SUBSET Message, stage' \in Stages, round' \in 1 .. 2,
         rankings' \in Lists \X Lists, Ranked(results'), Ranked(operands'), Ranked(local')
  PROVE  TypeOK' /\ RankingsOK'
<1>1. log \in Log /\ hidden \subseteq Message /\ query \in Query /\ pipeline \in {"lexical", "expanded", "hybrid"}
  BY DEF IInv, TypeOK
<1>2. log' \in Log /\ hidden' \subseteq Message /\ query' \in Query /\ pipeline' \in {"lexical", "expanded", "hybrid"}
  BY <1>1 DEF request
<1>3. IsRanking(results') /\ IsRanking(operands') /\ IsRanking(local')
  BY RankedIsRanking
<1>4. TypeOK'
  BY <1>2, <1>3 DEF TypeOK, IsRanking, Ids, Lists, Message
<1>5. RankingsOK'
  BY DEF RankingsOK, Ranked, Ids, Lists, Message, Score, Positive
<1> QED BY <1>4, <1>5

\* Time and the query stand still.
LEMMA TimeKept ==
  ASSUME UNCHANGED request
  PROVE  /\ WantsState' <=> WantsState
         /\ ScoredInTime(results, chain)' <=> ScoredInTime(results', chain')
         /\ ScoredInTime(results, chain \ hidden)' <=> ScoredInTime(results', chain' \ hidden)
         /\ RankedInTime(results, chain \cap Ids(results))' <=> RankedInTime(results', chain' \cap Ids(results'))
<1>1. log' = log /\ query' = query /\ hidden' = hidden
  BY DEF request
<1>2. \A a, b : InTime(a, b)' <=> InTime(a, b)
  BY <1>1 DEF InTime, OldestFirst, NewestFirst, Timed, SameTime, Happened, At
<1>3. WantsState' <=> WantsState
  BY <1>1 DEF WantsState
<1>4. ScoredInTime(results, chain)' <=> ScoredInTime(results', chain')
  BY <1>2 DEF ScoredInTime, RankedInTime
<1>5. ScoredInTime(results, chain \ hidden)' <=> ScoredInTime(results', chain' \ hidden)
  BY <1>1, <1>2 DEF ScoredInTime, RankedInTime
<1>6. RankedInTime(results, chain \cap Ids(results))' <=> RankedInTime(results', chain' \cap Ids(results'))
  BY <1>2 DEF RankedInTime
<1> QED BY <1>3, <1>4, <1>5, <1>6

\* The invariant at the start.
LEMMA InitInv == Init => IInv
<1> SUFFICES ASSUME Init PROVE IInv
  OBVIOUS
<1>1. /\ log \in Log /\ hidden \subseteq Message /\ query \in Query /\ pipeline \in {"lexical", "expanded", "hybrid"}
      /\ stage = "match" /\ round = 1 /\ results = Nothing /\ local = Nothing /\ operands = Nothing
      /\ rankings = <<<< >>, << >>>> /\ chain = {}
  BY DEF Init, NoRankings
<1>2. Ranked(Nothing) /\ IsRanking(Nothing) /\ << >> \in Lists
  BY NothingRanked, RankedIsRanking, EmptyFacts
<1>3. TypeOK
  BY <1>1, <1>2 DEF TypeOK, Stages
<1>4. RankingsOK
  BY <1>1, <1>2 DEF RankingsOK
<1>5. ChainOK /\ StageOK
  BY <1>1 DEF ChainOK, StageOK
<1> QED BY <1>3, <1>4, <1>5 DEF IInv

\* The invariant under each action, from here on.
LEMMA MatchInv == IInv /\ Match => IInv'
<1> SUFFICES ASSUME IInv, Match PROVE IInv'
  OBVIOUS
<1>1. /\ stage' = "facets" /\ round' = round /\ rankings' = rankings /\ chain' = chain
      /\ operands' = operands /\ local' = local /\ UNCHANGED request
  BY DEF Match, Goto
<1>2. PICK hits \in Lists : results' = Reciprocal(OrderLexicalHits(hits))
  BY DEF Match
<1>3. Ranked(results')
  BY <1>2, InvFacts, OrderLexicalHitsFacts, ReciprocalRanked
<1>4. TypeOK' /\ RankingsOK'
  BY <1>1, <1>3, InvFacts, TypesKept DEF Stages, IInv, TypeOK
<1>5. ChainOK' /\ StageOK'
  BY <1>1 DEF ChainOK, StageOK
<1> QED BY <1>4, <1>5 DEF IInv

LEMMA MatchTwiceInv == IInv /\ MatchTwice => IInv'
<1> SUFFICES ASSUME IInv, MatchTwice PROVE IInv'
  OBVIOUS
<1>1. /\ stage' = "fuse" /\ round' = round /\ results' = results /\ chain' = chain
      /\ operands' = operands /\ local' = local /\ UNCHANGED request
  BY DEF MatchTwice, Goto
<1>2. rankings' \in Lists \X Lists /\ Len(rankings'[1]) <= RouteLimit(LexicalLimit)
  BY DEF MatchTwice
<1>3. TypeOK' /\ RankingsOK'
  BY <1>1, <1>2, InvFacts, TypesKept DEF Stages, IInv, TypeOK
<1>4. ChainOK'
  BY <1>1 DEF ChainOK
<1>5. StageOK'
  BY <1>1, <1>2 DEF StageOK, RouteLimit
<1> QED BY <1>3, <1>4, <1>5 DEF IInv

\* Fusion of the two rankings that await it.
LEMMA FusedRankings ==
  ASSUME IInv
  PROVE  /\ rankings[1] \in Lists /\ rankings[2] \in Lists /\ rankings = <<rankings[1], rankings[2]>>
         /\ \A weight \in Score : Ranked(Fused(rankings, weight))
<1>1. PICK one \in Lists, two \in Lists : rankings = <<one, two>>
  BY InvFacts
<1>2. ASSUME NEW weight \in Score PROVE Ranked(Fused(<<one, two>>, weight))
  BY FusedFacts
<1> QED BY <1>1, <1>2

LEMMA FuseRoutesInv == IInv /\ FuseRoutes => IInv'
<1> SUFFICES ASSUME IInv, FuseRoutes PROVE IInv'
  OBVIOUS
<1>1. /\ stage' = "facets" /\ round' = round /\ chain' = chain /\ rankings' = <<<< >>, << >>>>
      /\ operands' = operands /\ local' = local /\ UNCHANGED request
  BY DEF FuseRoutes, Goto, NoRankings
<1>2. VectorWeight \in Score
  BY DEF VectorWeight, Score, Positive
<1>3. Ranked(results')
  <2> DEFINE list == Fused(rankings, VectorWeight).order
  <2>1. results' = Reciprocal(Cut(list, TopK))
    BY DEF FuseRoutes
  <2>2. list \in Lists
    BY <1>2, FusedRankings DEF Ranked
  <2> HIDE DEF list
  <2>3. Cut(list, TopK) \in Lists
    BY <2>2, InvFacts, CutFacts
  <2> QED BY <2>1, <2>3, ReciprocalRanked
<1>4. rankings' \in Lists \X Lists
  BY <1>1, EmptyFacts
<1>5. TypeOK' /\ RankingsOK'
  BY <1>1, <1>3, <1>4, InvFacts, TypesKept DEF Stages, IInv, TypeOK
<1>6. ChainOK' /\ StageOK'
  BY <1>1 DEF ChainOK, StageOK
<1> QED BY <1>5, <1>6 DEF IInv

LEMMA ExpandQueryFacetsInv == IInv /\ ExpandQueryFacets => IInv'
<1> SUFFICES ASSUME IInv, ExpandQueryFacets PROVE IInv'
  OBVIOUS
<1>1. /\ stage' = "chain" /\ round' = round /\ rankings' = rankings /\ chain' = chain
      /\ operands' = operands /\ local' = local /\ UNCHANGED request
  BY DEF ExpandQueryFacets, Goto
<1>2. PICK hits \in FacetHits :
        results' = IF query.facets THEN NewerFirst(Normalized(Boosted(results.score, hits, <<17, 20>>, 0))) ELSE results
  BY DEF ExpandQueryFacets
<1>3. hits \in Lists /\ <<17, 20>> \in Score /\ 0 \in Nat
  BY EmptyFacts DEF FacetHits, Score, Positive
<1>4. Ranked(results')
  <2> DEFINE score == Boosted(results.score, hits, <<17, 20>>, 0)
  <2>1. score \in Scores
    <3> DEFINE weight == <<17, 20>>
               none == 0
    <3>1. weight \in Score /\ none \in Nat /\ results.score \in Scores
      BY <1>3, InvFacts
    <3> HIDE DEF weight, none
    <3>2. Boosted(results.score, hits, weight, none) \in Scores
      BY <1>3, <3>1, BoostedFacts, Zenon
    <3> QED BY <3>2 DEF weight, none
  <2> HIDE DEF score
  <2>2. Ranked(NewerFirst(Normalized(score)))
    BY <2>1, ScoresRanked
  <2> QED BY <1>2, <2>2, InvFacts DEF score
<1>5. TypeOK' /\ RankingsOK'
  BY <1>1, <1>4, InvFacts, TypesKept DEF Stages, IInv, TypeOK
<1>6. ChainOK' /\ StageOK'
  BY <1>1 DEF ChainOK, StageOK
<1> QED BY <1>5, <1>6 DEF IInv

LEMMA ExpandStateChainInv == IInv /\ ExpandStateChain => IInv'
<1> SUFFICES ASSUME IInv, ExpandStateChain PROVE IInv'
  OBVIOUS
<1>1. /\ stage' = "tags" /\ round' = round /\ rankings' = rankings
      /\ operands' = operands /\ local' = local /\ UNCHANGED request
  BY DEF ExpandStateChain, Goto
<1>2. PICK linked \in SUBSET Message :
        /\ results' = IF WantsState THEN Reciprocal(Sort(Ids(results) \cup linked, InTime)) ELSE results
        /\ chain' = Ids(results) \cup linked
  BY DEF ExpandStateChain
<1> DEFINE all == Ids(results) \cup linked
           list == Sort(all, InTime)
<1>3. all \in SUBSET Message
  BY InvFacts
<1>4. list \in Lists /\ Range(list) = all /\ \A a, b \in all : Before(list, a, b) <=> InTime(a, b)
  BY <1>3, InvFacts, InTimeSort
<1>5. (WantsState => results' = Reciprocal(list)) /\ (~WantsState => results' = results) /\ chain' = all
  BY <1>2
<1> HIDE DEF list, all
<1>6. /\ Ranked(Reciprocal(list)) /\ Ids(Reciprocal(list)) = all /\ Reciprocal(list).order = list
      /\ \A a, b \in all : Above(Reciprocal(list).score[a], Reciprocal(list).score[b]) <=> Before(list, a, b)
  BY <1>4, ReciprocalRanked
<1>7. Ranked(results')
  BY <1>5, <1>6, InvFacts
<1>8. TypeOK' /\ RankingsOK'
  BY <1>1, <1>3, <1>5, <1>7, InvFacts, TypesKept DEF Stages, IInv, TypeOK
<1>9. WantsState => ScoredInTime(results', chain')
  BY <1>4, <1>5, <1>6 DEF ScoredInTime, RankedInTime
<1>10. ChainOK'
  BY <1>1, <1>9, TimeKept DEF ChainOK
<1>11. StageOK'
  BY <1>1 DEF StageOK
<1> QED BY <1>8, <1>10, <1>11 DEF IInv

\* The intents in some order.
LEMMA IntentsListed ==
  ASSUME IInv, RequestAssumption, NEW kinds \in SetToSeqs(query.intents)
  PROVE  /\ Len(kinds) \in Nat /\ DOMAIN kinds = 1 .. Len(kinds)
         /\ \A i \in 1 .. Len(kinds) : kinds[i] \in query.intents
         /\ query.intents = {} => kinds = << >>
<1>1. query.intents \subseteq Intent /\ IsFiniteSet(Intent)
  BY RequestAssumption DEF IInv, TypeOK
<1>2. IsFiniteSet(query.intents)
  BY <1>1, FS_Subset
<1>3. kinds \in Seq(query.intents) /\ Len(kinds) = Cardinality(query.intents)
  BY <1>2, ListOfSet
<1>4. query.intents = {} => Len(kinds) = 0
  BY <1>3, FS_EmptySet
<1> QED BY <1>3, <1>4

LEMMA ExpandIntentTagsInv == IInv /\ ExpandIntentTags => IInv'
<1> SUFFICES ASSUME IInv, ExpandIntentTags PROVE IInv'
  OBVIOUS
<1>1. /\ stage' = "bridges" /\ round' = round /\ rankings' = rankings /\ chain' = chain
      /\ operands' = operands /\ local' = local /\ UNCHANGED request /\ stage = "tags"
  BY DEF ExpandIntentTags, Goto
<1>2. PICK tagged \in [query.intents -> SUBSET Message], kinds \in SetToSeqs(query.intents) :
        results' = IF kinds = << >> THEN results
                   ELSE NewerFirst(Normalized(Tagged(results.score, [i \in 1 .. Len(kinds) |-> tagged[kinds[i]]])))
  BY DEF ExpandIntentTags
<1> DEFINE lists == [i \in 1 .. Len(kinds) |-> tagged[kinds[i]]]
<1>3. Len(kinds) \in Nat /\ lists \in [1 .. Len(kinds) -> SUBSET Message]
  BY IntentsListed, RequestAssumption
<1>4. (kinds = << >> => results' = results) /\ (kinds # << >> => results' = NewerFirst(Normalized(Tagged(results.score, lists))))
  BY <1>2
<1> HIDE DEF lists
<1>5. Ranked(results')
  <2>1. results.score \in Scores /\ TimeOK /\ Ranked(results)
    BY InvFacts
  <2>2. Tagged(results.score, lists) \in Scores
    BY <1>3, <2>1, TaggedFacts, Zenon
  <2> QED BY <1>4, <2>1, <2>2, ScoresRanked
<1>6. TypeOK' /\ RankingsOK'
  BY <1>1, <1>5, InvFacts, TypesKept DEF Stages, IInv, TypeOK
<1>7. query.intents = {} => results' = results
  BY <1>4, IntentsListed, RequestAssumption
<1>8. query' = query
  BY <1>1 DEF request
<1>9. WantsState /\ query.intents = {} => ScoredInTime(results', chain')
  BY <1>1, <1>7 DEF IInv, ChainOK
<1>10. ChainOK'
  BY <1>1, <1>8, <1>9, TimeKept DEF ChainOK
<1>11. StageOK'
  BY <1>1 DEF StageOK
<1> QED BY <1>6, <1>10, <1>11 DEF IInv

\* What a route scores on its own.
LEMMA RouteScores ==
  ASSUME NEW list \in Lists, NEW weight \in Score, NEW offset \in Nat
  PROVE  Boosted(<< >>, list, weight, offset) \in [Range(list) -> Score]
<1>1. << >> \in Scores /\ DOMAIN << >> = {}
  BY EmptyFacts, ScoresAre
<1> DEFINE none == << >>
<1> HIDE DEF none
<1>2. none \in Scores /\ DOMAIN none = {}
  BY <1>1 DEF none
<1>3. Boosted(none, list, weight, offset) \in Scores
      /\ DOMAIN Boosted(none, list, weight, offset) = DOMAIN none \cup Range(list)
  BY <1>2, BoostedFacts, Zenon
<1>4. Boosted(none, list, weight, offset) \in [Range(list) -> Score]
  BY <1>2, <1>3, ScoresAre
<1> QED BY <1>4 DEF none

LEMMA ExpandEntityBridgesInv == IInv /\ ExpandEntityBridges => IInv'
<1> SUFFICES ASSUME IInv, ExpandEntityBridges PROVE IInv'
  OBVIOUS
<1>1. /\ stage' = "graph" /\ round' = round /\ rankings' = rankings /\ chain' = chain
      /\ operands' = operands /\ local' = local /\ UNCHANGED request /\ stage = "bridges"
  BY DEF ExpandEntityBridges, Goto
<1>2. PICK hits \in Lists :
        results' = [order |-> results.order \o Without(hits, Ids(results)),
                    score |-> Joined(results, Boosted(<< >>, hits, <<1, 2>>, 0))]
  <2>1. (IF Ids(results) # {} THEN Lists ELSE {<< >>}) \in SUBSET Lists
    BY EmptyFacts
  <2> QED BY <2>1 DEF ExpandEntityBridges
<1> DEFINE more == Without(hits, Ids(results))
           list == results.order \o more
           found == Boosted(<< >>, hits, <<1, 2>>, 0)
           score == Joined(results, found)
<1>3. more \in Lists /\ Range(more) = Range(hits) \ Ids(results)
  BY WithoutFacts
<1>4. results' = [order |-> list, score |-> score]
  BY <1>2
<1> HIDE DEF more
<1>5. /\ list \in Lists /\ Range(list) = Ids(results) \cup Range(more)
      /\ \A a, b \in Ids(results) : Before(list, a, b) <=> Before(results.order, a, b)
  <2>1. Range(results.order) \cap Range(more) = {}
    BY <1>3, InvFacts
  <2> QED BY <1>3, <2>1, InvFacts, ConcatFacts
<1>6. found \in [Range(hits) -> Score] /\ Range(hits) \in SUBSET Message
  <2> DEFINE weight == <<1, 2>>
             offset == 0
  <2>1. weight \in Score /\ offset \in Nat
    BY DEF Score, Positive
  <2> HIDE DEF weight, offset
  <2>2. Boosted(<< >>, hits, weight, offset) \in [Range(hits) -> Score]
    BY <2>1, RouteScores, Zenon
  <2> QED BY <2>2, ListFacts DEF weight, offset
<1> HIDE DEF list, found
<1>7. score \in [Ids(results) \cup Range(hits) -> Score] /\ \A m \in Ids(results) : score[m] = results.score[m]
  BY <1>6, InvFacts, JoinedFacts
<1>8. Range(list) = Ids(results) \cup Range(hits)
  BY <1>3, <1>5
<1> HIDE DEF score
<1>9. Ranked(results') /\ Ids(results') = Range(list)
  BY <1>4, <1>5, <1>7, <1>8, ARanking
<1>10. TypeOK' /\ RankingsOK'
  BY <1>1, <1>9, InvFacts, TypesKept DEF Stages, IInv, TypeOK
<1>11. WantsState /\ query.intents = {} => ScoredInTime(results', chain')
  <2> SUFFICES ASSUME ScoredInTime(results, chain) PROVE ScoredInTime(results', chain')
    BY <1>1 DEF IInv, ChainOK
  <2>1. results'.order = list /\ results'.score = score /\ chain' = chain /\ chain \in SUBSET Ids(results)
    BY <1>1, <1>4 DEF ScoredInTime
  <2>2. RankedInTime(results', chain)
    BY <1>5, <2>1 DEF ScoredInTime, RankedInTime
  <2>3. \A a, b \in chain : Above(results'.score[a], results'.score[b]) <=> InTime(a, b)
    BY <1>7, <2>1 DEF ScoredInTime
  <2> QED BY <1>8, <1>9, <2>1, <2>2, <2>3 DEF ScoredInTime
<1>12. query' = query
  BY <1>1 DEF request
<1>13. ChainOK'
  BY <1>1, <1>11, <1>12, TimeKept DEF ChainOK
<1>14. StageOK'
  BY <1>1 DEF StageOK
<1> QED BY <1>10, <1>13, <1>14 DEF IInv

\* A sort by score leaves messages that are scored in the order of time in it.
LEMMA NewerFirstInTime ==
  ASSUME NEW T \in SUBSET Message, NEW score \in [T -> Score], NEW S \in SUBSET T,
         \A a, b \in S : Above(score[a], score[b]) <=> InTime(a, b), TimeOK
  PROVE  ScoredInTime(NewerFirst(score), S)
<1>1. NewerFirst(score).score = score /\ Ids(NewerFirst(score)) = T
  BY NewerFirstFacts, NewerFirstRanked
<1>2. ASSUME NEW a \in S, NEW b \in S, Before(NewerFirst(score).order, a, b) PROVE InTime(a, b)
  <2>1. Above(score[a], score[b]) \/ (~Above(score[b], score[a]) /\ a > b)
    BY <1>2, NewerFirstFacts
  <2>2. a # b /\ ~InTime(a, a)
    <3>1. ~Above(score[a], score[a]) /\ a \in Int
      BY AboveOrder DEF Message
    <3> QED BY <2>1, <3>1
  <2>3. InTime(a, b) \/ InTime(b, a)
    BY <2>2, TimesTotal
  <2> QED BY <2>1, <2>3
<1> QED BY <1>1, <1>2 DEF ScoredInTime, RankedInTime

\* The same, with the older first among equals.
LEMMA OlderFirstInTime ==
  ASSUME NEW T \in SUBSET Message, NEW score \in [T -> Score], NEW S \in SUBSET T,
         \A a, b \in S : Above(score[a], score[b]) <=> InTime(a, b), TimeOK
  PROVE  RankedInTime(OlderFirst(score), S)
<1>1. ASSUME NEW a \in S, NEW b \in S, Before(OlderFirst(score).order, a, b) PROVE InTime(a, b)
  <2>1. Above(score[a], score[b]) \/ (~Above(score[b], score[a]) /\ a < b)
    BY <1>1, OlderFirstFacts
  <2>2. a # b
    <3>1. ~Above(score[a], score[a]) /\ a \in Int
      BY AboveOrder DEF Message
    <3> QED BY <2>1, <3>1
  <2>3. InTime(a, b) \/ InTime(b, a)
    BY <2>2, TimesTotal
  <2> QED BY <2>1, <2>3
<1> QED BY <1>1 DEF RankedInTime

LEMMA ExpandRelationGraphInv == IInv /\ ExpandRelationGraph => IInv'
<1> SUFFICES ASSUME IInv, ExpandRelationGraph PROVE IInv'
  OBVIOUS
<1>1. /\ stage' = "neighbors" /\ round' = round /\ rankings' = rankings /\ chain' = chain
      /\ operands' = operands /\ local' = local /\ UNCHANGED request /\ stage = "graph"
  BY DEF ExpandRelationGraph, Goto
<1>2. PICK hop \in RelatedByHop :
        results' = Shown(NewerFirst(Joined(results, [m \in DOMAIN hop |-> Fraction(13, 20 * hop[m])])))
  BY DEF ExpandRelationGraph
<1>3. PICK found \in SUBSET Message : hop \in [found -> 1 .. 3]
  <2>1. hop \in UNION {[found -> 1 .. 3] : found \in SUBSET Message}
    BY DEF RelatedByHop
  <2> QED BY <2>1
<1> DEFINE related == [m \in DOMAIN hop |-> Fraction(13, 20 * hop[m])]
           all == Ids(results) \cup found
           score == Joined(results, related)
           sorted == NewerFirst(score)
<1>4. related \in [found -> Score]
  <2>1. \A h \in 1 .. 3 : 13 \in Positive /\ 20 * h \in Positive
    BY DEF Positive
  <2>2. \A h \in 1 .. 3 : Fraction(13, 20 * h) \in Score
    BY <2>1, FractionValue
  <2>3. DOMAIN hop = found /\ \A m \in found : hop[m] \in 1 .. 3
    BY <1>3
  <2> QED BY <2>2, <2>3
<1>5. results' = Shown(sorted)
  BY <1>2
<1> HIDE DEF related
<1>6. score \in [all -> Score] /\ all \in SUBSET Message /\ \A m \in Ids(results) : score[m] = results.score[m]
  BY <1>3, <1>4, InvFacts, JoinedFacts
<1>7. Ids(results) \in SUBSET all
  OBVIOUS
<1> HIDE DEF score, all
<1>8. Ranked(sorted) /\ Ids(sorted) = all
  BY <1>6, NewerFirstRanked
<1>9. /\ Ranked(results') /\ Ids(results') = all \ hidden
      /\ \A m \in Ids(results') : results'.score[m] = sorted.score[m]
      /\ \A a, b \in Ids(results') : Before(results'.order, a, b) <=> Before(sorted.order, a, b)
  <2> HIDE DEF sorted
  <2> QED BY <1>5, <1>8, ShownRanked
<1>10. TypeOK' /\ RankingsOK'
  BY <1>1, <1>9, InvFacts, TypesKept DEF Stages, IInv, TypeOK
<1>11. WantsState /\ query.intents = {} => ScoredInTime(results', chain \ hidden)
  <2> SUFFICES ASSUME ScoredInTime(results, chain) PROVE ScoredInTime(results', chain \ hidden)
    BY <1>1 DEF IInv, ChainOK
  <2>1. chain \in SUBSET all /\ \A a, b \in chain : Above(score[a], score[b]) <=> InTime(a, b)
    BY <1>6, <1>7 DEF ScoredInTime
  <2>2. ScoredInTime(sorted, chain)
    BY <1>6, <2>1, InvFacts, NewerFirstInTime
  <2>3. chain \ hidden \in SUBSET Ids(results')
    BY <1>9, <2>1
  <2> HIDE DEF sorted
  <2> QED BY <1>9, <2>2, <2>3 DEF ScoredInTime, RankedInTime
<1>12. query' = query /\ hidden' = hidden
  BY <1>1 DEF request
<1>13. ChainOK'
  BY <1>1, <1>11, <1>12, TimeKept DEF ChainOK
<1>14. StageOK'
  <2>1. Ids(results') \cap hidden = {}
    BY <1>9
  <2>2. (Ids(results) \cap hidden = {})'
    BY <1>12, <2>1 DEF Ids
  <2> QED BY <1>1, <2>2 DEF StageOK
<1> QED BY <1>10, <1>13, <1>14 DEF IInv

\* What the search goes on with, for the neighbors that it finds.
WithNeighbors(mates) ==
  Shown(Truncated(OlderFirst(Joined(results, [m \in mates \ Ids(results) |-> Support(m)])), K))

\* The chain stays in order.
LEMMA WithNeighborsFacts ==
  ASSUME IInv, RequestAssumption, stage = "neighbors",
         NEW mates \in SUBSET Message, \A m \in mates : \E h \in Ids(results) : Near(h, m)
  PROVE  /\ Ranked(WithNeighbors(mates))
         /\ WantsState /\ query.intents = {} =>
              RankedInTime(WithNeighbors(mates), chain \cap Ids(WithNeighbors(mates)))
<1> DEFINE new == mates \ Ids(results)
           support == [m \in new |-> Support(m)]
           all == Ids(results) \cup new
           score == Joined(results, support)
           sorted == OlderFirst(score)
           cut == Truncated(sorted, K)
           shown == WithNeighbors(mates)
<1>1. shown = Shown(cut)
  BY DEF WithNeighbors
<1> HIDE DEF shown
<1>2. \A m \in new : Support(m) \in Score
  BY InvFacts, SupportFacts
<1>3. new \in SUBSET Message /\ support \in [new -> Score] /\ new \cap Ids(results) = {}
      /\ \A m \in new : support[m] = Support(m)
  BY <1>2
<1> HIDE DEF support, new
<1>4. /\ score \in [all -> Score] /\ all \in SUBSET Message
      /\ \A m \in Ids(results) : score[m] = results.score[m]
      /\ \A m \in new : score[m] = Support(m)
  <2>1. Ranked(results) /\ new \in SUBSET Message /\ support \in [new -> Score]
    BY <1>3, InvFacts
  <2>2. /\ \A m \in new \ Ids(results) : score[m] = support[m]
        /\ score \in [all -> Score] /\ all \in SUBSET Message /\ \A m \in Ids(results) : score[m] = results.score[m]
    <3>1. ASSUME NEW m \in new \ Ids(results) PROVE score[m] = support[m]
      <4>1. score = [k \in Ids(results) \cup DOMAIN support |->
                       IF k \in Ids(results) THEN results.score[k] ELSE support[k]]
        BY DEF Joined
      <4>2. DOMAIN support = new
        BY <2>1
      <4> HIDE DEF score
      <4> QED BY <4>1, <4>2
    <3>2. score \in [all -> Score]
      BY <2>1, JoinedFacts, Zenon
    <3>3. \A m \in Ids(results) : score[m] = results.score[m]
      BY <2>1, JoinedFacts, Zenon
    <3>4. all \in SUBSET Message
      BY <2>1, InvFacts
    <3> QED BY <3>1, <3>2, <3>3, <3>4
  <2> HIDE DEF score, all
  <2>3. \A m \in new : m \in new \ Ids(results)
    BY <1>3
  <2>4. \A m \in new : score[m] = Support(m)
    BY <1>3, <2>2, <2>3
  <2> QED BY <2>2, <2>4
<1>5. Ids(results) \in SUBSET all /\ \A m \in all : m \in Ids(results) \/ m \in new
  OBVIOUS
<1> HIDE DEF score, all
<1>6. /\ Ranked(sorted) /\ Ids(sorted) = all /\ sorted.score = score
      /\ \A a, b \in all : Above(score[a], score[b]) => Before(sorted.order, a, b)
  BY <1>4, OlderFirstRanked, OlderFirstFacts
<1>7. /\ Ranked(cut) /\ Ids(cut) \in SUBSET all
      /\ \A a, b \in Ids(cut) : Before(cut.order, a, b) <=> Before(sorted.order, a, b)
      /\ \A a \in all, b \in Ids(cut) : Before(sorted.order, a, b) => a \in Ids(cut)
  <2>1. K \in Nat
    BY InvFacts
  <2> HIDE DEF sorted
  <2> QED BY <1>6, <2>1, TruncatedRanked
<1>8. /\ Ranked(shown) /\ Ids(shown) = Ids(cut) \ hidden
      /\ \A a, b \in Ids(shown) : Before(shown.order, a, b) <=> Before(cut.order, a, b)
  <2> HIDE DEF cut
  <2> QED BY <1>1, <1>7, ShownRanked
<1>10. WantsState /\ query.intents = {} => ScoredInTime(results, chain \ hidden)
  BY DEF IInv, ChainOK
<1>12. WantsState /\ query.intents = {} => RankedInTime(shown, chain \cap Ids(shown))
  <2> SUFFICES ASSUME ScoredInTime(results, chain \ hidden) PROVE RankedInTime(shown, chain \cap Ids(shown))
    BY <1>10
  <2> DEFINE S == chain \ hidden
  <2>1. S \in SUBSET all /\ \A a, b \in S : Above(score[a], score[b]) <=> InTime(a, b)
    BY <1>4, <1>5 DEF ScoredInTime
  <2> HIDE DEF S
  <2>2. RankedInTime(sorted, S)
    BY <1>4, <2>1, InvFacts, OlderFirstInTime
  <2> HIDE DEF sorted, cut
  <2>3. \A a, b \in chain \cap Ids(shown) : a \in S /\ b \in S /\ a \in Ids(cut) /\ b \in Ids(cut)
    BY <1>8 DEF S
  <2> QED BY <1>7, <1>8, <2>2, <2>3 DEF RankedInTime
<1> QED BY <1>8, <1>12 DEF shown

LEMMA ExpandNeighborsInv == IInv /\ ExpandNeighbors => IInv'
<1> SUFFICES ASSUME IInv, ExpandNeighbors PROVE IInv'
  OBVIOUS
<1>1. /\ rankings' = rankings /\ chain' = chain /\ operands' = operands /\ UNCHANGED request /\ stage = "neighbors"
  BY DEF ExpandNeighbors
<1>2. PICK mates \in SUBSET Message :
        (\A m \in mates : \E h \in Ids(results) : Near(h, m)) /\ results' = WithNeighbors(mates)
  BY DEF ExpandNeighbors, WithNeighbors
<1>3. PICK next \in AfterNeighbors :
        /\ stage' = next
        /\ IF next = "match" THEN round' = 2 /\ local' = results' ELSE UNCHANGED <<round, local>>
  BY DEF ExpandNeighbors, Goto
<1>4. /\ stage' \in {"answered", "operands", "connect", "match"}
      /\ pipeline \in {"lexical", "expanded", "hybrid"}
  BY <1>3 DEF AfterNeighbors, IInv, TypeOK
<1>5. /\ Ranked(results')
      /\ WantsState /\ query.intents = {} => RankedInTime(results', chain \cap Ids(results'))
  BY <1>1, <1>2, WithNeighborsFacts, RequestAssumption
<1>6. Ranked(local') /\ round' \in 1 .. 2
  BY <1>3, <1>5, InvFacts DEF IInv, TypeOK
<1>7. TypeOK' /\ RankingsOK'
  BY <1>1, <1>4, <1>5, <1>6, InvFacts, TypesKept DEF Stages, IInv, TypeOK
<1>8. query' = query /\ hidden' = hidden
  BY <1>1 DEF request
<1>9. ChainOK'
  BY <1>1, <1>4, <1>5, <1>8, TimeKept DEF ChainOK
<1>10. StageOK'
  <2>1. (stage' = "connect" => pipeline = "expanded") /\ (stage' = "operands" => pipeline = "hybrid")
    BY <1>3, <1>4 DEF AfterNeighbors
  <2>2. pipeline' = pipeline
    BY <1>1 DEF request
  <2> QED BY <1>4, <2>1, <2>2 DEF StageOK
<1> QED BY <1>7, <1>9, <1>10 DEF IInv

LEMMA ConnectInv == IInv /\ Connect => IInv'
<1> SUFFICES ASSUME IInv, Connect PROVE IInv'
  OBVIOUS
<1>1. /\ stage' \in {"answered", "fuse"} /\ round' = round /\ chain' = chain
      /\ operands' = operands /\ local' = local /\ UNCHANGED request /\ stage = "connect"
  BY DEF Connect, Goto
<1>2. PICK out \in SUBSET Message :
        \/ results' = Truncated(results, TopK) /\ rankings' = rankings
        \/ results' = local /\ rankings' = rankings
        \/ results' = results /\ rankings' = <<local.order, Without(results.order, out)>>
  <2>1. PICK named \in SUBSET Ids(results) :
          LET connected == Without(results.order, {m \in Message : ~Connected(m, named)}) IN
          \/ results' = Truncated(results, TopK) /\ rankings' = rankings
          \/ results' = local /\ rankings' = rankings
          \/ results' = results /\ rankings' = <<local.order, connected>>
    BY DEF Connect, Goto
  <2>2. {m \in Message : ~Connected(m, named)} \in SUBSET Message
    OBVIOUS
  <2> QED BY <2>1, <2>2
<1>3. Ranked(results')
  <2>1. Ranked(Truncated(results, TopK))
    BY InvFacts, TruncatedRanked
  <2> QED BY <1>2, <2>1, InvFacts
<1>4. rankings' \in Lists \X Lists
  <2>1. local.order \in Lists /\ Without(results.order, out) \in Lists
    BY InvFacts, WithoutFacts DEF Ranked
  <2> QED BY <1>2, <2>1, InvFacts
<1>5. TypeOK' /\ RankingsOK'
  BY <1>1, <1>3, <1>4, InvFacts, TypesKept DEF Stages, IInv, TypeOK
<1>6. pipeline = "expanded"
  BY <1>1 DEF IInv, StageOK
<1>7. pipeline' = "expanded"
  BY <1>1, <1>6 DEF request
<1>8. ChainOK' /\ StageOK'
  BY <1>1, <1>7 DEF ChainOK, StageOK
<1> QED BY <1>5, <1>8 DEF IInv

LEMMA FuseSearchesInv == IInv /\ FuseSearches => IInv'
<1> SUFFICES ASSUME IInv, FuseSearches PROVE IInv'
  OBVIOUS
<1>1. /\ stage' = "answered" /\ round' = round /\ chain' = chain /\ rankings' = <<<< >>, << >>>>
      /\ operands' = operands /\ local' = local /\ UNCHANGED request /\ pipeline = "expanded"
  BY DEF FuseSearches, Goto, NoRankings
<1>2. Ranked(results')
  <2> DEFINE fused == Fused(rankings, <<1, 1>>)
  <2>1. <<1, 1>> \in Score
    BY DEF Score, Positive
  <2>2. Ranked(fused)
    BY <2>1, FusedRankings
  <2>3. results' = Truncated(fused, TopK)
    BY DEF FuseSearches
  <2> HIDE DEF fused
  <2> QED BY <2>2, <2>3, InvFacts, TruncatedRanked
<1>3. rankings' \in Lists \X Lists
  BY <1>1, EmptyFacts
<1>4. TypeOK' /\ RankingsOK'
  BY <1>1, <1>2, <1>3, InvFacts, TypesKept DEF Stages, IInv, TypeOK
<1>5. pipeline' = "expanded"
  BY <1>1 DEF request
<1>6. ChainOK' /\ StageOK'
  BY <1>1, <1>5 DEF ChainOK, StageOK
<1> QED BY <1>4, <1>6 DEF IInv

\* Nothing is the only empty ranking.
LEMMA OnlyNothing ==
  ASSUME NEW r, Ranked(r)
  PROVE  r = Nothing <=> r.order = << >>
<1>1. ASSUME r.order = << >> PROVE r = Nothing
  <2>1. Ids(r) = {}
    BY <1>1, EmptyFacts DEF Ids
  <2>2. r.score \in [{} -> Score]
    BY <2>1 DEF Ranked
  <2>3. r.score = << >> /\ Nothing.score = << >> /\ Nothing.order = << >>
    BY <2>2, NothingRanked
  <2>4. r = [order |-> << >>, score |-> << >>] /\ Nothing = [order |-> << >>, score |-> << >>]
    <3>1. Nothing = [order |-> Nothing.order, score |-> Nothing.score]
      BY NothingRanked DEF Ranked
    <3> QED BY <1>1, <2>3, <3>1 DEF Ranked
  <2> QED BY <2>4
<1> QED BY <1>1, NothingRanked

LEMMA FindOperandsInv == IInv /\ FindOperands => IInv'
<1> SUFFICES ASSUME IInv, FindOperands PROVE IInv'
  OBVIOUS
<1>1. /\ stage' = "interleave" /\ round' = round /\ chain' = chain /\ rankings' = rankings
      /\ results' = results /\ local' = local /\ UNCHANGED request /\ stage = "operands"
  BY DEF FindOperands, Goto
<1>2. PICK hits \in OperandHits :
        operands' = Shown([order |-> hits, score |-> Boosted(<< >>, hits, <<1, 1>>, 1)])
  BY DEF FindOperands
<1>3. hits \in Lists /\ (TopK = 1 => hits = << >>)
  BY <1>2, EmptyFacts DEF OperandHits
<1> DEFINE score == Boosted(<< >>, hits, <<1, 1>>, 1)
           found == [order |-> hits, score |-> score]
<1>4. score \in [Range(hits) -> Score]
  <2> DEFINE weight == <<1, 1>>
             offset == 1
  <2>1. weight \in Score /\ offset \in Nat
    BY DEF Score, Positive
  <2> HIDE DEF weight, offset
  <2>2. Boosted(<< >>, hits, weight, offset) \in [Range(hits) -> Score]
    BY <1>3, <2>1, RouteScores, Zenon
  <2> QED BY <2>2 DEF weight, offset
<1> HIDE DEF score
<1>5. Ranked(found) /\ Ids(found) = Range(hits)
  BY <1>3, <1>4, ARanking
<1>6. operands' = Shown(found)
  BY <1>2 DEF score
<1> HIDE DEF found
<1>7. Ranked(operands') /\ Ids(operands') = Ids(found) \ hidden
  BY <1>5, <1>6, ShownRanked
<1>8. TypeOK' /\ RankingsOK'
  BY <1>1, <1>7, InvFacts, TypesKept DEF Stages, IInv, TypeOK
<1>9. TopK = 1 => operands' = Nothing
  <2> SUFFICES ASSUME TopK = 1 PROVE operands' = Nothing
    OBVIOUS
  <2>1. Range(operands'.order) = {} /\ operands'.order \in Lists
    BY <1>3, <1>5, <1>7, EmptyFacts DEF Ids, Ranked
  <2> QED BY <1>7, <2>1, EmptyFacts, OnlyNothing
<1>10. ChainOK'
  BY <1>1 DEF ChainOK
<1>11. StageOK'
  <2>1. TopK = 1 => (operands = Nothing)'
    BY <1>9 DEF Nothing, Reciprocal, Rank
  <2>2. pipeline' = "hybrid"
    BY <1>1 DEF IInv, StageOK, request
  <2> QED BY <1>1, <2>1, <2>2 DEF StageOK
<1> QED BY <1>8, <1>10, <1>11 DEF IInv

\* Three lists, one after the other.
LEMMA ThreeLists ==
  ASSUME NEW a \in Lists, NEW b \in Lists, NEW c \in Lists
  PROVE  /\ a \o b \o c \in Seq(Message) /\ Len(a \o b \o c) = Len(a) + Len(b) + Len(c)
         /\ \A i \in 1 .. Len(a) : (a \o b \o c)[i] = a[i]
         /\ \A i \in 1 .. Len(b) : (a \o b \o c)[Len(a) + i] = b[i]
         /\ Range(a \o b \o c) \in SUBSET (Range(a) \cup Range(b) \cup Range(c))
<1> DEFINE k == Len(a)
           l == Len(b)
           n == Len(c)
           ab == a \o b
           abc == ab \o c
<1>1. /\ a \in Seq(Message) /\ k \in Nat /\ DOMAIN a = 1 .. k
      /\ b \in Seq(Message) /\ l \in Nat /\ DOMAIN b = 1 .. l
      /\ c \in Seq(Message) /\ n \in Nat /\ DOMAIN c = 1 .. n
  BY ListFacts
<1>2. /\ ab \in Seq(Message) /\ Len(ab) = k + l /\ \A i \in 1 .. k : ab[i] = a[i]
      /\ \A i \in 1 .. l : ab[k + i] = b[i]
  BY <1>1
<1> HIDE DEF ab
<1>3. /\ abc \in Seq(Message) /\ Len(abc) = (k + l) + n /\ DOMAIN abc = 1 .. (k + l) + n
      /\ \A i \in 1 .. k + l : abc[i] = ab[i]
      /\ \A i \in 1 .. n : abc[(k + l) + i] = c[i]
  <2> DEFINE p == Len(ab)
  <2>1. p \in Nat /\ n \in Nat /\ p = k + l /\ ab \in Seq(Message) /\ c \in Seq(Message)
    BY <1>1, <1>2
  <2>2. abc \in Seq(Message) /\ Len(abc) = p + n
    BY <2>1
  <2>3. DOMAIN abc = 1 .. p + n
    BY <2>2
  <2>4. (\A i \in 1 .. p : abc[i] = ab[i]) /\ \A i \in 1 .. n : abc[p + i] = c[i]
    BY <2>1
  <2> HIDE DEF p, abc, k, l, n
  <2> QED BY <2>1, <2>2, <2>3, <2>4
<1> HIDE DEF abc, k, l, n
<1>4. \A i \in 1 .. k : abc[i] = a[i]
  <2> TAKE i \in 1 .. k
  <2>1. i \in 1 .. k + l
    BY <1>1
  <2> QED BY <1>2, <1>3, <2>1
<1>5. \A i \in 1 .. l : abc[k + i] = b[i]
  <2> TAKE i \in 1 .. l
  <2>1. k + i \in 1 .. k + l
    BY <1>1
  <2> QED BY <1>2, <1>3, <2>1
<1>6. \A i \in 1 .. (k + l) + n : i \in 1 .. k \/ (\E j \in 1 .. l : i = k + j) \/ \E j \in 1 .. n : i = (k + l) + j
  <2> TAKE i \in 1 .. (k + l) + n
  <2>1. CASE i <= k
    BY <1>1, <2>1
  <2>2. CASE k < i /\ i <= k + l
    <3>1. i - k \in 1 .. l /\ i = k + (i - k)
      BY <1>1, <2>2
    <3> QED BY <3>1
  <2>3. CASE k + l < i
    <3>1. i - (k + l) \in 1 .. n /\ i = (k + l) + (i - (k + l))
      BY <1>1, <2>3
    <3> QED BY <3>1
  <2> QED BY <1>1, <2>1, <2>2, <2>3
<1>7. ASSUME NEW m \in Range(abc) PROVE m \in Range(a) \cup Range(b) \cup Range(c)
  <2>1. PICK i \in 1 .. (k + l) + n : abc[i] = m
    BY <1>3 DEF Range
  <2>2. CASE i \in 1 .. k
    BY <1>1, <1>4, <2>1, <2>2 DEF Range
  <2>3. CASE \E j \in 1 .. l : i = k + j
    BY <1>1, <1>5, <2>1, <2>3 DEF Range
  <2>4. CASE \E j \in 1 .. n : i = (k + l) + j
    BY <1>1, <1>3, <2>1, <2>4 DEF Range
  <2> QED BY <1>6, <2>1, <2>2, <2>3, <2>4
<1>8. a \o b \o c = abc /\ Len(abc) = k + l + n
  BY <1>3 DEF abc, ab
<1>9. Range(abc) \in SUBSET (Range(a) \cup Range(b) \cup Range(c))
  BY <1>7
<1> QED BY <1>3, <1>4, <1>5, <1>8, <1>9 DEF k, l, n

\* The answer with its reserved seats: what it ranks, and who sits where.
SeatsOf(compare) == Cut(operands.order, IF compare THEN 2 ELSE 1)
LeadOf(compare) == IF compare THEN << >> ELSE Cut(results.order, 1)
SeatedOrder(compare) ==
  IF operands.order = << >> THEN Cut(results.order, TopK)
  ELSE Cut(Seated(LeadOf(compare), SeatsOf(compare), results.order), TopK)

\* Nothing but results and seats is in the seated order, each message once.
LEMMA SeatedFacts ==
  ASSUME IInv, RequestAssumption, NEW compare \in BOOLEAN
  PROVE  /\ SeatedOrder(compare) \in Lists
         /\ Range(LeadOf(compare)) \in SUBSET Ids(results) /\ Range(SeatsOf(compare)) \in SUBSET Ids(operands)
         /\ Range(SeatedOrder(compare)) \in SUBSET (Ids(results) \cup Range(SeatsOf(compare)))
<1> DEFINE lead == LeadOf(compare)
           seats == SeatsOf(compare)
           list == lead \o seats \o results.order
<1>1. operands.order \in Lists /\ Ids(operands) = Range(operands.order) /\ TopK \in Nat
      /\ results.order \in Lists /\ Ids(results) = Range(results.order)
  BY InvFacts DEF Ranked, Ids
<1>2. lead \in Lists /\ Range(lead) \in SUBSET Ids(results)
  <2>1. 1 \in Nat
    OBVIOUS
  <2>2. Cut(results.order, 1) \in Lists /\ Range(Cut(results.order, 1)) \in SUBSET Range(results.order)
    BY <1>1, <2>1, CutFacts
  <2> QED BY <1>1, <2>2, EmptyFacts DEF LeadOf
<1>3. seats \in Lists /\ Range(seats) \in SUBSET Ids(operands)
  <2> DEFINE k == IF compare THEN 2 ELSE 1
  <2>1. k \in Nat /\ seats = Cut(operands.order, k)
    BY DEF SeatsOf
  <2> HIDE DEF k
  <2> QED BY <1>1, <2>1, CutFacts
<1> HIDE DEF lead, seats
<1>4. list \in Seq(Message) /\ Range(list) \in SUBSET (Ids(results) \cup Range(seats))
  BY <1>1, <1>2, <1>3, ThreeLists
<1> HIDE DEF list
<1>5. Distinct(list) \in Lists /\ Range(Distinct(list)) = Range(list)
  BY <1>4, DistinctFacts
<1>6. /\ Cut(Distinct(list), TopK) \in Lists
      /\ Range(Cut(Distinct(list), TopK)) \in SUBSET (Ids(results) \cup Range(seats))
  BY <1>1, <1>4, <1>5, CutFacts
<1>7. Cut(results.order, TopK) \in Lists /\ Range(Cut(results.order, TopK)) \in SUBSET Ids(results)
  BY <1>1, CutFacts
<1>8. SeatedOrder(compare) = IF operands.order = << >> THEN Cut(results.order, TopK) ELSE Cut(Distinct(list), TopK)
  BY DEF SeatedOrder, Seated, list, lead, seats
<1> QED BY <1>2, <1>3, <1>6, <1>7, <1>8 DEF lead, seats

\* The answer with its reserved seats is a ranking in the seated order.
LEMMA InterleaveFacts ==
  ASSUME IInv, InterleaveOperands, RequestAssumption
  PROVE  /\ query.compare \in BOOLEAN /\ Ranked(results') /\ results'.order = SeatedOrder(query.compare)
<1> DEFINE lead == LeadOf(query.compare)
           seats == SeatsOf(query.compare)
           order == SeatedOrder(query.compare)
           score == [m \in Range(order) |-> IF m \in Range(seats) \ Range(lead) THEN operands.score[m]
                                                                               ELSE results.score[m]]
<1>1. query.compare \in BOOLEAN
  BY RequestAssumption DEF IInv, TypeOK
<1>2. results' = [order |-> order, score |-> score]
  BY DEF InterleaveOperands, SeatedOrder, LeadOf, SeatsOf
<1>3. order \in Lists /\ Range(lead) \in SUBSET Ids(results) /\ Range(seats) \in SUBSET Ids(operands)
      /\ Range(order) \in SUBSET (Ids(results) \cup Range(seats))
  BY <1>1, SeatedFacts, RequestAssumption
<1> HIDE DEF lead, seats, order
<1>4. results.score \in [Ids(results) -> Score] /\ operands.score \in [Ids(operands) -> Score]
  BY InvFacts DEF Ranked
<1>5. \A m \in Range(order) : (m \in Range(seats) \ Range(lead) => m \in Ids(operands))
                              /\ (m \notin Range(seats) \ Range(lead) => m \in Ids(results))
  BY <1>3
<1>6. score \in [Range(order) -> Score]
  BY <1>4, <1>5
<1> HIDE DEF score
<1>7. Ranked(results')
  BY <1>2, <1>3, <1>6, ARanking
<1> QED BY <1>1, <1>2, <1>7 DEF order

LEMMA InterleaveOperandsInv == IInv /\ InterleaveOperands => IInv'
<1> SUFFICES ASSUME IInv, InterleaveOperands PROVE IInv'
  OBVIOUS
<1>1. /\ stage' = "answered" /\ round' = round /\ chain' = chain /\ rankings' = rankings
      /\ operands' = operands /\ local' = local /\ UNCHANGED request /\ stage = "interleave"
  BY DEF InterleaveOperands, Goto
<1>2. Ranked(results')
  BY InterleaveFacts, RequestAssumption
<1>3. TypeOK' /\ RankingsOK'
  BY <1>1, <1>2, InvFacts, TypesKept DEF Stages, IInv, TypeOK
<1>4. pipeline = "hybrid"
  BY <1>1 DEF IInv, StageOK
<1>5. pipeline' = "hybrid"
  BY <1>1, <1>4 DEF request
<1>6. ChainOK' /\ StageOK'
  BY <1>1, <1>5 DEF ChainOK, StageOK
<1> QED BY <1>3, <1>6 DEF IInv

\* A step that changes nothing keeps the invariant.
LEMMA StutterInv == IInv /\ UNCHANGED vars => IInv'
<1> SUFFICES ASSUME IInv, UNCHANGED vars PROVE IInv'
  OBVIOUS
<1>1. /\ stage' = stage /\ round' = round /\ chain' = chain /\ rankings' = rankings /\ results' = results
      /\ operands' = operands /\ local' = local /\ UNCHANGED request
  BY DEF vars
<1>2. query' = query /\ hidden' = hidden /\ pipeline' = pipeline
  BY <1>1 DEF request
<1>3. TypeOK' /\ RankingsOK'
  BY <1>1, InvFacts, TypesKept DEF IInv, TypeOK
<1>4. ChainOK'
  BY <1>1, <1>2, TimeKept DEF IInv, ChainOK
<1>5. StageOK'
  BY <1>1, <1>2 DEF IInv, StageOK, Ids, RouteLimit, Nothing, Reciprocal, Rank
<1> QED BY <1>3, <1>4, <1>5 DEF IInv

\* The invariant is inductive.
LEMMA InvStep == IInv /\ [Next]_vars => IInv'
<1> SUFFICES ASSUME IInv, [Next]_vars PROVE IInv'
  OBVIOUS
<1>1. CASE Next
  BY <1>1, MatchInv, MatchTwiceInv, FuseRoutesInv, ExpandQueryFacetsInv, ExpandStateChainInv, ExpandIntentTagsInv,
     ExpandEntityBridgesInv, ExpandRelationGraphInv, ExpandNeighborsInv, ConnectInv, FuseSearchesInv,
     FindOperandsInv, InterleaveOperandsInv DEF Next
<1>2. CASE UNCHANGED vars
  BY <1>2, StutterInv
<1> QED BY <1>1, <1>2

----------------------------------------------------------------------------
(* The theorems *)

\* The invariant holds in every reachable state.
THEOREM Inductive == Spec => []IInv
<1>1. Init => IInv
  BY InitInv
<1>2. IInv /\ [Next]_vars => IInv'
  BY InvStep
<1> QED BY <1>1, <1>2, PTL DEF Spec

\* Every stage leaves a ranking: each message once, all with a score.
THEOREM TypeCorrect == Spec => []TypeOK
<1>1. IInv => TypeOK
  BY DEF IInv
<1> QED BY <1>1, Inductive, PTL

\* Facets before the chain, entity bridges, the graph and neighbors after it
\* leave a state chain in the order of time, whatever they find and score.
THEOREM ChainStaysInOrder == Spec => []StateInOrder
<1>1. IInv => StateInOrder
  <2> SUFFICES ASSUME IInv, WantsState, query.intents = {},
                      \/ stage \in {"tags", "bridges", "graph", "neighbors", "connect", "operands"}
                      \/ stage = "answered" /\ pipeline = "lexical",
                      NEW a \in chain \cap Ids(results), NEW b \in chain \cap Ids(results),
                      Before(results.order, a, b)
               PROVE  ~Timed(b, a) /\ IF query.history THEN ~Happened(b, a) ELSE ~Happened(a, b)
    BY DEF StateInOrder
  <2>1. InTime(a, b)
    <3>1. CASE stage \in {"tags", "bridges", "graph"}
      BY <3>1 DEF IInv, ChainOK, ScoredInTime, RankedInTime
    <3>2. CASE stage = "neighbors"
      BY <3>2 DEF IInv, ChainOK, StageOK, ScoredInTime, RankedInTime
    <3>3. CASE stage \in {"connect", "operands"} \/ (stage = "answered" /\ pipeline = "lexical")
      BY <3>3 DEF IInv, ChainOK, RankedInTime
    <3> QED BY <3>1, <3>2, <3>3
  <2>2. \A m \in Message : At(m) # None => At(m) \in Int
    <3>1. log \in Log
      BY DEF IInv, TypeOK
    <3> QED BY <3>1, MessageAssumption DEF At, Message
  <2>3. a \in Message /\ b \in Message
    BY InvFacts
  <2> DEFINE s == At(a)
             t == At(b)
  <2>4. (s # None => s \in Int) /\ (t # None => t \in Int)
    BY <2>2, <2>3
  <2> HIDE DEF s, t
  <2>5. CASE query.history
    BY <2>1, <2>4, <2>5 DEF InTime, OldestFirst, Timed, SameTime, Happened, s, t
  <2>6. CASE ~query.history
    BY <2>1, <2>4, <2>6 DEF InTime, NewestFirst, Timed, SameTime, Happened, s, t
  <2> QED BY <2>5, <2>6
<1> QED BY <1>1, Inductive, PTL

\* What a fusion makes of its two rankings, whichever search it ends.
LEMMA FuseFacts ==
  ASSUME IInv, Next, stage = "fuse"
  PROVE  \E one \in Lists, two \in Lists, weight \in Score :
           /\ rankings = <<one, two>> /\ Range(one) \cup Range(two) \in SUBSET Message
           /\ pipeline = "hybrid" => weight = VectorWeight
           /\ Ids(results') \in SUBSET (Range(one) \cup Range(two))
           /\ \A a \in Range(one) \cup Range(two), b \in Ids(results') :
                Above(Mixed(one, two, weight)[a], Mixed(one, two, weight)[b]) =>
                  a \in Ids(results') /\ Before(results'.order, a, b)
<1>1. PICK one \in Lists, two \in Lists : rankings = <<one, two>>
  BY InvFacts
<1>2. Range(one) \cup Range(two) \in SUBSET Message
  BY ListFacts
<1>3. <<1, 1>> \in Score /\ VectorWeight \in Score /\ TopK \in Nat
  BY InvFacts DEF Score, Positive, VectorWeight
<1>4. CASE FuseRoutes
  <2> DEFINE fused == Fused(<<one, two>>, VectorWeight)
             list == fused.order
             cut == Cut(list, TopK)
             all == Range(one) \cup Range(two)
  <2>1. /\ Ranked(fused) /\ Ids(fused) = all
        /\ \A a, b \in all :
             Above(Mixed(one, two, VectorWeight)[a], Mixed(one, two, VectorWeight)[b]) => Before(list, a, b)
    BY <1>3, FusedFacts
  <2>2. results' = Reciprocal(cut)
    BY <1>1, <1>4 DEF FuseRoutes
  <2>3. list \in Lists /\ Range(list) = all
    BY <2>1 DEF Ranked, Ids
  <2> HIDE DEF list, all
  <2>4. /\ cut \in Lists /\ Range(cut) \in SUBSET all
        /\ \A a \in all, b \in Range(cut) : Before(list, a, b) => a \in Range(cut)
        /\ \A a, b \in Range(cut) : Before(cut, a, b) <=> Before(list, a, b)
    BY <1>3, <2>3, CutFacts
  <2> HIDE DEF cut
  <2>5. Ids(results') = Range(cut) /\ results'.order = cut
    BY <2>2, <2>4, ReciprocalRanked
  <2> DEFINE higher(a, b) == Above(Mixed(one, two, VectorWeight)[a], Mixed(one, two, VectorWeight)[b])
  <2>6. \A a, b \in all : higher(a, b) => Before(list, a, b)
    BY <2>1
  <2> HIDE DEF higher
  <2>7. \A a \in all, b \in Ids(results') : higher(a, b) => a \in Ids(results') /\ Before(results'.order, a, b)
    BY <2>4, <2>5, <2>6
  <2> QED BY <1>1, <1>2, <1>3, <2>4, <2>5, <2>7 DEF higher, all
<1>5. CASE FuseSearches
  <2> DEFINE weight == <<1, 1>>
             fused == Fused(<<one, two>>, weight)
             all == Range(one) \cup Range(two)
             higher(a, b) == Above(Mixed(one, two, weight)[a], Mixed(one, two, weight)[b])
  <2>1. results' = Truncated(fused, TopK) /\ pipeline # "hybrid" /\ weight \in Score
    BY <1>1, <1>3, <1>5 DEF FuseSearches
  <2> HIDE DEF weight
  <2>2. Ranked(fused) /\ Ids(fused) = all /\ \A a, b \in all : higher(a, b) => Before(fused.order, a, b)
    BY <2>1, FusedFacts
  <2> HIDE DEF fused, all, higher
  <2>3. /\ Ids(results') \in SUBSET all
        /\ \A a, b \in Ids(results') : Before(results'.order, a, b) <=> Before(fused.order, a, b)
        /\ \A a \in all, b \in Ids(results') : Before(fused.order, a, b) => a \in Ids(results')
    BY <1>3, <2>1, <2>2, TruncatedRanked
  <2>4. \A a \in all, b \in Ids(results') : higher(a, b) => a \in Ids(results') /\ Before(results'.order, a, b)
    BY <2>2, <2>3
  <2> QED BY <1>1, <1>2, <2>1, <2>3, <2>4 DEF higher, all
<1>6. FuseRoutes \/ FuseSearches
  BY DEF Next, Match, MatchTwice, ExpandQueryFacets, ExpandStateChain, ExpandIntentTags, ExpandEntityBridges,
         ExpandRelationGraph, ExpandNeighbors, Connect, FindOperands, InterleaveOperands
<1> QED BY <1>4, <1>5, <1>6

\* A message that both rankings put ahead of another, or one does and the
\* other has neither, is ahead of it in the fusion, and the cut to top_k never
\* takes it and leaves the other: for every pair of rankings, ties included.
THEOREM FusionAgrees == Spec => FusionRespectsBoth
<1>1. IInv /\ [Next]_vars =>
        [stage = "fuse" =>
           \A a \in Range(rankings[1]) \cup Range(rankings[2]), b \in Ids(results') :
             Better(a, b) => a \in Ids(results') /\ Before(results'.order, a, b)]_vars
  <2> SUFFICES ASSUME IInv, Next, stage = "fuse",
                      NEW a \in Range(rankings[1]) \cup Range(rankings[2]), NEW b \in Ids(results'), Better(a, b)
               PROVE  a \in Ids(results') /\ Before(results'.order, a, b)
    OBVIOUS
  <2>1. PICK one \in Lists, two \in Lists, weight \in Score :
           /\ rankings = <<one, two>> /\ Range(one) \cup Range(two) \in SUBSET Message
           /\ Ids(results') \in SUBSET (Range(one) \cup Range(two))
           /\ \A x \in Range(one) \cup Range(two), y \in Ids(results') :
                Above(Mixed(one, two, weight)[x], Mixed(one, two, weight)[y]) =>
                  x \in Ids(results') /\ Before(results'.order, x, y)
    BY FuseFacts
  <2>2. rankings[1] = one /\ rankings[2] = two
    BY <2>1
  <2> DEFINE Place(list, m) == IF m \in Range(list) THEN Rank(list, m) ELSE Size + 1
             A == Range(one)
             B == Range(two)
  <2>3. /\ Place(one, a) <= Place(one, b) /\ Place(two, a) <= Place(two, b)
        /\ Place(one, a) < Place(one, b) \/ Place(two, a) < Place(two, b)
    BY <2>2 DEF Better
  <2>4. /\ \A m \in A : Rank(one, m) \in Int /\ Rank(one, m) <= Size
        /\ \A m \in B : Rank(two, m) \in Int /\ Rank(two, m) <= Size
        /\ Size \in Int
    <3>1. Len(one) \in Nat /\ Len(one) <= Size /\ Len(two) \in Nat /\ Len(two) <= Size /\ Size \in Nat
      BY ListFacts, MessageAssumption
    <3>2. /\ \A m \in A : Rank(one, m) \in 1 .. Len(one)
          /\ \A m \in B : Rank(two, m) \in 1 .. Len(two)
      BY RankFacts
    <3> QED BY <3>1, <3>2
  <2> HIDE DEF A, B
  <2>5. /\ b \in A => a \in A /\ Rank(one, a) <= Rank(one, b)
        /\ b \in B => a \in B /\ Rank(two, a) <= Rank(two, b)
        /\ \/ a \in A /\ (b \in A => Rank(one, a) < Rank(one, b))
           \/ a \in B /\ (b \in B => Rank(two, a) < Rank(two, b))
    BY <2>3, <2>4 DEF A, B
  <2>6. a \in Range(one) \cup Range(two) /\ b \in Range(one) \cup Range(two)
    BY <2>1, <2>2
  <2>7. Above(Mixed(one, two, weight)[a], Mixed(one, two, weight)[b])
    BY <2>5, <2>6, MixedBetter DEF A, B
  <2> QED BY <2>1, <2>6, <2>7
<1> QED BY <1>1, Inductive, PTL DEF Spec, FusionRespectsBoth

\* The weight of a tenth is enough: as long as the lexical route looks at
\* fewer than 550 candidates, the fusion of the two routes puts a message that
\* shares words with the query before every one that is only similar, and does
\* not cut it for one.  It says nothing of what later stages do to the order:
\* an answer may begin with a vector-only message in a reserved seat.
THEOREM ExactEvidenceFirst ==
  ASSUME RouteLimit(LexicalLimit) < 550
  PROVE  Spec => ExactAheadOfSimilar
<1>1. IInv /\ [Next]_vars =>
        [stage = "fuse" /\ pipeline = "hybrid" =>
           \A a \in Range(rankings[1]), b \in Ids(results') \ Range(rankings[1]) :
             a \in Ids(results') /\ Before(results'.order, a, b)]_vars
  <2> SUFFICES ASSUME IInv, Next, stage = "fuse", pipeline = "hybrid",
                      NEW a \in Range(rankings[1]), NEW b \in Ids(results') \ Range(rankings[1])
               PROVE  a \in Ids(results') /\ Before(results'.order, a, b)
    OBVIOUS
  <2>1. PICK one \in Lists, two \in Lists, weight \in Score :
           /\ rankings = <<one, two>> /\ Range(one) \cup Range(two) \in SUBSET Message
           /\ weight = VectorWeight
           /\ Ids(results') \in SUBSET (Range(one) \cup Range(two))
           /\ \A x \in Range(one) \cup Range(two), y \in Ids(results') :
                Above(Mixed(one, two, weight)[x], Mixed(one, two, weight)[y]) =>
                  x \in Ids(results') /\ Before(results'.order, x, y)
    BY FuseFacts
  <2>2. rankings[1] = one
    BY <2>1
  <2>3. Len(one) < 550
    <3>1. Len(one) <= RouteLimit(LexicalLimit)
      BY <2>2 DEF IInv, StageOK
    <3>2. RouteLimit(LexicalLimit) \in Int /\ Len(one) \in Int
      BY RequestAssumption, ListFacts DEF RouteLimit
    <3> QED BY <3>1, <3>2
  <2>4. a \in Range(one) /\ b \in Range(two) \ Range(one)
    BY <2>1, <2>2
  <2>5. Above(Mixed(one, two, VectorWeight)[a], Mixed(one, two, VectorWeight)[b])
    BY <2>3, <2>4, MixedExact
  <2> QED BY <2>1, <2>4, <2>5
<1> QED BY <1>1, Inductive, PTL DEF Spec, ExactAheadOfSimilar

\* How long a cut is.
LEMMA CutLength ==
  ASSUME NEW list \in Lists, NEW k \in Nat
  PROVE  /\ k <= Len(list) => Len(Cut(list, k)) = k
         /\ Len(list) <= k => Len(Cut(list, k)) = Len(list)
<1> DEFINE n == Len(list)
           l == Len(Cut(list, k))
<1>1. n \in Nat /\ (k < n => l = k) /\ (~(k < n) => l = n)
  BY ListFacts, CutFacts
<1> HIDE DEF n, l
<1>2. (k <= n => l = k) /\ (n <= k => l = n)
  BY <1>1
<1> QED BY <1>2 DEF n, l

\* Who sits in the first two places.
LEMMA FirstSeats ==
  ASSUME IInv, RequestAssumption, stage = "interleave", operands # Nothing, NEW compare \in BOOLEAN
  PROVE  /\ operands.order[1] \in Range(Cut(SeatedOrder(compare), 2))
         /\ ~compare /\ results # Nothing => SeatedOrder(compare)[1] = results.order[1]
         /\ compare => Cut(SeatedOrder(compare), 2) = Cut(operands.order, 2) \/ Len(operands.order) = 1
<1> DEFINE lead == LeadOf(compare)
           seats == SeatsOf(compare)
           rest == results.order
           hits == operands.order
           list == lead \o seats \o rest
           distinct == Distinct(list)
           order == SeatedOrder(compare)
           two == Cut(order, 2)
<1>1. hits \in Lists /\ rest \in Lists /\ hits # << >> /\ (results # Nothing => rest # << >>)
  BY InvFacts, OnlyNothing DEF Ranked
<1>2. TopK \in Nat /\ TopK >= 2
  <2>1. TopK # 1
    BY DEF IInv, StageOK
  <2> QED BY <2>1, RequestAssumption
<1>3. Len(hits) \in Nat /\ Len(hits) >= 1 /\ Len(rest) \in Nat /\ (rest # << >> => Len(rest) >= 1)
      /\ hits \in Seq(Message) /\ rest \in Seq(Message)
  <2>1. hits \in Seq(Message) /\ rest \in Seq(Message)
    BY <1>1, ListFacts
  <2> HIDE DEF hits, rest
  <2> QED BY <1>1, <2>1
<1>4. order = Cut(distinct, TopK)
  BY <1>1 DEF SeatedOrder, Seated
<1>5. 1 \in Nat /\ 2 \in Nat
  OBVIOUS
<1>6. /\ compare => lead = << >> /\ seats = Cut(hits, 2)
      /\ ~compare => lead = Cut(rest, 1) /\ seats = Cut(hits, 1)
  BY DEF LeadOf, SeatsOf
<1> HIDE DEF hits, rest, lead, seats
<1>7. lead \in Lists /\ seats \in Lists
  BY <1>1, <1>5, <1>6, CutFacts, EmptyFacts
<1>8. /\ list \in Seq(Message) /\ Len(list) = Len(lead) + Len(seats) + Len(rest)
      /\ \A i \in 1 .. Len(lead) : list[i] = lead[i]
      /\ \A i \in 1 .. Len(seats) : list[Len(lead) + i] = seats[i]
  BY <1>1, <1>7, ThreeLists
<1> HIDE DEF list
<1>9. /\ distinct \in Lists /\ (Len(list) >= 1 => Len(distinct) >= 1 /\ distinct[1] = list[1])
      /\ (Len(list) >= 2 /\ list[1] # list[2] => Len(distinct) >= 2 /\ distinct[2] = list[2])
  BY <1>8, DistinctFacts
<1> HIDE DEF distinct
<1>10. /\ order \in Lists /\ (TopK <= Len(distinct) => Len(order) = TopK)
       /\ (Len(distinct) <= TopK => Len(order) = Len(distinct))
       /\ \A i \in 1 .. Len(order) : order[i] = distinct[i]
  BY <1>2, <1>4, <1>9, CutFacts, CutLength
<1> HIDE DEF order
<1>11. /\ two \in Lists /\ (2 <= Len(order) => Len(two) = 2) /\ (Len(order) <= 2 => Len(two) = Len(order))
       /\ \A i \in 1 .. Len(two) : two[i] = order[i]
  BY <1>5, <1>10, CutFacts, CutLength
<1> HIDE DEF two
<1>12. Len(distinct) \in Nat /\ Len(order) \in Nat /\ Len(two) \in Nat /\ Len(lead) \in Nat /\ Len(seats) \in Nat
       /\ Len(list) \in Nat /\ DOMAIN two = 1 .. Len(two)
  <2>1. Len(distinct) \in Nat
    BY <1>9, ListFacts
  <2>2. Len(order) \in Nat
    BY <1>10, ListFacts
  <2>3. Len(two) \in Nat /\ DOMAIN two = 1 .. Len(two)
    BY <1>11, ListFacts
  <2>4. Len(lead) \in Nat /\ Len(seats) \in Nat
    BY <1>7, ListFacts
  <2>5. Len(list) \in Nat
    BY <1>8
  <2> QED BY <2>1, <2>2, <2>3, <2>4, <2>5
<1>13. Len(list) >= 1 => /\ Len(order) >= 1 /\ order[1] = list[1]
                         /\ Len(two) >= 1 /\ two[1] = list[1] /\ list[1] \in Range(two)
  <2> SUFFICES ASSUME Len(list) >= 1 PROVE /\ Len(order) >= 1 /\ order[1] = list[1]
                                           /\ Len(two) >= 1 /\ two[1] = list[1] /\ list[1] \in Range(two)
    OBVIOUS
  <2>1. Len(order) >= 1 /\ Len(two) >= 1 /\ distinct[1] = list[1]
    BY <1>2, <1>9, <1>10, <1>11, <1>12
  <2>2. 1 \in 1 .. Len(order) /\ 1 \in 1 .. Len(two) /\ 1 \in DOMAIN two
    BY <1>12, <2>1
  <2>3. order[1] = list[1] /\ two[1] = list[1]
    BY <1>10, <1>11, <2>1, <2>2
  <2> QED BY <1>11, <2>1, <2>2, <2>3, ListFacts
<1>14. Len(list) >= 2 /\ list[1] # list[2] => Len(two) = 2 /\ two[2] = list[2] /\ list[2] \in Range(two)
  <2> SUFFICES ASSUME Len(list) >= 2, list[1] # list[2]
               PROVE  Len(two) = 2 /\ two[2] = list[2] /\ list[2] \in Range(two)
    OBVIOUS
  <2>1. Len(order) >= 2 /\ Len(two) = 2 /\ distinct[2] = list[2]
    <3>1. Len(distinct) >= 2 /\ distinct[2] = list[2]
      BY <1>9
    <3>2. Len(order) >= 2
      BY <1>2, <1>10, <1>12, <3>1
    <3>3. Len(two) = 2
      BY <1>11, <1>12, <3>2
    <3> QED BY <3>1, <3>2, <3>3
  <2>2. 2 \in 1 .. Len(order) /\ 2 \in 1 .. Len(two) /\ 2 \in DOMAIN two
    BY <1>12, <2>1
  <2>3. two[2] = list[2]
    BY <1>10, <1>11, <2>1, <2>2
  <2> QED BY <1>11, <2>1, <2>2, <2>3, ListFacts
<1>15. CASE compare
  <2>1. /\ (2 <= Len(hits) => Len(seats) = 2) /\ (Len(hits) <= 2 => Len(seats) = Len(hits)) /\ Len(lead) = 0
        /\ \A i \in 1 .. Len(seats) : seats[i] = hits[i]
    <3>1. lead = << >> /\ seats = Cut(hits, 2)
      BY <1>6, <1>15
    <3>2. Len(lead) = 0
      BY <3>1
    <3>3. /\ 2 <= Len(hits) => Len(Cut(hits, 2)) = 2
          /\ Len(hits) <= 2 => Len(Cut(hits, 2)) = Len(hits)
          /\ \A i \in 1 .. Len(Cut(hits, 2)) : Cut(hits, 2)[i] = hits[i]
      BY <1>1, <1>5, CutFacts, CutLength
    <3> QED BY <3>1, <3>2, <3>3
  <2>2. \A i \in 1 .. Len(seats) : list[i] = hits[i]
    <3> TAKE i \in 1 .. Len(seats)
    <3>1. list[0 + i] = seats[i] /\ 0 + i = i
      BY <1>8, <1>12, <2>1
    <3> QED BY <2>1, <3>1
  <2> DEFINE h == Len(hits)
             l == Len(seats)
             n == Len(list)
             r == Len(rest)
  <2>3. /\ h \in Nat /\ h >= 1 /\ l \in Nat /\ n \in Nat /\ r \in Nat
        /\ (2 <= h => l = 2) /\ (h <= 2 => l = h)
    BY <1>3, <1>12, <2>1
  <2>4. n = 0 + l + r
    BY <1>8, <2>1
  <2> HIDE DEF h, l, n, r
  <2>5. 1 \in 1 .. l /\ n >= l /\ (h # 1 => l = 2)
    BY <2>3, <2>4
  <2>6. 1 \in 1 .. Len(seats) /\ Len(list) >= Len(seats) /\ (Len(hits) # 1 => Len(seats) = 2)
    BY <2>5 DEF h, l, n
  <2>7. Len(list) >= 1 /\ list[1] = hits[1]
    BY <1>12, <2>2, <2>6
  <2>8. hits[1] \in Range(two) /\ Len(two) >= 1 /\ two[1] = hits[1]
    BY <1>13, <2>7
  <2>9. ASSUME Len(hits) # 1 PROVE two = Cut(hits, 2)
    <3>1. Len(seats) = 2 /\ 2 \in 1 .. Len(seats) /\ Len(list) >= 2
      <4>1. Len(seats) = 2
        BY <2>6, <2>9
      <4> QED BY <2>6, <4>1, <1>12
    <3>2. list[2] = hits[2] /\ hits[1] # hits[2]
      <4>1. DOMAIN hits = 1 .. Len(hits) /\ 1 \in 1 .. Len(hits) /\ 2 \in 1 .. Len(hits) /\ 1 # 2
        BY <1>1, <1>3, <2>9, ListFacts
      <4>2. hits[1] # hits[2]
        BY <1>1, <4>1, ListFacts
      <4> QED BY <2>2, <3>1, <4>2
    <3>3. Len(two) = 2 /\ two[1] = hits[1] /\ two[2] = hits[2]
      BY <1>14, <2>7, <2>8, <3>1, <3>2
    <3>4. seats \in Seq(Message) /\ two \in Seq(Message) /\ seats[1] = hits[1] /\ seats[2] = hits[2]
      BY <1>7, <1>11, <2>1, <2>6, <3>1, ListFacts
    <3>5. two = seats
      BY <3>1, <3>3, <3>4
    <3> QED BY <1>6, <1>15, <3>5
  <2> QED BY <1>15, <2>8, <2>9 DEF order, two, hits, rest
<1>16. CASE ~compare
  <2>1. /\ Len(seats) = 1 /\ (rest # << >> => Len(lead) = 1) /\ (rest = << >> => Len(lead) = 0)
        /\ (\A i \in 1 .. Len(seats) : seats[i] = hits[i]) /\ \A i \in 1 .. Len(lead) : lead[i] = rest[i]
    <3>1. lead = Cut(rest, 1) /\ seats = Cut(hits, 1)
      BY <1>6, <1>16
    <3>2. /\ Len(Cut(hits, 1)) = 1
          /\ \A i \in 1 .. Len(Cut(hits, 1)) : Cut(hits, 1)[i] = hits[i]
      BY <1>1, <1>3, <1>5, CutFacts, CutLength
    <3>3. /\ 1 <= Len(rest) => Len(Cut(rest, 1)) = 1
          /\ Len(rest) <= 1 => Len(Cut(rest, 1)) = Len(rest)
          /\ \A i \in 1 .. Len(Cut(rest, 1)) : Cut(rest, 1)[i] = rest[i]
      BY <1>1, <1>5, CutFacts, CutLength
    <3>4. (rest # << >> => Len(lead) = 1) /\ (rest = << >> => Len(lead) = 0)
      <4>1. rest = << >> => Len(rest) = 0
        OBVIOUS
      <4> QED BY <1>3, <3>1, <3>3, <4>1
    <3> QED BY <3>1, <3>2, <3>3, <3>4
  <2>2. Len(seats) = 1 /\ 1 \in 1 .. Len(seats) /\ seats[1] = hits[1] /\ list[Len(lead) + 1] = hits[1]
    <3>1. Len(seats) = 1
      BY <1>3, <2>1
    <3>2. 1 \in 1 .. Len(seats)
      BY <3>1
    <3> QED BY <1>8, <2>1, <3>1, <3>2
  <2>3. CASE rest = << >>
    <3>1. Len(lead) = 0 /\ 0 + 1 = 1
      BY <1>3, <2>1, <2>3
    <3>2. Len(list) >= 1 /\ list[1] = hits[1]
      BY <1>3, <1>8, <1>12, <2>2, <3>1
    <3> QED BY <1>1, <1>13, <1>16, <2>3, <3>2 DEF order, two, hits, rest
  <2>4. CASE rest # << >>
    <3>1. Len(lead) = 1 /\ 1 \in 1 .. Len(lead) /\ 1 + 1 = 2
      <4>1. Len(lead) = 1
        BY <1>3, <2>1, <2>4
      <4> QED BY <4>1
    <3>2. Len(list) >= 2 /\ list[1] = rest[1] /\ list[2] = hits[1]
      <4>1. Len(list) = 1 + 1 + Len(rest)
        BY <1>8, <2>2, <3>1
      <4>2. Len(list) >= 2
        BY <1>3, <4>1
      <4>3. list[1] = lead[1] /\ lead[1] = rest[1]
        BY <1>8, <2>1, <3>1
      <4>4. list[2] = hits[1]
        BY <2>2, <3>1
      <4> QED BY <4>2, <4>3, <4>4
    <3>3. order[1] = rest[1]
      BY <1>12, <1>13, <3>2
    <3>4. hits[1] \in Range(two)
      BY <1>12, <1>13, <1>14, <3>2
    <3> QED BY <1>16, <3>3, <3>4 DEF order, two, hits, rest
  <2> QED BY <2>3, <2>4
<1> QED BY <1>15, <1>16

\* Whatever else is found and however it is scored, the best session-vector
\* hit is one of the first two, the strongest result keeps its place, and a
\* comparison gives the first two places to both of its operands.
THEOREM OperandsAlwaysSeated == Spec => OperandsSeated
<1>1. IInv /\ [Next]_vars =>
        [stage = "interleave" /\ operands # Nothing =>
           /\ operands.order[1] \in Range(Cut(results'.order, 2))
           /\ ~query.compare /\ results # Nothing => results'.order[1] = results.order[1]
           /\ query.compare => Cut(results'.order, 2) = Cut(operands.order, 2) \/ Len(operands.order) = 1]_vars
  <2> SUFFICES ASSUME IInv, Next, stage = "interleave", operands # Nothing
               PROVE  /\ operands.order[1] \in Range(Cut(results'.order, 2))
                      /\ ~query.compare /\ results # Nothing => results'.order[1] = results.order[1]
                      /\ query.compare => Cut(results'.order, 2) = Cut(operands.order, 2) \/ Len(operands.order) = 1
    OBVIOUS
  <2>1. InterleaveOperands
    BY DEF Next, Match, MatchTwice, FuseRoutes, ExpandQueryFacets, ExpandStateChain, ExpandIntentTags,
           ExpandEntityBridges, ExpandRelationGraph, ExpandNeighbors, Connect, FuseSearches, FindOperands
  <2>2. query.compare \in BOOLEAN /\ results'.order = SeatedOrder(query.compare)
    BY <2>1, InterleaveFacts, RequestAssumption
  <2> QED BY <2>2, FirstSeats, RequestAssumption
<1> QED BY <1>1, Inductive, PTL DEF Spec, OperandsSeated
============================================================================
