----------------------------- MODULE NatLemmas -----------------------------
(***************************************************************************)
(* Induction on the natural numbers through least elements of sets, the    *)
(* functions that a recursion on them defines, sums, and the arithmetic of *)
(* powers, quotients and remainders that the other proofs use.             *)
(***************************************************************************)
EXTENDS Powers, Integers, TLAPS, NaturalsInduction, WellFoundedInduction

\* Every nonempty set of naturals has a least element.
LEMMA LeastNat ==
  ASSUME NEW T \in SUBSET Nat, T # {}
  PROVE  \E x \in T : \A y \in T : x <= y
  <1> DEFINE R == {p \in Nat \X Nat : p[1] < p[2]}
  <1>1. IsWellFoundedOn(R, Nat)
    BY NatLessThanWellFounded DEF OpToRel
  <1>2. PICK x \in T : \A y \in T : ~(<<y, x>> \in R)
    BY <1>1, WFMin
  <1>3. ASSUME NEW y \in T PROVE x <= y
    <2>1. <<y, x>> \in Nat \X Nat /\ <<y, x>>[1] = y /\ <<y, x>>[2] = x
      OBVIOUS
    <2>2. ~(y < x)
      BY <1>2, <2>1
    <2> QED
      BY <2>2
  <1> QED
    BY <1>3

\* A set that holds zero and every successor is all of Nat.
LEMMA NatInductionSet ==
  ASSUME NEW S \in SUBSET Nat, 0 \in S, \A n \in S : n + 1 \in S
  PROVE  S = Nat
  <1> SUFFICES ASSUME Nat \ S # {} PROVE FALSE
    OBVIOUS
  <1>1. PICK x \in Nat \ S : \A y \in Nat \ S : x <= y
    BY LeastNat
  <1>2. x - 1 \in Nat /\ ~(x <= x - 1)
    OBVIOUS
  <1>3. x - 1 \in S
    BY <1>1, <1>2
  <1>4. x - 1 + 1 \in S
    BY <1>3
  <1> QED
    BY <1>4

\* The function on Nat that starts at a and goes on by step.
Follows(f, S, a, step) ==
    /\ f \in [Nat -> S]
    /\ f[0] = a
    /\ \A n \in Nat : f[n + 1] = step[<<n, f[n]>>]

\* A recursion on Nat whose step is a function has a solution.
LEMMA RecursionExists ==
  ASSUME NEW S, NEW a \in S, NEW step \in [Nat \X S -> S]
  PROVE  \E f : Follows(f, S, a, step)
  <1> DEFINE Solves(f, n) ==
               /\ f \in [0 .. n -> S]
               /\ f[0] = a
               /\ \A i \in Nat : i < n => f[i + 1] = step[<<i, f[i]>>]
             G(n) == {f \in [0 .. n -> S] : Solves(f, n)}
  <1>1. \A n \in Nat : G(n) # {}
    <2> DEFINE T == {n \in Nat : \E f : Solves(f, n)}
    <2>1. 0 \in T
      <3> DEFINE f == [i \in 0 .. 0 |-> a]
      <3>1. f \in [0 .. 0 -> S] /\ f[0] = a
        OBVIOUS
      <3>2. Solves(f, 0)
        BY <3>1
      <3> QED
        BY <3>2
    <2>2. ASSUME NEW n \in T PROVE n + 1 \in T
      <3>1. PICK f : Solves(f, n)
        OBVIOUS
      <3> DEFINE g == [i \in 0 .. n + 1 |-> IF i <= n THEN f[i]
                                            ELSE step[<<n, f[n]>>]]
      <3>2. g \in [0 .. n + 1 -> S]
        <4>1. f[n] \in S /\ <<n, f[n]>> \in Nat \X S
          BY <3>1
        <4>2. step[<<n, f[n]>>] \in S
          BY <4>1
        <4> QED
          BY <3>1, <4>2
      <3>3. g[0] = a
        BY <3>1
      <3>4. ASSUME NEW i \in Nat, i < n + 1 PROVE g[i + 1] = step[<<i, g[i]>>]
        <4>1. CASE i = n
          <5>1. g[n + 1] = step[<<n, f[n]>>] /\ g[n] = f[n]
            OBVIOUS
          <5> HIDE DEF g
          <5> QED
            BY <4>1, <5>1
        <4>2. CASE i # n
          <5>1. i < n /\ i \in 0 .. n /\ i + 1 \in 0 .. n
            BY <3>4, <4>2
          <5>2. g[i + 1] = f[i + 1] /\ g[i] = f[i]
            BY <5>1
          <5> HIDE DEF g
          <5> QED
            BY <5>1, <5>2, <3>1
        <4> QED
          BY <4>1, <4>2
      <3>5. Solves(g, n + 1)
        <4> HIDE DEF g
        <4> QED
          BY <3>2, <3>3, <3>4
      <3> HIDE DEF Solves, g
      <3> QED
        BY <3>5
    <2>3. T = Nat
      <3> HIDE DEF Solves
      <3> QED
        BY <2>1, <2>2, NatInductionSet
    <2> QED
      BY <2>3
  <1>2. ASSUME NEW n \in Nat, NEW f, Solves(f, n), NEW g, Solves(g, n + 1)
        PROVE  \A i \in 0 .. n : f[i] = g[i]
    <2> DEFINE T == {i \in Nat : i <= n => f[i] = g[i]}
    <2>1. 0 \in T
      BY <1>2
    <2>2. ASSUME NEW i \in T PROVE i + 1 \in T
      <3>1. CASE i + 1 <= n
        <4>1. f[i] = g[i] /\ i < n /\ i < n + 1
          BY <3>1
        <4>2. f[i + 1] = g[i + 1]
          BY <4>1, <1>2
        <4> HIDE DEF Solves
        <4> QED
          BY <4>2
      <3>2. CASE ~(i + 1 <= n)
        BY <3>2
      <3> QED
        BY <3>1, <3>2
    <2> HIDE DEF Solves
    <2>3. T = Nat
      BY <2>1, <2>2, NatInductionSet
    <2> QED
      BY <2>3
  <1> DEFINE choice == [n \in Nat |-> CHOOSE f \in G(n) : TRUE]
             h == [n \in Nat |-> choice[n][n]]
  <1>3. \A n \in Nat : Solves(choice[n], n)
    <2>1. \A n \in Nat : choice[n] \in G(n)
      <3> HIDE DEF G
      <3> QED
        BY <1>1
    <2> HIDE DEF Solves, choice
    <2> QED
      BY <2>1
  <1> HIDE DEF choice
  <1>4. h \in [Nat -> S]
    BY <1>3
  <1>5. h[0] = a
    BY <1>3
  <1>6. ASSUME NEW n \in Nat PROVE h[n + 1] = step[<<n, h[n]>>]
    <2>1. Solves(choice[n], n) /\ Solves(choice[n + 1], n + 1)
      BY <1>3
    <2>2. choice[n + 1][n] = choice[n][n]
      <3> HIDE DEF Solves
      <3> QED
        BY <2>1, <1>2
    <2>3. choice[n + 1][n + 1] = step[<<n, choice[n + 1][n]>>]
      BY <2>1
    <2> QED
      BY <2>2, <2>3
  <1>7. Follows(h, S, a, step)
    <2> HIDE DEF h
    <2> QED
      BY <1>4, <1>5, <1>6 DEF Follows
  <1> QED
    BY <1>7

LEMMA Pow2Def ==
  /\ pow2 \in [Nat -> Nat]
  /\ pow2[0] = 1
  /\ \A n \in Nat : pow2[n + 1] = 2 * pow2[n]
  <1> DEFINE step == [p \in Nat \X Nat |-> 2 * p[2]]
             Body(f) == [n \in Nat |-> IF n = 0 THEN 1 ELSE 2 * f[n - 1]]
  <1>1. step \in [Nat \X Nat -> Nat]
    OBVIOUS
  <1>2. PICK f \in [Nat -> Nat] :
           f[0] = 1 /\ \A n \in Nat : f[n + 1] = step[<<n, f[n]>>]
    <2> HIDE DEF step
    <2>1. \E f : Follows(f, Nat, 1, step)
      BY <1>1, RecursionExists
    <2> QED
      BY <2>1 DEF Follows
  <1>3. \A n \in Nat : f[n + 1] = 2 * f[n]
    BY <1>2
  <1>4. f = Body(f)
    <2>1. \A n \in Nat : f[n] = IF n = 0 THEN 1 ELSE 2 * f[n - 1]
      <3> SUFFICES ASSUME NEW n \in Nat, n # 0 PROVE f[n] = 2 * f[n - 1]
        BY <1>2
      <3>1. n - 1 \in Nat /\ n - 1 + 1 = n
        OBVIOUS
      <3> QED
        BY <3>1, <1>3
    <2> QED
      BY <2>1
  <1>5. pow2 = Body(pow2)
    <2> HIDE DEF Body
    <2>1. pow2 = CHOOSE g : g = Body(g)
      BY DEF pow2, Body
    <2> QED
      BY <1>4, <2>1
  <1>6. /\ pow2[0] = 1
        /\ \A n \in Nat : pow2[n + 1] = 2 * pow2[n]
    <2>1. DOMAIN pow2 = Nat
      BY <1>5
    <2>2. \A n \in Nat : pow2[n] = Body(pow2)[n]
      BY <1>5
    <2> QED
      BY <2>2
  <1>7. pow2 \in [Nat -> Nat]
    <2> DEFINE T == {n \in Nat : pow2[n] \in Nat}
    <2>1. 0 \in T
      BY <1>6
    <2>2. ASSUME NEW n \in T PROVE n + 1 \in T
      BY <1>6
    <2>3. T = Nat
      BY <2>1, <2>2, NatInductionSet
    <2> QED
      BY <2>3, <1>5
  <1> QED
    BY <1>6, <1>7

LEMMA Pow2Positive == \A n \in Nat : pow2[n] \in Nat \ {0}
  <1> DEFINE T == {n \in Nat : pow2[n] \in Nat \ {0}}
  <1>1. 0 \in T
    BY Pow2Def
  <1>2. ASSUME NEW n \in T PROVE n + 1 \in T
    BY Pow2Def
  <1>3. T = Nat
    BY <1>1, <1>2, NatInductionSet
  <1> QED
    BY <1>3

LEMMA Pow2Sum ==
  ASSUME NEW m \in Nat
  PROVE  \A n \in Nat : pow2[m + n] = pow2[m] * pow2[n]
  <1> DEFINE T == {n \in Nat : pow2[m + n] = pow2[m] * pow2[n]}
  <1>1. 0 \in T
    BY Pow2Def
  <1>2. ASSUME NEW n \in T PROVE n + 1 \in T
    <2>1. pow2[m + (n + 1)] = 2 * pow2[m + n]
      <3>1. m + (n + 1) = (m + n) + 1 /\ m + n \in Nat
        OBVIOUS
      <3> QED
        BY <3>1, Pow2Def
    <2>2. pow2[n + 1] = 2 * pow2[n]
      BY Pow2Def
    <2>3. pow2[m] \in Nat /\ pow2[n] \in Nat
      BY Pow2Def
    <2>4. pow2[m + n] = pow2[m] * pow2[n]
      OBVIOUS
    <2>5. 2 * (pow2[m] * pow2[n]) = pow2[m] * (2 * pow2[n])
      BY <2>3
    <2>6. pow2[m + (n + 1)] = pow2[m] * pow2[n + 1]
      BY <2>1, <2>2, <2>4, <2>5
    <2> QED
      BY <2>6
  <1>3. T = Nat
    BY <1>1, <1>2, NatInductionSet
  <1> QED
    BY <1>3

LEMMA ProductAtLeast ==
  ASSUME NEW a \in Int, NEW b \in Nat, a >= 1 PROVE a * b >= b
  <1>1. (a - 1) * b >= 0
    OBVIOUS
  <1>2. (a - 1) * b = a * b - b
    OBVIOUS
  <1> QED
    BY <1>1, <1>2

LEMMA Division ==
  ASSUME NEW a \in Int, NEW d \in Nat \ {0}
  PROVE  /\ a \div d \in Int /\ a % d \in 0 .. d - 1
         /\ a = d * (a \div d) + (a % d)
  OBVIOUS

\* A quotient and a remainder are the only ones.
LEMMA DivisionUnique ==
  ASSUME NEW d \in Nat \ {0}, NEW q \in Int, NEW r \in 0 .. d - 1
  PROVE  (d * q + r) \div d = q /\ (d * q + r) % d = r
  <1> DEFINE a == d * q + r
             p == a \div d
  <1>1. a \in Int /\ p \in Int /\ a % d \in 0 .. d - 1 /\ a = d * p + (a % d)
    BY Division
  <1>2. d * (p - q) = r - (a % d)
    <2>1. d * (p - q) = d * p - d * q
      BY <1>1
    <2>2. a = d * q + r
      OBVIOUS
    <2> HIDE DEF a, p
    <2> QED
      BY <1>1, <2>1, <2>2
  <1>3. ~(p - q >= 1)
    <2> SUFFICES ASSUME p - q >= 1 PROVE FALSE
      OBVIOUS
    <2>1. (p - q) * d >= d
      BY <1>1, ProductAtLeast
    <2> QED
      BY <1>1, <1>2, <2>1
  <1>4. ~(q - p >= 1)
    <2> SUFFICES ASSUME q - p >= 1 PROVE FALSE
      OBVIOUS
    <2>1. (q - p) * d >= d
      BY <1>1, ProductAtLeast
    <2>2. (q - p) * d = -(d * (p - q))
      BY <1>1
    <2> QED
      BY <1>1, <1>2, <2>1, <2>2
  <1>5. p = q
    BY <1>1, <1>3, <1>4
  <1> QED
    BY <1>1, <1>2, <1>5

LEMMA ModSmall ==
  ASSUME NEW d \in Nat \ {0}, NEW a \in 0 .. d - 1 PROVE a % d = a
  OBVIOUS

LEMMA ModShift ==
  ASSUME NEW a \in Int, NEW d \in Nat \ {0} PROVE (a + d) % d = a % d
  <1> DEFINE q == a \div d
             r == a % d
  <1>1. q \in Int /\ r \in 0 .. d - 1 /\ a = d * q + r
    BY Division
  <1> HIDE DEF q, r
  <1>2. a + d = d * (q + 1) + r
    <2>1. d * (q + 1) = d * q + d
      BY <1>1
    <2> QED
      BY <1>1, <2>1
  <1>3. q + 1 \in Int
    BY <1>1
  <1>4. (a + d) % d = r
    BY <1>1, <1>2, <1>3, DivisionUnique
  <1> QED
    BY <1>4 DEF r

\* Less than d apart, two numbers leave different remainders.
LEMMA ModApart ==
  ASSUME NEW d \in Nat \ {0}, NEW n \in Int, NEW j \in 1 .. d - 1
  PROVE  (n - j) % d # n % d
  <1> SUFFICES ASSUME (n - j) % d = n % d PROVE FALSE
    OBVIOUS
  <1> DEFINE p == n \div d
             q == (n - j) \div d
  <1>1. p \in Int /\ q \in Int /\ n = d * p + (n % d) /\ n - j = d * q + (n % d)
    BY Division
  <1>2. d * (p - q) = j
    <2>1. d * (p - q) = d * p - d * q
      BY <1>1
    <2> QED
      BY <1>1, <2>1, Division
  <1>3. CASE p - q >= 1
    <2>1. (p - q) * d >= d
      BY <1>1, <1>3, ProductAtLeast
    <2> QED
      BY <1>1, <1>2, <2>1
  <1>4. CASE p - q <= 0
    <2>1. d * (p - q) <= 0
      BY <1>1, <1>4
    <2> QED
      BY <1>2, <2>1
  <1> QED
    BY <1>1, <1>3, <1>4

\* A number below a product, divided by one factor, is below the other.
LEMMA QuotientBelow ==
  ASSUME NEW a \in Nat, NEW d \in Nat \ {0}, NEW e \in Nat, a < d * e
  PROVE  a \div d \in Nat /\ a \div d < e
  <1> DEFINE q == a \div d
  <1>1. q \in Int /\ a = d * q + (a % d) /\ a % d \in 0 .. d - 1
    BY Division
  <1>2. q >= 0
    <2> SUFFICES ASSUME -q >= 1 PROVE FALSE
      BY <1>1
    <2>1. (-q) * d >= d
      BY <1>1, ProductAtLeast
    <2>2. (-q) * d = -(d * q)
      BY <1>1
    <2> QED
      BY <1>1, <2>1, <2>2
  <1>3. q < e
    <2> SUFFICES ASSUME q >= e PROVE FALSE
      BY <1>1
    <2>1. d * (q - e) >= 0
      BY <1>1
    <2>2. d * (q - e) = d * q - d * e
      BY <1>1
    <2> QED
      BY <1>1, <2>1, <2>2
  <1> QED
    BY <1>1, <1>2, <1>3

LEMMA Crossed ==
  ASSUME NEW a \in Nat, NEW b \in Nat, NEW p \in Nat, NEW q \in Nat, a <= b, p <= q
  PROVE  a * q + b * p <= a * p + b * q
  <1>1. (b - a) * (q - p) >= 0
    <2>1. b - a \in Nat /\ q - p \in Nat
      OBVIOUS
    <2> QED
      BY <2>1
  <1>2. (b - a) * (q - p) = b * q - b * p - a * q + a * p
    OBVIOUS
  <1> QED
    BY <1>1, <1>2

LEMMA Sandwich ==
  ASSUME NEW m \in Nat \ {0}, NEW q \in Nat, NEW p \in Nat, m * q < m * p + m
  PROVE  m * q <= m * p
  <1>1. q <= p
    <2> SUFFICES ASSUME q >= p + 1 PROVE FALSE
      OBVIOUS
    <2>1. m * (q - (p + 1)) >= 0
      OBVIOUS
    <2>2. m * (q - (p + 1)) = m * q - m * p - m
      OBVIOUS
    <2> QED
      BY <2>1, <2>2
  <1>2. m * (p - q) >= 0 /\ m * (p - q) = m * p - m * q
    BY <1>1
  <1> QED
    BY <1>2

LEMMA TimesMonotone ==
  ASSUME NEW a \in Nat, NEW p \in Nat, NEW q \in Nat, p <= q
  PROVE  a * p <= a * q /\ a * p \in Nat /\ a * q \in Nat
  <1>1. a * (q - p) >= 0 /\ a * (q - p) = a * q - a * p
    OBVIOUS
  <1> QED
    BY <1>1

LEMMA Pow2Apart ==
  ASSUME NEW max \in Nat, NEW p \in 0 .. max, NEW q \in 0 .. p
  PROVE  /\ pow2[max - q] = pow2[max - p] * pow2[p - q]
         /\ pow2[max - p] \in Nat \ {0} /\ pow2[p - q] \in Nat \ {0}
  <1>1. max - p \in Nat /\ p - q \in Nat /\ (max - p) + (p - q) = max - q
    OBVIOUS
  <1> QED
    BY <1>1, Pow2Sum, Pow2Positive

----------------------------------------------------------------------------
(* Sums.                                                                   *)

Recurs(s, N, S, a, step) ==
    /\ s \in [0 .. N -> S] /\ s[0] = a
    /\ \A k \in 1 .. N : s[k] = step[<<k, s[k - 1]>>]

\* A recursion over the first numbers has a solution.
LEMMA BoundedRecursion ==
  ASSUME NEW S, NEW a \in S, NEW step \in [Nat \X S -> S], NEW N \in Nat
  PROVE  \E s : Recurs(s, N, S, a, step)
  <1> DEFINE next == [p \in Nat \X S |-> step[<<p[1] + 1, p[2]>>]]
  <1>1. next \in [Nat \X S -> S]
    OBVIOUS
  <1>2. PICK g : Follows(g, S, a, next)
    <2> HIDE DEF next
    <2> QED
      BY <1>1, RecursionExists
  <1>3. g \in [Nat -> S] /\ g[0] = a
    BY <1>2 DEF Follows
  <1> DEFINE s == [k \in 0 .. N |-> g[k]]
  <1>4. s \in [0 .. N -> S] /\ s[0] = a
    BY <1>3
  <1>5. ASSUME NEW k \in 1 .. N PROVE s[k] = step[<<k, s[k - 1]>>]
    <2>1. k - 1 \in Nat /\ (k - 1) + 1 = k /\ k - 1 \in 0 .. N
      OBVIOUS
    <2>2. g[(k - 1) + 1] = next[<<k - 1, g[k - 1]>>]
      BY <1>2, <2>1 DEF Follows
    <2>3. g[k - 1] \in S
      BY <1>3, <2>1
    <2>4. next[<<k - 1, g[k - 1]>>] = step[<<k, g[k - 1]>>]
      BY <2>1, <2>3
    <2> QED
      BY <2>1, <2>2, <2>4
  <1> QED
    BY <1>4, <1>5 DEF Recurs

LEMMA SumExists ==
  ASSUME NEW N \in Nat, NEW f, \A k \in 1 .. N : f[k] \in Nat
  PROVE  \E s \in [0 .. N -> Nat] :
            s[0] = 0 /\ \A k \in 1 .. N : s[k] = s[k - 1] + f[k]
  <1> DEFINE step == [p \in Nat \X Nat |-> IF p[1] \in 1 .. N THEN p[2] + f[p[1]] ELSE 0]
  <1>1. step \in [Nat \X Nat -> Nat]
    OBVIOUS
  <1>2. PICK s \in [0 .. N -> Nat] :
           s[0] = 0 /\ \A k \in 1 .. N : s[k] = step[<<k, s[k - 1]>>]
    <2> HIDE DEF step
    <2>1. \E s : Recurs(s, N, Nat, 0, step)
      BY <1>1, BoundedRecursion
    <2> QED
      BY <2>1 DEF Recurs
  <1>3. ASSUME NEW k \in 1 .. N PROVE s[k] = s[k - 1] + f[k]
    <2>1. s[k - 1] \in Nat /\ k \in Nat
      BY <1>2
    <2> QED
      BY <1>2, <2>1
  <1> QED
    BY <1>2, <1>3

SumTo(f, N) ==
    LET sum[n \in 0 .. N] == IF n = 0 THEN 0 ELSE sum[n - 1] + f[n] IN sum[N]

SumToBody(f, N, s) == [n \in 0 .. N |-> IF n = 0 THEN 0 ELSE s[n - 1] + f[n]]

\* s are the sums of the first values of f.
Partial(f, N, s) ==
    s \in [0 .. N -> Nat] /\ s[0] = 0 /\ \A k \in 1 .. N : s[k] = s[k - 1] + f[k]

LEMMA PartialExists ==
  ASSUME NEW N \in Nat, NEW f, \A k \in 1 .. N : f[k] \in Nat
  PROVE  \E s : Partial(f, N, s)
  <1>1. PICK s \in [0 .. N -> Nat] : s[0] = 0 /\ \A k \in 1 .. N : s[k] = s[k - 1] + f[k]
    BY ONLY N \in Nat, \A k \in 1 .. N : f[k] \in Nat, SumExists
  <1>2. Partial(f, N, s)
    BY <1>1 DEF Partial
  <1> QED
    BY <1>2

\* Two lists of partial sums agree.
LEMMA PartialUnique ==
  ASSUME NEW N \in Nat, NEW f, NEW s, Partial(f, N, s), NEW t, t = SumToBody(f, N, t)
  PROVE  t = s
  <1>1. /\ s \in [0 .. N -> Nat] /\ s[0] = 0
        /\ \A k \in 1 .. N : s[k] = s[k - 1] + f[k]
    BY DEF Partial
  <1>2. DOMAIN t = 0 .. N /\ \A n \in 0 .. N : t[n] = IF n = 0 THEN 0 ELSE t[n - 1] + f[n]
    BY DEF SumToBody
  <1> DEFINE T == {n \in Nat : n <= N => t[n] = s[n]}
  <1>3. 0 \in T
    BY <1>1, <1>2
  <1>4. ASSUME NEW n \in T PROVE n + 1 \in T
    <2> SUFFICES ASSUME n + 1 <= N PROVE t[n + 1] = s[n + 1]
      OBVIOUS
    <2>1. /\ n \in Nat /\ n + 1 \in 0 .. N /\ n + 1 \in 1 .. N /\ n + 1 # 0
          /\ (n + 1) - 1 = n /\ t[n] = s[n]
      OBVIOUS
    <2>2. t[n + 1] = t[(n + 1) - 1] + f[n + 1] /\ s[n + 1] = s[(n + 1) - 1] + f[n + 1]
      BY <1>1, <1>2, <2>1
    <2> QED
      BY <2>1, <2>2
  <1>5. T = Nat
    <2> HIDE DEF T
    <2>1. T \subseteq Nat
      BY DEF T
    <2> QED
      BY <1>3, <1>4, <2>1, NatInductionSet
  <1>6. \A n \in 0 .. N : t[n] = s[n]
    <2>1. \A n \in Nat : n \in T
      BY ONLY <1>5
    <2> QED
      BY <2>1
  <1>7. t = [n \in 0 .. N |-> t[n]] /\ s = [n \in 0 .. N |-> s[n]]
    BY <1>1 DEF SumToBody
  <1> QED
    BY <1>6, <1>7

LEMMA SumToFacts ==
  ASSUME NEW N \in Nat, NEW f, \A k \in 1 .. N : f[k] \in Nat
  PROVE  \E s : Partial(f, N, s) /\ SumTo(f, N) = s[N]
  <1>1. PICK s : Partial(f, N, s)
    BY PartialExists
  <1>2. s = SumToBody(f, N, s)
    <2>1. /\ s \in [0 .. N -> Nat] /\ s[0] = 0
          /\ \A k \in 1 .. N : s[k] = s[k - 1] + f[k]
      BY <1>1 DEF Partial
    <2>2. ASSUME NEW n \in 0 .. N PROVE s[n] = IF n = 0 THEN 0 ELSE s[n - 1] + f[n]
      <3>1. n # 0 => n \in 1 .. N
        OBVIOUS
      <3> QED
        BY <2>1, <3>1
    <2> QED
      BY <2>1, <2>2 DEF SumToBody
  <1> DEFINE c == CHOOSE t : t = SumToBody(f, N, t)
  <1>3. c = SumToBody(f, N, c)
    BY <1>2
  <1>4. SumTo(f, N) = c[N]
    BY DEF SumTo, SumToBody
  <1>5. c = s
    <2> HIDE DEF c
    <2> QED
      BY <1>1, <1>3, PartialUnique
  <1> QED
    BY <1>1, <1>4, <1>5

\* A value that is added at one place is added to the sum.
LEMMA SumToUpdate ==
  ASSUME NEW N \in Nat, NEW f \in [1 .. N -> Nat], NEW g \in [1 .. N -> Nat],
         NEW x \in 1 .. N, \A y \in 1 .. N : y # x => g[y] = f[y]
  PROVE  SumTo(f, N) \in Nat /\ SumTo(g, N) \in Nat /\ SumTo(g, N) = SumTo(f, N) + g[x] - f[x]
  <1>1. PICK s : Partial(f, N, s) /\ SumTo(f, N) = s[N]
    BY SumToFacts
  <1>2. PICK t : Partial(g, N, t) /\ SumTo(g, N) = t[N]
    BY SumToFacts
  <1> DEFINE T == {n \in Nat : n <= N =>
                      t[n] = IF n < x THEN s[n] ELSE s[n] + g[x] - f[x]}
  <1>3. 0 \in T
    BY <1>1, <1>2 DEF Partial
  <1>4. ASSUME NEW n \in T PROVE n + 1 \in T
    <2> SUFFICES ASSUME n + 1 <= N
                 PROVE  t[n + 1] = IF n + 1 < x THEN s[n + 1] ELSE s[n + 1] + g[x] - f[x]
      OBVIOUS
    <2>1. n + 1 \in 1 .. N /\ n \in 0 .. N /\ x \in Nat /\ (n + 1) - 1 = n /\ n \in Nat
      OBVIOUS
    <2>2. t[n] = IF n < x THEN s[n] ELSE s[n] + g[x] - f[x]
      BY <2>1
    <2>3. /\ t[n + 1] = t[(n + 1) - 1] + g[n + 1] /\ s[n + 1] = s[(n + 1) - 1] + f[n + 1]
          /\ s[n] \in Nat /\ t[n] \in Nat
      BY <1>1, <1>2, <2>1 DEF Partial
    <2>4. f[n + 1] \in Nat /\ g[n + 1] \in Nat /\ f[x] \in Nat /\ g[x] \in Nat
      BY <2>1
    <2>5. n + 1 # x => g[n + 1] = f[n + 1]
      BY <2>1
    <2> HIDE DEF T
    <2>6. t[n + 1] = t[n] + g[n + 1] /\ s[n + 1] = s[n] + f[n + 1]
      BY <2>1, <2>3
    <2>7. CASE n + 1 < x
      <3>1. n < x /\ n + 1 # x
        BY <2>1, <2>7
      <3> QED
        BY <2>2, <2>5, <2>6, <2>7, <3>1
    <2>8. CASE n + 1 = x
      <3>1. n < x /\ ~(n + 1 < x)
        BY <2>1, <2>8
      <3> QED
        BY <2>2, <2>3, <2>4, <2>6, <2>8, <3>1
    <2>9. CASE ~(n + 1 < x) /\ n + 1 # x
      <3>1. ~(n < x)
        BY <2>1, <2>9
      <3> QED
        BY <2>2, <2>3, <2>4, <2>5, <2>6, <2>9, <3>1
    <2> QED
      BY <2>7, <2>8, <2>9
  <1>5. T = Nat
    <2> HIDE DEF T
    <2>1. T \subseteq Nat
      BY DEF T
    <2> QED
      BY <1>3, <1>4, <2>1, NatInductionSet
  <1>6. t[N] = s[N] + g[x] - f[x]
    <2>1. N \in T
      BY ONLY <1>5, N \in Nat
    <2>2. ~(N < x) /\ N <= N
      OBVIOUS
    <2> QED
      BY <2>1, <2>2
  <1>7. s[N] \in Nat /\ t[N] \in Nat
    BY <1>1, <1>2 DEF Partial
  <1> QED
    BY <1>1, <1>2, <1>6, <1>7

\* Sums are ordered as their parts.
LEMMA SumToMonotone ==
  ASSUME NEW N \in Nat, NEW f \in [1 .. N -> Nat], NEW g \in [1 .. N -> Nat],
         \A y \in 1 .. N : f[y] <= g[y]
  PROVE  SumTo(f, N) \in Nat /\ SumTo(g, N) \in Nat /\ SumTo(f, N) <= SumTo(g, N)
  <1>1. PICK s : Partial(f, N, s) /\ SumTo(f, N) = s[N]
    BY SumToFacts
  <1>2. PICK t : Partial(g, N, t) /\ SumTo(g, N) = t[N]
    BY SumToFacts
  <1> DEFINE T == {n \in Nat : n <= N => s[n] <= t[n]}
  <1>3. 0 \in T
    BY <1>1, <1>2 DEF Partial
  <1>4. ASSUME NEW n \in T PROVE n + 1 \in T
    <2> SUFFICES ASSUME n + 1 <= N PROVE s[n + 1] <= t[n + 1]
      OBVIOUS
    <2>1. n + 1 \in 1 .. N /\ n \in 0 .. N /\ (n + 1) - 1 = n /\ n \in Nat /\ s[n] <= t[n]
      OBVIOUS
    <2>2. /\ t[n + 1] = t[(n + 1) - 1] + g[n + 1] /\ s[n + 1] = s[(n + 1) - 1] + f[n + 1]
          /\ s[n] \in Nat /\ t[n] \in Nat
      BY <1>1, <1>2, <2>1 DEF Partial
    <2>3. f[n + 1] \in Nat /\ g[n + 1] \in Nat /\ f[n + 1] <= g[n + 1]
      BY <2>1
    <2> HIDE DEF T
    <2> QED
      BY <2>1, <2>2, <2>3
  <1>5. T = Nat
    <2> HIDE DEF T
    <2>1. T \subseteq Nat
      BY DEF T
    <2> QED
      BY <1>3, <1>4, <2>1, NatInductionSet
  <1>6. s[N] <= t[N]
    <2>1. N \in T
      BY ONLY <1>5, N \in Nat
    <2> QED
      BY <2>1
  <1>7. s[N] \in Nat /\ t[N] \in Nat
    BY <1>1, <1>2 DEF Partial
  <1> QED
    BY <1>1, <1>2, <1>6, <1>7

\* What divides each part divides the sum.
LEMMA SumToMultiple ==
  ASSUME NEW N \in Nat, NEW f \in [1 .. N -> Nat], NEW m \in Nat,
         \A y \in 1 .. N : \E q \in Nat : f[y] = m * q
  PROVE  \E q \in Nat : SumTo(f, N) = m * q
  <1>1. PICK s : Partial(f, N, s) /\ SumTo(f, N) = s[N]
    BY SumToFacts
  <1> DEFINE T == {n \in Nat : n <= N => \E q \in Nat : s[n] = m * q}
  <1>2. 0 \in T
    <2>1. s[0] = m * 0 /\ 0 \in Nat
      BY <1>1 DEF Partial
    <2> QED
      BY <2>1
  <1>3. ASSUME NEW n \in T PROVE n + 1 \in T
    <2> SUFFICES ASSUME n + 1 <= N PROVE \E q \in Nat : s[n + 1] = m * q
      OBVIOUS
    <2>1. n + 1 \in 1 .. N /\ (n + 1) - 1 = n /\ n \in Nat /\ n <= N
      OBVIOUS
    <2>0. \E q \in Nat : s[n] = m * q
      BY <2>1
    <2>2. PICK p \in Nat : s[n] = m * p
      <3> HIDE DEF T
      <3> QED
        BY ONLY <2>0
    <2>3. PICK r \in Nat : f[n + 1] = m * r
      BY <2>1
    <2>4. s[n + 1] = s[(n + 1) - 1] + f[n + 1]
      BY <1>1, <2>1 DEF Partial
    <2>5. m * p + m * r = m * (p + r) /\ p + r \in Nat
      OBVIOUS
    <2> QED
      BY <2>1, <2>2, <2>3, <2>4, <2>5
  <1>4. T = Nat
    <2> HIDE DEF T
    <2>1. T \subseteq Nat
      BY DEF T
    <2> QED
      BY <1>2, <1>3, <2>1, NatInductionSet
  <1>5. N \in T
    BY ONLY <1>4, N \in Nat
  <1> QED
    BY <1>1, <1>5

LEMMA SumToZero ==
  ASSUME NEW N \in Nat, NEW f \in [1 .. N -> Nat], \A y \in 1 .. N : f[y] = 0
  PROVE  SumTo(f, N) = 0
  <1>1. PICK q \in Nat : SumTo(f, N) = 0 * q
    <2>1. \A y \in 1 .. N : \E q \in Nat : f[y] = 0 * q
      OBVIOUS
    <2> QED
      BY <2>1, SumToMultiple
  <1> QED
    BY <1>1

Weighed(U, v, N) == [n \in 1 .. N |-> IF n \in U THEN v[n] ELSE 0]

SumOf(U, v, N) == SumTo(Weighed(U, v, N), N)

LEMMA WeighedFacts ==
  ASSUME NEW N \in Nat, NEW v \in [1 .. N -> Nat], NEW U
  PROVE  /\ Weighed(U, v, N) \in [1 .. N -> Nat]
         /\ \A n \in 1 .. N : Weighed(U, v, N)[n] = IF n \in U THEN v[n] ELSE 0
  BY DEF Weighed

LEMMA SumOfNat ==
  ASSUME NEW N \in Nat, NEW v \in [1 .. N -> Nat], NEW U PROVE SumOf(U, v, N) \in Nat
  <1>1. PICK f : f = Weighed(U, v, N)
    OBVIOUS
  <1>2. f \in [1 .. N -> Nat] /\ \A n \in 1 .. N : f[n] <= f[n]
    BY <1>1, WeighedFacts
  <1>3. SumTo(f, N) \in Nat
    BY ONLY <1>2, N \in Nat, SumToMonotone
  <1> QED
    BY <1>1, <1>3 DEF SumOf

LEMMA SumOfChange ==
  ASSUME NEW N \in Nat, NEW U, NEW v \in [1 .. N -> Nat], NEW u \in [1 .. N -> Nat],
         NEW x \in 1 .. N, x \in U, \A n \in 1 .. N : n # x => u[n] = v[n]
  PROVE  SumOf(U, u, N) = SumOf(U, v, N) + u[x] - v[x]
  <1>1. PICK f, g : f = Weighed(U, v, N) /\ g = Weighed(U, u, N)
    OBVIOUS
  <1>2. /\ f \in [1 .. N -> Nat] /\ \A n \in 1 .. N : f[n] = IF n \in U THEN v[n] ELSE 0
        /\ g \in [1 .. N -> Nat] /\ \A n \in 1 .. N : g[n] = IF n \in U THEN u[n] ELSE 0
    BY <1>1, WeighedFacts
  <1>3. SumTo(g, N) = SumTo(f, N) + g[x] - f[x]
    <2>1. \A n \in 1 .. N : n # x => g[n] = f[n]
      BY <1>2
    <2> QED
      BY ONLY <1>2, <2>1, N \in Nat, x \in 1 .. N, SumToUpdate
  <1>4. g[x] = u[x] /\ f[x] = v[x]
    BY <1>2
  <1> QED
    BY <1>1, <1>3, <1>4 DEF SumOf

\* The values of two members of U differ in u and v.
TwoDiffer(N, U, v, u, x, y) ==
    /\ N \in Nat /\ v \in [1 .. N -> Nat] /\ u \in [1 .. N -> Nat]
    /\ x \in 1 .. N /\ y \in 1 .. N /\ x \in U /\ y \in U /\ x # y
    /\ \A n \in 1 .. N : n # x /\ n # y => u[n] = v[n]

LEMMA SumOfChangeTwo ==
  ASSUME NEW N, NEW U, NEW v, NEW u, NEW x, NEW y, TwoDiffer(N, U, v, u, x, y)
  PROVE  /\ SumOf(U, u, N) + (v[x] + v[y]) = SumOf(U, v, N) + (u[x] + u[y])
         /\ SumOf(U, u, N) \in Nat /\ SumOf(U, v, N) \in Nat
         /\ v[x] \in Nat /\ v[y] \in Nat /\ u[x] \in Nat /\ u[y] \in Nat
  <1> USE DEF TwoDiffer
  <1>1. PICK t : t = [v EXCEPT ![x] = u[x]]
    OBVIOUS
  <1>2. t \in [1 .. N -> Nat] /\ t[x] = u[x] /\ \A n \in 1 .. N : n # x => t[n] = v[n]
    BY <1>1
  <1>3. SumOf(U, t, N) = SumOf(U, v, N) + t[x] - v[x]
    BY <1>2, SumOfChange
  <1>4. \A n \in 1 .. N : n # y => u[n] = t[n]
    BY <1>2
  <1>5. SumOf(U, u, N) = SumOf(U, t, N) + u[y] - t[y]
    BY <1>2, <1>4, SumOfChange
  <1>6. SumOf(U, t, N) \in Nat /\ SumOf(U, v, N) \in Nat /\ SumOf(U, u, N) \in Nat
        /\ u[x] \in Nat /\ u[y] \in Nat /\ v[x] \in Nat /\ v[y] \in Nat /\ t[y] = v[y]
    BY <1>2, SumOfNat
  <1> QED
    BY ONLY <1>2, <1>3, <1>5, <1>6

LEMMA SumOfRemove ==
  ASSUME NEW N \in Nat, NEW U, NEW v \in [1 .. N -> Nat], NEW x \in 1 .. N, x \in U
  PROVE  SumOf(U, v, N) = SumOf(U \ {x}, v, N) + v[x]
  <1>0. PICK V : V = U \ {x}
    OBVIOUS
  <1>1. PICK f, g : f = Weighed(U, v, N) /\ g = Weighed(V, v, N)
    OBVIOUS
  <1>2. /\ f \in [1 .. N -> Nat] /\ \A n \in 1 .. N : f[n] = IF n \in U THEN v[n] ELSE 0
        /\ g \in [1 .. N -> Nat] /\ \A n \in 1 .. N : g[n] = IF n \in V THEN v[n] ELSE 0
    <2>1. f \in [1 .. N -> Nat] /\ \A n \in 1 .. N : f[n] = IF n \in U THEN v[n] ELSE 0
      BY <1>1, WeighedFacts
    <2>2. g \in [1 .. N -> Nat] /\ \A n \in 1 .. N : g[n] = IF n \in V THEN v[n] ELSE 0
      BY <1>1, WeighedFacts
    <2> QED
      BY <2>1, <2>2
  <1>3. SumTo(f, N) = SumTo(g, N) + f[x] - g[x] /\ SumTo(g, N) \in Nat
    <2>1. \A n \in 1 .. N : n # x => f[n] = g[n]
      BY <1>0, <1>2
    <2> QED
      BY ONLY <1>2, <2>1, N \in Nat, x \in 1 .. N, SumToUpdate
  <1>4. g[x] = 0 /\ f[x] = v[x] /\ v[x] \in Nat
    BY <1>0, <1>2
  <1> QED
    BY <1>0, <1>1, <1>3, <1>4 DEF SumOf

LEMMA SumOfEmpty ==
  ASSUME NEW N \in Nat, NEW v \in [1 .. N -> Nat], NEW U, \A n \in 1 .. N : n \notin U
  PROVE  SumOf(U, v, N) = 0
  <1>1. PICK f : f = Weighed(U, v, N)
    OBVIOUS
  <1>2. f \in [1 .. N -> Nat] /\ \A n \in 1 .. N : f[n] = 0
    BY <1>1, WeighedFacts
  <1> QED
    BY <1>1, <1>2, SumToZero DEF SumOf

LEMMA SumOfSame ==
  ASSUME NEW N \in Nat, NEW U, NEW v \in [1 .. N -> Nat], NEW u \in [1 .. N -> Nat],
         \A n \in 1 .. N : n \in U => u[n] = v[n]
  PROVE  SumOf(U, u, N) = SumOf(U, v, N)
  <1>1. Weighed(U, u, N) = Weighed(U, v, N)
    BY DEF Weighed
  <1> QED
    BY <1>1 DEF SumOf

OneDiffers(N, U, v, u, x) ==
    /\ N \in Nat /\ v \in [1 .. N -> Nat] /\ u \in [1 .. N -> Nat]
    /\ x \in 1 .. N /\ x \in U
    /\ \A n \in 1 .. N : n # x => u[n] = v[n]

LEMMA SumOfChangeOne ==
  ASSUME NEW N, NEW U, NEW v, NEW u, NEW x, OneDiffers(N, U, v, u, x)
  PROVE  /\ SumOf(U, u, N) + v[x] = SumOf(U, v, N) + u[x]
         /\ SumOf(U, u, N) \in Nat /\ SumOf(U, v, N) \in Nat
         /\ v[x] \in Nat /\ u[x] \in Nat
  <1> USE DEF OneDiffers
  <1>1. SumOf(U, u, N) = SumOf(U, v, N) + u[x] - v[x]
    BY SumOfChange
  <1>2. SumOf(U, u, N) \in Nat /\ SumOf(U, v, N) \in Nat
    BY SumOfNat
  <1>3. v[x] \in Nat /\ u[x] \in Nat
    OBVIOUS
  <1> QED
    BY <1>1, <1>2, <1>3

OneMore(N, R, v, m, V) ==
    /\ N \in Nat /\ v \in [1 .. N -> Nat] /\ m \in 1 .. N /\ m \notin R
    /\ V = R \cup {m}

LEMMA SumOfAdd ==
  ASSUME NEW N, NEW R, NEW v, NEW m, NEW V, OneMore(N, R, v, m, V)
  PROVE  SumOf(V, v, N) = SumOf(R, v, N) + v[m] /\ SumOf(R, v, N) \in Nat /\ v[m] \in Nat
  <1> USE DEF OneMore
  <1>1. m \in V /\ V \ {m} = R
    OBVIOUS
  <1>2. SumOf(V, v, N) = SumOf(V \ {m}, v, N) + v[m]
    BY <1>1, SumOfRemove
  <1>3. SumOf(R, v, N) \in Nat
    BY SumOfNat
  <1> QED
    BY <1>1, <1>2, <1>3

====
