----------------------------- MODULE SumLemmas ------------------------------
(***************************************************************************)
(* Facts about PrefixSum for every function and every length.              *)
(***************************************************************************)
EXTENDS Sums, WellFoundedInduction, TLAPS

\* A set of naturals that is not empty has a least element: induction for the
\* lemmas below.
LEMMA LeastNat ==
    ASSUME NEW T \in SUBSET Nat, T # {}
    PROVE  \E m \in T : \A n \in T : m <= n
<1> DEFINE R == OpToRel(<, Nat)
<1>1. IsWellFoundedOn(R, Nat)
  BY NatLessThanWellFounded
<1>2. PICK m \in T : \A n \in T : ~(<<n, m>> \in R)
  <2> HIDE DEF R
  <2> QED BY <1>1, WFMin
<1>3. R = {ss \in Nat \X Nat : ss[1] < ss[2]}
  BY DEF OpToRel
<1>4. \A n \in T : m <= n
  <2> HIDE DEF R
  <2> SUFFICES ASSUME NEW n \in T, n < m PROVE FALSE
    OBVIOUS
  <2>1. <<n, m>> \in R
    BY <1>3
  <2> QED BY <2>1, <1>2
<1> QED BY <1>4

\* A remainder moved to -h .. h - 1, Go's conversion to a signed type of 2h
\* values: it yields one of them and leaves each of them alone.
LEMMA Narrowed ==
    ASSUME NEW h \in Nat \ {0}
    PROVE  /\ \A n \in Int : ((n + h) % (2 * h)) - h \in -h .. h - 1
           /\ \A n \in -h .. h - 1 : ((n + h) % (2 * h)) - h = n
<1>1. \A n \in Int, m \in Nat \ {0} : n % m \in 0 .. m - 1
  BY SMT
<1>2. \A m \in Nat \ {0} : \A n \in 0 .. m - 1 : n % m = n
  BY SMT
<1>3. 2 * h \in Nat \ {0}
  BY SMT
<1>4. ASSUME NEW n \in Int PROVE ((n + h) % (2 * h)) - h \in -h .. h - 1
  <2>1. (n + h) % (2 * h) \in 0 .. 2 * h - 1
    BY <1>1, <1>3
  <2> QED BY <2>1, SMT
<1>5. ASSUME NEW n \in -h .. h - 1 PROVE ((n + h) % (2 * h)) - h = n
  <2>1. n + h \in 0 .. 2 * h - 1
    BY SMT
  <2>2. (n + h) % (2 * h) = n + h
    BY <1>2, <1>3, <2>1
  <2> QED BY <2>1, <2>2, SMT
<1> QED BY <1>4, <1>5

\* f is the table of running sums of d up to n.
IsPrefixSum(f, d, n) ==
    f \in [0 .. n -> Int] /\ f[0] = 0 /\ \A i \in 1 .. n : f[i] = f[i - 1] + d[i]

\* Two such tables agree where both are defined.
LEMMA PrefixSumUnique ==
    ASSUME NEW d \in [Nat -> Int], NEW n \in Nat, NEW m \in Nat, n <= m,
           NEW f, IsPrefixSum(f, d, n), NEW g, IsPrefixSum(g, d, m)
    PROVE  \A i \in 0 .. n : f[i] = g[i]
<1> DEFINE T == {i \in 0 .. n : f[i] # g[i]}
<1> SUFFICES ASSUME T # {} PROVE FALSE
  OBVIOUS
<1>1. PICK k \in T : \A i \in T : k <= i
  BY LeastNat, T \in SUBSET Nat
<1>2. k # 0
  BY DEF IsPrefixSum
<1>3. k - 1 \in 0 .. n /\ k - 1 \notin T
  BY <1>1, <1>2
<1>4. f[k - 1] = g[k - 1]
  BY <1>3
<1> QED BY <1>1, <1>2, <1>4 DEF IsPrefixSum

\* There is one for every n.
LEMMA PrefixSumExists ==
    ASSUME NEW d \in [Nat -> Int], NEW n \in Nat
    PROVE  \E f : IsPrefixSum(f, d, n)
<1> DEFINE T == {i \in Nat : ~ \E f : IsPrefixSum(f, d, i)}
<1> SUFFICES ASSUME T # {} PROVE FALSE
  OBVIOUS
<1>1. PICK k \in T : \A i \in T : k <= i
  BY LeastNat, T \in SUBSET Nat
<1>2. k # 0
  <2>1. IsPrefixSum([i \in 0 .. 0 |-> 0], d, 0)
    BY DEF IsPrefixSum
  <2> QED BY <2>1
<1>3. PICK f : IsPrefixSum(f, d, k - 1)
  BY <1>1, <1>2
<1> DEFINE g == [i \in 0 .. k |-> IF i = k THEN f[k - 1] + d[k] ELSE f[i]]
<1>4. IsPrefixSum(g, d, k)
  <2>1. k \in Nat /\ k >= 1 /\ k - 1 \in 0 .. k - 1
    BY <1>1, <1>2
  <2>2. f \in [0 .. k - 1 -> Int] /\ f[0] = 0
        /\ \A i \in 1 .. k - 1 : f[i] = f[i - 1] + d[i]
    BY <1>3 DEF IsPrefixSum
  <2>3. g \in [0 .. k -> Int]
    BY <2>1, <2>2
  <2>4. g[0] = 0
    BY <2>1, <2>2
  <2>5. ASSUME NEW i \in 1 .. k PROVE g[i] = g[i - 1] + d[i]
    <3>1. CASE i = k
      BY <3>1, <2>1, <2>2
    <3>2. CASE i # k
      BY <3>2, <2>1, <2>2
    <3> QED BY <3>1, <3>2
  <2> HIDE DEF g
  <2> QED BY <2>3, <2>4, <2>5 DEF IsPrefixSum
<1> QED BY <1>4

\* PrefixSum is well defined and satisfies its recursion: the meaning of
\* SUM(amount) in GetPostingsSum.
LEMMA PrefixSumDef ==
    ASSUME NEW d \in [Nat -> Int]
    PROVE  /\ PrefixSum(d) \in [Nat -> Int]
           /\ PrefixSum(d)[0] = 0
           /\ \A n \in Nat : PrefixSum(d)[n + 1] = PrefixSum(d)[n] + d[n + 1]
<1> DEFINE F(n) == CHOOSE f : IsPrefixSum(f, d, n)
           S == [n \in Nat |-> F(n)[n]]
<1>1. \A n \in Nat : IsPrefixSum(F(n), d, n)
  BY PrefixSumExists
<1>2. \A n \in Nat : F(n)[n] \in Int
  <2> HIDE DEF F
  <2> QED BY <1>1 DEF IsPrefixSum
<1>3. F(0)[0] = 0
  BY <1>1 DEF IsPrefixSum
<1>4. \A n \in Nat : F(n + 1)[n + 1] = F(n)[n] + d[n + 1]
  <2> SUFFICES ASSUME NEW n \in Nat PROVE F(n + 1)[n + 1] = F(n)[n] + d[n + 1]
    OBVIOUS
  <2> HIDE DEF F
  <2>1. F(n)[n] = F(n + 1)[n]
    BY <1>1, PrefixSumUnique
  <2>2. F(n + 1)[n + 1] = F(n + 1)[n] + d[n + 1]
    BY <1>1 DEF IsPrefixSum
  <2> QED BY <2>1, <2>2
<1>5. S = [n \in Nat |-> IF n = 0 THEN 0 ELSE S[n - 1] + d[n]]
  <2> HIDE DEF F
  <2>1. ASSUME NEW n \in Nat, n # 0 PROVE S[n] = S[n - 1] + d[n]
    <3>1. n - 1 \in Nat /\ (n - 1) + 1 = n
      BY <2>1
    <3> QED BY <1>4, <3>1, <2>1
  <2> QED BY <2>1, <1>3
<1> HIDE DEF F, S
<1> DEFINE P(f) == f = [n \in Nat |-> IF n = 0 THEN 0 ELSE f[n - 1] + d[n]]
<1>6. PrefixSum(d) = CHOOSE f : P(f)
  BY DEF PrefixSum
<1>7. P(PrefixSum(d))
  BY <1>5, <1>6
<1> DEFINE Q == PrefixSum(d)
<1>8. Q = [n \in Nat |-> IF n = 0 THEN 0 ELSE Q[n - 1] + d[n]]
  BY <1>7
<1> HIDE DEF Q
<1>9. Q[0] = 0 /\ \A n \in Nat : Q[n + 1] = Q[n] + d[n + 1]
  BY <1>8
<1>10. \A n \in Nat : Q[n] \in Int
  <2> DEFINE T == {i \in Nat : Q[i] \notin Int}
  <2> SUFFICES ASSUME T # {} PROVE FALSE
    OBVIOUS
  <2>1. PICK k \in T : \A i \in T : k <= i
    BY LeastNat, T \in SUBSET Nat
  <2>2. k # 0 /\ k - 1 \in Nat /\ k - 1 \notin T
    BY <2>1, <1>9
  <2>3. Q[(k - 1) + 1] = Q[k - 1] + d[(k - 1) + 1]
    BY <2>2, <1>9
  <2> QED BY <2>1, <2>2, <2>3
<1>11. Q \in [Nat -> Int]
  BY <1>8, <1>10
<1> QED BY <1>9, <1>11 DEF Q

\* Changing one summand changes the sums behind it by the difference: one more
\* visible posting adds its amount to what GetPostingsSum returns.
LEMMA PrefixSumPoint ==
    ASSUME NEW d \in [Nat -> Int], NEW e \in [Nat -> Int], NEW k \in Nat, k # 0,
           \A i \in Nat : i # k => e[i] = d[i],
           NEW n \in Nat
    PROVE  PrefixSum(e)[n] = PrefixSum(d)[n] + (IF k <= n THEN e[k] - d[k] ELSE 0)
<1> DEFINE D == PrefixSum(d)
           E == PrefixSum(e)
           T == {i \in Nat : E[i] # D[i] + (IF k <= i THEN e[k] - d[k] ELSE 0)}
<1>1. D \in [Nat -> Int] /\ D[0] = 0 /\ \A i \in Nat : D[i + 1] = D[i] + d[i + 1]
  BY PrefixSumDef
<1>2. E \in [Nat -> Int] /\ E[0] = 0 /\ \A i \in Nat : E[i + 1] = E[i] + e[i + 1]
  BY PrefixSumDef
<1> HIDE DEF D, E
<1>3. T = {}
  <2> SUFFICES ASSUME T # {} PROVE FALSE
    OBVIOUS
  <2>1. PICK j \in T : \A i \in T : j <= i
    BY LeastNat, T \in SUBSET Nat
  <2>2. j # 0
    BY <1>1, <1>2
  <2> DEFINE i == j - 1
  <2>3. i \in Nat /\ i + 1 = j /\ i \notin T
    BY <2>1, <2>2
  <2>4. D[j] = D[i] + d[j] /\ E[j] = E[i] + e[j]
    BY <2>3, <1>1, <1>2
  <2>5. E[i] = D[i] + (IF k <= i THEN e[k] - d[k] ELSE 0)
    BY <2>3
  <2>6. D[i] \in Int /\ E[i] \in Int /\ d[j] \in Int /\ e[j] \in Int /\ d[k] \in Int /\ e[k] \in Int
    BY <2>3, <1>1, <1>2
  <2> HIDE DEF i
  <2>7. E[j] = D[j] + (IF k <= j THEN e[k] - d[k] ELSE 0)
    <3>1. CASE j = k
      BY <3>1, <2>3, <2>4, <2>5, <2>6
    <3>2. CASE j # k
      BY <3>2, <2>3, <2>4, <2>5, <2>6
    <3> QED BY <3>1, <3>2
  <2> QED BY <2>7, <2>1
<1> QED BY <1>3 DEF D, E

-----------------------------------------------------------------------------
(* SumTo: the sum of a function on 1 .. n.                                 *)

Extended(f, n) == [i \in Nat |-> IF i \in 1 .. n THEN f[i] ELSE 0]

\* What SumTo is made of.
LEMMA SumToDef ==
    ASSUME NEW n \in Nat, NEW f \in [1 .. n -> Int]
    PROVE  /\ Extended(f, n) \in [Nat -> Int]
           /\ SumTo(f, n) = PrefixSum(Extended(f, n))[n]
           /\ SumTo(f, n) \in Int
<1>1. Extended(f, n) \in [Nat -> Int]
  BY DEF Extended
<1>2. SumTo(f, n) = PrefixSum(Extended(f, n))[n]
  BY DEF SumTo, Extended
<1> QED BY <1>1, <1>2, PrefixSumDef

\* Changing one summand changes the sum by the difference: a job that one worker
\* takes or ends.
LEMMA SumToPoint ==
    ASSUME NEW n \in Nat, NEW f \in [1 .. n -> Int], NEW g \in [1 .. n -> Int],
           NEW k \in 1 .. n, \A i \in 1 .. n : i # k => g[i] = f[i]
    PROVE  SumTo(g, n) = SumTo(f, n) + (g[k] - f[k])
<1> DEFINE F == Extended(f, n)
           G == Extended(g, n)
<1>1. /\ F \in [Nat -> Int] /\ G \in [Nat -> Int]
      /\ SumTo(f, n) = PrefixSum(F)[n] /\ SumTo(g, n) = PrefixSum(G)[n]
  BY SumToDef
<1>2. /\ \A i \in Nat : i # k => G[i] = F[i]
      /\ F[k] = f[k] /\ G[k] = g[k]
  BY DEF Extended
<1>3. k \in Nat /\ k # 0 /\ k <= n
  OBVIOUS
<1> HIDE DEF F, G
<1>4. PrefixSum(G)[n] = PrefixSum(F)[n] + (IF k <= n THEN G[k] - F[k] ELSE 0)
  BY <1>1, <1>2, <1>3, PrefixSumPoint
<1> QED BY <1>1, <1>2, <1>3, <1>4

\* One more summand at the end: a job that enters the queue.
LEMMA SumToAppend ==
    ASSUME NEW n \in Nat, NEW f \in [1 .. n -> Int], NEW g \in [1 .. n + 1 -> Int],
           \A i \in 1 .. n : g[i] = f[i]
    PROVE  SumTo(g, n + 1) = SumTo(f, n) + g[n + 1]
<1> DEFINE F == Extended(f, n)
           G == Extended(g, n + 1)
           k == n + 1
<1>0. k \in Nat /\ k # 0 /\ ~(k <= n)
  OBVIOUS
<1>1. /\ F \in [Nat -> Int] /\ G \in [Nat -> Int]
      /\ SumTo(f, n) = PrefixSum(F)[n] /\ SumTo(g, n + 1) = PrefixSum(G)[n + 1]
  BY <1>0, SumToDef
<1>2. /\ \A i \in Nat : i # k => G[i] = F[i]
      /\ G[n + 1] = g[n + 1]
  BY DEF Extended
<1> HIDE DEF F, G
<1>3. PrefixSum(G)[n + 1] = PrefixSum(G)[n] + G[n + 1]
  BY <1>1, PrefixSumDef
<1>4. PrefixSum(G)[n] = PrefixSum(F)[n] + (IF k <= n THEN G[k] - F[k] ELSE 0)
  <2> HIDE DEF k
  <2> QED BY <1>0, <1>1, <1>2, PrefixSumPoint
<1>5. PrefixSum(F)[n] \in Int
  BY <1>1, PrefixSumDef
<1> QED BY <1>0, <1>1, <1>2, <1>3, <1>4, <1>5

\* The first summand taken away: a job that leaves the queue.
LEMMA SumToTail ==
    ASSUME NEW n \in Nat, NEW f \in [1 .. n + 1 -> Int], NEW g \in [1 .. n -> Int],
           \A i \in 1 .. n : g[i] = f[i + 1]
    PROVE  SumTo(f, n + 1) = f[1] + SumTo(g, n)
<1> DEFINE F == Extended(f, n + 1)
           G == Extended(g, n)
           P == PrefixSum(F)
           Q == PrefixSum(G)
           T == {i \in Nat : P[i + 1] # F[1] + Q[i]}
<1>1. /\ F \in [Nat -> Int] /\ G \in [Nat -> Int]
      /\ SumTo(f, n + 1) = P[n + 1] /\ SumTo(g, n) = Q[n]
  BY n + 1 \in Nat, SumToDef
<1>2. /\ \A i \in Nat : G[i + 1] = F[(i + 1) + 1]
      /\ F[1] = f[1]
  BY DEF Extended
<1> HIDE DEF F, G
<1>3. /\ P \in [Nat -> Int] /\ P[0] = 0 /\ \A i \in Nat : P[i + 1] = P[i] + F[i + 1]
      /\ Q \in [Nat -> Int] /\ Q[0] = 0 /\ \A i \in Nat : Q[i + 1] = Q[i] + G[i + 1]
  BY <1>1, PrefixSumDef
<1> HIDE DEF P, Q
<1>4. T = {}
  <2> SUFFICES ASSUME T # {} PROVE FALSE
    OBVIOUS
  <2>1. PICK k \in T : \A i \in T : k <= i
    BY LeastNat, T \in SUBSET Nat
  <2>2. k # 0
    <3>1. ASSUME k = 0 PROVE P[k + 1] = F[1] + Q[k]
      <4>1. k + 1 = 1 /\ P[k] = 0 /\ Q[k] = 0
        BY <1>3, <3>1
      <4>2. k \in Nat
        BY <2>1
      <4>3. P[k + 1] = P[k] + F[k + 1]
        BY <1>3, <4>2
      <4>4. F[1] \in Int
        BY <1>1
      <4> QED BY <4>1, <4>3, <4>4
    <3> QED BY <2>1, <3>1
  <2> DEFINE i == k - 1
  <2>3. i \in Nat /\ i + 1 = k /\ i \notin T
    BY <2>1, <2>2
  <2>4. P[i + 1] = F[1] + Q[i]
    BY <2>3
  <2>5. P[k + 1] = P[k] + F[k + 1] /\ Q[k] = Q[i] + G[k] /\ G[k] = F[k + 1]
    BY <1>2, <1>3, <2>3
  <2>6. P[k + 1] = F[1] + Q[k]
    <3> HIDE DEF i
    <3>1. Q[i] \in Int /\ F[1] \in Int /\ F[k + 1] \in Int
      BY <1>1, <1>3, <2>3
    <3> QED BY <2>3, <2>4, <2>5, <3>1
  <2> QED BY <2>1, <2>6
<1>5. P[n + 1] = F[1] + Q[n]
  BY <1>4
<1> QED BY <1>1, <1>2, <1>5

\* Nothing adds up to nothing.
LEMMA SumToZero ==
    ASSUME NEW n \in Nat, NEW f \in [1 .. n -> Int], \A i \in 1 .. n : f[i] = 0
    PROVE  SumTo(f, n) = 0
<1> DEFINE F == Extended(f, n)
           P == PrefixSum(F)
           T == {i \in Nat : P[i] # 0}
<1>1. F \in [Nat -> Int] /\ SumTo(f, n) = P[n] /\ \A i \in Nat : F[i] = 0
  BY SumToDef DEF Extended
<1> HIDE DEF F
<1>2. P \in [Nat -> Int] /\ P[0] = 0 /\ \A i \in Nat : P[i + 1] = P[i] + F[i + 1]
  BY <1>1, PrefixSumDef
<1> HIDE DEF P
<1>3. T = {}
  <2> SUFFICES ASSUME T # {} PROVE FALSE
    OBVIOUS
  <2>1. PICK k \in T : \A i \in T : k <= i
    BY LeastNat, T \in SUBSET Nat
  <2>2. k \in Nat /\ P[k] # 0
    BY <2>1
  <2>3. k # 0
    BY <1>2, <2>2
  <2> DEFINE i == k - 1
  <2>4. i \in Nat /\ i + 1 = k /\ i \notin T
    BY <2>1, <2>2, <2>3
  <2>5. P[i] = 0
    BY <2>4
  <2>6. P[k] = P[i] + F[k]
    BY <1>2, <2>4
  <2> HIDE DEF i
  <2> QED BY <1>1, <2>2, <2>5, <2>6
<1> QED BY <1>1, <1>3

\* No summand exceeds the sum when none is negative: no account has more than
\* all accounts together.
LEMMA SumToBound ==
    ASSUME NEW n \in Nat, NEW f \in [1 .. n -> Nat], NEW k \in 1 .. n
    PROVE  f[k] <= SumTo(f, n)
<1> DEFINE F == Extended(f, n)
           P == PrefixSum(F)
           T == {i \in Nat : ~(P[i] >= 0 /\ \A j \in 1 .. i : F[j] <= P[i])}
<1>0. f \in [1 .. n -> Int]
  OBVIOUS
<1>1. F \in [Nat -> Int] /\ SumTo(f, n) = P[n]
  BY <1>0, SumToDef
<1>2. (\A i \in Nat : F[i] \in Nat) /\ F[k] = f[k]
  BY DEF Extended
<1> HIDE DEF F
<1>3. P \in [Nat -> Int] /\ P[0] = 0 /\ \A i \in Nat : P[i + 1] = P[i] + F[i + 1]
  BY <1>1, PrefixSumDef
<1> HIDE DEF P
<1>4. T = {}
  <2> SUFFICES ASSUME T # {} PROVE FALSE
    OBVIOUS
  <2>1. PICK m \in T : \A i \in T : m <= i
    BY LeastNat, T \in SUBSET Nat
  <2>2. m # 0
    <3>1. m \in Nat /\ ~(P[m] >= 0 /\ \A j \in 1 .. m : F[j] <= P[m])
      BY <2>1
    <3>2. m = 0 => P[m] >= 0
      BY <1>3
    <3>3. m = 0 => 1 .. m = {}
      BY <3>1
    <3> QED BY <3>1, <3>2, <3>3
  <2> DEFINE i == m - 1
  <2>3. i \in Nat /\ i + 1 = m /\ i \notin T
    BY <2>1, <2>2
  <2>4. P[i] >= 0 /\ \A j \in 1 .. i : F[j] <= P[i]
    BY <2>3
  <2>5. P[m] = P[i] + F[m] /\ P[i] \in Int /\ F[m] \in Nat /\ P[m] \in Int
    BY <1>2, <1>3, <2>3
  <2> HIDE DEF i
  <2>6. P[m] >= 0
    BY <2>4, <2>5
  <2>7. ASSUME NEW j \in 1 .. m PROVE F[j] <= P[m]
    <3>1. CASE j = m
      BY <2>4, <2>5, <3>1
    <3>2. CASE j # m
      <4>1. j \in 1 .. i /\ F[j] \in Nat
        BY <1>2, <2>3, <3>2
      <4>2. F[j] <= P[i]
        BY <2>4, <4>1
      <4> QED BY <2>4, <2>5, <4>1, <4>2
    <3> QED BY <3>1, <3>2
  <2> QED BY <2>1, <2>6, <2>7
<1>5. F[k] <= P[n]
  BY <1>4
<1> QED BY <1>1, <1>2, <1>5
=============================================================================
