----------------------------- MODULE SumsProofs -----------------------------
(***************************************************************************)
(* What SumTo computes, for every n and every integer sequence.  Each fact *)
(* that would be an induction on n is proved by looking at the least index *)
(* at which it could fail.                                                 *)
(***************************************************************************)
EXTENDS Sums, WellFoundedInduction, TLAPS

\* A nonempty set of natural numbers has a least element.
LEMMA LeastNatural ==
  ASSUME NEW S, S \subseteq Nat, S # {}
  PROVE  \E m \in S : \A k \in S : m <= k
<1> DEFINE R == OpToRel(<, Nat)
<1>1. IsWellFoundedOn(R, Nat)
  BY NatLessThanWellFounded
<1>2. \A x, y \in Nat : y < x => <<y, x>> \in R
  BY DEF OpToRel
<1> HIDE DEF R
<1>3. PICK x \in S : \A y \in S : ~(<<y, x>> \in R)
  BY <1>1, WFMin
<1>4. ASSUME NEW k \in S
      PROVE  x <= k
  <2>1. x \in Nat /\ k \in Nat
    OBVIOUS
  <2>2. ~(<<k, x>> \in R)
    BY <1>3
  <2>3. ~(k < x)
    BY <1>2, <2>1, <2>2
  <2>4. QED
    BY <2>1, <2>3
<1>5. QED
  BY <1>4

\* s is the sequence of the prefix sums of f up to n
IsPrefixSums(s, f, n) ==
  s = [i \in 0..n |-> IF i = 0 THEN 0 ELSE s[i - 1] + f[i]]

\* The recursive definition has a solution, and its entries are integers.
LEMMA PrefixSumsExist ==
  ASSUME NEW n \in Nat, NEW f \in [1..n -> Int]
  PROVE  \E s \in [0..n -> Int] : IsPrefixSums(s, f, n)
<1> DEFINE Bad == {m \in 0..n : ~ \E s \in [0..m -> Int] : IsPrefixSums(s, f, m)}
<1>1. SUFFICES ASSUME Bad # {}
               PROVE  FALSE
  BY <1>1
<1>2. PICK m \in Bad : \A k \in Bad : m <= k
  <2>1. Bad \subseteq Nat
    OBVIOUS
  <2>2. QED
    BY <1>1, <2>1, LeastNatural
<1>3. CASE m = 0
  <2> DEFINE z == [i \in 0..0 |-> 0]
  <2>1. z \in [0..0 -> Int] /\ IsPrefixSums(z, f, 0)
    BY DEF IsPrefixSums
  <2>2. QED
    BY <1>2, <1>3, <2>1
<1>4. CASE m # 0
  <2>1. m - 1 \in 0..n /\ m \in 1..n /\ m - 1 \notin Bad
    BY <1>2, <1>4
  <2>2. PICK s \in [0..(m - 1) -> Int] : IsPrefixSums(s, f, m - 1)
    BY <2>1
  <2> DEFINE t == [i \in 0..m |-> IF i = m THEN s[m - 1] + f[m] ELSE s[i]]
  <2>3. t \in [0..m -> Int]
    BY <2>1
  <2>4. ASSUME NEW i \in 0..m
        PROVE  t[i] = IF i = 0 THEN 0 ELSE t[i - 1] + f[i]
    <3>1. CASE i = m
      BY <3>1, <2>1
    <3>2. CASE i # m
      <4>1. i \in 0..(m - 1) /\ t[i] = s[i]
        BY <3>2, <2>1
      <4>2. s[i] = IF i = 0 THEN 0 ELSE s[i - 1] + f[i]
        BY <4>1, <2>2 DEF IsPrefixSums
      <4>3. i # 0 => t[i - 1] = s[i - 1]
        BY <3>2, <2>1
      <4>4. QED
        BY <4>1, <4>2, <4>3
    <3>3. QED
      BY <3>1, <3>2
  <2>5. IsPrefixSums(t, f, m)
    <3> HIDE DEF t
    <3> QED
      BY <2>3, <2>4 DEF IsPrefixSums
  <2>6. QED
    BY <2>3, <2>5, <1>2
<1>5. QED
  BY <1>3, <1>4

\* A solution of the recursive definition is a sequence of integers.
LEMMA PrefixSumsInt ==
  ASSUME NEW n \in Nat, NEW f \in [1..n -> Int], NEW s, IsPrefixSums(s, f, n)
  PROVE  s \in [0..n -> Int]
<1>1. \A i \in 0..n : s[i] = IF i = 0 THEN 0 ELSE s[i - 1] + f[i]
  BY DEF IsPrefixSums
<1> DEFINE Bad == {m \in 0..n : s[m] \notin Int}
<1>2. SUFFICES ASSUME Bad # {}
               PROVE  FALSE
  <2>1. \A i \in 0..n : s[i] \in Int
    BY <1>2
  <2>2. DOMAIN s = 0..n /\ s = [i \in 0..n |-> s[i]]
    BY DEF IsPrefixSums
  <2>3. QED
    BY <2>1, <2>2
<1>3. PICK m \in Bad : \A k \in Bad : m <= k
  <2>1. Bad \subseteq Nat
    OBVIOUS
  <2>2. QED
    BY <1>2, <2>1, LeastNatural
<1>4. m # 0 /\ m \in 1..n
  BY <1>1, <1>3
<1>5. m - 1 \in 0..n /\ m - 1 \notin Bad
  BY <1>3, <1>4
<1>6. s[m - 1] \in Int /\ f[m] \in Int
  BY <1>4, <1>5
<1>7. s[m] = s[m - 1] + f[m]
  BY <1>1, <1>4
<1>8. QED
  BY <1>3, <1>6, <1>7

\* PrefixSums is such a solution.
LEMMA PrefixSumsDef ==
  ASSUME NEW n \in Nat, NEW f \in [1..n -> Int]
  PROVE  /\ PrefixSums(f, n) \in [0..n -> Int]
         /\ PrefixSums(f, n)[0] = 0
         /\ \A i \in 1..n : PrefixSums(f, n)[i] = PrefixSums(f, n)[i - 1] + f[i]
<1> DEFINE s == PrefixSums(f, n)
<1>1. \E t : IsPrefixSums(t, f, n)
  BY PrefixSumsExist
<1>2. IsPrefixSums(s, f, n)
  BY <1>1 DEF PrefixSums, IsPrefixSums
<1> HIDE DEF s
<1>3. s \in [0..n -> Int]
  BY <1>2, PrefixSumsInt
<1>4. \A i \in 0..n : s[i] = IF i = 0 THEN 0 ELSE s[i - 1] + f[i]
  BY <1>2 DEF IsPrefixSums
<1>5. s[0] = 0 /\ \A i \in 1..n : s[i] = s[i - 1] + f[i]
  BY <1>4
<1>6. QED
  BY <1>3, <1>5 DEF s

-----------------------------------------------------------------------------
\* A sum of integers is an integer.
LEMMA SumToInt ==
  ASSUME NEW n \in Nat, NEW f \in [1..n -> Int]
  PROVE  SumTo(f, n) \in Int
BY PrefixSumsDef DEF SumTo

\* Changing the k-th term changes the sum by the change of that term.
LEMMA SumToUpdate ==
  ASSUME NEW n \in Nat, NEW f \in [1..n -> Int], NEW g \in [1..n -> Int],
         NEW k \in 1..n,
         \A i \in 1..n : i # k => g[i] = f[i]
  PROVE  SumTo(g, n) = SumTo(f, n) + g[k] - f[k]
<1> DEFINE F == PrefixSums(f, n)
           G == PrefixSums(g, n)
           Shifted(i) == IF i < k THEN F[i] ELSE F[i] + g[k] - f[k]
           Bad == {m \in 0..n : G[m] # Shifted(m)}
<1>1. /\ F \in [0..n -> Int] /\ F[0] = 0
      /\ \A i \in 1..n : F[i] = F[i - 1] + f[i]
  BY PrefixSumsDef
<1>2. /\ G \in [0..n -> Int] /\ G[0] = 0
      /\ \A i \in 1..n : G[i] = G[i - 1] + g[i]
  BY PrefixSumsDef
<1> HIDE DEF F, G
<1>3. Bad = {}
  <2>1. SUFFICES ASSUME Bad # {}
                 PROVE  FALSE
    OBVIOUS
  <2>2. PICK m \in Bad : \A j \in Bad : m <= j
    <3>1. Bad \subseteq Nat
      OBVIOUS
    <3>2. QED
      BY <2>1, <3>1, LeastNatural
  <2>3. m # 0
    BY <1>1, <1>2, <2>2
  <2>4. m \in 1..n /\ m - 1 \in 0..n /\ m - 1 \notin Bad
    BY <2>2, <2>3
  <2>5. G[m - 1] = Shifted(m - 1)
    BY <2>4
  <2>6. /\ F[m] = F[m - 1] + f[m] /\ G[m] = G[m - 1] + g[m]
        /\ F[m] \in Int /\ F[m - 1] \in Int /\ f[m] \in Int
        /\ f[k] \in Int /\ g[k] \in Int /\ m \in Int /\ k \in Int
    BY <1>1, <1>2, <2>4
  <2>7. CASE m < k
    BY <2>2, <2>4, <2>5, <2>6, <2>7
  <2>8. CASE m = k
    BY <2>2, <2>4, <2>5, <2>6, <2>8
  <2>9. CASE m > k
    BY <2>2, <2>4, <2>5, <2>6, <2>9
  <2>10. QED
    BY <2>6, <2>7, <2>8, <2>9
<1>4. G[n] = F[n] + g[k] - f[k]
  BY <1>3
<1>5. QED
  BY <1>4 DEF SumTo, F, G

\* A sum of zeros is zero.
LEMMA SumToZero ==
  ASSUME NEW n \in Nat, NEW f \in [1..n -> Int], \A i \in 1..n : f[i] = 0
  PROVE  SumTo(f, n) = 0
<1> DEFINE F == PrefixSums(f, n)
           Bad == {m \in 0..n : F[m] # 0}
<1>1. /\ F \in [0..n -> Int] /\ F[0] = 0
      /\ \A i \in 1..n : F[i] = F[i - 1] + f[i]
  BY PrefixSumsDef
<1> HIDE DEF F
<1>2. Bad = {}
  <2>1. SUFFICES ASSUME Bad # {}
                 PROVE  FALSE
    OBVIOUS
  <2>2. PICK m \in Bad : \A j \in Bad : m <= j
    <3>1. Bad \subseteq Nat
      OBVIOUS
    <3>2. QED
      BY <2>1, <3>1, LeastNatural
  <2>3. m \in 1..n /\ m - 1 \in 0..n /\ m - 1 \notin Bad
    BY <1>1, <2>2
  <2>4. F[m - 1] = 0 /\ F[m] = F[m - 1] + f[m] /\ f[m] = 0
    BY <1>1, <2>3
  <2>5. QED
    BY <2>2, <2>4
<1>3. QED
  BY <1>2 DEF SumTo, F

\* A sum of natural numbers is at least zero.
LEMMA SumToNat ==
  ASSUME NEW n \in Nat, NEW f \in [1..n -> Nat]
  PROVE  SumTo(f, n) \in Nat
<1> DEFINE F == PrefixSums(f, n)
           Bad == {m \in 0..n : F[m] < 0}
<1>1. /\ F \in [0..n -> Int] /\ F[0] = 0
      /\ \A i \in 1..n : F[i] = F[i - 1] + f[i]
  <2>1. f \in [1..n -> Int]
    OBVIOUS
  <2>2. QED
    BY <2>1, PrefixSumsDef
<1> HIDE DEF F
<1>2. Bad = {}
  <2>1. SUFFICES ASSUME Bad # {}
                 PROVE  FALSE
    OBVIOUS
  <2>2. PICK m \in Bad : \A j \in Bad : m <= j
    <3>1. Bad \subseteq Nat
      OBVIOUS
    <3>2. QED
      BY <2>1, <3>1, LeastNatural
  <2>3. m \in 1..n /\ m - 1 \in 0..n /\ m - 1 \notin Bad
    BY <1>1, <2>2
  <2>4. F[m - 1] \in Nat /\ F[m] = F[m - 1] + f[m] /\ f[m] \in Nat
    BY <1>1, <2>3
  <2>5. QED
    BY <2>2, <2>4
<1>3. F[n] \in Int /\ ~(F[n] < 0)
  BY <1>1, <1>2
<1>4. F[n] \in Nat
  BY <1>3
<1>5. QED
  BY <1>4 DEF SumTo, F

\* A sum of natural numbers is at least each of its terms.
LEMMA TermAtMostSum ==
  ASSUME NEW n \in Nat, NEW f \in [1..n -> Nat], NEW k \in 1..n
  PROVE  f[k] <= SumTo(f, n)
<1> DEFINE g == [f EXCEPT ![k] = 0]
<1>1. /\ g \in [1..n -> Nat] /\ g \in [1..n -> Int] /\ f \in [1..n -> Int]
      /\ g[k] = 0 /\ f[k] \in Nat
      /\ \A i \in 1..n : i # k => g[i] = f[i]
  OBVIOUS
<1> HIDE DEF g
<1>2. SumTo(g, n) = SumTo(f, n) + g[k] - f[k]
  BY <1>1, SumToUpdate
<1>3. SumTo(g, n) \in Nat /\ SumTo(f, n) \in Nat
  BY <1>1, SumToNat
<1>4. QED
  BY <1>1, <1>2, <1>3

=============================================================================
