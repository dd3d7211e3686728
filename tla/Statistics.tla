----------------------------- MODULE Statistics -----------------------------
(***************************************************************************)
(* The paired statistics of both benchmarks: each hypothesis of a family   *)
(* compares two arms task by task, the exact McNemar test looks at the     *)
(* tasks only one of them resolved, and Holm's correction is taken over a  *)
(* family.  compare_runs corrects its comparison at once, in a family of   *)
(* one, and leaves it without a p-value when nothing differs;              *)
(* holm_correct_family replaces that by the correction of the comparisons  *)
(* it is given, and holm_for_family corrects a declared family as a whole. *)
(*                                                                         *)
(* Probabilities are the code's floats without their rounding: multiples   *)
(* of 1 / One, which is 2 ^ MaxPairs.                                      *)
(***************************************************************************)
EXTENDS Integers, FiniteSets, FiniteSetsExt, Sums

CONSTANTS
  Hypotheses,  \* of the declared family
  MaxPairs     \* bound on the tasks a comparison is over

StatisticsAssumption == IsFiniteSet(Hypotheses) /\ MaxPairs \in Nat

VARIABLES
  pairs,    \* by hypothesis: tasks, of them resolved by the control alone (b), by the treatment alone (c)
  pvalue,   \* by comparison that was made, its p-value
  adjusted, \* the corrected ones
  among     \* by corrected one, the family it was corrected in last

statisticsVars == <<pairs, pvalue, adjusted, among>>

None == -1
One == 2 ^ MaxPairs

StatisticsTypeOK ==
  /\ pairs \in [Hypotheses -> [n : 0..MaxPairs, b : 0..MaxPairs, c : 0..MaxPairs]]
  /\ pvalue \in [Hypotheses -> None..One]
  /\ adjusted \in [Hypotheses -> None..One] /\ among \in [Hypotheses -> SUBSET Hypotheses]

StatisticsInit ==
  /\ pairs = [h \in Hypotheses |-> [n |-> 0, b |-> 0, c |-> 0]]
  /\ pvalue = [h \in Hypotheses |-> None] /\ adjusted = [h \in Hypotheses |-> None]
  /\ among = [h \in Hypotheses |-> {}]

-----------------------------------------------------------------------------
\* both arms have run another task of a comparison that was not made yet
Pair(h, difference) ==
  /\ pairs[h].n < MaxPairs /\ pvalue[h] = None
  /\ pairs' = [pairs EXCEPT ![h] =
       [n |-> @.n + 1,
        b |-> @.b + (IF difference < 0 THEN 1 ELSE 0),
        c |-> @.c + (IF difference > 0 THEN 1 ELSE 0)]]
  /\ UNCHANGED <<pvalue, adjusted, among>>

\* math.comb: the rows of Pascal's triangle
Comb[n \in 0..MaxPairs] ==
  [k \in 0..MaxPairs |-> IF k = 0 THEN 1 ELSE IF n = 0 THEN 0 ELSE Comb[n - 1][k - 1] + Comb[n - 1][k]]

\* the sum of comb(n, i) for the i of a range
Combs(n, first, last) == SumTo([i \in 1..(last - first + 1) |-> Comb[n][first + i - 1]], last - first + 1)

McNemar(b, c) ==
  LET n == b + c  k == Min({b, c})
      tails == Combs(n, 0, k) + Combs(n, n - k, n) - (IF n - k <= k THEN Comb[n][k] ELSE 0)
  IN IF n = 0 THEN One ELSE Min({One, tails * 2 ^ (MaxPairs - n)})

\* the p-value of p for h is multiplied by what the family less those that come before it counts
Before(p, family, h) == {g \in family : p[g] < p[h]}
Scaled(p, family, h) == Min({One, (Cardinality(family) - Cardinality(Before(p, family, h))) * p[h]})

\* and is never less than a smaller one was; sorted() is stable, but equal p-values
\* come out equal in any order
BugHolm(p, family) == [h \in family |-> Scaled(p, family, h)]
Holm(p, family) == [h \in family |-> Max({Scaled(p, family, g) : g \in {f \in family : p[f] <= p[h]}})]

Corrects(p, family) ==
  /\ adjusted' = [h \in Hypotheses |-> IF h \in family THEN Holm(p, family)[h] ELSE adjusted[h]]
  /\ among' = [h \in Hypotheses |-> IF h \in family THEN family ELSE among[h]]

\* compare_runs: too few tasks, or no difference, and there is no p-value
Compare(h) ==
  LET r == pairs[h]  p == [pvalue EXCEPT ![h] = McNemar(r.b, r.c)] IN
  /\ pvalue[h] = None /\ r.n >= 2 /\ r.b + r.c > 0
  /\ pvalue' = p /\ Corrects(p, {h})
  /\ UNCHANGED pairs

\* the script that takes the floor tests whatever there is, and corrects later
Test(h) ==
  /\ pvalue[h] = None
  /\ pvalue' = [pvalue EXCEPT ![h] = McNemar(pairs[h].b, pairs[h].c)]
  /\ UNCHANGED <<pairs, adjusted, among>>

Compared == {h \in Hypotheses : pvalue[h] # None}

\* holm_correct_family: of the comparisons it is given, those that have a p-value
CorrectThese(given) ==
  /\ given \cap Compared # {} /\ Corrects(pvalue, given \cap Compared)
  /\ UNCHANGED <<pairs, pvalue>>

\* holm_for_family: as many as the family declares, or a raise
CorrectDeclared ==
  /\ Compared = Hypotheses /\ Corrects(pvalue, Hypotheses)
  /\ UNCHANGED <<pairs, pvalue>>

StatisticsNext ==
  \/ \E h \in Hypotheses, difference \in {-1, 0, 1} : Pair(h, difference)
  \/ \E h \in Hypotheses : Compare(h) \/ Test(h)
  \/ \E given \in SUBSET Hypotheses : CorrectThese(given)
  \/ CorrectDeclared

StatisticsSpec == StatisticsInit /\ [][StatisticsNext]_statisticsVars

-----------------------------------------------------------------------------
\* of the 2 ^ n ways the n differences could have gone, those at least as lopsided
Lopsided(b, c) ==
  LET n == b + c  Abs(i) == IF i < 0 THEN -i ELSE i IN
  Cardinality({X \in SUBSET (1..n) : Abs(2 * Cardinality(X) - n) >= Abs(b - c)})

Corrected == {h \in Hypotheses : adjusted[h] # None}
Exact(h) == Lopsided(pairs[h].b, pairs[h].c) * 2 ^ (MaxPairs - (pairs[h].b + pairs[h].c))
Bonferroni(S) == Min({One, Cardinality(S) * Min({Exact(h) : h \in S})})

\* A corrected p-value is what the closed test of the family it was last
\* corrected in gives: the worst Bonferroni bound, on exact p-values of the pairs
\* as they stand, over all the intersections it is part of.  Which family that
\* is, is the caller's: what compare_runs returns, and the reporter of sagiha
\* prints, was corrected alone.
CorrectionIsAClosedTest ==
  \A h \in Corrected :
    adjusted[h] = Max({Bonferroni(S \cup {h}) : S \in SUBSET among[h]})

-----------------------------------------------------------------------------
(* The inductive invariant: a p-value is that of the pairs as they stand,  *)
(* and a corrected one is Holm's of the family it was corrected in, all of *)
(* which was compared.                                                     *)

PairsDifferAtMostOnce == \A h \in Hypotheses : pairs[h].b + pairs[h].c <= pairs[h].n
PValuesAreOfThePairs == \A h \in Compared : pvalue[h] = McNemar(pairs[h].b, pairs[h].c)
CorrectedAmongCompared ==
  \A h \in Corrected : /\ among[h] \subseteq Compared /\ h \in among[h]
                       /\ adjusted[h] = Holm(pvalue, among[h])[h]

StatisticsInv == StatisticsTypeOK /\ PairsDifferAtMostOnce /\ PValuesAreOfThePairs /\ CorrectedAmongCompared
=============================================================================
