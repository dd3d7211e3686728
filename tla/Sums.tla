-------------------------------- MODULE Sums --------------------------------
(***************************************************************************)
(* The sum of a finite integer sequence f[1], ..., f[n].  The ledgers of   *)
(* this project are stated with it: what is held on an account is the sum  *)
(* of the live reservations drawn on it.                                   *)
(*                                                                         *)
(* The sum is a recursive function over 0..n rather than a fold over a     *)
(* set, so that the module SumsProofs can prove what it computes for every *)
(* n from the well-ordering of the natural numbers.                        *)
(***************************************************************************)
EXTENDS Integers

\* prefix sums of f: the i-th entry is f[1] + ... + f[i]
PrefixSums(f, n) ==
  LET s[i \in 0..n] == IF i = 0 THEN 0 ELSE s[i - 1] + f[i]
  IN  s

SumTo(f, n) == PrefixSums(f, n)[n]

=============================================================================
