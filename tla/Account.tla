------------------------------ MODULE Account ------------------------------
(***************************************************************************)
(* What the governor promises of one run and one dimension its ceiling     *)
(* names: an account.  Money is free, held by a reservation, or used.  A   *)
(* reservation is granted only from what is free; settling one gives back  *)
(* what it held and takes what was really used, even when that is more.    *)
(***************************************************************************)
EXTENDS Integers

VARIABLES cap, free, held, used

accountVars == <<cap, free, held, used>>

Init == cap = 0 /\ free = 0 /\ held = 0 /\ used = 0

\* a ceiling is set before anything is held or used
Open(c) ==
  /\ c \in Nat /\ held = 0 /\ used = 0
  /\ cap' = c
  /\ free' = c
  /\ UNCHANGED <<held, used>>

Grant(n) ==
  /\ n \in Nat /\ n <= free
  /\ free' = free - n
  /\ held' = held + n
  /\ UNCHANGED <<cap, used>>

Settle(n, actual) ==
  /\ n \in Nat /\ actual \in Nat
  /\ free' = free + n - actual
  /\ held' = held - n
  /\ used' = used + actual
  /\ UNCHANGED cap

\* the amounts are what the step does to the account
Next ==
  \/ Open(cap')
  \/ Grant(held' - held)
  \/ Settle(held - held', used' - used)

Spec == Init /\ [][Next]_accountVars

=============================================================================
