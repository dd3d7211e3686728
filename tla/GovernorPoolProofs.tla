------------------------- MODULE GovernorPoolProofs -------------------------
(***************************************************************************)
(* The pool of a run refines the abstract account, and the children of a   *)
(* lease never touch it, for every set of runs, dimensions, ceilings,      *)
(* requests and costs.                                                     *)
(***************************************************************************)
EXTENDS GovernorPool, GovernorProofs

USE GovernorAssumption, PoolAssumption

\* the state of the account that the pool implements
accountView == <<ceiling[PoolRun][PoolDim], Free, HeldNow, Used>>

LEMMA AccountInt ==
  ASSUME TypeOK
  PROVE  Free \in Int /\ HeldNow \in Int /\ Used \in Int
BY NumberTypes DEF Free, HeldNow, Used

\* while the ceiling stands, a dimension stays named or unnamed, and an unnamed
\* one has an empty account
LEMMA NamedStays ==
  ASSUME ceiling' = ceiling
  PROVE  /\ Named' = Named
         /\ ~Named => Free = 0 /\ HeldNow = 0 /\ Used = 0 /\ Free' = 0 /\ HeldNow' = 0 /\ Used' = 0
BY DEF Named, Constrained, Free, HeldNow, Used, HeldAtRoot, RootLeases

LEMMA SeedOpens ==
  ASSUME IInv, NEW r \in Runs, NEW dims \in Ceilings, SeedRunBudget(r, dims)
  PROVE  Pool!Open(ceiling'[PoolRun][PoolDim]) \/ UNCHANGED accountView
<1>1. HeldAtRoot(PoolRun, PoolDim)' = HeldAtRoot(PoolRun, PoolDim) /\ rootSpent' = rootSpent
  BY DEF SeedRunBudget, HeldAtRoot, RootLeases
<1>2. CASE r = PoolRun
  <2>1. rootRemaining'[PoolRun] = dims /\ ceiling'[PoolRun] = dims /\ dims[PoolDim] \in Nat
    BY <1>2 DEF SeedRunBudget, IInv, TypeOK, Budgets
  <2>2. HeldAtRoot(PoolRun, PoolDim) = 0
    <3>1. RootLeases(PoolRun) = {}
      BY <1>2 DEF SeedRunBudget, RootLeases, IInv, TypeOK
    <3>2. QED
      BY <3>1, HeldNothing DEF HeldAtRoot, IInv, TypeOK
  <2>3. rootSpent[PoolRun][PoolDim] = 0
    BY <1>2 DEF SeedRunBudget, IInv, Wellformed, UnusedRuns, Zero
  <2>4. HeldNow = 0 /\ HeldNow' = 0 /\ Used = 0 /\ Used' = 0
    BY <1>1, <2>2, <2>3 DEF HeldNow, Used
  <2>5. Free' = ceiling'[PoolRun][PoolDim]
    <3>1. Named' <=> dims[PoolDim] > 0
      BY <2>1 DEF Named, Constrained
    <3>2. QED
      BY <2>1, <3>1 DEF Free
  <2>6. QED
    BY <2>1, <2>4, <2>5 DEF Pool!Open
<1>3. CASE r # PoolRun
  <2>1. rootRemaining'[PoolRun] = rootRemaining[PoolRun] /\ ceiling'[PoolRun] = ceiling[PoolRun]
    BY <1>3 DEF SeedRunBudget, IInv, TypeOK
  <2>2. Named' = Named
    BY <2>1 DEF Named, Constrained
  <2>3. QED
    BY <1>1, <2>1, <2>2 DEF accountView, Free, HeldNow, Used
<1>4. QED
  BY <1>2, <1>3

LEMMA ReserveGrants ==
  ASSUME IInv, IInv', NEW l \in Leases, NewLease(l),
         \/ l.parent # NoParent /\ rootRemaining' = rootRemaining
         \/ l.parent = NoParent /\ ReserveRoot(l.run, l.reserved)
  PROVE  Pool!Grant(HeldNow' - HeldNow) \/ UNCHANGED accountView
<1> DEFINE d == PoolDim
<1>1. ceiling' = ceiling /\ rootSpent' = rootSpent
  BY DEF NewLease
<1>2. HeldAtRoot(PoolRun, d)' = HeldAtRoot(PoolRun, d) + RootShare(l, PoolRun, d)
  BY IssueHoldings DEF IInv
<1>3. l.reserved[d] \in Nat /\ l.run \in Runs
  BY DEF Leases, Budgets
<1>4. CASE ~Named
  BY <1>1, <1>4, NamedStays DEF accountView
<1>5. CASE Named /\ ~(l.parent = NoParent /\ l.run = PoolRun)
  <2>1. RootShare(l, PoolRun, d) = 0
    BY <1>5 DEF RootShare
  <2>2. rootRemaining'[PoolRun] = rootRemaining[PoolRun]
    BY <1>5 DEF ReserveRoot, IInv, TypeOK
  <2>3. HeldAtRoot(PoolRun, d)' = HeldAtRoot(PoolRun, d)
    BY <1>2, <2>1, NumberTypes DEF IInv
  <2>4. Named'
    BY <1>1, <1>5, NamedStays
  <2>5. QED
    BY <1>1, <1>5, <2>2, <2>3, <2>4 DEF accountView, Free, HeldNow, Used
<1>6. CASE Named /\ l.parent = NoParent /\ l.run = PoolRun
  <2> DEFINE n == l.reserved[d]
  <2>1. d \in Constrained(PoolRun) /\ ReserveRoot(PoolRun, l.reserved)
    BY <1>6 DEF Named
  <2>2. n <= rootRemaining[PoolRun][d]
    BY <2>1 DEF ReserveRoot, RootCanFund
  <2>3. rootRemaining'[PoolRun][d] = rootRemaining[PoolRun][d] - n
    BY <2>1 DEF ReserveRoot, IInv, TypeOK
  <2>4. HeldAtRoot(PoolRun, d)' = HeldAtRoot(PoolRun, d) + n
    BY <1>2, <1>6 DEF RootShare
  <2>5. Named'
    BY <1>1, <1>6, NamedStays
  <2>6. Free' = Free - n /\ HeldNow' = HeldNow + n /\ Used' = Used /\ n <= Free
    BY <1>1, <1>6, <2>2, <2>3, <2>4, <2>5 DEF Free, HeldNow, Used
  <2>7. HeldNow' - HeldNow = n /\ n \in Nat
    BY <1>3, <2>6, AccountInt DEF IInv
  <2> HIDE DEF n
  <2>8. QED
    BY <1>1, <2>6, <2>7 DEF Pool!Grant
<1>7. QED
  BY <1>4, <1>5, <1>6

LEMMA SettleSettles ==
  ASSUME IInv, NEW i \in LeaseIds, NEW actuals \in Budgets,
         i \in live, live' = live \ {i}, lease' = lease, ceiling' = ceiling,
         Refund(i, Minus(lease[i].reserved, actuals)),
         \A r \in Runs, d \in Dims :
           rootSpent'[r][d] = rootSpent[r][d] + RootPart(lease[i], r, actuals[d])
  PROVE  Pool!Settle(HeldNow - HeldNow', Used' - Used) \/ UNCHANGED accountView
<1> DEFINE l == lease[i]
           d == PoolDim
           amount == Minus(l.reserved, actuals)
<1>1. l.reserved[d] \in Nat /\ actuals[d] \in Nat /\ amount[d] = l.reserved[d] - actuals[d]
  BY LeaseFields DEF IInv, Budgets, Minus
<1>2. amount \in [Dims -> Int]
  BY LeaseFields, ArithmeticType DEF IInv
<1> HIDE DEF amount
<1>3. HeldAtRoot(PoolRun, d)' = HeldAtRoot(PoolRun, d) - RootShare(l, PoolRun, d)
  BY SettleHoldings DEF IInv
<1>4. rootSpent'[PoolRun][d] = rootSpent[PoolRun][d] + RootPart(l, PoolRun, actuals[d])
  OBVIOUS
<1>5. Refund(i, amount)
  BY DEF amount
<1>6. CASE ~Named
  BY <1>6, NamedStays DEF accountView
<1>7. CASE Named
  <2>1. Named' /\ d \in Constrained(PoolRun)
    BY <1>7, NamedStays DEF Named
  <2>2. rootRemaining'[PoolRun][d] = rootRemaining[PoolRun][d] + RootPart(l, PoolRun, amount[d])
    BY <1>2, <1>5, <2>1, RefundMoves DEF IInv
  <2>3. /\ Free' = Free + RootPart(l, PoolRun, amount[d])
        /\ HeldNow' = HeldNow - RootShare(l, PoolRun, d)
        /\ Used' = Used + RootPart(l, PoolRun, actuals[d])
    BY <1>3, <1>4, <1>7, <2>1, <2>2 DEF Free, HeldNow, Used
  <2>4. Free \in Int /\ HeldNow \in Int /\ Used \in Int
    BY AccountInt DEF IInv
  <2>5. CASE l.parent = NoParent /\ l.run = PoolRun
    <3>1. /\ HeldNow' = HeldNow - l.reserved[d] /\ Used' = Used + actuals[d]
          /\ Free' = Free + l.reserved[d] - actuals[d]
      BY <1>1, <2>3, <2>4, <2>5 DEF RootPart, RootShare
    <3>2. /\ HeldNow' = HeldNow - (HeldNow - HeldNow')
          /\ Used' = Used + (Used' - Used)
          /\ Free' = Free + (HeldNow - HeldNow') - (Used' - Used)
      BY <1>1, <2>4, <3>1
    <3>3. HeldNow - HeldNow' \in Nat /\ Used' - Used \in Nat
      BY <1>1, <2>4, <3>1
    <3>4. QED
      BY <3>2, <3>3 DEF Pool!Settle
  <2>6. CASE ~(l.parent = NoParent /\ l.run = PoolRun)
    <3>1. Free' = Free /\ HeldNow' = HeldNow /\ Used' = Used
      BY <1>1, <2>3, <2>4, <2>6 DEF RootPart, RootShare
    <3>2. QED
      BY <3>1 DEF accountView
  <2>7. QED
    BY <2>5, <2>6
<1>8. QED
  BY <1>6, <1>7

LEMMA PoolStep == IInv /\ IInv' /\ [Next]_vars => [Pool!Next]_(Pool!accountVars)
<1> SUFFICES ASSUME IInv, IInv', [Next]_vars
             PROVE  [Pool!Next]_(Pool!accountVars)
  OBVIOUS
<1>1. Pool!accountVars = accountView
  BY DEF Pool!accountVars, accountView
<1>2. UNCHANGED accountView => UNCHANGED Pool!accountVars
  BY DEF Pool!accountVars, accountView
<1>3. ASSUME NEW r \in Runs, NEW dims \in Ceilings, SeedRunBudget(r, dims)
      PROVE  Pool!Next \/ UNCHANGED accountView
  BY <1>3, SeedOpens DEF Pool!Next
<1>4. ASSUME NEW r \in Runs, NEW dims \in Requests, ReserveRoot(r, dims)
      PROVE  Pool!Next \/ UNCHANGED accountView
  <2> DEFINE l == [run |-> r, parent |-> NoParent, reserved |-> dims]
  <2>1. /\ l \in Leases /\ NewLease(l) /\ l.parent = NoParent
        /\ ReserveRoot(l.run, l.reserved)
    BY <1>4 DEF ReserveRoot, Leases, NoParent
  <2> HIDE DEF l
  <2>2. Pool!Grant(HeldNow' - HeldNow) \/ UNCHANGED accountView
    BY <2>1, ReserveGrants
  <2>3. QED
    BY <2>2 DEF Pool!Next
<1>5. ASSUME NEW p \in LeaseIds, NEW dims \in Requests, ReserveChild(p, dims)
      PROVE  Pool!Next \/ UNCHANGED accountView
  <2> DEFINE l == [run |-> lease[p].run, parent |-> p, reserved |-> dims]
  <2>1. l \in Leases /\ NewLease(l) /\ l.parent # NoParent /\ rootRemaining' = rootRemaining
    BY <1>5, LeaseFields DEF ReserveChild, Leases, LeaseIds, NoParent, IInv
  <2> HIDE DEF l
  <2>2. Pool!Grant(HeldNow' - HeldNow) \/ UNCHANGED accountView
    BY <2>1, ReserveGrants
  <2>3. QED
    BY <2>2 DEF Pool!Next
<1>6. ASSUME NEW i \in LeaseIds, NEW actuals \in Costs, Commit(i, actuals)
      PROVE  Pool!Next \/ UNCHANGED accountView
  <2>1. /\ i \in live /\ live' = live \ {i} /\ lease' = lease /\ ceiling' = ceiling
        /\ Refund(i, Minus(lease[i].reserved, actuals)) /\ actuals \in Budgets
    BY <1>6 DEF Commit, Remainder
  <2>2. \A r \in Runs, d \in Dims :
          rootSpent'[r][d] = rootSpent[r][d] + RootPart(lease[i], r, actuals[d])
    BY <1>6, <2>1, CommitCharges DEF IInv
  <2>3. Pool!Settle(HeldNow - HeldNow', Used' - Used) \/ UNCHANGED accountView
    BY <2>1, <2>2, SettleSettles
  <2>4. QED
    BY <2>3 DEF Pool!Next
<1>7. ASSUME NEW i \in LeaseIds, Release(i)
      PROVE  Pool!Next \/ UNCHANGED accountView
  <2>1. /\ i \in live /\ live' = live \ {i} /\ lease' = lease /\ ceiling' = ceiling
        /\ Refund(i, lease[i].reserved) /\ rootSpent' = rootSpent
    BY <1>7 DEF Release
  <2>2. Zero \in Budgets /\ Minus(lease[i].reserved, Zero) = lease[i].reserved
    BY LeaseFields DEF IInv, Zero, Minus, Budgets
  <2>3. \A r \in Runs, d \in Dims :
          rootSpent'[r][d] = rootSpent[r][d] + RootPart(lease[i], r, Zero[d])
    BY <2>1, NumberTypes DEF IInv, RootPart, Zero
  <2>4. Pool!Settle(HeldNow - HeldNow', Used' - Used) \/ UNCHANGED accountView
    BY <2>1, <2>2, <2>3, SettleSettles
  <2>5. QED
    BY <2>4 DEF Pool!Next
<1>8. ASSUME UNCHANGED vars
      PROVE  UNCHANGED accountView
  BY <1>8 DEF vars, accountView, Free, HeldNow, Used, Named, Constrained, HeldAtRoot, RootLeases
<1>9. QED
  BY <1>2, <1>3, <1>4, <1>5, <1>6, <1>7, <1>8 DEF Next

LEMMA PoolInit == Init => Pool!Init
<1> SUFFICES ASSUME Init
             PROVE  Pool!Init
  OBVIOUS
<1>1. ceiling[PoolRun][PoolDim] = 0 /\ ~Named
  BY DEF Init, Named, Constrained, Zero
<1>2. QED
  BY <1>1 DEF Pool!Init, Free, HeldNow, Used

\* The pool of any run, seen in any dimension, is an account: a reservation is
\* granted only from what is free, and a settlement gives back exactly what was
\* held and takes exactly what was used (governor.py:76-132, 134-195).
THEOREM PoolRefinesAccount == Spec => PoolIsAnAccount
BY PoolInit, PoolStep, LedgerInvariant, PTL DEF Spec, PoolIsAnAccount, Pool!Spec

=============================================================================
