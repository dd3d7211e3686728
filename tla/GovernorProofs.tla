--------------------------- MODULE GovernorProofs ---------------------------
(***************************************************************************)
(* Theorems about the governor, for every set of runs and dimensions, any  *)
(* number of leases and any ceilings, requests and costs.                  *)
(***************************************************************************)
EXTENDS Governor, SumsProofs

USE GovernorAssumption

-----------------------------------------------------------------------------
(* What a set of leases holds *)

LEMMA HeldInt ==
  ASSUME NEW L \in [LeaseIds -> Leases], NEW S, NEW d \in Dims
  PROVE  Held(L, S, d) \in Nat
<1> DEFINE f == [i \in LeaseIds |-> IF i \in S THEN L[i].reserved[d] ELSE 0]
<1>1. f \in [1..MaxLeases -> Nat]
  BY DEF LeaseIds, Leases, Budgets
<1> HIDE DEF f
<1>2. SumTo(f, MaxLeases) \in Nat
  BY <1>1, SumToNat
<1>3. QED
  BY <1>2 DEF Held, f

LEMMA HeldNothing ==
  ASSUME NEW L \in [LeaseIds -> Leases], NEW d \in Dims
  PROVE  Held(L, {}, d) = 0
<1> DEFINE f == [i \in LeaseIds |-> IF i \in {} THEN L[i].reserved[d] ELSE 0]
<1>1. f \in [1..MaxLeases -> Int] /\ \A i \in 1..MaxLeases : f[i] = 0
  BY DEF LeaseIds
<1> HIDE DEF f
<1>2. SumTo(f, MaxLeases) = 0
  BY <1>1, SumToZero
<1>3. QED
  BY <1>2 DEF Held, f

\* what lease k of L contributes to the holdings of S
Share(L, S, k, d) == IF k \in S THEN L[k].reserved[d] ELSE 0

\* When only lease k changes or enters or leaves the set, only its share moves.
LEMMA HeldChange ==
  ASSUME NEW L \in [LeaseIds -> Leases], NEW M \in [LeaseIds -> Leases],
         NEW S, NEW T, NEW d \in Dims, NEW k \in LeaseIds,
         \A i \in LeaseIds \ {k} : M[i] = L[i] /\ (i \in T <=> i \in S)
  PROVE  Held(M, T, d) = Held(L, S, d) + Share(M, T, k, d) - Share(L, S, k, d)
<1> DEFINE f == [i \in LeaseIds |-> IF i \in S THEN L[i].reserved[d] ELSE 0]
           g == [i \in LeaseIds |-> IF i \in T THEN M[i].reserved[d] ELSE 0]
<1>1. f \in [1..MaxLeases -> Int] /\ g \in [1..MaxLeases -> Int]
  BY DEF LeaseIds, Leases, Budgets
<1>2. k \in 1..MaxLeases /\ \A i \in 1..MaxLeases : i # k => g[i] = f[i]
  BY DEF LeaseIds
<1>3. f[k] = Share(L, S, k, d) /\ g[k] = Share(M, T, k, d)
  BY DEF Share
<1> HIDE DEF f, g
<1>4. SumTo(g, MaxLeases) = SumTo(f, MaxLeases) + g[k] - f[k]
  BY <1>1, <1>2, SumToUpdate
<1>5. QED
  BY <1>3, <1>4 DEF Held, f, g

-----------------------------------------------------------------------------
(* Type correctness *)

LEMMA InitType == Init => TypeOK
<1> SUFFICES ASSUME Init
             PROVE  TypeOK
  OBVIOUS
<1>1. (CHOOSE r \in Runs : TRUE) \in Runs
  OBVIOUS
<1>2. QED
  BY <1>1 DEF Init, TypeOK, Zero, Budgets, Leases, LeaseIds, NoParent

LEMMA ArithmeticType ==
  /\ \A a, b \in Budgets : Plus(a, b) \in Budgets
  /\ \A a, b \in [Dims -> Int] : Plus(a, b) \in [Dims -> Int] /\ Minus(a, b) \in [Dims -> Int]
  /\ Budgets \subseteq [Dims -> Int]
BY DEF Plus, Minus, Budgets

\* a pool keeps its type when the dimensions in C move by an integer
LEMMA MoveType ==
  ASSUME NEW b \in [Dims -> Int], NEW amount \in [Dims -> Int], NEW C
  PROVE  /\ [d \in Dims |-> IF d \in C THEN b[d] + amount[d] ELSE b[d]] \in [Dims -> Int]
         /\ [d \in Dims |-> IF d \in C THEN b[d] - amount[d] ELSE b[d]] \in [Dims -> Int]
OBVIOUS

LEMMA NewLeaseType ==
  ASSUME TypeOK, NEW l \in Leases, NewLease(l)
  PROVE  /\ lease' \in [LeaseIds -> Leases]
         /\ nextId' \in 0..MaxLeases /\ nextId + 1 \in LeaseIds
         /\ live' \subseteq 1..nextId'
         /\ overruns' \subseteq [lease : 1..nextId', actual : Budgets]
         /\ ceiling' = ceiling /\ spent' = spent
         /\ rootSpent' = rootSpent /\ childSpent' = childSpent
<1>1. nextId \in Nat /\ nextId < MaxLeases /\ nextId' = nextId + 1
  BY DEF TypeOK, NewLease
<1>2. 1..nextId \subseteq 1..nextId' /\ nextId' \in 1..nextId' /\ nextId' \in LeaseIds
  BY <1>1 DEF LeaseIds
<1>3. lease' = [lease EXCEPT ![nextId + 1] = l] /\ lease \in [LeaseIds -> Leases]
  BY DEF NewLease, TypeOK
<1>4. lease' \in [LeaseIds -> Leases]
  BY <1>3
<1>5. live' \subseteq 1..nextId'
  BY <1>1, <1>2 DEF NewLease, TypeOK
<1>6. overruns' \subseteq [lease : 1..nextId', actual : Budgets]
  BY <1>2 DEF NewLease, TypeOK
<1>7. QED
  BY <1>1, <1>2, <1>4, <1>5, <1>6 DEF NewLease, LeaseIds

LEMMA RefundType ==
  ASSUME TypeOK, NEW i \in LeaseIds, NEW amount \in [Dims -> Int], Refund(i, amount)
  PROVE  /\ rootRemaining' \in [Runs -> [Dims -> Int]]
         /\ parentRemaining' \in [LeaseIds -> [Dims -> Int]]
<1>1. lease[i] \in Leases
  BY DEF TypeOK
<1>2. lease[i].run \in Runs /\ lease[i].parent \in 0..MaxLeases
  BY <1>1 DEF Leases
<1>3. CASE lease[i].parent # NoParent
  <2>1. lease[i].parent \in LeaseIds
    BY <1>2, <1>3 DEF LeaseIds, NoParent
  <2>2. Plus(parentRemaining[lease[i].parent], amount) \in [Dims -> Int]
    BY <2>1, ArithmeticType DEF TypeOK
  <2>3. QED
    BY <1>3, <2>2 DEF TypeOK, Refund
<1>4. CASE lease[i].parent = NoParent
  <2> DEFINE r == lease[i].run
             moved == [d \in Dims |-> IF d \in Constrained(r)
                         THEN rootRemaining[r][d] + amount[d] ELSE rootRemaining[r][d]]
  <2>1. rootRemaining[r] \in [Dims -> Int]
    BY <1>2 DEF TypeOK
  <2>2. moved \in [Dims -> Int]
    BY <2>1, MoveType
  <2>3. rootRemaining' = [rootRemaining EXCEPT ![r] = moved] /\ parentRemaining' = parentRemaining
    BY <1>4 DEF Refund
  <2> HIDE DEF r, moved
  <2>4. QED
    BY <2>2, <2>3 DEF TypeOK
<1>5. QED
  BY <1>3, <1>4

LEMMA StepType == TypeOK /\ [Next]_vars => TypeOK'
<1> SUFFICES ASSUME TypeOK, [Next]_vars
             PROVE  TypeOK'
  OBVIOUS
<1>1. ASSUME NEW r \in Runs, NEW dims \in Ceilings, SeedRunBudget(r, dims)
      PROVE  TypeOK'
  BY <1>1, ArithmeticType DEF TypeOK, SeedRunBudget
<1>2. ASSUME NEW r \in Runs, NEW dims \in Requests, ReserveRoot(r, dims)
      PROVE  TypeOK'
  <2> DEFINE l == [run |-> r, parent |-> NoParent, reserved |-> dims]
             moved == [d \in Dims |-> IF d \in Constrained(r)
                         THEN rootRemaining[r][d] - dims[d] ELSE rootRemaining[r][d]]
  <2>1. l \in Leases /\ NewLease(l)
    BY <1>2 DEF ReserveRoot, Leases, NoParent
  <2>2. dims \in [Dims -> Int] /\ rootRemaining[r] \in [Dims -> Int]
    BY ArithmeticType DEF TypeOK
  <2>3. moved \in [Dims -> Int]
    BY <2>2, MoveType
  <2>4. /\ rootRemaining' = [rootRemaining EXCEPT ![r] = moved]
        /\ parentRemaining' = [parentRemaining EXCEPT ![nextId + 1] = dims]
    BY <1>2 DEF ReserveRoot
  <2> HIDE DEF moved, l
  <2>5. QED
    BY <2>1, <2>2, <2>3, <2>4, NewLeaseType DEF TypeOK
<1>3. ASSUME NEW p \in LeaseIds, NEW dims \in Requests, ReserveChild(p, dims)
      PROVE  TypeOK'
  <2> DEFINE l == [run |-> lease[p].run, parent |-> p, reserved |-> dims]
  <2>1. l \in Leases /\ NewLease(l)
    <3>1. lease[p] \in Leases
      BY DEF TypeOK
    <3>2. lease[p].run \in Runs /\ p \in 0..MaxLeases /\ dims \in Budgets
      BY <3>1 DEF Leases, LeaseIds
    <3>3. QED
      BY <1>3, <3>2 DEF ReserveChild, Leases
  <2>2. dims \in [Dims -> Int] /\ Minus(parentRemaining[p], dims) \in [Dims -> Int]
    BY ArithmeticType DEF TypeOK
  <2>3. /\ rootRemaining' = rootRemaining
        /\ parentRemaining' = [parentRemaining EXCEPT
              ![p] = Minus(parentRemaining[p], dims), ![nextId + 1] = dims]
    BY <1>3 DEF ReserveChild
  <2> HIDE DEF l
  <2>4. QED
    BY <2>1, <2>2, <2>3, NewLeaseType DEF TypeOK
<1>4. ASSUME NEW i \in LeaseIds, NEW actuals \in Costs, Commit(i, actuals)
      PROVE  TypeOK'
  <2>1. /\ lease[i] \in Leases /\ i \in 1..nextId /\ actuals \in Budgets
    BY <1>4 DEF TypeOK, Commit
  <2>2. /\ lease[i].run \in Runs /\ lease[i].reserved \in Budgets
        /\ lease[i].parent # NoParent => lease[i].parent \in LeaseIds
    BY <2>1 DEF Leases, LeaseIds, NoParent
  <2>3. Remainder(lease[i].reserved, actuals) \in [Dims -> Int]
    BY <2>1, <2>2, ArithmeticType DEF Remainder
  <2>4. /\ rootRemaining' \in [Runs -> [Dims -> Int]]
        /\ parentRemaining' \in [LeaseIds -> [Dims -> Int]]
    BY <1>4, <2>3, RefundType DEF Commit
  <2>5. spent' \in [Runs -> Budgets]
    <3>1. Plus(spent[lease[i].run], actuals) \in Budgets
      BY <2>1, <2>2, ArithmeticType DEF TypeOK
    <3>2. QED
      BY <1>4, <3>1 DEF TypeOK, Commit
  <2>6. rootSpent' \in [Runs -> Budgets] /\ childSpent' \in [LeaseIds -> Budgets]
    <3>1. Plus(rootSpent[lease[i].run], actuals) \in Budgets
      BY <2>1, <2>2, ArithmeticType DEF TypeOK
    <3>2. lease[i].parent # NoParent => Plus(childSpent[lease[i].parent], actuals) \in Budgets
      BY <2>1, <2>2, ArithmeticType DEF TypeOK
    <3>3. QED
      BY <1>4, <3>1, <3>2 DEF TypeOK, Commit
  <2>7. overruns' \subseteq [lease : 1..nextId, actual : Budgets]
    BY <1>4, <2>1 DEF TypeOK, Commit
  <2>8. QED
    BY <1>4, <2>4, <2>5, <2>6, <2>7 DEF TypeOK, Commit
<1>5. ASSUME NEW i \in LeaseIds, Release(i)
      PROVE  TypeOK'
  <2>1. lease[i] \in Leases
    BY DEF TypeOK
  <2>2. lease[i].reserved \in [Dims -> Int]
    BY <2>1, ArithmeticType DEF Leases
  <2>3. /\ rootRemaining' \in [Runs -> [Dims -> Int]]
        /\ parentRemaining' \in [LeaseIds -> [Dims -> Int]]
    BY <1>5, <2>2, RefundType DEF Release
  <2>4. QED
    BY <1>5, <2>3 DEF TypeOK, Release
<1>6. CASE UNCHANGED vars
  BY <1>6 DEF TypeOK, vars
<1>7. QED
  BY <1>1, <1>2, <1>3, <1>4, <1>5, <1>6 DEF Next

\* The ledger keeps its shape: balances are integers that an overrun may make
\* negative, what was spent is never negative, and only issued leases are live
\* (governor.py:64-74).
THEOREM TypeCorrect == Spec => []TypeOK
BY InitType, StepType, PTL DEF Spec

-----------------------------------------------------------------------------
(* The inductive invariant *)

\* a lease is carved from one issued before it
ParentOlder == \A i \in 1..nextId : lease[i].parent < i

\* nothing was committed under a lease that was not issued yet
FreshAccounts == \A p \in LeaseIds : p > nextId => childSpent[p] = Zero

\* nothing was committed for a run that never held a lease
UnusedRuns ==
  \A r \in Runs : (\A i \in 1..nextId : lease[i].run # r) => rootSpent[r] = Zero

\* only an overrun makes a balance negative
RootSolvent ==
  \A r \in Runs : \A d \in Constrained(r) :
    RootOverran(r, d) \/ rootRemaining[r][d] >= 0

ParentSolvent ==
  \A p \in 1..nextId, d \in Dims :
    ParentOverran(p, d) \/ parentRemaining[p][d] >= 0

Wellformed == ParentOlder /\ FreshAccounts /\ UnusedRuns

-----------------------------------------------------------------------------
(* How the holdings of the accounts move *)

\* the part of lease l that is drawn on the pool of r, and on the lease p
RootShare(l, r, d) == IF l.parent = NoParent /\ l.run = r THEN l.reserved[d] ELSE 0
ParentShare(l, p, d) == IF l.parent = p THEN l.reserved[d] ELSE 0

LEMMA LeaseFields ==
  ASSUME TypeOK, NEW i \in LeaseIds
  PROVE  /\ lease[i] \in Leases /\ lease[i].run \in Runs
         /\ lease[i].parent \in 0..MaxLeases
         /\ lease[i].reserved \in Budgets
         /\ \A d \in Dims : lease[i].reserved[d] \in Nat
BY DEF TypeOK, Leases, Budgets

LEMMA HoldingsInt ==
  ASSUME TypeOK
  PROVE  /\ \A r \in Runs, d \in Dims : HeldAtRoot(r, d) \in Nat
         /\ \A p \in LeaseIds, d \in Dims : HeldUnder(p, d) \in Nat
<1>1. lease \in [LeaseIds -> Leases]
  BY DEF TypeOK
<1>2. QED
  BY <1>1, HeldInt DEF HeldAtRoot, HeldUnder

\* issuing lease l adds its reservation to the account it is drawn on
LEMMA IssueHoldings ==
  ASSUME TypeOK, TypeOK', NEW l \in Leases, NewLease(l), NEW d \in Dims
  PROVE  /\ \A r \in Runs : HeldAtRoot(r, d)' = HeldAtRoot(r, d) + RootShare(l, r, d)
         /\ \A p \in LeaseIds : HeldUnder(p, d)' = HeldUnder(p, d) + ParentShare(l, p, d)
<1> DEFINE k == nextId + 1
<1>1. /\ k \in LeaseIds /\ k \notin live /\ live' = live \cup {k}
      /\ lease' = [lease EXCEPT ![k] = l] /\ lease'[k] = l
      /\ lease \in [LeaseIds -> Leases] /\ lease' \in [LeaseIds -> Leases]
      /\ live \subseteq LeaseIds
  BY DEF TypeOK, NewLease, LeaseIds
<1> HIDE DEF k
<1>1a. k \in LeaseIds /\ lease \in [LeaseIds -> Leases]
  BY <1>1
<1>2. l.reserved[d] \in Nat
  BY DEF Leases, Budgets
<1>3. ASSUME NEW r \in Runs
      PROVE  HeldAtRoot(r, d)' = HeldAtRoot(r, d) + RootShare(l, r, d)
  <2> DEFINE S == RootLeases(r)
             M == lease'
             T == RootLeases(r)'
  <2>1. \A i \in LeaseIds \ {k} : M[i] = lease[i] /\ (i \in T <=> i \in S)
    BY <1>1 DEF RootLeases
  <2>2. Share(M, T, k, d) = RootShare(l, r, d) /\ Share(lease, S, k, d) = 0
    BY <1>1 DEF Share, RootShare, RootLeases
  <2>2a. M \in [LeaseIds -> Leases]
    BY <1>1
  <2> HIDE DEF S, T, M
  <2>3. Held(M, T, d) = Held(lease, S, d) + Share(M, T, k, d) - Share(lease, S, k, d)
    BY <1>1a, <2>1, <2>2a, HeldChange
  <2>4. Held(lease, S, d) \in Nat
    BY <1>1, HeldInt
  <2>5. RootShare(l, r, d) \in Nat
    BY <1>2 DEF RootShare
  <2>6. Held(M, T, d) = Held(lease, S, d) + RootShare(l, r, d)
    BY <2>2, <2>3, <2>4, <2>5
  <2>7. QED
    BY <2>6 DEF HeldAtRoot, S, T, M
<1>4. ASSUME NEW p \in LeaseIds
      PROVE  HeldUnder(p, d)' = HeldUnder(p, d) + ParentShare(l, p, d)
  <2> DEFINE S == Children(p)
             M == lease'
             T == Children(p)'
  <2>1. \A i \in LeaseIds \ {k} : M[i] = lease[i] /\ (i \in T <=> i \in S)
    BY <1>1 DEF Children
  <2>2. Share(M, T, k, d) = ParentShare(l, p, d) /\ Share(lease, S, k, d) = 0
    BY <1>1 DEF Share, ParentShare, Children
  <2>2a. M \in [LeaseIds -> Leases]
    BY <1>1
  <2> HIDE DEF S, T, M
  <2>3. Held(M, T, d) = Held(lease, S, d) + Share(M, T, k, d) - Share(lease, S, k, d)
    BY <1>1a, <2>1, <2>2a, HeldChange
  <2>4. Held(lease, S, d) \in Nat
    BY <1>1, HeldInt
  <2>5. ParentShare(l, p, d) \in Nat
    BY <1>2 DEF ParentShare
  <2>6. Held(M, T, d) = Held(lease, S, d) + ParentShare(l, p, d)
    BY <2>2, <2>3, <2>4, <2>5
  <2>7. QED
    BY <2>6 DEF HeldUnder, S, T, M
<1>5. QED
  BY <1>3, <1>4

\* settling lease i takes its reservation off the account it is drawn on
LEMMA SettleHoldings ==
  ASSUME TypeOK, NEW i \in live, live' = live \ {i}, lease' = lease, NEW d \in Dims
  PROVE  /\ \A r \in Runs : HeldAtRoot(r, d)' = HeldAtRoot(r, d) - RootShare(lease[i], r, d)
         /\ \A p \in LeaseIds : HeldUnder(p, d)' = HeldUnder(p, d) - ParentShare(lease[i], p, d)
<1>1. i \in LeaseIds /\ lease \in [LeaseIds -> Leases] /\ live \subseteq LeaseIds
  BY DEF TypeOK, LeaseIds
<1>2. lease[i].reserved[d] \in Nat
  BY <1>1, LeaseFields
<1>3. ASSUME NEW r \in Runs
      PROVE  HeldAtRoot(r, d)' = HeldAtRoot(r, d) - RootShare(lease[i], r, d)
  <2> DEFINE S == RootLeases(r)
             T == RootLeases(r)'
  <2>1. \A j \in LeaseIds \ {i} : lease[j] = lease[j] /\ (j \in T <=> j \in S)
    BY DEF RootLeases
  <2>2. Share(lease, T, i, d) = 0 /\ Share(lease, S, i, d) = RootShare(lease[i], r, d)
    BY DEF Share, RootShare, RootLeases
  <2> HIDE DEF S, T
  <2>3. Held(lease, T, d) = Held(lease, S, d) + Share(lease, T, i, d) - Share(lease, S, i, d)
    BY <1>1, <2>1, HeldChange
  <2>4. Held(lease, S, d) \in Nat
    BY <1>1, HeldInt
  <2>5. RootShare(lease[i], r, d) \in Nat
    BY <1>2 DEF RootShare
  <2>6. Held(lease, T, d) = Held(lease, S, d) - RootShare(lease[i], r, d)
    BY <2>2, <2>3, <2>4, <2>5
  <2>7. QED
    BY <2>6 DEF HeldAtRoot, S, T
<1>4. ASSUME NEW p \in LeaseIds
      PROVE  HeldUnder(p, d)' = HeldUnder(p, d) - ParentShare(lease[i], p, d)
  <2> DEFINE S == Children(p)
             T == Children(p)'
  <2>1. \A j \in LeaseIds \ {i} : lease[j] = lease[j] /\ (j \in T <=> j \in S)
    BY DEF Children
  <2>2. Share(lease, T, i, d) = 0 /\ Share(lease, S, i, d) = ParentShare(lease[i], p, d)
    BY DEF Share, ParentShare, Children
  <2> HIDE DEF S, T
  <2>3. Held(lease, T, d) = Held(lease, S, d) + Share(lease, T, i, d) - Share(lease, S, i, d)
    BY <1>1, <2>1, HeldChange
  <2>4. Held(lease, S, d) \in Nat
    BY <1>1, HeldInt
  <2>5. ParentShare(lease[i], p, d) \in Nat
    BY <1>2 DEF ParentShare
  <2>6. Held(lease, T, d) = Held(lease, S, d) - ParentShare(lease[i], p, d)
    BY <2>2, <2>3, <2>4, <2>5
  <2>7. QED
    BY <2>6 DEF HeldUnder, S, T
<1>5. QED
  BY <1>3, <1>4

-----------------------------------------------------------------------------
(* How the balances of the accounts move *)

\* the part of an amount of lease l that goes to the pool of r, and to p
RootPart(l, r, x) == IF l.parent = NoParent /\ l.run = r THEN x ELSE 0
ParentPart(l, p, x) == IF l.parent = p THEN x ELSE 0

LEMMA RefundMoves ==
  ASSUME TypeOK, NEW i \in LeaseIds, NEW amount \in [Dims -> Int], Refund(i, amount)
  PROVE  /\ \A r \in Runs : \A d \in Constrained(r) :
              rootRemaining'[r][d] = rootRemaining[r][d] + RootPart(lease[i], r, amount[d])
         /\ \A p \in LeaseIds, d \in Dims :
              parentRemaining'[p][d] = parentRemaining[p][d] + ParentPart(lease[i], p, amount[d])
<1>1. lease[i].run \in Runs /\ lease[i].parent \in 0..MaxLeases
  BY LeaseFields
<1>2. /\ \A r \in Runs, d \in Dims : rootRemaining[r][d] \in Int
      /\ \A p \in LeaseIds, d \in Dims : parentRemaining[p][d] \in Int
  BY DEF TypeOK
<1>3. CASE lease[i].parent # NoParent
  <2> DEFINE q == lease[i].parent
  <2>1. /\ rootRemaining' = rootRemaining
        /\ parentRemaining' = [parentRemaining EXCEPT ![q] = Plus(parentRemaining[q], amount)]
    BY <1>3 DEF Refund
  <2>2. q \in LeaseIds
    BY <1>1, <1>3 DEF LeaseIds, NoParent
  <2>3. ASSUME NEW p \in LeaseIds, NEW d \in Dims
        PROVE  parentRemaining'[p][d] = parentRemaining[p][d] + ParentPart(lease[i], p, amount[d])
    BY <1>2, <2>1, <2>2 DEF TypeOK, Plus, ParentPart
  <2>4. ASSUME NEW r \in Runs, NEW d \in Constrained(r)
        PROVE  rootRemaining'[r][d] = rootRemaining[r][d] + RootPart(lease[i], r, amount[d])
    BY <1>2, <1>3, <2>1 DEF RootPart, Constrained
  <2>5. QED
    BY <2>3, <2>4
<1>4. CASE lease[i].parent = NoParent
  <2> DEFINE q == lease[i].run
             moved == [d \in Dims |-> IF d \in Constrained(q)
                         THEN rootRemaining[q][d] + amount[d] ELSE rootRemaining[q][d]]
  <2>1. /\ rootRemaining' = [rootRemaining EXCEPT ![q] = moved]
        /\ parentRemaining' = parentRemaining
    BY <1>4 DEF Refund
  <2>2. \A d \in Constrained(q) : d \in Dims /\ moved[d] = rootRemaining[q][d] + amount[d]
    BY DEF Constrained
  <2> HIDE DEF moved
  <2>3. ASSUME NEW r \in Runs, NEW d \in Constrained(r)
        PROVE  rootRemaining'[r][d] = rootRemaining[r][d] + RootPart(lease[i], r, amount[d])
    <3>1. d \in Dims
      BY DEF Constrained
    <3>2. CASE r = q
      BY <1>1, <1>4, <2>1, <2>2, <3>2 DEF TypeOK, RootPart
    <3>3. CASE r # q
      BY <1>1, <1>2, <2>1, <3>1, <3>3 DEF TypeOK, RootPart
    <3>4. QED
      BY <3>2, <3>3
  <2>4. ASSUME NEW p \in LeaseIds, NEW d \in Dims
        PROVE  parentRemaining'[p][d] = parentRemaining[p][d] + ParentPart(lease[i], p, amount[d])
    BY <1>2, <1>4, <2>1 DEF ParentPart, NoParent, LeaseIds
  <2>5. QED
    BY <2>3, <2>4
<1>5. QED
  BY <1>3, <1>4

\* a commit charges its actuals to the account the lease is drawn on
LEMMA CommitCharges ==
  ASSUME TypeOK, NEW i \in LeaseIds, NEW actuals \in Budgets, Commit(i, actuals)
  PROVE  /\ \A r \in Runs, d \in Dims :
              rootSpent'[r][d] = rootSpent[r][d] + RootPart(lease[i], r, actuals[d])
         /\ \A p \in LeaseIds, d \in Dims :
              childSpent'[p][d] = childSpent[p][d] + ParentPart(lease[i], p, actuals[d])
<1>1. lease[i].run \in Runs /\ lease[i].parent \in 0..MaxLeases
  BY LeaseFields
<1>2. /\ \A r \in Runs, d \in Dims : rootSpent[r][d] \in Int
      /\ \A p \in LeaseIds, d \in Dims : childSpent[p][d] \in Int
  BY DEF TypeOK, Budgets
<1>3. CASE lease[i].parent # NoParent
  <2> DEFINE q == lease[i].parent
  <2>1. rootSpent' = rootSpent /\ childSpent' = [childSpent EXCEPT ![q] = Plus(childSpent[q], actuals)]
    BY <1>3 DEF Commit
  <2>2. \A p \in LeaseIds, d \in Dims :
          childSpent'[p][d] = childSpent[p][d] + ParentPart(lease[i], p, actuals[d])
    BY <1>2, <2>1 DEF TypeOK, Plus, ParentPart
  <2>3. QED
    BY <1>2, <1>3, <2>1, <2>2 DEF RootPart
<1>4. CASE lease[i].parent = NoParent
  <2> DEFINE q == lease[i].run
  <2>1. childSpent' = childSpent /\ rootSpent' = [rootSpent EXCEPT ![q] = Plus(rootSpent[q], actuals)]
    BY <1>4 DEF Commit
  <2>2. \A r \in Runs, d \in Dims :
          rootSpent'[r][d] = rootSpent[r][d] + RootPart(lease[i], r, actuals[d])
    BY <1>2, <1>4, <2>1 DEF TypeOK, Plus, RootPart
  <2>3. QED
    BY <1>2, <1>4, <2>1, <2>2 DEF ParentPart, NoParent, LeaseIds
<1>5. QED
  BY <1>3, <1>4

-----------------------------------------------------------------------------
(* The shape of the lease tree *)

LEMMA StepWellformed == TypeOK /\ TypeOK' /\ Wellformed /\ [Next]_vars => Wellformed'
<1> SUFFICES ASSUME TypeOK, TypeOK', Wellformed, [Next]_vars
             PROVE  Wellformed'
  OBVIOUS
<1> USE DEF Wellformed, ParentOlder, FreshAccounts, UnusedRuns
<1>1. ASSUME NEW r \in Runs, NEW dims \in Ceilings, SeedRunBudget(r, dims)
      PROVE  Wellformed'
  BY <1>1 DEF SeedRunBudget
<1>2. ASSUME NEW l \in Leases, l.parent <= nextId, NewLease(l)
      PROVE  Wellformed'
  <2>1. nextId \in Nat /\ nextId' = nextId + 1 /\ nextId + 1 \in LeaseIds
    BY <1>2 DEF TypeOK, NewLease, LeaseIds
  <2>2. /\ lease'[nextId + 1] = l
        /\ \A i \in 1..nextId : lease'[i] = lease[i]
    BY <1>2, <2>1 DEF NewLease, TypeOK, LeaseIds
  <2>3. rootSpent' = rootSpent /\ childSpent' = childSpent
    BY <1>2 DEF NewLease
  <2>4. l.parent \in Nat
    BY DEF Leases
  <2>5. ParentOlder'
    BY <1>2, <2>1, <2>2, <2>4
  <2>6. FreshAccounts'
    BY <2>1, <2>3 DEF LeaseIds, Zero
  <2>7. UnusedRuns'
    BY <2>1, <2>2, <2>3 DEF Zero
  <2>8. QED
    BY <2>5, <2>6, <2>7
<1>3. ASSUME NEW r \in Runs, NEW dims \in Requests, ReserveRoot(r, dims)
      PROVE  Wellformed'
  <2>1. [run |-> r, parent |-> NoParent, reserved |-> dims] \in Leases
    BY DEF Leases, NoParent
  <2>2. NoParent <= nextId
    BY DEF TypeOK, NoParent
  <2>3. QED
    BY <1>2, <1>3, <2>1, <2>2 DEF ReserveRoot
<1>4. ASSUME NEW p \in LeaseIds, NEW dims \in Requests, ReserveChild(p, dims)
      PROVE  Wellformed'
  <2>1. lease[p].run \in Runs /\ p \in 0..MaxLeases
    BY LeaseFields DEF LeaseIds
  <2>2. [run |-> lease[p].run, parent |-> p, reserved |-> dims] \in Leases
    BY <2>1 DEF Leases
  <2>3. p <= nextId
    BY <1>4 DEF TypeOK, ReserveChild
  <2>4. QED
    BY <1>2, <1>4, <2>2, <2>3 DEF ReserveChild
<1>5. ASSUME NEW i \in LeaseIds, NEW actuals \in Costs, Commit(i, actuals)
      PROVE  Wellformed'
  <2>1. i \in 1..nextId /\ nextId' = nextId /\ lease' = lease /\ nextId \in Nat
    BY <1>5 DEF Commit, TypeOK
  <2>2. ParentOlder'
    BY <2>1
  <2>3. FreshAccounts'
    <3>1. \A p \in LeaseIds : p > nextId => childSpent'[p] = childSpent[p]
      BY <1>5, <2>1 DEF Commit, TypeOK, LeaseIds
    <3>2. QED
      BY <2>1, <3>1 DEF Zero
  <2>4. UnusedRuns'
    <3>1. \A r \in Runs : lease[i].run # r => rootSpent'[r] = rootSpent[r]
      BY <1>5 DEF Commit, TypeOK
    <3>2. QED
      BY <2>1, <3>1 DEF Zero
  <2>5. QED
    BY <2>2, <2>3, <2>4
<1>6. ASSUME NEW i \in LeaseIds, Release(i)
      PROVE  Wellformed'
  BY <1>6 DEF Release
<1>7. CASE UNCHANGED vars
  BY <1>7 DEF vars
<1>8. QED
  BY <1>1, <1>3, <1>4, <1>5, <1>6, <1>7 DEF Next

-----------------------------------------------------------------------------
(* Conservation *)

LEMMA NumberTypes ==
  ASSUME TypeOK
  PROVE  /\ \A r \in Runs, d \in Dims :
              /\ rootRemaining[r][d] \in Int /\ HeldAtRoot(r, d) \in Int
              /\ rootSpent[r][d] \in Int /\ ceiling[r][d] \in Int
         /\ \A p \in LeaseIds, d \in Dims :
              /\ parentRemaining[p][d] \in Int /\ HeldUnder(p, d) \in Int
              /\ childSpent[p][d] \in Int /\ lease[p].reserved[d] \in Int
BY HoldingsInt, LeaseFields DEF TypeOK, Budgets

LEMMA StepRootConserved ==
  TypeOK /\ TypeOK' /\ Wellformed /\ RootConserved /\ [Next]_vars => RootConserved'
<1> SUFFICES ASSUME TypeOK, TypeOK', Wellformed, RootConserved, [Next]_vars,
                    NEW r \in Runs, NEW d \in Constrained(r)'
             PROVE  rootRemaining'[r][d] + HeldAtRoot(r, d)' + rootSpent'[r][d] = ceiling'[r][d]
  BY DEF RootConserved
<1>0. d \in Dims
  BY DEF Constrained
<1>a. /\ rootRemaining[r][d] \in Int /\ HeldAtRoot(r, d) \in Int
      /\ rootSpent[r][d] \in Int /\ ceiling[r][d] \in Int
  BY <1>0, NumberTypes
<1>b. ceiling' = ceiling =>
        /\ d \in Constrained(r)
        /\ rootRemaining[r][d] + HeldAtRoot(r, d) + rootSpent[r][d] = ceiling[r][d]
  BY DEF RootConserved, Constrained
<1>1. ASSUME NEW q \in Runs, NEW dims \in Ceilings, SeedRunBudget(q, dims)
      PROVE  rootRemaining'[r][d] + HeldAtRoot(r, d)' + rootSpent'[r][d] = ceiling'[r][d]
  <2>1. HeldAtRoot(r, d)' = HeldAtRoot(r, d) /\ rootSpent' = rootSpent
    BY <1>1 DEF SeedRunBudget, HeldAtRoot, RootLeases
  <2>2. CASE r = q
    <3>1. rootRemaining'[r] = dims /\ ceiling'[r] = dims /\ dims[d] \in Int
      BY <1>0, <1>1, <2>2 DEF SeedRunBudget, TypeOK, Budgets
    <3>2. RootLeases(r) = {}
      BY <1>1, <2>2 DEF SeedRunBudget, RootLeases, TypeOK
    <3>3. HeldAtRoot(r, d) = 0
      BY <1>0, <3>2, HeldNothing DEF HeldAtRoot, TypeOK
    <3>4. rootSpent[r][d] = 0
      BY <1>0, <1>1, <2>2 DEF SeedRunBudget, Wellformed, UnusedRuns, Zero
    <3>5. QED
      BY <2>1, <3>1, <3>3, <3>4
  <2>3. CASE r # q
    <3>1. rootRemaining'[r] = rootRemaining[r] /\ ceiling'[r] = ceiling[r]
      BY <1>1, <2>3 DEF SeedRunBudget, TypeOK
    <3>2. d \in Constrained(r)
      BY <1>0, <3>1 DEF Constrained
    <3>3. QED
      BY <2>1, <3>1, <3>2 DEF RootConserved
  <2>4. QED
    BY <2>2, <2>3
<1>2. ASSUME NEW q \in Runs, NEW dims \in Requests, ReserveRoot(q, dims)
      PROVE  rootRemaining'[r][d] + HeldAtRoot(r, d)' + rootSpent'[r][d] = ceiling'[r][d]
  <2> DEFINE l == [run |-> q, parent |-> NoParent, reserved |-> dims]
  <2>1. l \in Leases /\ NewLease(l) /\ rootSpent' = rootSpent /\ ceiling' = ceiling
    BY <1>2 DEF ReserveRoot, NewLease, Leases, NoParent
  <2>2. HeldAtRoot(r, d)' = HeldAtRoot(r, d) + RootShare(l, r, d)
    <3> HIDE DEF l
    <3> QED
      BY <1>0, <2>1, IssueHoldings
  <2>3. dims[d] \in Int
    BY <1>0 DEF Budgets
  <2>4. rootRemaining'[r][d] = rootRemaining[r][d] - (IF r = q THEN dims[d] ELSE 0)
    BY <1>0, <1>2, <1>a, <1>b, <2>1, <2>3 DEF ReserveRoot, TypeOK
  <2>5. RootShare(l, r, d) = IF r = q THEN dims[d] ELSE 0
    BY DEF RootShare
  <2>6. QED
    BY <1>a, <1>b, <2>1, <2>2, <2>3, <2>4, <2>5
<1>3. ASSUME NEW p \in LeaseIds, NEW dims \in Requests, ReserveChild(p, dims)
      PROVE  rootRemaining'[r][d] + HeldAtRoot(r, d)' + rootSpent'[r][d] = ceiling'[r][d]
  <2> DEFINE l == [run |-> lease[p].run, parent |-> p, reserved |-> dims]
  <2>1. l \in Leases /\ NewLease(l)
    BY <1>3, LeaseFields DEF ReserveChild, Leases, LeaseIds
  <2>2. rootRemaining' = rootRemaining /\ rootSpent' = rootSpent /\ ceiling' = ceiling
    BY <1>3 DEF ReserveChild, NewLease
  <2>3. HeldAtRoot(r, d)' = HeldAtRoot(r, d) + RootShare(l, r, d)
    <3> HIDE DEF l
    <3> QED
      BY <1>0, <2>1, IssueHoldings
  <2>4. RootShare(l, r, d) = 0
    BY DEF RootShare, NoParent, LeaseIds
  <2>5. QED
    BY <1>a, <1>b, <2>2, <2>3, <2>4
<1>4. ASSUME NEW i \in LeaseIds, NEW actuals \in Costs, Commit(i, actuals)
      PROVE  rootRemaining'[r][d] + HeldAtRoot(r, d)' + rootSpent'[r][d] = ceiling'[r][d]
  <2> DEFINE l == lease[i]
             amount == Remainder(l.reserved, actuals)
  <2>1. /\ i \in live /\ live' = live \ {i} /\ lease' = lease /\ ceiling' = ceiling
        /\ Refund(i, amount)
    BY <1>4 DEF Commit
  <2>2. actuals[d] \in Int /\ l.reserved[d] \in Int /\ amount[d] = l.reserved[d] - actuals[d]
    BY <1>0, LeaseFields DEF Budgets, Remainder, Minus
  <2>3. amount \in [Dims -> Int]
    BY LeaseFields, ArithmeticType DEF Remainder
  <2> HIDE DEF amount
  <2>4. rootRemaining'[r][d] = rootRemaining[r][d] + RootPart(l, r, amount[d])
    BY <1>b, <2>1, <2>3, RefundMoves
  <2>5. HeldAtRoot(r, d)' = HeldAtRoot(r, d) - RootShare(l, r, d)
    BY <1>0, <2>1, SettleHoldings
  <2>6. rootSpent'[r][d] = rootSpent[r][d] + RootPart(l, r, actuals[d])
    BY <1>0, <1>4, CommitCharges
  <2>7. QED
    BY <1>a, <1>b, <2>1, <2>2, <2>4, <2>5, <2>6 DEF RootPart, RootShare
<1>5. ASSUME NEW i \in LeaseIds, Release(i)
      PROVE  rootRemaining'[r][d] + HeldAtRoot(r, d)' + rootSpent'[r][d] = ceiling'[r][d]
  <2> DEFINE l == lease[i]
  <2>1. /\ i \in live /\ live' = live \ {i} /\ lease' = lease /\ ceiling' = ceiling
        /\ rootSpent' = rootSpent /\ Refund(i, l.reserved)
    BY <1>5 DEF Release
  <2>2. l.reserved \in [Dims -> Int] /\ l.reserved[d] \in Int
    BY <1>0, LeaseFields, ArithmeticType
  <2>3. rootRemaining'[r][d] = rootRemaining[r][d] + RootPart(l, r, l.reserved[d])
    BY <1>b, <2>1, <2>2, RefundMoves
  <2>4. HeldAtRoot(r, d)' = HeldAtRoot(r, d) - RootShare(l, r, d)
    BY <1>0, <2>1, SettleHoldings
  <2>5. QED
    BY <1>a, <1>b, <2>1, <2>2, <2>3, <2>4 DEF RootPart, RootShare
<1>6. CASE UNCHANGED vars
  BY <1>6, <1>b DEF vars, HeldAtRoot, RootLeases
<1>7. QED
  BY <1>1, <1>2, <1>3, <1>4, <1>5, <1>6 DEF Next

LEMMA StepParentConserved ==
  TypeOK /\ TypeOK' /\ Wellformed /\ ParentConserved /\ [Next]_vars => ParentConserved'
<1> SUFFICES ASSUME TypeOK, TypeOK', Wellformed, ParentConserved, [Next]_vars,
                    NEW p \in (1..nextId)', NEW d \in Dims
             PROVE  parentRemaining'[p][d] + HeldUnder(p, d)' + childSpent'[p][d]
                      = lease'[p].reserved[d]
  BY DEF ParentConserved
<1>0. p \in LeaseIds
  BY DEF TypeOK, LeaseIds
<1>a. /\ parentRemaining[p][d] \in Int /\ HeldUnder(p, d) \in Int
      /\ childSpent[p][d] \in Int /\ lease[p].reserved[d] \in Int
  BY <1>0, NumberTypes
<1>b. p \in 1..nextId =>
        parentRemaining[p][d] + HeldUnder(p, d) + childSpent[p][d] = lease[p].reserved[d]
  BY DEF ParentConserved
<1>1. ASSUME NEW q \in Runs, NEW dims \in Ceilings, SeedRunBudget(q, dims)
      PROVE  parentRemaining'[p][d] + HeldUnder(p, d)' + childSpent'[p][d] = lease'[p].reserved[d]
  BY <1>1, <1>b DEF SeedRunBudget, HeldUnder, Children
\* a lease just issued has no children: those that exist are older
<1>2. ASSUME NEW l \in Leases, NewLease(l), l.parent <= nextId, p = nextId + 1,
             parentRemaining'[p] = l.reserved
      PROVE  parentRemaining'[p][d] + HeldUnder(p, d)' + childSpent'[p][d] = lease'[p].reserved[d]
  <2>1. lease'[p] = l /\ childSpent' = childSpent /\ nextId \in Nat /\ l.reserved[d] \in Int
    BY <1>2, <1>0 DEF NewLease, TypeOK, Leases, Budgets
  <2>2. childSpent[p][d] = 0
    BY <1>0, <1>2, <2>1 DEF Wellformed, FreshAccounts, Zero
  <2>3. Children(p) = {}
    <3>1. ASSUME NEW i \in live
          PROVE  lease[i].parent # p
      <4>1. i \in 1..nextId /\ i \in LeaseIds
        BY DEF TypeOK, LeaseIds
      <4>2. lease[i].parent < i /\ lease[i].parent \in 0..MaxLeases
        BY <4>1, LeaseFields DEF Wellformed, ParentOlder
      <4>3. QED
        BY <1>2, <2>1, <4>1, <4>2
    <3>2. QED
      BY <3>1 DEF Children
  <2>4. HeldUnder(p, d) = 0
    BY <2>3, HeldNothing DEF HeldUnder, TypeOK
  <2>5. HeldUnder(p, d)' = HeldUnder(p, d) + ParentShare(l, p, d)
    BY <1>0, <1>2, IssueHoldings
  <2>6. l.parent # p
    BY <1>2, <2>1 DEF Leases
  <2>7. QED
    BY <1>2, <2>1, <2>2, <2>4, <2>5, <2>6 DEF ParentShare
<1>3. ASSUME NEW q \in Runs, NEW dims \in Requests, ReserveRoot(q, dims)
      PROVE  parentRemaining'[p][d] + HeldUnder(p, d)' + childSpent'[p][d] = lease'[p].reserved[d]
  <2> DEFINE l == [run |-> q, parent |-> NoParent, reserved |-> dims]
  <2>1. /\ l \in Leases /\ NewLease(l) /\ l.parent = NoParent /\ l.reserved = dims
        /\ parentRemaining' = [parentRemaining EXCEPT ![nextId + 1] = dims]
    BY <1>3 DEF ReserveRoot, Leases, NoParent
  <2> HIDE DEF l
  <2>2. /\ nextId' = nextId + 1 /\ nextId \in Nat /\ nextId + 1 \in LeaseIds
        /\ childSpent' = childSpent /\ lease' = [lease EXCEPT ![nextId + 1] = l]
    BY <2>1 DEF NewLease, TypeOK, LeaseIds
  <2>3. CASE p = nextId + 1
    <3>1. parentRemaining'[p] = l.reserved
      BY <2>1, <2>2, <2>3 DEF TypeOK
    <3>2. l.parent <= nextId
      BY <2>1, <2>2 DEF NoParent
    <3>3. QED
      BY <1>2, <2>1, <2>3, <3>1, <3>2
  <2>4. CASE p # nextId + 1
    <3>1. p \in 1..nextId /\ parentRemaining'[p] = parentRemaining[p] /\ lease'[p] = lease[p]
      BY <2>1, <2>2, <2>4, <1>0 DEF TypeOK
    <3>2. HeldUnder(p, d)' = HeldUnder(p, d) + ParentShare(l, p, d)
      BY <1>0, <2>1, IssueHoldings
    <3>3. ParentShare(l, p, d) = 0
      BY <1>0, <2>1 DEF ParentShare, NoParent, LeaseIds
    <3>4. QED
      BY <1>a, <1>b, <2>2, <3>1, <3>2, <3>3
  <2>5. QED
    BY <2>3, <2>4
<1>4. ASSUME NEW q \in LeaseIds, NEW dims \in Requests, ReserveChild(q, dims)
      PROVE  parentRemaining'[p][d] + HeldUnder(p, d)' + childSpent'[p][d] = lease'[p].reserved[d]
  <2> DEFINE l == [run |-> lease[q].run, parent |-> q, reserved |-> dims]
  <2>1. /\ l \in Leases /\ NewLease(l) /\ l.parent = q /\ l.reserved = dims
        /\ q \in live /\ dims[d] \in Int
        /\ parentRemaining' = [parentRemaining EXCEPT
              ![q] = Minus(parentRemaining[q], dims), ![nextId + 1] = dims]
    BY <1>4, LeaseFields DEF ReserveChild, Leases, LeaseIds, Budgets
  <2> HIDE DEF l
  <2>2. /\ nextId' = nextId + 1 /\ nextId \in Nat /\ nextId + 1 \in LeaseIds
        /\ childSpent' = childSpent /\ lease' = [lease EXCEPT ![nextId + 1] = l]
        /\ q <= nextId
    BY <2>1 DEF NewLease, TypeOK, LeaseIds
  <2>3. CASE p = nextId + 1
    <3>1. parentRemaining'[p] = l.reserved
      BY <2>1, <2>2, <2>3 DEF TypeOK
    <3>2. QED
      BY <1>2, <2>1, <2>2, <2>3, <3>1
  <2>4. CASE p # nextId + 1
    <3>1. p \in 1..nextId /\ lease'[p] = lease[p]
      BY <2>1, <2>2, <2>4, <1>0 DEF TypeOK
    <3>2. HeldUnder(p, d)' = HeldUnder(p, d) + ParentShare(l, p, d)
      BY <1>0, <2>1, IssueHoldings
    <3>3. ParentShare(l, p, d) = IF p = q THEN dims[d] ELSE 0
      BY <2>1 DEF ParentShare
    <3>4. parentRemaining'[p][d] = parentRemaining[p][d] - (IF p = q THEN dims[d] ELSE 0)
      BY <1>0, <1>a, <2>1, <2>2, <2>4 DEF TypeOK, Minus
    <3>5. QED
      BY <1>a, <1>b, <2>1, <2>2, <3>1, <3>2, <3>3, <3>4
  <2>5. QED
    BY <2>3, <2>4
<1>5. ASSUME NEW i \in LeaseIds, NEW actuals \in Costs, Commit(i, actuals)
      PROVE  parentRemaining'[p][d] + HeldUnder(p, d)' + childSpent'[p][d] = lease'[p].reserved[d]
  <2> DEFINE l == lease[i]
             amount == Remainder(l.reserved, actuals)
  <2>1. /\ i \in live /\ live' = live \ {i} /\ lease' = lease /\ p \in 1..nextId
        /\ Refund(i, amount)
    BY <1>5 DEF Commit
  <2>2. actuals[d] \in Int /\ l.reserved[d] \in Int /\ amount[d] = l.reserved[d] - actuals[d]
    BY LeaseFields DEF Budgets, Remainder, Minus
  <2>3. amount \in [Dims -> Int]
    BY LeaseFields, ArithmeticType DEF Remainder
  <2> HIDE DEF amount
  <2>4. parentRemaining'[p][d] = parentRemaining[p][d] + ParentPart(l, p, amount[d])
    BY <1>0, <2>1, <2>3, RefundMoves
  <2>5. HeldUnder(p, d)' = HeldUnder(p, d) - ParentShare(l, p, d)
    BY <1>0, <2>1, SettleHoldings
  <2>6. childSpent'[p][d] = childSpent[p][d] + ParentPart(l, p, actuals[d])
    BY <1>0, <1>5, CommitCharges
  <2>7. QED
    BY <1>a, <1>b, <2>1, <2>2, <2>4, <2>5, <2>6 DEF ParentPart, ParentShare
<1>6. ASSUME NEW i \in LeaseIds, Release(i)
      PROVE  parentRemaining'[p][d] + HeldUnder(p, d)' + childSpent'[p][d] = lease'[p].reserved[d]
  <2> DEFINE l == lease[i]
  <2>1. /\ i \in live /\ live' = live \ {i} /\ lease' = lease /\ p \in 1..nextId
        /\ childSpent' = childSpent /\ Refund(i, l.reserved)
    BY <1>6 DEF Release
  <2>2. l.reserved \in [Dims -> Int] /\ l.reserved[d] \in Int
    BY LeaseFields, ArithmeticType
  <2>3. parentRemaining'[p][d] = parentRemaining[p][d] + ParentPart(l, p, l.reserved[d])
    BY <1>0, <2>1, <2>2, RefundMoves
  <2>4. HeldUnder(p, d)' = HeldUnder(p, d) - ParentShare(l, p, d)
    BY <1>0, <2>1, SettleHoldings
  <2>5. QED
    BY <1>a, <1>b, <2>1, <2>2, <2>3, <2>4 DEF ParentPart, ParentShare
<1>7. CASE UNCHANGED vars
  BY <1>7, <1>b DEF vars, HeldUnder, Children
<1>8. QED
  BY <1>1, <1>3, <1>4, <1>5, <1>6, <1>7 DEF Next

-----------------------------------------------------------------------------
(* Solvency *)

\* an overrun is on record for good, and the lease it names does not change
LEMMA OverranStays ==
  ASSUME TypeOK, [Next]_vars, NEW r, NEW p, NEW d
  PROVE  /\ RootOverran(r, d) => RootOverran(r, d)'
         /\ ParentOverran(p, d) => ParentOverran(p, d)'
<1>1. ASSUME NEW o \in overruns
      PROVE  o \in overruns' /\ lease'[o.lease] = lease[o.lease]
  <2>1. o.lease \in 1..nextId /\ nextId \in Nat
    BY DEF TypeOK
  <2>2. CASE lease' = lease /\ overruns \subseteq overruns'
    BY <2>2
  <2>3. ASSUME NEW l, NewLease(l)
        PROVE  o \in overruns' /\ lease'[o.lease] = lease[o.lease]
    BY <2>1, <2>3 DEF NewLease, TypeOK
  <2>4. QED
    BY <2>2, <2>3 DEF Next, SeedRunBudget, ReserveRoot, ReserveChild, Commit, Release, NewLease, vars
<1>2. QED
  BY <1>1 DEF RootOverran, ParentOverran

LEMMA StepRootSolvent == TypeOK /\ TypeOK' /\ RootSolvent /\ [Next]_vars => RootSolvent'
<1> SUFFICES ASSUME TypeOK, TypeOK', RootSolvent, [Next]_vars,
                    NEW r \in Runs, NEW d \in Constrained(r)', ~RootOverran(r, d)'
             PROVE  rootRemaining'[r][d] >= 0
  BY DEF RootSolvent
<1>0. d \in Dims /\ rootRemaining[r][d] \in Int
  BY DEF Constrained, TypeOK
<1>a. ceiling' = ceiling => d \in Constrained(r) /\ rootRemaining[r][d] >= 0
  <2>1. ~RootOverran(r, d)
    BY OverranStays
  <2>2. QED
    BY <2>1 DEF RootSolvent, Constrained
<1>1. ASSUME NEW q \in Runs, NEW dims \in Ceilings, SeedRunBudget(q, dims)
      PROVE  rootRemaining'[r][d] >= 0
  <2>1. CASE r = q
    BY <1>0, <1>1, <2>1 DEF SeedRunBudget, TypeOK, Budgets
  <2>2. CASE r # q
    <3>1. rootRemaining'[r] = rootRemaining[r] /\ d \in Constrained(r)
      BY <1>0, <1>1, <2>2 DEF SeedRunBudget, TypeOK, Constrained
    <3>2. QED
      BY <3>1, OverranStays DEF RootSolvent
  <2>3. QED
    BY <2>1, <2>2
<1>2. ASSUME NEW q \in Runs, NEW dims \in Requests, ReserveRoot(q, dims)
      PROVE  rootRemaining'[r][d] >= 0
  <2>1. d \in Constrained(r) /\ rootRemaining[r][d] >= 0 /\ dims[d] \in Int
    BY <1>0, <1>2, <1>a DEF ReserveRoot, NewLease, Budgets
  <2>2. CASE r = q
    <3>1. dims[d] <= rootRemaining[r][d]
      BY <1>2, <2>1, <2>2 DEF ReserveRoot, RootCanFund
    <3>2. rootRemaining'[r][d] = rootRemaining[r][d] - dims[d]
      BY <1>0, <1>2, <2>1, <2>2 DEF ReserveRoot, TypeOK
    <3>3. QED
      BY <1>0, <2>1, <3>1, <3>2
  <2>3. CASE r # q
    BY <1>2, <2>1, <2>3 DEF ReserveRoot, TypeOK
  <2>4. QED
    BY <2>2, <2>3
<1>3. ASSUME NEW p \in LeaseIds, NEW dims \in Requests, ReserveChild(p, dims)
      PROVE  rootRemaining'[r][d] >= 0
  BY <1>3, <1>a DEF ReserveChild, NewLease
<1>4. ASSUME NEW i \in LeaseIds, NEW actuals \in Costs, Commit(i, actuals)
      PROVE  rootRemaining'[r][d] >= 0
  <2> DEFINE l == lease[i]
             amount == Remainder(l.reserved, actuals)
  <2>1. Refund(i, amount) /\ lease' = lease /\ ceiling' = ceiling
    BY <1>4 DEF Commit
  <2>2. actuals[d] \in Int /\ l.reserved[d] \in Int /\ amount[d] = l.reserved[d] - actuals[d]
    BY <1>0, LeaseFields DEF Budgets, Remainder, Minus
  <2>3. amount \in [Dims -> Int]
    BY LeaseFields, ArithmeticType DEF Remainder
  <2>4. l.parent = NoParent /\ l.run = r => actuals[d] <= l.reserved[d]
    <3>1. SUFFICES ASSUME l.parent = NoParent, l.run = r, actuals[d] > l.reserved[d]
                   PROVE  FALSE
      BY <2>2
    <3>2. [lease |-> i, actual |-> actuals] \in overruns'
      BY <1>0, <1>4, <3>1 DEF Commit, Exceeds
    <3>3. RootOverran(r, d)'
      BY <2>1, <3>1, <3>2 DEF RootOverran
    <3>4. QED
      BY <3>3
  <2> HIDE DEF amount
  <2>5. rootRemaining'[r][d] = rootRemaining[r][d] + RootPart(l, r, amount[d])
    BY <1>a, <2>1, <2>3, RefundMoves
  <2>6. QED
    BY <1>0, <1>a, <2>1, <2>2, <2>4, <2>5 DEF RootPart
<1>5. ASSUME NEW i \in LeaseIds, Release(i)
      PROVE  rootRemaining'[r][d] >= 0
  <2> DEFINE l == lease[i]
  <2>1. Refund(i, l.reserved) /\ ceiling' = ceiling
    BY <1>5 DEF Release
  <2>2. l.reserved \in [Dims -> Int] /\ l.reserved[d] \in Nat
    BY <1>0, LeaseFields, ArithmeticType
  <2>3. rootRemaining'[r][d] = rootRemaining[r][d] + RootPart(l, r, l.reserved[d])
    BY <1>a, <2>1, <2>2, RefundMoves
  <2>4. QED
    BY <1>0, <1>a, <2>1, <2>2, <2>3 DEF RootPart
<1>6. CASE UNCHANGED vars
  BY <1>6, <1>a DEF vars
<1>7. QED
  BY <1>1, <1>2, <1>3, <1>4, <1>5, <1>6 DEF Next

LEMMA StepParentSolvent == TypeOK /\ TypeOK' /\ ParentSolvent /\ [Next]_vars => ParentSolvent'
<1> SUFFICES ASSUME TypeOK, TypeOK', ParentSolvent, [Next]_vars,
                    NEW p \in (1..nextId)', NEW d \in Dims, ~ParentOverran(p, d)'
             PROVE  parentRemaining'[p][d] >= 0
  BY DEF ParentSolvent
<1>0. p \in LeaseIds /\ parentRemaining[p][d] \in Int
  BY DEF TypeOK, LeaseIds
<1>a. p \in 1..nextId => parentRemaining[p][d] >= 0
  <2>1. ~ParentOverran(p, d)
    BY OverranStays
  <2>2. QED
    BY <2>1 DEF ParentSolvent
<1>1. ASSUME NEW q \in Runs, NEW dims \in Ceilings, SeedRunBudget(q, dims)
      PROVE  parentRemaining'[p][d] >= 0
  BY <1>1, <1>a DEF SeedRunBudget
<1>2. ASSUME NEW q \in Runs, NEW dims \in Requests, ReserveRoot(q, dims)
      PROVE  parentRemaining'[p][d] >= 0
  <2>1. nextId' = nextId + 1 /\ nextId \in Nat /\ dims[d] \in Nat
    BY <1>2 DEF ReserveRoot, NewLease, TypeOK, Budgets
  <2>2. parentRemaining' = [parentRemaining EXCEPT ![nextId + 1] = dims]
    BY <1>2 DEF ReserveRoot
  <2>3. QED
    BY <1>0, <1>a, <2>1, <2>2 DEF TypeOK
<1>3. ASSUME NEW q \in LeaseIds, NEW dims \in Requests, ReserveChild(q, dims)
      PROVE  parentRemaining'[p][d] >= 0
  <2>1. nextId' = nextId + 1 /\ nextId \in Nat /\ dims[d] \in Nat
    BY <1>3 DEF ReserveChild, NewLease, TypeOK, Budgets
  <2>2. parentRemaining' = [parentRemaining EXCEPT
          ![q] = Minus(parentRemaining[q], dims), ![nextId + 1] = dims]
    BY <1>3 DEF ReserveChild
  <2>3. dims[d] <= parentRemaining[q][d] /\ parentRemaining[q][d] \in Int
    BY <1>3, <2>1 DEF ReserveChild, Exceeds, TypeOK
  <2>4. Minus(parentRemaining[q], dims)[d] >= 0
    BY <2>1, <2>3 DEF Minus
  <2>5. CASE p = nextId + 1
    BY <1>0, <2>1, <2>2, <2>5 DEF TypeOK
  <2>6. CASE p # nextId + 1
    BY <1>0, <1>a, <2>1, <2>2, <2>4, <2>6 DEF TypeOK
  <2>7. QED
    BY <2>5, <2>6
<1>4. ASSUME NEW i \in LeaseIds, NEW actuals \in Costs, Commit(i, actuals)
      PROVE  parentRemaining'[p][d] >= 0
  <2> DEFINE l == lease[i]
             amount == Remainder(l.reserved, actuals)
  <2>1. Refund(i, amount) /\ lease' = lease /\ p \in 1..nextId
    BY <1>4 DEF Commit
  <2>2. actuals[d] \in Int /\ l.reserved[d] \in Int /\ amount[d] = l.reserved[d] - actuals[d]
    BY LeaseFields DEF Budgets, Remainder, Minus
  <2>3. amount \in [Dims -> Int]
    BY LeaseFields, ArithmeticType DEF Remainder
  <2>4. l.parent = p => actuals[d] <= l.reserved[d]
    <3>1. SUFFICES ASSUME l.parent = p, actuals[d] > l.reserved[d]
                   PROVE  FALSE
      BY <2>2
    <3>2. [lease |-> i, actual |-> actuals] \in overruns'
      BY <1>4, <3>1 DEF Commit, Exceeds
    <3>3. ParentOverran(p, d)'
      BY <2>1, <3>1, <3>2 DEF ParentOverran
    <3>4. QED
      BY <3>3
  <2> HIDE DEF amount
  <2>5. parentRemaining'[p][d] = parentRemaining[p][d] + ParentPart(l, p, amount[d])
    BY <1>0, <2>1, <2>3, RefundMoves
  <2>6. QED
    BY <1>0, <1>a, <2>1, <2>2, <2>4, <2>5 DEF ParentPart
<1>5. ASSUME NEW i \in LeaseIds, Release(i)
      PROVE  parentRemaining'[p][d] >= 0
  <2> DEFINE l == lease[i]
  <2>1. Refund(i, l.reserved) /\ p \in 1..nextId
    BY <1>5 DEF Release
  <2>2. l.reserved \in [Dims -> Int] /\ l.reserved[d] \in Nat
    BY LeaseFields, ArithmeticType
  <2>3. parentRemaining'[p][d] = parentRemaining[p][d] + ParentPart(l, p, l.reserved[d])
    BY <1>0, <2>1, <2>2, RefundMoves
  <2>4. QED
    BY <1>0, <1>a, <2>1, <2>2, <2>3 DEF ParentPart
<1>6. CASE UNCHANGED vars
  BY <1>6, <1>a DEF vars
<1>7. QED
  BY <1>1, <1>2, <1>3, <1>4, <1>5, <1>6 DEF Next

-----------------------------------------------------------------------------
(* The theorems *)

IInv ==
  /\ TypeOK
  /\ Wellformed
  /\ RootConserved
  /\ ParentConserved
  /\ RootSolvent
  /\ ParentSolvent

LEMMA InitInv == Init => IInv
<1> SUFFICES ASSUME Init
             PROVE  IInv
  OBVIOUS
<1>1. TypeOK
  BY InitType
<1>2. \A r \in Runs : Constrained(r) = {}
  BY DEF Init, Constrained, Zero
<1>3. 1..nextId = {}
  BY DEF Init
<1>4. RootConserved /\ RootSolvent
  BY <1>2 DEF RootConserved, RootSolvent
<1>5. ParentConserved /\ ParentSolvent
  BY <1>3 DEF ParentConserved, ParentSolvent
<1>6. Wellformed
  BY <1>3 DEF Init, Wellformed, ParentOlder, FreshAccounts, UnusedRuns
<1>7. QED
  BY <1>1, <1>4, <1>5, <1>6 DEF IInv

LEMMA StepInv == IInv /\ [Next]_vars => IInv'
<1> SUFFICES ASSUME IInv, [Next]_vars
             PROVE  IInv'
  OBVIOUS
<1>1. TypeOK /\ TypeOK'
  BY StepType DEF IInv
<1>2. QED
  BY <1>1, StepWellformed, StepRootConserved, StepParentConserved,
     StepRootSolvent, StepParentSolvent DEF IInv

\* The inductive invariant of the ledger.
THEOREM LedgerInvariant == Spec => []IInv
BY InitInv, StepInv, PTL DEF Spec

\* What is left of a ceiling, what live root leases hold of it and what root
\* leases committed always add up to the ceiling, in the dimensions it names
\* (governor.py:107-121 against 166-195).
THEOREM RootConservation == Spec => []RootConserved
<1>1. IInv => RootConserved
  BY DEF IInv
<1>2. QED
  BY <1>1, LedgerInvariant, PTL

\* The reservation of a lease is conserved among its children in every
\* dimension (governor.py:97-106 against 183-187).
THEOREM ParentConservation == Spec => []ParentConserved
<1>1. IInv => ParentConserved
  BY DEF IInv
<1>2. QED
  BY <1>1, LedgerInvariant, PTL

\* Both ledgers are exact at once (governor.py:166-195).
THEOREM Conservation == Spec => []Conserved
BY RootConservation, ParentConservation, PTL DEF Conserved

\* Without an overrun in a dimension, what root leases hold and have committed
\* stays within the ceiling (governor.py:76-91, 107-121).
THEOREM CeilingHolds == Spec => []WithinCeiling
<1>1. IInv => WithinCeiling
  <2> SUFFICES ASSUME IInv, NEW r \in Runs, NEW d \in Constrained(r), ~RootOverran(r, d)
               PROVE  HeldAtRoot(r, d) + rootSpent[r][d] <= ceiling[r][d]
    BY DEF WithinCeiling
  <2>1. d \in Dims
    BY DEF Constrained
  <2>2. /\ rootRemaining[r][d] \in Int /\ HeldAtRoot(r, d) \in Int
        /\ rootSpent[r][d] \in Int /\ ceiling[r][d] \in Int
    BY <2>1, NumberTypes DEF IInv
  <2>3. rootRemaining[r][d] + HeldAtRoot(r, d) + rootSpent[r][d] = ceiling[r][d]
    BY DEF IInv, RootConserved
  <2>4. rootRemaining[r][d] >= 0
    BY DEF IInv, RootSolvent
  <2>5. QED
    BY <2>2, <2>3, <2>4
<1>2. QED
  BY <1>1, LedgerInvariant, PTL

\* Without an overrun in a dimension, the children of a lease stay within its
\* reservation (governor.py:61-62, 97-106).
THEOREM ParentBoundHolds == Spec => []WithinParent
<1>1. IInv => WithinParent
  <2> SUFFICES ASSUME IInv, NEW p \in 1..nextId, NEW d \in Dims, ~ParentOverran(p, d)
               PROVE  HeldUnder(p, d) + childSpent[p][d] <= lease[p].reserved[d]
    BY DEF WithinParent
  <2>1. p \in LeaseIds
    BY DEF IInv, TypeOK, LeaseIds
  <2>2. /\ parentRemaining[p][d] \in Int /\ HeldUnder(p, d) \in Int
        /\ childSpent[p][d] \in Int /\ lease[p].reserved[d] \in Int
    BY <2>1, NumberTypes DEF IInv
  <2>3. parentRemaining[p][d] + HeldUnder(p, d) + childSpent[p][d] = lease[p].reserved[d]
    BY DEF IInv, ParentConserved
  <2>4. parentRemaining[p][d] >= 0
    BY DEF IInv, ParentSolvent
  <2>5. QED
    BY <2>2, <2>3, <2>4
<1>2. QED
  BY <1>1, LedgerInvariant, PTL

\* Without an overrun, every grant is funded by what is above it (governor.py:76-121).
THEOREM GrantsAreFunded == Spec => []Funded
BY CeilingHolds, ParentBoundHolds, PTL DEF Funded

\* Reserving, committing, overrunning or releasing a child lease never moves the
\* pool of the run (governor.py:10-12, 97-106, 183-187).
THEOREM PoolIsolation == Spec => ChildrenStayOffThePool
<1> DEFINE Isolated == \A i \in LeaseIds :
      (i \in live) # (i \in live') /\ lease'[i].parent # NoParent
        => rootRemaining' = rootRemaining
<1>1. ASSUME TypeOK, TypeOK', [Next]_vars
      PROVE  [Isolated]_vars
  <2>1. ASSUME NEW r \in Runs, NEW dims \in Ceilings, SeedRunBudget(r, dims)
        PROVE  Isolated
    BY <2>1 DEF SeedRunBudget
  <2>2. ASSUME NEW r \in Runs, NEW dims \in Requests, ReserveRoot(r, dims)
        PROVE  Isolated
    <3>1. /\ live' = live \cup {nextId + 1} /\ nextId + 1 \in LeaseIds
          /\ lease' = [lease EXCEPT ![nextId + 1] =
               [run |-> r, parent |-> NoParent, reserved |-> dims]]
      BY <1>1, <2>2 DEF ReserveRoot, NewLease, TypeOK, LeaseIds
    <3>2. lease'[nextId + 1].parent = NoParent
      BY <1>1, <3>1 DEF TypeOK
    <3>3. QED
      BY <3>1, <3>2
  <2>3. ASSUME NEW p \in LeaseIds, NEW dims \in Requests, ReserveChild(p, dims)
        PROVE  Isolated
    BY <2>3 DEF ReserveChild
  <2>4. ASSUME NEW i \in LeaseIds, lease' = lease, live' = live \ {i},
               NEW amount, Refund(i, amount)
        PROVE  Isolated
    BY <2>4 DEF Refund
  <2>5. ASSUME NEW i \in LeaseIds, NEW actuals \in Costs, Commit(i, actuals)
        PROVE  Isolated
    BY <2>4, <2>5 DEF Commit
  <2>6. ASSUME NEW i \in LeaseIds, Release(i)
        PROVE  Isolated
    BY <2>4, <2>6 DEF Release
  <2> HIDE DEF Isolated
  <2>7. QED
    BY <1>1, <2>1, <2>2, <2>3, <2>5, <2>6 DEF Next
<1>2. TypeOK /\ TypeOK' /\ [Next]_vars => [Isolated]_vars
  BY <1>1
<1>3. QED
  BY <1>2, TypeCorrect, PTL DEF Spec, ChildrenStayOffThePool

=============================================================================
