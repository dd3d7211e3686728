------------------------------ MODULE Governor ------------------------------
(***************************************************************************)
(* The resource governor of the aether engine: a reserve / commit /        *)
(* release ledger of integer budgets (src/src/aether/kernel/governor.py).  *)
(*                                                                         *)
(* Every operation of the code runs under one asyncio.Lock and awaits      *)
(* nothing while it holds it, so each is one atomic action here; any       *)
(* interleaving of callers is a sequence of these actions.  A refused      *)
(* reservation, and a commit or release of a lease that is no longer live, *)
(* change nothing in the code and are stuttering steps.                    *)
(***************************************************************************)
EXTENDS Sums

CONSTANTS
  Runs,       \* run ids
  Dims,       \* budget dimensions: usd_micros, wall_clock_ms, ...
  MaxLeases,  \* bound: leases issued in a behaviour
  Ceilings,   \* budgets a run may be seeded with
  Requests,   \* budgets a caller may ask for
  Costs       \* actuals an effect may report

Budgets == [Dims -> Nat]

ASSUME GovernorAssumption ==
  /\ Runs # {}
  /\ MaxLeases \in Nat
  /\ Ceilings \subseteq Budgets
  /\ Requests \subseteq Budgets
  /\ Costs \subseteq Budgets

LeaseIds == 1..MaxLeases
NoParent == 0
Leases == [run : Runs, parent : 0..MaxLeases, reserved : Budgets]

VARIABLES
  ceiling,          \* the dims a run was seeded with; all zero when it was not
  rootRemaining,    \* _run_root_remaining
  parentRemaining,  \* _parent_remaining
  lease,            \* every lease ever issued, by id
  live,             \* the ids of _leases: issued and not yet settled
  nextId,           \* _next_id
  spent,            \* _spent
  overruns,         \* _overruns: the leases overrun, with their actuals
  rootSpent,        \* history: the part of spent that root leases committed
  childSpent        \* history: what the children of a lease committed

vars == <<ceiling, rootRemaining, parentRemaining, lease, live, nextId,
          spent, overruns, rootSpent, childSpent>>

Zero == [d \in Dims |-> 0]
Plus(a, b) == [d \in Dims |-> a[d] + b[d]]
Minus(a, b) == [d \in Dims |-> a[d] - b[d]]
Exceeds(actual, reserved) == \E d \in Dims : actual[d] > reserved[d]

-----------------------------------------------------------------------------
\* _run_constrained: a ceiling constrains only the dimensions it names.
Constrained(r) == {d \in Dims : ceiling[r][d] > 0}

\* seed_run_budget.  The engine seeds a run before it executes anything.
SeedRunBudget(r, dims) ==
  /\ \A i \in 1..nextId : lease[i].run # r
  /\ ceiling' = [ceiling EXCEPT ![r] = dims]
  /\ rootRemaining' = [rootRemaining EXCEPT ![r] = dims]
  /\ UNCHANGED <<parentRemaining, lease, live, nextId, spent, overruns,
                 rootSpent, childSpent>>

\* an id handed out a second time, because the counter was not advanced
BugNewLease(l) ==
  /\ nextId < MaxLeases
  /\ lease' = [lease EXCEPT ![nextId + 1] = l]
  /\ live' = live \cup {nextId + 1}
  /\ UNCHANGED <<nextId, ceiling, spent, overruns, rootSpent, childSpent>>

\* Issuing a lease opens an account for its children, which holds all of it:
\* _parent_remaining.get(parent, parent_lease.reserved).
NewLease(l) ==
  /\ nextId < MaxLeases
  /\ nextId' = nextId + 1
  /\ lease' = [lease EXCEPT ![nextId + 1] = l]
  /\ live' = live \cup {nextId + 1}
  /\ UNCHANGED <<ceiling, spent, overruns, rootSpent, childSpent>>

\* a check against the ceiling instead of what is left of it
BugRootCanFund(r, dims) ==
  \A d \in Constrained(r) : dims[d] <= ceiling[r][d]

RootCanFund(r, dims) ==
  \A d \in Constrained(r) : dims[d] <= rootRemaining[r][d]

ReserveRoot(r, dims) ==
  /\ RootCanFund(r, dims)
  /\ NewLease([run |-> r, parent |-> NoParent, reserved |-> dims])
  /\ rootRemaining' = [rootRemaining EXCEPT ![r] =
       [d \in Dims |-> IF d \in Constrained(r) THEN @[d] - dims[d] ELSE @[d]]]
  /\ parentRemaining' = [parentRemaining EXCEPT ![nextId + 1] = dims]

\* a check against the reservation of the parent instead of what is left of it
BugReserveChild(p, dims) ==
  /\ p \in live
  /\ ~Exceeds(dims, lease[p].reserved)
  /\ NewLease([run |-> lease[p].run, parent |-> p, reserved |-> dims])
  /\ parentRemaining' = [parentRemaining EXCEPT
       ![p] = Minus(@, dims), ![nextId + 1] = dims]
  /\ UNCHANGED rootRemaining

\* The executor passes the run of the parent for its child leases.
ReserveChild(p, dims) ==
  /\ p \in live
  /\ ~Exceeds(dims, parentRemaining[p])
  /\ NewLease([run |-> lease[p].run, parent |-> p, reserved |-> dims])
  /\ parentRemaining' = [parentRemaining EXCEPT
       ![p] = Minus(@, dims), ![nextId + 1] = dims]
  /\ UNCHANGED rootRemaining

\* _refund to the pool of the run, as the children of a lease must never do
BugRefund(i, amount) ==
  LET r == lease[i].run IN
  /\ rootRemaining' = [rootRemaining EXCEPT ![r] =
       [d \in Dims |-> IF d \in Constrained(r) THEN @[d] + amount[d] ELSE @[d]]]
  /\ UNCHANGED parentRemaining

\* _refund: to the parent of a child lease, dead or alive, else to the run.
Refund(i, amount) ==
  LET r == lease[i].run
      p == lease[i].parent
  IN
  \/ /\ p # NoParent
     /\ parentRemaining' = [parentRemaining EXCEPT ![p] = Plus(@, amount)]
     /\ UNCHANGED rootRemaining
  \/ /\ p = NoParent
     /\ rootRemaining' = [rootRemaining EXCEPT ![r] =
          [d \in Dims |-> IF d \in Constrained(r) THEN @[d] + amount[d] ELSE @[d]]]
     /\ UNCHANGED parentRemaining

\* the clamp of the refund that the code had before it debited overruns
BugRemainder(reserved, actuals) ==
  IF Exceeds(actuals, reserved) THEN Zero ELSE Minus(reserved, actuals)

\* what a commit gives back: negative where the lease was overrun
Remainder(reserved, actuals) == Minus(reserved, actuals)

Commit(i, actuals) ==
  LET l == lease[i] IN
  /\ i \in live
  /\ live' = live \ {i}
  /\ overruns' = IF Exceeds(actuals, l.reserved)
                 THEN overruns \cup {[lease |-> i, actual |-> actuals]}
                 ELSE overruns
  /\ spent' = [spent EXCEPT ![l.run] = Plus(@, actuals)]
  /\ \/ /\ l.parent = NoParent
        /\ rootSpent' = [rootSpent EXCEPT ![l.run] = Plus(@, actuals)]
        /\ UNCHANGED childSpent
     \/ /\ l.parent # NoParent
        /\ childSpent' = [childSpent EXCEPT ![l.parent] = Plus(@, actuals)]
        /\ UNCHANGED rootSpent
  /\ Refund(i, Remainder(l.reserved, actuals))
  /\ UNCHANGED <<ceiling, lease, nextId>>

\* a release that forgets to pop the lease: a second release refunds it again
BugRelease(i) ==
  /\ i \in 1..nextId
  /\ live' = live \ {i}
  /\ Refund(i, lease[i].reserved)
  /\ UNCHANGED <<ceiling, lease, nextId, spent, overruns, rootSpent, childSpent>>

Release(i) ==
  /\ i \in live
  /\ live' = live \ {i}
  /\ Refund(i, lease[i].reserved)
  /\ UNCHANGED <<ceiling, lease, nextId, spent, overruns, rootSpent, childSpent>>

-----------------------------------------------------------------------------
Init ==
  /\ ceiling = [r \in Runs |-> Zero]
  /\ rootRemaining = [r \in Runs |-> Zero]
  /\ parentRemaining = [i \in LeaseIds |-> Zero]
  /\ lease = [i \in LeaseIds |->
       [run |-> CHOOSE r \in Runs : TRUE, parent |-> NoParent, reserved |-> Zero]]
  /\ live = {}
  /\ nextId = 0
  /\ spent = [r \in Runs |-> Zero]
  /\ overruns = {}
  /\ rootSpent = [r \in Runs |-> Zero]
  /\ childSpent = [i \in LeaseIds |-> Zero]

Next ==
  \/ \E r \in Runs, dims \in Ceilings : SeedRunBudget(r, dims)
  \/ \E r \in Runs, dims \in Requests : ReserveRoot(r, dims)
  \/ \E p \in LeaseIds, dims \in Requests : ReserveChild(p, dims)
  \/ \E i \in LeaseIds, actuals \in Costs : Commit(i, actuals)
  \/ \E i \in LeaseIds : Release(i)

Spec == Init /\ [][Next]_vars

-----------------------------------------------------------------------------
(* Properties *)

\* The shape of the ledger: balances may be negative, what was spent may not.
TypeOK ==
  /\ ceiling \in [Runs -> Budgets]
  /\ rootRemaining \in [Runs -> [Dims -> Int]]
  /\ parentRemaining \in [LeaseIds -> [Dims -> Int]]
  /\ lease \in [LeaseIds -> Leases]
  /\ nextId \in 0..MaxLeases
  /\ live \subseteq 1..nextId
  /\ overruns \subseteq [lease : 1..nextId, actual : Budgets]
  /\ spent \in [Runs -> Budgets]
  /\ rootSpent \in [Runs -> Budgets]
  /\ childSpent \in [LeaseIds -> Budgets]

\* what the leases S, of the lease records L, hold of dimension d
Held(L, S, d) ==
  SumTo([i \in LeaseIds |-> IF i \in S THEN L[i].reserved[d] ELSE 0], MaxLeases)

RootLeases(r) == {i \in live : lease[i].parent = NoParent /\ lease[i].run = r}
Children(p) == {i \in live : lease[i].parent = p}

HeldAtRoot(r, d) == Held(lease, RootLeases(r), d)
HeldUnder(p, d) == Held(lease, Children(p), d)

\* The ceiling of a run is conserved: what remains, what the live root leases
\* hold and what root leases committed always add up to what was seeded, in
\* every dimension the ceiling names and whatever the order in which leases
\* are reserved, committed, overrun, released and settled twice
\* (governor.py:107-121 against 166-195).
RootConserved ==
  \A r \in Runs : \A d \in Constrained(r) :
    rootRemaining[r][d] + HeldAtRoot(r, d) + rootSpent[r][d] = ceiling[r][d]

\* The reservation of a lease is conserved in the same way among its children,
\* in every dimension, also after the lease itself was settled
\* (governor.py:97-106 against 183-187).
ParentConserved ==
  \A p \in 1..nextId, d \in Dims :
    parentRemaining[p][d] + HeldUnder(p, d) + childSpent[p][d] = lease[p].reserved[d]

\* Both ledgers, the run's and each lease's, are exact at once: no settlement moves money
\* between them or loses any (governor.py:166-195).
Conserved == RootConserved /\ ParentConserved

\* a lease drawn on the pool of r, or on p, was overrun in dimension d
RootOverran(r, d) ==
  \E o \in overruns : LET l == lease[o.lease] IN
    l.parent = NoParent /\ l.run = r /\ o.actual[d] > l.reserved[d]

ParentOverran(p, d) ==
  \E o \in overruns : LET l == lease[o.lease] IN
    l.parent = p /\ o.actual[d] > l.reserved[d]

\* Without an overrun nobody can use more than was granted: the live root leases
\* and the root commits of a run stay within its ceiling, and the children of a
\* lease stay within its reservation (the hard ceiling of seed_run_budget,
\* governor.py:77, and the fan-out bound of governor.py:61-62).
WithinCeiling ==
  \A r \in Runs : \A d \in Constrained(r) :
    RootOverran(r, d) \/ HeldAtRoot(r, d) + rootSpent[r][d] <= ceiling[r][d]

WithinParent ==
  \A p \in 1..nextId, d \in Dims :
    ParentOverran(p, d) \/ HeldUnder(p, d) + childSpent[p][d] <= lease[p].reserved[d]

\* Every grant is funded by what is above it, a lease's by its run and a child's by its lease.
Funded == WithinCeiling /\ WithinParent

\* What happens to a child lease never reaches the pool of the run: reserving,
\* committing, overrunning or releasing it moves the balance of its parent only
\* ("never the global pool", governor.py:10-12).
ChildrenStayOffThePool ==
  [][\A i \in LeaseIds :
       (i \in live) # (i \in live') /\ lease'[i].parent # NoParent
         => rootRemaining' = rootRemaining]_vars

\* Once nothing is reserved, remaining() is "what is left of the run's seeded
\* ceiling" after spent(), "the total committed actuals for the run"
\* (resource_governor.py:38-50), however the spending was committed.
RemainingIsWhatIsLeft ==
  live = {} =>
    \A r \in Runs : \A d \in Constrained(r) :
      rootRemaining[r][d] = ceiling[r][d] - spent[r][d]

=============================================================================
