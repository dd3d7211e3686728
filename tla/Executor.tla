------------------------------ MODULE Executor ------------------------------
(***************************************************************************)
(* One run of the aether engine: the workflow executor, the nodes it runs, *)
(* the dispatcher their effects go through and the governor that funds     *)
(* them (workflow/executor.py, workflow/nodes/, kernel/dispatch.py and     *)
(* engine.py under src/src/aether).                                        *)
(*                                                                         *)
(* A run is one asyncio task.  It leaves the processor only while an       *)
(* adapter does I/O, so an effect is two steps, the dispatch and the       *)
(* answer, and a cancellation can fall between them.  A node reserves its  *)
(* budget from the run or, in a repair iteration, from the lease of the    *)
(* iteration; an effect always reserves from the run.                      *)
(***************************************************************************)
EXTENDS Governor, Sequences

CONSTANTS
  RunId,            \* the run
  Chain,            \* its nodes, in the order of _topological_order: one chain
  Via,              \* repair.via_nodes, then repair.back_to; empty if no block
  MaxIterations,    \* repair.max_iterations
  IterationBudget,  \* repair.budget_per_iteration
  MaxFiles,         \* bound: files a node reads, files a reply edits
  Estimate,         \* what the nodes reserve for an effect of a class
  CostOf            \* the actuals the adapter of a class may report

Kinds == {"retrieve", "generate", "apply", "evaluate", "repair"}
Classes == {"read", "model", "write", "evaluate"}
Nodes == [kind : Kinds, budget : Requests]

ASSUME ExecutorAssumption ==
  /\ RunId \in Runs
  /\ Chain \in Seq(Nodes) /\ Chain # <<>> /\ Chain[1].kind = "retrieve"
  /\ Via \in Seq(Nodes)
  /\ MaxIterations \in 1..16
  /\ IterationBudget \in Requests
  /\ MaxFiles \in Nat
  /\ Estimate \in [Classes -> Requests]
  /\ CostOf \in [Classes -> SUBSET Costs]

\* NODE_SOCKETS: the kinds that take what a node of a kind gives
After(kind) ==
  CASE kind = "retrieve" -> {"generate"}
    [] kind \in {"generate", "repair"} -> {"apply"}
    [] kind = "apply" -> {"evaluate"}
    [] kind = "evaluate" -> {"repair"}

Fitting(nodes) == \A i \in 2..Len(nodes) : nodes[i].kind \in After(nodes[i - 1].kind)

\* What validate_topology demands of a chain and of a repair block: sockets fit, the
\* chain passes a judge, where it need not end, the loop goes from a judge to a judge,
\* and the budget of an iteration covers its nodes.
ASSUME ValidTopology ==
  /\ Fitting(Chain) /\ \E i \in 1..Len(Chain) : Chain[i].kind = "evaluate"
  /\ Via # <<>> => /\ Via[1].kind \in After("evaluate") /\ Fitting(Via)
                  /\ Via[Len(Via)].kind = "evaluate"
  /\ \A d \in Dims :
       SumTo([i \in 1..Len(Via) |-> Via[i].budget[d]], Len(Via)) <= IterationBudget[d]

VARIABLES
  phase,        \* what the run does next
  repairing,    \* an iteration of the repair block is running
  iteration,    \* iterations started
  pos,          \* the node at work, in Chain or in Via
  todo,         \* files this node has still to read or to write
  effect,       \* the class of the effect in flight, or "none"
  iterLease, nodeLease, effectLease,  \* the leases in hand, or NoParent
  payload,      \* its gate_status_of, and "the provider gave no completion"
  error,        \* the exception in flight: none, a refused lease, another one
  judged,       \* history: the last tests ran on the files as they are now
  earned        \* history: the last verdict an evaluate node gave

runVars == <<phase, repairing, iteration, pos, todo, effect, iterLease,
             nodeLease, effectLease, payload, error, judged, earned>>
execVars == <<vars, runVars>>

Over == {"returned", "failed", "cancelled"}
Phases == {"seed", "enter", "run", "await", "leave", "raise", "close", "decide"} \cup Over
NoVerdict == "no verdict"
Verdicts == {"PASSED", "FAILED", "NONE"}
Payloads == [verdict : Verdicts \cup {NoVerdict}, unproduced : BOOLEAN]

NodesOf(r) == IF r THEN Via ELSE Chain
Node == NodesOf(repairing)[pos]

-----------------------------------------------------------------------------
\* engine.run seeds the ceiling of the run before it executes anything
Seed(dims) ==
  /\ phase = "seed"
  /\ SeedRunBudget(RunId, dims)
  /\ phase' = "enter"
  /\ UNCHANGED <<repairing, iteration, pos, todo, effect, iterLease, nodeLease,
                 effectLease, payload, error, judged, earned>>

\* How many files a node reads, or writes if there is a reply to parse.  The
\* engine builds generate and repair as a ModelNode, whose file sources read what
\* the payload or the task names as entry_files: neither has such a field.
FilesOf(kind) ==
  IF kind = "retrieve" \/ (kind = "apply" /\ ~payload.unproduced)
  THEN 0..MaxFiles ELSE {0}

\* _run_node reserves the budget of the node and starts it ...
EnterNode ==
  /\ phase = "enter"
  /\ \/ repairing /\ ReserveChild(iterLease, Node.budget)
     \/ ~repairing /\ ReserveRoot(RunId, Node.budget)
  /\ nodeLease' = nextId + 1
  /\ todo' \in FilesOf(Node.kind)
  /\ phase' = "run"
  /\ UNCHANGED <<repairing, iteration, pos, effect, iterLease, effectLease,
                 payload, error, judged, earned>>

\* an exception leaves the iteration through its finally, or the run at once
Leaving == IF repairing THEN "close" ELSE "failed"

\* can the governor give what the node asks for?
NodeFundable ==
  IF repairing THEN ~Exceeds(Node.budget, parentRemaining[iterLease])
  ELSE RootCanFund(RunId, Node.budget)

\* ... or is refused, and raises WorkflowExecutionError with nothing to release.
RefuseNode ==
  /\ phase = "enter" /\ ~NodeFundable
  /\ phase' = Leaving
  /\ error' = "denied"
  /\ UNCHANGED <<vars, repairing, iteration, pos, todo, effect, iterLease,
                 nodeLease, effectLease, payload, judged, earned>>

-----------------------------------------------------------------------------
(* Effects *)

\* the effect the code of the node at work makes next
Wants(class) ==
  \/ class = "read" /\ Node.kind = "retrieve" /\ todo > 0
  \/ class = "model" /\ Node.kind \in {"generate", "repair"}
  \/ class = "write" /\ Node.kind = "apply" /\ todo > 0
  \/ class = "evaluate" /\ Node.kind = "evaluate" /\ ~payload.unproduced

\* Dispatcher.dispatch: the lease, then the adapter.  The shipped roles request
\* nothing that widens a capability, so authorize grants every effect.
Dispatch(class) ==
  /\ phase = "run" /\ Wants(class)
  /\ ReserveRoot(RunId, Estimate[class])
  /\ effectLease' = nextId + 1
  /\ effect' = class
  /\ phase' = "await"
  /\ UNCHANGED <<repairing, iteration, pos, todo, iterLease, nodeLease,
                 payload, error, judged, earned>>

\* a file that could not be read is a fact; any other error ends the node
EffectError(class, e) ==
  \/ /\ class = "read"
     /\ todo' = todo - 1
     /\ phase' = "run"
     /\ UNCHANGED error
  \/ /\ class # "read"
     /\ error' = e
     /\ phase' = "raise"
     /\ UNCHANGED todo

\* budget_denied, which the facade raises as EffectDeniedError
RefuseEffect(class) ==
  /\ phase = "run" /\ Wants(class)
  /\ ~RootCanFund(RunId, Estimate[class])
  /\ EffectError(class, "denied")
  /\ UNCHANGED <<vars, repairing, iteration, pos, effect, iterLease, nodeLease,
                 effectLease, payload, judged, earned>>

\* The adapter returns: the actuals are committed and the node goes on with the
\* result.  A reply is judged by the tests that ran after the last write.
Answer(actuals) ==
  /\ phase = "await"
  /\ actuals \in CostOf[effect]
  /\ Commit(effectLease, actuals)
  /\ effectLease' = NoParent
  /\ effect' = "none"
  /\ \/ /\ effect \in {"read", "write"}
        /\ todo' = todo - 1
        /\ phase' = "run"
        /\ judged' = (judged /\ effect = "read")
        /\ UNCHANGED <<payload, earned>>
     \/ /\ effect = "model"
        /\ \E failed \in BOOLEAN :
             payload' = [verdict |-> NoVerdict, unproduced |-> failed]
        /\ phase' = "leave"
        /\ UNCHANGED <<todo, judged, earned>>
     \/ /\ effect = "evaluate"
        /\ \E v \in Verdicts :
             /\ payload' = [verdict |-> v, unproduced |-> FALSE]
             /\ judged' = (v # "NONE")
             /\ earned' = v
        /\ phase' = "leave"
        /\ UNCHANGED todo
  /\ UNCHANGED <<repairing, iteration, pos, iterLease, nodeLease, error>>

\* an error path that forgets the lease of the effect
BugFail ==
  /\ phase = "await"
  /\ effectLease' = NoParent
  /\ effect' = "none"
  /\ EffectError(effect, "raised")
  /\ UNCHANGED <<vars, repairing, iteration, pos, iterLease, nodeLease, payload,
                 judged, earned>>

\* the adapter raises
Fail ==
  /\ phase = "await"
  /\ Release(effectLease)
  /\ effectLease' = NoParent
  /\ effect' = "none"
  /\ EffectError(effect, "raised")
  /\ UNCHANGED <<repairing, iteration, pos, iterLease, nodeLease, payload,
                 judged, earned>>

\* The task is cancelled while the adapter works.  `except Exception` catches no
\* CancelledError, so neither the effect's lease nor the node's is released;
\* the finally of an iteration runs.
Cancel ==
  /\ phase = "await"
  /\ \/ repairing /\ Release(iterLease)
     \/ ~repairing /\ UNCHANGED vars
  /\ iterLease' = NoParent
  /\ phase' = "cancelled"
  /\ UNCHANGED <<repairing, iteration, pos, todo, effect, nodeLease, effectLease,
                 payload, error, judged, earned>>

\* evaluate runs no tests for a candidate the provider never produced
Unmeasured ==
  /\ phase = "run" /\ Node.kind = "evaluate" /\ payload.unproduced
  /\ payload' = [verdict |-> "NONE", unproduced |-> FALSE]
  /\ earned' = "NONE"
  /\ phase' = "leave"
  /\ UNCHANGED <<vars, repairing, iteration, pos, todo, effect, iterLease,
                 nodeLease, effectLease, error, judged>>

\* retrieve and apply return once they have handled every file
Finish ==
  /\ phase = "run" /\ Node.kind \in {"retrieve", "apply"} /\ todo = 0
  /\ phase' = "leave"
  /\ UNCHANGED <<vars, repairing, iteration, pos, todo, effect, iterLease,
                 nodeLease, effectLease, payload, error, judged, earned>>

-----------------------------------------------------------------------------
(* Leaving a node, and the repair loop *)

\* off by one past the end: a node after the last one
BugAdvancePast ==
  IF pos <= Len(NodesOf(repairing))
  THEN pos' = pos + 1 /\ phase' = "enter"
  ELSE pos' = 1 /\ phase' = IF repairing THEN "close" ELSE "decide"

\* off by one short of the end: the loop does not come back to the judge
BugAdvanceShort ==
  IF pos < Len(NodesOf(repairing)) - (IF repairing THEN 1 ELSE 0)
  THEN pos' = pos + 1 /\ phase' = "enter"
  ELSE pos' = 1 /\ phase' = IF repairing THEN "close" ELSE "decide"

\* what follows the node at work
Advance ==
  IF pos < Len(NodesOf(repairing))
  THEN pos' = pos + 1 /\ phase' = "enter"
  ELSE pos' = 1 /\ phase' = IF repairing THEN "close" ELSE "decide"

LeaveNode ==
  /\ phase = "leave"
  /\ Release(nodeLease)
  /\ nodeLease' = NoParent
  /\ Advance
  /\ UNCHANGED <<repairing, iteration, todo, effect, iterLease, effectLease,
                 payload, error, judged, earned>>

\* _run_node releases the lease of a node that raised, and raises again
RaiseNode ==
  /\ phase = "raise"
  /\ Release(nodeLease)
  /\ nodeLease' = NoParent
  /\ phase' = Leaving
  /\ UNCHANGED <<repairing, iteration, pos, todo, effect, iterLease, effectLease,
                 payload, error, judged, earned>>

\* a loop that stops for a pass alone
BugMayRepair == Via # <<>> /\ iteration < MaxIterations /\ payload.verdict # "PASSED"

\* a loop without a count
BugMayRepairForever == Via # <<>> /\ payload.verdict = "FAILED"

MayRepair == Via # <<>> /\ iteration < MaxIterations /\ payload.verdict = "FAILED"

\* a lease of the size of the node that opens the loop
BugStartIteration ==
  /\ phase = "decide" /\ MayRepair
  /\ ReserveRoot(RunId, Via[1].budget)
  /\ iterLease' = nextId + 1
  /\ iteration' = iteration + 1
  /\ repairing' = TRUE
  /\ pos' = 1
  /\ phase' = "enter"
  /\ UNCHANGED <<todo, effect, nodeLease, effectLease, payload, error, judged, earned>>

\* the loop of _run_repair_unroll: reserve for one more iteration ...
StartIteration ==
  /\ phase = "decide" /\ MayRepair
  /\ ReserveRoot(RunId, IterationBudget)
  /\ iterLease' = nextId + 1
  /\ iteration' = iteration + 1
  /\ repairing' = TRUE
  /\ pos' = 1
  /\ phase' = "enter"
  /\ UNCHANGED <<todo, effect, nodeLease, effectLease, payload, error, judged, earned>>

\* ... or return the payload: resolved, unmeasured, out of iterations or budget.  The
\* engine reads the verdict of what it is given, and raises if there is none.
Return ==
  /\ phase = "decide"
  /\ ~(MayRepair /\ RootCanFund(RunId, IterationBudget))
  /\ IF payload.verdict = NoVerdict
     THEN phase' = "failed" /\ error' = "raised"
     ELSE phase' = "returned" /\ UNCHANGED error
  /\ UNCHANGED <<vars, repairing, iteration, pos, todo, effect, iterLease,
                 nodeLease, effectLease, payload, judged, earned>>

\* the finally of an iteration
CloseIteration ==
  /\ phase = "close"
  /\ Release(iterLease)
  /\ iterLease' = NoParent
  /\ repairing' = FALSE
  /\ pos' = 1
  /\ phase' = IF error = "none" THEN "decide" ELSE "failed"
  /\ UNCHANGED <<iteration, todo, effect, nodeLease, effectLease, payload,
                 error, judged, earned>>

-----------------------------------------------------------------------------
ExecInit ==
  /\ Init
  /\ phase = "seed" /\ repairing = FALSE /\ iteration = 0 /\ pos = 1 /\ todo = 0
  /\ effect = "none" /\ error = "none"
  /\ iterLease = NoParent /\ nodeLease = NoParent /\ effectLease = NoParent
  /\ payload = [verdict |-> NoVerdict, unproduced |-> FALSE]
  /\ judged = FALSE /\ earned = NoVerdict

\* what the run does of itself; a cancellation comes from outside
Work ==
  \/ \E dims \in Ceilings : Seed(dims)
  \/ EnterNode \/ RefuseNode
  \/ \E class \in Classes : Dispatch(class) \/ RefuseEffect(class)
  \/ \E actuals \in Costs : Answer(actuals)
  \/ Fail \/ Unmeasured \/ Finish
  \/ LeaveNode \/ RaiseNode
  \/ StartIteration \/ CloseIteration \/ Return

Rest == phase \in Over /\ UNCHANGED execVars

ExecNext == Work \/ Cancel \/ Rest

\* Every adapter call ends: git, tools and sandboxes run under a timeout, and a
\* model stream ends in a StopEvent or raises.
ExecSpec == ExecInit /\ [][ExecNext]_execVars /\ WF_execVars(Work)

-----------------------------------------------------------------------------
(* Properties *)

\* The shape of a run.
RunTypeOK ==
  /\ phase \in Phases
  /\ repairing \in BOOLEAN
  /\ iteration \in 0..MaxIterations
  /\ pos \in 1..Len(NodesOf(repairing))
  /\ todo \in 0..MaxFiles
  /\ effect \in Classes \cup {"none"}
  /\ {iterLease, nodeLease, effectLease} \subseteq 0..nextId
  /\ payload \in Payloads
  /\ error \in {"none", "denied", "raised"}
  /\ judged \in BOOLEAN
  /\ earned \in Verdicts \cup {NoVerdict}

\* The leases that are live are those the run holds, on every path: a node that
\* returns, raises or is refused, an effect that answers, fails or is refused, a
\* read whose error is swallowed, an iteration left by an exception.  So a run
\* that returned or failed holds nothing (executor.py:174-198, 236-246,
\* dispatch.py:113-128).
NoLeaseIsLost ==
  /\ live = {iterLease, nodeLease, effectLease} \ {NoParent}
  /\ phase \in {"returned", "failed"} => live = {}

\* A run that is over has given back every lease, and what its ledger says is left is the
\* ceiling less all it spent (executor.py:174-198, resource_governor.py:38-50).
LedgerIsSettled == NoLeaseIsLost /\ RemainingIsWhatIsLeft

EndsOnJudge == Chain[Len(Chain)].kind = "evaluate"

\* What a run returns was judged: it carries a verdict, and a PASSED or FAILED
\* one is about the files as they are, written by no later node.  If the chain
\* ends on its judge, the run does not come out of its nodes, nor of an iteration
\* of its loop, without a verdict; the validator accepts others, which then raise
\* (validator.py:120, 159-171, engine.py:227-232).
ResultIsJudged ==
  /\ phase = "returned" =>
       /\ payload.verdict \in Verdicts /\ payload.verdict = earned
       /\ payload.verdict # "NONE" => judged
  /\ phase = "decide" /\ EndsOnJudge => payload.verdict # NoVerdict

\* A node of a repair iteration is never refused its lease: the sum check of the
\* validator is enough, whatever the iteration has spent so far, so a repair
\* block is not a silent no-op (validator.py:171-198, executor.py:20-23).
IterationIsFunded == phase = "enter" /\ repairing => NodeFundable

\* The engine draws every actual from the pool of the run, so a ceiling bounds
\* all the spending: nothing is reserved from the run, whether for a node, an
\* iteration or an effect, unless all that was spent and all that is held,
\* the new lease included, fits under the ceiling (engine.py:196-200).
FailClosed ==
  [][nextId' # nextId /\ lease'[nextId'].parent = NoParent =>
       \A d \in Constrained(RunId) :
         HeldAtRoot(RunId, d)' + spent'[RunId][d] <= ceiling[RunId][d]]_execVars

\* A NONE verdict is final: the run never again reserves anything, so neither a
\* repair nor any other effect follows it (executor.py:9-16, evaluate.py:53-60).
NoneIsNeverRepaired == [][payload.verdict = "NONE" => nextId' = nextId]_execVars

\* Every run that is not cancelled ends, whatever fails and however little is
\* left to spend (executor.py:4-7: the loop has a compile-time bound).
RunEnds == <>(phase \in Over)

\* "Exhausting the budget ends the loop, not the run -- the candidate keeps
\* whatever verdict it last had" (executor.py:22-24): a run with a verdict is
\* not ended by a refused reservation.
DenialEndsTheLoop == phase = "failed" /\ error = "denied" => earned = NoVerdict

=============================================================================
