--------------------------- MODULE ExecutorProofs ---------------------------
(***************************************************************************)
(* Proofs about a run of the executor, for every topology the validator    *)
(* accepts, every ceiling, estimate and cost.  The run is a governor, so   *)
(* the invariant of the ledger holds of it; on top of it stands what the   *)
(* run holds, where its effects are charged and whose verdict it carries.  *)
(***************************************************************************)
EXTENDS Executor, GovernorProofs

-----------------------------------------------------------------------------
(* The inductive invariant *)

\* the phases in which a node is at work
Working == {"run", "await", "leave", "raise"}

\* what the run holds, phase by phase
Grip ==
  /\ phase # "cancelled" => (nodeLease # NoParent <=> phase \in Working)
  /\ phase # "cancelled" => (iterLease # NoParent <=> repairing)
  /\ effectLease # NoParent => phase \in {"await", "cancelled"}
  /\ phase = "await" => effectLease # NoParent /\ effect \in Classes /\ Wants(effect)
  /\ phase \in {"seed", "decide", "returned", "failed"} => ~repairing
  /\ phase = "close" => repairing

\* the leases a run holds are live, no other is, and they are different leases
Holdings ==
  /\ live = {iterLease, nodeLease, effectLease} \ {NoParent}
  /\ nodeLease # NoParent => iterLease < nodeLease
  /\ effectLease # NoParent => nodeLease < effectLease /\ iterLease < effectLease

\* an iteration and an effect draw on the run, so every actual is charged there
ChargedAtRoot ==
  /\ effectLease # NoParent => lease[effectLease].parent = NoParent
  /\ iterLease # NoParent =>
       lease[iterLease].parent = NoParent /\ lease[iterLease].reserved = IterationBudget
  /\ childSpent = [i \in LeaseIds |-> Zero]
  /\ rootSpent = spent

\* a verdict that may be returned
Judged ==
  /\ payload.verdict \in Verdicts /\ payload.verdict = earned
  /\ payload.verdict # "NONE" => judged

\* a verdict is of the last judge and is gone once a node behind it has answered
VerdictsAreJudged ==
  /\ payload.verdict # NoVerdict => Judged
  /\ phase \in {"seed", "enter", "run", "await"} /\ payload.verdict # NoVerdict =>
       Node.kind = "repair"
  /\ phase = "leave" => (payload.verdict # NoVerdict <=> Node.kind = "evaluate")
  /\ phase = "decide" /\ EndsOnJudge => payload.verdict # NoVerdict
  /\ phase = "returned" => payload.verdict # NoVerdict
  /\ phase = "close" /\ error = "none" => payload.verdict # NoVerdict
  /\ phase \notin {"raise", "close", "failed"} => error = "none"
  /\ phase = "raise" => error # "none"

RunInv == RunTypeOK /\ Grip /\ Holdings /\ ChargedAtRoot /\ VerdictsAreJudged

-----------------------------------------------------------------------------
(* A step of the run is a step of the governor *)

USE GovernorAssumption, ExecutorAssumption

\* the node at work and what it may reserve
LEMMA NodeAtWork ==
  ASSUME RunTypeOK
  PROVE  /\ Node \in Nodes /\ Node.budget \in Requests /\ Node.kind \in Kinds
         /\ Len(NodesOf(repairing)) \in Nat /\ pos \in Nat
<1>1. Chain \in Seq(Nodes) /\ Via \in Seq(Nodes)
  OBVIOUS
<1>2. NodesOf(repairing) \in Seq(Nodes)
  BY <1>1 DEF NodesOf
<1>3. Len(NodesOf(repairing)) \in Nat /\ Node \in Nodes
  BY <1>2 DEF RunTypeOK, Node
<1>4. QED
  BY <1>3 DEF RunTypeOK, Nodes

LEMMA IsGovernorStep ==
  ASSUME TypeOK, RunTypeOK, [ExecNext]_execVars
  PROVE  [Next]_vars
<1>1. live \subseteq LeaseIds
  BY DEF TypeOK, LeaseIds
<1>2. \A i \in live : Release(i) => Next
  BY <1>1 DEF Next
<1>3. ASSUME NEW dims \in Ceilings, Seed(dims)
      PROVE  Next
  BY <1>3 DEF Seed, Next
<1>4. CASE EnterNode
  <2>1. Node.budget \in Requests
    BY NodeAtWork
  <2>2. CASE ReserveChild(iterLease, Node.budget)
    <3>1. iterLease \in LeaseIds
      BY <1>1, <2>2 DEF ReserveChild
    <3>2. QED
      BY <2>1, <2>2, <3>1 DEF Next
  <2>3. CASE ReserveRoot(RunId, Node.budget)
    BY <2>1, <2>3 DEF Next
  <2>4. QED
    BY <1>4, <2>2, <2>3 DEF EnterNode
<1>5. ASSUME NEW class \in Classes, Dispatch(class)
      PROVE  Next
  <2>1. Estimate[class] \in Requests
    OBVIOUS
  <2>2. QED
    BY <1>5, <2>1 DEF Dispatch, Next
<1>6. ASSUME NEW actuals \in Costs, Answer(actuals)
      PROVE  Next
  <2>1. effectLease \in LeaseIds /\ Commit(effectLease, actuals)
    BY <1>1, <1>6 DEF Answer, Commit
  <2>2. QED
    BY <2>1 DEF Next
<1>7. CASE Fail
  BY <1>2, <1>7 DEF Fail, Release
<1>8. CASE LeaveNode
  BY <1>2, <1>8 DEF LeaveNode, Release
<1>9. CASE RaiseNode
  BY <1>2, <1>9 DEF RaiseNode, Release
<1>10. CASE StartIteration
  BY <1>10 DEF StartIteration, Next
<1>11. CASE CloseIteration
  BY <1>2, <1>11 DEF CloseIteration, Release
<1>12. CASE Cancel
  BY <1>2, <1>12 DEF Cancel, Release
<1>13. ASSUME \/ RefuseNode \/ Unmeasured \/ Finish \/ Return \/ Rest
              \/ \E class \in Classes : RefuseEffect(class)
              \/ UNCHANGED execVars
       PROVE  UNCHANGED vars
  BY <1>13 DEF RefuseNode, Unmeasured, Finish, Return, Rest, RefuseEffect, execVars
<1>14. QED
  BY <1>3, <1>4, <1>5, <1>6, <1>7, <1>8, <1>9, <1>10, <1>11, <1>12, <1>13 DEF ExecNext, Work

-----------------------------------------------------------------------------
(* The run keeps its invariant *)

LEMMA RunInvInit == ExecInit => RunInv
<1> SUFFICES ASSUME ExecInit
             PROVE  RunInv
  OBVIOUS
<1>1. Len(Chain) \in Nat /\ 1 \in 1..Len(Chain)
  OBVIOUS
<1>2. RunTypeOK
  <2>1. payload \in Payloads
    BY DEF ExecInit, Payloads
  <2>2. phase \in Phases /\ iteration \in 0..MaxIterations /\ todo \in 0..MaxFiles
    BY DEF ExecInit, Phases
  <2>3. pos \in 1..Len(NodesOf(repairing)) /\ nextId = 0
    BY <1>1 DEF ExecInit, Init, NodesOf
  <2>4. {iterLease, nodeLease, effectLease} \subseteq 0..nextId
    BY <2>3 DEF ExecInit, NoParent
  <2>5. earned \in Verdicts \cup {NoVerdict} /\ repairing \in BOOLEAN /\ judged \in BOOLEAN
    BY DEF ExecInit
  <2>6. effect \in Classes \cup {"none"} /\ error \in {"none", "denied", "raised"}
    BY DEF ExecInit
  <2>7. QED
    BY <2>1, <2>2, <2>3, <2>4, <2>5, <2>6 DEF RunTypeOK
<1>3. Grip /\ VerdictsAreJudged
  BY DEF ExecInit, Grip, VerdictsAreJudged, Working
<1>4. Holdings /\ ChargedAtRoot
  BY DEF ExecInit, Init, Holdings, ChargedAtRoot
<1>5. QED
  BY <1>2, <1>3, <1>4 DEF RunInv

\* issuing a lease touches no other, and settling one touches no record
LEMMA Issued ==
  ASSUME TypeOK, NEW l \in Leases, NewLease(l)
  PROVE  /\ nextId \in Nat /\ nextId' = nextId + 1
         /\ live' = live \cup {nextId + 1}
         /\ lease'[nextId + 1] = l
         /\ \A i \in 1..nextId : lease'[i] = lease[i]
         /\ spent' = spent /\ rootSpent' = rootSpent /\ childSpent' = childSpent
BY DEF TypeOK, NewLease, LeaseIds

LEMMA Released ==
  ASSUME NEW i, Release(i)
  PROVE  /\ i \in live /\ live' = live \ {i}
         /\ nextId' = nextId /\ lease' = lease
         /\ spent' = spent /\ rootSpent' = rootSpent /\ childSpent' = childSpent
BY DEF Release

\* a run-level reservation, as EnterNode, Dispatch and StartIteration make it
LEMMA RootReserved ==
  ASSUME TypeOK, NEW r \in Runs, NEW dims \in Requests, ReserveRoot(r, dims)
  PROVE  /\ nextId \in Nat /\ nextId' = nextId + 1
         /\ live' = live \cup {nextId + 1}
         /\ lease'[nextId + 1] = [run |-> r, parent |-> NoParent, reserved |-> dims]
         /\ \A i \in 1..nextId : lease'[i] = lease[i]
         /\ spent' = spent /\ rootSpent' = rootSpent /\ childSpent' = childSpent
<1> DEFINE l == [run |-> r, parent |-> NoParent, reserved |-> dims]
<1>1. l \in Leases /\ NewLease(l)
  BY DEF ReserveRoot, Leases, NoParent
<1> HIDE DEF l
<1>2. QED
  BY <1>1, Issued DEF l

LEMMA ChildReserved ==
  ASSUME TypeOK, NEW p \in LeaseIds, NEW dims \in Requests, ReserveChild(p, dims)
  PROVE  /\ nextId \in Nat /\ nextId' = nextId + 1
         /\ live' = live \cup {nextId + 1}
         /\ \A i \in 1..nextId : lease'[i] = lease[i]
         /\ spent' = spent /\ rootSpent' = rootSpent /\ childSpent' = childSpent
<1> DEFINE l == [run |-> lease[p].run, parent |-> p, reserved |-> dims]
<1>1. l \in Leases /\ NewLease(l)
  BY LeaseFields DEF ReserveChild, Leases, LeaseIds
<1> HIDE DEF l
<1>2. QED
  BY <1>1, Issued

\* a step that leaves the node at work, the payload and the files alone
LEMMA VerdictKept ==
  ASSUME UNCHANGED <<repairing, pos, payload, judged, earned>>
  PROVE  Node' = Node /\ (Judged' <=> Judged)
BY DEF Node, NodesOf, Judged

LEMMA SeedKeepsRunInv ==
  ASSUME TypeOK, RunInv, NEW dims \in Ceilings, Seed(dims)
  PROVE  RunInv'
<1> USE DEF Seed, SeedRunBudget
<1>1. RunTypeOK'
  BY DEF RunInv, RunTypeOK, NodesOf, Phases
<1>2. Grip' /\ VerdictsAreJudged'
  <2>1. Grip'
    BY DEF RunInv, Grip, Working
  <2>2. VerdictsAreJudged'
    BY VerdictKept DEF RunInv, VerdictsAreJudged
  <2>3. QED
    BY <2>1, <2>2
<1>3. Holdings' /\ ChargedAtRoot'
  BY DEF RunInv, Holdings, ChargedAtRoot
<1>4. QED
  BY <1>1, <1>2, <1>3 DEF RunInv

LEMMA EnterNodeKeepsRunInv ==
  ASSUME TypeOK, RunInv, EnterNode
  PROVE  RunInv'
<1>1. /\ nextId \in Nat /\ nextId' = nextId + 1 /\ live' = live \cup {nextId + 1}
      /\ \A i \in 1..nextId : lease'[i] = lease[i]
      /\ spent' = spent /\ rootSpent' = rootSpent /\ childSpent' = childSpent
  <2>1. Node.budget \in Requests
    BY NodeAtWork DEF RunInv
  <2>2. CASE ReserveChild(iterLease, Node.budget)
    <3>1. iterLease \in LeaseIds
      BY <2>2 DEF ReserveChild, TypeOK, LeaseIds
    <3>2. QED
      BY <2>1, <2>2, <3>1, ChildReserved
  <2>3. CASE ReserveRoot(RunId, Node.budget)
    BY <2>1, <2>3, RootReserved
  <2>4. QED
    BY <2>2, <2>3 DEF EnterNode
<1>2. RunTypeOK'
  <2>1. todo' \in 0..MaxFiles
    BY DEF EnterNode, FilesOf
  <2>2. QED
    BY <1>1, <2>1 DEF EnterNode, RunInv, RunTypeOK, NodesOf, Phases
<1>3. Grip' /\ VerdictsAreJudged'
  <2>1. Grip'
    BY <1>1 DEF EnterNode, RunInv, Grip, Working, NoParent
  <2>2. VerdictsAreJudged'
    BY VerdictKept DEF EnterNode, RunInv, VerdictsAreJudged
  <2>3. QED
    BY <2>1, <2>2
<1>4. Holdings'
  BY <1>1 DEF EnterNode, RunInv, RunTypeOK, Grip, Working, Holdings, NoParent
<1>5. ChargedAtRoot'
  BY <1>1 DEF EnterNode, RunInv, RunTypeOK, Grip, Working, Holdings, ChargedAtRoot, NoParent
<1>6. QED
  BY <1>2, <1>3, <1>4, <1>5 DEF RunInv

LEMMA DispatchKeepsRunInv ==
  ASSUME TypeOK, RunInv, NEW class \in Classes, Dispatch(class)
  PROVE  RunInv'
<1>1. /\ nextId \in Nat /\ nextId' = nextId + 1 /\ live' = live \cup {nextId + 1}
      /\ lease'[nextId + 1].parent = NoParent
      /\ \A i \in 1..nextId : lease'[i] = lease[i]
      /\ spent' = spent /\ rootSpent' = rootSpent /\ childSpent' = childSpent
  <2>1. Estimate[class] \in Requests
    OBVIOUS
  <2>2. ReserveRoot(RunId, Estimate[class])
    BY DEF Dispatch
  <2>3. lease'[nextId + 1] = [run |-> RunId, parent |-> NoParent, reserved |-> Estimate[class]]
    BY <2>1, <2>2, RootReserved
  <2>4. lease'[nextId + 1].parent = NoParent
    BY <2>3
  <2>5. QED
    BY <2>1, <2>2, <2>4, RootReserved
<1>2. RunTypeOK'
  BY <1>1 DEF Dispatch, RunInv, RunTypeOK, NodesOf, Phases
<1>3. VerdictsAreJudged'
  BY VerdictKept DEF Dispatch, RunInv, VerdictsAreJudged
<1>4. Grip'
  <2>1. Node' = Node
    BY DEF Dispatch, Node, NodesOf
  <2>2. Wants(class)'
    BY <2>1 DEF Dispatch, Wants
  <2>3. QED
    BY <1>1, <2>2 DEF Dispatch, RunInv, Grip, Working, NoParent
<1>5. Holdings'
  BY <1>1 DEF Dispatch, RunInv, RunTypeOK, Grip, Working, Holdings, NoParent
<1>6. ChargedAtRoot'
  BY <1>1 DEF Dispatch, RunInv, RunTypeOK, Grip, Working, Holdings, ChargedAtRoot, NoParent
<1>7. QED
  BY <1>2, <1>3, <1>4, <1>5, <1>6 DEF RunInv

\* only a node with a file left to handle reads or writes
LEMMA TodoLeft ==
  ASSUME RunTypeOK, NEW class \in {"read", "write"}, Wants(class)
  PROVE  todo - 1 \in 0..MaxFiles
BY DEF Wants, RunTypeOK

LEMMA AnswerKeepsRunInv ==
  ASSUME TypeOK, RunInv, NEW actuals \in Costs, Answer(actuals)
  PROVE  RunInv'
<1> DEFINE i == effectLease
<1>1. /\ i \in live /\ live' = live \ {i} /\ nextId' = nextId /\ lease' = lease
      /\ lease[i].parent = NoParent
  BY DEF Answer, Commit, RunInv, Grip, ChargedAtRoot
<1>2. /\ childSpent' = childSpent /\ rootSpent' = spent'
  BY <1>1 DEF Answer, Commit, RunInv, ChargedAtRoot
<1>3. /\ phase = "await" /\ effect \in Classes /\ Wants(effect)
      /\ effectLease' = NoParent /\ effect' = "none"
      /\ UNCHANGED <<repairing, iteration, pos, iterLease, nodeLease, error>>
  BY DEF Answer, RunInv, Grip
<1>4. Node' = Node /\ NodesOf(repairing)' = NodesOf(repairing)
  BY <1>3 DEF Node, NodesOf
<1>5. RunTypeOK'
  <2>1. todo' \in 0..MaxFiles
    BY <1>3, TodoLeft DEF Answer, RunInv, RunTypeOK
  <2>2. payload' \in Payloads /\ earned' \in Verdicts \cup {NoVerdict} /\ judged' \in BOOLEAN
    <3>1. payload \in Payloads /\ earned \in Verdicts \cup {NoVerdict} /\ judged \in BOOLEAN
      BY DEF RunInv, RunTypeOK
    <3>2. CASE effect \in {"read", "write"}
      BY <3>1, <3>2 DEF Answer
    <3>3. CASE effect = "model"
      BY <3>1, <3>3 DEF Answer, Payloads
    <3>4. CASE effect = "evaluate"
      <4>1. PICK v \in Verdicts :
              payload' = [verdict |-> v, unproduced |-> FALSE] /\ judged' = (v # "NONE") /\ earned' = v
        BY <3>4 DEF Answer
      <4>2. QED
        BY <4>1 DEF Payloads
    <3>5. QED
      BY <1>3, <3>2, <3>3, <3>4 DEF Classes
  <2>3. phase' \in Phases
    BY DEF Answer, Phases
  <2>4. {iterLease, nodeLease, effectLease}' \subseteq 0..nextId'
    BY <1>1, <1>3 DEF RunInv, RunTypeOK, NoParent, TypeOK
  <2>5. QED
    BY <1>3, <1>4, <2>1, <2>2, <2>3, <2>4 DEF RunInv, RunTypeOK
<1>6. Grip'
  BY <1>3 DEF Answer, RunInv, Grip, Working
<1>7. Holdings' /\ ChargedAtRoot'
  BY <1>1, <1>2, <1>3 DEF RunInv, RunTypeOK, TypeOK, Grip, Holdings, ChargedAtRoot, NoParent
<1>8. VerdictsAreJudged'
  <2>1. CASE effect \in {"read", "write"}
    <3>1. phase' = "run" /\ payload' = payload /\ earned' = earned /\ error = "none"
      BY <1>3, <2>1 DEF Answer, RunInv, VerdictsAreJudged
    <3>2. CASE effect = "read"
      <4>1. judged' = judged
        BY <3>2 DEF Answer, RunInv, RunTypeOK
      <4>2. QED
        BY <1>3, <3>1, <4>1, VerdictKept DEF RunInv, VerdictsAreJudged
    <3>3. CASE effect = "write"
      <4>1. payload.verdict = NoVerdict
        BY <1>3, <3>3 DEF Wants, RunInv, VerdictsAreJudged
      <4>2. QED
        BY <1>3, <3>1, <4>1 DEF VerdictsAreJudged
    <3>4. QED
      BY <2>1, <3>2, <3>3
  <2>2. CASE effect = "model"
    <3>1. Node'.kind # "evaluate"
      BY <1>3, <1>4, <2>2 DEF Wants
    <3>2. payload'.verdict = NoVerdict
      BY <2>2 DEF Answer
    <3>3. phase' = "leave" /\ error = "none"
      BY <1>3, <2>2 DEF Answer, RunInv, VerdictsAreJudged
    <3>4. QED
      BY <1>3, <3>1, <3>2, <3>3 DEF VerdictsAreJudged
  <2>3. CASE effect = "evaluate"
    <3>1. Judged'
      <4>1. PICK v \in Verdicts :
              payload' = [verdict |-> v, unproduced |-> FALSE] /\ judged' = (v # "NONE") /\ earned' = v
        BY <2>3 DEF Answer
      <4>2. payload'.verdict = v
        BY <4>1
      <4>3. QED
        BY <4>1, <4>2 DEF Judged
    <3>2. payload'.verdict # NoVerdict
      BY <3>1 DEF Judged, Verdicts, NoVerdict
    <3>3. phase' = "leave" /\ error = "none" /\ Node'.kind = "evaluate"
      BY <1>3, <1>4, <2>3 DEF Answer, RunInv, VerdictsAreJudged, Wants
    <3>4. QED
      BY <1>3, <3>1, <3>2, <3>3 DEF VerdictsAreJudged
  <2>4. QED
    BY <1>3, <2>1, <2>2, <2>3 DEF Classes
<1>9. QED
  BY <1>5, <1>6, <1>7, <1>8 DEF RunInv

\* an effect that failed or was refused leaves its node working or raising
LEMMA EffectErrorKeepsRun ==
  ASSUME RunInv, NEW class \in Classes, Wants(class), NEW e \in {"denied", "raised"},
         EffectError(class, e), phase \in {"run", "await"},
         UNCHANGED <<repairing, iteration, pos, iterLease, nodeLease, payload, judged, earned>>
  PROVE  /\ todo' \in 0..MaxFiles /\ phase' \in {"run", "raise"}
         /\ error' \in {"none", "denied", "raised"}
         /\ NodesOf(repairing)' = NodesOf(repairing)
         /\ phase' = "run" => error' = "none"
         /\ VerdictsAreJudged'
<1>1. todo' \in 0..MaxFiles /\ phase' \in {"run", "raise"}
  BY TodoLeft DEF EffectError, RunInv, RunTypeOK
<1>2. error' \in {"none", "denied", "raised"} /\ (phase' = "run" => error' = "none")
  BY DEF EffectError, RunInv, RunTypeOK, VerdictsAreJudged
<1>3. phase' = "raise" => error' # "none"
  BY DEF EffectError
<1>4. VerdictsAreJudged'
  BY <1>1, <1>2, <1>3, VerdictKept DEF RunInv, VerdictsAreJudged
<1>5. QED
  BY <1>1, <1>2, <1>4 DEF NodesOf

LEMMA FailKeepsRunInv ==
  ASSUME TypeOK, RunInv, Fail
  PROVE  RunInv'
<1>1. /\ effectLease \in live /\ live' = live \ {effectLease}
      /\ nextId' = nextId /\ lease' = lease /\ spent' = spent
      /\ rootSpent' = rootSpent /\ childSpent' = childSpent
  BY Released DEF Fail
<1>2. /\ phase = "await" /\ effectLease' = NoParent /\ effect' = "none"
      /\ UNCHANGED <<repairing, iteration, pos, iterLease, nodeLease, payload, judged, earned>>
  BY DEF Fail
<1>3. /\ todo' \in 0..MaxFiles /\ phase' \in {"run", "raise"}
      /\ error' \in {"none", "denied", "raised"}
      /\ NodesOf(repairing)' = NodesOf(repairing)
      /\ VerdictsAreJudged'
  BY EffectErrorKeepsRun DEF Fail, RunInv, Grip
<1>4. RunTypeOK'
  BY <1>1, <1>2, <1>3 DEF RunInv, RunTypeOK, Phases, NoParent, TypeOK
<1>5. Grip'
  BY <1>2, <1>3 DEF RunInv, Grip, Working
<1>6. Holdings' /\ ChargedAtRoot'
  BY <1>1, <1>2 DEF RunInv, RunTypeOK, TypeOK, Grip, Holdings, ChargedAtRoot, NoParent
<1>7. QED
  BY <1>3, <1>4, <1>5, <1>6 DEF RunInv

LEMMA RefuseEffectKeepsRunInv ==
  ASSUME TypeOK, RunInv, NEW class \in Classes, RefuseEffect(class)
  PROVE  RunInv'
<1>1. /\ phase = "run" /\ Wants(class) /\ UNCHANGED vars
      /\ UNCHANGED <<repairing, iteration, pos, effect, iterLease, nodeLease, effectLease,
                     payload, judged, earned>>
  BY DEF RefuseEffect
<1>2. /\ todo' \in 0..MaxFiles /\ phase' \in {"run", "raise"}
      /\ error' \in {"none", "denied", "raised"}
      /\ NodesOf(repairing)' = NodesOf(repairing)
      /\ VerdictsAreJudged'
  BY <1>1, EffectErrorKeepsRun DEF RefuseEffect
<1>3. RunTypeOK'
  BY <1>1, <1>2 DEF RunInv, RunTypeOK, Phases, vars
<1>4. Grip'
  BY <1>1, <1>2 DEF RunInv, Grip, Working
<1>5. Holdings' /\ ChargedAtRoot'
  BY <1>1 DEF RunInv, Holdings, ChargedAtRoot, vars
<1>6. QED
  BY <1>2, <1>3, <1>4, <1>5 DEF RunInv

LEMMA CancelKeepsRunInv ==
  ASSUME TypeOK, RunInv, Cancel
  PROVE  RunInv'
<1>1. /\ live' = live \ {iterLease} /\ nextId' = nextId /\ lease' = lease /\ spent' = spent
      /\ rootSpent' = rootSpent /\ childSpent' = childSpent
  <2>1. CASE repairing
    BY <2>1, Released DEF Cancel, RunInv, RunTypeOK
  <2>2. CASE ~repairing
    <3>1. iterLease = NoParent
      BY <2>2 DEF Cancel, RunInv, Grip
    <3>2. iterLease \notin live
      BY <3>1 DEF TypeOK, NoParent
    <3>3. QED
      BY <2>2, <3>2 DEF Cancel, vars
  <2>3. QED
    BY <2>1, <2>2 DEF RunInv, RunTypeOK
<1>2. phase = "await" /\ phase' = "cancelled" /\ iterLease' = NoParent
  BY DEF Cancel
<1>3. RunTypeOK'
  BY <1>1 DEF Cancel, RunInv, RunTypeOK, Phases, Over, NodesOf, NoParent, TypeOK
<1>4. Grip' /\ VerdictsAreJudged'
  <2>1. Grip'
    BY DEF Cancel, RunInv, Grip
  <2>2. VerdictsAreJudged'
    BY VerdictKept DEF Cancel, RunInv, VerdictsAreJudged
  <2>3. QED
    BY <2>1, <2>2
<1>5. Holdings' /\ ChargedAtRoot'
  BY <1>1 DEF Cancel, RunInv, RunTypeOK, Grip, Working, Holdings, ChargedAtRoot, NoParent
<1>6. QED
  BY <1>3, <1>4, <1>5 DEF RunInv

LEMMA UnmeasuredKeepsRunInv ==
  ASSUME TypeOK, RunInv, Unmeasured
  PROVE  RunInv'
<1>1. RunTypeOK'
  BY DEF Unmeasured, RunInv, RunTypeOK, Payloads, Verdicts, Phases, NodesOf, vars
<1>2. Grip' /\ VerdictsAreJudged'
  <2>1. Grip'
    BY DEF Unmeasured, RunInv, Grip, Working
  <2>2. VerdictsAreJudged'
    <3>1. Judged' /\ payload'.verdict # NoVerdict
      BY DEF Unmeasured, Judged, Verdicts, NoVerdict
    <3>2. Node'.kind = "evaluate" /\ phase' = "leave" /\ error' = "none"
      BY DEF Unmeasured, RunInv, VerdictsAreJudged, Node, NodesOf
    <3>3. QED
      BY <3>1, <3>2 DEF VerdictsAreJudged
  <2>3. QED
    BY <2>1, <2>2
<1>3. Holdings' /\ ChargedAtRoot'
  BY DEF Unmeasured, RunInv, Holdings, ChargedAtRoot, vars
<1>4. QED
  BY <1>1, <1>2, <1>3 DEF RunInv

LEMMA FinishKeepsRunInv ==
  ASSUME TypeOK, RunInv, Finish
  PROVE  RunInv'
<1>1. RunTypeOK'
  BY DEF Finish, RunInv, RunTypeOK, Phases, NodesOf, vars
<1>2. Node' = Node
  BY DEF Finish, Node, NodesOf
<1>3. Grip' /\ VerdictsAreJudged'
  BY <1>2 DEF Finish, RunInv, Grip, Working, VerdictsAreJudged
<1>4. Holdings' /\ ChargedAtRoot'
  BY DEF Finish, RunInv, Holdings, ChargedAtRoot, vars
<1>5. QED
  BY <1>1, <1>3, <1>4 DEF RunInv

LEMMA RefuseNodeKeepsRunInv ==
  ASSUME TypeOK, RunInv, RefuseNode
  PROVE  RunInv'
<1>1. RunTypeOK'
  BY DEF RefuseNode, RunInv, RunTypeOK, Leaving, Phases, Over, NodesOf, vars
<1>2. Grip' /\ VerdictsAreJudged'
  <2>1. Grip'
    BY DEF RefuseNode, RunInv, RunTypeOK, Leaving, Grip, Working
  <2>2. VerdictsAreJudged'
    BY VerdictKept DEF RefuseNode, RunInv, RunTypeOK, Leaving, VerdictsAreJudged
  <2>3. QED
    BY <2>1, <2>2
<1>3. Holdings' /\ ChargedAtRoot'
  BY DEF RefuseNode, RunInv, Holdings, ChargedAtRoot, vars
<1>4. QED
  BY <1>1, <1>2, <1>3 DEF RunInv

\* what follows a node takes what it gives; the loop ends on its judge
LEMMA NextFits ==
  ASSUME RunTypeOK, pos < Len(NodesOf(repairing))
  PROVE  NodesOf(repairing)[pos + 1].kind \in After(Node.kind)
<1>1. Fitting(NodesOf(repairing))
  <2>1. CASE repairing
    <3>1. Via # <<>>
      BY <2>1, NodeAtWork DEF NodesOf, RunTypeOK
    <3>2. QED
      BY <2>1, <3>1, ValidTopology DEF NodesOf
  <2>2. CASE ~repairing
    BY <2>2, ValidTopology DEF NodesOf
  <2>3. QED
    BY <2>1, <2>2
<1>2. pos + 1 \in 2..Len(NodesOf(repairing)) /\ (pos + 1) - 1 = pos
  BY NodeAtWork DEF RunTypeOK
<1>3. QED
  BY <1>1, <1>2 DEF Fitting, Node

LEMMA LastIsJudge ==
  ASSUME RunTypeOK, ~(pos < Len(NodesOf(repairing))), repairing \/ EndsOnJudge
  PROVE  Node.kind = "evaluate"
<1>1. pos = Len(NodesOf(repairing)) /\ 1 <= Len(NodesOf(repairing))
  BY NodeAtWork DEF RunTypeOK
<1>2. CASE repairing
  <2>1. Via # <<>>
    BY <1>1, <1>2 DEF NodesOf
  <2>2. QED
    BY <1>1, <1>2, <2>1, ValidTopology DEF Node, NodesOf
<1>3. CASE ~repairing
  BY <1>1, <1>3 DEF Node, NodesOf, EndsOnJudge
<1>4. QED
  BY <1>2, <1>3

LEMMA LeaveNodeKeepsRunInv ==
  ASSUME TypeOK, RunInv, LeaveNode
  PROVE  RunInv'
<1>1. /\ nodeLease \in live /\ live' = live \ {nodeLease} /\ nextId' = nextId
      /\ lease' = lease /\ spent' = spent /\ rootSpent' = rootSpent /\ childSpent' = childSpent
  BY Released DEF LeaveNode
<1>2. /\ phase = "leave" /\ nodeLease' = NoParent
      /\ UNCHANGED <<repairing, iteration, todo, effect, iterLease, effectLease,
                     payload, error, judged, earned>>
      /\ NodesOf(repairing)' = NodesOf(repairing)
  BY DEF LeaveNode, NodesOf
<1>3. /\ pos' \in 1..Len(NodesOf(repairing))
      /\ \/ phase' = "enter" /\ Node'.kind \in After(Node.kind)
         \/ /\ phase' = (IF repairing THEN "close" ELSE "decide")
            /\ repairing \/ EndsOnJudge => Node.kind = "evaluate"
  <2>1. CASE pos < Len(NodesOf(repairing))
    <3>1. pos' = pos + 1 /\ phase' = "enter"
      BY <2>1 DEF LeaveNode, Advance
    <3>2. Node' = NodesOf(repairing)[pos + 1]
      BY <1>2, <3>1 DEF Node
    <3>3. pos' \in 1..Len(NodesOf(repairing))
      BY <2>1, <3>1, NodeAtWork DEF RunInv, RunTypeOK
    <3>4. QED
      BY <2>1, <3>1, <3>2, <3>3, NextFits DEF RunInv
  <2>2. CASE ~(pos < Len(NodesOf(repairing)))
    <3>1. pos' = 1 /\ phase' = (IF repairing THEN "close" ELSE "decide")
      BY <2>2 DEF LeaveNode, Advance
    <3>2. 1 \in 1..Len(NodesOf(repairing))
      BY NodeAtWork DEF RunInv, RunTypeOK
    <3>3. QED
      BY <2>2, <3>1, <3>2, LastIsJudge DEF RunInv
  <2>3. QED
    BY <2>1, <2>2
<1>4. RunTypeOK'
  BY <1>1, <1>2, <1>3 DEF RunInv, RunTypeOK, Phases, NoParent, TypeOK
<1>5. Grip'
  BY <1>2, <1>3 DEF RunInv, RunTypeOK, Grip, Working
<1>6. Holdings' /\ ChargedAtRoot'
  BY <1>1, <1>2 DEF RunInv, RunTypeOK, TypeOK, Grip, Working, Holdings, ChargedAtRoot, NoParent
<1>7. VerdictsAreJudged'
  <2>1. payload.verdict # NoVerdict => Judged'
    BY <1>2 DEF RunInv, VerdictsAreJudged, Judged
  <2>2. (payload.verdict # NoVerdict <=> Node.kind = "evaluate") /\ error' = "none"
    BY <1>2 DEF RunInv, VerdictsAreJudged
  <2>3. CASE phase' = "enter" /\ Node'.kind \in After(Node.kind)
    <3>1. Node.kind = "evaluate" => Node'.kind = "repair"
      BY <2>3 DEF After
    <3>2. QED
      BY <1>2, <2>1, <2>2, <2>3, <3>1 DEF VerdictsAreJudged
  <2>4. CASE /\ phase' = (IF repairing THEN "close" ELSE "decide")
             /\ repairing \/ EndsOnJudge => Node.kind = "evaluate"
    <3>1. phase' \in {"close", "decide"} /\ (phase' = "close" => repairing)
      BY <2>4
    <3>2. repairing \/ EndsOnJudge => payload.verdict # NoVerdict
      BY <2>2, <2>4
    <3>3. QED
      BY <1>2, <2>1, <2>2, <3>1, <3>2 DEF VerdictsAreJudged
  <2>5. QED
    BY <1>3, <2>3, <2>4
<1>8. QED
  BY <1>4, <1>5, <1>6, <1>7 DEF RunInv

LEMMA RaiseNodeKeepsRunInv ==
  ASSUME TypeOK, RunInv, RaiseNode
  PROVE  RunInv'
<1>1. /\ nodeLease \in live /\ live' = live \ {nodeLease} /\ nextId' = nextId
      /\ lease' = lease /\ spent' = spent /\ rootSpent' = rootSpent /\ childSpent' = childSpent
  BY Released DEF RaiseNode
<1>2. RunTypeOK'
  BY <1>1 DEF RaiseNode, RunInv, RunTypeOK, Leaving, Phases, Over, NodesOf, NoParent, TypeOK
<1>3. Grip'
  BY DEF RaiseNode, RunInv, RunTypeOK, Leaving, Grip, Working
<1>4. Holdings' /\ ChargedAtRoot'
  BY <1>1 DEF RaiseNode, RunInv, RunTypeOK, TypeOK, Grip, Working, Holdings, ChargedAtRoot, NoParent
<1>5. VerdictsAreJudged'
  BY VerdictKept DEF RaiseNode, RunInv, RunTypeOK, Leaving, VerdictsAreJudged
<1>6. QED
  BY <1>2, <1>3, <1>4, <1>5 DEF RunInv

LEMMA StartIterationKeepsRunInv ==
  ASSUME TypeOK, RunInv, StartIteration
  PROVE  RunInv'
<1>1. /\ nextId \in Nat /\ nextId' = nextId + 1 /\ live' = live \cup {nextId + 1}
      /\ lease'[nextId + 1] = [run |-> RunId, parent |-> NoParent, reserved |-> IterationBudget]
      /\ \A i \in 1..nextId : lease'[i] = lease[i]
      /\ spent' = spent /\ rootSpent' = rootSpent /\ childSpent' = childSpent
  BY RootReserved DEF StartIteration
<1>2. /\ lease'[nextId + 1].parent = NoParent
      /\ lease'[nextId + 1].reserved = IterationBudget
  BY <1>1
<1>3. /\ phase = "decide" /\ Via # <<>> /\ iteration < MaxIterations
      /\ iterLease' = nextId + 1 /\ iteration' = iteration + 1 /\ repairing' = TRUE
      /\ pos' = 1 /\ phase' = "enter"
      /\ UNCHANGED <<todo, effect, nodeLease, effectLease, payload, error, judged, earned>>
  BY DEF StartIteration, MayRepair
<1>4. nodeLease = NoParent /\ effectLease = NoParent /\ iterLease = NoParent /\ live = {}
  BY <1>3 DEF RunInv, RunTypeOK, Grip, Working, Holdings
<1>5. RunTypeOK'
  <2>1. pos' \in 1..Len(NodesOf(repairing)')
    BY <1>3 DEF NodesOf
  <2>2. iteration' \in 0..MaxIterations
    BY <1>3 DEF RunInv, RunTypeOK
  <2>3. {iterLease, nodeLease, effectLease}' \subseteq 0..nextId'
    BY <1>1, <1>3, <1>4 DEF NoParent
  <2>4. QED
    BY <1>3, <2>1, <2>2, <2>3 DEF RunInv, RunTypeOK, Phases
<1>6. Grip' /\ VerdictsAreJudged'
  <2>1. Grip'
    BY <1>1, <1>3, <1>4 DEF RunInv, Grip, Working, NoParent
  <2>2. VerdictsAreJudged'
    <3>1. Node'.kind = "repair"
      BY <1>3, ValidTopology DEF Node, NodesOf, After
    <3>2. Judged' <=> Judged
      BY <1>3 DEF Judged, StartIteration
    <3>3. QED
      BY <1>3, <3>1, <3>2 DEF RunInv, VerdictsAreJudged
  <2>3. QED
    BY <2>1, <2>2
<1>7. Holdings'
  BY <1>1, <1>3, <1>4 DEF Holdings, NoParent
<1>8. ChargedAtRoot'
  BY <1>1, <1>2, <1>3, <1>4 DEF RunInv, ChargedAtRoot
<1>9. QED
  BY <1>5, <1>6, <1>7, <1>8 DEF RunInv

LEMMA ReturnKeepsRunInv ==
  ASSUME TypeOK, RunInv, Return
  PROVE  RunInv'
<1>1. RunTypeOK'
  BY DEF Return, RunInv, RunTypeOK, Phases, Over, NodesOf, vars
<1>2. Grip' /\ VerdictsAreJudged'
  BY DEF Return, RunInv, Grip, Working, VerdictsAreJudged, Judged
<1>3. Holdings' /\ ChargedAtRoot'
  BY DEF Return, RunInv, Holdings, ChargedAtRoot, vars
<1>4. QED
  BY <1>1, <1>2, <1>3 DEF RunInv

LEMMA CloseIterationKeepsRunInv ==
  ASSUME TypeOK, RunInv, CloseIteration
  PROVE  RunInv'
<1>1. /\ iterLease \in live /\ live' = live \ {iterLease} /\ nextId' = nextId
      /\ lease' = lease /\ spent' = spent /\ rootSpent' = rootSpent /\ childSpent' = childSpent
  BY Released DEF CloseIteration
<1>2. RunTypeOK'
  <2>1. pos' \in 1..Len(NodesOf(repairing)')
    BY DEF CloseIteration, NodesOf
  <2>2. phase' \in Phases
    BY DEF CloseIteration, Phases, Over
  <2>3. {iterLease, nodeLease, effectLease}' \subseteq 0..nextId'
    BY <1>1 DEF CloseIteration, RunInv, RunTypeOK, NoParent, TypeOK
  <2>4. QED
    BY <1>1, <2>1, <2>2, <2>3 DEF CloseIteration, RunInv, RunTypeOK
<1>3. Grip'
  BY DEF CloseIteration, RunInv, RunTypeOK, Grip, Working
<1>4. Holdings' /\ ChargedAtRoot'
  BY <1>1 DEF CloseIteration, RunInv, RunTypeOK, TypeOK, Grip, Working, Holdings, ChargedAtRoot, NoParent
<1>5. VerdictsAreJudged'
  BY DEF CloseIteration, RunInv, VerdictsAreJudged, Judged
<1>6. QED
  BY <1>2, <1>3, <1>4, <1>5 DEF RunInv

LEMMA StepRunInv == TypeOK /\ RunInv /\ [ExecNext]_execVars => RunInv'
<1> SUFFICES ASSUME TypeOK, RunInv, [ExecNext]_execVars
             PROVE  RunInv'
  OBVIOUS
<1>1. CASE UNCHANGED execVars
  BY <1>1 DEF execVars, runVars, vars, RunInv, RunTypeOK, Grip, Holdings, ChargedAtRoot,
              VerdictsAreJudged, Judged, Node, NodesOf, Wants
<1>2. QED
  BY <1>1, SeedKeepsRunInv, EnterNodeKeepsRunInv, RefuseNodeKeepsRunInv, DispatchKeepsRunInv,
     RefuseEffectKeepsRunInv, AnswerKeepsRunInv, FailKeepsRunInv, UnmeasuredKeepsRunInv,
     FinishKeepsRunInv, LeaveNodeKeepsRunInv, RaiseNodeKeepsRunInv, StartIterationKeepsRunInv,
     CloseIterationKeepsRunInv, ReturnKeepsRunInv, CancelKeepsRunInv
     DEF ExecNext, Work, Rest

-----------------------------------------------------------------------------
(* The theorems *)

LEMMA ExecInduction ==
  /\ ExecInit => IInv /\ RunInv
  /\ IInv /\ RunInv /\ [ExecNext]_execVars => IInv' /\ RunInv' /\ [Next]_vars
<1>1. ExecInit => IInv /\ RunInv
  BY InitInv, RunInvInit DEF ExecInit
<1>2. IInv /\ RunInv /\ [ExecNext]_execVars => IInv' /\ RunInv' /\ [Next]_vars
  BY IsGovernorStep, StepInv, StepRunInv DEF IInv, RunInv
<1>3. QED
  BY <1>1, <1>2

\* The invariant of the ledger and of the run, on which the rest stands.
THEOREM ExecutorInvariant == ExecSpec => [](IInv /\ RunInv)
BY ExecInduction, PTL DEF ExecSpec

\* A run stays in shape: a node of its chain or loop is at work, its counters
\* stay in range and its leases were issued (executor.py:150-248).
THEOREM RunTypeCorrect == ExecSpec => []RunTypeOK
<1>1. RunInv => RunTypeOK
  BY DEF RunInv
<1>2. QED
  BY <1>1, ExecutorInvariant, PTL

\* Exactly the leases a run holds are live, on every exit from a node, an effect
\* or an iteration, so a run that returned or failed holds none
\* (executor.py:174-198, 236-246, dispatch.py:113-128).
THEOREM LeasesAreReturned == ExecSpec => []NoLeaseIsLost
<1>1. RunInv => NoLeaseIsLost
  BY DEF RunInv, RunTypeOK, Grip, Working, Holdings, NoLeaseIsLost
<1>2. QED
  BY <1>1, ExecutorInvariant, PTL

\* A returned payload carries the verdict of the judge on the files as they are
\* (validator.py:151-170).
THEOREM ReturnedIsJudged == ExecSpec => []ResultIsJudged
<1>1. RunInv => ResultIsJudged
  BY DEF RunInv, VerdictsAreJudged, Judged, ResultIsJudged
<1>2. QED
  BY <1>1, ExecutorInvariant, PTL

\* Because the validator bounds the sum of the budgets of a repair loop, and no
\* child of an iteration is charged for more than it reserved, no node of any
\* iteration is refused (validator.py:171-198).
THEOREM RepairIsFunded == ExecSpec => []IterationIsFunded
<1>1. IInv /\ RunInv => IterationIsFunded
  <2> SUFFICES ASSUME IInv, RunInv, phase = "enter", repairing, NEW d \in Dims
               PROVE  ~(Node.budget[d] > parentRemaining[iterLease][d])
    BY DEF IterationIsFunded, NodeFundable, Exceeds
  <2>1. /\ iterLease # NoParent /\ live = {iterLease}
        /\ lease[iterLease].parent = NoParent
        /\ lease[iterLease].reserved = IterationBudget
    BY DEF RunInv, Grip, Working, Holdings, ChargedAtRoot
  <2>2. iterLease \in 1..nextId /\ iterLease \in LeaseIds
    BY <2>1 DEF IInv, TypeOK, LeaseIds
  <2>3. HeldUnder(iterLease, d) = 0
    <3>1. Children(iterLease) = {}
      BY <2>1 DEF Children
    <3>2. QED
      BY <3>1, HeldNothing DEF HeldUnder, IInv, TypeOK
  <2>4. childSpent[iterLease][d] = 0
    BY <2>2 DEF RunInv, ChargedAtRoot, Zero
  <2>5. parentRemaining[iterLease][d] = IterationBudget[d]
    <3>1. parentRemaining[iterLease][d] + HeldUnder(iterLease, d) + childSpent[iterLease][d]
            = lease[iterLease].reserved[d]
      BY <2>2 DEF IInv, ParentConserved
    <3>2. parentRemaining[iterLease][d] \in Int
      BY <2>2, NumberTypes DEF IInv
    <3>3. QED
      BY <2>1, <2>3, <2>4, <3>1, <3>2
  <2>6. Via[pos].budget[d] <= IterationBudget[d]
    <3> DEFINE n == Len(Via)
               f == [i \in 1..n |-> Via[i].budget[d]]
    <3>1. n \in Nat /\ pos \in 1..n
      BY DEF RunInv, RunTypeOK, NodesOf
    <3>2. f \in [1..n -> Nat]
      <4>1. Via \in Seq(Nodes)
        OBVIOUS
      <4>2. \A i \in 1..n : Via[i] \in Nodes
        BY <4>1
      <4>3. \A i \in 1..n : Via[i].budget \in Budgets
        BY <4>2 DEF Nodes
      <4>4. QED
        BY <4>3 DEF Budgets
    <3>3. IterationBudget[d] \in Nat
      BY DEF Budgets
    <3>4. SumTo(f, n) <= IterationBudget[d]
      BY ValidTopology
    <3>5. f[pos] = Via[pos].budget[d] /\ f[pos] \in Nat
      BY <3>1, <3>2
    <3> HIDE DEF f, n
    <3>6. f[pos] <= SumTo(f, n) /\ SumTo(f, n) \in Nat
      BY <3>1, <3>2, TermAtMostSum, SumToNat
    <3>7. QED
      BY <3>3, <3>4, <3>5, <3>6
  <2>7. Via[pos].budget[d] \in Nat /\ IterationBudget[d] \in Nat /\ Node = Via[pos]
    BY NodeAtWork DEF RunInv, Node, NodesOf, Budgets
  <2>8. QED
    BY <2>5, <2>6, <2>7
<1>2. QED
  BY <1>1, ExecutorInvariant, PTL

\* When a run holds nothing, what remains of its ceiling is the ceiling less all
\* that was spent: the engine never charges a lease other than a root lease
\* (engine.py:196-200, resource_governor.py:38-50).
THEOREM RemainingIsExact == ExecSpec => []RemainingIsWhatIsLeft
<1>1. IInv /\ RunInv => RemainingIsWhatIsLeft
  <2> SUFFICES ASSUME IInv, RunInv, live = {}, NEW r \in Runs, NEW d \in Constrained(r)
               PROVE  rootRemaining[r][d] = ceiling[r][d] - spent[r][d]
    BY DEF RemainingIsWhatIsLeft
  <2>1. d \in Dims
    BY DEF Constrained
  <2>2. HeldAtRoot(r, d) = 0
    <3>1. RootLeases(r) = {}
      BY DEF RootLeases
    <3>2. QED
      BY <2>1, <3>1, HeldNothing DEF HeldAtRoot, IInv, TypeOK
  <2>3. rootRemaining[r][d] + HeldAtRoot(r, d) + rootSpent[r][d] = ceiling[r][d]
    BY DEF IInv, RootConserved
  <2>4. /\ rootRemaining[r][d] \in Int /\ rootSpent[r][d] \in Int /\ ceiling[r][d] \in Int
        /\ rootSpent[r][d] = spent[r][d]
    BY <2>1, NumberTypes DEF IInv, RunInv, ChargedAtRoot
  <2>5. QED
    BY <2>2, <2>3, <2>4
<1>2. QED
  BY <1>1, ExecutorInvariant, PTL

\* A run that is over holds nothing and its books add up (executor.py:174-198).
THEOREM SettledLedger == ExecSpec => []LedgerIsSettled
BY LeasesAreReturned, RemainingIsExact, PTL DEF LedgerIsSettled

\* Nothing is reserved from the run unless all it spent and all it holds, the new
\* lease included, fits under the ceiling (engine.py:196-200, governor.py:107-121).
THEOREM CeilingFailsClosed == ExecSpec => FailClosed
<1> DEFINE Fits ==
      nextId' # nextId /\ lease'[nextId'].parent = NoParent =>
        \A d \in Constrained(RunId) :
          HeldAtRoot(RunId, d)' + spent'[RunId][d] <= ceiling[RunId][d]
<1>1. ASSUME NEW dims \in Requests, ReserveRoot(RunId, dims), IInv, IInv', RunInv'
      PROVE  Fits
  <2> SUFFICES ASSUME NEW d \in Constrained(RunId)
               PROVE  HeldAtRoot(RunId, d)' + spent'[RunId][d] <= ceiling[RunId][d]
    OBVIOUS
  <2>1. d \in Dims /\ ceiling' = ceiling /\ d \in Constrained(RunId)'
    BY <1>1 DEF Constrained, ReserveRoot, NewLease
  <2>2. rootRemaining'[RunId][d] >= 0
    <3>1. rootRemaining' = [rootRemaining EXCEPT ![RunId] =
            [c \in Dims |-> IF c \in Constrained(RunId)
                            THEN rootRemaining[RunId][c] - dims[c] ELSE rootRemaining[RunId][c]]]
      BY <1>1 DEF ReserveRoot
    <3>2. rootRemaining'[RunId][d] = rootRemaining[RunId][d] - dims[d]
      BY <1>1, <2>1, <3>1 DEF IInv, TypeOK
    <3>3. dims[d] <= rootRemaining[RunId][d]
      BY <1>1 DEF ReserveRoot, RootCanFund
    <3>4. dims[d] \in Nat /\ rootRemaining[RunId][d] \in Int
      BY <1>1, <2>1, NumberTypes DEF IInv, Budgets
    <3>5. QED
      BY <3>2, <3>3, <3>4
  <2>3. rootRemaining'[RunId][d] + HeldAtRoot(RunId, d)' + rootSpent'[RunId][d] = ceiling'[RunId][d]
    BY <1>1, <2>1 DEF IInv, RootConserved
  <2>4. rootSpent' = spent'
    BY <1>1 DEF RunInv, ChargedAtRoot
  <2>5. /\ rootRemaining'[RunId][d] \in Int /\ HeldAtRoot(RunId, d)' \in Int
        /\ rootSpent'[RunId][d] \in Int /\ ceiling'[RunId][d] \in Int
    <3>1. /\ rootRemaining'[RunId][d] \in Int /\ rootSpent'[RunId][d] \in Int
          /\ ceiling'[RunId][d] \in Int
      BY <1>1, <2>1 DEF IInv, TypeOK, Budgets
    <3> DEFINE L == lease'
               S == RootLeases(RunId)'
    <3>2. L \in [LeaseIds -> Leases] /\ HeldAtRoot(RunId, d)' = Held(L, S, d)
      BY <1>1 DEF IInv, TypeOK, HeldAtRoot
    <3> HIDE DEF L, S
    <3>3. Held(L, S, d) \in Nat
      BY <2>1, <3>2, HeldInt
    <3>4. QED
      BY <3>1, <3>2, <3>3
  <2>6. QED
    BY <2>1, <2>2, <2>3, <2>4, <2>5
<1>2. ASSUME IInv, RunInv, IInv', RunInv', [ExecNext]_execVars
      PROVE  Fits
  <2>1. CASE EnterNode
    <3>1. Node.budget \in Requests
      BY NodeAtWork, <1>2 DEF RunInv
    <3>2. CASE ReserveRoot(RunId, Node.budget)
      BY <1>1, <1>2, <3>1, <3>2
    <3>3. CASE ReserveChild(iterLease, Node.budget)
      <4>1. /\ iterLease \in LeaseIds /\ iterLease # NoParent
            /\ nextId' = nextId + 1 /\ nextId + 1 \in LeaseIds
            /\ lease' = [lease EXCEPT ![nextId + 1] =
                 [run |-> lease[iterLease].run, parent |-> iterLease, reserved |-> Node.budget]]
        BY <1>2, <3>3 DEF ReserveChild, NewLease, IInv, TypeOK, LeaseIds, NoParent
      <4>2. lease'[nextId'].parent = iterLease
        BY <1>2, <4>1 DEF IInv, TypeOK
      <4>3. QED
        BY <4>1, <4>2
    <3>4. QED
      BY <2>1, <3>2, <3>3 DEF EnterNode
  <2>2. ASSUME NEW class \in Classes, Dispatch(class)
        PROVE  Fits
    <3>1. Estimate[class] \in Requests
      OBVIOUS
    <3>2. QED
      BY <1>1, <1>2, <2>2, <3>1 DEF Dispatch
  <2>3. CASE StartIteration
    BY <1>1, <1>2, <2>3 DEF StartIteration
  <2>4. ASSUME NEW actuals, Answer(actuals)
        PROVE  nextId' = nextId
    BY <2>4 DEF Answer, Commit
  <2>5. ASSUME \/ \E dims \in Ceilings : Seed(dims)
               \/ Fail \/ LeaveNode \/ RaiseNode \/ CloseIteration \/ Cancel
        PROVE  nextId' = nextId
    BY <2>5 DEF Seed, SeedRunBudget, Fail, LeaveNode, RaiseNode, CloseIteration, Cancel, Release, vars
  <2>6. ASSUME \/ RefuseNode \/ Unmeasured \/ Finish \/ Return \/ Rest
               \/ \E class \in Classes : RefuseEffect(class)
               \/ UNCHANGED execVars
        PROVE  nextId' = nextId
    BY <2>6 DEF RefuseNode, Unmeasured, Finish, Return, Rest, RefuseEffect, execVars, vars
  <2> HIDE DEF Fits
  <2>7. nextId' = nextId => Fits
    BY DEF Fits
  <2>8. QED
    BY <1>2, <2>1, <2>2, <2>3, <2>4, <2>5, <2>6, <2>7 DEF ExecNext, Work
<1>3. IInv /\ RunInv /\ IInv' /\ RunInv' /\ [ExecNext]_execVars => [Fits]_execVars
  BY <1>2
<1>4. QED
  BY <1>3, ExecutorInvariant, PTL DEF ExecSpec, FailClosed

\* If the judge is the last node of the chain and of the loop and no other, a
\* run that was given NONE reserves nothing more (executor.py:9-16, 218-223).
THEOREM NoneIsFinal ==
  ASSUME \A r \in BOOLEAN : \A i \in 1..(Len(NodesOf(r)) - 1) : NodesOf(r)[i].kind # "evaluate"
  PROVE  ExecSpec => NoneIsNeverRepaired
<1> DEFINE Final == payload.verdict = "NONE" =>
      \/ phase \in {"close", "decide", "returned", "failed"}
      \/ phase = "leave" /\ Node.kind = "evaluate"
<1>1. ExecInit => Final
  <2> SUFFICES ASSUME ExecInit
               PROVE  payload.verdict # "NONE"
    OBVIOUS
  <2>1. payload.verdict = NoVerdict
    BY DEF ExecInit
  <2>2. QED
    BY <2>1 DEF NoVerdict
<1>2. ASSUME IInv, RunInv, Final, [ExecNext]_execVars
      PROVE  Final' /\ (payload.verdict = "NONE" => nextId' = nextId)
  <2>1. CASE payload.verdict = "NONE"
    <3>1. ASSUME NEW actuals, Answer(actuals)
          PROVE  FALSE
      BY <1>2, <2>1, <3>1 DEF Answer
    <3>2. ASSUME \/ \E dims \in Ceilings : Seed(dims)
                 \/ EnterNode \/ RefuseNode
                 \/ \E class \in Classes : Dispatch(class) \/ RefuseEffect(class)
                 \/ Fail \/ Unmeasured \/ Finish \/ RaiseNode \/ StartIteration \/ Cancel
          PROVE  FALSE
      BY <1>2, <2>1, <3>2 DEF Seed, EnterNode, RefuseNode, Dispatch, RefuseEffect, Fail,
         Unmeasured, Finish, RaiseNode, StartIteration, MayRepair, Cancel
    <3>3. CASE LeaveNode
      <4>1. Node.kind = "evaluate" /\ nextId' = nextId
        BY <1>2, <2>1, <3>3 DEF LeaveNode, Release
      <4>2. ~(pos < Len(NodesOf(repairing)))
        <5>1. SUFFICES ASSUME pos < Len(NodesOf(repairing))
                       PROVE  FALSE
          OBVIOUS
        <5>2. pos \in 1..(Len(NodesOf(repairing)) - 1) /\ repairing \in BOOLEAN
          BY <1>2, <5>1, NodeAtWork DEF RunInv, RunTypeOK
        <5>3. QED
          BY <4>1, <5>2 DEF Node
      <4>3. phase' \in {"close", "decide"} /\ payload' = payload
        BY <3>3, <4>2 DEF LeaveNode, Advance
      <4>4. QED
        BY <4>1, <4>3
    <3>4. CASE CloseIteration \/ Return
      <4>1. nextId' = nextId /\ payload' = payload
        BY <3>4 DEF CloseIteration, Return, Release, vars
      <4>2. phase' \in {"decide", "failed", "returned"}
        BY <3>4 DEF CloseIteration, Return
      <4>3. QED
        BY <4>1, <4>2
    <3>5. CASE Rest \/ UNCHANGED execVars
      BY <1>2, <3>5 DEF Rest, execVars, runVars, vars, Node, NodesOf
    <3>6. QED
      BY <1>2, <3>1, <3>2, <3>3, <3>4, <3>5 DEF ExecNext, Work
  <2>2. CASE payload.verdict # "NONE"
    <3>1. ASSUME NEW actuals, Answer(actuals)
          PROVE  Final'
      <4>1. CASE effect = "evaluate"
        <5>1. Node.kind = "evaluate" /\ Node' = Node /\ phase' = "leave"
          BY <1>2, <3>1, <4>1 DEF Answer, RunInv, Grip, Wants, Node, NodesOf
        <5>2. QED
          BY <5>1
      <4>2. CASE effect = "model"
        <5>1. PICK failed \in BOOLEAN : payload' = [verdict |-> NoVerdict, unproduced |-> failed]
          BY <3>1, <4>2 DEF Answer
        <5>2. payload'.verdict = NoVerdict
          BY <5>1
        <5>3. QED
          BY <5>2 DEF NoVerdict
      <4>3. CASE effect \in {"read", "write"}
        BY <2>2, <3>1, <4>3 DEF Answer
      <4>4. effect \in Classes
        BY <1>2, <3>1 DEF Answer, RunInv, Grip
      <4>5. QED
        BY <4>1, <4>2, <4>3, <4>4 DEF Classes
    <3>2. CASE Unmeasured
      <4>1. Node.kind = "evaluate" /\ Node' = Node /\ phase' = "leave"
        BY <3>2 DEF Unmeasured, Node, NodesOf
      <4>2. QED
        BY <2>2, <4>1
    <3>3. ASSUME \/ \E dims \in Ceilings : Seed(dims)
                 \/ EnterNode \/ RefuseNode
                 \/ \E class \in Classes : Dispatch(class) \/ RefuseEffect(class)
                 \/ Fail \/ Finish \/ LeaveNode \/ RaiseNode \/ StartIteration
                 \/ CloseIteration \/ Return \/ Cancel \/ Rest \/ UNCHANGED execVars
          PROVE  payload' = payload
      BY <3>3 DEF Seed, EnterNode, RefuseNode, Dispatch, RefuseEffect, Fail, Finish, LeaveNode,
         RaiseNode, StartIteration, CloseIteration, Return, Cancel, Rest, execVars, runVars
    <3>4. payload' = payload => Final'
      BY <2>2
    <3> HIDE DEF Final
    <3>5. QED
      BY <1>2, <2>2, <3>1, <3>2, <3>3, <3>4 DEF ExecNext, Work
  <2>3. QED
    BY <2>1, <2>2
<1> HIDE DEF Final
<1>3. Final /\ IInv /\ RunInv /\ [ExecNext]_execVars =>
        Final' /\ [payload.verdict = "NONE" => nextId' = nextId]_execVars
  BY <1>2
<1>4. QED
  BY <1>1, <1>3, ExecutorInvariant, PTL DEF ExecSpec, NoneIsNeverRepaired

=============================================================================
