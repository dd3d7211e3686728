------------------------------ MODULE Topology ------------------------------
(***************************************************************************)
(* A topology file from its author to its end: the edges and the repair    *)
(* block it declares, the static checks of validate_topology, and the      *)
(* executor, which walks one edge out of each node (the one listed last)   *)
(* and then unrolls the repair block.  What a node makes of its input is   *)
(* kept as the type of the payload: apply and evaluate raise on one of     *)
(* another type, the other nodes read what they find in it.                *)
(*                                                                         *)
(* on_pass and on_fail edges are treated as always by both sides, so two   *)
(* conditions are kept; fan_out sites are checked but never executed, and  *)
(* left out.  Node 0 stands for an id the file does not declare.           *)
(***************************************************************************)
EXTENDS Sums, Sequences, FiniteSets

CONSTANTS
  KindOf,         \* the kinds of the nodes, in the order the file lists them
  BudgetOf,       \* their budgets, in one dimension; 0 is no annotation
  EdgeChoices,    \* the edges the file may have
  RepairChoices   \* the repair blocks it may have

KindNames == {"retrieve", "architect", "generate", "apply", "evaluate", "reflector", "repair"}
Ids == 1..Len(KindOf)
NoBlock == [from |-> 0, via |-> <<>>, back |-> 0, iterations |-> 0, budget |-> 0]

TopologyAssumption ==
  /\ KindOf \in Seq(KindNames) /\ BudgetOf \in [Ids -> Nat]
  /\ EdgeChoices \subseteq [from : 0..Len(KindOf), to : 0..Len(KindOf),
                            when : {"always", "on_instrument_error"}]
  /\ NoBlock \in RepairChoices
  /\ \A r \in RepairChoices : r.via \in Seq(0..Len(KindOf))

VARIABLES
  stage,      \* what the file is at
  edges,      \* its edges
  repair,     \* its repair block, or NoBlock
  last,       \* edge_map: by node, where its last listed edge goes
  ran,        \* the nodes run, in order
  loop,       \* iterations of the repair block left, and the nodes left of this one
  payload     \* the type of the payload

topologyVars == <<stage, edges, repair, last, ran, loop, payload>>

Payloads == {"TaskInput", "RetrievedContext", "GeneratedPatch", "AppliedPatch", "EvaluatedCandidate"}

\* NODE_SOCKETS: what a kind takes and gives, by its declaration
Takes == [kind \in KindNames |->
  CASE kind = "retrieve" -> "TaskInput"
    [] kind \in {"architect", "generate"} -> "RetrievedContext"
    [] kind = "apply" -> "GeneratedPatch"
    [] kind = "evaluate" -> "AppliedPatch"
    [] OTHER -> "EvaluatedCandidate"]
Gives == [kind \in KindNames |->
  CASE kind \in {"retrieve", "architect"} -> "RetrievedContext"
    [] kind \in {"generate", "repair"} -> "GeneratedPatch"
    [] kind = "apply" -> "AppliedPatch"
    [] OTHER -> "EvaluatedCandidate"]

TopologyTypeOK ==
  /\ stage \in {"writing", "refused", "running", "unrolling", "done", "failed"}
  /\ edges \subseteq EdgeChoices /\ repair \in RepairChoices
  /\ DOMAIN last \subseteq Ids /\ \A n \in DOMAIN last : last[n] \in Ids
  /\ ran \in Seq(Ids) /\ payload \in Payloads
  /\ loop \in [left : 0..16, todo : Seq(Ids)]

TopologyInit ==
  /\ stage = "writing" /\ edges = {} /\ repair \in RepairChoices
  /\ last = <<>> /\ ran = <<>> /\ loop = [left |-> 0, todo |-> <<>>] /\ payload = "TaskInput"

Draw(e) ==
  /\ stage = "writing" /\ e \notin edges
  /\ edges' = edges \cup {e}
  /\ UNCHANGED <<stage, repair, last, ran, loop, payload>>

-----------------------------------------------------------------------------
(* The checks *)

InEdges == {e.from : e \in edges} \cup {e.to : e \in edges}
EntryNodes == InEdges \ {e.to : e \in edges}
RepairChain == repair.via \o <<repair.back>>

BoundedIteration ==
  repair # NoBlock =>
    /\ repair.iterations \in 1..16
    /\ {repair.from, repair.back} \subseteq Ids
    /\ \A i \in 1..Len(repair.via) : repair.via[i] \in Ids
    /\ KindOf[repair.from] = "evaluate" /\ KindOf[repair.back] = "evaluate"
    /\ SumTo([i \in 1..Len(RepairChain) |-> BudgetOf[RepairChain[i]]], Len(RepairChain))
         <= repair.budget
    /\ repair.from \notin {e.from : e \in edges}

Fits(from, to) == from \in Ids /\ to \in Ids /\ Gives[KindOf[from]] = Takes[KindOf[to]]

\* the edges of the file and those the repair block implies
SocketCompatibility ==
  /\ \A e \in edges : Fits(e.from, e.to)
  /\ repair # NoBlock =>
       LET chain == <<repair.from>> \o RepairChain IN
       \A i \in 2..Len(chain) : Fits(chain[i - 1], chain[i])

\* the walk of _reaches_evaluate stops at the first judge; a node of a cycle and
\* a node without an ordinary edge do not reach one
Ordinary(n) == {e.to : e \in {f \in edges : f.from = n /\ f.when # "on_instrument_error"}}
BugReaching(R) == {n \in InEdges : Ordinary(n) \subseteq R}
Reaching(R) == {n \in InEdges : Ordinary(n) # {} /\ Ordinary(n) \subseteq R}
Judges == {n \in InEdges : KindOf[n] = "evaluate"}
\* the least set with the judges in it that is closed under Reaching
EvaluatorTermination ==
  \A R \in SUBSET InEdges :
    Judges \cup Reaching(R) \subseteq R => (IF EntryNodes = {} THEN InEdges ELSE EntryNodes) \subseteq R

BudgetAnnotation == \A n \in Ids : BudgetOf[n] # 0

Accepted ==
  /\ edges # {} /\ BoundedIteration /\ SocketCompatibility
  /\ EvaluatorTermination /\ BudgetAnnotation

\* the order of the file's edge list is open until here: any edge of a node may
\* be the last of it
Validate ==
  /\ stage = "writing"
  /\ stage' = IF Accepted THEN "running" ELSE "refused"
  /\ IF Accepted
     THEN last' \in {f \in [{e.from : e \in edges} -> Ids] :
                       \A n \in DOMAIN f : \E e \in edges : e.from = n /\ e.to = f[n]}
     ELSE UNCHANGED last
  /\ UNCHANGED <<edges, repair, ran, loop, payload>>

-----------------------------------------------------------------------------
(* The executor *)

\* what the step of a kind really returns: the reflector is a ModelNode, whose
\* parse folds into a GeneratedPatch
Makes(kind) == IF kind = "reflector" THEN "GeneratedPatch" ELSE Gives[kind]
Raises(kind) == kind \in {"apply", "evaluate"} /\ payload # Takes[kind]

Run(n) ==
  /\ ran' = Append(ran, n)
  /\ payload' = IF Raises(KindOf[n]) THEN payload ELSE Makes(KindOf[n])

RanSet == {ran[i] : i \in 1..Len(ran)}

\* _topological_order: every entry node in listed order, then from the last of
\* them along edge_map until it ends or comes back
NextNode ==
  IF EntryNodes \ RanSet # {}
  THEN {n \in EntryNodes \ RanSet : \A m \in EntryNodes \ RanSet : n <= m}
  ELSE IF ran # <<>> /\ ran[Len(ran)] \in DOMAIN last
  THEN {last[ran[Len(ran)]]} \ RanSet
  ELSE {}

RunNode ==
  /\ stage = "running"
  /\ \E n \in NextNode :
       /\ Run(n)
       /\ stage' = IF Raises(KindOf[n]) THEN "failed" ELSE stage
  /\ UNCHANGED <<edges, repair, last, loop>>

EndOfChain ==
  /\ stage = "running" /\ NextNode = {}
  /\ stage' = IF repair = NoBlock THEN "done" ELSE "unrolling"
  /\ loop' = [left |-> repair.iterations, todo |-> <<>>]
  /\ UNCHANGED <<edges, repair, last, ran, payload>>

\* only a failed verdict starts an iteration
Iterate ==
  /\ stage = "unrolling" /\ loop.todo = <<>> /\ loop.left > 0
  /\ payload = "EvaluatedCandidate"
  /\ loop' = [left |-> loop.left - 1, todo |-> RepairChain]
  /\ UNCHANGED <<stage, edges, repair, last, ran, payload>>

RunRepairNode ==
  /\ stage = "unrolling" /\ loop.todo # <<>>
  /\ Run(Head(loop.todo))
  /\ stage' = IF Raises(KindOf[Head(loop.todo)]) THEN "failed" ELSE stage
  /\ loop' = [loop EXCEPT !.todo = Tail(@)]
  /\ UNCHANGED <<edges, repair, last>>

EndOfRun ==
  /\ stage = "unrolling" /\ loop.todo = <<>>
  /\ stage' = "done"
  /\ UNCHANGED <<edges, repair, last, ran, loop, payload>>

TopologyNext ==
  \/ \E e \in EdgeChoices : Draw(e)
  \/ Validate \/ RunNode \/ EndOfChain \/ Iterate \/ RunRepairNode \/ EndOfRun

TopologySpec == TopologyInit /\ [][TopologyNext]_topologyVars

-----------------------------------------------------------------------------
JudgeRan == \E i \in 1..Len(ran) : KindOf[ran[i]] = "evaluate"
EndsOnJudge == ran # <<>> /\ KindOf[ran[Len(ran)]] = "evaluate"

\* a run whose repair block starts at one of the nodes run has ended on a judge
LoopIsClosed == repair.from \in RanSet => EndsOnJudge

\* the topologies the executor's comment says there are: one chain from retrieve
Chained ==
  /\ \A e, f \in edges : e.from = f.from => e = f
  /\ Cardinality(EntryNodes) = 1 /\ \A n \in EntryNodes : KindOf[n] = "retrieve"

\* A single chain the validator accepts runs without a node meeting a payload of another type, in
\* the repair iterations too, and passes a judge; when its repair block starts at a node of the
\* chain, a judge is the last to run, however many iterations were made.  A chain without such a
\* block may go on behind its judge, since the termination check stops at the first, and then ends
\* on a payload nobody judged (validate_topology, execute).
AcceptedChainIsJudged ==
  Chained => stage # "failed" /\ (stage = "done" => JudgeRan /\ LoopIsClosed)

\* "Every path from every entry node terminates at a node of kind `evaluate`
\* (structural I7 - no topology routes around the judge)"
\* (workflow_schema.yaml, x-static-checks, which promises acyclicity as well): an
\* accepted topology that has run has run the judge.
NoWayAroundTheJudge == stage = "done" => JudgeRan

-----------------------------------------------------------------------------
(* The inductive invariant.                                                *)

IsEdge(from, to) == \E e \in edges : e.from = from /\ e.to = to
LastIsAnEdge ==
  DOMAIN last = {e.from : e \in edges} /\ \A n \in DOMAIN last : last[n] \in Ids /\ IsEdge(n, last[n])

\* each node run is where the edge of the one before it goes, the first is the entry, and
\* the payload is of the last
Walked ==
  /\ payload = IF ran = <<>> THEN "TaskInput" ELSE Makes(KindOf[ran[Len(ran)]])
  /\ ran # <<>> => EntryNodes \subseteq RanSet
  /\ \A i \in 1..(Len(ran) - 1) : ran[i] \in DOMAIN last /\ last[ran[i]] = ran[i + 1]

\* the nodes left are the repair chain from its k-th on, the payload is of the one before
Unrolled(k) ==
  /\ loop.todo = SubSeq(RepairChain, k, Len(RepairChain))
  /\ k = 1 => payload = "EvaluatedCandidate"
  /\ k \in 2..Len(RepairChain) => payload = Makes(KindOf[RepairChain[k - 1]])

TopologyInv ==
  /\ TopologyTypeOK
  /\ stage \in {"writing", "running"} => loop = [left |-> 0, todo |-> <<>>]
  /\ stage = "writing" => ran = <<>> /\ payload = "TaskInput"
  /\ stage \notin {"writing", "refused"} => Accepted /\ LastIsAnEdge
  /\ stage = "unrolling" => repair # NoBlock /\ \E k \in 1..(Len(RepairChain) + 1) : Unrolled(k)
  /\ Chained => /\ stage = "running" => Walked
                /\ stage \in {"unrolling", "done"} => JudgeRan
                /\ stage = "unrolling" /\ loop.todo = <<>> => LoopIsClosed
                /\ stage = "done" => LoopIsClosed
                /\ stage # "failed"
=============================================================================
