------------------------------ MODULE RunLoop ------------------------------
(***************************************************************************)
(* One run of sagiha, from its first process to its last: the loop of      *)
(* agency/run_loop.py (model call, tool calls, gates, repair), what it     *)
(* leaves on disk (the trajectory, the run's record, the freeze file, the  *)
(* repository) and what dies with its process (taint, spend, the base      *)
(* commit).  A process may die anywhere; a host brings the run back with   *)
(* `sagiha run --resume` or with RunLoop.thaw.                             *)
(*                                                                         *)
(* Time, money per token, prompts and tool arguments are abstracted: the   *)
(* wall clock may run out at any step, a reply costs a member of Costs,    *)
(* and its calls are chosen one by one.                                    *)
(***************************************************************************)
EXTENDS Integers, Sequences, FiniteSets

CONSTANTS
  Entries,       \* how the host brings a run back: a subset of {"resume", "thaw"}
  MaxSteps,      \* RunLoop._max_steps: steps of one attempt
  MaxAttempts,   \* RepairConfig.max_attempts; 0 stands for repair disabled
  StuckRepeat,   \* _STUCK_REPEAT_THRESHOLD
  Limit,         \* GovernorConfig.max_spend_usd_per_run, in units of money
  Costs,         \* what a completion may cost
  Outputs,       \* what a failing acceptance check may print
  MaxCalls,      \* bound: tool calls of one reply
  MaxCommits,    \* bound: commits the shell makes
  MaxProcesses   \* bound: processes of the run

ASSUME RunLoopAssumption ==
  /\ Entries \subseteq {"resume", "thaw"}
  /\ MaxSteps \in Nat \ {0} /\ MaxAttempts \in Nat /\ StuckRepeat \in Nat \ {0}
  /\ Limit \in Nat /\ Costs \subseteq Nat
  /\ MaxCalls \in Nat /\ MaxCommits \in Nat /\ MaxProcesses \in Nat
  /\ "pass" \notin Outputs /\ "unread" \notin Outputs

VARIABLES
  status,     \* the run's record in the trajectory store
  steps,      \* the seqs of the steps in the trajectory store
  freeze,     \* the freeze file
  repo,       \* [head, edited, tampered]: HEAD, a forbidden edit not committed, the
              \* last commit that carries one (0: none)
  loop,       \* the process
  audit       \* history: what the code does not remember

vars == <<status, steps, freeze, repo, loop, audit>>

None == [none |-> TRUE]

\* apply_edit and write_file report on themselves; the other tools surface foreign bytes,
\* and a read is a command that changes nothing (the queries of the harness's own index are
\* trusted and do nothing: here they are a call that raises)
Calls == {"write", "shell"}

\* a result of a tool is authored by the harness when the policy refuses the
\* call, when the handler raises, and when the tool reports on itself
Results == [call : Calls, trust : {"denied", "error", "trusted", "untrusted"}]

Idle == [pc |-> "dead", thawing |-> FALSE, tainted |-> FALSE, spent |-> 0, base |-> 0,
         seq |-> 0, left |-> 0, attempt |-> 0, asked |-> [c \in Calls |-> 0],
         results |-> <<>>, stuck |-> FALSE, signatures |-> {}, report |-> None,
         outcome |-> "none"]

Fresh == [seen |-> {}, billed |-> 0, evaluations |-> 0]

Init ==
  /\ status = "none" /\ steps = {} /\ freeze = None
  /\ repo = [head |-> 0, edited |-> FALSE, tampered |-> 0]
  /\ loop = Idle
  /\ audit = [processes |-> 0, resumed |-> FALSE, mine |-> Fresh]

-----------------------------------------------------------------------------
(* The process: its birth and its death.                                   *)

BugNextSeq == IF steps = {} THEN 1 ELSE CHOOSE s \in steps : \A t \in steps : t <= s

NextSeq == IF steps = {} THEN 1 ELSE (CHOOSE s \in steps : \A t \in steps : t <= s) + 1

\* range() up to and with start + max_steps
BugBegin(seq, base, tainted, thawing) ==
  loop' = [Idle EXCEPT !.pc = "step", !.seq = seq, !.left = MaxSteps + 1, !.attempt = 1,
                       !.base = base, !.tainted = tainted, !.thawing = thawing]

\* run(): the loop of a process that starts at seq, with its taint and base commit
Begin(seq, base, tainted, thawing) ==
  loop' = [Idle EXCEPT !.pc = "step", !.seq = seq, !.left = MaxSteps, !.attempt = 1,
                       !.base = base, !.tainted = tainted, !.thawing = thawing]

Process(resumed, seen) ==
  /\ loop.pc = "dead" /\ audit.processes < MaxProcesses
  /\ audit' = [processes |-> audit.processes + 1, resumed |-> resumed,
               mine |-> [Fresh EXCEPT !.seen = seen]]
  /\ status' = "working"
  /\ UNCHANGED <<steps, freeze, repo>>

Start ==
  /\ status = "none"
  /\ Process(FALSE, {})
  /\ Begin(1, repo.head, FALSE, FALSE)

\* --resume takes any run the store knows, with a RunContext that has no base commit
Resume ==
  /\ "resume" \in Entries /\ status # "none"
  /\ Process(TRUE, {})
  /\ Begin(NextSeq, repo.head, FALSE, FALSE)

BugThaw ==
  /\ "thaw" \in Entries /\ freeze # None
  /\ Process(audit.resumed, freeze.seen)
  /\ Begin(NextSeq, freeze.base, FALSE, TRUE)

Thaw ==
  /\ "thaw" \in Entries /\ freeze # None
  /\ Process(audit.resumed, freeze.seen)
  /\ Begin(NextSeq, freeze.base, freeze.tainted, TRUE)

\* what the process knew goes with it
Exit == loop' = Idle /\ audit' = [audit EXCEPT !.mine = Fresh]

Crash ==
  /\ loop.pc # "dead"
  /\ Exit
  /\ UNCHANGED <<status, steps, freeze, repo>>

-----------------------------------------------------------------------------
(* One step of _step_phase.                                                *)

\* the base commit taken again when the run is frozen
BugSnapshot(reason) ==
  [reason |-> reason, tainted |-> loop.tainted, base |-> repo.head, seen |-> audit.mine.seen]

\* the freeze file; its next_seq and budget are written and read by nothing, and `seen` is
\* history
Snapshot(reason) ==
  [reason |-> reason, tainted |-> loop.tainted, base |-> loop.base, seen |-> audit.mine.seen]

OutOfTime ==
  /\ loop.pc = "step"
  /\ loop' = [loop EXCEPT !.pc = "close", !.outcome = "failed"]
  /\ UNCHANGED <<status, steps, freeze, repo, audit>>

Park ==
  /\ loop.pc = "step" /\ loop.spent >= Limit
  /\ freeze' = Snapshot("budget")
  /\ loop' = [loop EXCEPT !.pc = "close", !.outcome = "parked"]
  /\ UNCHANGED <<status, steps, repo, audit>>

\* record_spend is called from nowhere
BugComplete(cost, failover) ==
  /\ loop.pc = "step" /\ loop.spent < Limit
  /\ freeze' = IF failover THEN Snapshot("failover") ELSE freeze
  /\ loop' = [loop EXCEPT !.pc = "tools"]
  /\ audit' = [audit EXCEPT !.mine.billed = @ + cost]
  /\ UNCHANGED <<status, steps, repo>>

\* a model call; the provider may have changed under it
Complete(cost, failover) ==
  /\ loop.pc = "step" /\ loop.spent < Limit
  /\ freeze' = IF failover THEN Snapshot("failover") ELSE freeze
  /\ loop' = [loop EXCEPT !.pc = "tools", !.spent = @ + cost]
  /\ audit' = [audit EXCEPT !.mine.billed = @ + cost]
  /\ UNCHANGED <<status, steps, repo>>

Asking ==
  loop.pc = "tools" /\ ~loop.stuck /\ Len(loop.results) < MaxCalls

Repeats(call) == loop.asked[call] + 1 >= StuckRepeat

Answered(call, trust) ==
  loop' = [loop EXCEPT !.asked[call] = @ + 1,
                       !.results = Append(@, [call |-> call, trust |-> trust]),
                       !.tainted = @ \/ trust = "untrusted",
                       !.report = IF @ = None THEN @ ELSE [@ EXCEPT !.current = FALSE]]

\* the TaintGate refuses the writing tools, and only those, before a grant is minted
TaintGate(call) == call = "write" /\ loop.tainted

Deny(call) ==
  /\ Asking /\ ~Repeats(call) /\ TaintGate(call)
  /\ loop' = [loop EXCEPT !.asked[call] = @ + 1,
                          !.results = Append(@, [call |-> call, trust |-> "denied"])]
  /\ UNCHANGED <<status, steps, freeze, repo, audit>>

\* what a tool may do to the repository
Does(call) ==
  CASE call = "write" -> {repo, [repo EXCEPT !.edited = TRUE]}
    [] call = "shell" ->
         {repo, [repo EXCEPT !.edited = TRUE]} \cup
         {r \in {[head |-> repo.head + 1, edited |-> FALSE,
                  tampered |-> IF repo.edited THEN repo.head + 1 ELSE repo.tampered]} :
            r.head <= MaxCommits}

Trust(call) == IF call = "write" THEN "trusted" ELSE "untrusted"

Run(call) ==
  /\ Asking /\ ~Repeats(call) /\ ~TaintGate(call)
  /\ repo' \in Does(call)
  /\ Answered(call, Trust(call))
  /\ audit' = IF Trust(call) = "untrusted" THEN [audit EXCEPT !.mine.seen = @ \cup {"agent"}]
              ELSE audit
  /\ UNCHANGED <<status, steps, freeze>>

\* the handler raises, the arguments are not valid or a path leaves the workspace: the
\* result is the harness's own
Raise(call) ==
  /\ Asking /\ ~Repeats(call) /\ ~TaintGate(call)
  /\ Answered(call, "error")
  /\ UNCHANGED <<status, steps, freeze, repo, audit>>

\* a call asked too often: it and the rest of the reply are answered without being made
Skip(call) ==
  /\ Asking /\ Repeats(call)
  /\ loop' = [loop EXCEPT !.stuck = TRUE]
  /\ UNCHANGED <<status, steps, freeze, repo, audit>>

\* append_step, and on: another step, the gates, or the end of a stuck run
After ==
  CASE loop.stuck -> [loop EXCEPT !.pc = "close", !.outcome = "failed", !.results = <<>>]
    [] ~loop.stuck /\ loop.results # <<>> /\ loop.left > 1 ->
         [loop EXCEPT !.pc = "step", !.seq = @ + 1, !.left = @ - 1, !.results = <<>>]
    [] OTHER -> [loop EXCEPT !.pc = "gate", !.results = <<>>]

CloseStep ==
  /\ loop.pc = "tools"
  /\ steps' = steps \cup {loop.seq}
  /\ loop' = After
  /\ UNCHANGED <<status, freeze, repo, audit>>

-----------------------------------------------------------------------------
(* The gates, repair, and the end of run().                                *)

\* GateEvaluator.evaluate: the acceptance checks, then the diff from the base commit;
\* "unread" when its commands could not be run
Untampered == ~repo.edited /\ repo.tampered <= loop.base
Admits(check) == check = "pass" /\ Untampered
FailedGates(check) == IF check = "unread" \/ Untampered THEN {} ELSE {"tests_unmodified"}
Signature(check) == <<FailedGates(check), check>>

Judged(check) ==
  [loop EXCEPT !.tainted = @ \/ check # "unread",
               !.report = [admitted |-> Admits(check), current |-> TRUE]]

Witnessed(check) ==
  audit' = [audit EXCEPT !.mine.evaluations = @ + 1,
                         !.mine.seen = IF check = "unread" THEN @ ELSE @ \cup {"judge"}]

BugRepairs(check) ==
  /\ ~Admits(check) /\ loop.attempt <= MaxAttempts + 1
  /\ Signature(check) \notin loop.signatures
BugRepairsAdmitted(check) ==
  /\ loop.attempt <= MaxAttempts
  /\ Signature(check) \notin loop.signatures

Repairs(check) ==
  /\ ~Admits(check) /\ loop.attempt <= MaxAttempts
  /\ Signature(check) \notin loop.signatures

Judge(check) ==
  /\ loop.pc = "gate"
  /\ loop' = IF Repairs(check)
             THEN [Judged(check) EXCEPT !.pc = "step", !.seq = @ + 1, !.left = MaxSteps,
                                        !.attempt = @ + 1, !.asked = Idle.asked,
                                        !.signatures = @ \cup {Signature(check)}]
             ELSE [Judged(check) EXCEPT !.pc = "close", !.outcome = "completed"]
  /\ Witnessed(check)
  /\ UNCHANGED <<status, steps, freeze, repo>>

BugJudgeLate(check) ==
  /\ loop.pc = "close" /\ loop.report = None /\ loop.outcome = "failed"
  /\ loop' = Judged(check)
  /\ Witnessed(check)
  /\ UNCHANGED <<status, steps, freeze, repo>>

\* a run that parked or failed before any gate is judged as it stands
JudgeLate(check) ==
  /\ loop.pc = "close" /\ loop.report = None
  /\ loop' = Judged(check)
  /\ Witnessed(check)
  /\ UNCHANGED <<status, steps, freeze, repo>>

StatusOf(outcome) == IF outcome = "parked" THEN "input-required" ELSE outcome

Close ==
  /\ loop.pc = "close" /\ loop.report # None
  /\ status' = StatusOf(loop.outcome)
  /\ IF loop.thawing THEN loop' = [loop EXCEPT !.pc = "clear"] /\ UNCHANGED audit ELSE Exit
  /\ UNCHANGED <<steps, freeze, repo>>

\* the end of thaw()
ClearFreeze ==
  /\ loop.pc = "clear"
  /\ freeze' = None
  /\ Exit
  /\ UNCHANGED <<status, steps, repo>>

-----------------------------------------------------------------------------
Checks == {"pass", "unread"} \cup Outputs

Work ==
  \/ OutOfTime \/ Park
  \/ \E cost \in Costs, failover \in BOOLEAN : Complete(cost, failover)
  \/ \E call \in Calls : Deny(call) \/ Run(call) \/ Raise(call) \/ Skip(call)
  \/ CloseStep
  \/ \E check \in Checks : Judge(check) \/ JudgeLate(check)
  \/ Close \/ ClearFreeze

Next == Start \/ Resume \/ Thaw \/ Crash \/ Work

\* a process that is alive goes on: every await of the loop has an end
Spec == Init /\ [][Next]_vars /\ WF_vars(Work)

-----------------------------------------------------------------------------
(* What is checked.                                                        *)

Observers == {"agent", "judge"}
Snapshots == [reason : {"budget", "failover"}, tainted : BOOLEAN, base : Nat,
              seen : SUBSET Observers]
Reports == [admitted : BOOLEAN, current : BOOLEAN]
Loops ==
  [pc : {"dead", "step", "tools", "gate", "close", "clear"}, thawing : BOOLEAN,
   tainted : BOOLEAN, spent : Nat, base : Nat, seq : Nat, left : 0..MaxSteps, attempt : Nat,
   asked : [Calls -> Nat], results : Seq(Results), stuck : BOOLEAN,
   signatures : SUBSET ((SUBSET {"tests_unmodified"}) \X Checks),
   report : Reports \cup {None}, outcome : {"none", "parked", "failed", "completed"}]
Audits ==
  [processes : Nat, resumed : BOOLEAN,
   mine : [seen : SUBSET Observers, billed : Nat, evaluations : Nat]]

\* The state has its shape, whatever the order of crashes, thaws and resumes: the counters of
\* a process never go below zero, and the steps left of an attempt stay within max_steps.
RunLoopTypeOK ==
  /\ status \in {"none", "working", "input-required", "failed", "completed"}
  /\ steps \subseteq Nat
  /\ freeze \in Snapshots \cup {None}
  /\ repo \in [head : 0..MaxCommits, edited : BOOLEAN, tampered : Nat]
  /\ loop \in Loops
  /\ audit \in Audits

\* Whatever died and came back, the trajectory is an unbroken sequence of steps and the one
\* about to be appended is not in it: append_step is a plain INSERT under the primary key
\* (run, branch, seq), and a second one with the same seq would end the run.
TranscriptIsDense ==
  /\ steps = 1..Cardinality(steps)
  /\ loop.pc \in {"step", "tools"} => loop.seq = Cardinality(steps) + 1

\* A process ends with an admitting report only if nothing changed after the gates ran: an
\* attempt that fails or parks after a repair keeps the report of an earlier attempt.
AdmittedIsCurrent ==
  loop.pc \in {"close", "clear"} /\ loop.report # None =>
    (loop.report.admitted => loop.report.current)

\* A run that was never brought back with --resume is admitted only if no forbidden edit was
\* made since its first process began, in the tree or committed, across every freeze and
\* thaw: the gates diff from the commit the run started from.
Tampered == repo.edited \/ repo.tampered > 0
Admitted == loop.report # None /\ loop.report.admitted
AdmittedIsClean ==
  loop.pc = "close" /\ Admitted /\ loop.outcome = "completed" /\ ~audit.resumed => ~Tampered

\* What ends admitted was earned: by gates that ran on the files as they are, and, without
\* --resume, against the commit the run started from.
AdmittedIsEarned == AdmittedIsCurrent /\ AdmittedIsClean

\* The same of every run, as the comment of run() has it.
AdmittedMeasuresTheRun ==
  loop.pc = "close" /\ Admitted /\ loop.outcome = "completed" => ~Tampered

\* A write is made only by a process that has observed no untrusted output, neither itself
\* nor before the freeze it was thawed from; the gates' own commands count.
NewResult(call, trusts) ==
  /\ Len(loop'.results) > Len(loop.results)
  /\ loop'.results[Len(loop'.results)].call = call
  /\ loop'.results[Len(loop'.results)].trust \in trusts
WritesAreUntainted == [][NewResult("write", {"trusted", "error"}) => audit.mine.seen = {}]_vars

\* A write is refused as tainted only after the agent's own calls returned untrusted output:
\* a repair turn "is derived from this run's own test output, not external content".
RefusedForItsOwnReading ==
  [][NewResult("write", {"denied"}) => "agent" \in audit.mine.seen]_vars

\* A process never asks for a completion once it has been billed the limit: the bill passes
\* the limit by less than one completion.
BillIsBounded ==
  audit.mine.billed > 0 => \E cost \in Costs : audit.mine.billed - cost < Limit

\* A process runs the gates at most max_attempts + 1 times, whichever way it ends.
EvaluationsAreBounded == audit.mine.evaluations <= MaxAttempts + 1

\* Neither completions nor gate runs go on past their bounds, on any path of a process.
SpendIsBounded == BillIsBounded /\ EvaluationsAreBounded

\* A run recorded as waiting for input has its freeze file.
ParkedIsFrozen == loop.pc = "dead" /\ status = "input-required" => freeze # None

\* Every process ends, by itself or by dying.
ProcessEnds == loop.pc # "dead" ~> loop.pc = "dead"
=============================================================================
