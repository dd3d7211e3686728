------------------------------- MODULE Export -------------------------------
(***************************************************************************)
(* What becomes training data: the runs in sagiha's trajectory store, and  *)
(* the export that reads them.  A run may be resumed after any ending; a   *)
(* replay is a run of its own, with the task of the run it verifies; and   *)
(* the store learns of a verdict through an observer of the bus, which     *)
(* the bus evicts when it is slow, while steps and records are written     *)
(* directly.                                                               *)
(*                                                                         *)
(* A step keeps whether its tool results were trusted, a run the digest of *)
(* its first prompt.  One process runs, or exports, at a time.             *)
(***************************************************************************)
EXTENDS Naturals, Sequences, FiniteSets

CONSTANTS
  NumRuns,      \* run ids, drawn in order
  Siblings,     \* those that, when new, are candidates of one parent task
  Prefixes,     \* digests of a first prompt
  MaxAttempts,  \* repair.max_attempts
  MaxSteps,     \* bound on the steps of a run
  MaxRounds     \* bound on the processes and the repairs together

Runs == 1..NumRuns

ExportAssumption ==
  NumRuns \in Nat /\ Siblings \subseteq Runs /\ MaxAttempts \in Nat /\ MaxSteps \in Nat /\ MaxRounds \in Nat

VARIABLES
  status,     \* runs.status of each run, "" before it has a record
  family,     \* the runs whose task has the parent
  prefix,     \* the digest of a run's first prompt
  steps,      \* per run, whether each step's results were all trusted
  gates,      \* per run, the verdicts of its GateEvaluated rows
  verified,   \* the runs with a ReplayVerified row
  live,       \* the process
  standing,   \* what the gates said of a run as it stands, "" after another step; "lost" once
              \* the store missed a verdict
  exported,   \* what the last export wrote, kept until the next process: steps of runs, and pairs of runs
  rounds      \* processes and repairs so far

exportVars ==
  <<status, family, prefix, steps, gates, verified, live, standing, exported, rounds>>

Endings == {"completed", "failed", "input-required"}
Nobody == [run |-> {}, replays |-> {}, ending |-> "", repairs |-> 0, verdict |-> "", evicted |-> FALSE]

Processes == [run : SUBSET Runs, replays : SUBSET Runs, ending : {""} \cup Endings,
              repairs : 0..MaxAttempts, verdict : {"", "admitted", "refused"}, evicted : BOOLEAN]

Nothing == [sft |-> {}, dpo |-> {}]

ExportTypeOK ==
  /\ status \in [Runs -> {"", "working"} \cup Endings] /\ family \subseteq Runs
  /\ prefix \in [Runs -> Prefixes] /\ steps \in [Runs -> Seq(BOOLEAN)]
  /\ gates \in [Runs -> Seq(BOOLEAN)] /\ verified \subseteq Runs
  /\ live \in Processes
  /\ standing \in [Runs -> {"", "admitted", "refused", "lost"}]
  /\ exported \in [sft : SUBSET (Runs \X (1..MaxSteps)), dpo : SUBSET (Runs \X Runs)]
  /\ rounds \in 0..MaxRounds

ExportInit ==
  /\ status = [r \in Runs |-> ""] /\ family = {} /\ prefix \in [Runs -> Prefixes]
  /\ steps = [r \in Runs |-> <<>>] /\ gates = [r \in Runs |-> <<>>] /\ verified = {}
  /\ live = Nobody /\ standing = [r \in Runs |-> ""]
  /\ exported = Nothing /\ rounds = 0

-----------------------------------------------------------------------------
(* The store: a row a run, a row a step, a row an event, each its own      *)
(* transaction; what a reader is given is in the order it was written.     *)

WithStatus(r, s) == [status EXCEPT ![r] = s]
WithStep(r, trusted) == [steps EXCEPT ![r] = Append(@, trusted)]
WithVerdict(r, verdict) == [gates EXCEPT ![r] = Append(@, verdict = "admitted")]

Recorded == {r \in Runs : status[r] # ""}
HasRecord(r) == r \in Recorded
VerdictsOf(r) == gates[r]
TrustOfSteps(r) == {steps[r][i] : i \in DOMAIN steps[r]}

-----------------------------------------------------------------------------
(* A process: a new run, a run resumed, or a replay. *)

Launch(r, replays) ==
  /\ live = Nobody /\ rounds < MaxRounds /\ rounds' = rounds + 1
  /\ live' = [Nobody EXCEPT !.run = {r}, !.replays = replays]
  /\ status' = WithStatus(r, "working") /\ exported' = Nothing
  /\ UNCHANGED <<prefix, steps, gates, verified, standing>>

\* an id nothing else has
Fresh(r) == r = Cardinality(Recorded) + 1

StartRun(r) ==
  /\ Fresh(r) /\ Launch(r, {})
  /\ family' = family \cup ({r} \cap Siblings)

Resume(r) == HasRecord(r) /\ Launch(r, {}) /\ UNCHANGED family

\* the task of the stored run, under a new id
Replay(original, r) ==
  /\ HasRecord(original) /\ Fresh(r) /\ Launch(r, {original})
  /\ family' = IF original \in family THEN family \cup {r} ELSE family

Step(r, trusted) ==
  /\ live.run = {r} /\ live.ending = "" /\ Len(steps[r]) < MaxSteps
  /\ steps' = WithStep(r, trusted)
  /\ standing' = [standing EXCEPT ![r] = IF @ = "lost" THEN @ ELSE ""]
  /\ UNCHANGED <<status, family, prefix, gates, verified, live, exported, rounds>>

\* the step phase is over: done, stuck, or parked
EndSteps(ending) ==
  /\ live.run # {} /\ live.ending = ""
  /\ live' = [live EXCEPT !.ending = ending, !.verdict = IF ending = "completed" THEN "" ELSE @]
  /\ UNCHANGED <<status, family, prefix, steps, gates, verified, standing, exported, rounds>>

\* the verdict reaches the store, unless its observer is evicted, now or before
Judge(r, verdict, delivered) ==
  /\ live.run = {r} /\ live.ending # "" /\ live.verdict = "" /\ (live.evicted => ~ delivered)
  /\ live' = [live EXCEPT !.verdict = verdict, !.evicted = ~ delivered]
  /\ standing' = [standing EXCEPT ![r] = IF delivered /\ @ # "lost" THEN verdict ELSE "lost"]
  /\ gates' = IF delivered THEN WithVerdict(r, verdict) ELSE gates
  /\ UNCHANGED <<status, family, prefix, steps, verified, exported, rounds>>

Repair(r) ==
  /\ live.run = {r} /\ live.ending = "completed" /\ live.verdict = "refused"
  /\ live.repairs < MaxAttempts /\ rounds < MaxRounds /\ rounds' = rounds + 1
  /\ live' = [live EXCEPT !.ending = "", !.repairs = @ + 1]
  /\ UNCHANGED <<status, family, prefix, steps, gates, verified, standing, exported>>

\* the record last; a replay that came this far verifies, whatever its gates said
Finish(r, delivered) ==
  /\ live.run = {r} /\ live.verdict # "" /\ live.ending # "" /\ (live.evicted => ~ delivered)
  /\ status' = WithStatus(r, live.ending)
  /\ verified' = IF delivered THEN verified \cup live.replays ELSE verified
  /\ live' = Nobody
  /\ UNCHANGED <<family, prefix, steps, gates, standing, exported, rounds>>

\* killed, or a replay whose digest is not in the cassette
Die ==
  /\ live.run # {} /\ live' = Nobody
  /\ UNCHANGED <<status, family, prefix, steps, gates, verified, standing, exported, rounds>>

-----------------------------------------------------------------------------
(* The export. *)

\* any admission among the gate events of the run
BugLastGateAdmitted(r) == {VerdictsOf(r)[i] : i \in DOMAIN VerdictsOf(r)} \ {FALSE}
\* _last_gate_admitted: the last one's verdict, if there is one
LastGateAdmitted(r) == {VerdictsOf(r)[i] : i \in {Len(VerdictsOf(r))} \ {0}}

\* what must hold of both sides of a pair, and of a sample
Usable(r) == r \in verified /\ status[r] = "completed" /\ FALSE \notin TrustOfSteps(r)
Eligible(r) == Usable(r) /\ LastGateAdmitted(r) = {TRUE}

\* siblings with the first prompt in common
Group(p) == {r \in family : Usable(r) /\ Len(steps[r]) > 0 /\ prefix[r] = p}
Chosen(p) == {r \in Group(p) : LastGateAdmitted(r) = {TRUE}}
Rejected(p) == {r \in Group(p) : LastGateAdmitted(r) = {FALSE}}

\* one sample a step, prompted with the steps before it
Samples(r) == {r} \X DOMAIN steps[r]

\* a repository without an allowed licence exports nothing
ExportSFT(permitted) ==
  /\ live = Nobody
  /\ exported' = [Nothing EXCEPT !.sft = IF permitted THEN UNION {Samples(r) : r \in {x \in Recorded : Eligible(x)}}
                                         ELSE {}]
  /\ UNCHANGED <<status, family, prefix, steps, gates, verified, live, standing, rounds>>

\* the first chosen of a group, by the order of the records, against each rejected
ExportDPO ==
  /\ live = Nobody
  /\ \E first \in [Prefixes -> Runs] :
       /\ \A p \in Prefixes : Chosen(p) # {} => first[p] \in Chosen(p)
       /\ exported' = [sft |-> {}, dpo |-> UNION {{first[p]} \X Rejected(p) : p \in {q \in Prefixes : Chosen(q) # {}}}]
  /\ UNCHANGED <<status, family, prefix, steps, gates, verified, live, standing, rounds>>

ExportNext ==
  \/ \E r \in Runs :
       \/ StartRun(r) \/ Resume(r) \/ Repair(r)
       \/ \E original \in Runs : Replay(original, r)
       \/ \E trusted \in BOOLEAN : Step(r, trusted)
       \/ \E delivered \in BOOLEAN :
            Finish(r, delivered) \/ \E verdict \in {"admitted", "refused"} : Judge(r, verdict, delivered)
  \/ \E ending \in Endings : EndSteps(ending)
  \/ \E permitted \in BOOLEAN : ExportSFT(permitted)
  \/ Die \/ ExportDPO

ExportSpec == ExportInit /\ [][ExportNext]_exportVars

-----------------------------------------------------------------------------
\* An export is current.  As long as the store got a run's verdicts, a sample is
\* of a run the gates admit as it stands, after its last step, and a pair is of
\* two siblings that began alike, the one standing admitted, the other refused;
\* none holds an untrusted result.  Resumes, repairs, replays and deaths come
\* between the verdicts and the export.
ExportIsCurrent ==
  exported' # exported =>
    LET sampled == {x[1] : x \in exported'.sft}
        paired == UNION {{x[1], x[2]} : x \in exported'.dpo} IN
    /\ \A r \in sampled : standing[r] \in {"admitted", "lost"}
    /\ \A x \in exported'.dpo :
         /\ standing[x[1]] \in {"admitted", "lost"} /\ standing[x[2]] \in {"refused", "lost"}
         /\ {x[1], x[2]} \subseteq family /\ prefix[x[1]] = prefix[x[2]]
    /\ \A r \in sampled \cup paired : \A i \in DOMAIN steps[r] : steps[r][i]

-----------------------------------------------------------------------------
(* The inductive invariant: what is said of a run that stands judged is     *)
(* what its last verdict in the store says, and only a judged run is        *)
(* recorded as completed, which no process is then at.                      *)

StandsAsJudged(r) ==
  standing[r] \in {"admitted", "refused"} => LastGateAdmitted(r) = {standing[r] = "admitted"}
JudgedIfCompleted(r) == status[r] = "completed" => standing[r] # ""
AtWork(r) ==
  status[r] = "working" /\ (live.ending = "completed" /\ live.verdict # "" => standing[r] # "")

ExportInv ==
  /\ ExportTypeOK
  /\ \A r \in Runs : Len(steps[r]) <= MaxSteps /\ StandsAsJudged(r) /\ JudgedIfCompleted(r)
  /\ \A r \in live.run : AtWork(r)
=============================================================================
