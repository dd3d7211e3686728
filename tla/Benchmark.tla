----------------------------- MODULE Benchmark -----------------------------
(***************************************************************************)
(* The benchmark of sagiha: a suite of fix commits, each validated in a    *)
(* scratch worktree; a run of the suite by one strategy, or by two against *)
(* a noise floor taken earlier; and the cache the upstream repository of   *)
(* an imported suite is fetched into.                                      *)
(*                                                                         *)
(* A suite is harvested from the local history, or imported: all of one    *)
(* upstream repository, each task with a base commit of its own.  Rates    *)
(* are kept as sums over the pairs: control and treatment run the same     *)
(* suite, every task once (--runs 1).  The bootstrap's upper bound is any  *)
(* mean a resampling can give.  One process runs at a time, and may die.   *)
(***************************************************************************)
EXTENDS Integers, Sequences, FiniteSets, FiniteSetsExt, SequencesExt

CONSTANTS
  NumCommits,    \* fix commits, 1..NumCommits, in the order of the log
  Determinism,   \* --k-determinism
  Costs,         \* what an attempt of each strategy may cost
  MaxBenches     \* bound on the harvests and benches run

Commits == 1..NumCommits
Strategies == {"single_shot", "bon"}

BenchmarkAssumption ==
  NumCommits \in Nat /\ Determinism \in Nat \ {0} /\ Costs \in [Strategies -> SUBSET Nat] /\ MaxBenches \in Nat

VARIABLES
  command,   \* what the process is at
  checking,  \* the commit validate_suite is at, its reruns and how many failed, and the valid tasks
  source,    \* where the suite file came from, "" while there is none
  suite,     \* its tasks: commits, in order
  cache,     \* the cached clone: initialised, with a remote, and the base commits in it
  plan,      \* the strategies of the passes of a bench
  results,   \* the results of each pass
  attempt,   \* how far the task at hand is
  floor,     \* the noise floor of the last report that has one
  measured,  \* the floor the process at hand judges by
  verdict,   \* the sentence of the last comparison
  benches    \* commands run

benchmarkVars ==
  <<command, checking, source, suite, cache, plan, results, attempt, floor, measured, verdict, benches>>

None == -1
Floor(n, drift, hi) == [n |-> n, drift |-> drift, hi |-> hi]
NoFloor == Floor(None, 0, 0)
Verdicts == {"", "INDETERMINATE", "INVALID", "NEGATIVE", "COST LOSS", "POSITIVE"}
Result == [task : Commits, resolved : BOOLEAN, cost : Nat \cup {None}]

BenchmarkTypeOK ==
  /\ command \in {"", "harvest", "bench"}
  /\ checking \in [commit : 0..(NumCommits + 1), runs : 0..Determinism, failed : 0..Determinism, valid : Seq(Commits)]
  /\ source \in {"", "harvested", "imported"} /\ suite \in Seq(Commits)
  /\ cache \in [git : BOOLEAN, origin : BOOLEAN, has : SUBSET Commits]
  /\ plan \in Seq(Strategies) /\ results \in Seq(Seq(Result)) /\ Len(results) <= Len(plan)
  /\ attempt \in {"", "remote", "fetch", "resolved"}
  /\ floor.n \in Nat \cup {None} /\ measured.n \in Nat \cup {None} /\ verdict \in Verdicts /\ benches \in 0..MaxBenches

Check(c, valid) == [commit |-> c, runs |-> 0, failed |-> 0, valid |-> valid]
NotChecking == Check(0, <<>>)

BenchmarkInit ==
  /\ command = "" /\ checking = NotChecking /\ source = "" /\ suite = <<>>
  /\ cache = [git |-> FALSE, origin |-> FALSE, has |-> {}]
  /\ plan = <<>> /\ results = <<>> /\ attempt = "" /\ floor = NoFloor /\ measured = NoFloor /\ verdict = "" /\ benches = 0

-----------------------------------------------------------------------------
(* harvest: validate_task for every commit, then save_suite.  The import     *)
(* script writes the first commits of a dataset as they are.                 *)

Import(n) ==
  /\ command = "" /\ benches < MaxBenches
  /\ source' = "imported" /\ suite' = [i \in 1..n |-> i]
  /\ UNCHANGED <<command, checking, cache, plan, results, attempt, floor, measured, verdict, benches>>

\* harvest --no-validate: every candidate of the log
Unvalidated ==
  /\ command = "" /\ benches < MaxBenches
  /\ source' = "harvested" /\ suite' = [i \in Commits |-> i]
  /\ UNCHANGED <<command, checking, cache, plan, results, attempt, floor, measured, verdict, benches>>

Harvest ==
  /\ command = "" /\ benches < MaxBenches
  /\ command' = "harvest" /\ benches' = benches + 1 /\ checking' = Check(1, <<>>)
  /\ UNCHANGED <<source, suite, cache, plan, results, attempt, floor, measured, verdict>>

Testing == command = "harvest" /\ checking.commit \in Commits

\* the test command on the fix commit's tests over the base: k times
Rerun(fails) ==
  /\ Testing /\ checking.runs < Determinism
  /\ checking' = [checking EXCEPT !.runs = @ + 1, !.failed = @ + (IF fails THEN 1 ELSE 0)]
  /\ UNCHANGED <<command, source, suite, cache, plan, results, attempt, floor, measured, verdict, benches>>

Reproduced == checking.runs = Determinism /\ checking.failed = Determinism

\* with the fix on top: the one way a task gets into the suite
Fixed ==
  /\ Testing /\ Reproduced
  /\ checking' = Check(checking.commit + 1, Append(checking.valid, checking.commit))
  /\ UNCHANGED <<command, source, suite, cache, plan, results, attempt, floor, measured, verdict, benches>>

\* no worktree, no checkout, a command that did not run, a failure that did not
\* reproduce or not always, a fix that did not help
Reject ==
  /\ Testing /\ checking' = Check(checking.commit + 1, checking.valid)
  /\ UNCHANGED <<command, source, suite, cache, plan, results, attempt, floor, measured, verdict, benches>>

Save ==
  /\ command = "harvest" /\ checking.commit = NumCommits + 1
  /\ command' = "" /\ checking' = NotChecking /\ source' = "harvested" /\ suite' = checking.valid
  /\ UNCHANGED <<cache, plan, results, attempt, floor, measured, verdict, benches>>

-----------------------------------------------------------------------------
(* bench: run_suite for every pass, then the report. *)

\* the passes of --aa, and of --compare with a floor from a file or from --aa
Plans ==
  {<<"single_shot", "single_shot">>}
  \cup UNION {{<<c, t>>, <<c, c, c, t>>} : c \in Strategies, t \in Strategies}
IsCompare(p) == p[Len(p) - 1] # p[Len(p)]
IsAA(p) == p[1] = p[2]

Bench(p) ==
  /\ command = "" /\ benches < MaxBenches /\ source # ""
  /\ IsCompare(p) \/ p = <<"single_shot", "single_shot">>
  /\ IsAA(p) \/ floor # NoFloor
  /\ command' = "bench" /\ benches' = benches + 1
  /\ plan' = p /\ results' = <<<<>>>> /\ verdict' = ""
  /\ measured' = IF IsAA(p) THEN NoFloor ELSE floor
  /\ UNCHANGED <<checking, source, suite, cache, attempt, floor>>

Running == command = "bench" /\ Len(Last(results)) < Len(suite)
Task == suite[Len(Last(results)) + 1]
Strategy == plan[Len(results)]

\* one result into the pass; a task of an exception is unsolved and has no cost
Record(resolved, cost) ==
  /\ results' = [results EXCEPT ![Len(results)] = Append(@, [task |-> Task, resolved |-> resolved, cost |-> cost])]
  /\ attempt' = ""

\* the repository of the task: the local one, or the cache with the commit in it
Resolve ==
  /\ Running /\ attempt = "" /\ (source = "imported" => Task \in cache.has)
  /\ attempt' = "resolved"
  /\ UNCHANGED <<command, checking, source, suite, cache, plan, results, floor, measured, verdict, benches>>

Missing == Running /\ source = "imported" /\ Task \notin cache.has

GitInit ==
  /\ Missing /\ attempt = "" /\ ~ cache.git
  /\ cache' = [cache EXCEPT !.git = TRUE] /\ attempt' = "remote"
  /\ UNCHANGED <<command, checking, source, suite, plan, results, floor, measured, verdict, benches>>

AddRemote ==
  /\ Missing /\ attempt = "remote"
  /\ cache' = [cache EXCEPT !.origin = TRUE] /\ attempt' = "fetch"
  /\ UNCHANGED <<command, checking, source, suite, plan, results, floor, measured, verdict, benches>>

Fetching == Missing /\ (attempt = "fetch" \/ (attempt = "" /\ cache.git))

Fetch ==
  /\ Fetching /\ cache.origin
  /\ cache' = [cache EXCEPT !.has = @ \cup {Task}] /\ attempt' = "resolved"
  /\ UNCHANGED <<command, checking, source, suite, plan, results, floor, measured, verdict, benches>>

\* the error of either arm counted as an unsolved task
BugFetchFails ==
  /\ Missing /\ Record(FALSE, None)
  /\ UNCHANGED <<command, plan, measured, checking, source, suite, cache, floor, verdict, benches>>

\* init, remote or fetch fails: an error outside the try of the single shot, which
\* ends the whole bench
FetchFails ==
  /\ Missing
  /\ IF Strategy = "bon" THEN Record(FALSE, None) /\ UNCHANGED <<command, plan, measured>>
     ELSE command' = "" /\ plan' = <<>> /\ results' = <<>> /\ attempt' = "" /\ measured' = NoFloor
  /\ UNCHANGED <<checking, source, suite, cache, floor, verdict, benches>>

Attempt(strategy, admitted, cost) ==
  /\ Running /\ attempt = "resolved" /\ Strategy = strategy
  /\ cost \in Costs[strategy] /\ Record(admitted, cost)
  /\ UNCHANGED <<command, checking, source, suite, cache, plan, floor, measured, verdict, benches>>

\* one run in a worktree of its own, to its gate report
SingleShot(admitted, cost) == Attempt("single_shot", admitted, cost)

\* propose, select, evaluate: the winner's report, at the cost of the whole batch
BestOfN(admitted, cost) == Attempt("bon", admitted, cost)

Raises ==
  /\ Running /\ attempt = "resolved" /\ Record(FALSE, None)
  /\ UNCHANGED <<command, checking, source, suite, cache, plan, floor, measured, verdict, benches>>

PassDone == command = "bench" /\ Len(Last(results)) = Len(suite)

NextPass ==
  /\ PassDone /\ Len(results) = 1
  /\ results' = Append(results, <<>>)
  /\ UNCHANGED <<command, checking, source, suite, cache, plan, attempt, floor, measured, verdict, benches>>

-----------------------------------------------------------------------------
(* The report: the noise floor, the paired comparison, the sentence. *)

\* paired_deltas: the tasks of every pass are those of the suite, in order
Solved(pass) == {i \in 1..Len(pass) : pass[i].resolved}
Lead(c, t) == Cardinality(Solved(t)) - Cardinality(Solved(c))
Deltas(c, t) ==
  {(IF i \in Solved(t) THEN 1 ELSE 0) - (IF i \in Solved(c) THEN 1 ELSE 0) : i \in 1..Len(c)}

\* the mean drift and the bootstrap's upper bound, times the number of pairs
NoiseFloors(a, b) ==
  IF Len(a) = 0 THEN {Floor(0, 0, 0)}
  ELSE {Floor(Len(a), IF Lead(a, b) < 0 THEN - Lead(a, b) ELSE Lead(a, b), hi) :
          hi \in (Len(a) * Min(Deltas(a, b)))..(Len(a) * Max(Deltas(a, b)))}

\* the mean and the interval of a floor over nothing are zeroes
Clears(c, t, f) ==
  \A bound \in {f.drift, f.hi} : Max({f.n, 1}) * Lead(c, t) > bound * Len(c)

\* compare_runs: "none" where there is nothing honest to judge against
BugBeats(c, t, f) ==
  IF Len(c) < 2 \/ Solved(c) = Solved(t) THEN "none" ELSE IF Clears(c, t, f) THEN "yes" ELSE "no"
Beats(c, t, f) ==
  IF Len(c) < 2 \/ Solved(c) = Solved(t) \/ f.n = 0 THEN "none"
  ELSE IF Clears(c, t, f) THEN "yes" ELSE "no"

\* cost_per_resolved_task, and whether it rose
Charged(pass) == {i \in 1..Len(pass) : pass[i].cost # None}
Spent(pass) == MapThenSumSet(LAMBDA i : pass[i].cost, Charged(pass))
Dearer(c, t) ==
  /\ Solved(c) # {} /\ Solved(t) # {}
  /\ Spent(t) * Cardinality(Solved(c)) > Spent(c) * Cardinality(Solved(t))

\* inflated: one answer sampled N times
Verdict(c, t, f, inflated) ==
  CASE Beats(c, t, f) = "none" -> "INDETERMINATE"
    [] Beats(c, t, f) # "none" /\ inflated -> "INVALID"
    [] Beats(c, t, f) = "no" /\ ~ inflated -> "NEGATIVE"
    [] Beats(c, t, f) = "yes" /\ ~ inflated /\ Dearer(c, t) -> "COST LOSS"
    [] OTHER -> "POSITIVE"

\* the floor of --compare --aa comes first
Calibrate ==
  /\ PassDone /\ Len(results) = 2 /\ Len(plan) = 4
  /\ measured' \in NoiseFloors(results[1], results[2])
  /\ plan' = SubSeq(plan, 3, 4) /\ results' = <<<<>>>>
  /\ UNCHANGED <<command, checking, source, suite, cache, attempt, floor, verdict, benches>>

Report(inflated) ==
  /\ PassDone /\ Len(results) = 2 /\ Len(plan) = 2
  /\ inflated => plan[2] = "bon" /\ Charged(results[2]) # {}
  /\ IF IsCompare(plan)
     THEN floor' = measured /\ verdict' = Verdict(results[1], results[2], measured, inflated)
     ELSE floor' \in NoiseFloors(results[1], results[2]) /\ UNCHANGED verdict
  /\ command' = "" /\ plan' = <<>> /\ results' = <<>> /\ measured' = NoFloor
  /\ UNCHANGED <<checking, source, suite, cache, attempt, benches>>

\* what is on disk is left: the suite file, the cache as far as it is, the report
Die ==
  /\ command # ""
  /\ command' = "" /\ checking' = NotChecking /\ plan' = <<>> /\ results' = <<>> /\ attempt' = ""
  /\ measured' = NoFloor
  /\ UNCHANGED <<source, suite, cache, floor, verdict, benches>>

BenchmarkNext ==
  \/ \E n \in Commits : Import(n)
  \/ Unvalidated \/ Harvest \/ Fixed \/ Reject \/ Save \/ \E fails \in BOOLEAN : Rerun(fails)
  \/ \E p \in Plans : Bench(p)
  \/ Resolve \/ GitInit \/ AddRemote \/ Fetch \/ FetchFails
  \/ \E admitted \in BOOLEAN, cost \in UNION {Costs[s] : s \in Strategies} :
       SingleShot(admitted, cost) \/ BestOfN(admitted, cost)
  \/ Raises \/ NextPass \/ Calibrate \/ \E inflated \in BOOLEAN : Report(inflated)
  \/ Die

BenchmarkSpec == BenchmarkInit /\ [][BenchmarkNext]_benchmarkVars

-----------------------------------------------------------------------------
Present(task) == source = "imported" => task \in cache.has
Reported == floor' # floor \/ (verdict' # verdict /\ verdict' # "")

\* A report is of its suite, through deaths and failures of the passes, of the
\* cache and of earlier benches: both passes ran every task, in order, and the
\* repository of every task was there.  A cache that a death left without a remote,
\* or a repository that cannot be fetched, ends every bench, whichever its arms and
\* its floor, instead of counting as the loss of an arm or as a drift of zero.  And a
\* POSITIVE is of a lead beyond the drift of the floor the bench was given, over at
\* least one pair; that floor may be of another arm, of an earlier suite, or of
\* passes in which attempts raised.
ReportIsOfItsSuite ==
  Reported =>
    /\ \A pass \in {results[1], results[2]} : [i \in 1..Len(pass) |-> pass[i].task] = suite
    /\ \A i \in 1..Len(suite) : Present(suite[i])
    /\ verdict' = "POSITIVE" /\ verdict' # verdict =>
         floor'.n > 0 /\ Lead(results[1], results[2]) * floor'.n > floor'.drift * Len(suite)

-----------------------------------------------------------------------------
(* The inductive invariant: a pass is a prefix of the suite, the second    *)
(* begins when the first is whole, a comparison has a floor, one of the    *)
(* two passes that are reported is of single shots, and a single shot gets *)
(* its repository or ends the bench.                                       *)

IsFloor(f) == f.n \in Nat /\ f.drift \in Nat

PassesFollowTheSuite ==
  /\ suite \in Seq(Commits)
  /\ command = "bench" =>
       /\ results \in Seq(Seq(Result)) /\ Len(results) \in 1..2
       /\ \A p \in 1..Len(results) :
            /\ Len(results[p]) <= Len(suite)
            /\ \A i \in 1..Len(results[p]) : results[p][i].task = suite[i]
       /\ Len(results) = 2 => Len(results[1]) = Len(suite)

ComparisonsHaveAFloor ==
  /\ floor = NoFloor \/ IsFloor(floor)
  /\ command = "bench" =>
       /\ plan \in Plans
       /\ Len(plan) = 2 /\ IsCompare(plan) => IsFloor(measured)

SingleShotsFindTheRepository ==
  /\ attempt # "" => Running
  /\ attempt = "resolved" => Present(Task)
  /\ command = "bench" =>
       /\ "single_shot" \in {plan[Len(plan) - 1], plan[Len(plan)]}
       /\ \A p \in 1..Len(results) : plan[p] = "single_shot" =>
            \A i \in 1..Len(results[p]) : Present(results[p][i].task)

BenchmarkInv ==
  /\ PassesFollowTheSuite /\ ComparisonsHaveAFloor
  /\ command = "harvest" => checking.valid \in Seq(Commits) /\ DOMAIN checking = DOMAIN NotChecking
=============================================================================
