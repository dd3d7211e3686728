------------------------------ MODULE Campaign ------------------------------
(***************************************************************************)
(* How a number of aether comes about.  One script screens candidates with *)
(* the canary (the gold patch must pass, the empty patch must fail) and    *)
(* writes the manifest; a family naming that manifest is committed; a      *)
(* second script runs two identical arms over one split and publishes the  *)
(* noise floor.  The scripts are separate processes: the first may rewrite *)
(* the manifest, and the family file may be replaced, while the second is  *)
(* running on what it read.                                                *)
(*                                                                         *)
(* An evaluation of a patch in a fresh worktree ends in an outcome: exit 0 *)
(* and exit 1 are what the tests say, everything else is an instrument     *)
(* that failed.  Outcomes[t][patch] is what the evaluations of task t may  *)
(* end in: more than one value is a flaky suite or a flaky machine.        *)
(***************************************************************************)
EXTENDS Naturals, Sequences, FiniteSets, Functions, SequencesExt

CONSTANTS
  NumTasks,   \* candidates, 1..NumTasks
  Outcomes,   \* by task and patch, what an evaluation may end in
  Shapes,     \* the suites the builders are asked for
  Repeats,    \* --repeats
  Shuffled,   \* what the seeded shuffle makes of 1..NumTasks
  Families,   \* what a family file may declare: tier, split, n, hypotheses
  TierFloor,  \* TIER_FLOORS: the least n of a tier
  MaxBuilds,  \* bound on the times a manifest is written
  MaxFloors   \* bound on the times the floor is started

Tasks == 1..NumTasks
Statuses == {"PASSED", "FAILED", "NONE"}
Patches == {"gold", "empty"}
Splits == {"dev", "holdout", "sealed"}

\* git worktree add: the base commit is not there, or git fails or hangs
WorktreeOutcomes == {"no_worktree"}
\* git apply --reject: a hunk does not apply; there is none in the empty patch
ApplyOutcomes(patch) == IF patch = "gold" THEN {"rejected"} ELSE {}
\* one container for one command: not started, killed at its timeout, or the command's exit
SandboxOutcomes == {"not_started", "timed_out", "exit 0", "exit 1", "exit 2"}
\* (the screening passes no test_paths, so the evaluator does not ask whether tests changed)
MayEndIn(patch) == WorktreeOutcomes \cup ApplyOutcomes(patch) \cup SandboxOutcomes

\* RealEvaluator: two exit codes are a verdict, whatever else happened is not
Status(outcome) ==
  CASE outcome = "exit 0" -> "PASSED" [] outcome = "exit 1" -> "FAILED" [] OTHER -> "NONE"

\* What a generator says of every task of its suite: whether there is a
\* problem_statement, whether test_paths name the judge, how often gold is run.
SingleBug == [stated |-> TRUE, guarded |-> TRUE, repeats |-> Repeats]
Medium == [stated |-> TRUE, guarded |-> TRUE, repeats |-> Repeats]
Playlist == [stated |-> FALSE, guarded |-> FALSE, repeats |-> 1]
Suite(shape) ==
  CASE shape = "single_bug" -> SingleBug [] shape = "medium" -> Medium [] shape = "playlist" -> Playlist

\* TIER_SPLITS
TierSplit == [smoke |-> "dev", admission |-> "holdout", publication |-> "sealed"]

CampaignAssumption ==
  /\ NumTasks \in Nat /\ MaxBuilds \in Nat /\ MaxFloors \in Nat /\ Repeats \in Nat \ {0}
  /\ \A t \in Tasks, patch \in Patches : Outcomes[t][patch] \in SUBSET MayEndIn(patch) \ {{}}
  /\ Shapes \subseteq {"single_bug", "medium", "playlist"}
  /\ Shuffled \in [Tasks -> Tasks] /\ IsInjective(Shuffled)
  /\ Families \subseteq [tier : DOMAIN TierSplit, split : Splits, n : Nat, hypotheses : Nat \ {0}]
  /\ TierFloor \in [DOMAIN TierSplit -> Nat]

VARIABLES
  screening,  \* the candidate the canary is at; 0 when the builder is not running
  shape,      \* the suite it was started for
  canary,     \* by candidate, the outcomes so far: the gold ones, then the empty one
  manifest,   \* the manifest file
  builds,     \* how often it was written
  family,     \* the family file
  floor,      \* the floor script's process
  report,     \* the report file
  floors      \* how often the floor was started

campaignVars == <<screening, shape, canary, manifest, builds, family, floor, report, floors>>

NoManifest == [shape |-> "none", split |-> <<>>, reason |-> <<>>, canary |-> <<>>]
NoFamily == [manifest |-> NoManifest, declares |-> [tier |-> "smoke", split |-> "dev", n |-> 0, hypotheses |-> 0]]
NoFloor ==
  [manifest |-> NoManifest, split |-> "dev", limit |-> 0, declared |-> 0, dry |-> FALSE,
   contained |-> TRUE, fenced |-> TRUE, arms |-> <<<<>>, <<>>>>]
NoReport ==
  [floor |-> NoFloor, n |-> 0, dropped |-> 0, discordant |-> <<0, 0>>, tested |-> <<0, 0>>,
   resolved |-> <<0, 0>>, measured |-> <<0, 0>>]

Reasons == {"gold_patch_fails", "empty_patch_passes", "flaky_tests", "instrument_error"}

CampaignTypeOK ==
  /\ screening \in 0..(NumTasks + 1)
  /\ shape \in Shapes \cup {"none"}
  /\ canary \in [Tasks -> Seq(MayEndIn("gold"))]
  /\ builds \in 0..MaxBuilds /\ floors \in 0..MaxFloors
  /\ family.declares \in Families \cup {NoFamily.declares}
  /\ \A t \in DOMAIN manifest.reason : manifest.reason[t] \in Reasons
  /\ floor.split \in Splits /\ \A a \in 1..2 : floor.arms[a] \in Seq(Statuses)

CampaignInit ==
  /\ screening = 0 /\ shape = "none" /\ canary = [t \in Tasks |-> <<>>] /\ manifest = NoManifest /\ builds = 0
  /\ family = NoFamily /\ floor = NoFloor /\ report = NoReport /\ floors = 0

-----------------------------------------------------------------------------
(* The builder: generate the candidates, screen_all, build_manifest. *)

Generate(s) ==
  /\ screening = 0 /\ builds < MaxBuilds
  /\ screening' = 1 /\ shape' = s /\ canary' = [t \in Tasks |-> <<>>]
  /\ UNCHANGED <<manifest, builds, family, floor, report, floors>>

\* screen_candidate: every evaluation but the last must be the one it needs
Judged(outcomes, repeats) ==
  \/ outcomes # <<>> /\ Status(Last(outcomes)) # "PASSED"
  \/ Len(outcomes) = repeats + 1

\* an evaluation that said nothing taken for the failure the empty patch needs
BugReason(outcomes, repeats) ==
  LET n == Len(outcomes)  last == Status(Last(outcomes)) IN
  CASE n = repeats + 1 -> IF last = "PASSED" THEN "empty_patch_passes" ELSE "admitted"
    [] n = 1 /\ last = "NONE" -> "instrument_error"
    [] n = 1 /\ last = "FAILED" -> "gold_patch_fails"
    [] OTHER -> "flaky_tests"

Reason(outcomes, repeats) ==
  LET n == Len(outcomes)  last == Status(Last(outcomes)) IN
  CASE n = repeats + 1 /\ last = "FAILED" -> "admitted"
    [] n = repeats + 1 /\ last = "PASSED" -> "empty_patch_passes"
    [] n \in {1, repeats + 1} /\ last = "NONE" -> "instrument_error"
    [] n = 1 /\ last = "FAILED" -> "gold_patch_fails"
    [] OTHER -> "flaky_tests"

\* evaluate_patch on the candidate at hand: a worktree of its own, the patch, the tests
Screen(outcome) ==
  /\ screening \in Tasks
  /\ LET t == screening  outcomes == canary[t]  repeats == Suite(shape).repeats
         patch == IF Len(outcomes) < repeats THEN "gold" ELSE "empty" IN
       /\ ~Judged(outcomes, repeats) /\ outcome \in Outcomes[t][patch]
       /\ canary' = [canary EXCEPT ![t] = Append(outcomes, outcome)]
  /\ UNCHANGED <<screening, shape, manifest, builds, family, floor, report, floors>>

NextCandidate ==
  /\ screening \in Tasks /\ Judged(canary[screening], Suite(shape).repeats)
  /\ screening' = screening + 1
  /\ UNCHANGED <<shape, canary, manifest, builds, family, floor, report, floors>>

\* assign_splits: 60 % dev and 25 % holdout of the admitted, rounded down, the rest sealed
SplitOf(admitted) ==
  LET Before(t) == Cardinality({i \in Tasks : Shuffled[i] \in admitted /\ i < Inverse(Shuffled, Tasks, Tasks)[t]})
      n == Cardinality(admitted)  dev == (n * 60) \div 100  holdout == (n * 25) \div 100 IN
  [t \in admitted |->
     IF Before(t) < dev THEN "dev" ELSE IF Before(t) < dev + holdout THEN "holdout" ELSE "sealed"]

\* validate_manifest: at least one task, and none that is excluded as well
IsManifest(m) == m.split # <<>> /\ DOMAIN m.split \cap DOMAIN m.reason = {}

\* build_manifest refuses an admitted task without a problem statement: nothing
\* is written, and the next build screens everything again
BuildManifest ==
  LET reasons == [t \in Tasks |-> Reason(canary[t], Suite(shape).repeats)]
      admitted == {t \in Tasks : reasons[t] = "admitted"}
      built == [shape |-> shape, split |-> SplitOf(admitted),
                reason |-> Restrict(reasons, Tasks \ admitted), canary |-> canary] IN
  /\ screening = NumTasks + 1
  /\ screening' = 0 /\ builds' = builds + 1
  /\ manifest' = IF Suite(shape).stated /\ IsManifest(built) THEN built ELSE manifest
  /\ UNCHANGED <<shape, canary, family, floor, report, floors>>

-----------------------------------------------------------------------------
(* The family: a file, committed for the manifest of the day. *)

Declare(declares) ==
  /\ manifest # NoManifest
  /\ family' = [manifest |-> manifest, declares |-> declares]
  /\ UNCHANGED <<screening, shape, canary, manifest, builds, floor, report, floors>>

\* validate_family, of every file when a registry is made: the tier binds the split and floors n
Loads(declares) ==
  /\ declares.split = TierSplit[declares.tier]
  /\ declares.n >= TierFloor[declares.tier]

\* holm_for_family wants as many p-values as hypotheses were declared, and there is one
Corrects(declares) == Loads(declares) /\ declares.hypotheses = 1

-----------------------------------------------------------------------------
(* run_aa_floor.main_async: the checks, two arms, the report. *)

\* the tasks of the split in the manifest's order, up to the limit
InSplit(m, split) == {t \in Tasks : t \in DOMAIN m.split /\ m.split[t] = split}
Limited(m, split, limit) ==
  {t \in InSplit(m, split) : Cardinality({u \in InSplit(m, split) : u <= t}) <= limit}
NumFloorTasks == Cardinality(Limited(floor.manifest, floor.split, floor.limit))
FloorRuns == floor # NoFloor

\* The B3 canary comes first: unless it fails a deliberately broken candidate in this environment
\* (fenced) the script ends, but with --uncontained it is not run at all.  Manifest and family are
\* read here; a split of its own choosing is not compared with the one the family declares.
StartFloor(split, limit, dry, contained, fenced) ==
  /\ contained => fenced
  /\ ~FloorRuns /\ floors < MaxFloors /\ manifest # NoManifest
  /\ Loads(family.declares) /\ family.manifest = manifest
  /\ Cardinality(Limited(manifest, split, limit)) >= family.declares.n \/ dry
  /\ floor' = [manifest |-> manifest, split |-> split, limit |-> limit, declared |-> family.declares.n,
               dry |-> dry, contained |-> contained, fenced |-> fenced, arms |-> <<<<>>, <<>>>>]
  /\ floors' = floors + 1
  /\ UNCHANGED <<screening, shape, canary, manifest, builds, family, report>>

\* run_arm: one task, in the manifest's order, the first arm before the second.
\* An arm that raises is NONE for that task.
RunTask(status) ==
  LET a == IF Len(floor.arms[1]) < NumFloorTasks THEN 1 ELSE 2 IN
  /\ FloorRuns /\ Len(floor.arms[2]) < NumFloorTasks
  /\ floor' = [floor EXCEPT !.arms[a] = Append(@, status)]
  /\ UNCHANGED <<screening, shape, canary, manifest, builds, family, report, floors>>

Resolved(status) == status = "PASSED"
Measured(status) == status # "NONE"

\* how many of the tasks at the places ps the one arm resolved and the other did not
Discordant(arms, ps) ==
  <<Cardinality({i \in ps : Resolved(arms[1][i]) /\ ~Resolved(arms[2][i])}),
    Cardinality({i \in ps : ~Resolved(arms[1][i]) /\ Resolved(arms[2][i])})>>

MeasuredPairs(arms) == {i \in DOMAIN arms[1] : Measured(arms[1][i]) /\ Measured(arms[2][i])}

\* resolve_rate of an arm is a ratio of these two; of none measured there is no rate
Count(arm, statuses) == Cardinality({i \in DOMAIN arm : arm[i] \in statuses})

\* noise_floor_from over the measured pairs; b and c of the published p-value over all of them
ReportOf(f) ==
  LET pairs == MeasuredPairs(f.arms) IN
  [floor |-> f, n |-> Cardinality(pairs), dropped |-> Len(f.arms[1]) - Cardinality(pairs),
   discordant |-> Discordant(f.arms, pairs), tested |-> Discordant(f.arms, DOMAIN f.arms[1]),
   resolved |-> [a \in 1..2 |-> Count(f.arms[a], {"PASSED"})],
   measured |-> [a \in 1..2 |-> Count(f.arms[a], {"PASSED", "FAILED"})]]

\* the families are read again; a dry run writes nothing
Publish ==
  /\ FloorRuns /\ Len(floor.arms[2]) = NumFloorTasks
  /\ report' = IF Corrects(family.declares) /\ ~floor.dry THEN ReportOf(floor) ELSE report
  /\ floor' = NoFloor
  /\ UNCHANGED <<screening, shape, canary, manifest, builds, family, floors>>

\* a process ends early: the files stay as they are
BuilderDies ==
  /\ screening # 0 /\ screening' = 0
  /\ UNCHANGED <<shape, canary, manifest, builds, family, floor, report, floors>>
FloorDies ==
  /\ FloorRuns /\ floor' = NoFloor
  /\ UNCHANGED <<screening, shape, canary, manifest, builds, family, report, floors>>

CampaignNext ==
  \/ NextCandidate \/ BuildManifest
  \/ \E s \in Shapes : Generate(s)
  \/ \E outcome \in MayEndIn("gold") : Screen(outcome)
  \/ \E status \in Statuses : RunTask(status)
  \/ \E declares \in Families : Declare(declares)
  \/ \E split \in Splits, limit \in Tasks, dry, contained, fenced \in BOOLEAN :
       StartFloor(split, limit, dry, contained, fenced)
  \/ Publish \/ BuilderDies \/ FloorDies

CampaignSpec == CampaignInit /\ [][CampaignNext]_campaignVars

-----------------------------------------------------------------------------
\* every task of the manifest the report is about told the gold patch from none
\* by the exit codes of its tests, says what is asked and guards its judge
TasksDiscriminate(m) ==
  LET suite == Suite(m.shape) IN
  \A t \in DOMAIN m.split :
    /\ m.canary[t] = Append([i \in 1..suite.repeats |-> "exit 0"], "exit 1")
    /\ suite.stated /\ suite.guarded

\* A task is in the floor once.  A NONE of either arm takes it out of the pairs and of p01 and
\* p10, and a NONE of an arm out of that arm's rate; the published p-value is not kept clear of
\* them, it counts a task that one arm resolved and the other said nothing of as a difference.
CountsAreMeasured(r) ==
  LET arms == r.floor.arms
      Differ(X, Y) == Cardinality({i \in DOMAIN arms[1] : arms[1][i] \in X /\ arms[2][i] \in Y})
      unresolved == {"FAILED", "NONE"} IN
  /\ Len(arms[1]) = Len(arms[2]) /\ r.n + r.dropped = Len(arms[1])
  /\ r.discordant = <<Differ({"PASSED"}, {"FAILED"}), Differ({"FAILED"}, {"PASSED"})>>
  /\ \A a \in 1..2 : r.resolved[a] <= r.measured[a] /\ r.n <= r.measured[a]
  /\ r.tested = <<Differ({"PASSED"}, unresolved), Differ(unresolved, {"PASSED"})>>

\* A floor that is published is about the tasks of a manifest the canary admitted, with an entry
\* in each arm for at least as many tasks as were declared (how many of them are measured pairs
\* is report.n, which nothing bounds from below); its pairs, its discordance and its rates count
\* measured outcomes only; and one that says it was contained began behind a B3 canary that
\* passed.  The manifest and the family may change under it (run_aa_floor.py).
PublishedFloorIsSound ==
  report # NoReport =>
    /\ ~report.floor.dry /\ Len(report.floor.arms[1]) >= report.floor.declared
    /\ report.floor.contained => report.floor.fenced
    /\ TasksDiscriminate(report.floor.manifest)
    /\ CountsAreMeasured(report)

\* the exact test is run on the discordance of the measured pairs
\* (statistics.discordance: "these two counts are the whole input to exact
\* McNemar"); the script counts the pairs with a NONE too
TestIsOnMeasuredPairs == report.tested = report.discordant

-----------------------------------------------------------------------------
(* The inductive invariant: every outcome but the last of a candidate was  *)
(* what the canary needs, what is read of a manifest is what it admitted,  *)
(* and the second arm begins when the first has run every task.            *)

CanaryGoesOn ==
  /\ canary \in [Tasks -> Seq(MayEndIn("gold"))]
  /\ screening # 0 =>
       /\ shape \in Shapes
       /\ \A t \in Tasks :
            /\ Len(canary[t]) <= Suite(shape).repeats + 1
            /\ \A i \in 1..(Len(canary[t]) - 1) : Status(canary[t][i]) = "PASSED"

ManifestsDiscriminate ==
  /\ manifest # NoManifest => TasksDiscriminate(manifest)
  /\ FloorRuns => TasksDiscriminate(floor.manifest)

ArmsFollow ==
  /\ DOMAIN floor = DOMAIN NoFloor /\ floor.arms \in [1..2 -> Seq(Statuses)]
  /\ FloorRuns =>
       /\ NumFloorTasks >= floor.declared \/ floor.dry
       /\ floor.dry \in BOOLEAN /\ (floor.contained => floor.fenced)
       /\ Len(floor.arms[1]) <= NumFloorTasks /\ Len(floor.arms[2]) <= NumFloorTasks
       /\ floor.arms[2] # <<>> => Len(floor.arms[1]) = NumFloorTasks

CampaignInv == CanaryGoesOn /\ ManifestsDiscriminate /\ ArmsFollow /\ PublishedFloorIsSound
=============================================================================
