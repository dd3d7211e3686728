-------------------------------- MODULE Parts --------------------------------
(***************************************************************************)
(* The parts of the two systems that keep no state in common, composed     *)
(* into one specification: a behaviour chooses its subject in the first    *)
(* state and is then a behaviour of that part alone.  Dispatch and Sandbox *)
(* keep their own variables, which stay as they began when the subject is  *)
(* another part; for that one they are v1, v2, ... in the order in which   *)
(* its module declares them, and those it does not need keep the value     *)
(* Unused.  The constants are those of the parts.                          *)
(***************************************************************************)
EXTENDS Dispatch, Sandbox

\* CodeIndex
CONSTANTS NumFiles, Text, TopLevel, MaxEdits
\* Providers
CONSTANTS Sessions, Digests, NumProviders, Backoffs, Posts, MaxAsks, MaxAnswers
\* Conversation
CONSTANTS KeepFirst, KeepLast, Threshold, StepKinds, SummaryTokens, MaxSteps, MaxRepairs
\* Export
CONSTANTS NumRuns, Siblings, Prefixes, MaxAttempts, MaxRunSteps, MaxProcesses
\* Benchmark
CONSTANTS NumCommits, Determinism, Costs, MaxBenches
\* Journal
CONSTANTS EventKinds, MaxEvents, Frames
\* Topology
CONSTANTS NodeKinds, BudgetOf, EdgeChoices, RepairChoices
\* Prompts
CONSTANTS Entries, Tests, Replies, MaxIterations, MaxRounds, MaxToolCalls
\* Campaign
CONSTANTS NumTasks, TaskOutcomes, Shapes, Repeats, Shuffled, Families, TierFloor, MaxBuilds, MaxFloors
\* Statistics
CONSTANTS Hypotheses, MaxPairs

VARIABLES subject, v1, v2, v3, v4, v5, v6, v7, v8, v9, v10, v11, v12, v13

slots == <<v1, v2, v3, v4, v5, v6, v7, v8, v9, v10, v11, v12, v13>>
partsVars == <<subject, dispatchVars, sandboxVars, slots>>
Unused == "unused"

-----------------------------------------------------------------------------
(* sagiha.                                                                 *)

Index == INSTANCE CodeIndex WITH
  tree <- v1, rows <- v2, edges <- v3, graphed <- v4, walk <- v5, history <- v6, N <- NumFiles

Model == INSTANCE Providers WITH
  cassette <- v1, session <- v2, call <- v3, answers <- v4, recorded <- v5, Providers <- NumProviders

Context == INSTANCE Conversation WITH
  exchanges <- v1, openFiles <- v2, trajectory <- v3, turn <- v4, repairs <- v5, Kinds <- StepKinds

Store == INSTANCE Export WITH
  status <- v1, family <- v2, prefix <- v3, steps <- v4, gates <- v5, verified <- v6, live <- v7,
  standing <- v8, exported <- v9, rounds <- v10, MaxSteps <- MaxRunSteps, MaxRounds <- MaxProcesses

Bench == INSTANCE Benchmark WITH
  command <- v1, checking <- v2, source <- v3, suite <- v4, cache <- v5, plan <- v6, results <- v7,
  attempt <- v8, floor <- v9, measured <- v10, verdict <- v11, benches <- v12

-----------------------------------------------------------------------------
(* aether and its measurement.                                             *)

Log == INSTANCE Journal WITH
  running <- v1, emitted <- v2, queue <- v3, screen <- v4, batch <- v5, next <- v6, rows <- v7,
  Kinds <- EventKinds

File == INSTANCE Topology WITH
  stage <- v1, edges <- v2, repair <- v3, last <- v4, ran <- v5, loop <- v6, payload <- v7,
  KindOf <- NodeKinds

Talk == INSTANCE Prompts WITH
  library <- v1, params <- v2, at <- v3, payload <- v4, prompt <- v5, justifying <- v6, heard <- v7,
  rounds <- v8, reply <- v9, writes <- v10, clobbered <- v11, widened <- v12, iteration <- v13,
  MaxCalls <- MaxToolCalls

Measurement == INSTANCE Campaign WITH
  screening <- v1, shape <- v2, canary <- v3, manifest <- v4, builds <- v5, family <- v6, floor <- v7,
  report <- v8, floors <- v9, Outcomes <- TaskOutcomes

Numbers == INSTANCE Statistics WITH pairs <- v1, pvalue <- v2, adjusted <- v3, among <- v4

ASSUME PartsAssumption ==
  /\ Index!IndexAssumption /\ DispatchAssumption /\ SandboxAssumption
  /\ Model!ProvidersAssumption /\ Context!ConversationAssumption /\ Store!ExportAssumption
  /\ Bench!BenchmarkAssumption /\ Log!JournalAssumption /\ File!TopologyAssumption
  /\ Talk!PromptsAssumption /\ Measurement!CampaignAssumption /\ Numbers!StatisticsAssumption

-----------------------------------------------------------------------------
From13 == v13 = Unused
From11 == v11 = Unused /\ v12 = Unused /\ From13
From10 == v10 = Unused /\ From11
From8 == v8 = Unused /\ v9 = Unused /\ From10
From7 == v7 = Unused /\ From8
From6 == v6 = Unused /\ From7
From5 == v5 = Unused /\ From6
From1 == v1 = Unused /\ v2 = Unused /\ v3 = Unused /\ v4 = Unused /\ From5

SlotsInit ==
  \/ subject \in {"dispatch", "sandbox"} /\ From1
  \/ subject = "index" /\ Index!IndexInit /\ From7
  \/ subject = "providers" /\ Model!ProvidersInit /\ From6
  \/ subject = "conversation" /\ Context!ConversationInit /\ From6
  \/ subject = "export" /\ Store!ExportInit /\ From11
  \/ subject = "benchmark" /\ Bench!BenchmarkInit /\ From13
  \/ subject = "journal" /\ Log!JournalInit /\ From8
  \/ subject = "topology" /\ File!TopologyInit /\ From8
  \/ subject = "prompts" /\ Talk!PromptsInit
  \/ subject = "campaign" /\ Measurement!CampaignInit /\ From10
  \/ subject = "statistics" /\ Numbers!StatisticsInit /\ From5

SlotsNext ==
  \/ subject = "index" /\ Index!IndexNext /\ UNCHANGED <<v7, v8, v9, v10, v11, v12, v13>>
  \/ subject = "providers" /\ Model!ProvidersNext /\ UNCHANGED <<v6, v7, v8, v9, v10, v11, v12, v13>>
  \/ subject = "conversation" /\ Context!ConversationNext /\ UNCHANGED <<v6, v7, v8, v9, v10, v11, v12, v13>>
  \/ subject = "export" /\ Store!ExportNext /\ UNCHANGED <<v11, v12, v13>>
  \/ subject = "benchmark" /\ Bench!BenchmarkNext /\ UNCHANGED <<v13>>
  \/ subject = "journal" /\ Log!JournalNext /\ UNCHANGED <<v8, v9, v10, v11, v12, v13>>
  \/ subject = "topology" /\ File!TopologyNext /\ UNCHANGED <<v8, v9, v10, v11, v12, v13>>
  \/ subject = "prompts" /\ Talk!PromptsNext
  \/ subject = "campaign" /\ Measurement!CampaignNext /\ UNCHANGED <<v10, v11, v12, v13>>
  \/ subject = "statistics" /\ Numbers!StatisticsNext /\ UNCHANGED <<v5, v6, v7, v8, v9, v10, v11, v12, v13>>

Init == SlotsInit /\ SandboxInit /\ DispatchInit /\ (subject # "dispatch" => ~tainted)

Next ==
  \/ subject = "dispatch" /\ DispatchNext /\ UNCHANGED <<subject, sandboxVars, slots>>
  \/ subject = "sandbox" /\ SandboxNext /\ UNCHANGED <<subject, dispatchVars, slots>>
  \/ SlotsNext /\ UNCHANGED <<subject, dispatchVars, sandboxVars>>

Spec == Init /\ [][Next]_partsVars

-----------------------------------------------------------------------------
\* The properties of Dispatch (TaintPrecedesWrites, TrajectoryIsAPrefix, CallsAreAccountedFor)
\* and of Sandbox (SandboxIsSound) are checked as their modules state them; those of a part in
\* slots, when it is the subject.

\* Each part keeps its state in the types its module gives it.
PartsTypeOK ==
  /\ DispatchTypeOK /\ SandboxTypeOK
  /\ subject = "index" => Index!IndexTypeOK
  /\ subject = "providers" => Model!ProvidersTypeOK
  /\ subject = "conversation" => Context!ConversationTypeOK
  /\ subject = "export" => Store!ExportTypeOK
  /\ subject = "benchmark" => Bench!BenchmarkTypeOK
  /\ subject = "journal" => Log!JournalTypeOK
  /\ subject = "topology" => File!TopologyTypeOK
  /\ subject = "prompts" => Talk!PromptsTypeOK
  /\ subject = "campaign" => Measurement!CampaignTypeOK
  /\ subject = "statistics" => Numbers!StatisticsTypeOK

\* A search and an impact query answer from the tree of the last reindex that ended, whatever
\* walk failed or died before it (IndexService).
IndexIsFaithful == subject = "index" => Index!IndexIsFaithful

\* A replay of the same requests is given the answers of the recording (CassetteModelProvider).
ReplayIsTheRecording == subject = "providers" => Model!ReplayIsTheRecording

\* The model is told every step in order, and of every untrusted one that it is (compactor,
\* ContextAssembler).
PromptIsFaithful == subject = "conversation" => Context!PromptIsFaithful

\* The event table is a numbered prefix of what was emitted, and all of it once a run returned
\* (engine.run).
EventsKeepTheirOrder == subject = "journal" => Log!EventsKeepTheirOrder

\* A chain the validator accepts meets no payload of another type and passes a judge; with a
\* repair block that starts on it, it ends on one (validate_topology, execute).
AcceptedChainIsJudged == subject = "topology" => File!AcceptedChainIsJudged

\* What a prompt shows as the operator's was written by the operator (PlanSource, I11).
OperatorSpeaksAlone == subject = "prompts" => Talk!OperatorSpeaksAlone

\* No tool after untrusted text, and no test overwritten by a block without a name
\* (DefaultPolicyEngine, WholeFileCodeblockFormat).
EffectsAreLicensed == subject = "prompts" => Talk!EffectsAreLicensed

\* A published noise floor is about admitted tasks, and its pairs, discordance and rates are of
\* measured outcomes (run_aa_floor.py).
PublishedFloorIsSound == subject = "campaign" => Measurement!PublishedFloorIsSound

\* A corrected p-value is that of the closed test of the family it was corrected in
\* (compare_runs, holm_correct_family, holm_for_family).
CorrectionIsAClosedTest == subject = "statistics" => Numbers!CorrectionIsAClosedTest

\* What an export writes are runs the gates admit as they stand, and pairs of siblings whose
\* verdicts differ (_do_export, eligibility.py, dpo.py).
ExportIsCurrent == [][subject = "export" => Store!ExportIsCurrent]_partsVars

\* A report is of passes over the whole suite and of repositories that were there, and a
\* POSITIVE is beyond the drift of the floor that was given (bench, run_suite, ensure_repo,
\* reporter.verdict).
ReportIsOfItsSuite == [][subject = "benchmark" => Bench!ReportIsOfItsSuite]_partsVars
=============================================================================
