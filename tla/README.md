# Models and proofs of Harness-D-power

The repository holds two agent harnesses that share ideas and no code: `sagiha` (`src/src/sagiha`,
a run loop behind a policy choke point, with freeze and thaw, a best-of-N search and a benchmark)
and `aether` (`src/src/aether`, a governed workflow executor with a budget ledger, a validator of
topologies and a measurement harness). Both drive a language model that may answer anything, so
what they promise is about control: money, leases, taint, verdicts, what is on disk after a crash.
This directory states those promises in TLA+, checks them with TLC on small instances, and proves
the safety ones with TLAPS for every value of the constants.

Paths below are relative to `src/` unless they name a module.

## 1. Inventory

### aether

**Resource governor** (`src/aether/kernel/governor.py`; `Governor`, `GovernorPool`, `Account`).
State: the ceiling seeded for a run, what is left of it, what is left of each lease, the live
leases, the spend, the overruns. Operations: `seed_run_budget`, `reserve` (from the pool of a run
or from a parent lease), `commit`, `release`, `_refund`. Called by the dispatcher for effects and by
the executor for nodes and iterations, in any interleaving; each call holds one lock and awaits
nothing under it. Hard: a lease settled twice, a child settled after its parent, a commit above its
reservation. Right when both ledgers balance always and, but for overruns, nobody is granted more
than was there.

**Workflow executor, nodes, dispatcher** (`src/aether/workflow/executor.py`, `workflow/nodes/`,
`workflow/dispatch_facade.py`, `kernel/dispatch.py`, `engine.py`; `Executor`).
State: the node at work, its lease, the lease of the repair iteration and of the effect in flight,
the payload that travels from node to node, the exception in flight. Operations: enter, run, leave
a node; dispatch an effect and receive its answer, failure or refusal; start, close or decline a
repair iteration. One asyncio task; it may be cancelled while an adapter works. Hard: exceptions at
every step with up to three leases in hand, a repair block that must be funded, ended and judged.

**Topology validator and loader** (`src/aether/workflow/validator.py`, `workflow/executor.py`;
`Topology`). State: the file's edges and repair block, then how far the executor is with it.
Operations: the static checks, the executor's ordering, the unrolling of the repair block. Hard:
checks and executor read the same edges in two ways. Right when an accepted file passes a judge, a
repair loop ends on one, and no node meets a payload it cannot take.

**Roles, context, payloads and tool loop** (`src/aether/agency/`, `kernel/policy.py`; `Prompts`).
State: the payload, the prompt of the call at work, the labels of what was heard, the edits parsed
and not yet written. Operations: compose a prompt, answer, call tools, parse, write, judge, repair.
Hard: text of one author carried through several nodes, rounds of tools after untrusted results.
Right when nothing of the model is shown as the operator's and no effect exceeds its author.

**Event bus and trajectory store** (`src/aether/kernel/bus.py`,
`adapters/trajectory_store/sqlite.py`, `engine.py`; `Journal`). State: two queues with two drop
policies, the batch being stored, the rows. Hard: failing inserts and deaths around a drain that
happens only at the end of a run. Right when the table is a prefix of what happened.

**Measurement** (`src/aether/measurement/`, `scripts/`; `Campaign`, `Statistics`). State: the
canary's outcomes, the manifest, the family file, the two arms, the report. Operations: screen,
build a manifest, declare a family, run two arms, publish, test, correct. Hard: files that change
between two processes, instrument errors that must not be counted. Right when a published number is
about admitted tasks and measured outcomes, which the p-value is not (section 6), and a correction is
that of the family it was made in.

**Adapters** (`src/aether/adapters/`). git, podman, tree-sitter and HTTP behind ports. Modelled by
how a call may end, in `Executor`, `Campaign` and `Prompts`.

### sagiha

**Run loop, freeze, thaw, resume** (`src/sagiha/agency/run_loop.py`, `agency/freeze.py`, `cli.py`,
`adapters/trajectory/sqlite.py`, `kernel/policy/engine.py`, `outer_loop/evaluator/gate_evaluator.py`;
`RunLoop`). State in memory: taint, spend, base commit, sequence number, attempt, repeated calls,
last gate report. State on disk: the trajectory, the record of the run, the freeze file, the
repository. Operations: a model call, a tool call (refused, made, raising, skipped as a repeat), the
end of a step, gates and repair, park on budget, freeze on failover, close, thaw, `--resume`. A
process may die between any two of them.

**Dispatch and event bus** (`src/sagiha/kernel/dispatch.py`, `kernel/bus.py`,
`kernel/policy/engine.py`, `adapters/tools/registry.py`; `Dispatch`). State: the call in flight,
its grant and lease, the taint of the run, what each observer recorded, who is quarantined.
Operations: hook, authorize, verify, acquire, run, record. Hard: cancellation or the grant's expiry
at any await, the one inside `emit` included; observers that fail. Right when writes never follow
taint, calls add up and a trajectory has no hole.

**Best-of-N search and worktrees** (`src/sagiha/adapters/search/best_of_n.py`,
`adapters/workspace/worktree.py`, `composition.py:360`, `e0/runner.py:143`; `Search`, `Worktrees`).
State: outcomes by candidate, the count of gate evaluations, the worktrees the manager knows and
those git has. Operations: propose (candidates in turn or as tasks of one group), allocate,
materialize, run, repair, release, cancel, select. Hard: a clean admission or an exception cancels
the siblings wherever they are.

**Model providers** (`src/sagiha/adapters/model/`; `Providers`). State: the cassette file, what each
session holds of it, the provider and the attempt a call is at. Operations: record, replay, post
again, back off, fail over. Hard: concurrent sessions write the same file whole; a death tears it.
Right when a replay is of one recording.

**Workspaces and container sandbox** (`src/sagiha/adapters/workspace/local.py`,
`adapters/sandbox/`; `Sandbox`). State: the lock, the handle, the container, the proxy and its
socket. Operations: start, run, close, cancel. Hard: failures and cancellations at every await of a
start. Right when a sandbox that says it is started was, behind its proxy, and the lock is with the
task inside `start()` or `aclose()` only.

**Index and code graph** (`src/sagiha/adapters/indexer/`, `adapters/code_graph/treesitter.py`;
`CodeIndex`). State: two databases and a walk. Operations: full and partial reindex, prune,
queries. Hard: two transactions a file, a crash between any two, edges that belong to two files.
Right when, after a reindex that ended, both answer from the tree.

**Context and memory** (`src/sagiha/agency/context/`; `Conversation`). State: the exchanges, the open
files, the persisted steps. Operations: assemble, compact, reply, repair turn, rebuild. Hard:
summaries of summaries, then a resume. Right when nothing is forgotten and taint is never lost.

**Benchmark (e0)** (`src/sagiha/e0/`; `Benchmark`). State: the suite, the cached clone, the passes of
a bench, floors. Operations: harvest, import, fetch, attempt, report, compare. Hard: deaths inside
the cache, attempts without a cost, floors taken of something else. Right when what is reported
is of the suite and of repositories that were there.

**Export** (`src/sagiha/outer_loop/export/`; `Export`). State: records, steps, verdicts, replays.
Operations: launch, resume, replay, judge, export. Hard: verdicts that became stale or never reached
the store. Right when only what stands admitted is exported.

### Not modelled

| What | Why |
|---|---|
| the parsing, rendering and counting of text: prompts, diffs, code blocks, chunks, tokens, redaction | no protocol; each is kept by what the properties tell apart |
| egress proxy decisions, HTTP client, podman, git, tree-sitter, JSON schema | I/O or library calls; modelled by how they may end |
| tool cassette (`adapters/tools/cassette.py`) | a second store of the form `Providers` models |
| memory store (`adapters/memory/short_term.py`) | the run loop never reads it |
| domain and configuration classes, starter files (`outer_loop/init`), upcasters | frozen data |
| bootstrap resampling, power table, prices, `derive_n`, `PairedRunner`, `BareModelHarness` | random resampling over reals; tables; code that only tests or one-off scripts run |
| front end, task lists, other scripts | they display or list; no protocol of their own |

Tests, comments and prose are read as statements of what the code promises.

### How they interact

`engine.run` seeds the governor and hands a validated topology to the executor; every node reserves
from the run or from the iteration; every effect passes the dispatcher, which reserves from the run
again; what happened reaches the store at the end of the run. `RunLoop` is driven by `cli.py`, by a
host that thaws, or by a `KernelCandidateExecutor` inside a best-of-N candidate; each of these
builds a kernel of its own, so governors, taint and sandboxes are never shared between candidates,
and only the worktree manager, the search object, the cassette file and the trajectory database are.
Each tool call of a run is one dispatch; the prompt of each step is the assembler's; the export
reads what runs, resumes and replays left in the database. The measurement scripts run aether, the
benchmark runs sagiha; both see a run as an outcome and a cost.

So three compositions matter and are modelled as such: the executor over its governor, the search
over its worktrees, the processes of a run over one disk. The other parts share files, not steps,
and are checked side by side.

## 2. Modules

| Module | Models | Composes |
|---|---|---|
| `Sums` | a finite sum over `1..n`, by a recursive function | |
| `Account` | abstract: free, held and used money of one pool | |
| `Governor` | the ledger | `Sums` |
| `GovernorPool` | the pool of one run and dimension as an `Account` | `Governor`, `Account` |
| `Executor` | one aether run with its ledger | `Governor` |
| `RunLoop` | one sagiha run over its processes | |
| `Worktrees`, `Search` | the worktree manager; one best-of-N task | `Worktrees` |
| `Dispatch` | one run's tool calls at the choke point, and the bus | |
| `Sandbox` | one container sandbox and its callers | |
| `CodeIndex` | the retrieval index of a workspace | |
| `Providers` | model sessions over one cassette | |
| `Conversation` | the prompt of a run | |
| `Export` | the trajectory store and its exports | |
| `Benchmark` | the e0 benchmark with its repository cache | |
| `Journal` | the events of an aether run | |
| `Topology` | a topology file, its checks and its execution | `Sums` |
| `Prompts` | prompts, payloads, tool rounds, edits | |
| `Campaign` | canary, manifest, family, floor | |
| `Statistics` | McNemar and Holm over a family | |
| `Parts` | the twelve components from `Dispatch` to `Statistics`, side by side | all twelve |
| `MCGovernor`, `MCExecutor`, `MCRunLoop`, `MCSearch` | instances of one component | |
| `MCParts` | an instance of `Parts` | |
| `MCSandbox`, `MCTopology`, `MCCampaign` | the instances of section 6 | |
| `SumsProofs`, `GovernorProofs`, `GovernorPoolProofs`, `ExecutorProofs`, `RunLoopProofs`, `SearchProofs` | theorems about those modules | |
| `SagihaProofs` | theorems about `Dispatch`, `Sandbox`, `Providers`, `Conversation`, `Export`, `CodeIndex`, `Benchmark` | |
| `AetherProofs` | theorems about `Journal`, `Topology`, `Prompts`, `Campaign`, `Statistics`, and the types of all of `Parts` | |

Operators called `Bug...` are plausible faults of the definition that follows them. No
specification uses them; each is put in place of its definition to see that a property notices.
A component module ends with its inductive invariant, where it has one of its own (`JournalInv`,
`TopologyInv`, ...): the proofs rest on it and TLC can be pointed at it.

### Governor

Variables carry the names of the fields they stand for: `rootRemaining` is `_run_root_remaining`,
`parentRemaining` is `_parent_remaining`, `live` the keys of `_leases`, `spent` and `overruns` the
fields of those names. `lease` remembers every lease issued, because `commit` and `release` look up
what they pop. `rootSpent` and `childSpent` are history. A refused reservation and the settlement of
a dead lease change nothing and are stuttering steps. `MaxLeases` bounds the number of leases. A
child lease carries the run of its parent, as the only caller passes it.

`GovernorPool` maps one pool to `Account`: money is granted only from what is free, and a
settlement gives back exactly what was held and takes exactly what was used. `PoolIsAnAccount` is
that refinement.

### Executor

One action per thing the executor or a node does. An effect is two steps (`Dispatch`, then
`Answer`, `Fail` or `Cancel`) since the task leaves the processor only there. `NodesOf`, `Chain` and
`Via` are the topological order and the repair block of the topology; `ValidTopology` is what the
validator demands of them: sockets fit, a judge is passed, the loop goes from a judge to a judge and
its budget covers its nodes. The chain begins at `retrieve` and need not end on its judge; if it does
not, `Return` is the `AttributeError` with which `engine.run` ends when it reads the verdict of an
outcome that has none. `payload` keeps what `gate_status_of` reads and whether the provider
produced a completion. `judged` and `earned` are history: whether the last tests saw the files as
they are, and the last verdict given. Every adapter may fail, every model call may cost any member
of `CostOf["model"]`, more than was reserved included.

### RunLoop

`loop` is the process and dies with it; `status`, `steps`, `freeze`, `repo` stay. `repo` keeps only
what the gates can tell apart: HEAD, whether a protected file is edited in the tree, and the last
commit that carries such an edit. A reply's tool calls are chosen one at a time. A dispatch is one
action with its outcome: refused by the TaintGate (`Deny`), made (`Run`), raising (`Raise`), skipped
as a repeat (`Skip`). `Judge` is the gate phase with the choice between repair and close;
`JudgeLate` the evaluation after a run that ended before any gate; `Close` the record of the
outcome; `ClearFreeze` the last line of `thaw()`. `Crash` is enabled wherever a process is alive.
`audit` is history: which observers' untrusted output was seen, what was billed, how often the
gates ran, whether `--resume` was ever used.

### Search

Each candidate is a worker: `Launch` (limiter or turn), `Enter`, `AllocateTree`, `Materialize`,
`Run`, `Collect` (the answer of `execute()`, with the decision to repair), `Release` (shielded),
`Finish`. `Fail` is an exception at any of the middle ones, `Cancel` the delivery of a cancellation.
A cancelled worker stops at its next await, which is why `AllocateTree` and `Release` have no guard
on `cancelled` and why `Collect` may cross one. `N`, `Parallel`, `Concurrent`, `CancelOnAdmit`,
`Prune`, `MaxRounds`, `EscalateAfter`, `Cap` are the configuration. A candidate is its branch id:
ids are random and used once. The three escalation thresholds are a count and one flag, "a large
diff".

### Dispatch

`call` is the one tool call of the run that is in `dispatch()` and the await it stands at; the steps
between two awaits are one action. `grant` is the entry of `_active_grants`, `Expire` the passing of
its five minutes. `Publish` is the start of `EventBus.emit`, which runs a task for every active
observer in one task group; `Observe` is one of these tasks, which records the event, fails, or
both, in any order with the others, and one that failed is never called again. The call goes on when
all have ended (`Delivered`). A cancellation inside `emit` is caught by neither the bus nor its
tasks, so `Cancel` drops what is `awaiting` and leaves the observers subscribed. `trail` and `seen`
are what was emitted and what each observer has. Calls are any tool (an unregistered one too) with
arguments that escape the workspace or not and satisfy the schema or not.

### Sandbox

Each caller's `task` is the await it is at; `holder` is the asyncio lock. Containers and proxies
bear the number of the start that made them, since name and socket path are the same for all of one
sandbox: `--replace` and the reuse of the path are overwrites. A cancellation (`Interrupt`) may come
at any step, and what podman was asked to do may still happen. `ContainerExits` ends a running
container whenever its own process does; the code asks nobody whether it still runs. `self` is the
step in which `aclose()`, called by a failed `start()`, waits for the lock of its caller.

### CodeIndex

`rows` and `edges` are the two databases, `graphed` the files with rows in the graph's symbol
table, `walk` the reindex in progress with the text it has just read. Every transaction is a step.
`Kept` is the pair of `DELETE`s of `replace_file_edges`, which remove edges of other files too, the
`LIKE` of a module at the root included. Queries (`ImpactedBy`, `CallersOf`) are evaluated in the
property, over `Dependents` as the code joins paths and symbols; the recursive traversal is given
by the walks it can take from its seeds (`Frontiers`), as many levels as it descends.

### Providers

A session has its own copy of the cassette (`held`), read when it opens, and writes it whole after
each answer (`Answer`). `Fail` and `Repost` are the retries of the HTTP adapter and of the fallback
chain. `Die` may tear the file. `recorded` is history: the log of the recording a replay is
compared with.

### Conversation

An exchange keeps the steps it speaks of, verbatim or in summary, its calls and answers, the taint
flag it carries and its tokens. `TailStart` is the compactor's choice of the tail, with its rule
that the last exchange stays. `Resume` is `from_trajectory`, `Repair` the feedback turn, which is
not persisted.

### Export

`status`, `steps`, `gates`, `verified` are the rows of the store, `live` the process that writes
them. `Judge` and `Finish` say whether the store's observer was still called. `standing` is history:
what the gates said of a run as it now stands. `Samples`, `Group`, `Chosen` and `Rejected` are the
filters of the two exports.

### Benchmark

`checking` is `validate_suite` at its commit; `plan` and `results` are the passes of a bench;
`attempt` is how far the task is with its repository (`GitInit`, `AddRemote`, `Fetch`, each a
process of its own that may fail or be the last). An attempt by either strategy is one step with
its admission and its cost (`SingleShot`, `BestOfN`), or an exception without one (`Raises`).
Rates are kept as sums over pairs, so that comparisons are on integers; the bootstrap's bound is
any mean a resampling can give.

### Journal

`running` is what `engine.run` is at, `queue` and `screen` the queues of the store and of a display,
`batch` and `next` the locals of `_drain_to_trajectory_store`. Every insert is a step that may fail.

### Topology

`Draw` lets the author write any edge of `EdgeChoices`; `Validate` is the conjunction of the static
checks; from there `RunNode`, `Iterate` and `RunRepairNode` are the executor. `last` is `edge_map`,
in which a later edge of a node replaces an earlier one; the list's order is left open. The
validator's fixpoint loop for nodes that reach a judge is the least set closed under its step
(`EvaluatorTermination`). `Makes` is
what a node's code returns, which for the reflector is not what its declaration says (`Gives`).

### Prompts

`library` chooses between the registered roles and the step classes they replaced. Of a text the
module keeps its authors, of a reply its fenced blocks. `FromSource` and `SourcesOf` are the sources
a role composes, with their labels; `Folded` what a reply becomes in the payload; `UseTool` and
`RefuseTool` the policy's rule on the spans that justify a call; `ParsedBlocks` the three tiers of
`WholeFileCodeblockFormat.parse`; `ApplyDiff` a unified diff. `widened` and `clobbered` are history.

### Campaign and Statistics

`Campaign` has two processes: the builder (`Generate`, `Screen`, `NextCandidate`, `BuildManifest`)
and the floor script (`StartFloor`, `RunTask`, `Publish`), with the files between them; both may
die. `fenced` is what the B3 canary found of the environment, `contained` that `--uncontained` was
not given and the canary was run. An evaluation ends in an outcome; `Status` is what the evaluator
makes of it. `Statistics` grows paired results one task at a time; `Compare` is `compare_runs`,
which corrects its comparison in a family of one, `Test` the floor script's test, `CorrectThese` and
`CorrectDeclared` the corrections of a family, and `among` remembers in which a comparison was
corrected last. Probabilities are the code's floats without rounding, as multiples of `2 ^
-MaxPairs`. Binomial coefficients are rows of Pascal's triangle (`Comb`), and Holm's step-down is
written by rank (`Before`, `Scaled`), as ties come out equal in any order.

## 3. Runs

| Run | Instance | Distinct states | Shows |
|---|---|---|---|
| `governor` | one run, two dimensions of which one has a ceiling of 2, four leases | 546,126 | both ledgers balance, nobody is granted more than is there, children stay off the pool, the pool is an account |
| `executor` | the shipped `linear_repair_v1.yaml` at the scale of a few units, five ceilings, two iterations, two files | 193,038 | leases, verdicts, funding, fail-closed ceiling, termination |
| `runloop` | two steps an attempt, two repairs, two processes, one commit, one call a reply | 522,063 | transcript, verdicts, spend, taint, termination |
| `search` | three candidates in two slots, one repair, cap three, two scores | 59,922 | worktrees, admissions, cap, termination |
| `parts` | the twelve components of `MCParts`, one instance each | 3,213,312 | the sixteen properties of section 4 |
| `executor_denial` | that of `executor` | violation | section 6 |
| `runloop_base`, `runloop_parked`, `runloop_repair` | one repair, two processes, one way to come back | violation | section 6 |
| `sandbox_start` | one caller, restricted network | violation | section 6 |
| `topology_end` | three nodes, edges that close a cycle | violation | section 6 |
| `floor_pairs` | two admitted tasks, arms that may say anything | violation | section 6 |

`Parts` is a disjoint union. A behaviour chooses its `subject` in the first state and from then on
takes only that component's steps. It extends `Dispatch` and `Sandbox`; their variables stay as
they began when the subject is another. The other ten are instances: `v1` to `v13` are the
component's variables in the order in which its module declares them, those it does not need keep
one value, and each property is "when this is the subject, the component's property holds". A
component is checked exactly as in a run of its own, and nothing is claimed about two of them
together. The theorems about the ten are of `Parts`, so they name the very definitions `MCParts`
checks.

### Why the bounds are enough

*Governor.* Four leases give a parent with two children and an unrelated root lease, every order of
settling them, and an overrun of each kind.
*Executor.* The ceilings fall below the first model node, between a chain and an iteration, and
above both, so that every refusal occurs; two iterations give a second one that follows an overrun
of the first; 26 leases are what the longest run of that topology issues.
*RunLoop.* Two processes give a crash, thaw or resume at every point of the first; a third only
repeats that. Two repairs and one kind of failing output give both a repair with progress (the diff
changes) and one without.
*Search.* Three candidates in two slots give one running, one released and one queued at a
cancellation, and two admitted at once; `3 * (1 + 1) = 6` evaluations are one more than the cap
allows, so the bound on the cap is reached and can be broken.
*Dispatch.* Two calls are a relaying tool and a writing one in either order; every observer of two
may fail at each event, and a cancellation may fall between any two of them, so a hole would show.
*Sandbox.* Two callers and three starts: one start that fails or is cancelled and leaves a container
and a proxy behind, one that overwrites them, one more, with a close anywhere in between.
*CodeIndex.* Two Python files, one at the root (the `LIKE` case), and a text; one edit anywhere in
or between any number of full, partial, failed and crashed reindexes.
*Providers.* Two sessions over one file, two digests, three answers: a repeated digest, a lost
update, an extended recording. Two providers with one back-off and two posts give each failover.
*Conversation.* Six steps with a tail of two tokens and a threshold of six compact twice, so a
summary is summarised; one repair and any number of deaths.
*Export.* Three runs, of which any is a resume, a replay or a sibling of another, over three
processes and repairs.
*Benchmark.* Two tasks and three commands: a floor, another suite, a comparison; an attempt of
best-of-N may cost twice a single shot.
*Journal.* Three events between the first and the last, and a display of two frames, so that it
drops.
*Topology.* The chain of the shipped workflows with the edges that bend it (a skip, a cycle, a
second exit, an error edge) in any subset and listed in any order, and seven repair blocks: right,
over budget, ill-fitting, without a judge, undeclared, bounded by one and two, none.
*Prompts.* Two entry files of which one is a test, six replies that reach each tier of the parser
and its errors, two repair iterations, four rounds of up to two calls.
*Campaign.* Four tasks: two that pass the canary, one flaky machine, one that may do anything;
three families, of which one is of the wrong split and one of two hypotheses.
*Statistics.* Two hypotheses of up to four pairs each: every pair of p-values an exact test can have.

Deadlock is checked in `executor`, where a run that is over may only `Rest`. The governor's leases
run out at their bound; a finished process, a finished batch and each of the twelve parts may really
stop, so those runs do not check it. The deadlock of `sandbox_start` is therefore stated as a
property of the lock.

### Fairness

- `Executor`: weak fairness of `Work`, not of `Cancel`. Every adapter call ends: git, tools and
  sandboxes run under a timeout and a model stream ends or raises.
- `RunLoop`: weak fairness of `Work`, so that a living process goes on. Nothing forces a crash, a
  thaw or a resume.
- `Search`: weak fairness of the next-state relation: some worker, or the task, goes on. The event
  loop starves no task that is ready, each step happens at most a bounded number of times, and so
  nothing finer is needed.
- `Governor` and the twelve parts have none: their callers drive them, and only safety is claimed.

## 4. Properties

One type invariant a module (`PartsTypeOK` gathers those of the twelve). The others:

*Governor* `Conserved` (every unit of money is in one place, in the pool of a run and in every
parent, dead ones included), `Funded` (no grant above the ceiling or the parent without an
overrun), `ChildrenStayOffThePool`, `PoolIsAnAccount`.

*Executor* `LedgerIsSettled` (live leases are the ones in hand, on every exit but cancellation's,
and what is left is the ceiling less the spend), `ResultIsJudged` (a returned verdict is about the
files as they are, and a chain that ends on its judge always has one), `IterationIsFunded` (the
validator's sum is enough), `FailClosed`, `NoneIsNeverRepaired`, `RunEnds`.

*RunLoop* `TranscriptIsDense`, `AdmittedIsEarned` (an admission is of the files as they are and, in
a run that was never resumed, no protected file was edited since it began), `SpendIsBounded` (the
bill and the evaluations), `WritesAreUntainted`, `ProcessEnds`.

*Search* `NoWorktreeIsLost`, `SearchIsBounded` (worktrees and evaluations), `SelectionIsJudged` (no
admission is lost, nothing unjudged is returned), `ProposeEnds`.

*Dispatch* `TaintPrecedesWrites` (however long the tool ran and whatever became of its grant),
`TrajectoryIsAPrefix` (an observer's record may end early, it has no hole; one that is not
quarantined lacks at most the last event, while it is being delivered or when the run was cancelled
in its delivery), `CallsAreAccountedFor` (verdicts, outcomes, grants and leases add up, a cancelled
call included). *Sandbox* `SandboxIsSound`: a sandbox that says it is started has the container
podman started and the proxy that is listening, and the lock is owned by the task inside `start()`
or `aclose()`. Whether the container still runs it does not say, nor that the owner gets out
(`sandbox_start`). *CodeIndex* `IndexIsFaithful`: the rows are the tree's and the two databases hold
the same files; after a full walk dependents are found, except the edges that indexing a later file
deletes. *Providers* `ReplayIsTheRecording`. *Conversation* `PromptIsFaithful`: every step is spoken
of, in order, and every untrusted one is marked, after any compactions and resumes. *Export*
`ExportIsCurrent`: samples and pairs are of runs as the gates last saw them, or of runs some verdict
of which the store never got, which it cannot know. *Benchmark* `ReportIsOfItsSuite`: a floor or a
verdict is of passes that ran every task and found every repository, through deaths inside the cache
and earlier benches; a POSITIVE is beyond the drift of the floor that was given. What that floor is
of, and what attempts that raised have cost, the code does not keep and no property says. *Journal*
`EventsKeepTheirOrder`. *Topology* `AcceptedChainIsJudged`: no ill-typed payload, a judge passed,
and a repair block that starts on the chain ends on one. *Prompts* `OperatorSpeaksAlone` (of the
registered roles: the step classes they replaced do join a plan to the instructions),
`EffectsAreLicensed`. *Campaign* `PublishedFloorIsSound`: the tasks are admitted, both arms have an
entry for at least as many as declared, pairs, discordance and rates are of measured outcomes, and a
floor that says it was contained began behind a canary that passed. The p-value in the same report
is left as the code has it (`floor_pairs`), and how many pairs were measured is not bounded from
below. *Statistics* `CorrectionIsAClosedTest`: a corrected p-value is that of the closed test of the
family it was last corrected in, on exact p-values, stated by enumeration of the outcomes. That
family is the caller's: `compare_runs` corrects alone, and sagiha's reporter prints that.

Some say less than their subject might suggest, on purpose. `LedgerIsSettled` speaks of runs that
return or fail: a cancelled run strands its leases, because the handlers are `except Exception`.
`SearchIsBounded` bounds the evaluations by `Cap + N - 1`: the cap is read before an await and
counted after it, so parallel candidates pass it together; `config.py:351` says that at the cap
"remaining candidates skip further repair rounds", which holds of rounds not yet started, and first
attempts are never skipped. `AcceptedChainIsJudged` speaks of files with one entry and one edge out
of each node; of others see `topology_end`. `ExportIsCurrent` exempts runs that lost a verdict on
the way to the store, as with an observer that was quarantined, and says nothing of a replay that
verified steps the run has since gone beyond. `OperatorSpeaksAlone` is about labels; a prompt that
lacks a file it should show does not break it. `ChildrenStayOffThePool` pins what the governor does
with the spend of a child lease, it does not say that this is right (section 6).
`ReplayIsTheRecording` speaks of a recording made from an empty file that nobody wrote after.

## 5. Proofs

All theorems are for every value of the constants under the modules' `ASSUME`s and named
assumptions, which say only what the configuration classes enforce (naturals, positive counts,
ceilings and requests that are budgets, disjoint classes of tools) and, in `Executor`, what
`validator.py` checks before a run. TLC evaluates every assumption in the runs above.

**Sums.** The library's induction theorems take an operator and cannot be instantiated, so facts
about sums are proved by the least counterexample: a nonempty set of naturals has a least element
(`LeastNatural`, from the well-foundedness of `<`), and the least index at which a fact fails
contradicts the recursion there.

**Governor.** `IInv` adds to the two conservation laws that leases are older than their children
and that accounts not yet opened are empty. One lemma per action says how the holdings of every
account move when a lease is issued or settled; conservation then is arithmetic. `Funded` needs one
more fact, that only an overrun makes a balance negative (`RootSolvent`, `ParentSolvent`).
`PoolRefinesAccount` maps each action to `Open`, `Grant`, `Settle` or a stutter.

**Executor.** Each step is a step of the governor (`IsGovernorStep`), so `IInv` holds of the run.
`RunInv` adds: which leases are in hand in which phase (`Grip`) and that these, all different, are
the live ones (`Holdings`); that effects and iterations are charged to the run alone
(`ChargedAtRoot`), which is why what a child lease spends never reaching the pool (section 6) does
not matter to the engine; that a verdict in hand is of the files as they are, and that the only node
that ever holds one before it has run is a repair node, whose reply replaces it (`VerdictsAreJudged`:
this is what the sockets give, and why a chain may go on past its judge without an unjudged result).
`IterationIsFunded` needs no history: a node lease is the only child of its iteration and is
returned whole before the next one, so a budget that covers the sum of the nodes covers each.
`NoneIsFinal` holds where the judge is the last node and no other, as in every shipped topology;
that is a hypothesis of the theorem.

**RunLoop.** `RunInv` has one part for each promise. `Transcript`: the steps are `1..n` and the
process stands at `n + 1`. `Standing`: nothing happens after an admission. `Books`: the governor of
the process knows what was billed. `Rounds`: evaluations are attempts that ended. `Taint`: whoever
saw untrusted output is tainted, and so is its freeze file. `Baseline`: without `--resume` every
base commit is the first one. The invariants and the action property follow.

**Search.** `SearchInv`: a verdict travels from a run to an outcome (`Verdict`); the manager tracks
the trees workers are in and git has those and the stuck ones (`Trees`); in turn nobody starts
before the one before it is done (`Turns`), in parallel the limiter holds (`Slots`); a cancellation
has a reason (`Cuts`); when the task has its answer the workers have ended (`Phases`). The cap is
proved by counting who may still be judged once more: `total + |Pending| <= Cap + N - 1`, which a
repair may raise only while `total` is below the cap. That `select()` names a candidate of its pool
needs a greatest score, the least upper bound of a finite set of naturals whose sum bounds it.

**The parts.** A theorem about one of the twelve is of `Parts`: `Spec => []` of the property that
`MCParts` checks. Its invariant is that of the component while it is the subject; the other subjects
leave it alone because its slots are then somebody else's. `Dispatch` and `Sandbox` also have their
theorems of their own specifications.

*Dispatch* (`DispatchInv`). `Books`: the step of the call in flight says which of its events are
out, whether it has a grant and whether it holds the lease; the counts follow, one more event being
counted once (`CountsOne`). `Marked`: an announced taint has reached the run, or is about to, or the
run is over. `Clean`: a writing tool that waits for its grant to be verified was authorized in a
clean run, and nothing taints the run in between because one call is in flight at a time. With
these two, `TaintPrecedesWrites` is preserved by the one step that authorizes.

*Sandbox* (`SandboxInv`). What a start has made so far is what its step says (`Unstarted`), only
the holder of the lock changes any of it, and nothing is started while somebody holds the lock. The
proof goes by caller: `LockHolds` for the lock, `OwnHolds` for the caller that acts, `OthersHold`
for the ones that do not.

*Providers* (`ProvidersInv`, `ReplaysAreFaithful`). What a replay was told are entries of what it
holds, each in its turn among those of its digest (`ToldInTurn`); two entries of one digest differ
in their turns (`TurnsDiffer`), so the answers to a request come in the recorded order whatever else
is asked between them, and the turn that comes next is that of the first entry not yet served.

*Conversation* (`ConversationInv`, `PromptsAreFaithful`). Which steps an exchange stands for is
given by prefix sums of what the exchanges count. A compaction replaces a stretch by one exchange
that counts their sum, so what lies after it keeps its place (`StretchesFollow`, `MergedSays`), and
its taint is the union; summaries of summaries need nothing more.

*Export* (`ExportInv`, `ExportsAreCurrent`, an action property). The last row of a run's gates is
how it stands, if its observer was called at all (`StandsAsJudged`); a run recorded as completed has
a standing no process at work can still change (`JudgedIfCompleted`, `AtWork`). What `Samples` and
`Chosen` filter on then decides the standing.

*CodeIndex* (`IndexInv`, `IndexesAreFaithful`). The two databases are right for a set of files that
grows: those the walk has seen (`Walking`, less the one between its two transactions), then those
no longer to be pruned (`Pruning`). Files are walked in order and an edge the property speaks of is
written with the later of its two files, after the earlier one's edges were deleted for the last
time; that an impact query returns every dependent follows from that edge, as a walk of one level.

*Benchmark* (`BenchmarkInv`, `BenchTyped`, `ReportsAreOfTheirSuite`, an action property). A pass is
a prefix of the suite, the second begins when the first is whole (`PassesFollowTheSuite`), and
whoever compares has measured a floor (`ComparisonsHaveAFloor`). A report has a pass of single shots
among its two, and a single shot that got a result found its repository
(`SingleShotsFindTheRepository`): that is why no report is of a repository that was never there,
whatever the attempts of the other arm became.

*Journal* (`JournalInv`, `EventOrder`, for any number of events and any size of display). The rows,
the batch from `next` on and the queue follow one another in what was emitted (`Written`,
`Outstanding`), until an insert raises; from then on the rows only stay the prefix they are.

*Topology* (`TopologyInv`, `ChainsAreJudged`). What ran is a walk along the last edge of each node
(`Walked`) and what is left of an iteration is the end of the repair chain (`Unrolled`). The sockets
checked on the edges give each next payload its type. That a judge runs is the termination check read
backwards: if a walk that ended had met none, the nodes it ran would be a set the check's closure
could not enter. With a repair block whose judge is on the chain nothing leaves that judge, so it is
the last of the walk, and an iteration ends on `back` (`LoopIsClosed`).

*Prompts* (`PromptsInv`, `OperatorsSpeakAlone`, `LicensedEffects`). With the registered roles what
the payload hands on as the operator's is the operator's (`OperatorsAlone`), whatever is folded into
it; the spans a tool call is justified by include every label that was heard (`HearingJustifies`).

*Campaign* (`CampaignInv`, `CampaignTyped`, `PublishedFloorsAreSound`). Every outcome of a candidate
but the last was what the canary needs (`CanaryGoesOn`), so a candidate that went through all
repeats discriminates; a floor keeps the manifest and the family it read at its start, whatever the
builder writes afterwards (`ManifestsDiscriminate`), and its second arm begins when the first has
run every task (`ArmsFollow`).

*Statistics* (`StatisticsInv`, `CorrectionsAreClosedTests`). Three layers, none of which TLC could
reach for more than a few pairs. The rows of Pascal's triangle count subsets: `Comb[n][k]` is the
number of `k`-element subsets of `1..n` (`CombCounts`, by least counterexample and Pascal's rule on
sets), so a range of a row counts the outcomes with that many wins (`CombsCount`). The lopsided
outcomes are the two tails, less what they share, so `McNemar` is exact and not a bound
(`TailsAreLopsided`, `McNemarIsExact`). Holm's running maximum is the worst Bonferroni bound over
all the intersections a hypothesis belongs to (`HolmIsClosed`: for a hypothesis of rank `r` the
worst intersection is itself with all that come after it). The invariant says that a p-value is of
the pairs as they stand and that a corrected one is Holm's of the family it was corrected in, all of
which was compared.

*All twelve* (`PartsTypes`). The composition keeps the types of whichever part is its subject, from
the invariants above.

Only model-checked: `RunEnds`, `ProcessEnds`, `ProposeEnds` (liveness under fairness is out of the
prover's reach). Every other property of a passing run is stated by a theorem. What a proof here
never does is induction over data: what the folds of `Benchmark` add up to, and how often the
recursive queries of the code visit a node, is as the modules define it.

## 6. Where the code and its text disagree

Each of these is a run that TLC refutes and an entry under `findings` in `PROJECT.json`.

- `executor_denial`: `executor.py:22` says exhausting the budget ends the loop and keeps the
  verdict; inside an iteration a refusal raises through the loop and ends the run.
- `runloop_base`: `--resume` takes a new base commit, so edits its first process committed are not
  in the diff the gates read.
- `runloop_parked`: a thawed run that parks again has its new freeze file removed by `thaw()`.
- `runloop_repair`: the gates' own commands taint the run, and the repair attempt that follows has
  its writes refused.
- `sandbox_start`: when `podman start` fails, `start()` awaits `aclose()`, which waits for the lock
  `start()` holds; the error it was about to raise never is.
- `topology_end`: the schema promises acyclicity and a judge at the end of every path, enforced by
  the validator; a file whose edges form a cycle is accepted and the executor runs no node of it.
- `floor_pairs`: the published p-value counts pairs in which one arm was not measured; the
  discordance printed beside it does not.

Smaller ones, seen while modelling, that no run states:

- what a child lease of the governor commits never reaches the pool of the run, so `remaining()`
  may exceed the ceiling less `spent()`; today's executor only releases its child leases;
- `batch_cost()` (`best_of_n.py:179`) counts the last run of each candidate; the repaired attempts
  before it, and cancelled candidates, are charged to nobody;
- `apply_patch` (`git_cli.py:188`) counts the `.rej` files in the worktree, those of an earlier
  patch too, so a diff that applies after one that did not is reported as failed;
- `reindex` of a named path that was deleted leaves its rows, and indexing a file deletes call edges
  that other files have into it, until those are indexed again;
- the floor script takes `--split` from its caller and does not compare it with the family's; it says
  there is no flag to skip the B3 canary (`run_aa_floor.py:20`) and has `--uncontained` (356), which
  skips it and publishes all the same, though its help says "not valid for a published number" (447);
  the canary is run without the runtime the arms will use (81-91);
- an accepted chain without a repair block may go on past its judge (`validator.py:120` stops at the
  first), against `workflow_schema.yaml:126-128`; the run then ends in an `AttributeError`
  (`engine.py:227-232`) after its money is spent;
- `cli.py:550` says the floor is of the control arm, but `--noise-floor` takes the file of any arm and
  suite; `reporter.py:30` says every task's cost counts, but the cost of an attempt that raised is
  `None` and is left out;
- a repository that could not be fetched in one pass of a bench and can in a later one still counts
  against the first;
- `compare_runs` corrects each comparison in a family of one, the reporter prints that, and
  `holm_correct_family`, which would replace it, has no caller;
- a run cancelled inside `EventBus.emit` leaves a live observer without that event; in a search the
  later events of the same bus reach it, and `--resume` appends after it, so over several candidates or
  processes the stored trajectory can have a hole that one run never has;
- a run that was admitted, resumed with the store's observer quarantined, and refused, is exported on
  the admission, since that refusal never reached the table the export reads.

## 7. What the models leave out

*Governor*: the event an overrun emits. *Executor*: the policy engine's refusals of capabilities no
shipped role asks for, and the tool loop, which `Prompts` has. *RunLoop*: a torn freeze file
(`write_text` is not atomic), a workspace without git, the host's checkpoint freeze, the order
inside one dispatch, which `Dispatch` has; taint that was never frozen is lost with a process and
under `--resume`, which the history variable follows; the budget is per process, as in the code.
*Search*: events and their observers, a death of the process (nothing sweeps its worktrees
afterwards: `release_all` has no caller), the subprocess a cancelled command leaves behind, the
inside of a run, a branch that `git worktree add` leaves when it fails after creating it.
*Dispatch*: what a tool does; the pooled ceiling of leases, which tool names do not have; the
clock, but for the one deadline. *Sandbox*: a podman process that outlives its cancelled caller is
taken to end before the next one begins; what the proxy lets through. *CodeIndex*: ranking, symbol
tables, front matter. *Providers*: the chunks of a stream. *Conversation*: a window that cannot
hold the head and the tail. *Export*: two processes at once, redaction. *Benchmark*: `--runs` above
one, tasks skipped for want of tests. *Journal*: two runs in one table, which share no row.
*Topology*: `fan_out`, which the executor ignores; `on_pass` and `on_fail`, which both sides treat
as `always`. *Prompts*: how a diff is parsed, beyond whether it applied and whether it says why.
*Campaign*: the scripts that import a suite, two floors at once. *Statistics*: rounding of floats,
the bootstrap.

Two hazards of the list have no property for these reasons: the freeze file that knows nothing of
what came after it, and the sweep of worktrees that nobody calls.

## 8. Plan

Done, in this order: the governor with its abstract account; the executor on top of it; the run loop
over crashes and thaws; the search with its worktrees; the proofs of each; the twelve parts that
share no state; a proof of every safety property the runs check.

Next, most important first:

1. `Dispatch` as the implementation of the one-step dispatch of `RunLoop`: `Deny`, `Run` and `Raise`
   as the images of its endings, step by step.
2. `Topology` as the justification of `ValidTopology` in `Executor`: `Accepted` gives it for graphs
   that are chains from `retrieve`; and the architect and reflector kinds in `Executor`.
3. A freeze that tears, and the tool cassette.
