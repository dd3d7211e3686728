------------------------------- MODULE Prompts -------------------------------
(***************************************************************************)
(* What the nodes of an aether run tell the model and what they make of    *)
(* its replies: the payload that goes from node to node, the prompt each   *)
(* role composes of it, the tool rounds of an inference, the parse of a    *)
(* reply into edits, and their way into the worktree.                      *)
(*                                                                         *)
(* Two libraries implement the model nodes.  "roles" is the one the engine *)
(* registers: a ModelNode interpreting a RoleSpec.  "steps" are the classes *)
(* it replaced, GenerateStep, ArchitectStep, ReflectorStep and RepairStep, *)
(* which tests still drive.  Of a text only its authors are kept; of a     *)
(* reply, its fenced blocks.                                               *)
(***************************************************************************)
EXTENDS Naturals, FiniteSets

CONSTANTS
  Entries,        \* the entry files of the retrieve node
  Tests,          \* task.test_paths
  Replies,        \* the replies the model may give
  MaxIterations,  \* iterations of the repair block
  MaxRounds,      \* MAX_ROUNDS
  MaxCalls        \* bound on the tool calls of a round

Forms == {"relative", "rooted", "escaping", "none"}
Fences == [file : Entries, form : Forms, ok : BOOLEAN, n : 1..2]

\* of a reply: its labelled blocks, its other blocks, and whether it has any text
PromptsAssumption ==
  /\ MaxIterations \in Nat /\ MaxRounds \in Nat \ {0} /\ MaxCalls \in Nat
  /\ Replies \subseteq [labelled : SUBSET Fences, plain : SUBSET Fences, text : BOOLEAN]

VARIABLES
  library,     \* "roles" or "steps"
  params,      \* the inference of the roles, and the edit format of the nodes
  at,          \* the node or step of a node the run is at
  payload,     \* what the nodes pass on
  prompt,      \* the blocks of the model call at work
  justifying,  \* labels of the spans that justify the next tool call
  heard,       \* labels of the spans in the messages of the call
  rounds,      \* rounds begun, and tool calls of this one still to make
  reply,       \* the reply the apply node has to parse
  writes,      \* edits parsed and not yet written
  clobbered,   \* history: files overwritten by a block that named none
  widened,     \* history: a tool ran after untrusted text was heard
  iteration

promptsVars == <<library, params, at, payload, prompt, justifying, heard, rounds,
                 reply, writes, clobbered, widened, iteration>>

\* a topology names the format of its nodes; the inference is the role's
Params == [inference : {"single_turn", "tool_loop"}, format : {"whole_file_codeblock", "unified_diff"}]
Authors == {"operator", "model", "tests", "repository", "harness"}
Labels == {"TRUSTED_SYSTEM", "OPERATOR", "AGENT", "UNTRUSTED_EXTERNAL"}
Roles == {"architect", "generate", "reflector", "repair"}
BlockNames == {"system", "instructions", "plan", "entry_files", "current_files", "previous_attempt",
               "gate_output", "files", "repair", "reflector"}
NoReply == [labelled |-> {}, plain |-> {}, text |-> FALSE]

\* the fields of the four payload types; a type without a field has its default
Payload == [type : {"TaskInput", "RetrievedContext", "GeneratedPatch", "AppliedPatch", "EvaluatedCandidate"},
            task : SUBSET Authors, instructions : SUBSET Authors, plan : BOOLEAN,
            files : SUBSET Entries, cause : BOOLEAN, verdict : {"absent", "PASSED", "FAILED", "NONE"},
            unproduced : BOOLEAN]

PromptsTypeOK ==
  /\ library \in {"roles", "steps"} /\ params \in Params
  /\ at \in Roles \cup {"retrieve", "next", "ask", "tools", "apply", "write", "evaluate", "over", "raised"}
  /\ payload \in Payload
  /\ prompt \subseteq [source : BlockNames, label : Labels, by : SUBSET Authors]
  /\ justifying \subseteq Labels /\ heard \subseteq Labels
  /\ rounds \in [begun : 0..MaxRounds, calls : 0..MaxCalls, role : Roles]
  /\ reply \in Replies \cup {NoReply}
  /\ writes \subseteq [file : Entries, named : BOOLEAN] /\ clobbered \subseteq Entries
  /\ widened \in BOOLEAN /\ iteration \in 0..MaxIterations

PromptsInit ==
  /\ library \in {"roles", "steps"} /\ params \in Params
  /\ at = "retrieve"
  /\ payload = [type |-> "TaskInput", task |-> {"operator"}, instructions |-> {}, plan |-> FALSE,
                files |-> {}, cause |-> FALSE, verdict |-> "absent", unproduced |-> FALSE]
  /\ prompt = {} /\ justifying = {} /\ heard = {}
  /\ rounds = [begun |-> 0, calls |-> 0, role |-> "generate"]
  /\ reply = NoReply /\ writes = {} /\ clobbered = {} /\ widened = FALSE /\ iteration = 0

\* a file that is missing, or beyond the byte budget, is named and not shown
Retrieve(shown) ==
  /\ at = "retrieve"
  /\ payload' = [payload EXCEPT !.type = "RetrievedContext", !.files = shown,
                                !.instructions = payload.task]
  /\ at' \in {"architect", "generate"}
  /\ UNCHANGED <<library, params, prompt, justifying, heard, rounds, reply, writes,
                 clobbered, widened, iteration>>

-----------------------------------------------------------------------------
(* Prompts *)

Block(source, label, by) == [source |-> source, label |-> label, by |-> by]

\* RoleSpec.request_from: what a role's sources can see of the payload.  No
\* payload type and no task has entry_files, so the file sources read nothing; a
\* report hides the apply node's detail.
Instructions == IF payload.instructions # {} THEN payload.instructions ELSE payload.task
EntryFiles == {}
GateDetail == IF payload.verdict # "absent" THEN {"tests"}
              ELSE IF payload.cause THEN {"harness"} ELSE {}

FromSource == [
  instructions |-> {Block("instructions", "OPERATOR", Instructions)},
  plan |-> IF payload.plan THEN {Block("plan", "AGENT", {"model"})} ELSE {},
  entry_files |-> {Block("entry_files", "AGENT", {"repository"}) : f \in EntryFiles},
  current_files |-> {Block("current_files", "AGENT", {"repository"}) : f \in EntryFiles},
  previous_attempt |-> {Block("previous_attempt", "AGENT", {"model"})},
  gate_output |-> {Block("gate_output", "AGENT", GateDetail)}]

SourcesOf == [role \in Roles |->
  CASE role = "architect" -> {"instructions", "entry_files"}
    [] role = "generate" -> {"instructions", "plan", "entry_files"}
    [] role = "repair" -> {"instructions", "plan", "current_files", "previous_attempt", "gate_output"}
    [] OTHER -> {"gate_output", "previous_attempt"}]

\* GenerateStep and ArchitectStep: the instructions of the payload, then its files
FileSpans ==
  {Block("instructions", "OPERATOR", payload.instructions)}
  \cup {Block("files", "AGENT", {"repository"}) : f \in payload.files}

\* build_repair_prompt: the task, the attempt, why it was rejected, the failure
RepairText == payload.task \cup {"model", "tests"} \cup (IF payload.cause THEN {"harness"} ELSE {})

StepBlocks(role) ==
  CASE role \in {"architect", "generate"} -> FileSpans
    [] role = "repair" -> {Block("repair", "AGENT", RepairText)}
    [] role = "reflector" -> {Block("reflector", "AGENT", {"tests", "model"})}

\* the assembler adds the role and the output contract as the system block, and
\* keeps the label of every other one
Composed(role) ==
  {Block("system", "TRUSTED_SYSTEM", {"operator"})} \cup
  (IF library = "roles" THEN UNION {FromSource[s] : s \in SourcesOf[role]} ELSE StepBlocks(role))

\* the executor sends only a failed verdict to repair, which RepairStep demands
Ask(role) ==
  /\ at = role
  /\ prompt' = Composed(role)
  /\ justifying' = {b.label : b \in Composed(role)} \ (IF library = "steps" THEN {"TRUSTED_SYSTEM"} ELSE {})
  /\ heard' = {b.label : b \in Composed(role)}
  /\ rounds' = [begun |-> 1, calls |-> 0, role |-> role]
  /\ at' = "ask"
  /\ UNCHANGED <<library, params, payload, reply, writes, clobbered, widened, iteration>>

-----------------------------------------------------------------------------
(* Inference *)

Unread(error) ==
  [payload EXCEPT !.type = "GeneratedPatch", !.instructions = {}, !.plan = FALSE,
                  !.cause = FALSE, !.verdict = "absent", !.unproduced = error]

\* a reply folded into the payload, the plan joined to the operator's instructions
BugFolded(role, error) ==
  IF role = "architect" THEN [payload EXCEPT !.instructions = @ \cup {"model"}] ELSE Unread(error)

\* the steps join a plan to the instructions of the payload and a lesson to the task
StepFolded(role, error) ==
  CASE role = "architect" -> [payload EXCEPT !.instructions = @ \cup {"model"}]
    [] role = "reflector" -> [payload EXCEPT !.task = @ \cup {"model"}]
    [] OTHER -> Unread(error)

\* ParsedOutput.into: only an architect's reply is folded into a context; what any
\* other role says, the reflector too, becomes a patch
Folded(role, error) ==
  IF library = "steps" THEN StepFolded(role, error)
  ELSE IF role = "architect" THEN [payload EXCEPT !.plan = TRUE]
  ELSE Unread(error)

AfterRole == [role \in Roles |->
  CASE role = "architect" -> "generate" [] role = "reflector" -> "repair" [] OTHER -> "apply"]

Conclude(r, error) ==
  /\ payload' = Folded(rounds.role, error)
  /\ reply' = IF AfterRole[rounds.role] = "apply" THEN r ELSE reply
  /\ at' = AfterRole[rounds.role]
  /\ prompt' = {}

Loops == IF library = "roles" THEN params.inference = "tool_loop" ELSE rounds.role = "generate"

\* a reply without tool calls, or one whose calls a single turn ignores; an error
\* of the provider is a reply without text
Reply(r, error) ==
  /\ at = "ask" /\ (error => r = NoReply)
  /\ Conclude(r, error)
  /\ UNCHANGED <<library, params, justifying, heard, rounds, writes, clobbered, widened, iteration>>

CallTools(calls) ==
  /\ at = "ask" /\ Loops
  /\ rounds' = [rounds EXCEPT !.calls = calls]
  /\ at' = "tools"
  /\ UNCHANGED <<library, params, payload, prompt, justifying, heard, reply, writes,
                 clobbered, widened, iteration>>

\* every span of a prompt, except the steps' system span, justifies the call; what
\* a tool returns is untrusted and justifies the next
BugJustifyingAfter == justifying
JustifyingAfter == justifying \cup {"UNTRUSTED_EXTERNAL"}

\* the shell effect widens the capability: DefaultPolicyEngine refuses it once an
\* untrusted span justifies it, and the refusal raises
UseTool ==
  /\ at = "tools" /\ rounds.calls > 0
  /\ "UNTRUSTED_EXTERNAL" \notin justifying
  /\ widened' = (widened \/ "UNTRUSTED_EXTERNAL" \in heard)
  /\ justifying' = JustifyingAfter
  /\ heard' = heard \cup {"UNTRUSTED_EXTERNAL"}
  /\ rounds' = [rounds EXCEPT !.calls = @ - 1]
  /\ UNCHANGED <<library, params, at, payload, prompt, reply, writes, clobbered, iteration>>

RefuseTool ==
  /\ at = "tools" /\ rounds.calls > 0
  /\ "UNTRUSTED_EXTERNAL" \in justifying
  /\ at' = "raised"
  /\ UNCHANGED <<library, params, payload, prompt, justifying, heard, rounds, reply, writes,
                 clobbered, widened, iteration>>

\* the bound on the rounds is never met: a tool call of the second round is refused
NextRound ==
  /\ at = "tools" /\ rounds.calls = 0 /\ rounds.begun < MaxRounds
  /\ rounds' = [rounds EXCEPT !.begun = @ + 1]
  /\ at' = "ask"
  /\ UNCHANGED <<library, params, payload, prompt, justifying, heard, reply, writes,
                 clobbered, widened, iteration>>

-----------------------------------------------------------------------------
(* Parsing and applying *)

\* a leading slash is forgiven when a retrieved file has that name
Resolves(b) == b.form = "relative" \/ (b.form = "rooted" /\ b.file \in payload.files)
Sound(b) == Resolves(b) /\ b.ok
Edit(b) == [file |-> b.file, named |-> TRUE]

\* the retrieved files, tests among them
Eligible == payload.files \ Tests

\* UnifiedDiffFormat.parse of a reply in which no line starts a diff
WithoutDiff == [edits |-> {}, error |-> reply.text]

\* WholeFileCodeblockFormat.parse: labelled blocks; failing any, blocks whose label
\* stands in the text; failing those, the only block for the only file that is not
\* a test
ParsedBlocks ==
  LET labels == {b \in reply.plain : b.form # "none"}
      tried == IF reply.labelled # {} THEN reply.labelled ELSE labels
      edits == {Edit(b) : b \in {b \in tried : Sound(b)}}
      wrong == \E b \in tried : ~Sound(b)
  IN  IF reply.labelled # {} \/ edits # {} THEN [edits |-> edits, error |-> wrong]
      ELSE IF labels = {} /\ Cardinality(reply.plain) = 1 /\ Cardinality(Eligible) = 1
              /\ (\A b \in reply.plain : b.ok)
      THEN [edits |-> {[file |-> f, named |-> FALSE] : f \in Eligible}, error |-> FALSE]
      ELSE [edits |-> {}, error |-> reply.text]

Parsed == IF params.format = "unified_diff" THEN WithoutDiff ELSE ParsedBlocks

\* a reply the provider never gave, one with an error in any block and one without
\* an edit change nothing; the last two are judged all the same
Apply ==
  /\ at = "apply"
  /\ LET nothing == payload.unproduced \/ Parsed.error \/ Parsed.edits = {} IN
     /\ payload' = [payload EXCEPT !.type = "AppliedPatch", !.cause = nothing]
     /\ writes' = IF nothing THEN {} ELSE Parsed.edits
     /\ at' = IF nothing THEN "evaluate" ELSE "write"
  /\ UNCHANGED <<library, params, prompt, justifying, heard, rounds, reply, clobbered, widened, iteration>>

\* git apply of the reply's diff: what does not apply is left out, the rest is in the
\* worktree, and a rejected file of an earlier patch fails it without a word
ApplyDiff(applied, detail) ==
  /\ at = "apply" /\ params.format = "unified_diff"
  /\ ~payload.unproduced /\ reply.text /\ ~(applied /\ detail)
  /\ payload' = [payload EXCEPT !.type = "AppliedPatch", !.cause = detail]
  /\ at' = "evaluate"
  /\ UNCHANGED <<library, params, prompt, justifying, heard, rounds, reply, writes, clobbered, widened, iteration>>

WriteFile(w) ==
  /\ at = "write" /\ w \in writes
  /\ writes' = writes \ {w}
  /\ clobbered' = IF w.named THEN clobbered ELSE clobbered \cup {w.file}
  /\ at' = IF writes = {w} THEN "evaluate" ELSE at
  /\ UNCHANGED <<library, params, payload, prompt, justifying, heard, rounds, reply, widened, iteration>>

\* what a node dispatches; retrieve reads, and takes a failure for a missing file
EffectOf == [ask |-> "model", tools |-> "shell", apply |-> "write", write |-> "write", evaluate |-> "evaluate"]

\* a refused or failed effect of a node ends the run
EffectFails ==
  /\ at \in DOMAIN EffectOf
  /\ at = "apply" => params.format = "unified_diff" /\ ~payload.unproduced /\ reply.text
  /\ at' = "raised"
  /\ UNCHANGED <<library, params, payload, prompt, justifying, heard, rounds, reply, writes,
                 clobbered, widened, iteration>>

Evaluate(verdict) ==
  /\ at = "evaluate" /\ (payload.unproduced => verdict = "NONE")
  /\ payload' = [payload EXCEPT !.type = "EvaluatedCandidate", !.verdict = verdict,
                                !.cause = @ /\ ~payload.unproduced, !.unproduced = FALSE]
  /\ \/ /\ verdict = "FAILED" /\ iteration < MaxIterations
        /\ iteration' = iteration + 1 /\ at' \in {"reflector", "repair"}
     \/ /\ ~(verdict = "FAILED" /\ iteration < MaxIterations)
        /\ at' = "over" /\ UNCHANGED iteration
  /\ UNCHANGED <<library, params, prompt, justifying, heard, rounds, reply, writes, clobbered, widened>>

PromptsNext ==
  \/ \E shown \in SUBSET Entries : Retrieve(shown)
  \/ \E role \in Roles : Ask(role)
  \/ \E r \in Replies, error \in BOOLEAN : Reply(r, error)
  \/ \E calls \in 1..MaxCalls : CallTools(calls)
  \/ UseTool \/ RefuseTool \/ NextRound
  \/ Apply \/ \E w \in writes : WriteFile(w)
  \/ \E applied, detail \in BOOLEAN : ApplyDiff(applied, detail)
  \/ EffectFails \/ \E verdict \in {"PASSED", "FAILED", "NONE"} : Evaluate(verdict)

PromptsSpec == PromptsInit /\ [][PromptsNext]_promptsVars

-----------------------------------------------------------------------------
\* In the roles the engine registers, what stands in a prompt under OPERATOR was
\* written by the operator, however many nodes the payload has been through: a plan
\* or a lesson of the model never borrows that label (PlanSource, "I11").
OperatorSpeaksAlone ==
  library = "roles" =>
    \A b \in prompt : b.label = "OPERATOR" => b.by = {"operator"}

\* No tool ran once the conversation held what another tool returned: untrusted
\* text accumulates in what justifies a call (ToolLoop, GenerateStep).
WideningIsClean == ~widened

\* A block that names no file never lands on a test, in any round of repair: the
\* files the parser may bind it to are the retrieved ones, carried from node to
\* node, without the task's tests (WholeFileCodeblockFormat.parse, tier 2).
TestsAreNotClobbered == clobbered \cap Tests = {}

\* What a reply does is what its author may do: no tool after untrusted text, no test
\* overwritten by a block that named no file (policy.py, edit_format.py).
EffectsAreLicensed == WideningIsClean /\ TestsAreNotClobbered

-----------------------------------------------------------------------------
(* The inductive invariant: what the payload carries on as the operator's   *)
(* is the operator's, the policy is told of what was heard, and an edit     *)
(* without a name is bound to no test.                                      *)

OperatorsAlone == payload.task = {"operator"} /\ payload.instructions \subseteq {"operator"}
HearingJustifies == "UNTRUSTED_EXTERNAL" \in heard => "UNTRUSTED_EXTERNAL" \in justifying

PromptsInv ==
  /\ PromptsTypeOK /\ OperatorSpeaksAlone /\ EffectsAreLicensed
  /\ library = "roles" => OperatorsAlone
  /\ HearingJustifies
  /\ \A w \in writes : w.named \/ w.file \notin Tests
=============================================================================
