------------------------------ MODULE Conversation ------------------------------
(***************************************************************************)
(* The prompt of a sagiha run: ContextAssembler grows it by one exchange a *)
(* step, the compactor replaces its middle by a summary when the tail      *)
(* outgrows its share of the window, the repair loop adds a turn to the    *)
(* last exchange, and from_trajectory rebuilds it from the persisted steps *)
(* when the process has died.                                              *)
(*                                                                         *)
(* A step keeps how many tools the model called, whether a result was      *)
(* untrusted, whether a call opened a file, and its tokens.  An exchange   *)
(* keeps the steps it speaks of.  The share of the window the tail may     *)
(* take is a constant, Threshold.                                          *)
(***************************************************************************)
EXTENDS Naturals, Sequences, FiniteSets, SequencesExt

CONSTANTS
  KeepFirst,      \* keep_first_exchanges
  KeepLast,       \* keep_last_tokens
  Threshold,      \* tokens of the tail past which it is compacted
  Kinds,          \* the steps the model can take
  SummaryTokens,  \* tokens of a summary
  MaxSteps,       \* bound on the steps
  MaxRepairs      \* bound on the repair turns

ConversationAssumption ==
  /\ KeepFirst \in Nat /\ KeepLast \in Nat /\ Threshold \in Nat
  /\ Kinds \subseteq [calls : Nat, untrusted : BOOLEAN, opens : BOOLEAN, tokens : Nat]
  /\ \A k \in Kinds : k.calls = 0 => ~k.untrusted /\ ~k.opens
  /\ SummaryTokens \in Nat /\ MaxSteps \in Nat /\ MaxRepairs \in Nat

VARIABLES
  exchanges,   \* the assembler's history
  openFiles,   \* its open-file set: the steps that opened one
  trajectory,  \* the steps persisted
  turn,        \* "ready", "asked" once assembled, "ended" on a text-only turn, "dead"
  repairs      \* repair turns so far

conversationVars == <<exchanges, openFiles, trajectory, turn, repairs>>

\* answered: tool results paired with the calls; tainted: the flag the exchange carries
Exchange == [about : SUBSET (1..MaxSteps), verbatim : BOOLEAN, calls : Nat, answered : Nat,
             tainted : BOOLEAN, feedback : BOOLEAN, tokens : Nat]

ConversationTypeOK ==
  /\ exchanges \in Seq(Exchange) /\ trajectory \in Seq(Kinds)
  /\ openFiles \subseteq 1..MaxSteps
  /\ turn \in {"ready", "asked", "ended", "dead"}
  /\ repairs \in 0..MaxRepairs

ConversationInit ==
  /\ exchanges = <<>> /\ openFiles = {} /\ trajectory = <<>> /\ turn = "ready" /\ repairs = 0

TokensOf(history) == FoldSeq(LAMBDA e, n : e.tokens + n, 0, history)

-----------------------------------------------------------------------------
(* Compaction.                                                             *)

\* the last exchange whatever it costs, and whole exchanges before it while they fit
Kept(rest, j) ==
  \/ j = Len(rest)
  \/ /\ TokensOf(SubSeq(rest, j, Len(rest))) <= KeepLast
     /\ TokensOf(SubSeq(rest, j + 1, Len(rest))) < KeepLast
TailStart(rest) ==
  CHOOSE i \in 1..Len(rest) + 1 :
    (\A j \in i..Len(rest) : Kept(rest, j)) /\ (i > 1 => ~Kept(rest, i - 1))

\* the summary of untrusted content is untrusted
BugSummary(middle) ==
  [about |-> UNION {e.about : e \in Range(middle)}, verbatim |-> FALSE, calls |-> 0, answered |-> 0,
   tainted |-> \E e \in Range(middle) : e.tainted /\ e.verbatim, feedback |-> FALSE, tokens |-> SummaryTokens]
Summary(middle) ==
  [about |-> UNION {e.about : e \in Range(middle)}, verbatim |-> FALSE, calls |-> 0, answered |-> 0,
   tainted |-> \E e \in Range(middle) : e.tainted, feedback |-> FALSE, tokens |-> SummaryTokens]

Compacted(history) ==
  LET head == SubSeq(history, 1, KeepFirst)
      rest == SubSeq(history, KeepFirst + 1, Len(history))
      start == TailStart(rest)
  IN IF Len(history) <= KeepFirst \/ start = 1 THEN history
     ELSE head \o <<Summary(SubSeq(rest, 1, start - 1))>> \o SubSeq(rest, start, Len(rest))

\* once per step, before the request is made
Assemble ==
  /\ turn = "ready" /\ Len(trajectory) < MaxSteps
  /\ turn' = "asked"
  /\ exchanges' = IF TokensOf(exchanges) > Threshold THEN Compacted(exchanges) ELSE exchanges
  /\ UNCHANGED <<openFiles, trajectory, repairs>>

-----------------------------------------------------------------------------
(* Growth.                                                                 *)

\* every call is answered, the ones skipped when the run is stuck by an error of the harness
Exchanged(n, step) ==
  [about |-> {n}, verbatim |-> TRUE, calls |-> step.calls, answered |-> step.calls,
   tainted |-> step.untrusted, feedback |-> FALSE, tokens |-> step.tokens]

Opened(steps) == {n \in DOMAIN steps : steps[n].opens}

\* the exchange is appended and the step persisted; a turn without calls ends the phase
Reply(step) ==
  /\ turn = "asked"
  /\ exchanges' = Append(exchanges, Exchanged(Len(trajectory) + 1, step))
  /\ trajectory' = Append(trajectory, step)
  /\ openFiles' = openFiles \cup IF step.opens THEN {Len(trajectory) + 1} ELSE {}
  /\ turn' = IF step.calls = 0 THEN "ended" ELSE "ready"
  /\ UNCHANGED repairs

\* feedback on failed gates, in the last exchange, and another phase
Repair ==
  /\ turn \in {"ended", "ready"} /\ exchanges # <<>> /\ repairs < MaxRepairs
  /\ exchanges' = [exchanges EXCEPT ![Len(exchanges)].feedback = TRUE, ![Len(exchanges)].tokens = @ + 1]
  /\ repairs' = repairs + 1
  /\ turn' = "ready"
  /\ UNCHANGED <<openFiles, trajectory>>

Die ==
  /\ turn # "dead" /\ turn' = "dead"
  /\ exchanges' = <<>> /\ openFiles' = {} /\ UNCHANGED <<trajectory, repairs>>

\* from_trajectory takes the steps one by one on the same path as the live loop
Resume ==
  /\ turn = "dead" /\ turn' = "ready"
  /\ exchanges' = [n \in DOMAIN trajectory |-> Exchanged(n, trajectory[n])]
  /\ openFiles' = Opened(trajectory)
  /\ UNCHANGED <<trajectory, repairs>>

ConversationNext ==
  \/ Assemble \/ Repair \/ Die \/ Resume
  \/ \E step \in Kinds : Reply(step)

ConversationSpec == ConversationInit /\ [][ConversationNext]_conversationVars

-----------------------------------------------------------------------------
(* Properties.                                                             *)

Alive == turn # "dead"
Untrusted == {n \in DOMAIN trajectory : trajectory[n].untrusted}

\* Whatever was compacted, compacted again, repaired or resumed: an exchange that speaks of a
\* step with an untrusted result says so, and so is rendered inside the envelope ("taint
\* survives compaction", compactor.py; the T7 path of from_trajectory).
TaintSurvives ==
  \A i \in DOMAIN exchanges : exchanges[i].about \cap Untrusted # {} => exchanges[i].tainted

\* The prompt speaks of every persisted step once and in order, of the first KeepFirst and of
\* the last one in full; no call is left without its result, and the open files are those of
\* every step, compacted or not (an exchange is indivisible; anchored state).
NothingIsForgotten ==
  Alive =>
    /\ UNION {exchanges[i].about : i \in DOMAIN exchanges} = DOMAIN trajectory
    /\ \A i, j \in DOMAIN exchanges :
         i < j => \A m \in exchanges[i].about, n \in exchanges[j].about : m < n
    /\ \A i \in DOMAIN exchanges :
         /\ exchanges[i].answered = exchanges[i].calls
         /\ i <= KeepFirst \/ i = Len(exchanges) => exchanges[i].verbatim
    /\ openFiles = Opened(trajectory)

\* The model is told everything that happened, in order, and of everything that came from
\* outside that it did (ContextAssembler, compactor, from_trajectory).
PromptIsFaithful == TaintSurvives /\ NothingIsForgotten

-----------------------------------------------------------------------------
(* The inductive invariant: there is room for the step a model is asked for. *)

ConversationInv ==
  /\ ConversationTypeOK /\ PromptIsFaithful
  /\ Len(trajectory) <= MaxSteps /\ (turn = "asked" => Len(trajectory) < MaxSteps)
=============================================================================
