------------------------------- MODULE MCParts -------------------------------
(***************************************************************************)
(* Each part on a small instance, all in one run.                          *)
(***************************************************************************)
EXTENDS Parts

\* a text-only turn, an untrusted result that fills the tail, and two calls that open a file
MCStepKinds ==
  {[calls |-> 0, untrusted |-> FALSE, opens |-> FALSE, tokens |-> 1],
   [calls |-> 1, untrusted |-> TRUE, opens |-> TRUE, tokens |-> 3],
   [calls |-> 2, untrusted |-> FALSE, opens |-> TRUE, tokens |-> 2]}

\* an attempt of best-of-N may cost twice what a single shot costs
MCCosts == [s \in {"single_shot", "bon"} |-> IF s = "bon" THEN {1, 2} ELSE {1}]

MCNodeKinds == <<"retrieve", "generate", "apply", "evaluate", "repair", "apply", "reflector">>
MCBudgetOf == [i \in 1..7 |-> 1]
Always(a, b) == [from |-> a, to |-> b, when |-> "always"]
OnError(a, b) == [from |-> a, to |-> b, when |-> "on_instrument_error"]
RepairBlock(via, back, iterations, budget) ==
  [from |-> 4, via |-> via, back |-> back, iterations |-> iterations, budget |-> budget]

\* the chain of the shipped workflows, and the edges that bend it into other shapes
MCEdgeChoices ==
  {Always(1, 2), Always(2, 3), Always(3, 4), Always(4, 5), Always(5, 3), Always(5, 6),
   OnError(2, 6), OnError(3, 4), Always(1, 3), Always(6, 4)}

\* repair blocks that are right, over budget, of sockets that do not fit, without a judge, undeclared
MCRepairChoices ==
  {RepairBlock(<<5, 3>>, 4, 2, 3), RepairBlock(<<5, 3>>, 4, 1, 2), RepairBlock(<<3>>, 4, 1, 3),
   RepairBlock(<<7, 5, 6>>, 4, 1, 4), RepairBlock(<<5>>, 3, 1, 3), RepairBlock(<<5, 0>>, 4, 1, 5),
   [from |-> 0, via |-> <<>>, back |-> 0, iterations |-> 0, budget |-> 0]}

Fence(file, form, ok, n) == [file |-> file, form |-> form, ok |-> ok, n |-> n]
Says(labelled, plain) == [labelled |-> labelled, plain |-> plain, text |-> TRUE]

\* no text, no block, one labelled block, two with an error, one block that names no file, two
\* blocks of which one has its name in the text
MCReplies ==
  {[labelled |-> {}, plain |-> {}, text |-> FALSE], Says({}, {}),
   Says({Fence("code", "relative", TRUE, 1)}, {}),
   Says({Fence("code", "rooted", TRUE, 1), Fence("test", "relative", FALSE, 1)}, {}),
   Says({}, {Fence("code", "none", TRUE, 1)}),
   Says({}, {Fence("test", "relative", TRUE, 1), Fence("code", "none", TRUE, 2)})}

\* gold always passes for the first two tasks; the third is flaky at times, the fourth may do
\* anything, its container may not start
MCTaskOutcomes ==
  <<[gold |-> {"exit 0"}, empty |-> {"exit 1", "timed_out"}],
    [gold |-> {"exit 0"}, empty |-> {"exit 1"}],
    [gold |-> {"exit 0", "no_worktree"}, empty |-> {"exit 1"}],
    [gold |-> {"exit 0", "exit 1", "rejected"}, empty |-> {"exit 0", "exit 2", "not_started"}]>>

MCShuffled == <<3, 4, 1, 2>>
MCTierFloor == [smoke |-> 2, admission |-> 3, publication |-> 4]
Declares(tier, split, n, hypotheses) == [tier |-> tier, split |-> split, n |-> n, hypotheses |-> hypotheses]
MCFamilies == {Declares("smoke", "dev", 2, 1), Declares("smoke", "dev", 2, 2), Declares("smoke", "sealed", 2, 1)}
=============================================================================
