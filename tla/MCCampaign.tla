------------------------------ MODULE MCCampaign ------------------------------
(***************************************************************************)
(* Two tasks that pass the canary, and arms that may each say anything.    *)
(***************************************************************************)
EXTENDS Campaign

MCOutcomes == [t \in 1..2 |-> [gold |-> {"exit 0"}, empty |-> {"exit 1"}]]
MCShuffled == <<1, 2>>
MCFamilies == {[tier |-> "smoke", split |-> "dev", n |-> 1, hypotheses |-> 1]}
MCTierFloor == [smoke |-> 1, admission |-> 1, publication |-> 2]
=============================================================================
