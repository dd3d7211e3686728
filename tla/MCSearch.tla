------------------------------ MODULE MCSearch ------------------------------
(***************************************************************************)
(* Instances of Search: three candidates, two slots, repair up to the cap. *)
(***************************************************************************)
EXTENDS Search

MCScores == {0, 1}
=============================================================================
