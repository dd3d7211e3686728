------------------------------ MODULE MCSandbox ------------------------------
(***************************************************************************)
(* One caller of a restricted container sandbox: enough for a start that   *)
(* fails after `podman create`.                                            *)
(***************************************************************************)
EXTENDS Sandbox
=============================================================================
