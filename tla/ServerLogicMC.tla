---------------------------- MODULE ServerLogicMC ----------------------------
(* ServerLogic on a small instance. *)
EXTENDS ServerLogic
=============================================================================
