-------------------------- MODULE MCPyTaskCreation --------------------------
(***************************************************************************)
(* PyTaskCreation for TLC, as MCJsTaskCreation is for JsTaskCreation.      *)
(***************************************************************************)
EXTENDS PyTaskCreation, TLC

Symmetry == Permutations(Calls) \cup Permutations(Keys)
=============================================================================
