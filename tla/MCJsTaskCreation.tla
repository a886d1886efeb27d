-------------------------- MODULE MCJsTaskCreation --------------------------
(***************************************************************************)
(* JsTaskCreation for TLC.  Calls and keys are interchangeable; Users are  *)
(* too, but only ever compared with each other.  The symmetry is used by   *)
(* the safety run alone: liveness is checked without it.                   *)
(***************************************************************************)
EXTENDS JsTaskCreation, TLC

Symmetry == Permutations(Calls) \cup Permutations(Keys)
=============================================================================
