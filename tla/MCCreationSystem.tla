-------------------------- MODULE MCCreationSystem --------------------------
(***************************************************************************)
(* CreationSystem for TLC.                                                 *)
(***************************************************************************)
EXTENDS CreationSystem, TLC

\* A tracker that keeps keys unique, under aborts and a crash that leave writes
\* behind; and a department that searches, then creates, and finishes what it
\* has sent, in a process that may crash between writes.
SoundScenarios == {[unique |-> TRUE,  tidy |-> FALSE, crashes |-> 2],
                   [unique |-> FALSE, tidy |-> TRUE,  crashes |-> 2]}

Symmetry == Permutations(Calls) \cup Permutations(Keys)
=============================================================================
