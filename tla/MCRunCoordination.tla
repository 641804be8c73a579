------------------------- MODULE MCRunCoordination -------------------------
(* Small instances of RunCoordination for TLC. *)
EXTENDS RunCoordination, TLC

\* No action tells two runs, two processes or two resources apart.
Symmetry == Permutations(Runs) \cup Permutations(Procs) \cup Permutations(Resources)

=============================================================================
