---------------------------- MODULE MCPhaseTasks ----------------------------
(* Small instances of PhaseTasks for TLC. *)
EXTENDS PhaseTasks, TLC

\* No action tells two processes apart.
Symmetry == Permutations(Procs)

\* Bound: the token of one process at most is set.
Small == Cardinality({p \in Procs : cancelled[p]}) <= 1

=============================================================================
