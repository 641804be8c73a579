--------------------------- MODULE MCSandboxCalls ---------------------------
(* Small instances of SandboxCalls for TLC. *)
EXTENDS SandboxCalls, TLC

\* No action tells two processes or two calls apart.
Symmetry == Permutations(Procs) \cup Permutations(Resources)

\* Bound: two processes at work and one call, or one process, which owns the run once, and two calls.
AtWork == {p \in Procs : own[p] # NoOne}
Small ==
    /\ Cardinality(AtWork) + Cardinality({x \in Resources : call[x].pc # "idle"}) <= 3
    /\ \A r \in Runs : run[r].generation <= 1 \/ \E x \in Resources : call[x].pc = "idle"

=============================================================================
