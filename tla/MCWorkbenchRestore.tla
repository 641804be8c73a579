------------------------ MODULE MCWorkbenchRestore ------------------------
(* Small instances of WorkbenchRestore for TLC. *)
EXTENDS WorkbenchRestore, TLC

\* A directory and a path in it; with a third path beside.
Nested == <<0, 1>>
NestedAndFlat == <<0, 1, 0>>
Flat == <<0, 0>>

\* A run leaves the directory with a file in it, or nothing.
CONSTANTS d700
SomeFile == {<<d700, f>> : f \in Files}
NoFile == {<<Absent, Absent>>}

\* Bound: the initial states stand for what users did before there is a preview, but
\* for a turn on an unchanged project, and nothing is looked at after the last operation.
Small ==
    \/ /\ user.edits = 0 /\ faults = 0
       /\ \/ history.revision = 0
          \/ history.candidate.status = "ready" /\ Cardinality(history.snapshots) = 2
    \/ \E o \in Ops : plans[o] # NoPlan \/ IsOpen(journal[o])

Symmetry == Permutations(Files) \cup Permutations(Ops)
=============================================================================
