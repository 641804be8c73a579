------------------------- MODULE MCExplorationTasks -------------------------
(* Small instances of ExplorationTasks for TLC. *)
EXTENDS ExplorationTasks, TLC

\* No action tells two processes or two explorations apart.
Symmetry == Permutations(Procs) \cup Permutations(Resources)

\* Bound: what makes a run eventful, its explorations beyond the first, a second ownership,
\* writes, tokens that are set and deadlines that pass, at most MaxTrouble in all.
Trouble ==
    Cardinality({x \in Resources : rec[x].status # "absent"})
    + run[R].generation
    + Cardinality({p \in Procs : token[p] # "live"})
    + Cardinality({p \in Procs : own[p].writes > 0})
    + Cardinality({x \in Resources : rec[x].late})

MaxTrouble == 2

\* Bound: two processes share one exploration.
Small ==
    /\ Trouble <= 2 + MaxTrouble
    /\ (\A p \in Procs : own[p].pc # "none") => Cardinality({x \in Resources : rec[x].status # "absent"}) <= 1

=============================================================================
