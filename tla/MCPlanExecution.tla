-------------------------- MODULE MCPlanExecution --------------------------
(* Small instances of PlanExecution for TLC. *)
EXTENDS PlanExecution, TLC

\* A change of the tree by somebody else is followed up to the first verification, a first graph with no rollback
\* up to one attempt that is made again, a rollback and its retry up to the bound.
Small == CASE foreign > 0 -> Len(attempts) <= Cardinality(Nodes) - 1
           [] foreign = 0 /\ rollback.version = 0 -> Len(attempts) <= Cardinality(Nodes) + 1
           [] OTHER -> TRUE

=============================================================================
