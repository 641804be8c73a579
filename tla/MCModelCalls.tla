--------------------------- MODULE MCModelCalls ---------------------------
(* Small instances of ModelCalls for TLC. *)
EXTENDS ModelCalls, TLC

CONSTANT main

\* Every call uses the agent's client.
OneClient == [c \in Calls |-> main]

Symmetry == Permutations(Calls \ Durable)

===========================================================================
