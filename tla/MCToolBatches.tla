--------------------------- MODULE MCToolBatches ---------------------------
(* The batches that the models ask for in the runs of ToolBatches. *)
EXTENDS ToolBatches, TLC

CONSTANTS main, e1, e2, a1, a2, a3, w1, w2, b1, b2

\* The run reads twice and writes, while an exploration reads.
MCScript == (main :> <<<<a1, a2>>, <<w1>>>>) @@ (e1 :> <<<<b1>>>>)

\* Three reads and two writes of the run alone.
MCAlone == main :> <<<<a1, a2, a3>>, <<w1, w2>>>>

\* An exploration that reads in two turns.
MCTwoTurns == (main :> <<<<a1>>>>) @@ (e1 :> <<<<b1>>, <<b2>>>>)
=============================================================================
