--------------------------- MODULE WorkspaceFence ---------------------------
(***************************************************************************)
(* What the run registry promises the callers of one workspace, without    *)
(* tables, leases or clocks.  At most one run occupies the workspace.  An  *)
(* occupation starts a new epoch in which nothing may be dispatched until  *)
(* the run is opened; a run asked to cancel is never opened again, in this *)
(* epoch or a later one, and a closed run never occupies the workspace     *)
(* again.                                                                  *)
(***************************************************************************)
EXTENDS Naturals

CONSTANTS Runs, NoRun, MaxGen

VARIABLES
    occupant,   \* the run that occupies the workspace, or NoRun
    open,       \* whether the occupant may dispatch work
    epoch,      \* number of times each run took the workspace
    asked,      \* runs whose cancellation was requested
    closed      \* runs that ended as cancelled or failed

vars == <<occupant, open, epoch, asked, closed>>

Init ==
    /\ occupant = NoRun
    /\ open = FALSE
    /\ epoch = [r \in Runs |-> 0]
    /\ asked = {}
    /\ closed = {}

\* A run enters the free workspace, or is taken over by a new owner.
Take(r) ==
    /\ occupant \in {NoRun, r}
    /\ r \notin closed
    /\ epoch[r] < MaxGen
    /\ occupant' = r
    /\ open' = FALSE
    /\ epoch' = [epoch EXCEPT ![r] = @ + 1]
    /\ UNCHANGED <<asked, closed>>

Open ==
    /\ occupant # NoRun
    /\ occupant \notin asked
    /\ open' = TRUE
    /\ UNCHANGED <<occupant, epoch, asked, closed>>

\* The occupant keeps the workspace and may not dispatch.
Shut ==
    /\ open' = FALSE
    /\ UNCHANGED <<occupant, epoch, asked, closed>>

Ask ==
    /\ occupant # NoRun
    /\ asked' = asked \cup {occupant}
    /\ open' = FALSE
    /\ UNCHANGED <<occupant, epoch, closed>>

\* The occupant leaves; it is closed or may come back in a later epoch.
Leave ==
    /\ occupant # NoRun
    /\ occupant' = NoRun
    /\ open' = FALSE
    /\ closed' \in {closed, closed \cup {occupant}}
    /\ UNCHANGED <<epoch, asked>>

Next ==
    \/ \E r \in Runs : Take(r)
    \/ Open
    \/ Shut
    \/ Ask
    \/ Leave

Spec == Init /\ [][Next]_vars

=============================================================================
