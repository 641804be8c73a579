-------------------------- MODULE RunCoordination --------------------------
(***************************************************************************)
(* The run registry of agent_runtime/run_coordination/store.py: the row of *)
(* each run of one workspace, the rows of its resources, and the leases    *)
(* that processes hold in memory.  Every method of the store is one SQLite *)
(* BEGIN IMMEDIATE transaction, hence one action; a method that raises     *)
(* rolls back, hence the action is then not enabled.                       *)
(*                                                                         *)
(* A lease is compared with the row by owner_token and generation.  The    *)
(* token is a fresh uuid drawn with each generation, so the model uses the *)
(* generation as the token and 0 for the empty token of a fenced row.      *)
(* Wall-clock time is abstracted to the bit "live": whether                *)
(* lease_expires_at is still in the future.                                *)
(***************************************************************************)
EXTENDS Naturals, FiniteSets

CONSTANTS
    Runs,       \* run identities of the workspace (run_key)
    Procs,      \* processes that may own a run, one coordinator in each
    Resources,  \* resource identities (plan attempts, agent tasks, calls)
    NoRun,      \* the run of a resource row that does not exist
    NoParent,   \* parent_id = ''
    MaxGen      \* bound on the owner generations of a run

ASSUME ConstantsAssumption ==
    /\ MaxGen \in Nat
    /\ NoRun \notin Runs
    /\ NoParent \notin Resources

VARIABLES
    run,        \* the runs table
    res,        \* the resources table
    lease,      \* lease[p][r]: generation of the OwnerLease p holds, 0 for none
    retired     \* run whose sandbox-lifecycle marker is published, or NoRun

vars == <<run, res, lease, retired>>

-----------------------------------------------------------------------------
(* Types *)

Generations == 0..MaxGen

\* "new" stands for a run without a row; "acquiring" is never written.
RunStates == {"new", "reconciling", "active", "cancel_requested", "cancelling",
              "cancelled", "recovery_required", "failed", "released"}

\* Statuses that keep the workspace busy for every other run (acquire).
BusyStates == {"reconciling", "active", "cancel_requested", "cancelling",
               "recovery_required"}

\* Statuses in which an owner may write (heartbeat, transition_resource).
OwnedStates == {"reconciling", "active", "cancel_requested", "cancelling"}

EndStates == {"released", "failed", "cancelled"}

ResourceStates == {"planned", "running", "completed", "failed",
                   "cancel_requested", "cancelled", "not_started", "unknown"}

SettledStates == {"completed", "failed", "cancelled", "not_started"}

Cleanups == {"unverified", "unknown", "confirmed"}

RunRow == [status : RunStates, generation : Generations, token : Generations,
           live : BOOLEAN, cancel : BOOLEAN]

ResourceRow == [status : ResourceStates \cup {"absent"}, run : Runs \cup {NoRun},
                parent : Resources \cup {NoParent}, generation : Generations,
                cleanup : Cleanups]

TypeOK ==
    /\ run \in [Runs -> RunRow]
    /\ res \in [Resources -> ResourceRow]
    /\ lease \in [Procs -> [Runs -> Generations]]
    /\ retired \in Runs \cup {NoRun}

-----------------------------------------------------------------------------
(* Guards shared by the methods *)

\* The comparison every method opens with: the lease's token and generation
\* are those of the row, else StaleGenerationError.
Owns(p, r) ==
    /\ lease[p][r] # 0
    /\ run[r].token = lease[p][r]
    /\ run[r].generation = lease[p][r]

\* assert_lease without allow_cancelling: what a dispatch is let through by.
CanDispatch(p, r) == Owns(p, r) /\ run[r].status = "active" /\ run[r].live

\* assert_request_owner: the envelope of a request names the owner that may
\* start it now.  (coordination_revision only grows, so its check cannot fail.)
RequestOwnerValid(r, g) ==
    /\ g # 0
    /\ run[r].token = g
    /\ run[r].status = "active"
    /\ run[r].live
    /\ ~run[r].cancel

\* confirmed_exited(owner_identity): the process that took the current
\* generation is gone.  A crash drops the leases of a process.
OwnerExited(r) == \A p \in Procs : lease[p][r] # run[r].generation

ResourcesOf(r) == {x \in Resources : res[x].run = r}

Settled(x) == res[x].status \in SettledStates /\ res[x].cleanup = "confirmed"

Init ==
    /\ run = [r \in Runs |-> [status |-> "new", generation |-> 0, token |-> 0,
                              live |-> FALSE, cancel |-> FALSE]]
    /\ res = [x \in Resources |-> [status |-> "absent", run |-> NoRun,
                                   parent |-> NoParent, generation |-> 0,
                                   cleanup |-> "unverified"]]
    /\ lease = [p \in Procs |-> [r \in Runs |-> 0]]
    /\ retired = NoRun

-----------------------------------------------------------------------------
(* Ownership *)

\* A row may be taken over when it has no unexpired owner.
Takeable(r) ==
    /\ run[r].status \notin {"cancelled", "failed"}
    /\ run[r].live /\ run[r].token # 0 => OwnerExited(r)

\* Deviation: only an active run keeps the workspace busy.
WorkspaceFree_ActiveOnly(r) == \A s \in Runs \ {r} : run[s].status # "active"

WorkspaceFree(r) == \A s \in Runs \ {r} : run[s].status \notin BusyStates

\* Deviation: a takeover clears the cancel request of the old generation.
Acquire_DropsCancel(p, r) ==
    /\ retired = NoRun
    /\ WorkspaceFree(r)
    /\ Takeable(r)
    /\ run[r].generation < MaxGen
    /\ run' = [run EXCEPT ![r] = [status |-> "reconciling",
                                  generation |-> run[r].generation + 1,
                                  token |-> run[r].generation + 1,
                                  live |-> TRUE,
                                  cancel |-> FALSE]]
    /\ lease' = [lease EXCEPT ![p] = [lease[p] EXCEPT ![r] = run[r].generation + 1]]
    /\ UNCHANGED <<res, retired>>

\* acquire: the cancel request of an earlier generation is kept.
Acquire(p, r) ==
    /\ retired = NoRun
    /\ WorkspaceFree(r)
    /\ Takeable(r)
    /\ run[r].generation < MaxGen
    /\ run' = [run EXCEPT ![r] = [status |-> "reconciling",
                                  generation |-> run[r].generation + 1,
                                  token |-> run[r].generation + 1,
                                  live |-> TRUE,
                                  cancel |-> run[r].cancel]]
    /\ lease' = [lease EXCEPT ![p] = [lease[p] EXCEPT ![r] = run[r].generation + 1]]
    /\ UNCHANGED <<res, retired>>

\* Deviation: activation does not look at the cancel request.
Activate_IgnoresCancel(p, r) ==
    /\ Owns(p, r)
    /\ run[r].status \in {"reconciling", "cancel_requested"}
    /\ run[r].live
    /\ run' = [run EXCEPT ![r].status = "active"]
    /\ UNCHANGED <<res, lease, retired>>

Activate(p, r) ==
    /\ Owns(p, r)
    /\ run[r].status \in {"reconciling", "cancel_requested"}
    /\ run[r].live
    /\ ~run[r].cancel
    /\ run' = [run EXCEPT ![r].status = "active"]
    /\ UNCHANGED <<res, lease, retired>>

\* heartbeat renews a lease that is still live; with time abstracted the
\* renewed row differs from the old one only in when it may next expire.
Heartbeat(p, r) ==
    /\ Owns(p, r)
    /\ run[r].status \in OwnedStates
    /\ run[r].live
    /\ UNCHANGED vars

RequestCancel(p, r) ==
    /\ Owns(p, r)
    /\ IF run[r].cancel
         THEN /\ run[r].status = "reconciling"
              /\ run' = [run EXCEPT ![r].status = "cancel_requested"]
         ELSE /\ run[r].status \notin EndStates
              /\ run' = [run EXCEPT ![r].status = "cancel_requested",
                                    ![r].cancel = TRUE]
    /\ UNCHANGED <<res, lease, retired>>

BeginCancelling(p, r) ==
    /\ Owns(p, r)
    /\ run[r].status = "cancel_requested"
    /\ run' = [run EXCEPT ![r].status = "cancelling"]
    /\ UNCHANGED <<res, lease, retired>>

\* The row keeps its generation and loses its owner.
FenceOff(r, status) ==
    run' = [run EXCEPT ![r] = [status |-> status, generation |-> run[r].generation,
                               token |-> 0, live |-> FALSE,
                               cancel |-> run[r].cancel]]

MarkRecoveryRequired(p, r) ==
    /\ Owns(p, r)
    /\ FenceOff(r, "recovery_required")
    /\ UNCHANGED <<res, lease, retired>>

\* Deviation: the cleanup column of the resources is not looked at.
Finish_IgnoresCleanup(p, r, status) ==
    /\ Owns(p, r)
    /\ FenceOff(r, IF \A x \in ResourcesOf(r) : res[x].status \in SettledStates
                     THEN status ELSE "recovery_required")
    /\ UNCHANGED <<res, lease, retired>>

\* finish: a run with a residual resource becomes recovery_required, whatever
\* end was asked for.
Finish(p, r, status) ==
    /\ Owns(p, r)
    /\ FenceOff(r, IF \A x \in ResourcesOf(r) : Settled(x)
                     THEN status ELSE "recovery_required")
    /\ UNCHANGED <<res, lease, retired>>

-----------------------------------------------------------------------------
(* Resources *)

\* register_resource; recovery is its argument allow_reconciling.
RegisterResource(p, r, x, parent, recovery) ==
    /\ Owns(p, r)
    /\ run[r].status \in IF recovery THEN OwnedStates ELSE {"active"}
    /\ run[r].cancel => recovery
    /\ run[r].live
    /\ parent = NoParent \/ parent \in ResourcesOf(r)
    /\ res[x].status = "absent"
    /\ res' = [res EXCEPT ![x] = [status |-> "planned", run |-> r,
                                  parent |-> parent,
                                  generation |-> lease[p][r],
                                  cleanup |-> "unverified"]]
    /\ UNCHANGED <<run, lease, retired>>

\* A resource of an older generation may only be written while the run is
\* fenced for reconciliation, and then passes to the writer's generation.
MayWrite(p, r, x, adopt) ==
    \/ res[x].generation = lease[p][r]
    \/ /\ adopt
       /\ run[r].status \in {"reconciling", "cancel_requested"}
       /\ res[x].generation < lease[p][r]

\* The checks of transition_resource, which raises when they fail.
TransitionAllowed(p, r, x, status, adopt) ==
    /\ Owns(p, r)
    /\ run[r].status \in OwnedStates
    /\ status \in {"planned", "running"} =>
         run[r].status = "active" /\ ~run[r].cancel /\ run[r].live
    /\ res[x].run = r
    /\ MayWrite(p, r, x, adopt)

TransitionResource(p, r, x, status, cleanup, adopt) ==
    /\ TransitionAllowed(p, r, x, status, adopt)
    /\ res' = [res EXCEPT ![x] = [status |-> status, run |-> r,
                                  parent |-> res[x].parent,
                                  generation |-> lease[p][r],
                                  cleanup |-> cleanup]]
    /\ UNCHANGED <<run, lease, retired>>

-----------------------------------------------------------------------------
(* Environment *)

\* Deviation: only the owner_token is checked, not the status.
Retire_TokenOnly(r) ==
    /\ retired = NoRun
    /\ run[r].token = 0
    /\ retired' = r
    /\ UNCHANGED <<run, res, lease>>

\* Publication of the lifecycle marker inside retirement_guard.
Retire(r) ==
    /\ retired = NoRun
    /\ run[r].token = 0
    /\ run[r].status \in EndStates \cup {"new"}
    /\ retired' = r
    /\ UNCHANGED <<run, res, lease>>

\* The clock passes lease_expires_at.
Expire(r) ==
    /\ run[r].token # 0
    /\ run[r].live
    /\ run' = [run EXCEPT ![r].live = FALSE]
    /\ UNCHANGED <<res, lease, retired>>

\* A process dies; a process that starts in its place holds no lease.
Crash(p) ==
    /\ \E r \in Runs : lease[p][r] # 0
    /\ lease' = [lease EXCEPT ![p] = [r \in Runs |-> 0]]
    /\ UNCHANGED <<run, res, retired>>

-----------------------------------------------------------------------------

OwnerStep(p, r) ==
    \/ Acquire(p, r)
    \/ Activate(p, r)
    \/ Heartbeat(p, r)
    \/ RequestCancel(p, r)
    \/ BeginCancelling(p, r)
    \/ MarkRecoveryRequired(p, r)
    \/ \E status \in EndStates \cup {"recovery_required"} : Finish(p, r, status)

ResourceStep(p, r) == \E x \in Resources :
    \/ \E parent \in Resources \cup {NoParent}, recovery \in BOOLEAN :
         RegisterResource(p, r, x, parent, recovery)
    \/ \E status \in ResourceStates, cleanup \in Cleanups, adopt \in BOOLEAN :
         TransitionResource(p, r, x, status, cleanup, adopt)

Next ==
    \/ \E p \in Procs, r \in Runs : OwnerStep(p, r) \/ ResourceStep(p, r)
    \/ \E r \in Runs : Retire(r) \/ Expire(r)
    \/ \E p \in Procs : Crash(p)

Spec == Init /\ [][Next]_vars

-----------------------------------------------------------------------------
(* Safety *)

\* Two processes never hold a lease of the same generation of a run: acquire
\* draws a generation once, whatever crashes, expires or is taken over.
UniqueOwner ==
    \A p, q \in Procs, r \in Runs :
        p # q /\ lease[p][r] # 0 => lease[p][r] # lease[q][r]

\* At most one run of the workspace is in a status that acquire counts as busy.
WorkspaceExclusive ==
    \A r, s \in Runs :
        run[r].status \in BusyStates /\ run[s].status \in BusyStates => r = s

\* At any moment at most one process, for one run, is let through
\* assert_lease: dispatches of the workspace have a single source.
SingleDispatcher ==
    \A p, q \in Procs, r, s \in Runs :
        CanDispatch(p, r) /\ CanDispatch(q, s) => p = q /\ r = s

\* A run that finish ended has no resource whose end is unconfirmed: neither
\* a late writer nor a registration slips in after the check.
EndedRunIsClean ==
    \A r \in Runs : run[r].status \in EndStates =>
        \A x \in ResourcesOf(r) : Settled(x)

\* An unfenced owner always holds the newest generation, and a fenced run has
\* no live lease: an old owner cannot outlive its successor.
FencedRunHasNoOwner ==
    \A r \in Runs :
        /\ run[r].token # 0 <=> run[r].status \in OwnedStates
        /\ run[r].token # 0 => run[r].token = run[r].generation
        /\ run[r].live => run[r].token # 0

\* A requested cancellation survives every takeover: the run is then never
\* active again.
CancelKeepsRunClosed ==
    \A r \in Runs : run[r].cancel => run[r].status # "active"

\* The parents of a run's resources are resources of that run and form a
\* forest: the coordinator can order every cleanup from children to parents.
ResourceForest ==
    /\ \A x \in Resources : res[x].parent # NoParent =>
         res[res[x].parent].run = res[x].run
    /\ \A S \in (SUBSET Resources) \ {{}} : \E x \in S : res[x].parent \notin S

\* A run whose sandbox task is retired has no owner and cannot get one.
RetiredRunIsIdle == retired \in Runs => run[retired].status \notin BusyStates

-----------------------------------------------------------------------------
(* What the registry promises *)

\* The run that keeps the workspace busy, read off the runs table.
OccupantIn(rows) ==
    IF \E r \in Runs : rows[r].status \in BusyStates
      THEN CHOOSE r \in Runs : rows[r].status \in BusyStates
      ELSE NoRun

Fence == INSTANCE WorkspaceFence WITH
    occupant <- OccupantIn(run),
    open <- \E r \in Runs : run[r].status = "active",
    epoch <- [r \in Runs |-> run[r].generation],
    asked <- {r \in Runs : run[r].cancel},
    closed <- {r \in Runs : run[r].status \in {"cancelled", "failed"}}

\* The registry implements the fence.
ImplementsFence == Fence!Spec

=============================================================================
