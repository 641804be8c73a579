----------------------- MODULE RunCoordinationProofs -----------------------
(***************************************************************************)
(* Theorems about the run registry, for every set of runs, processes and   *)
(* resources and every bound on the generations; and the facts about sums  *)
(* that the proofs about the exploration store and the model calls need.   *)
(***************************************************************************)
EXTENDS RunCoordination, FiniteSetsExt, FiniteSetTheorems, TLAPS

\* No process holds a lease of a generation the row has not reached.
LeaseIsPast == \A p \in Procs, r \in Runs : lease[p][r] <= run[r].generation

\* The inductive invariant of the ownership part of the registry.
OwnershipInv ==
    /\ TypeOK
    /\ LeaseIsPast
    /\ UniqueOwner
    /\ WorkspaceExclusive
    /\ FencedRunHasNoOwner
    /\ CancelKeepsRunClosed
    /\ RetiredRunIsIdle

USE ConstantsAssumption

-----------------------------------------------------------------------------
(* Type correctness *)

LEMMA InitType == Init => TypeOK
  BY DEF Init, TypeOK, RunRow, ResourceRow, RunStates, Cleanups, Generations

LEMMA FenceOffType ==
  ASSUME TypeOK, NEW r \in Runs, NEW status \in RunStates, FenceOff(r, status)
  PROVE  run' \in [Runs -> RunRow]
  BY DEF FenceOff, TypeOK, RunRow, Generations

LEMMA StepType == TypeOK /\ [Next]_vars => TypeOK'
<1> SUFFICES ASSUME TypeOK, [Next]_vars PROVE TypeOK'
  OBVIOUS
<1> USE DEF TypeOK
<1>1. ASSUME NEW p \in Procs, NEW r \in Runs, OwnerStep(p, r) PROVE TypeOK'
  <2>1. CASE Acquire(p, r)
    <3>1. run[r].generation + 1 \in Generations
      BY <2>1 DEF Acquire, RunRow, Generations
    <3>2. run' \in [Runs -> RunRow]
      BY <2>1, <3>1 DEF Acquire, RunRow, RunStates
    <3>3. lease' \in [Procs -> [Runs -> Generations]]
      BY <2>1, <3>1 DEF Acquire
    <3> QED BY <2>1, <3>2, <3>3 DEF Acquire
  <2>2. CASE Activate(p, r)
    BY <2>2 DEF Activate, RunRow, RunStates
  <2>3. CASE Heartbeat(p, r)
    BY <2>3 DEF Heartbeat, vars
  <2>4. CASE RequestCancel(p, r)
    BY <2>4 DEF RequestCancel, RunRow, RunStates
  <2>5. CASE BeginCancelling(p, r)
    BY <2>5 DEF BeginCancelling, RunRow, RunStates
  <2>6. CASE MarkRecoveryRequired(p, r)
    BY <2>6, FenceOffType DEF MarkRecoveryRequired, RunStates
  <2>7. ASSUME NEW status \in EndStates \cup {"recovery_required"},
               Finish(p, r, status)
        PROVE  TypeOK'
    BY <2>7, FenceOffType DEF Finish, RunStates, EndStates
  <2> QED BY <1>1, <2>1, <2>2, <2>3, <2>4, <2>5, <2>6, <2>7 DEF OwnerStep
<1>2. ASSUME NEW p \in Procs, NEW r \in Runs, ResourceStep(p, r) PROVE TypeOK'
  <2>1. ASSUME NEW x \in Resources, NEW parent \in Resources \cup {NoParent},
               NEW recovery \in BOOLEAN, RegisterResource(p, r, x, parent, recovery)
        PROVE  TypeOK'
    BY <2>1 DEF RegisterResource, ResourceRow, ResourceStates, Cleanups
  <2>2. ASSUME NEW x \in Resources, NEW status \in ResourceStates,
               NEW cleanup \in Cleanups, NEW adopt \in BOOLEAN,
               TransitionResource(p, r, x, status, cleanup, adopt)
        PROVE  TypeOK'
    BY <2>2 DEF TransitionResource, TransitionAllowed, ResourceRow
  <2> QED BY <1>2, <2>1, <2>2 DEF ResourceStep
<1>3. ASSUME NEW r \in Runs, Retire(r) \/ Expire(r) PROVE TypeOK'
  <2>1. CASE Retire(r)
    BY <2>1 DEF Retire
  <2>2. CASE Expire(r)
    <3>1. run' \in [Runs -> RunRow]
      BY <2>2 DEF Expire, RunRow
    <3> QED BY <2>2, <3>1 DEF Expire
  <2> QED BY <1>3, <2>1, <2>2
<1>4. ASSUME NEW p \in Procs, Crash(p) PROVE TypeOK'
  BY <1>4 DEF Crash, Generations
<1>5. CASE UNCHANGED vars
  BY <1>5 DEF vars
<1> QED BY <1>1, <1>2, <1>3, <1>4, <1>5 DEF Next

\* Type correctness of the registry: every method leaves rows the schema
\* admits, in statuses the store knows.
THEOREM TypeCorrect == Spec => []TypeOK
  BY InitType, StepType, PTL DEF Spec

-----------------------------------------------------------------------------
(* Ownership *)

LEMMA InitOwnership == Init => OwnershipInv
  BY InitType DEF Init, OwnershipInv, LeaseIsPast, UniqueOwner, WorkspaceExclusive,
     FencedRunHasNoOwner, CancelKeepsRunClosed, RetiredRunIsIdle, BusyStates,
     OwnedStates

\* A row that keeps the shape of an owned or a fenced run.
RowShape(row) ==
    /\ row.token # 0 <=> row.status \in OwnedStates
    /\ row.token # 0 => row.token = row.generation
    /\ row.live => row.token # 0
    /\ row.cancel => row.status # "active"

\* Every write to the row of an owned run that keeps its generation and leaves
\* a well-shaped row preserves the invariant.
LEMMA OwnedWrite ==
  ASSUME OwnershipInv, TypeOK', UNCHANGED <<lease, retired>>,
         NEW r \in Runs, run[r].token # 0,
         NEW row, run' = [run EXCEPT ![r] = row],
         row.generation = run[r].generation,
         RowShape(row)
  PROVE  OwnershipInv'
<1> USE DEF OwnershipInv, TypeOK
<1>1. \A s \in Runs : run'[s] = IF s = r THEN row ELSE run[s]
  OBVIOUS
<1>2. run[r].status \in BusyStates
  BY DEF FencedRunHasNoOwner, OwnedStates, BusyStates
<1>3. LeaseIsPast'
  BY <1>1 DEF LeaseIsPast
<1>4. UniqueOwner'
  BY DEF UniqueOwner
<1>5. WorkspaceExclusive'
  BY <1>1, <1>2 DEF WorkspaceExclusive
<1>6. FencedRunHasNoOwner'
  BY <1>1 DEF FencedRunHasNoOwner, RowShape
<1>7. CancelKeepsRunClosed'
  BY <1>1 DEF CancelKeepsRunClosed, RowShape
<1>8. RetiredRunIsIdle'
  BY <1>1, <1>2 DEF RetiredRunIsIdle
<1> QED BY <1>3, <1>4, <1>5, <1>6, <1>7, <1>8

LEMMA AcquireOwnership ==
  ASSUME OwnershipInv, TypeOK', NEW p \in Procs, NEW r \in Runs, Acquire(p, r)
  PROVE  OwnershipInv'
<1> USE DEF OwnershipInv, TypeOK
<1> DEFINE g == run[r].generation + 1
<1>1. run[r].generation \in Nat /\ g \in Nat /\ g # 0
  BY DEF RunRow, Generations
<1>2. \A s \in Runs : run'[s] = IF s = r
        THEN [status |-> "reconciling", generation |-> g, token |-> g,
              live |-> TRUE, cancel |-> run[r].cancel]
        ELSE run[s]
  BY DEF Acquire
<1>3. \A q \in Procs, s \in Runs :
        lease'[q][s] = IF q = p /\ s = r THEN g ELSE lease[q][s]
  BY DEF Acquire
<1>4. \A q \in Procs, s \in Runs : lease[q][s] \in Nat /\ run[s].generation \in Nat
  BY DEF RunRow, Generations
<1>5. LeaseIsPast'
  BY <1>1, <1>2, <1>3, <1>4 DEF LeaseIsPast
<1>6. UniqueOwner'
  <2>1. \A q \in Procs : lease[q][r] < g
    BY <1>1, <1>4 DEF LeaseIsPast
  <2> QED BY <1>3, <2>1, <1>1, <1>4 DEF UniqueOwner
<1>7. WorkspaceExclusive'
  BY <1>2 DEF WorkspaceExclusive, Acquire, WorkspaceFree
<1>8. FencedRunHasNoOwner'
  BY <1>1, <1>2 DEF FencedRunHasNoOwner, OwnedStates
<1>9. CancelKeepsRunClosed'
  BY <1>2 DEF CancelKeepsRunClosed
<1>10. RetiredRunIsIdle'
  BY DEF RetiredRunIsIdle, Acquire
<1> QED BY <1>5, <1>6, <1>7, <1>8, <1>9, <1>10

LEMMA FenceOffOwnership ==
  ASSUME OwnershipInv, TypeOK', UNCHANGED <<lease, retired>>,
         NEW p \in Procs, NEW r \in Runs, Owns(p, r),
         NEW status \in EndStates \cup {"recovery_required"}, FenceOff(r, status)
  PROVE  OwnershipInv'
<1> DEFINE row == [status |-> status, generation |-> run[r].generation,
                   token |-> 0, live |-> FALSE, cancel |-> run[r].cancel]
<1>1. run[r].token # 0
  BY DEF Owns
<1>2. RowShape(row)
  BY DEF RowShape, OwnedStates, EndStates
<1>3. run' = [run EXCEPT ![r] = row]
  BY DEF FenceOff
<1>4. row.generation = run[r].generation
  OBVIOUS
<1> HIDE DEF row
<1> QED BY <1>1, <1>2, <1>3, <1>4, OwnedWrite

LEMMA StepOwnership == OwnershipInv /\ [Next]_vars => OwnershipInv'
<1> SUFFICES ASSUME OwnershipInv, [Next]_vars PROVE OwnershipInv'
  OBVIOUS
<1>0. TypeOK /\ TypeOK'
  BY StepType DEF OwnershipInv
<1>1. ASSUME NEW p \in Procs, NEW r \in Runs, OwnerStep(p, r) PROVE OwnershipInv'
  <2> DEFINE row(st, c) == [run[r] EXCEPT !.status = st, !.cancel = c]
  <2>a. run[r] \in RunRow
    BY <1>0 DEF TypeOK
  <2>b. Owns(p, r) => /\ run[r].token # 0
                      /\ run[r].token = run[r].generation
                      /\ run[r].status \in OwnedStates
    BY DEF Owns, OwnershipInv, FencedRunHasNoOwner
  \* The methods that move an owned run to another owned status.
  <2>c. ASSUME NEW st \in OwnedStates, NEW c \in BOOLEAN, Owns(p, r),
               run' = [run EXCEPT ![r] = row(st, c)], UNCHANGED <<lease, retired>>,
               c => st # "active"
        PROVE  OwnershipInv'
    <3>1. RowShape(row(st, c))
      BY <2>a, <2>b, <2>c DEF RowShape, RunRow
    <3>2. row(st, c).generation = run[r].generation
      BY <2>a DEF RunRow
    <3> HIDE DEF row
    <3> QED BY <1>0, <2>b, <2>c, <3>1, <3>2, OwnedWrite
  <2>1. CASE Acquire(p, r)
    BY <1>0, <2>1, AcquireOwnership
  <2>2. CASE Activate(p, r)
    <3>1. run' = [run EXCEPT ![r] = row("active", run[r].cancel)]
      BY <1>0, <2>a, <2>2 DEF Activate, RunRow, TypeOK
    <3>2. run[r].cancel \in BOOLEAN
      BY <2>a DEF RunRow
    <3> QED BY <2>c, <2>2, <3>1, <3>2 DEF Activate, OwnedStates
  <2>3. CASE Heartbeat(p, r)
    BY <1>0, <2>3 DEF Heartbeat, vars, OwnershipInv, LeaseIsPast, UniqueOwner,
       WorkspaceExclusive, FencedRunHasNoOwner, CancelKeepsRunClosed, RetiredRunIsIdle
  <2>4. CASE RequestCancel(p, r)
    <3>1. run' = [run EXCEPT ![r] = row("cancel_requested", TRUE)]
      BY <1>0, <2>a, <2>4 DEF RequestCancel, RunRow, TypeOK
    <3> QED BY <2>c, <2>4, <3>1 DEF RequestCancel, OwnedStates
  <2>5. CASE BeginCancelling(p, r)
    <3>1. run' = [run EXCEPT ![r] = row("cancelling", run[r].cancel)]
      BY <1>0, <2>a, <2>5 DEF BeginCancelling, RunRow, TypeOK
    <3>2. run[r].cancel \in BOOLEAN
      BY <2>a DEF RunRow
    <3> QED BY <2>c, <2>5, <3>1, <3>2 DEF BeginCancelling, OwnedStates
  <2>6. CASE MarkRecoveryRequired(p, r)
    BY <1>0, <2>6, FenceOffOwnership DEF MarkRecoveryRequired
  <2>7. ASSUME NEW status \in EndStates \cup {"recovery_required"},
               Finish(p, r, status)
        PROVE  OwnershipInv'
    BY <1>0, <2>7, FenceOffOwnership DEF Finish
  <2> QED BY <1>1, <2>1, <2>2, <2>3, <2>4, <2>5, <2>6, <2>7 DEF OwnerStep
<1>2. ASSUME UNCHANGED <<run, lease, retired>> PROVE OwnershipInv'
  BY <1>0, <1>2 DEF OwnershipInv, LeaseIsPast, UniqueOwner, WorkspaceExclusive,
     FencedRunHasNoOwner, CancelKeepsRunClosed, RetiredRunIsIdle
<1>3. ASSUME NEW p \in Procs, NEW r \in Runs, ResourceStep(p, r) PROVE OwnershipInv'
  BY <1>2, <1>3 DEF ResourceStep, RegisterResource, TransitionResource
<1>4. ASSUME NEW r \in Runs, Retire(r) PROVE OwnershipInv'
  BY <1>0, <1>4 DEF Retire, OwnershipInv, LeaseIsPast, UniqueOwner, WorkspaceExclusive,
     FencedRunHasNoOwner, CancelKeepsRunClosed, RetiredRunIsIdle, EndStates, BusyStates
<1>5. ASSUME NEW r \in Runs, Expire(r) PROVE OwnershipInv'
  <2> DEFINE row == [run[r] EXCEPT !.live = FALSE]
  <2>1. run[r] \in RunRow /\ run' = [run EXCEPT ![r] = row]
    BY <1>0, <1>5 DEF Expire, TypeOK
  <2>2. RowShape(row) /\ row.generation = run[r].generation
    BY <2>1, <1>5 DEF RowShape, RunRow, OwnershipInv, FencedRunHasNoOwner,
       CancelKeepsRunClosed
  <2>3. run[r].token # 0 /\ UNCHANGED <<lease, retired>>
    BY <1>5 DEF Expire
  <2> HIDE DEF row
  <2> QED BY <1>0, <2>1, <2>2, <2>3, OwnedWrite
<1>6. ASSUME NEW p \in Procs, Crash(p) PROVE OwnershipInv'
  <2>1. \A q \in Procs, s \in Runs : lease'[q][s] = IF q = p THEN 0 ELSE lease[q][s]
    BY <1>0, <1>6 DEF Crash, TypeOK
  <2>2. \A s \in Runs : run[s].generation \in Nat
    BY <1>0 DEF TypeOK, RunRow, Generations
  <2> QED BY <1>0, <1>6, <2>1, <2>2 DEF Crash, OwnershipInv, LeaseIsPast, UniqueOwner,
     WorkspaceExclusive, FencedRunHasNoOwner, CancelKeepsRunClosed, RetiredRunIsIdle
<1>7. CASE UNCHANGED vars
  BY <1>2, <1>7 DEF vars
<1> QED BY <1>1, <1>3, <1>4, <1>5, <1>6, <1>7 DEF Next

\* The workspace has one occupant, each generation one owner, and a fenced or
\* cancelled run stays fenced: the invariant behind the theorems below.
THEOREM OwnershipCorrect == Spec => []OwnershipInv
  BY InitOwnership, StepOwnership, PTL DEF Spec

\* assert_lease lets through at most one process, for one run: whatever is
\* dispatched in the workspace comes from a single owner.
THEOREM SingleDispatch == Spec => []SingleDispatcher
<1>1. OwnershipInv => SingleDispatcher
  BY DEF OwnershipInv, SingleDispatcher, CanDispatch, Owns, UniqueOwner,
     WorkspaceExclusive, BusyStates
<1> QED BY <1>1, OwnershipCorrect, PTL

\* A run whose cancellation was requested is never active again, in this
\* generation or after a takeover.
THEOREM CancelIsSticky == Spec => []CancelKeepsRunClosed
<1>1. OwnershipInv => CancelKeepsRunClosed
  BY DEF OwnershipInv
<1> QED BY <1>1, OwnershipCorrect, PTL

\* A run whose sandbox task was retired under retirement_guard is never owned
\* again: acquire looks at the marker, and the guard at the owner.
THEOREM RetiredRunsAreIdle == Spec => []RetiredRunIsIdle
<1>1. OwnershipInv => RetiredRunIsIdle
  BY DEF OwnershipInv
<1> QED BY <1>1, OwnershipCorrect, PTL

-----------------------------------------------------------------------------
(* Resources *)

\* A resource without a row belongs to no run and has no parent.
AbsentIsBlank ==
    \A x \in Resources : res[x].status = "absent" <=> res[x].run = NoRun

AbsentHasNoParent ==
    \A x \in Resources : res[x].status = "absent" => res[x].parent = NoParent

ResourceInv ==
    /\ OwnershipInv
    /\ AbsentIsBlank
    /\ AbsentHasNoParent
    /\ EndedRunIsClean
    /\ ResourceForest

LEMMA InitResources == Init => ResourceInv
  BY InitOwnership DEF Init, ResourceInv, AbsentIsBlank, AbsentHasNoParent,
     EndedRunIsClean, ResourceForest, EndStates

\* Steps that write no resource: only finish ends a run, and it looks first.
LEMMA RunStepResources ==
  ASSUME ResourceInv, OwnershipInv', UNCHANGED res,
         \A r \in Runs : run'[r].status \in EndStates =>
            \/ run[r].status \in EndStates
            \/ \A x \in ResourcesOf(r) : Settled(x)
  PROVE  ResourceInv'
<1>1. EndedRunIsClean'
  BY DEF ResourceInv, EndedRunIsClean, ResourcesOf, Settled
<1> QED BY <1>1 DEF ResourceInv, AbsentIsBlank, AbsentHasNoParent, ResourceForest

\* Registration adds a leaf under an existing resource of the run.
LEMMA RegisterKeepsForest ==
  ASSUME ResourceInv, NEW p \in Procs, NEW r \in Runs, NEW x \in Resources,
         NEW parent \in Resources \cup {NoParent}, NEW recovery \in BOOLEAN,
         RegisterResource(p, r, x, parent, recovery)
  PROVE  ResourceForest'
<1> USE DEF ResourceInv, OwnershipInv, TypeOK
<1>1. \A y \in Resources : /\ res'[y].parent = IF y = x THEN parent ELSE res[y].parent
                           /\ res'[y].run = IF y = x THEN r ELSE res[y].run
  BY DEF RegisterResource
<1>2. res[x].run = NoRun /\ res[x].parent = NoParent
  BY DEF RegisterResource, AbsentIsBlank, AbsentHasNoParent
<1>3. parent # x /\ (parent # NoParent => parent \in Resources /\ res[parent].run = r)
  BY <1>2 DEF RegisterResource, ResourcesOf
<1>4. \A y \in Resources : res[y].parent # x
  BY <1>2 DEF ResourceForest, AbsentIsBlank, AbsentHasNoParent, ResourceRow
<1>5. \A y \in Resources : res[y].parent # NoParent => res[y].parent \in Resources
  BY DEF ResourceRow
<1>6. \A y \in Resources : res'[y].parent # NoParent =>
         res'[res'[y].parent].run = res'[y].run
  BY <1>1, <1>3, <1>4, <1>5 DEF ResourceForest
<1>7. ASSUME NEW S \in SUBSET Resources, S # {} PROVE \E y \in S : res'[y].parent \notin S
  <2>1. CASE S = {x}
    BY <1>1, <1>3, <2>1
  <2>2. CASE S # {x}
    <3>1. S \ {x} \in (SUBSET Resources) \ {{}}
      BY <1>7, <2>2
    <3>2. PICK y \in S \ {x} : res[y].parent \notin S \ {x}
      BY <3>1 DEF ResourceForest
    <3> QED BY <1>1, <1>4, <3>2
  <2> QED BY <2>1, <2>2
<1> QED BY <1>6, <1>7 DEF ResourceForest

LEMMA StepResources == ResourceInv /\ [Next]_vars => ResourceInv'
<1> SUFFICES ASSUME ResourceInv, [Next]_vars PROVE ResourceInv'
  OBVIOUS
<1>0. OwnershipInv /\ OwnershipInv' /\ TypeOK /\ TypeOK'
  BY StepOwnership DEF ResourceInv, OwnershipInv
<1>1. ASSUME NEW p \in Procs, NEW r \in Runs, OwnerStep(p, r) PROVE ResourceInv'
  <2>1. UNCHANGED res
    BY <1>1 DEF OwnerStep, Acquire, Activate, Heartbeat, RequestCancel, BeginCancelling,
       MarkRecoveryRequired, Finish, vars
  <2>2. ASSUME NEW s \in Runs, run'[s].status \in EndStates, run[s].status \notin EndStates
        PROVE  \A x \in ResourcesOf(s) : Settled(x)
    BY <1>0, <1>1, <2>2 DEF OwnerStep, Acquire, Activate, Heartbeat, RequestCancel,
       BeginCancelling, MarkRecoveryRequired, Finish, FenceOff, vars, TypeOK, RunRow,
       EndStates
  <2> QED BY <1>0, <2>1, <2>2, RunStepResources
<1>2. ASSUME NEW p \in Procs, NEW r \in Runs, ResourceStep(p, r) PROVE ResourceInv'
  <2>0. run[r].status \notin EndStates
    BY <1>0, <1>2 DEF ResourceStep, RegisterResource, TransitionResource, TransitionAllowed,
       Owns,
       OwnershipInv, FencedRunHasNoOwner, OwnedStates, EndStates
  <2>1. ASSUME NEW x \in Resources, NEW parent \in Resources \cup {NoParent},
               NEW recovery \in BOOLEAN, RegisterResource(p, r, x, parent, recovery)
        PROVE  ResourceInv'
    <3>1. /\ run' = run
          /\ \A y \in Resources : y # x => res'[y] = res[y]
          /\ res'[x].run = r /\ res'[x].status = "planned"
      BY <1>0, <2>1 DEF RegisterResource, TypeOK
    <3>2. AbsentIsBlank' /\ AbsentHasNoParent'
      BY <3>1 DEF ResourceInv, AbsentIsBlank, AbsentHasNoParent
    <3>3. EndedRunIsClean'
      BY <2>0, <3>1 DEF ResourceInv, EndedRunIsClean, ResourcesOf, Settled
    <3> QED BY <1>0, <2>1, <3>2, <3>3, RegisterKeepsForest DEF ResourceInv
  <2>2. ASSUME NEW x \in Resources, NEW status \in ResourceStates,
               NEW cleanup \in Cleanups, NEW adopt \in BOOLEAN,
               TransitionResource(p, r, x, status, cleanup, adopt)
        PROVE  ResourceInv'
    <3>1. /\ run' = run
          /\ \A y \in Resources : y # x => res'[y] = res[y]
          /\ res'[x].run = r /\ res[x].run = r /\ res'[x].status = status
          /\ res'[x].parent = res[x].parent
      BY <1>0, <2>2 DEF TransitionResource, TransitionAllowed, TypeOK
    <3>2. AbsentIsBlank' /\ AbsentHasNoParent'
      BY <3>1 DEF ResourceInv, AbsentIsBlank, AbsentHasNoParent, ResourceStates
    <3>3. EndedRunIsClean'
      BY <2>0, <3>1 DEF ResourceInv, EndedRunIsClean, ResourcesOf, Settled
    <3>4. \A y \in Resources : res'[y].parent = res[y].parent /\ res'[y].run = res[y].run
      BY <3>1
    <3>5. ResourceForest'
      BY <1>0, <3>4 DEF ResourceInv, ResourceForest, TypeOK, ResourceRow
    <3> QED BY <1>0, <3>2, <3>3, <3>5 DEF ResourceInv
  <2> QED BY <1>2, <2>1, <2>2 DEF ResourceStep
<1>3. ASSUME UNCHANGED res, \A r \in Runs : run'[r].status = run[r].status
      PROVE  ResourceInv'
  BY <1>0, <1>3, RunStepResources
<1>4. ASSUME NEW r \in Runs, Retire(r) \/ Expire(r) PROVE ResourceInv'
  <2>1. \A s \in Runs : run'[s].status = run[s].status
    BY <1>0, <1>4 DEF Retire, Expire, TypeOK, RunRow
  <2> QED BY <1>3, <1>4, <2>1 DEF Retire, Expire
<1>5. ASSUME NEW p \in Procs, Crash(p) PROVE ResourceInv'
  BY <1>3, <1>5 DEF Crash
<1>6. CASE UNCHANGED vars
  BY <1>3, <1>6 DEF vars
<1> QED BY <1>1, <1>2, <1>4, <1>5, <1>6 DEF Next

THEOREM ResourceCorrect == Spec => []ResourceInv
  BY InitResources, StepResources, PTL DEF Spec

\* A run ended by finish has no resource whose end is unconfirmed, and gets
\* none later: every writer of a resource needs an owned run.
THEOREM EndedRunsAreClean == Spec => []EndedRunIsClean
<1>1. ResourceInv => EndedRunIsClean
  BY DEF ResourceInv
<1> QED BY <1>1, ResourceCorrect, PTL

\* The cleanup order of the coordinator exists: parents form a forest.
THEOREM ResourcesFormForest == Spec => []ResourceForest
<1>1. ResourceInv => ResourceForest
  BY DEF ResourceInv
<1> QED BY <1>1, ResourceCorrect, PTL

-----------------------------------------------------------------------------
(* Implementation of WorkspaceFence *)

Admits == \E r \in Runs : run[r].status = "active"

Closed == {r \in Runs : run[r].status \in {"cancelled", "failed"}}

\* With one busy run at most, the occupant is that run.
LEMMA OccupantIsBusyRun ==
  ASSUME NEW rows, NEW r \in Runs, rows[r].status \in BusyStates,
         \A s \in Runs : rows[s].status \in BusyStates => s = r
  PROVE  OccupantIn(rows) = r
  BY DEF OccupantIn

LEMMA OccupantIsNone ==
  ASSUME NEW rows, \A s \in Runs : rows[s].status \notin BusyStates
  PROVE  OccupantIn(rows) = NoRun
  BY DEF OccupantIn

LEMMA InitFence == Init => Fence!Init
<1> SUFFICES ASSUME Init PROVE Fence!Init
  OBVIOUS
<1>1. \A s \in Runs : run[s].status = "new" /\ run[s].generation = 0 /\ ~run[s].cancel
  BY DEF Init
<1>2. OccupantIn(run) = NoRun
  BY <1>1, OccupantIsNone DEF BusyStates
<1> QED BY <1>1, <1>2 DEF Fence!Init

\* Steps that keep every status, generation and cancel request.
LEMMA InvisibleStep ==
  ASSUME \A s \in Runs : /\ run'[s].status = run[s].status
                         /\ run'[s].generation = run[s].generation
                         /\ run'[s].cancel = run[s].cancel
  PROVE  UNCHANGED Fence!vars
<1>1. OccupantIn(run)' = OccupantIn(run)
  BY DEF OccupantIn
<1> QED BY <1>1 DEF Fence!vars

\* What a step on the row of a busy run looks like from outside.
LEMMA OccupantStep ==
  ASSUME OwnershipInv, NEW r \in Runs, run[r].status \in OwnedStates,
         NEW row, run' = [run EXCEPT ![r] = row],
         row.generation = run[r].generation
  PROVE  /\ OccupantIn(run) = r
         /\ OccupantIn(run)' = IF row.status \in BusyStates THEN r ELSE NoRun
         /\ Admits' <=> row.status = "active"
         /\ [s \in Runs |-> run[s].generation]' = [s \in Runs |-> run[s].generation]
         /\ row.cancel = run[r].cancel =>
              {s \in Runs : run[s].cancel}' = {s \in Runs : run[s].cancel}
         /\ row.cancel =>
              {s \in Runs : run[s].cancel}' = {s \in Runs : run[s].cancel} \cup {r}
         /\ row.status \notin {"cancelled", "failed"} => Closed' = Closed
         /\ row.status \in {"cancelled", "failed"} => Closed' = Closed \cup {r}
<1> USE DEF OwnershipInv, TypeOK
<1>1. \A s \in Runs : run'[s] = IF s = r THEN row ELSE run[s]
  OBVIOUS
<1>2. run[r].status \in BusyStates
  BY DEF OwnedStates, BusyStates
<1>3. \A s \in Runs : run[s].status \in BusyStates => s = r
  BY <1>2 DEF WorkspaceExclusive
<1>4. OccupantIn(run) = r
  BY <1>2, <1>3, OccupantIsBusyRun
<1>5. OccupantIn(run') = IF row.status \in BusyStates THEN r ELSE NoRun
  <2>1. CASE row.status \in BusyStates
    BY <1>1, <1>3, <2>1, OccupantIsBusyRun
  <2>2. CASE row.status \notin BusyStates
    BY <1>1, <1>3, <2>2, OccupantIsNone
  <2> QED BY <2>1, <2>2
<1>6. OccupantIn(run)' = OccupantIn(run')
  BY DEF OccupantIn
<1>7. Admits' <=> row.status = "active"
  BY <1>1, <1>3 DEF Admits, BusyStates
<1>8. [s \in Runs |-> run[s].generation]' = [s \in Runs |-> run[s].generation]
  BY <1>1
<1>9. ASSUME row.cancel = run[r].cancel
      PROVE  {s \in Runs : run[s].cancel}' = {s \in Runs : run[s].cancel}
  BY <1>1, <1>9
<1>10. ASSUME row.cancel
       PROVE  {s \in Runs : run[s].cancel}' = {s \in Runs : run[s].cancel} \cup {r}
  BY <1>1, <1>10
<1>11. ASSUME row.status \notin {"cancelled", "failed"} PROVE Closed' = Closed
  BY <1>1, <1>2, <1>11 DEF Closed, BusyStates
<1>12. ASSUME row.status \in {"cancelled", "failed"} PROVE Closed' = Closed \cup {r}
  BY <1>1, <1>12 DEF Closed
<1> QED BY <1>4, <1>5, <1>6, <1>7, <1>8, <1>9, <1>10, <1>11, <1>12

LEMMA AcquireTakes ==
  ASSUME OwnershipInv, OwnershipInv', NEW p \in Procs, NEW r \in Runs, Acquire(p, r)
  PROVE  Fence!Take(r)
<1> USE DEF OwnershipInv, TypeOK
<1> DEFINE g == run[r].generation + 1
<1>1. \A s \in Runs : run'[s] = IF s = r
        THEN [status |-> "reconciling", generation |-> g, token |-> g,
              live |-> TRUE, cancel |-> run[r].cancel]
        ELSE run[s]
  BY DEF Acquire
<1>2. \A s \in Runs : run[s].status \in BusyStates => s = r
  BY DEF Acquire, WorkspaceFree
<1>3. OccupantIn(run) \in {NoRun, r}
  <2>1. CASE run[r].status \in BusyStates
    BY <1>2, <2>1, OccupantIsBusyRun
  <2>2. CASE run[r].status \notin BusyStates
    BY <1>2, <2>2, OccupantIsNone
  <2> QED BY <2>1, <2>2
<1>4. OccupantIn(run') = r
  BY <1>1, <1>2, OccupantIsBusyRun DEF BusyStates
<1>5. OccupantIn(run)' = OccupantIn(run')
  BY DEF OccupantIn
<1>6. r \notin Closed /\ Closed' = Closed
  BY <1>1 DEF Closed, Acquire, Takeable
<1>7. ~Admits'
  BY <1>1, <1>2 DEF Admits, BusyStates
<1>8. run[r].generation < MaxGen
  BY DEF Acquire
<1>9. [s \in Runs |-> run[s].generation]'
        = [[s \in Runs |-> run[s].generation] EXCEPT ![r] = @ + 1]
  <2>1. \A s \in Runs : run'[s].generation = IF s = r THEN run[r].generation + 1
                                              ELSE run[s].generation
    BY <1>1
  <2> QED BY <2>1
<1>10. {s \in Runs : run[s].cancel}' = {s \in Runs : run[s].cancel}
  BY <1>1
<1> QED BY <1>3, <1>4, <1>5, <1>6, <1>7, <1>8, <1>9, <1>10 DEF Fence!Take, Admits, Closed

LEMMA OwnerStepFence ==
  ASSUME OwnershipInv, OwnershipInv', NEW p \in Procs, NEW r \in Runs, OwnerStep(p, r)
  PROVE  [Fence!Next]_Fence!vars
<1> USE DEF OwnershipInv, TypeOK
<1>0. run[r] \in RunRow
  OBVIOUS
<1>a. Owns(p, r) => run[r].status \in OwnedStates
  BY DEF Owns, FencedRunHasNoOwner
<1>b. NoRun \notin Runs /\ r # NoRun
  OBVIOUS
<1>1. CASE Acquire(p, r)
  BY <1>1, AcquireTakes DEF Fence!Next
<1>2. CASE Activate(p, r)
  <2> DEFINE row == [run[r] EXCEPT !.status = "active"]
  <2>1. run' = [run EXCEPT ![r] = row] /\ row.generation = run[r].generation
    BY <1>0, <1>2 DEF Activate, RunRow
  <2>2. row.status = "active" /\ ~row.cancel /\ ~run[r].cancel
    BY <1>0, <1>2 DEF Activate, RunRow
  <2>3. run[r].status \in OwnedStates
    BY <1>a, <1>2 DEF Activate
  <2> HIDE DEF row
  <2>4. /\ OccupantIn(run) = r /\ OccupantIn(run)' = r /\ Admits'
        /\ [s \in Runs |-> run[s].generation]' = [s \in Runs |-> run[s].generation]
        /\ {s \in Runs : run[s].cancel}' = {s \in Runs : run[s].cancel}
        /\ Closed' = Closed
    BY <2>1, <2>2, <2>3, OccupantStep DEF BusyStates
  <2>5. Fence!Open
    BY <1>b, <2>2, <2>4 DEF Fence!Open, Admits, Closed
  <2> QED BY <2>5 DEF Fence!Next
<1>3. CASE Heartbeat(p, r)
  BY <1>3, InvisibleStep DEF Heartbeat, vars
<1>4. CASE RequestCancel(p, r)
  <2> DEFINE row == [run[r] EXCEPT !.status = "cancel_requested", !.cancel = TRUE]
  <2>1. run' = [run EXCEPT ![r] = row] /\ row.generation = run[r].generation
    BY <1>0, <1>4 DEF RequestCancel, RunRow
  <2>2. row.status = "cancel_requested" /\ row.cancel
    BY <1>0 DEF RunRow
  <2>3. run[r].status \in OwnedStates
    BY <1>a, <1>4 DEF RequestCancel
  <2> HIDE DEF row
  <2>4. /\ OccupantIn(run) = r /\ OccupantIn(run)' = r /\ ~Admits'
        /\ [s \in Runs |-> run[s].generation]' = [s \in Runs |-> run[s].generation]
        /\ {s \in Runs : run[s].cancel}' = {s \in Runs : run[s].cancel} \cup {r}
        /\ Closed' = Closed
    BY <2>1, <2>2, <2>3, OccupantStep DEF BusyStates
  <2>5. Fence!Ask
    BY <1>b, <2>4 DEF Fence!Ask, Admits, Closed
  <2> QED BY <2>5 DEF Fence!Next
<1>5. CASE BeginCancelling(p, r)
  <2> DEFINE row == [run[r] EXCEPT !.status = "cancelling"]
  <2>1. run' = [run EXCEPT ![r] = row] /\ row.generation = run[r].generation
    BY <1>0, <1>5 DEF BeginCancelling, RunRow
  <2>2. row.status = "cancelling" /\ row.cancel = run[r].cancel
    BY <1>0 DEF RunRow
  <2>3. run[r].status \in OwnedStates
    BY <1>a, <1>5 DEF BeginCancelling
  <2> HIDE DEF row
  <2>4. /\ OccupantIn(run)' = OccupantIn(run) /\ ~Admits'
        /\ [s \in Runs |-> run[s].generation]' = [s \in Runs |-> run[s].generation]
        /\ {s \in Runs : run[s].cancel}' = {s \in Runs : run[s].cancel}
        /\ Closed' = Closed
    BY <2>1, <2>2, <2>3, OccupantStep DEF BusyStates
  <2>5. Fence!Shut
    BY <2>4 DEF Fence!Shut, Admits, Closed
  <2> QED BY <2>5 DEF Fence!Next
\* finish and mark_recovery_required: the occupant leaves or stays shut.
<1>6. ASSUME NEW status \in EndStates \cup {"recovery_required"}, Owns(p, r),
             FenceOff(r, status)
      PROVE  [Fence!Next]_Fence!vars
  <2> DEFINE row == [status |-> status, generation |-> run[r].generation,
                     token |-> 0, live |-> FALSE, cancel |-> run[r].cancel]
  <2>1. run' = [run EXCEPT ![r] = row] /\ row.generation = run[r].generation
    BY <1>6 DEF FenceOff
  <2>2. row.status = status /\ row.cancel = run[r].cancel
    OBVIOUS
  <2>3. run[r].status \in OwnedStates
    BY <1>a, <1>6
  <2> HIDE DEF row
  <2>4. /\ OccupantIn(run) = r
        /\ OccupantIn(run)' = IF status \in BusyStates THEN r ELSE NoRun
        /\ Admits' <=> status = "active"
        /\ [s \in Runs |-> run[s].generation]' = [s \in Runs |-> run[s].generation]
        /\ {s \in Runs : run[s].cancel}' = {s \in Runs : run[s].cancel}
        /\ Closed' = Closed \/ Closed' = Closed \cup {r}
    BY <2>1, <2>2, <2>3, OccupantStep
  <2>5. ~Admits'
    BY <2>4 DEF EndStates
  <2>6. CASE status = "recovery_required"
    <3>1. OccupantIn(run)' = OccupantIn(run)
      BY <2>4, <2>6 DEF BusyStates
    <3>2. Closed' = Closed
      BY <2>1, <2>2, <2>3, <2>6, OccupantStep
    <3>3. Fence!Shut
      BY <2>4, <2>5, <3>1, <3>2 DEF Fence!Shut, Admits, Closed
    <3> QED BY <3>3 DEF Fence!Next
  <2>7. CASE status \in EndStates
    <3>1. OccupantIn(run)' = NoRun
      BY <2>4, <2>7 DEF EndStates, BusyStates
    <3>2. Closed' = Closed \/ Closed' = Closed \cup {r}
      BY <2>4
    <3>3. Fence!Leave
      BY <1>b, <2>4, <2>5, <3>1, <3>2 DEF Fence!Leave, Admits, Closed
    <3> QED BY <3>3 DEF Fence!Next
  <2> QED BY <2>6, <2>7
<1>7. CASE MarkRecoveryRequired(p, r)
  BY <1>6, <1>7 DEF MarkRecoveryRequired
<1>8. ASSUME NEW status \in EndStates \cup {"recovery_required"}, Finish(p, r, status)
      PROVE  [Fence!Next]_Fence!vars
  BY <1>6, <1>8 DEF Finish
<1> QED BY <1>1, <1>2, <1>3, <1>4, <1>5, <1>7, <1>8 DEF OwnerStep

LEMMA StepFence ==
  ASSUME OwnershipInv, OwnershipInv', [Next]_vars
  PROVE  [Fence!Next]_Fence!vars
<1>1. ASSUME NEW p \in Procs, NEW r \in Runs, OwnerStep(p, r)
      PROVE  [Fence!Next]_Fence!vars
  BY <1>1, OwnerStepFence
<1>2. ASSUME NEW p \in Procs, NEW r \in Runs, ResourceStep(p, r)
      PROVE  [Fence!Next]_Fence!vars
  BY <1>2, InvisibleStep DEF ResourceStep, RegisterResource, TransitionResource
<1>3. ASSUME NEW r \in Runs, Retire(r) PROVE [Fence!Next]_Fence!vars
  BY <1>3, InvisibleStep DEF Retire
<1>4. ASSUME NEW r \in Runs, Expire(r) PROVE [Fence!Next]_Fence!vars
  BY <1>4, InvisibleStep DEF Expire, OwnershipInv, TypeOK, RunRow
<1>5. ASSUME NEW p \in Procs, Crash(p) PROVE [Fence!Next]_Fence!vars
  BY <1>5, InvisibleStep DEF Crash
<1>6. CASE UNCHANGED vars
  BY <1>6, InvisibleStep DEF vars
<1> QED BY <1>1, <1>2, <1>3, <1>4, <1>5, <1>6 DEF Next

\* The registry implements WorkspaceFence: one occupant of the workspace,
\* monotone epochs, cancellations that are never forgotten, closed runs that
\* never come back.
THEOREM RegistryImplementsFence == Spec => ImplementsFence
  BY InitFence, OwnershipCorrect, StepFence, PTL DEF Spec, ImplementsFence, Fence!Spec

-----------------------------------------------------------------------------
(* Facts about the sums of the models (MapThenSumSet of the community       *)
(* modules), for every finite set: what a sum is after one of its terms     *)
(* changed, and what it is of two disjoint sets.  They are here for the     *)
(* modules above this one.                                                  *)
(*                                                                          *)
(* The induction theorems of the library take an operator, which the        *)
(* provers do not instantiate.  Here an induction is over a set of naturals *)
(* or of subsets, and rests on minimal elements (WFMin).                    *)

LEMMA NaturalInduction ==
  ASSUME NEW X, 0 \in X, \A n \in Nat : n \in X => n + 1 \in X
  PROVE  Nat \subseteq X
<1> DEFINE Bad == {n \in Nat : n \notin X}
<1> SUFFICES ASSUME Bad # {} PROVE FALSE
  OBVIOUS
<1>1. PICK n \in Bad : \A m \in Bad : ~ (<<m, n>> \in OpToRel(<, Nat))
  BY NatLessThanWellFounded, WFMin
<1>2. n \in Nat /\ n - 1 \in Nat
  BY SMT
<1>3. <<n - 1, n>> \in OpToRel(<, Nat)
  BY <1>2 DEF OpToRel
<1>4. n - 1 \notin Bad
  BY <1>1, <1>3
<1> QED BY <1>2, <1>4

LEMMA SubsetInduction ==
  ASSUME NEW S, IsFiniteSet(S), NEW X, {} \in X,
         \A T \in SUBSET S : (\A x \in T : T \ {x} \in X) => T \in X
  PROVE  SUBSET S \subseteq X
<1> DEFINE Bad == {T \in SUBSET S : T \notin X}
<1> SUFFICES ASSUME Bad # {} PROVE FALSE
  OBVIOUS
<1>1. IsWellFoundedOn(StrictSubsetOrdering(S), SUBSET S)
  <2>1. FiniteSubsetsOf(S) = SUBSET S
    BY FS_FiniteSubsetsOfFinite
  <2>2. IsWellFoundedOn(StrictSubsetOrdering(S), FiniteSubsetsOf(S))
    BY FS_StrictSubsetOrderingWellFounded
  <2> QED BY <2>1, <2>2
<1>2. Bad \subseteq SUBSET S
  OBVIOUS
<1>3. \E T \in Bad : \A U \in Bad : ~ (<<U, T>> \in StrictSubsetOrdering(S))
  <2> HIDE DEF Bad
  <2> QED BY <1>1, <1>2, WFMin
<1>4. PICK T \in Bad : \A U \in Bad : ~ (<<U, T>> \in StrictSubsetOrdering(S))
  BY <1>3
<1>5. \A x \in T : <<T \ {x}, T>> \in StrictSubsetOrdering(S)
  BY DEF StrictSubsetOrdering
<1>6. \A x \in T : T \ {x} \notin Bad
  BY <1>4, <1>5
<1> QED BY <1>4, <1>6

-----------------------------------------------------------------------------
(* The recursion behind a sum has a solution.                              *)

Chosen(s) == CHOOSE x \in s : TRUE
Body(f, g, s) == IF s = {} THEN 0 ELSE f[Chosen(s)] + g[s \ {Chosen(s)}]
Sums(f, S) == CHOOSE g : g = [s \in SUBSET S |-> Body(f, g, s)]

\* The sum of f over S, as the models write it.
SumOf(f, S) == MapThenSumSet(LAMBDA x : f[x], S)

LEMMA SumUnfold ==
  ASSUME NEW f, NEW S
  PROVE  SumOf(f, S) = Sums(f, S)[S]
  BY DEF SumOf, MapThenSumSet, MapThenFoldSet, Sums, Body, Chosen

LEMMA ChosenIsMember ==
  ASSUME NEW s, s # {}
  PROVE  Chosen(s) \in s
  BY DEF Chosen

LEMMA SumsExist ==
  ASSUME NEW f, NEW S, IsFiniteSet(S)
  PROVE  \A T \in SUBSET S : Sums(f, S)[T] = Body(f, Sums(f, S), T)
<1> DEFINE Upto(n) == {s \in SUBSET S : Cardinality(s) <= n}
           Solves(g, n) == g = [s \in Upto(n) |-> Body(f, g, s)]
           X == {n \in Nat : \E g : Solves(g, n)}
<1>0. \A s \in SUBSET S : IsFiniteSet(s) /\ Cardinality(s) \in Nat
  BY FS_Subset, FS_CardinalityType
<1>1. 0 \in X
  <2> DEFINE g == [s \in Upto(0) |-> 0]
  <2>1. \A s \in Upto(0) : s = {}
    BY <1>0, FS_EmptySet
  <2>2. Solves(g, 0)
    BY <2>1 DEF Body
  <2> QED BY <2>2
<1>2. ASSUME NEW n \in Nat, n \in X PROVE n + 1 \in X
  <2>1. PICK g : Solves(g, n)
    BY <1>2
  <2> DEFINE h == [s \in Upto(n + 1) |-> Body(f, g, s)]
  <2>2. ASSUME NEW s \in Upto(n + 1), s # {}
        PROVE  s \ {Chosen(s)} \in Upto(n)
    <3>1. Chosen(s) \in s /\ IsFiniteSet(s) /\ Cardinality(s) \in Nat /\ Cardinality(s) <= n + 1
      BY <1>0, <2>2, ChosenIsMember
    <3>2. Cardinality(s \ {Chosen(s)}) = Cardinality(s) - 1
      BY <3>1, FS_RemoveElement
    <3>3. s \ {Chosen(s)} \in SUBSET S
      OBVIOUS
    <3> QED BY <3>1, <3>2, <3>3
  <2>3. ASSUME NEW s \in Upto(n) PROVE s \in Upto(n + 1) /\ h[s] = g[s]
    <3>1. s \in Upto(n + 1)
      BY <1>0
    <3>2. g[s] = Body(f, g, s)
      BY <2>1
    <3> QED BY <3>1, <3>2
  <2>4. ASSUME NEW s \in Upto(n + 1) PROVE Body(f, g, s) = Body(f, h, s)
    <3>1. CASE s = {}
      BY <3>1 DEF Body
    <3>2. CASE s # {}
      <4>1. h[s \ {Chosen(s)}] = g[s \ {Chosen(s)}]
        BY <2>2, <2>3, <3>2
      <4> HIDE DEF h
      <4> QED BY <4>1, <3>2 DEF Body
    <3> QED BY <3>1, <3>2
  <2>5. Solves(h, n + 1)
    BY <2>4
  <2> HIDE DEF h, Solves
  <2> QED BY <2>5
<1>3. Cardinality(S) \in X
  <2> HIDE DEF X
  <2> QED BY <1>1, <1>2, <1>0, NaturalInduction
<1>4. Upto(Cardinality(S)) = SUBSET S
  BY FS_Subset
<1>5. PICK g : g = [s \in SUBSET S |-> Body(f, g, s)]
  BY <1>3, <1>4
<1> DEFINE sums == Sums(f, S)
<1>6. sums = [s \in SUBSET S |-> Body(f, sums, s)]
  <2> HIDE DEF Upto, Solves, X
  <2> QED BY <1>5 DEF Sums
<1>7. \A T \in SUBSET S : sums[T] = Body(f, sums, T)
  <2> HIDE DEF sums, Upto, Solves, X
  <2> QED BY <1>6
<1> QED BY <1>7

LEMMA SumsStep ==
  ASSUME NEW f, NEW S, IsFiniteSet(S), NEW T \in SUBSET S
  PROVE  Sums(f, S)[T] = IF T = {} THEN 0 ELSE f[Chosen(T)] + Sums(f, S)[T \ {Chosen(T)}]
  BY SumsExist DEF Body


\* A sum over T does not depend on the set in which T was first summed.
LEMMA SumOfSubset ==
  ASSUME NEW f, NEW S, IsFiniteSet(S), NEW T \in SUBSET S
  PROVE  SumOf(f, T) = Sums(f, S)[T]
<1> DEFINE X == {U \in SUBSET T : Sums(f, T)[U] = Sums(f, S)[U]}
<1>0. IsFiniteSet(T)
  BY FS_Subset
<1>1. {} \in X
  BY <1>0, SumsStep
<1>2. ASSUME NEW U \in SUBSET T, \A x \in U : U \ {x} \in X
      PROVE  U \in X
  <2>1. CASE U = {}
    BY <2>1, <1>1
  <2>2. CASE U # {}
    <3>1. U \ {Chosen(U)} \in X
      BY <1>2, <2>2, ChosenIsMember
    <3>2. Sums(f, T)[U] = f[Chosen(U)] + Sums(f, T)[U \ {Chosen(U)}]
      BY <1>0, <2>2, SumsStep
    <3>3. Sums(f, S)[U] = f[Chosen(U)] + Sums(f, S)[U \ {Chosen(U)}]
      BY <2>2, SumsStep
    <3> QED BY <3>1, <3>2, <3>3
  <2> QED BY <2>1, <2>2
<1>3. T \in X
  <2> HIDE DEF X
  <2> QED BY <1>0, <1>1, <1>2, SubsetInduction
<1> QED BY <1>3, SumUnfold

-----------------------------------------------------------------------------
(* The sum of integers.                                                    *)

LEMMA SumOfEmpty ==
  ASSUME NEW f
  PROVE  SumOf(f, {}) = 0
<1>1. IsFiniteSet({})
  BY FS_EmptySet
<1>2. {} \in SUBSET {}
  OBVIOUS
<1>3. SumOf(f, {}) = Sums(f, {})[{}]
  BY SumUnfold
<1> QED BY <1>1, <1>2, <1>3, SumsStep

LEMMA SumOfChosen ==
  ASSUME NEW f, NEW S, IsFiniteSet(S), S # {}
  PROVE  SumOf(f, S) = f[Chosen(S)] + SumOf(f, S \ {Chosen(S)})
<1>1. SumOf(f, S) = Sums(f, S)[S]
  BY SumUnfold
<1>2. Sums(f, S)[S] = f[Chosen(S)] + Sums(f, S)[S \ {Chosen(S)}]
  BY SumsStep
<1>3. SumOf(f, S \ {Chosen(S)}) = Sums(f, S)[S \ {Chosen(S)}]
  BY SumOfSubset
<1> QED BY <1>1, <1>2, <1>3

LEMMA SumOfType ==
  ASSUME NEW f, NEW S, IsFiniteSet(S), \A x \in S : f[x] \in Int
  PROVE  \A T \in SUBSET S : SumOf(f, T) \in Int
<1> DEFINE X == {T \in SUBSET S : SumOf(f, T) \in Int}
<1>1. {} \in X
  BY SumOfEmpty
<1>2. ASSUME NEW T \in SUBSET S, \A x \in T : T \ {x} \in X
      PROVE  T \in X
  <2>1. CASE T = {}
    BY <2>1, <1>1
  <2>2. CASE T # {}
    <3>0. IsFiniteSet(T)
      BY FS_Subset
    <3>1. Chosen(T) \in T
      BY <2>2, ChosenIsMember
    <3>2. SumOf(f, T) = f[Chosen(T)] + SumOf(f, T \ {Chosen(T)})
      BY <3>0, <2>2, SumOfChosen
    <3>3. SumOf(f, T \ {Chosen(T)}) \in Int
      BY <1>2, <3>1
    <3> QED BY <3>1, <3>2, <3>3
  <2> QED BY <2>1, <2>2
<1>3. SUBSET S \subseteq X
  <2> HIDE DEF X
  <2> QED BY <1>1, <1>2, SubsetInduction
<1> QED BY <1>3

LEMMA SumOfNaturals ==
  ASSUME NEW f, NEW S, IsFiniteSet(S), \A x \in S : f[x] \in Nat
  PROVE  SumOf(f, S) \in Nat
<1> DEFINE X == {T \in SUBSET S : SumOf(f, T) \in Nat}
<1>1. {} \in X
  BY SumOfEmpty
<1>2. ASSUME NEW T \in SUBSET S, \A x \in T : T \ {x} \in X
      PROVE  T \in X
  <2>1. CASE T = {}
    BY <2>1, <1>1
  <2>2. CASE T # {}
    <3>0. IsFiniteSet(T) /\ Chosen(T) \in T
      BY <2>2, FS_Subset, ChosenIsMember
    <3>1. SumOf(f, T) = f[Chosen(T)] + SumOf(f, T \ {Chosen(T)})
      BY <3>0, <2>2, SumOfChosen
    <3>2. SumOf(f, T \ {Chosen(T)}) \in Nat
      BY <1>2, <3>0
    <3> QED BY <3>0, <3>1, <3>2
  <2> QED BY <2>1, <2>2
<1>3. S \in X
  <2> HIDE DEF X
  <2> QED BY <1>1, <1>2, SubsetInduction
<1> QED BY <1>3

\* Any term can be taken out first.
LEMMA SumOfTake ==
  ASSUME NEW f, NEW S, IsFiniteSet(S), \A x \in S : f[x] \in Int
  PROVE  \A T \in SUBSET S : \A x \in T : SumOf(f, T) = f[x] + SumOf(f, T \ {x})
<1> DEFINE X == {T \in SUBSET S : \A x \in T : SumOf(f, T) = f[x] + SumOf(f, T \ {x})}
<1>0. \A T \in SUBSET S : IsFiniteSet(T) /\ SumOf(f, T) \in Int
  BY FS_Subset, SumOfType
<1>1. {} \in X
  OBVIOUS
<1>2. ASSUME NEW T \in SUBSET S, \A x \in T : T \ {x} \in X
      PROVE  T \in X
  <2> SUFFICES ASSUME NEW x \in T PROVE SumOf(f, T) = f[x] + SumOf(f, T \ {x})
    OBVIOUS
  <2> DEFINE y == Chosen(T)
  <2>1. y \in T
    BY ChosenIsMember
  <2>2. SumOf(f, T) = f[y] + SumOf(f, T \ {y})
    BY <1>0, SumOfChosen
  <2> HIDE DEF y
  <2>3. CASE x = y
    BY <2>2, <2>3
  <2>4. CASE x # y
    <3>1. x \in T \ {y} /\ y \in T \ {x}
      BY <2>1, <2>4
    <3> DEFINE rest == SumOf(f, (T \ {x}) \ {y})
    <3>2. SumOf(f, T \ {y}) = f[x] + rest
      <4>1. (T \ {y}) \ {x} = (T \ {x}) \ {y}
        OBVIOUS
      <4> QED BY <4>1, <1>2, <2>1, <3>1
    <3>3. SumOf(f, T \ {x}) = f[y] + rest
      BY <1>2, <3>1
    <3>4. rest \in Int /\ f[x] \in Int /\ f[y] \in Int
      BY <1>0, <2>1
    <3> HIDE DEF rest
    <3>5. SumOf(f, T) = f[y] + (f[x] + rest)
      BY <2>2, <3>2
    <3>6. f[y] + (f[x] + rest) = f[x] + (f[y] + rest)
      BY <3>4
    <3> QED BY <3>3, <3>5, <3>6
  <2> QED BY <2>3, <2>4
<1>3. SUBSET S \subseteq X
  <2> HIDE DEF X
  <2> QED BY <1>1, <1>2, SubsetInduction
<1> QED BY <1>3

LEMMA SumOfSame ==
  ASSUME NEW f, NEW g, NEW S, IsFiniteSet(S), \A x \in S : f[x] = g[x]
  PROVE  SumOf(f, S) = SumOf(g, S)
<1> DEFINE X == {T \in SUBSET S : SumOf(f, T) = SumOf(g, T)}
<1>1. {} \in X
  BY SumOfEmpty
<1>2. ASSUME NEW T \in SUBSET S, \A x \in T : T \ {x} \in X
      PROVE  T \in X
  <2>1. CASE T = {}
    BY <2>1, <1>1
  <2>2. CASE T # {}
    <3>0. IsFiniteSet(T) /\ Chosen(T) \in T
      BY <2>2, FS_Subset, ChosenIsMember
    <3>1. SumOf(f, T) = f[Chosen(T)] + SumOf(f, T \ {Chosen(T)})
      BY <3>0, <2>2, SumOfChosen
    <3>2. SumOf(g, T) = g[Chosen(T)] + SumOf(g, T \ {Chosen(T)})
      BY <3>0, <2>2, SumOfChosen
    <3>3. SumOf(f, T \ {Chosen(T)}) = SumOf(g, T \ {Chosen(T)})
      BY <1>2, <3>0
    <3>4. f[Chosen(T)] = g[Chosen(T)]
      BY <3>0
    <3> QED BY <3>1, <3>2, <3>3, <3>4
  <2> QED BY <2>1, <2>2
<1>3. S \in X
  <2> HIDE DEF X
  <2> QED BY <1>1, <1>2, SubsetInduction
<1> QED BY <1>3

\* One term changes.
LEMMA SumOfChange ==
  ASSUME NEW f, NEW g, NEW S, IsFiniteSet(S), NEW c \in S,
         \A x \in S : f[x] \in Int /\ g[x] \in Int,
         \A x \in S \ {c} : f[x] = g[x]
  PROVE  SumOf(g, S) = SumOf(f, S) - f[c] + g[c]
<1>0. S \in SUBSET S /\ S \ {c} \in SUBSET S /\ IsFiniteSet(S \ {c})
  BY FS_Subset
<1>1. SumOf(f, S) = f[c] + SumOf(f, S \ {c})
  BY <1>0, SumOfTake
<1>2. SumOf(g, S) = g[c] + SumOf(g, S \ {c})
  BY <1>0, SumOfTake
<1>3. SumOf(f, S \ {c}) = SumOf(g, S \ {c})
  BY <1>0, SumOfSame
<1>4. SumOf(f, S \ {c}) \in Int /\ f[c] \in Int /\ g[c] \in Int
  BY <1>0, SumOfType
<1> QED BY <1>1, <1>2, <1>3, <1>4

LEMMA SumOfZeros ==
  ASSUME NEW f, NEW S, IsFiniteSet(S), \A x \in S : f[x] = 0
  PROVE  SumOf(f, S) = 0
<1> DEFINE X == {T \in SUBSET S : SumOf(f, T) = 0}
<1>1. {} \in X
  BY SumOfEmpty
<1>2. ASSUME NEW T \in SUBSET S, \A x \in T : T \ {x} \in X
      PROVE  T \in X
  <2>1. CASE T = {}
    BY <2>1, <1>1
  <2>2. CASE T # {}
    <3>0. IsFiniteSet(T) /\ Chosen(T) \in T
      BY <2>2, FS_Subset, ChosenIsMember
    <3>1. SumOf(f, T) = f[Chosen(T)] + SumOf(f, T \ {Chosen(T)})
      BY <3>0, <2>2, SumOfChosen
    <3>2. SumOf(f, T \ {Chosen(T)}) = 0
      BY <1>2, <3>0
    <3> QED BY <3>0, <3>1, <3>2
  <2> QED BY <2>1, <2>2
<1>3. S \in X
  <2> HIDE DEF X
  <2> QED BY <1>1, <1>2, SubsetInduction
<1> QED BY <1>3

LEMMA SumOfLess ==
  ASSUME NEW f, NEW g, NEW S, IsFiniteSet(S),
         \A x \in S : f[x] \in Int /\ g[x] \in Int /\ f[x] <= g[x]
  PROVE  SumOf(f, S) <= SumOf(g, S)
<1> DEFINE X == {T \in SUBSET S : SumOf(f, T) <= SumOf(g, T)}
<1>0. \A T \in SUBSET S : SumOf(f, T) \in Int /\ SumOf(g, T) \in Int
  BY SumOfType
<1>1. {} \in X
  BY SumOfEmpty
<1>2. ASSUME NEW T \in SUBSET S, \A x \in T : T \ {x} \in X
      PROVE  T \in X
  <2>1. CASE T = {}
    BY <2>1, <1>1
  <2>2. CASE T # {}
    <3> DEFINE x == Chosen(T)
               a == SumOf(f, T \ {x})
               b == SumOf(g, T \ {x})
    <3>0. IsFiniteSet(T) /\ x \in T
      BY <2>2, FS_Subset, ChosenIsMember
    <3>1. SumOf(f, T) = f[x] + a /\ SumOf(g, T) = g[x] + b
      BY <3>0, <2>2, SumOfChosen
    <3>2. a <= b /\ a \in Int /\ b \in Int
      BY <1>0, <1>2, <3>0
    <3>3. f[x] \in Int /\ g[x] \in Int /\ f[x] <= g[x]
      BY <3>0
    <3> HIDE DEF a, b, x
    <3>4. f[x] + a <= g[x] + b
      BY <3>2, <3>3
    <3> QED BY <3>1, <3>4
  <2> QED BY <2>1, <2>2
<1>3. S \in X
  <2> HIDE DEF X
  <2> QED BY <1>1, <1>2, SubsetInduction
<1> QED BY <1>3

LEMMA SumOfConstant ==
  ASSUME NEW f, NEW S, IsFiniteSet(S), NEW k \in Int, \A x \in S : f[x] = k
  PROVE  SumOf(f, S) = Cardinality(S) * k
<1> DEFINE X == {T \in SUBSET S : SumOf(f, T) = Cardinality(T) * k}
<1>1. {} \in X
  <2>1. Cardinality({}) = 0 /\ 0 * k = 0
    BY FS_EmptySet
  <2> QED BY <2>1, SumOfEmpty
<1>2. ASSUME NEW T \in SUBSET S, \A x \in T : T \ {x} \in X
      PROVE  T \in X
  <2>1. CASE T = {}
    BY <2>1, <1>1
  <2>2. CASE T # {}
    <3> DEFINE x == Chosen(T)
               n == Cardinality(T \ {x})
    <3>0. IsFiniteSet(T) /\ x \in T
      BY <2>2, FS_Subset, ChosenIsMember
    <3>1. SumOf(f, T) = f[x] + SumOf(f, T \ {x}) /\ f[x] = k
      BY <3>0, <2>2, SumOfChosen
    <3>2. SumOf(f, T \ {x}) = n * k
      BY <1>2, <3>0
    <3>3. n \in Nat /\ Cardinality(T) = n + 1
      <4>1. /\ IsFiniteSet(T \ {x}) /\ Cardinality(T \ {x}) = Cardinality(T) - 1
        BY <3>0, FS_RemoveElement
      <4>2. Cardinality(T) \in Nat /\ n \in Nat
        BY <3>0, <4>1, FS_CardinalityType
      <4> QED BY <4>1, <4>2
    <3> HIDE DEF n, x
    <3>4. k + n * k = (n + 1) * k
      BY <3>3
    <3> QED BY <3>1, <3>2, <3>3, <3>4
  <2> QED BY <2>1, <2>2
<1>3. S \in X
  <2> HIDE DEF X
  <2> QED BY <1>1, <1>2, SubsetInduction
<1> QED BY <1>3

\* The terms of a subset, which were zero, are filled in from elsewhere.
LEMMA SumOfFill ==
  ASSUME NEW f, NEW g, NEW h, NEW S, IsFiniteSet(S), NEW M \in SUBSET S,
         \A x \in S : f[x] \in Int /\ g[x] \in Int,
         \A x \in M : f[x] = 0 /\ h[x] = g[x],
         \A x \in S \ M : h[x] = f[x]
  PROVE  SumOf(h, S) = SumOf(f, S) + SumOf(g, M)
<1> DEFINE X == {T \in SUBSET S : SumOf(h, T) = SumOf(f, T) + SumOf(g, T \cap M)}
<1>0. \A T \in SUBSET S : /\ IsFiniteSet(T) /\ T \cap M \in SUBSET S
                          /\ SumOf(f, T) \in Int /\ SumOf(g, T) \in Int
  BY FS_Subset, SumOfType
<1>1. {} \in X
  <2>1. {} \cap M = {} /\ SumOf(f, {}) = 0 /\ SumOf(g, {}) = 0 /\ SumOf(h, {}) = 0
    BY SumOfEmpty
  <2> QED BY <2>1
<1>2. ASSUME NEW T \in SUBSET S, \A x \in T : T \ {x} \in X
      PROVE  T \in X
  <2>1. CASE T = {}
    BY <2>1, <1>1
  <2>2. CASE T # {}
    <3> DEFINE x == Chosen(T)
               U == T \ {x}
    <3>1. x \in T /\ U \in SUBSET S /\ IsFiniteSet(T)
      BY <2>2, <1>0, ChosenIsMember
    <3>2. SumOf(h, T) = h[x] + SumOf(h, U)
      BY <3>1, <2>2, SumOfChosen
    <3>3. SumOf(f, T) = f[x] + SumOf(f, U)
      BY <3>1, <2>2, SumOfChosen
    <3> HIDE DEF x
    <3>4. SumOf(h, U) = SumOf(f, U) + SumOf(g, U \cap M)
      BY <1>2, <3>1
    <3>5. SumOf(f, U) \in Int /\ SumOf(g, U \cap M) \in Int /\ f[x] \in Int /\ g[x] \in Int
      BY <1>0, <3>1
    <3>6. CASE x \in M
      <4>1. x \in T \cap M /\ (T \cap M) \ {x} = U \cap M
        BY <3>1, <3>6
      <4>2. SumOf(g, T \cap M) = g[x] + SumOf(g, (T \cap M) \ {x})
        BY <4>1, <1>0, SumOfTake
      <4>3. f[x] = 0 /\ h[x] = g[x]
        BY <3>6
      <4> DEFINE a == SumOf(f, U)
                 b == SumOf(g, U \cap M)
      <4>4. /\ SumOf(h, T) = g[x] + (a + b)
            /\ SumOf(f, T) = 0 + a
            /\ SumOf(g, T \cap M) = g[x] + b
        BY <3>2, <3>3, <3>4, <4>1, <4>2, <4>3
      <4>5. a \in Int /\ b \in Int /\ g[x] \in Int
        BY <3>5
      <4> HIDE DEF a, b
      <4>6. g[x] + (a + b) = (0 + a) + (g[x] + b)
        BY <4>5
      <4> QED BY <4>4, <4>6
    <3>7. CASE x \notin M
      <4>1. T \cap M = U \cap M
        BY <3>7
      <4>2. h[x] = f[x]
        BY <3>1, <3>7
      <4> DEFINE a == SumOf(f, U)
                 b == SumOf(g, U \cap M)
      <4>3. /\ SumOf(h, T) = f[x] + (a + b)
            /\ SumOf(f, T) = f[x] + a
            /\ SumOf(g, T \cap M) = b
        BY <3>2, <3>3, <3>4, <4>1, <4>2
      <4>4. a \in Int /\ b \in Int /\ f[x] \in Int
        BY <3>5
      <4> HIDE DEF a, b
      <4>5. f[x] + (a + b) = (f[x] + a) + b
        BY <4>4
      <4> QED BY <4>3, <4>5
    <3> QED BY <3>6, <3>7
  <2> QED BY <2>1, <2>2
<1>3. S \in X
  <2> HIDE DEF X
  <2> QED BY <1>1, <1>2, SubsetInduction
<1>4. S \cap M = M
  OBVIOUS
<1> QED BY <1>3, <1>4

=============================================================================
