-------------------------- MODULE ExplorationProofs --------------------------
(***************************************************************************)
(* Theorems about the explorations of a run, for every set of processes    *)
(* and tasks and every bound: tokens are charged once, an exploration has  *)
(* one worker at a time, the owner writes alone, and a lost worker will be *)
(* found to have ended.                                                    *)
(***************************************************************************)
EXTENDS ExplorationTasks, RunCoordinationProofs

-----------------------------------------------------------------------------
(* Types *)

OwnerRow ==
    [pc : OwnerSteps, todo : SUBSET Resources, queued : SUBSET Resources,
     item : Resources \cup {NoParent}, seen : {"none", "asked", "unknown"} \cup SettledStates,
     bad : BOOLEAN, writes : 0 .. MaxWrites]

\* The variables of this module, without the registry's.
LocalTypes ==
    /\ rec \in [Resources -> Row]
    /\ work \in [Procs -> [Resources -> Worker]]
    /\ own \in [Procs -> OwnerRow]
    /\ token \in [Procs -> {"live", "cancelled", "told"}]

\* An owner with an answer knows the task it is about.
ItemInv == \A p \in Procs : own[p].seen # "none" => own[p].item \in Resources

\* The account of a row: what its receipts say, and the reservation while it is open.
Account(row) == row.charged = row.paid + IF row.settled THEN 0 ELSE Budget

RowInv(x) ==
    /\ Account(rec[x])
    /\ rec[x].status = "absent" => rec[x].charged = 0 /\ rec[x].settled
    /\ rec[x].status \in {"running", "worker_lost"} => ~rec[x].clean
    /\ rec[x].status \in {"absent", "queued", "running"} => rec[x].ask = "none"
    /\ rec[x].lost <= rec[x].attempt /\ rec[x].by <= run[R].generation
    /\ rec[x].status = "running" => rec[x].lost # rec[x].attempt
    /\ rec[x].status = "worker_lost" => rec[x].lost = rec[x].attempt
    /\ rec[x].status \in {"worker_lost"} \cup Ended /\ rec[x].lost = rec[x].attempt =>
          rec[x].ask # "none"

\* A thread that has claimed its task.
Threaded(p, x) == work[p][x].pc \in {"exploring", "confirming"}

\* Such a thread belongs to the last attempt of the task, and the process of that attempt has
\* not exited; the task is not queued again before it has.
ThreadInv(p, x) ==
    /\ work[p][x].pc # "none" => lease[p][R] # 0 /\ rec[x].status # "absent"
    /\ Threaded(p, x) => /\ work[p][x].attempt = rec[x].attempt
                         /\ rec[x].by = lease[p][R] /\ rec[x].status # "queued"

WitnessInv(x) ==
    /\ rec[x].status \in {"running", "worker_lost"} => rec[x].by # 0
    /\ rec[x].status = "running" => Exited(rec[x].by) \/ \E p \in Procs : Exploring(p, x)
    /\ rec[x].status = "worker_lost" => Exited(rec[x].by) \/ \E p \in Procs : Threaded(p, x)

OwnerInv(p) ==
    /\ own[p].pc = "none" <=> lease[p][R] = 0
    /\ own[p].pc \in {"reconcile", "writing"} => Idle(p)
    /\ own[p].pc \in {"restore", "delegate"} =>
          \A x \in own[p].todo : work[p][x].pc = "none" /\ rec[x].status # "absent"

ExploreInv ==
    /\ OwnershipInv /\ LocalTypes /\ ItemInv
    /\ \A x \in Resources : RowInv(x) /\ WitnessInv(x)
    /\ \A p \in Procs, x \in Resources : ThreadInv(p, x)
    /\ \A p \in Procs : OwnerInv(p)

LEMMA TheRun == R \in Runs /\ \A r \in Runs : r = R
  BY ExplorationAssumption

LEMMA TypesSplit == ExploreTypeOK <=> TypeOK /\ LocalTypes
  BY DEF ExploreTypeOK, LocalTypes, OwnerRow

\* Every step takes the registry where one of its methods takes it.
LEMMA StepsOfTheRegistry == LocalTypes /\ ItemInv /\ [ExploreNext]_exploreVars => [Next]_vars
<1> SUFFICES ASSUME LocalTypes, ItemInv, ExploreNext PROVE [Next]_vars
  BY DEF exploreVars, registry, vars
<1>0. /\ UNCHANGED registry => [Next]_vars
      /\ \A p \in Procs : OwnerStep(p, R) \/ ResourceStep(p, R) => [Next]_vars
  BY TheRun DEF registry, vars, Next
<1>1. ASSUME NEW p \in Procs, NEW status \in EndStates \cup {"recovery_required"},
             Finish(p, R, status)
      PROVE  [Next]_vars
  BY <1>0, <1>1 DEF OwnerStep
<1>2. ASSUME NEW p \in Procs, OwnerStepOf(p) PROVE [Next]_vars
  <2>1. CASE Start(p)
    BY <1>0, <2>1 DEF Start, OwnerStep
  <2>2. CASE Look(p) \/ Restored(p) \/ BeginWrite(p) \/ Write(p) \/ Written(p) \/ Raise(p)
             \/ Skip(p) \/ CloseRuntime(p) \/ Joined(p) \/ LoseOwnership(p)
             \/ \E xs \in SUBSET Resources : Delegate(p, xs)
    BY <1>0, <2>2 DEF Look, Restored, BeginWrite, Write, Written, Raise, Skip, CloseRuntime,
       Joined, LoseOwnership, Delegate
  <2>3. CASE RecordRow(p)
    <3>1. own[p].item \in Resources
      BY <2>3 DEF RecordRow, ItemInv
    <3>2. own[p].seen \in ResourceStates
      BY <2>3 DEF RecordRow, LocalTypes, OwnerRow, SettledStates, ResourceStates
    <3>3. (IF own[p].seen = "unknown" THEN "unknown" ELSE "confirmed") \in Cleanups
      BY DEF Cleanups
    <3>4. (own[p].pc = "reconcile") \in BOOLEAN
      OBVIOUS
    <3> QED BY <1>0, <2>3, <3>1, <3>2, <3>3, <3>4 DEF RecordRow, ResourceStep
  <2>4. CASE EndReconcile(p)
    BY <1>0, <2>4 DEF EndReconcile, OwnerStep
  <2>5. CASE EnterCancel(p)
    BY <1>0, <2>5 DEF EnterCancel, OwnerStep
  <2>6. CASE EndCancel(p)
    BY <1>0, <1>1, <2>6 DEF EndCancel, OwnerStep, EndStates
  <2>7. CASE CloseBinding(p)
    BY <1>1, <2>7 DEF CloseBinding, EndStates
  <2>8. ASSUME NEW status \in {"released", "failed"}, Release(p, status) PROVE [Next]_vars
    BY <1>1, <2>8 DEF Release, EndStates
  <2>9. ASSUME NEW x \in Resources, StartWorker(p, x) PROVE [Next]_vars
    <3>1. UNCHANGED registry \/ RegisterResource(p, R, x, NoParent, FALSE)
      BY <2>9 DEF StartWorker
    <3>2. ASSUME RegisterResource(p, R, x, NoParent, FALSE) PROVE ResourceStep(p, R)
      BY <3>2 DEF ResourceStep
    <3> QED BY <1>0, <3>1, <3>2
  <2>10. ASSUME NEW x \in Resources, Inspect(p, x) \/ Ask(p, x) \/ Retry(p, x) \/ StartFails(p, x)
         PROVE  [Next]_vars
    BY <1>0, <2>10 DEF Inspect, Ask, Retry, StartFails
  <2> QED BY <1>2, <2>1, <2>2, <2>3, <2>4, <2>5, <2>6, <2>7, <2>8, <2>9, <2>10 DEF OwnerStepOf
<1>3. ASSUME NEW p \in Procs, Die(p) PROVE [Next]_vars
  BY <1>3 DEF Die, Next
<1>4. CASE LeaseExpires
  BY <1>4, TheRun DEF LeaseExpires, Next
<1>5. ASSUME NEW p \in Procs, Callback(p) \/ Cancel(p) PROVE [Next]_vars
  BY <1>0, <1>5 DEF Callback, Cancel
<1>6. ASSUME NEW p \in Procs, NEW x \in Resources, WorkerStep(p, x) \/ Watch(p, x)
      PROVE  [Next]_vars
  BY <1>0, <1>6 DEF WorkerStep, Abandon, Claim, Publish, Confirm, Watch
<1>7. ASSUME NEW x \in Resources, Deadline(x) PROVE [Next]_vars
  BY <1>0, <1>7 DEF Deadline
<1> QED BY <1>2, <1>3, <1>4, <1>5, <1>6, <1>7 DEF ExploreNext

-----------------------------------------------------------------------------
(* What a step does to a row *)

LEMMA Settles ==
  ASSUME NEW row \in Row, Account(row), NEW charge \in 0 .. Budget
  PROVE  /\ Settle(row, charge) \in Row /\ Account(Settle(row, charge))
         /\ Settle(row, charge).settled /\ Settle(row, charge).charged <= row.charged
         /\ Settle(row, charge).attempt = row.attempt /\ Settle(row, charge).by = row.by
         /\ Settle(row, charge).lost = row.lost /\ Settle(row, charge).ask = row.ask
<1>0. /\ row.charged \in Nat /\ row.paid \in Nat /\ charge \in Nat /\ charge <= Budget
      /\ Budget \in Nat
  BY ExplorationAssumption DEF Row
<1>1. CASE row.settled
  <2>1. Settle(row, charge) = row
    BY <1>1 DEF Settle
  <2> QED BY <1>0, <1>1, <2>1
<1>2. CASE ~row.settled
  <2> DEFINE charged == row.charged + charge - Budget
             paid == row.paid + charge
  <2>1. row.charged = row.paid + Budget
    BY <1>2 DEF Account
  <2>2. charged \in Nat /\ paid \in Nat /\ charged = paid /\ charged <= row.charged /\ paid = paid + 0
    BY <1>0, <2>1
  <2>3. Settle(row, charge) = [row EXCEPT !.settled = TRUE, !.charged = charged, !.paid = paid]
    BY <1>2 DEF Settle
  <2> HIDE DEF charged, paid
  <2> DEFINE new == [row EXCEPT !.settled = TRUE, !.charged = charged, !.paid = paid]
  <2>4. /\ new \in Row /\ new.settled /\ new.charged = charged /\ new.paid = paid
        /\ new.attempt = row.attempt /\ new.by = row.by /\ new.lost = row.lost
        /\ new.ask = row.ask
    BY <2>2 DEF Row
  <2>5. Account(new)
    BY <2>2, <2>4 DEF Account
  <2> QED BY <2>2, <2>3, <2>4, <2>5
<1> QED BY <1>1, <1>2

\* What invalidate_worker makes of a row.
LEMMA Invalidates ==
  ASSUME NEW x \in Resources, rec[x] \in Row, Account(rec[x]), IsActive(x),
         NEW reason \in Reasons, NEW stopped \in BOOLEAN,
         NEW row, row = Invalidated(x, reason, stopped)
  PROVE  /\ row \in Row /\ Account(row) /\ row.settled /\ row.charged <= rec[x].charged
         /\ row.ask = reason /\ row.lost = rec[x].attempt
         /\ row.attempt = rec[x].attempt /\ row.by = rec[x].by
         /\ row.clean = (rec[x].status = "queued" \/ stopped)
         /\ row.status = IF row.clean THEN reason ELSE "worker_lost"
<1> DEFINE charge == IF rec[x].status = "queued" THEN 0 ELSE Budget
           paid == Settle(rec[x], charge)
           gone == rec[x].status = "queued" \/ stopped
<1>1. charge \in 0 .. Budget
  BY ExplorationAssumption
<1>2. /\ paid \in Row /\ Account(paid) /\ paid.settled /\ paid.charged <= rec[x].charged
      /\ paid.attempt = rec[x].attempt /\ paid.by = rec[x].by
  <2> DEFINE row0 == rec[x]
  <2>1. row0 \in Row /\ Account(row0)
    OBVIOUS
  <2>2. paid = Settle(row0, charge)
    OBVIOUS
  <2> HIDE DEF charge, paid, row0
  <2>3. /\ paid \in Row /\ Account(paid) /\ paid.settled /\ paid.charged <= row0.charged
        /\ paid.attempt = row0.attempt /\ paid.by = row0.by
    BY <1>1, <2>1, <2>2, Settles
  <2> QED BY <2>3 DEF row0
<1>3. row = [paid EXCEPT !.ask = reason, !.lost = rec[x].attempt, !.clean = gone,
                         !.status = IF gone THEN reason ELSE "worker_lost"]
  BY DEF Invalidated
<1>4. rec[x].attempt \in 0 .. MaxAttempts /\ gone \in BOOLEAN
      /\ (IF gone THEN reason ELSE "worker_lost") \in {"absent"} \cup Active \cup Ended
  BY DEF Row, Active, Ended
<1> HIDE DEF paid, gone, charge
<1>5. /\ row \in Row /\ row.settled = paid.settled /\ row.charged = paid.charged
      /\ row.paid = paid.paid /\ row.attempt = paid.attempt /\ row.by = paid.by
      /\ row.ask = reason /\ row.lost = rec[x].attempt /\ row.clean = gone
      /\ row.status = IF gone THEN reason ELSE "worker_lost"
  BY <1>2, <1>3, <1>4 DEF Row
<1> QED BY <1>2, <1>5 DEF Account, gone

\* The ways in which the row of x changes.
Given(x, reason, stopped) ==
    IsActive(x) /\ rec'[x] = Invalidated(x, reason, stopped)

Claims(p, x) == Claim(p, x) /\ Claimable(x)
Publishes(p, x) == Publish(p, x) /\ ~Fenced(p, x)
Confirms(p, x) == Confirm(p, x) /\ rec[x].lost = work[p][x].attempt
Retries(p, x) == Retry(p, x) /\ rec[x].status \in {"running", "worker_lost"}

RowMove(x) ==
    \/ rec'[x] = rec[x]
    \/ Deadline(x)
    \/ \E reason \in Reasons : Given(x, reason, FALSE)
    \/ \E reason \in Reasons : /\ Given(x, reason, TRUE)
                               /\ \E p \in Procs : Abandon(p, x) \/ StartWorker(p, x) \/ StartFails(p, x)
    \/ \E p \in Procs : Claims(p, x) \/ Publishes(p, x) \/ Confirms(p, x) \/ Retries(p, x)
    \/ \E p \in Procs : \E xs \in SUBSET Resources : Delegate(p, xs) /\ x \in xs

LEMMA RowMoves ==
  ASSUME LocalTypes, ExploreNext, NEW x \in Resources
  PROVE  RowMove(x)
<1>0. rec \in [Resources -> Row] /\ work \in [Procs -> [Resources -> Worker]]
  BY DEF LocalTypes
<1>1. ASSUME NEW y \in Resources, NEW row, rec' = [rec EXCEPT ![y] = row], x # y
      PROVE  RowMove(x)
  BY <1>0, <1>1 DEF RowMove
<1>2. ASSUME NEW p \in Procs, CancelAll(p) PROVE RowMove(x)
  <2>1. rec'[x] = Invalidated(x, "cancelled", FALSE)
    BY <1>2 DEF CancelAll
  <2>2. ~IsActive(x) => rec'[x] = rec[x]
    BY <2>1 DEF Invalidated
  <2> QED BY <2>1, <2>2 DEF RowMove, Given, Reasons
<1>3. ASSUME NEW y \in Resources, NEW reason \in Reasons, NEW stopped \in BOOLEAN,
             Invalidate(y, reason, stopped),
             stopped => \E p \in Procs : Abandon(p, y) \/ StartWorker(p, y) \/ StartFails(p, y)
      PROVE  RowMove(x)
  <2>1. rec' = [rec EXCEPT ![y] = Invalidated(y, reason, stopped)]
    BY <1>3 DEF Invalidate
  <2>2. CASE x # y
    BY <1>1, <2>1, <2>2
  <2>3. CASE x = y
    <3>1. rec'[x] = Invalidated(x, reason, stopped)
      BY <1>0, <2>1, <2>3
    <3>2. ~IsActive(x) => rec'[x] = rec[x]
      BY <3>1 DEF Invalidated
    <3>3. CASE stopped
      BY <1>3, <2>3, <3>1, <3>2, <3>3 DEF RowMove, Given
    <3>4. CASE ~stopped
      BY <2>3, <3>1, <3>2, <3>4 DEF RowMove, Given
    <3> QED BY <3>3, <3>4
  <2> QED BY <2>2, <2>3
<1>4. CASE rec' = rec
  BY <1>4 DEF RowMove
<1>5. ASSUME NEW p \in Procs, NEW y \in Resources, WorkerStep(p, y) \/ Watch(p, y)
      PROVE  RowMove(x)
  <2>1. CASE Abandon(p, y)
    BY <1>3, <2>1 DEF Abandon, Reasons
  <2>2. CASE Watch(p, y)
    BY <1>3, <2>2 DEF Watch, Reasons
  <2>3. CASE Claim(p, y)
    <3>1. CASE Claimable(y) /\ x = y
      BY <2>3, <3>1 DEF RowMove, Claims
    <3>2. CASE ~Claimable(y)
      BY <1>4, <2>3, <3>2 DEF Claim
    <3>3. CASE Claimable(y) /\ x # y
      <4>1. rec'[x] = rec[x]
        BY <1>0, <2>3, <3>3 DEF Claim
      <4> QED BY <4>1 DEF RowMove
    <3> QED BY <3>1, <3>2, <3>3
  <2>4. CASE Publish(p, y)
    <3>1. CASE ~Fenced(p, y) /\ x = y
      BY <2>4, <3>1 DEF RowMove, Publishes
    <3>2. CASE Fenced(p, y)
      BY <1>4, <2>4, <3>2 DEF Publish
    <3>3. CASE ~Fenced(p, y) /\ x # y
      <4>1. rec'[x] = rec[x]
        BY <1>0, <2>4, <3>3 DEF Publish
      <4> QED BY <4>1 DEF RowMove
    <3> QED BY <3>1, <3>2, <3>3
  <2>5. CASE Confirm(p, y)
    <3>1. CASE rec[y].lost = work[p][y].attempt /\ x = y
      BY <2>5, <3>1 DEF RowMove, Confirms
    <3>2. CASE rec[y].lost # work[p][y].attempt \/ x # y
      <4>1. rec'[x] = rec[x]
        BY <1>0, <2>5, <3>2 DEF Confirm
      <4> QED BY <4>1 DEF RowMove
    <3> QED BY <3>1, <3>2
  <2> QED BY <1>5, <2>1, <2>2, <2>3, <2>4, <2>5 DEF WorkerStep
<1>6. ASSUME NEW p \in Procs, NEW y \in Resources, StartWorker(p, y) \/ StartFails(p, y)
      PROVE  RowMove(x)
  <2>1. rec' = rec \/ Invalidate(y, "cancelled", TRUE) \/ Invalidate(y, "failed", TRUE)
    BY <1>6 DEF StartWorker, StartFails
  <2> QED BY <1>3, <1>4, <1>6, <2>1 DEF Reasons
<1>7. ASSUME NEW p \in Procs, NEW y \in Resources, Retry(p, y) PROVE RowMove(x)
  <2>1. CASE rec[y].status \in {"running", "worker_lost"} /\ x = y
    BY <1>7, <2>1 DEF RowMove, Retries
  <2>2. CASE rec[y].status \notin {"running", "worker_lost"}
    BY <1>4, <1>7, <2>2 DEF Retry
  <2>3. CASE rec[y].status \in {"running", "worker_lost"} /\ x # y
    <3>1. PICK row : rec' = [rec EXCEPT ![y] = row]
      BY <1>7, <2>3 DEF Retry
    <3> QED BY <1>1, <2>3, <3>1
  <2> QED BY <2>1, <2>2, <2>3
<1>8. ASSUME NEW p \in Procs, NEW xs \in SUBSET Resources, Delegate(p, xs) PROVE RowMove(x)
  <2>1. CASE x \in xs
    BY <1>8, <2>1 DEF RowMove
  <2>2. CASE x \notin xs
    <3>1. rec'[x] = rec[x]
      BY <1>8, <2>2 DEF Delegate
    <3> QED BY <3>1 DEF RowMove
  <2> QED BY <2>1, <2>2
<1>9. ASSUME NEW p \in Procs, OwnerStepOf(p) PROVE RowMove(x)
  <2>1. CASE \/ Start(p) \/ Look(p) \/ RecordRow(p) \/ EndReconcile(p) \/ Restored(p)
             \/ Write(p) \/ Written(p) \/ Raise(p) \/ Skip(p) \/ EnterCancel(p) \/ EndCancel(p)
             \/ Joined(p) \/ CloseBinding(p) \/ LoseOwnership(p)
             \/ (\E y \in Resources : Inspect(p, y))
             \/ (\E status \in {"released", "failed"} : Release(p, status))
    BY <1>4, <2>1 DEF Start, Look, RecordRow, EndReconcile, Restored, Write, Written, Raise, Skip,
       EnterCancel, EndCancel, Joined, CloseBinding, LoseOwnership, Inspect, Release
  <2>2. CASE BeginWrite(p) \/ CloseRuntime(p) \/ \E y \in Resources : Ask(p, y)
    BY <1>2, <2>2 DEF BeginWrite, CloseRuntime, Ask
  <2> QED BY <1>6, <1>7, <1>8, <1>9, <2>1, <2>2 DEF OwnerStepOf
<1>10. ASSUME NEW p \in Procs, Callback(p) \/ Cancel(p) \/ Die(p) PROVE RowMove(x)
  BY <1>2, <1>4, <1>10 DEF Callback, Cancel, Die
<1>11. ASSUME NEW y \in Resources, Deadline(y) PROVE RowMove(x)
  <2>1. CASE x # y
    <3>1. rec'[x] = rec[x]
      BY <1>0, <1>11, <2>1 DEF Deadline
    <3> QED BY <3>1 DEF RowMove
  <2> QED BY <1>11, <2>1 DEF RowMove
<1> QED BY <1>4, <1>5, <1>9, <1>10, <1>11 DEF ExploreNext, LeaseExpires

-----------------------------------------------------------------------------
(* What a step does to the leases *)

LeaseMove ==
    \/ lease' = lease /\ run'[R].generation = run[R].generation
    \/ \E p \in Procs :
          /\ Start(p) /\ run'[R].generation = run[R].generation + 1
          /\ lease'[p][R] = run[R].generation + 1
          /\ \A q \in Procs \ {p} : lease'[q][R] = lease[q][R]
    \/ \E p \in Procs :
          /\ Die(p) /\ run'[R].generation = run[R].generation
          /\ lease[p][R] # 0 /\ lease'[p][R] = 0
          /\ \A q \in Procs \ {p} : lease'[q][R] = lease[q][R]

LEMMA LeaseMoves ==
  ASSUME OwnershipInv, LocalTypes, ItemInv, ExploreNext
  PROVE  LeaseMove
<1>0. TypeOK /\ run \in [Runs -> RunRow] /\ lease \in [Procs -> [Runs -> Generations]]
  BY DEF OwnershipInv, TypeOK
<1>1. ASSUME UNCHANGED registry PROVE LeaseMove
  BY <1>1 DEF registry, LeaseMove
<1>2. ASSUME NEW row, run' = [run EXCEPT ![R] = row], row.generation = run[R].generation, lease' = lease
      PROVE  LeaseMove
  BY <1>0, <1>2, TheRun DEF LeaseMove
<1>3. ASSUME NEW p \in Procs, NEW status, Finish(p, R, status) PROVE LeaseMove
  BY <1>2, <1>3 DEF Finish, FenceOff
<1>4. ASSUME NEW p \in Procs, MarkRecoveryRequired(p, R) PROVE LeaseMove
  BY <1>2, <1>4 DEF MarkRecoveryRequired, FenceOff
<1>5. run[R] \in RunRow
  BY <1>0, TheRun
<1>6. ASSUME NEW p \in Procs, RequestCancel(p, R) \/ BeginCancelling(p, R) \/ Activate(p, R)
      PROVE  LeaseMove
  <2>1. run'[R].generation = run[R].generation /\ lease' = lease
    BY <1>0, <1>5, <1>6, TheRun DEF RequestCancel, BeginCancelling, Activate, RunRow
  <2> QED BY <2>1 DEF LeaseMove
<1>7. ASSUME NEW p \in Procs, OwnerStepOf(p) PROVE LeaseMove
  <2>1. CASE Start(p)
    <3>1. run'[R].generation = run[R].generation + 1 /\ lease'[p][R] = run[R].generation + 1
      BY <1>0, <2>1, TheRun DEF Start, Acquire
    <3>2. \A q \in Procs \ {p} : lease'[q][R] = lease[q][R]
      BY <1>0, <2>1, TheRun DEF Start, Acquire
    <3> QED BY <2>1, <3>1, <3>2 DEF LeaseMove
  <2>2. CASE Look(p) \/ Restored(p) \/ BeginWrite(p) \/ Write(p) \/ Written(p) \/ Raise(p)
             \/ Skip(p) \/ CloseRuntime(p) \/ Joined(p) \/ LoseOwnership(p)
             \/ \E xs \in SUBSET Resources : Delegate(p, xs)
    BY <1>1, <2>2 DEF Look, Restored, BeginWrite, Write, Written, Raise, Skip, CloseRuntime,
       Joined, LoseOwnership, Delegate
  <2>3. CASE RecordRow(p)
    BY <2>3 DEF RecordRow, TransitionResource, LeaseMove
  <2>4. CASE EndReconcile(p)
    BY <1>4, <1>6, <2>4 DEF EndReconcile
  <2>5. CASE EnterCancel(p)
    BY <1>6, <2>5 DEF EnterCancel
  <2>6. CASE EndCancel(p)
    BY <1>1, <1>3, <1>4, <2>6 DEF EndCancel
  <2>7. CASE CloseBinding(p) \/ \E status \in {"released", "failed"} : Release(p, status)
    BY <1>3, <2>7 DEF CloseBinding, Release
  <2>8. ASSUME NEW x \in Resources, StartWorker(p, x) PROVE LeaseMove
    BY <1>1, <2>8 DEF StartWorker, RegisterResource, LeaseMove
  <2>9. ASSUME NEW x \in Resources, Inspect(p, x) \/ Ask(p, x) \/ Retry(p, x) \/ StartFails(p, x)
        PROVE  LeaseMove
    BY <1>1, <2>9 DEF Inspect, Ask, Retry, StartFails
  <2> QED BY <1>7, <2>1, <2>2, <2>3, <2>4, <2>5, <2>6, <2>7, <2>8, <2>9 DEF OwnerStepOf
<1>8. ASSUME NEW p \in Procs, Die(p) PROVE LeaseMove
  <2>1. lease'[p][R] = 0 /\ lease[p][R] # 0 /\ run' = run
    BY <1>0, <1>8, TheRun DEF Die, Crash
  <2>2. \A q \in Procs \ {p} : lease'[q][R] = lease[q][R]
    BY <1>0, <1>8 DEF Die, Crash
  <2> QED BY <1>8, <2>1, <2>2 DEF LeaseMove
<1>9. CASE LeaseExpires
  <2>1. run'[R].generation = run[R].generation /\ lease' = lease
    BY <1>0, <1>5, <1>9, TheRun DEF LeaseExpires, Expire, RunRow
  <2> QED BY <2>1 DEF LeaseMove
<1>10. ASSUME NEW p \in Procs, Callback(p) \/ Cancel(p) PROVE LeaseMove
  BY <1>1, <1>10 DEF Callback, Cancel
<1>11. ASSUME NEW p \in Procs, NEW x \in Resources, WorkerStep(p, x) \/ Watch(p, x)
       PROVE  LeaseMove
  BY <1>1, <1>11 DEF WorkerStep, Abandon, Claim, Publish, Confirm, Watch
<1>12. ASSUME NEW x \in Resources, Deadline(x) PROVE LeaseMove
  BY <1>1, <1>12 DEF Deadline
<1> QED BY <1>7, <1>8, <1>9, <1>10, <1>11, <1>12 DEF ExploreNext

LEMMA Generation ==
  ASSUME OwnershipInv
  PROVE  /\ run[R].generation \in Nat /\ run[R].generation \in Generations
         /\ \A p \in Procs : /\ lease[p][R] \in Generations /\ lease[p][R] \in Nat
                             /\ lease[p][R] <= run[R].generation
         /\ \A p, q \in Procs : p # q /\ lease[p][R] # 0 => lease[p][R] # lease[q][R]
  BY TheRun, ConstantsAssumption DEF OwnershipInv, TypeOK, RunRow, Generations, LeaseIsPast, UniqueOwner

-----------------------------------------------------------------------------
(* The rows *)

LEMMA RowKept ==
  ASSUME OwnershipInv, LocalTypes, NEW x \in Resources, RowInv(x), LeaseMove,
         \A p \in Procs : ThreadInv(p, x), RowMove(x)
  PROVE  /\ rec'[x] \in Row /\ RowInv(x)'
         /\ \/ rec'[x].charged <= rec[x].charged
            \/ \E p \in Procs : Retries(p, x)
            \/ \E p \in Procs : \E xs \in SUBSET Resources : Delegate(p, xs) /\ x \in xs
<1> DEFINE old == rec[x]
           row == rec'[x]
<1>0. /\ old \in Row /\ rec \in [Resources -> Row]
      /\ old.charged \in Nat /\ old.paid \in Nat /\ Budget \in Nat /\ old.attempt \in Nat
      /\ old.lost \in Nat /\ old.by \in Nat /\ MaxAttempts \in Nat
  BY ExplorationAssumption, ConstantsAssumption DEF LocalTypes, Row, Generations
<1>1. run'[R].generation \in Nat /\ run[R].generation <= run'[R].generation
      /\ run[R].generation \in Nat
  BY Generation DEF LeaseMove
<1>2. ASSUME row.charged = old.charged, row.paid = old.paid, row.settled = old.settled
      PROVE  Account(rec[x])' /\ row.charged <= old.charged
  BY <1>0, <1>2 DEF RowInv, Account
<1>3. CASE rec'[x] = rec[x]
  BY <1>0, <1>1, <1>3 DEF RowInv, Account
<1>4. CASE Deadline(x)
  <2>1. row = [old EXCEPT !.late = TRUE]
    BY <1>0, <1>4 DEF Deadline
  <2>2. /\ row \in Row /\ row.charged = old.charged /\ row.paid = old.paid
        /\ row.settled = old.settled /\ row.status = old.status /\ row.clean = old.clean
        /\ row.ask = old.ask /\ row.lost = old.lost /\ row.attempt = old.attempt /\ row.by = old.by
    BY <1>0, <2>1 DEF Row
  <2> QED BY <1>0, <1>1, <1>2, <2>2 DEF RowInv
<1>5. ASSUME NEW reason \in Reasons, NEW stopped \in BOOLEAN, Given(x, reason, stopped)
      PROVE  row \in Row /\ RowInv(x)' /\ row.charged <= old.charged
  <2>1. /\ row \in Row /\ Account(row) /\ row.settled /\ row.charged <= old.charged
        /\ row.ask = reason /\ row.lost = old.attempt
        /\ row.attempt = old.attempt /\ row.by = old.by
        /\ row.clean = (old.status = "queued" \/ stopped)
        /\ row.status = IF row.clean THEN reason ELSE "worker_lost"
    <3>1. rec[x] \in Row /\ Account(rec[x]) /\ IsActive(x) /\ rec'[x] = Invalidated(x, reason, stopped)
      BY <1>0, <1>5 DEF Given, RowInv
    <3> HIDE DEF old, row
    <3>2. ASSUME NEW new, new = rec'[x]
          PROVE  /\ new \in Row /\ Account(new) /\ new.settled /\ new.charged <= rec[x].charged
                 /\ new.ask = reason /\ new.lost = rec[x].attempt
                 /\ new.attempt = rec[x].attempt /\ new.by = rec[x].by
                 /\ new.clean = (rec[x].status = "queued" \/ stopped)
                 /\ new.status = IF new.clean THEN reason ELSE "worker_lost"
      BY <3>1, <3>2, Invalidates
    <3> QED BY <3>2 DEF old, row
  <2>2. row.status \in {"worker_lost"} \cup Reasons /\ row.ask # "none"
    BY <2>1 DEF Reasons
  <2>3. row.status \in Reasons \/ (row.status = "worker_lost" /\ ~row.clean)
    BY <2>1
  <2> QED BY <1>0, <1>1, <2>1, <2>2, <2>3 DEF RowInv, Account, Reasons
<1>6. ASSUME NEW p \in Procs, Claims(p, x)
      PROVE  row \in Row /\ RowInv(x)' /\ row.charged <= old.charged
  <2>1. /\ old.attempt < MaxAttempts /\ old.ask = "none"
        /\ row = [old EXCEPT !.status = "running", !.attempt = @ + 1, !.by = lease[p][R],
                             !.clean = FALSE]
    BY <1>0, <1>6 DEF Claims, Claim, Claimable
  <2>2. old.attempt + 1 \in 0 .. MaxAttempts /\ lease[p][R] \in Generations
    BY <1>0, <2>1, Generation
  <2>3. /\ row \in Row /\ row.charged = old.charged /\ row.paid = old.paid
        /\ row.settled = old.settled /\ row.status = "running" /\ row.clean = FALSE
        /\ row.ask = old.ask /\ row.lost = old.lost /\ row.attempt = old.attempt + 1
        /\ row.by = lease[p][R]
    BY <1>0, <2>1, <2>2 DEF Row, Active
  <2>4. row.by <= run'[R].generation
    BY <1>1, <2>3, Generation
  <2>5. row.lost <= row.attempt /\ row.lost # row.attempt
    BY <1>0, <2>3 DEF RowInv
  <2> QED BY <1>2, <2>1, <2>3, <2>4, <2>5 DEF RowInv, Ended, Reasons
<1>7. ASSUME NEW p \in Procs, Publishes(p, x)
      PROVE  row \in Row /\ RowInv(x)' /\ row.charged <= old.charged
  <2>1. PICK status \in Results(p, x), charge \in 0 .. Budget :
          rec' = [rec EXCEPT ![x] = [Settle(rec[x], charge) EXCEPT
                     !.status = IF rec[x].ask # "none" THEN "cancelled" ELSE status,
                     !.clean = TRUE]]
    BY <1>7 DEF Publishes, Publish
  <2>2. old.status = "running"
    BY <1>7 DEF Publishes, Fenced
  <2> DEFINE paid == Settle(old, charge)
             end == IF rec[x].ask # "none" THEN "cancelled" ELSE status
  <2>3. row = [paid EXCEPT !.status = end, !.clean = TRUE] /\ end \in Ended
    BY <1>0, <2>1 DEF Results, Ended, Reasons
  <2>4. /\ paid \in Row /\ Account(paid) /\ paid.settled /\ paid.charged <= old.charged
        /\ paid.attempt = old.attempt /\ paid.by = old.by /\ paid.lost = old.lost /\ paid.ask = old.ask
    <3>1. old \in Row /\ Account(old)
      BY <1>0 DEF RowInv
    <3> HIDE DEF old
    <3> QED BY <3>1, Settles
  <2> HIDE DEF paid, end
  <2>5. /\ row \in Row /\ row.charged = paid.charged /\ row.paid = paid.paid
        /\ row.settled = paid.settled /\ row.status = end /\ row.clean = TRUE
        /\ row.ask = paid.ask /\ row.lost = paid.lost /\ row.attempt = paid.attempt
        /\ row.by = paid.by
    BY <2>3, <2>4 DEF Row, Ended
  <2>6. Account(row)
    BY <2>4, <2>5 DEF Account
  <2>7. row.lost <= row.attempt /\ row.lost # row.attempt
    BY <2>2, <2>4, <2>5 DEF RowInv
  <2>8. row.by <= run'[R].generation
    BY <1>0, <1>1, <2>4, <2>5 DEF RowInv
  <2> QED BY <2>3, <2>4, <2>5, <2>6, <2>7, <2>8 DEF RowInv, Account, Ended, Reasons
<1>8. ASSUME NEW p \in Procs, Confirms(p, x)
      PROVE  row \in Row /\ RowInv(x)' /\ row.charged <= old.charged
  <2>1. /\ row = [old EXCEPT !.clean = TRUE, !.status = old.ask]
        /\ old.lost = work[p][x].attempt /\ work[p][x].pc = "confirming"
    BY <1>0, <1>8 DEF Confirms, Confirm
  <2>2. old.lost = old.attempt /\ old.status \notin {"absent", "queued"}
    BY <2>1 DEF ThreadInv, Threaded
  <2>3. old.status \in {"worker_lost"} \cup Ended
    BY <1>0, <2>2 DEF RowInv, Row, Active
  <2>4. old.ask \in Reasons
    BY <1>0, <2>2, <2>3 DEF RowInv, Row
  <2>5. /\ row \in Row /\ row.charged = old.charged /\ row.paid = old.paid
        /\ row.settled = old.settled /\ row.status = old.ask /\ row.clean = TRUE
        /\ row.ask = old.ask /\ row.lost = old.lost /\ row.attempt = old.attempt
        /\ row.by = old.by
    BY <1>0, <2>1, <2>4 DEF Row, Ended
  <2>6. row.by <= run'[R].generation
    BY <1>0, <1>1, <2>5 DEF RowInv
  <2> QED BY <1>0, <1>2, <2>2, <2>4, <2>5, <2>6 DEF RowInv, Ended, Reasons
<1>9. ASSUME NEW p \in Procs, Retries(p, x) PROVE row \in Row /\ RowInv(x)'
  <2> DEFINE charged == old.charged + Budget
             paid == IF old.settled THEN old.paid ELSE old.paid + Budget
  <2>1. row = [old EXCEPT !.status = "queued", !.ask = "none", !.settled = FALSE, !.clean = FALSE,
                 !.late = FALSE, !.charged = charged, !.paid = paid]
    <3>1. \E new \in Retried(x) : rec' = [rec EXCEPT ![x] = new]
      BY <1>9 DEF Retries, Retry
    <3> QED BY <1>0, <3>1 DEF Retried
  <2>2. charged \in Nat /\ paid \in Nat /\ charged = paid + Budget
    BY <1>0 DEF RowInv, Account
  <2> HIDE DEF charged, paid
  <2>3. /\ row \in Row /\ row.charged = charged /\ row.paid = paid
        /\ row.settled = FALSE /\ row.status = "queued" /\ row.clean = FALSE
        /\ row.ask = "none" /\ row.lost = old.lost /\ row.attempt = old.attempt
        /\ row.by = old.by
    BY <1>0, <2>1, <2>2 DEF Row, Active
  <2>4. Account(row)
    BY <2>2, <2>3 DEF Account
  <2>5. row.by <= run'[R].generation
    BY <1>0, <1>1, <2>3 DEF RowInv
  <2> QED BY <1>0, <2>3, <2>4, <2>5 DEF RowInv, Account, Ended, Reasons
<1>10. ASSUME NEW p \in Procs, NEW xs \in SUBSET Resources, Delegate(p, xs), x \in xs
       PROVE  row \in Row /\ RowInv(x)'
  <2>1. /\ row = [old EXCEPT !.status = "queued", !.charged = Budget, !.settled = FALSE]
        /\ old.status = "absent"
    BY <1>0, <1>10 DEF Delegate
  <2>2. old.paid = 0 /\ old.ask = "none"
    BY <1>0, <2>1 DEF RowInv, Account
  <2>3. /\ row \in Row /\ row.charged = Budget /\ row.paid = 0
        /\ row.settled = FALSE /\ row.status = "queued" /\ row.clean = old.clean
        /\ row.ask = old.ask /\ row.lost = old.lost /\ row.attempt = old.attempt
        /\ row.by = old.by
    BY <1>0, <2>1, <2>2 DEF Row, Active
  <2>4. Account(row)
    BY <1>0, <2>3 DEF Account
  <2>5. row.by <= run'[R].generation
    BY <1>0, <1>1, <2>3 DEF RowInv
  <2> QED BY <1>0, <2>2, <2>3, <2>4, <2>5 DEF RowInv, Account, Ended, Reasons
<1> QED BY <1>3, <1>0, <1>4, <1>2, <1>5, <1>6, <1>7, <1>8, <1>9, <1>10 DEF RowMove


-----------------------------------------------------------------------------
(* The threads *)

\* How the thread of a task changes.
WorkMove(p, x) ==
    \/ work'[p][x].pc = work[p][x].pc /\ work'[p][x].attempt = work[p][x].attempt
    \/ /\ work'[p][x] = NoWorker
       /\ Abandon(p, x) \/ (Claim(p, x) /\ ~Claimable(x)) \/ Confirm(p, x) \/ Die(p)
    \/ StartWorker(p, x) /\ work'[p][x].pc = "waiting"
    \/ Claims(p, x) /\ work'[p][x].pc = "exploring" /\ work'[p][x].attempt = rec[x].attempt + 1
    \/ Publish(p, x) /\ work'[p][x].pc = "confirming" /\ work'[p][x].attempt = work[p][x].attempt

Threads == [Procs -> [Resources -> Worker]]

LEMMA NoWorkerType == NoWorker \in Worker
  BY ExplorationAssumption DEF NoWorker, Worker

LEMMA WorkMoves ==
  ASSUME LocalTypes, ExploreNext
  PROVE  work' \in Threads /\ \A p \in Procs, x \in Resources : WorkMove(p, x)
<1> DEFINE Moved == work' \in Threads /\ \A p \in Procs, x \in Resources : WorkMove(p, x)
<1>0. work \in Threads /\ rec \in [Resources -> Row]
  BY DEF LocalTypes, Threads
<1>1. CASE work' = work
  BY <1>0, <1>1 DEF WorkMove
<1>2. ASSUME NEW q \in Procs, NEW y \in Resources, NEW w \in Worker,
             work' = [work EXCEPT ![q][y] = w], work'[q][y] = w => WorkMove(q, y)
      PROVE  Moved
  <2>1. /\ work' \in Threads /\ work'[q][y] = w
        /\ \A p \in Procs, x \in Resources : p # q \/ x # y => work'[p][x] = work[p][x]
    <3> HIDE DEF Moved
    <3>1. work \in Threads /\ work' = [work EXCEPT ![q][y] = w]
      BY <1>0, <1>2
    <3> QED BY ONLY <3>1, w \in Worker, q \in Procs, y \in Resources DEF Threads
  <2>2. ASSUME NEW p \in Procs, NEW x \in Resources, p # q \/ x # y PROVE WorkMove(p, x)
    BY <2>1, <2>2 DEF WorkMove
  <2> QED BY <1>2, <2>1, <2>2
<1>3. ASSUME NEW q \in Procs, CancelAll(q) PROVE Moved
  <2> DEFINE threads == [x \in Resources |->
                           IF IsActive(x) /\ work[q][x].pc # "none" THEN [work[q][x] EXCEPT !.stop = TRUE]
                           ELSE work[q][x]]
  <2>1. work' = [work EXCEPT ![q] = threads]
    BY <1>3 DEF CancelAll
  <2>2. \A x \in Resources : /\ threads[x] \in Worker /\ threads[x].pc = work[q][x].pc
                             /\ threads[x].attempt = work[q][x].attempt
    <3> SUFFICES ASSUME NEW x \in Resources
                 PROVE  /\ threads[x] \in Worker /\ threads[x].pc = work[q][x].pc
                        /\ threads[x].attempt = work[q][x].attempt
      OBVIOUS
    <3> DEFINE old == work[q][x]
    <3>1. old \in Worker
      BY <1>0 DEF Threads
    <3>2. threads[x] = old \/ threads[x] = [old EXCEPT !.stop = TRUE]
      OBVIOUS
    <3> HIDE DEF old, threads
    <3>3. /\ threads[x] \in Worker /\ threads[x].pc = old.pc
          /\ threads[x].attempt = old.attempt
      BY <3>1, <3>2 DEF Worker
    <3> QED BY <3>3 DEF old
  <2>3. threads \in [Resources -> Worker]
    BY <2>2
  <2> HIDE DEF threads
  <2>4. /\ work' \in Threads /\ work'[q] = threads
        /\ \A p \in Procs \ {q} : work'[p] = work[p]
    BY <1>0, <2>1, <2>3 DEF Threads
  <2> QED BY <2>2, <2>4 DEF WorkMove
<1>4. ASSUME NEW q \in Procs, NEW y \in Resources, WorkerStep(q, y) \/ Watch(q, y)
      PROVE  Moved
  <2> DEFINE old == work[q][y]
  <2>0. old \in Worker /\ old.attempt \in 0 .. MaxAttempts
    BY <1>0 DEF Threads, Worker
  <2>1. CASE Abandon(q, y) \/ (Claim(q, y) /\ ~Claimable(y)) \/ Confirm(q, y)
    <3>1. work' = [work EXCEPT ![q][y] = NoWorker]
      BY <2>1 DEF Abandon, Claim, Confirm, Leaves
    <3> QED BY <1>2, <2>1, <3>1, NoWorkerType DEF WorkMove
  <2>2. CASE Claims(q, y)
    <3> DEFINE w == [old EXCEPT !.pc = "exploring", !.attempt = rec[y].attempt + 1]
    <3>1. work' = [work EXCEPT ![q][y] = w]
      BY <1>0, <2>2 DEF Claims, Claim, Threads
    <3>2. rec[y].attempt + 1 \in 0 .. MaxAttempts
      BY <1>0, <2>2, ExplorationAssumption DEF Claims, Claim, Row
    <3>3. w \in Worker /\ w.pc = "exploring" /\ w.attempt = rec[y].attempt + 1
      BY <2>0, <3>2 DEF Worker
    <3> HIDE DEF w
    <3>4. work'[q][y] = w => WorkMove(q, y)
      BY <2>2, <3>3 DEF WorkMove
    <3> QED BY <1>2, <3>1, <3>3, <3>4
  <2>3. CASE Publish(q, y)
    <3> DEFINE w == [old EXCEPT !.pc = "confirming"]
    <3>1. work' = [work EXCEPT ![q][y] = w]
      BY <1>0, <2>3 DEF Publish, Threads
    <3>2. w \in Worker /\ w.pc = "confirming" /\ w.attempt = old.attempt
      BY <2>0 DEF Worker
    <3> HIDE DEF w
    <3>3. work'[q][y] = w => WorkMove(q, y)
      BY <2>3, <3>2 DEF WorkMove
    <3> QED BY <1>2, <3>1, <3>2, <3>3
  <2>4. CASE Watch(q, y)
    <3> DEFINE w == [old EXCEPT !.stop = (old.pc # "none")]
    <3>1. work' = [work EXCEPT ![q][y] = w]
      BY <1>0, <2>4 DEF Watch, Threads
    <3>2. w \in Worker /\ w.pc = old.pc /\ w.attempt = old.attempt
      BY <2>0 DEF Worker
    <3> HIDE DEF w
    <3>3. work'[q][y] = w => WorkMove(q, y)
      BY <3>2 DEF WorkMove
    <3> QED BY <1>2, <3>1, <3>2, <3>3
  <2> QED BY <1>4, <2>1, <2>2, <2>3, <2>4 DEF WorkerStep, Claims
<1>5. ASSUME NEW q \in Procs, NEW y \in Resources, StartWorker(q, y) PROVE Moved
  <2>1. CASE work' = work
    BY <1>1, <2>1
  <2>2. CASE work' # work
    <3> DEFINE w == [NoWorker EXCEPT !.pc = "waiting", !.stop = rec[y].late]
    <3>1. work' = [work EXCEPT ![q][y] = w]
      BY <1>5, <2>2 DEF StartWorker
    <3>2. w \in Worker /\ w.pc = "waiting"
      BY <1>0, NoWorkerType DEF Worker, Row
    <3> HIDE DEF w
    <3>3. work'[q][y] = w => WorkMove(q, y)
      BY <1>5, <3>2 DEF WorkMove
    <3> QED BY <1>2, <3>1, <3>2, <3>3
  <2> QED BY <2>1, <2>2
<1>6. ASSUME NEW q \in Procs, OwnerStepOf(q) PROVE Moved
  <2>1. CASE \/ Start(q) \/ Look(q) \/ RecordRow(q) \/ EndReconcile(q) \/ Restored(q)
             \/ Write(q) \/ Written(q) \/ Raise(q) \/ Skip(q) \/ EnterCancel(q) \/ EndCancel(q)
             \/ Joined(q) \/ CloseBinding(q) \/ LoseOwnership(q)
             \/ (\E y \in Resources : Inspect(q, y) \/ Retry(q, y) \/ StartFails(q, y))
             \/ (\E xs \in SUBSET Resources : Delegate(q, xs))
             \/ (\E status \in {"released", "failed"} : Release(q, status))
    BY <1>1, <2>1 DEF Start, Look, RecordRow, EndReconcile, Restored, Write, Written, Raise, Skip,
       EnterCancel, EndCancel, Joined, CloseBinding, LoseOwnership, Inspect, Retry, StartFails,
       Delegate, Release
  <2>2. CASE BeginWrite(q) \/ CloseRuntime(q) \/ \E y \in Resources : Ask(q, y)
    BY <1>3, <2>2 DEF BeginWrite, CloseRuntime, Ask
  <2> QED BY <1>5, <1>6, <2>1, <2>2 DEF OwnerStepOf
<1>7. ASSUME NEW q \in Procs, Callback(q) \/ Cancel(q) PROVE Moved
  BY <1>1, <1>3, <1>7 DEF Callback, Cancel
<1>8. ASSUME NEW q \in Procs, Die(q) PROVE Moved
  <2> DEFINE threads == [x \in Resources |-> NoWorker]
  <2>1. work' = [work EXCEPT ![q] = threads]
    BY <1>8 DEF Die
  <2>2. threads \in [Resources -> Worker] /\ \A x \in Resources : threads[x] = NoWorker
    BY NoWorkerType
  <2> HIDE DEF threads
  <2>3. /\ work' \in Threads /\ work'[q] = threads
        /\ \A p \in Procs \ {q} : work'[p] = work[p]
    BY <1>0, <2>1, <2>2 DEF Threads
  <2> QED BY <1>8, <2>2, <2>3 DEF WorkMove
<1>9. ASSUME NEW y \in Resources, Deadline(y) PROVE Moved
  <2>0. work' = [p \in Procs |-> [work[p] EXCEPT ![y].stop = work[p][y].pc # "none"]]
    BY <1>9 DEF Deadline
  <2>1. ASSUME NEW p \in Procs
        PROVE  /\ work'[p] \in [Resources -> Worker]
               /\ \A x \in Resources : /\ work'[p][x].pc = work[p][x].pc
                                       /\ work'[p][x].attempt = work[p][x].attempt
    <3> DEFINE threads == work[p]
               w == [threads[y] EXCEPT !.stop = (threads[y].pc # "none")]
    <3>1. threads \in [Resources -> Worker]
      BY <1>0 DEF Threads
    <3>2. w \in Worker /\ w.pc = threads[y].pc /\ w.attempt = threads[y].attempt
      BY <3>1 DEF Worker
    <3>3. work'[p] = [threads EXCEPT ![y] = w]
      BY <2>0, <3>1
    <3> HIDE DEF threads, w
    <3>4. /\ work'[p] \in [Resources -> Worker] /\ work'[p][y] = w
          /\ \A x \in Resources \ {y} : work'[p][x] = threads[x]
      BY <3>1, <3>2, <3>3
    <3> QED BY <3>2, <3>4 DEF threads
  <2>2. work' \in Threads
    BY <2>0, <2>1 DEF Threads
  <2> QED BY <2>1, <2>2 DEF WorkMove
<1> QED BY <1>1, <1>4, <1>6, <1>7, <1>8, <1>9 DEF ExploreNext, LeaseExpires

-----------------------------------------------------------------------------
(* The owner threads *)

\* How the owner of a process changes.
OwnMove(p) ==
    \/ own'[p].pc = own[p].pc /\ own'[p].todo \subseteq own[p].todo
    \/ own[p].pc # "none" /\ own'[p].pc \notin {"none", "reconcile", "restore", "delegate", "writing"}
    \/ Start(p) /\ own'[p].pc = "reconcile"
    \/ Write(p) /\ own'[p].pc = "writing"
    \/ Die(p) /\ own'[p].pc = "none"
    \/ /\ EndReconcile(p) /\ own[p].pc = "reconcile" /\ own'[p].pc = "restore"
       /\ own'[p].todo = {x \in Resources : IsActive(x)}
    \/ \E xs \in SUBSET Resources : /\ Delegate(p, xs)
                                    /\ own'[p].pc = "delegate" /\ own'[p].todo = xs

Owners == [Procs -> OwnerRow]

LEMMA NoOwnerType == NoOwner \in OwnerRow
  BY ExplorationAssumption DEF NoOwner, OwnerRow, OwnerSteps

LEMMA OwnMoves ==
  ASSUME LocalTypes, ItemInv, ExploreNext
  PROVE  own' \in Owners /\ ItemInv' /\ \A p \in Procs : OwnMove(p)
<1> DEFINE Moved == own' \in Owners /\ ItemInv' /\ \A p \in Procs : OwnMove(p)
<1>0. own \in Owners
  BY DEF LocalTypes, Owners
<1>1. CASE own' = own
  BY <1>0, <1>1 DEF OwnMove, ItemInv
<1>2. ASSUME NEW p \in Procs, NEW row \in OwnerRow, own' = [own EXCEPT ![p] = row],
             row.seen # "none" => row.item \in Resources, own'[p] = row => OwnMove(p)
      PROVE  Moved
  <2>1. /\ own' \in Owners /\ own'[p] = row
        /\ \A q \in Procs \ {p} : own'[q] = own[q]
    <3> HIDE DEF Moved
    <3> QED BY <1>0, <1>2 DEF Owners
  <2>2. \A q \in Procs \ {p} : OwnMove(q)
    BY <2>1 DEF OwnMove
  <2> QED BY <1>2, <2>1, <2>2 DEF ItemInv
\* A step that only changes the place of the owner.
<1>3. ASSUME NEW p \in Procs, NEW pc \in OwnerSteps, Goto(p, pc),
             \/ Write(p) /\ pc = "writing"
             \/ own[p].pc # "none" /\ pc \notin {"none", "reconcile", "restore", "delegate", "writing"}
      PROVE  Moved
  <2> DEFINE old == own[p]
             row == [old EXCEPT !.pc = pc]
  <2>1. own' = [own EXCEPT ![p] = row]
    BY <1>0, <1>3 DEF Goto, Owners
  <2>2. old \in OwnerRow
    BY <1>0 DEF Owners
  <2>3. /\ row \in OwnerRow /\ row.pc = pc /\ row.seen = old.seen /\ row.item = old.item
    <3> HIDE DEF old
    <3> QED BY <2>2 DEF OwnerRow
  <2> HIDE DEF row
  <2>4. own'[p] = row => OwnMove(p)
    BY <1>3, <2>3 DEF OwnMove
  <2> QED BY <1>2, <2>1, <2>3, <2>4 DEF ItemInv
<1>4. ASSUME NEW p \in Procs, NEW pc \in {"closing", "close", "closed"}, own[p].pc # "none",
             own' = [own EXCEPT ![p] = [NoOwner EXCEPT !.pc = pc]]
      PROVE  Moved
  <2> DEFINE row == [NoOwner EXCEPT !.pc = pc]
  <2>1. row \in OwnerRow /\ row.pc = pc /\ row.seen = "none"
    BY NoOwnerType DEF OwnerRow, NoOwner, OwnerSteps
  <2> HIDE DEF row
  <2>2. own'[p] = row => OwnMove(p)
    BY <1>4, <2>1 DEF OwnMove
  <2> QED BY <1>2, <1>4, <2>1, <2>2 DEF row
<1>5. ASSUME NEW p \in Procs, OwnerStepOf(p) PROVE Moved
  <2> DEFINE old == own[p]
  <2>0. old \in OwnerRow /\ (old.seen # "none" => old.item \in Resources)
    BY <1>0 DEF Owners, ItemInv
  <2>1. CASE Start(p)
    <3> DEFINE row == [old EXCEPT !.pc = "reconcile", !.todo = ResourcesOf(R)]
    <3>1. own' = [own EXCEPT ![p] = row]
      BY <1>0, <2>1 DEF Start, Owners
    <3>2. ResourcesOf(R) \in SUBSET Resources
      BY DEF ResourcesOf
    <3> HIDE DEF old
    <3>3. row \in OwnerRow /\ row.pc = "reconcile" /\ row.seen = old.seen /\ row.item = old.item
      BY <2>0, <3>2 DEF OwnerRow, OwnerSteps
    <3> HIDE DEF row
    <3>4. own'[p] = row => OwnMove(p)
      BY <2>1, <3>3 DEF OwnMove
    <3> QED BY <1>2, <2>0, <3>1, <3>3, <3>4
  <2>2. CASE Look(p)
    <3> DEFINE row == [old EXCEPT !.seen = Answer(own[p].item)]
    <3>1. own' = [own EXCEPT ![p] = row]
      BY <1>0, <2>2 DEF Look, Owners
    <3>2. Answer(own[p].item) \in {"none", "asked", "unknown"} \cup SettledStates
      BY DEF Answer, SettledStates
    <3>3. old.seen # "none"
      BY <2>2 DEF Look
    <3>4. row \in OwnerRow /\ row.pc = old.pc /\ row.item = old.item /\ row.todo = old.todo
      <4> HIDE DEF old
      <4> QED BY <2>0, <3>2 DEF OwnerRow
    <3> HIDE DEF row
    <3>5. own'[p] = row => OwnMove(p)
      BY <3>4 DEF OwnMove
    <3> QED BY <1>2, <2>0, <3>1, <3>3, <3>4, <3>5
  <2>3. CASE RecordRow(p)
    <3> DEFINE bad == old.bad \/ (own[p].seen = "unknown" /\ own[p].pc # "settle")
               row == [old EXCEPT !.item = NoParent, !.seen = "none", !.todo = @ \ {own[p].item},
                                  !.bad = bad]
    <3>1. own' = [own EXCEPT ![p] = row]
      BY <1>0, <2>3 DEF RecordRow, Owners
    <3>2. bad \in BOOLEAN
      BY <2>0 DEF OwnerRow
    <3>3. row \in OwnerRow /\ row.pc = old.pc /\ row.seen = "none" /\ row.todo \subseteq old.todo
      <4> HIDE DEF old, bad
      <4> QED BY <2>0, <3>2 DEF OwnerRow
    <3> HIDE DEF row
    <3>4. own'[p] = row => OwnMove(p)
      BY <3>3 DEF OwnMove
    <3> QED BY <1>2, <3>1, <3>3, <3>4
  <2>4. CASE EndReconcile(p)
    <3>0. own[p].pc = "reconcile"
      BY <2>4 DEF EndReconcile, Visited, Visiting
    <3>1. CASE Goto(p, "close") \/ Goto(p, "closing")
      BY <1>3, <3>0, <3>1 DEF OwnerSteps
    <3>2. CASE ~(Goto(p, "close") \/ Goto(p, "closing"))
      <4> DEFINE row == [old EXCEPT !.pc = "restore", !.todo = {x \in Resources : IsActive(x)},
                                    !.queued = {x \in Resources : rec[x].status = "queued"}]
      <4>1. own' = [own EXCEPT ![p] = row]
        BY <1>0, <2>4, <3>2 DEF EndReconcile, Owners
      <4>2. /\ row \in OwnerRow /\ row.pc = "restore" /\ row.seen = old.seen /\ row.item = old.item
            /\ row.todo = {x \in Resources : IsActive(x)}
        <5> HIDE DEF old
        <5> QED BY <2>0 DEF OwnerRow, OwnerSteps
      <4> HIDE DEF row
      <4>3. own'[p] = row => OwnMove(p)
        BY <2>4, <3>0, <4>2 DEF OwnMove
      <4> QED BY <1>2, <2>0, <4>1, <4>2, <4>3
    <3> QED BY <3>1, <3>2
  <2>5. CASE Restored(p) \/ Written(p)
    <3>1. Goto(p, "open") /\ own[p].pc # "none"
      BY <2>5 DEF Restored, Written, Visited, Visiting
    <3> QED BY <1>3, <3>1 DEF OwnerSteps
  <2>6. CASE Write(p)
    <3>1. Goto(p, "writing")
      BY <2>6 DEF Write
    <3> QED BY <1>3, <2>6, <3>1 DEF OwnerSteps
  <2>7. CASE \/ Skip(p) \/ EndCancel(p) \/ CloseRuntime(p) \/ CloseBinding(p)
             \/ \E status \in {"released", "failed"} : Release(p, status)
    <3>1. /\ own[p].pc # "none"
          /\ \/ Goto(p, "close") \/ Goto(p, "joining") \/ Goto(p, "closed")
      BY <2>7 DEF Skip, EndCancel, CloseRuntime, CloseBinding, Release, Visited, Visiting
    <3> QED BY <1>3, <3>1 DEF OwnerSteps
  <2>8. CASE Raise(p) \/ LoseOwnership(p)
    <3>1. /\ own[p].pc # "none"
          /\ \E pc \in {"closing", "close", "closed"} :
                own' = [own EXCEPT ![p] = [NoOwner EXCEPT !.pc = pc]]
      BY <2>8 DEF Raise, LoseOwnership
    <3> QED BY <1>4, <3>1
  <2>9. CASE EnterCancel(p)
    <3>1. CASE own' = own
      BY <1>1, <3>1
    <3>2. CASE own' # own
      <4> DEFINE row == [old EXCEPT !.pc = "cancel", !.todo = {x \in ResourcesOf(R) : ~Settled(x)}]
      <4>1. own' = [own EXCEPT ![p] = row] /\ own[p].pc # "none"
        BY <1>0, <2>9, <3>2 DEF EnterCancel, Owners
      <4>2. {x \in ResourcesOf(R) : ~Settled(x)} \in SUBSET Resources
        BY DEF ResourcesOf
      <4>3. row \in OwnerRow /\ row.pc = "cancel" /\ row.seen = old.seen /\ row.item = old.item
        <5> HIDE DEF old
        <5> QED BY <2>0, <4>2 DEF OwnerRow, OwnerSteps
      <4> HIDE DEF row
      <4>4. own'[p] = row => OwnMove(p)
        BY <4>1, <4>3 DEF OwnMove
      <4> QED BY <1>2, <2>0, <4>1, <4>3, <4>4
    <3> QED BY <3>1, <3>2
  <2>10. CASE BeginWrite(p)
    <3> DEFINE row == [old EXCEPT !.pc = "draining", !.writes = @ + 1]
    <3>1. own' = [own EXCEPT ![p] = row] /\ own[p].pc = "open" /\ old.writes < MaxWrites
      BY <1>0, <2>10 DEF BeginWrite, Owners
    <3>2. row \in OwnerRow /\ row.pc = "draining" /\ row.seen = old.seen /\ row.item = old.item
      <4>1. old.writes \in 0 .. MaxWrites
        BY <2>0 DEF OwnerRow
      <4>2. old.writes + 1 \in 0 .. MaxWrites
        BY <3>1, <4>1, ExplorationAssumption
      <4> HIDE DEF old
      <4> QED BY <2>0, <4>2 DEF OwnerRow, OwnerSteps
    <3> HIDE DEF row
    <3>3. own'[p] = row => OwnMove(p)
      BY <3>1, <3>2 DEF OwnMove
    <3> QED BY <1>2, <2>0, <3>1, <3>2, <3>3
  <2>11. CASE Joined(p)
    <3> DEFINE row == [old EXCEPT !.pc = "settle", !.bad = ~Quiet(p), !.todo = ResourcesOf(R)]
    <3>1. own' = [own EXCEPT ![p] = row] /\ own[p].pc = "joining"
      BY <1>0, <2>11 DEF Joined, Owners
    <3>2. ResourcesOf(R) \in SUBSET Resources /\ (~Quiet(p)) \in BOOLEAN
      BY DEF ResourcesOf
    <3>3. row \in OwnerRow /\ row.pc = "settle" /\ row.seen = old.seen /\ row.item = old.item
      <4> HIDE DEF old
      <4> QED BY <2>0, <3>2 DEF OwnerRow, OwnerSteps
    <3> HIDE DEF row
    <3>4. own'[p] = row => OwnMove(p)
      BY <3>1, <3>3 DEF OwnMove
    <3> QED BY <1>2, <2>0, <3>1, <3>3, <3>4
  <2>12. ASSUME NEW x \in Resources, Inspect(p, x) PROVE Moved
    <3> DEFINE seen == IF own[p].pc = "reconcile" /\ Settled(x) THEN res[x].status ELSE Answer(x)
               row == [old EXCEPT !.item = x, !.seen = seen]
    <3>1. own' = [own EXCEPT ![p] = row]
      BY <1>0, <2>12 DEF Inspect, Owners
    <3>2. seen \in {"none", "asked", "unknown"} \cup SettledStates
      BY DEF Answer, Settled, SettledStates
    <3>3. row \in OwnerRow /\ row.pc = old.pc /\ row.todo = old.todo /\ row.item = x
      <4> HIDE DEF old, seen
      <4> QED BY <2>0, <3>2 DEF OwnerRow
    <3> HIDE DEF row
    <3>4. own'[p] = row => OwnMove(p)
      BY <3>3 DEF OwnMove
    <3> QED BY <1>2, <3>1, <3>3, <3>4
  <2>13. ASSUME NEW x \in Resources, Ask(p, x) PROVE Moved
    <3> DEFINE row == [old EXCEPT !.item = x, !.seen = "asked"]
    <3>1. own' = [own EXCEPT ![p] = row]
      BY <1>0, <2>13 DEF Ask, Owners
    <3>2. row \in OwnerRow /\ row.pc = old.pc /\ row.todo = old.todo /\ row.item = x
      <4> HIDE DEF old
      <4> QED BY <2>0 DEF OwnerRow
    <3> HIDE DEF row
    <3>3. own'[p] = row => OwnMove(p)
      BY <3>2 DEF OwnMove
    <3> QED BY <1>2, <3>1, <3>2, <3>3
  \* Steps that take a task off the list.
  <2>14. ASSUME NEW todo, NEW queued, todo \subseteq old.todo, queued \in SUBSET Resources,
                own' = [own EXCEPT ![p].todo = todo, ![p].queued = queued]
         PROVE  Moved
    <3> DEFINE row == [old EXCEPT !.todo = todo, !.queued = queued]
    <3>1. own' = [own EXCEPT ![p] = row]
      BY <1>0, <2>14 DEF Owners
    <3>2. /\ row \in OwnerRow /\ row.pc = old.pc /\ row.todo = todo
          /\ row.seen = old.seen /\ row.item = old.item
      <4> HIDE DEF old
      <4> QED BY <2>0, <2>14 DEF OwnerRow
    <3> HIDE DEF row
    <3>3. own'[p] = row => OwnMove(p)
      BY <2>14, <3>2 DEF OwnMove
    <3> QED BY <1>2, <2>0, <3>1, <3>2, <3>3
  <2>15. ASSUME NEW x \in Resources, Retry(p, x) \/ StartWorker(p, x) \/ StartFails(p, x)
         PROVE  Moved
    <3>0. old.queued \in SUBSET Resources /\ old.queued \cup {x} \in SUBSET Resources
          /\ old.queued \ {x} \in SUBSET Resources /\ old.todo \ {x} \subseteq old.todo
      BY <2>0 DEF OwnerRow
    <3>1. CASE Retry(p, x) /\ rec[x].status \in {"running", "worker_lost"}
      <4>1. own' = [own EXCEPT ![p].todo = old.todo, ![p].queued = old.queued \cup {x}]
        BY <1>0, <3>1 DEF Retry, Owners, OwnerRow
      <4> QED BY <2>14, <3>0, <4>1
    <3>2. CASE Retry(p, x) /\ rec[x].status \notin {"running", "worker_lost"}
      <4> DEFINE todo == IF rec[x].status = "queued" THEN old.todo ELSE old.todo \ {x}
                 queued == IF rec[x].status = "queued" THEN old.queued \cup {x} ELSE old.queued
      <4>1. own' = [own EXCEPT ![p].todo = todo, ![p].queued = queued]
        BY <1>0, <3>2 DEF Retry, Owners, OwnerRow
      <4>2. todo \subseteq old.todo /\ queued \in SUBSET Resources
        BY <3>0
      <4> HIDE DEF todo, queued
      <4> QED BY <2>14, <4>1, <4>2
    <3>3. CASE StartWorker(p, x)
      <4>1. own' = [own EXCEPT ![p].todo = old.todo \ {x}, ![p].queued = old.queued \ {x}]
        BY <1>0, <3>3 DEF StartWorker, Owners, OwnerRow
      <4> QED BY <2>14, <3>0, <4>1
    <3>4. CASE StartFails(p, x)
      <4>1. own' = [own EXCEPT ![p].todo = old.todo \ {x}, ![p].queued = old.queued]
        BY <1>0, <3>4 DEF StartFails, Owners, OwnerRow
      <4> QED BY <2>14, <3>0, <4>1
    <3> QED BY <2>15, <3>1, <3>2, <3>3, <3>4
  <2>16. ASSUME NEW xs \in SUBSET Resources, Delegate(p, xs) PROVE Moved
    <3> DEFINE row == [old EXCEPT !.pc = "delegate", !.todo = xs]
    <3>1. own' = [own EXCEPT ![p] = row]
      BY <1>0, <2>16 DEF Delegate, Owners
    <3>2. /\ row \in OwnerRow /\ row.pc = "delegate" /\ row.todo = xs
          /\ row.seen = old.seen /\ row.item = old.item
      <4> HIDE DEF old
      <4> QED BY <2>0 DEF OwnerRow, OwnerSteps
    <3> HIDE DEF row
    <3>3. own'[p] = row => OwnMove(p)
      BY <2>16, <3>2 DEF OwnMove
    <3> QED BY <1>2, <2>0, <3>1, <3>2, <3>3
  <2> HIDE DEF Moved, old
  <2> QED BY <1>5, <2>1, <2>2, <2>3, <2>4, <2>5, <2>6, <2>7, <2>8, <2>9, <2>10, <2>11, <2>12,
         <2>13, <2>15, <2>16 DEF OwnerStepOf
<1>6. ASSUME NEW p \in Procs, Callback(p) \/ Cancel(p) PROVE Moved
  BY <1>1, <1>6 DEF Callback, Cancel
<1>7. ASSUME NEW p \in Procs, Die(p) PROVE Moved
  <2>1. own' = [own EXCEPT ![p] = NoOwner]
    BY <1>7 DEF Die
  <2>2. NoOwner.pc = "none" /\ NoOwner.seen = "none"
    BY DEF NoOwner
  <2>3. own'[p] = NoOwner => OwnMove(p)
    BY <1>7, <2>2 DEF OwnMove
  <2> QED BY <1>2, <2>1, <2>2, <2>3, NoOwnerType
<1>8. ASSUME NEW p \in Procs, NEW x \in Resources, WorkerStep(p, x) \/ Watch(p, x)
      PROVE  Moved
  BY <1>1, <1>8 DEF WorkerStep, Abandon, Claim, Publish, Confirm, Watch
<1>9. ASSUME NEW x \in Resources, Deadline(x) PROVE Moved
  BY <1>1, <1>9 DEF Deadline
<1>10. ASSUME LeaseExpires PROVE Moved
  BY <1>1, <1>10 DEF LeaseExpires
<1> HIDE DEF Moved
<1>11. Moved
  BY <1>5, <1>6, <1>7, <1>8, <1>9, <1>10 DEF ExploreNext
<1> QED BY <1>11 DEF Moved

-----------------------------------------------------------------------------
(* Threads, witnesses and owners after a step *)

\* The row of a claimed task keeps its attempt and its process while a thread holds it.
LEMMA HeldRow ==
  ASSUME LocalTypes, NEW x \in Resources, NEW p \in Procs, RowInv(x), ThreadInv(p, x),
         Threaded(p, x), RowMove(x)
  PROVE  /\ rec'[x].attempt = rec[x].attempt /\ rec'[x].by = rec[x].by
         /\ rec'[x].status \notin {"absent", "queued"}
         /\ \A q \in Procs : ~Claims(q, x) /\ ~Retries(q, x)
<1> DEFINE old == rec[x]
           row == rec'[x]
<1>0. /\ rec \in [Resources -> Row] /\ old \in Row /\ Account(rec[x])
      /\ old.status \notin {"absent", "queued"} /\ old.by = lease[p][R]
  BY DEF LocalTypes, RowInv, ThreadInv, Threaded
<1>1. ASSUME NEW q \in Procs PROVE ~Claims(q, x)
  BY <1>0 DEF Claims, Claimable
<1>2. ASSUME NEW q \in Procs, Retries(q, x) PROVE FALSE
  <2>1. ~old.clean /\ old.status # "queued"
    BY <1>0, <1>2 DEF Retries, RowInv
  <2>2. Stopped(x)
    BY <1>2 DEF Retries, Retry, Retried
  <2> QED BY <1>0, <2>1, <2>2 DEF Stopped, Exited
<1>3. CASE rec'[x] = rec[x]
  BY <1>0, <1>1, <1>2, <1>3
<1>4. CASE Deadline(x)
  <2>1. row = [old EXCEPT !.late = TRUE]
    BY <1>0, <1>4 DEF Deadline
  <2>2. row.attempt = old.attempt /\ row.by = old.by /\ row.status = old.status
    BY <1>0, <2>1 DEF Row
  <2> QED BY <1>0, <1>1, <1>2, <2>2
<1>5. ASSUME NEW reason \in Reasons, NEW stopped \in BOOLEAN, Given(x, reason, stopped)
      PROVE  /\ row.attempt = old.attempt /\ row.by = old.by
             /\ row.status \notin {"absent", "queued"}
  <2>1. rec[x] \in Row /\ IsActive(x) /\ rec'[x] = Invalidated(x, reason, stopped)
    BY <1>0, <1>5 DEF Given
  <2> HIDE DEF old, row
  <2>2. ASSUME NEW new, new = rec'[x]
        PROVE  /\ new.attempt = rec[x].attempt /\ new.by = rec[x].by
               /\ new.status = IF new.clean THEN reason ELSE "worker_lost"
    BY <1>0, <2>1, <2>2, Invalidates
  <2> QED BY <2>2 DEF old, row, Reasons
<1>6. ASSUME NEW q \in Procs, Publishes(q, x)
      PROVE  /\ row.attempt = old.attempt /\ row.by = old.by
             /\ row.status \notin {"absent", "queued"}
  <2>1. PICK status \in Results(q, x), charge \in 0 .. Budget :
          rec' = [rec EXCEPT ![x] = [Settle(rec[x], charge) EXCEPT
                     !.status = IF rec[x].ask # "none" THEN "cancelled" ELSE status,
                     !.clean = TRUE]]
    BY <1>6 DEF Publishes, Publish
  <2> DEFINE paid == Settle(old, charge)
             end == IF rec[x].ask # "none" THEN "cancelled" ELSE status
  <2>2. row = [paid EXCEPT !.status = end, !.clean = TRUE] /\ end \in Ended
    BY <1>0, <2>1 DEF Results, Ended, Reasons
  <2>3. paid \in Row /\ paid.attempt = old.attempt /\ paid.by = old.by
    <3>1. old \in Row /\ Account(old)
      BY <1>0
    <3> HIDE DEF old
    <3> QED BY <3>1, Settles
  <2> HIDE DEF paid, end
  <2>4. row.status = end /\ row.attempt = paid.attempt /\ row.by = paid.by
    BY <2>2, <2>3 DEF Row
  <2> QED BY <2>2, <2>3, <2>4 DEF Ended, Reasons
<1>7. ASSUME NEW q \in Procs, Confirms(q, x)
      PROVE  /\ row.attempt = old.attempt /\ row.by = old.by
             /\ row.status \notin {"absent", "queued"}
  <2>1. row = [old EXCEPT !.clean = TRUE, !.status = old.ask]
    BY <1>0, <1>7 DEF Confirms, Confirm
  <2>2. row.attempt = old.attempt /\ row.by = old.by /\ row.status = old.ask
    BY <1>0, <2>1 DEF Row
  <2> QED BY <1>0, <2>2 DEF Row, Reasons
<1>8. ASSUME NEW q \in Procs, NEW xs \in SUBSET Resources, Delegate(q, xs), x \in xs
      PROVE  FALSE
  BY <1>0, <1>8 DEF Delegate
<1> HIDE DEF old, row
<1> QED BY <1>1, <1>2, <1>3, <1>4, <1>5, <1>6, <1>7, <1>8 DEF RowMove, old, row

\* A row is not taken away.
LEMMA RowStays ==
  ASSUME LocalTypes, NEW x \in Resources, Account(rec[x]), RowMove(x), rec[x].status # "absent",
         \A p \in Procs : Confirms(p, x) => rec[x].ask # "none"
  PROVE  rec'[x].status # "absent"
<1>0. rec \in [Resources -> Row] /\ rec[x] \in Row
  BY DEF LocalTypes
<1>1. CASE rec'[x] = rec[x]
  BY <1>1
<1>2. CASE Deadline(x)
  BY <1>0, <1>2 DEF Deadline
<1>3. ASSUME NEW reason \in Reasons, NEW stopped \in BOOLEAN, Given(x, reason, stopped)
      PROVE  rec'[x].status # "absent"
  <2>1. IsActive(x) /\ rec'[x] = Invalidated(x, reason, stopped)
    BY <1>3 DEF Given
  <2>2. ASSUME NEW new, new = rec'[x]
        PROVE  new.status = IF new.clean THEN reason ELSE "worker_lost"
    BY <1>0, <2>1, <2>2, Invalidates
  <2> QED BY <2>2 DEF Reasons
<1>4. ASSUME NEW p \in Procs, Claims(p, x) PROVE rec'[x].status # "absent"
  BY <1>0, <1>4 DEF Claims, Claim, Row
<1>5. ASSUME NEW p \in Procs, Publishes(p, x) PROVE rec'[x].status # "absent"
  <2>1. PICK status \in Results(p, x), charge \in 0 .. Budget :
          rec' = [rec EXCEPT ![x] = [Settle(rec[x], charge) EXCEPT
                     !.status = IF rec[x].ask # "none" THEN "cancelled" ELSE status,
                     !.clean = TRUE]]
    BY <1>5 DEF Publishes, Publish
  <2> DEFINE old == rec[x]
             paid == Settle(old, charge)
             end == IF rec[x].ask # "none" THEN "cancelled" ELSE status
  <2>2. rec'[x] = [paid EXCEPT !.status = end, !.clean = TRUE] /\ end # "absent"
    BY <1>0, <2>1 DEF Results
  <2>3. paid \in Row
    <3>1. old \in Row /\ Account(old)
      BY <1>0
    <3> HIDE DEF old
    <3> QED BY <3>1, Settles
  <2> HIDE DEF paid, end
  <2> QED BY <2>2, <2>3 DEF Row
<1>6. ASSUME NEW p \in Procs, Confirms(p, x) PROVE rec'[x].status # "absent"
  <2>1. rec'[x] = [rec[x] EXCEPT !.clean = TRUE, !.status = rec[x].ask]
    BY <1>0, <1>6 DEF Confirms, Confirm
  <2> QED BY <1>0, <1>6, <2>1 DEF Row, Reasons
<1>7. ASSUME NEW p \in Procs, Retries(p, x) PROVE rec'[x].status # "absent"
  <2>1. PICK row \in Retried(x) : rec' = [rec EXCEPT ![x] = row]
    BY <1>7 DEF Retries, Retry
  <2> QED BY <1>0, <2>1 DEF Retried, Row
<1>8. ASSUME NEW p \in Procs, NEW xs \in SUBSET Resources, Delegate(p, xs), x \in xs
      PROVE  rec'[x].status # "absent"
  BY <1>0, <1>8 DEF Delegate, Row
<1> QED BY <1>1, <1>2, <1>3, <1>4, <1>5, <1>6, <1>7, <1>8 DEF RowMove

LEMMA Moves ==
  ASSUME ExploreInv, ExploreNext
  PROVE  /\ LeaseMove /\ \A x \in Resources : RowMove(x)
         /\ \A p \in Procs : OwnMove(p) /\ \A x \in Resources : WorkMove(p, x)
         /\ rec \in [Resources -> Row] /\ work \in Threads /\ work' \in Threads
         /\ own \in Owners /\ own' \in Owners /\ ItemInv'
  BY LeaseMoves, RowMoves, OwnMoves, WorkMoves DEF ExploreInv, LocalTypes, Threads, Owners

\* The registry acquires and loses a lease with the life of a process.
LEMMA LeaseOfThread ==
  ASSUME ExploreInv, ExploreNext, NEW p \in Procs, NEW x \in Resources,
         work[p][x].pc # "none", work'[p][x].pc # "none"
  PROVE  lease'[p][R] = lease[p][R]
<1>1. LeaseMove /\ work' \in Threads
  BY Moves
<1>2. ~Die(p)
  <2>1. Die(p) => work'[p][x] = NoWorker
    BY DEF Die, ExploreInv, LocalTypes
  <2> QED BY <2>1 DEF NoWorker
<1>3. ~Start(p)
  BY DEF Start, ExploreInv, ThreadInv, OwnerInv
<1> QED BY <1>1, <1>2, <1>3 DEF LeaseMove

\* Where a thread that has claimed its task goes.
LEMMA ThreadGoes ==
  ASSUME ExploreInv, ExploreNext, NEW p \in Procs, NEW x \in Resources, Threaded(p, x)
  PROVE  \/ work'[p][x].pc = work[p][x].pc /\ work'[p][x].attempt = work[p][x].attempt
         \/ /\ Exploring(p, x) /\ Publish(p, x) /\ work'[p][x].pc = "confirming"
            /\ work'[p][x].attempt = work[p][x].attempt
         \/ work[p][x].pc = "confirming" /\ Confirm(p, x) /\ work'[p][x] = NoWorker
         \/ Die(p) /\ work'[p][x] = NoWorker
<1>1. WorkMove(p, x) /\ OwnerInv(p)
  BY Moves DEF ExploreInv
<1> QED BY <1>1 DEF WorkMove, Threaded, Exploring, Abandon, Claims, Claim, StartWorker, Publish,
           Confirm, OwnerInv

\* The process of a claimed task has gone when it dies.
LEMMA DeathIsExit ==
  ASSUME ExploreInv, ExploreNext, NEW p \in Procs, NEW x \in Resources, Threaded(p, x), Die(p)
  PROVE  Exited(rec[x].by)'
<1>1. rec[x].by = lease[p][R] /\ lease[p][R] # 0
  BY DEF ExploreInv, ThreadInv, Threaded
<1>2. \A q \in Procs \ {p} : lease'[q][R] = lease[q][R]
  BY TheRun DEF Die, Crash, ExploreInv, OwnershipInv, TypeOK
<1>3. lease'[p][R] = 0
  BY TheRun DEF Die, Crash, ExploreInv, OwnershipInv, TypeOK
<1>4. OwnershipInv /\ rec' = rec
  BY DEF ExploreInv, Die
<1> QED BY <1>1, <1>2, <1>3, <1>4, Generation DEF Exited

LEMMA ThreadKept ==
  ASSUME ExploreInv, ExploreNext, NEW p \in Procs, NEW x \in Resources
  PROVE  ThreadInv(p, x)'
<1>0. /\ LeaseMove /\ RowMove(x) /\ WorkMove(p, x) /\ rec \in [Resources -> Row]
      /\ work \in Threads /\ work' \in Threads
  BY Moves
<1>1. /\ RowInv(x) /\ ThreadInv(p, x) /\ OwnerInv(p) /\ LocalTypes /\ Account(rec[x])
      /\ \A q \in Procs : ThreadInv(q, x)
  BY DEF ExploreInv, RowInv
<1>2. rec[x].status # "absent" => rec'[x].status # "absent"
  <2>1. ASSUME NEW q \in Procs, Confirms(q, x) PROVE rec[x].ask # "none"
    <3>1. Threaded(q, x) /\ rec[x].lost = work[q][x].attempt
      BY <2>1 DEF Confirms, Confirm, Threaded
    <3>2. rec[x].lost = rec[x].attempt /\ rec[x].status \notin {"queued", "absent"}
      BY <1>1, <3>1 DEF ThreadInv, Threaded
    <3> QED BY <1>0, <1>1, <3>2 DEF RowInv, Row, Active
  <2> QED BY <1>0, <1>1, <2>1, RowStays
\* A thread that was there.
<1>3. CASE work[p][x].pc # "none" /\ work'[p][x].pc # "none"
  <2>1. lease'[p][R] = lease[p][R] /\ lease[p][R] # 0 /\ rec[x].status # "absent"
    BY <1>1, <1>3, LeaseOfThread DEF ThreadInv
  <2>2. CASE Threaded(p, x)
    <3>1. /\ rec'[x].attempt = rec[x].attempt /\ rec'[x].by = rec[x].by
          /\ rec'[x].status \notin {"absent", "queued"}
      BY <1>0, <1>1, <2>2, HeldRow
    <3>2. work'[p][x].attempt = work[p][x].attempt
      BY <1>3, <2>2, ThreadGoes DEF NoWorker
    <3> QED BY <1>1, <2>1, <2>2, <3>1, <3>2 DEF ThreadInv, Threaded
  <2>3. CASE ~Threaded(p, x)
    <3>1. CASE Claims(p, x)
      <4>1. /\ rec[x].attempt + 1 = rec'[x].attempt /\ rec'[x].by = lease[p][R]
            /\ rec'[x].status = "running"
        BY <1>0, <3>1 DEF Claims, Claim, Row
      <4>2. work'[p][x].attempt = rec[x].attempt + 1
        BY <1>0, <3>1 DEF Claims, Claim, Threads, Worker
      <4> QED BY <1>2, <2>1, <4>1, <4>2 DEF ThreadInv
    <3>2. CASE ~Claims(p, x)
      <4>1. work[p][x].pc \notin {"exploring", "confirming"}
        BY <2>3 DEF Threaded
      <4>2. \/ work'[p][x].pc = work[p][x].pc
            \/ work'[p][x] = NoWorker
            \/ work'[p][x].pc = "waiting"
        BY <1>0, <3>2, <4>1 DEF WorkMove, Publish
      <4>3. ~Threaded(p, x)'
        BY <4>1, <4>2 DEF Threaded, NoWorker
      <4> QED BY <1>2, <2>1, <4>3 DEF ThreadInv
    <3> QED BY <3>1, <3>2
  <2> QED BY <2>2, <2>3
\* A thread that starts.
<1>4. CASE work[p][x].pc = "none" /\ work'[p][x].pc # "none"
  <2>1. StartWorker(p, x) /\ work'[p][x].pc = "waiting"
    BY <1>0, <1>4 DEF WorkMove, NoWorker, Claims, Claim, Publish
  <2>2. rec[x].status # "absent"
    BY <1>1, <2>1 DEF StartWorker, OwnerInv
  <2>3. lease'[p][R] # 0
    <3>1. lease[p][R] # 0
      BY <1>1, <2>1 DEF StartWorker, OwnerInv
    <3>2. ~Start(p)
      BY <2>1 DEF Start, StartWorker
    <3>3. ~Die(p)
      <4>1. Die(p) => work'[p][x] = NoWorker
        BY <1>1 DEF Die, LocalTypes
      <4> QED BY <1>4, <4>1 DEF NoWorker
    <3> QED BY <1>0, <3>1, <3>2, <3>3 DEF LeaseMove
  <2> QED BY <1>2, <2>1, <2>2, <2>3 DEF ThreadInv, Threaded
<1>5. CASE work'[p][x].pc = "none"
  BY <1>5 DEF ThreadInv, Threaded
<1> QED BY <1>3, <1>4, <1>5

LEMMA WitnessKept ==
  ASSUME ExploreInv, ExploreNext, NEW x \in Resources
  PROVE  WitnessInv(x)'
<1> DEFINE old == rec[x]
           row == rec'[x]
<1>0. /\ LeaseMove /\ RowMove(x) /\ rec \in [Resources -> Row] /\ work \in Threads
      /\ work' \in Threads /\ OwnershipInv
  BY Moves DEF ExploreInv
<1>1. /\ RowInv(x) /\ WitnessInv(x) /\ LocalTypes /\ Account(rec[x]) /\ old \in Row
      /\ \A p \in Procs : ThreadInv(p, x)
  BY <1>0 DEF ExploreInv, RowInv
\* Where a row that runs or lost its worker comes from.
<1>2. ASSUME row.status \in {"running", "worker_lost"}
      PROVE  \/ \E p \in Procs : Claims(p, x)
             \/ /\ old.status \in {"running", "worker_lost"} /\ row.by = old.by
                /\ row.status = "running" => old.status = "running" /\ \A p \in Procs : ~Publishes(p, x)
                /\ row.status = "worker_lost" /\ old.status = "worker_lost" =>
                      \A p \in Procs : ~Confirms(p, x)
  <2>1. ASSUME NEW p \in Procs, Publishes(p, x) PROVE FALSE
    <3>1. PICK status \in Results(p, x), charge \in 0 .. Budget :
            rec' = [rec EXCEPT ![x] = [Settle(rec[x], charge) EXCEPT
                       !.status = IF rec[x].ask # "none" THEN "cancelled" ELSE status,
                       !.clean = TRUE]]
      BY <2>1 DEF Publishes, Publish
    <3> DEFINE paid == Settle(old, charge)
               end == IF rec[x].ask # "none" THEN "cancelled" ELSE status
    <3>2. row = [paid EXCEPT !.status = end, !.clean = TRUE] /\ end \notin {"running", "worker_lost"}
      BY <1>0, <3>1 DEF Results
    <3>3. paid \in Row
      <4>1. old \in Row /\ Account(old)
        BY <1>1
      <4> HIDE DEF old
      <4> QED BY <4>1, Settles
    <3> HIDE DEF paid, end
    <3>4. row.status = end
      BY <3>2, <3>3 DEF Row
    <3> QED BY <1>2, <3>2, <3>4
  <2>2. ASSUME NEW p \in Procs, Confirms(p, x) PROVE FALSE
    <3>1. row = [old EXCEPT !.clean = TRUE, !.status = old.ask]
      BY <1>0, <2>2 DEF Confirms, Confirm
    <3>2. row.status = old.ask
      BY <1>1, <3>1 DEF Row
    <3> QED BY <1>1, <1>2, <3>2 DEF Row, Reasons
  <2>3. ASSUME NEW p \in Procs, Retries(p, x) PROVE FALSE
    <3>1. PICK new \in Retried(x) : rec' = [rec EXCEPT ![x] = new]
      BY <2>3 DEF Retries, Retry
    <3>2. row.status = "queued"
      BY <1>0, <1>1, <3>1 DEF Retried, Row
    <3> QED BY <1>2, <3>2
  <2>4. ASSUME NEW p \in Procs, NEW xs \in SUBSET Resources, Delegate(p, xs), x \in xs
        PROVE  FALSE
    <3>1. row.status = "queued"
      BY <1>0, <1>1, <2>4 DEF Delegate, Row
    <3> QED BY <1>2, <3>1
  <2>5. ASSUME NEW reason \in Reasons, NEW stopped \in BOOLEAN, Given(x, reason, stopped)
        PROVE  /\ row.status = "worker_lost" /\ row.by = old.by
               /\ old.status \in {"running", "worker_lost"}
    <3>1. rec[x] \in Row /\ IsActive(x) /\ rec'[x] = Invalidated(x, reason, stopped)
      BY <1>1, <2>5 DEF Given
    <3>2. ASSUME NEW new, new = rec'[x]
          PROVE  /\ new.by = rec[x].by /\ new.clean = (rec[x].status = "queued" \/ stopped)
                 /\ new.status = IF new.clean THEN reason ELSE "worker_lost"
      BY <1>1, <3>1, <3>2, Invalidates
    <3>3. rec'[x].status # "running" /\ (rec'[x].status = "worker_lost" => rec[x].status # "queued")
      BY <3>2 DEF Reasons
    <3> QED BY <1>2, <3>1, <3>2, <3>3 DEF IsActive, Active
  <2>6. CASE Deadline(x)
    <3>1. row = [old EXCEPT !.late = TRUE]
      BY <1>0, <2>6 DEF Deadline
    <3>2. row.status = old.status /\ row.by = old.by
      BY <1>1, <3>1 DEF Row
    <3> QED BY <1>2, <2>1, <2>2, <3>2
  <2>7. CASE rec'[x] = rec[x]
    BY <1>2, <2>1, <2>2, <2>7
  <2> HIDE DEF old, row
  <2> QED BY <1>0, <1>2, <2>1, <2>2, <2>3, <2>4, <2>5, <2>6, <2>7 DEF RowMove, old, row
<1>3. ASSUME NEW p \in Procs, Claims(p, x) PROVE WitnessInv(x)'
  <2>1. row.by = lease[p][R] /\ row.status = "running"
    BY <1>0, <1>1, <1>3 DEF Claims, Claim, Row
  <2>2. lease[p][R] # 0
    BY <1>1, <1>3 DEF Claims, Claim, ThreadInv
  <2>3. Exploring(p, x)'
    BY <1>0, <1>3 DEF Claims, Claim, Threads, Worker, Exploring
  <2> QED BY <2>1, <2>2, <2>3 DEF WitnessInv
<1>4. CASE old.status \in {"running", "worker_lost"} /\ row.by = old.by /\ Exited(old.by)
  <2>1. old.by # 0 /\ old.by <= run[R].generation /\ old.by \in Nat
    BY <1>1, <1>4, ConstantsAssumption DEF WitnessInv, RowInv, Row, Generations
  <2>2. Exited(rec[x].by)'
    <3> DEFINE g == rec[x].by
    <3>1. g \in Nat /\ g <= run[R].generation /\ g # 0 /\ Exited(g)
      BY <1>4, <2>1
    <3>2. rec'[x].by = g
      BY <1>4
    <3> HIDE DEF g
    <3>3. \A q \in Procs : lease'[q][R] # g
      BY <1>0, <3>1, Generation DEF LeaseMove, Exited
    <3> QED BY <3>2, <3>3 DEF Exited
  <2> QED BY <1>4, <2>1, <2>2 DEF WitnessInv
<1>5. ASSUME NEW p \in Procs, Threaded(p, x), row.by = old.by, ~Claims(p, x),
             row.status = "running" => old.status = "running" /\ Exploring(p, x) /\ ~Publishes(p, x),
             row.status = "worker_lost" => ~Confirms(p, x)
      PROVE  WitnessInv(x)'
  <2>0. old.by # 0 /\ old.by = lease[p][R] /\ work[p][x].attempt = old.attempt
    BY <1>1, <1>5 DEF ThreadInv, Threaded
  <2>1. CASE Die(p)
    <3>1. Exited(rec[x].by)'
      BY <1>5, <2>1, DeathIsExit
    <3> QED BY <1>5, <2>0, <3>1 DEF WitnessInv
  <2>2. CASE work'[p][x].pc = work[p][x].pc
    BY <1>5, <2>0, <2>2 DEF WitnessInv, Threaded, Exploring
  <2>3. CASE Exploring(p, x) /\ Publish(p, x) /\ work'[p][x].pc = "confirming"
    <3>1. old.status = "running" => Publishes(p, x)
      BY <2>0, <2>3 DEF Publishes, Fenced
    <3>2. row.status # "running"
      BY <1>5, <3>1
    <3> QED BY <1>5, <2>0, <2>3, <3>2 DEF WitnessInv, Threaded
  <2>4. CASE work[p][x].pc = "confirming" /\ Confirm(p, x)
    <3>1. row.status # "running"
      BY <1>5, <2>4 DEF Exploring
    <3>2. row.status # "worker_lost"
      <4>1. old.lost # old.attempt => row = old
        BY <1>0, <2>0, <2>4 DEF Confirm
      <4>2. old.lost = old.attempt => Confirms(p, x)
        BY <2>0, <2>4 DEF Confirms
      <4> QED BY <1>1, <1>5, <4>1, <4>2 DEF RowInv
    <3> QED BY <3>1, <3>2 DEF WitnessInv
  <2> QED BY <1>5, <2>1, <2>2, <2>3, <2>4, ThreadGoes
<1>6. CASE row.status \in {"running", "worker_lost"}
  <2>1. CASE \E p \in Procs : Claims(p, x)
    BY <1>3, <2>1
  <2>2. CASE ~ \E p \in Procs : Claims(p, x)
    <3>1. /\ old.status \in {"running", "worker_lost"} /\ row.by = old.by
          /\ row.status = "running" => old.status = "running" /\ \A p \in Procs : ~Publishes(p, x)
          /\ row.status = "worker_lost" /\ old.status = "worker_lost" =>
                \A p \in Procs : ~Confirms(p, x)
      BY <1>2, <1>6, <2>2
    <3>2. CASE Exited(old.by)
      BY <1>4, <3>1, <3>2
    <3>3. CASE ~Exited(old.by)
      <4>1. PICK p \in Procs : Threaded(p, x) /\ (old.status = "running" => Exploring(p, x))
        BY <1>1, <3>1, <3>3 DEF WitnessInv, Threaded, Exploring
      <4>2. row.status = "worker_lost" => ~Confirms(p, x)
        BY <3>1, <4>1 DEF Confirms, Confirm, Exploring
      <4> HIDE DEF old, row
      <4> QED BY <1>5, <2>2, <3>1, <4>1, <4>2
    <3> QED BY <3>2, <3>3
  <2> QED BY <2>1, <2>2
<1>7. CASE row.status \notin {"running", "worker_lost"}
  BY <1>7 DEF WitnessInv
<1> QED BY <1>6, <1>7

LEMMA OwnerKept ==
  ASSUME ExploreInv, ExploreNext, NEW p \in Procs
  PROVE  OwnerInv(p)'
<1>0. /\ LeaseMove /\ OwnMove(p) /\ OwnershipInv /\ OwnerInv(p) /\ LocalTypes
      /\ work \in Threads /\ work' \in Threads /\ own \in Owners /\ own' \in Owners
      /\ rec \in [Resources -> Row]
  BY Moves DEF ExploreInv
<1>1. \A x \in Resources : WorkMove(p, x) /\ ThreadInv(p, x)
  BY Moves DEF ExploreInv
\* A process without a thread for a task gets one only from StartWorker.
<1>2. ASSUME NEW x \in Resources, work[p][x].pc = "none", ~StartWorker(p, x)
      PROVE  work'[p][x].pc = "none"
  <2>1. ~Claims(p, x) /\ ~Publish(p, x)
    BY <1>2 DEF Claims, Claim, Publish
  <2>2. work'[p][x].pc = work[p][x].pc \/ work'[p][x] = NoWorker
    BY <1>1, <1>2, <2>1 DEF WorkMove
  <2> QED BY <1>2, <2>2 DEF NoWorker
<1>3. ASSUME NEW x \in Resources, rec[x].status # "absent" PROVE rec'[x].status # "absent"
  <2>1. RowMove(x) /\ RowInv(x) /\ \A q \in Procs : ThreadInv(q, x)
    BY Moves DEF ExploreInv
  <2>2. ASSUME NEW q \in Procs, Confirms(q, x) PROVE rec[x].ask # "none"
    <3>1. Threaded(q, x) /\ rec[x].lost = work[q][x].attempt
      BY <2>2 DEF Confirms, Confirm, Threaded
    <3>2. rec[x].lost = rec[x].attempt /\ rec[x].status \notin {"queued", "absent"}
      BY <2>1, <3>1 DEF ThreadInv, Threaded
    <3> QED BY <1>0, <2>1, <3>2 DEF RowInv, Row, Active
  <2> QED BY <1>0, <1>3, <2>1, <2>2, RowStays DEF RowInv
<1>4. CASE Start(p)
  <2>1. own'[p].pc = "reconcile" /\ lease'[p][R] # 0
    <3>1. own'[p].pc = "reconcile"
      BY <1>0, <1>4 DEF Start, Owners, OwnerRow
    <3>2. lease'[p][R] = run[R].generation + 1
      BY <1>0, <1>4, TheRun DEF Start, Acquire, OwnershipInv, TypeOK
    <3> QED BY <1>0, <3>1, <3>2, Generation
  <2>2. lease[p][R] = 0 /\ work' = work
    BY <1>0, <1>4 DEF Start, OwnerInv
  <2>3. \A x \in Resources : work'[p][x].pc = "none"
    BY <1>1, <2>2 DEF ThreadInv
  <2> QED BY <2>1, <2>3 DEF OwnerInv, Idle, Busy
<1>5. CASE Die(p)
  <2>1. own'[p].pc = "none"
    BY <1>0, <1>5 DEF Die, Owners, NoOwner
  <2>2. lease'[p][R] = 0
    BY <1>0, <1>5, TheRun DEF Die, Crash, OwnershipInv, TypeOK
  <2> QED BY <2>1, <2>2 DEF OwnerInv
<1>6. CASE ~Start(p) /\ ~Die(p)
  <2>1. lease'[p][R] = lease[p][R]
    BY <1>0, <1>6 DEF LeaseMove
  <2>2. CASE own'[p].pc = own[p].pc /\ own'[p].todo \subseteq own[p].todo
    <3>1. own[p].pc \in {"reconcile", "writing"} => Idle(p)'
      <4> SUFFICES ASSUME own[p].pc \in {"reconcile", "writing"}, NEW x \in Resources
                   PROVE  work'[p][x].pc = "none"
        BY DEF Idle, Busy
      <4>1. work[p][x].pc = "none"
        BY <1>0 DEF OwnerInv, Idle, Busy
      <4>2. ~StartWorker(p, x)
        BY DEF StartWorker
      <4> QED BY <1>2, <4>1, <4>2
    <3>2. ASSUME own[p].pc \in {"restore", "delegate"}, NEW x \in Resources, x \in own'[p].todo
          PROVE  work'[p][x].pc = "none" /\ rec'[x].status # "absent"
      <4>1. work[p][x].pc = "none" /\ rec[x].status # "absent"
        BY <1>0, <2>2, <3>2 DEF OwnerInv
      <4>2. ~StartWorker(p, x)
        <5>1. StartWorker(p, x) => own'[p].todo = own[p].todo \ {x}
          BY <1>0 DEF StartWorker, Owners, OwnerRow
        <5> QED BY <3>2, <5>1
      <4> QED BY <1>2, <1>3, <4>1, <4>2
    <3>3. own'[p].todo \subseteq Resources
      BY <1>0 DEF Owners, OwnerRow
    <3> QED BY <1>0, <2>1, <2>2, <3>1, <3>2, <3>3 DEF OwnerInv
  <2>3. CASE /\ own[p].pc # "none"
             /\ own'[p].pc \notin {"none", "reconcile", "restore", "delegate", "writing"}
    BY <1>0, <2>1, <2>3 DEF OwnerInv
  <2>4. CASE Write(p) /\ own'[p].pc = "writing"
    <3>1. work' = work /\ Idle(p) /\ own[p].pc = "draining"
      BY <2>4 DEF Write, Quiet
    <3> QED BY <1>0, <2>1, <2>4, <3>1 DEF OwnerInv, Idle, Busy
  <2>5. CASE /\ EndReconcile(p) /\ own[p].pc = "reconcile" /\ own'[p].pc = "restore"
             /\ own'[p].todo = {x \in Resources : IsActive(x)}
    <3>1. work' = work /\ rec' = rec /\ Idle(p)
      BY <1>0, <2>5 DEF EndReconcile, OwnerInv
    <3>2. \A x \in own'[p].todo : work'[p][x].pc = "none" /\ rec'[x].status # "absent"
      BY <2>5, <3>1 DEF Idle, Busy, IsActive, Active
    <3> QED BY <1>0, <2>1, <2>5, <3>2 DEF OwnerInv
  <2>6. ASSUME NEW xs \in SUBSET Resources, Delegate(p, xs), own'[p].pc = "delegate", own'[p].todo = xs
        PROVE  OwnerInv(p)'
    <3>1. work' = work /\ own[p].pc = "open" /\ \A x \in xs : rec[x].status = "absent"
      BY <2>6 DEF Delegate
    <3>2. \A x \in xs : work'[p][x].pc = "none"
      BY <1>1, <3>1 DEF ThreadInv
    <3>3. \A x \in xs : rec'[x].status # "absent"
      BY <1>0, <2>6 DEF Delegate, Row
    <3> QED BY <1>0, <2>1, <2>6, <3>1, <3>2, <3>3 DEF OwnerInv
  <2> QED BY <1>0, <1>6, <2>2, <2>3, <2>4, <2>5, <2>6 DEF OwnMove
<1> QED BY <1>4, <1>5, <1>6

-----------------------------------------------------------------------------
(* The invariant *)

LEMMA ExploreInvInit == ExploreInit => ExploreInv
<1> SUFFICES ASSUME ExploreInit PROVE ExploreInv
  OBVIOUS
<1> USE DEF ExploreInit
<1>1. OwnershipInv
  BY InitOwnership
<1>2. LocalTypes
  <2>1. 0 \in 0 .. MaxAttempts /\ 0 \in Nat /\ 0 \in Generations
    BY ExplorationAssumption, ConstantsAssumption DEF Generations
  <2>2. rec \in [Resources -> Row]
    BY <2>1 DEF Row
  <2>3. work \in [Procs -> [Resources -> Worker]]
    BY NoWorkerType
  <2>4. own \in [Procs -> OwnerRow]
    BY NoOwnerType
  <2>5. token \in [Procs -> {"live", "cancelled", "told"}]
    OBVIOUS
  <2> QED BY <2>2, <2>3, <2>4, <2>5 DEF LocalTypes
<1>3. \A p \in Procs : /\ lease[p][R] = 0 /\ own[p] = NoOwner
                       /\ \A x \in Resources : work[p][x] = NoWorker
  BY TheRun DEF Init
<1>4. ItemInv
  BY <1>3 DEF ItemInv, NoOwner
<1>5. ASSUME NEW x \in Resources PROVE RowInv(x) /\ WitnessInv(x)
  <2>1. /\ rec[x].status = "absent" /\ rec[x].ask = "none" /\ rec[x].lost = 0
        /\ rec[x].attempt = 0 /\ rec[x].charged = 0 /\ rec[x].paid = 0 /\ rec[x].settled
        /\ rec[x].clean = FALSE /\ rec[x].by = 0
    OBVIOUS
  <2>2. 0 <= run[R].generation
    BY <1>1, Generation
  <2> QED BY <2>1, <2>2 DEF RowInv, WitnessInv, Account, Ended, Reasons
<1>6. ASSUME NEW p \in Procs, NEW x \in Resources PROVE ThreadInv(p, x)
  BY <1>3 DEF ThreadInv, Threaded, NoWorker
<1>7. ASSUME NEW p \in Procs PROVE OwnerInv(p)
  BY <1>3 DEF OwnerInv, NoOwner
<1> QED BY <1>1, <1>2, <1>4, <1>5, <1>6, <1>7 DEF ExploreInv

LEMMA TokenKept == LocalTypes /\ ExploreNext => token' \in [Procs -> {"live", "cancelled", "told"}]
<1> SUFFICES ASSUME LocalTypes, ExploreNext PROVE token' \in [Procs -> {"live", "cancelled", "told"}]
  OBVIOUS
<1>0. token \in [Procs -> {"live", "cancelled", "told"}]
  BY DEF LocalTypes
<1>1. ASSUME NEW p \in Procs, OwnerStepOf(p) PROVE token' = token
  BY <1>1 DEF OwnerStepOf, Start, Look, RecordRow, EndReconcile, Restored, Inspect, Ask, Retry,
     StartWorker, StartFails, Delegate, BeginWrite, Write, Written, Release, Raise, Skip,
     EnterCancel, EndCancel, CloseRuntime, Joined, CloseBinding, LoseOwnership
<1>2. ASSUME NEW p \in Procs, NEW x \in Resources, WorkerStep(p, x) \/ Watch(p, x)
      PROVE  token' = token
  BY <1>2 DEF WorkerStep, Abandon, Claim, Publish, Confirm, Watch
<1>3. ASSUME NEW p \in Procs, Callback(p) \/ Cancel(p) \/ Die(p)
      PROVE  token' \in [Procs -> {"live", "cancelled", "told"}]
  BY <1>0, <1>3 DEF Callback, Cancel, Die
<1> QED BY <1>0, <1>1, <1>2, <1>3 DEF ExploreNext, Deadline, LeaseExpires

\* A step writes one row, or the rows of a batch, or those of a cancellation.
LEMMA RecShape ==
  ASSUME LocalTypes, ExploreNext
  PROVE  \/ rec' = rec
         \/ \E y \in Resources : rec' = [rec EXCEPT ![y] = rec'[y]]
         \/ rec' = [x \in Resources |-> rec'[x]]
<1> DEFINE Shape == \/ rec' = rec
                    \/ \E y \in Resources : rec' = [rec EXCEPT ![y] = rec'[y]]
                    \/ rec' = [x \in Resources |-> rec'[x]]
<1>0. rec \in [Resources -> Row]
  BY DEF LocalTypes
<1>1. ASSUME NEW y \in Resources, NEW row, rec' = [rec EXCEPT ![y] = row] PROVE Shape
  <2>1. row = rec'[y]
    BY <1>0, <1>1
  <2> QED BY <1>1, <2>1
<1>2. ASSUME NEW p \in Procs, CancelAll(p) PROVE Shape
  <2>1. rec' = [x \in Resources |-> Invalidated(x, "cancelled", FALSE)]
    BY <1>2 DEF CancelAll
  <2>2. \A x \in Resources : rec'[x] = Invalidated(x, "cancelled", FALSE)
    BY <2>1
  <2> QED BY <2>1, <2>2
<1>3. ASSUME NEW y \in Resources, NEW reason, NEW stopped, Invalidate(y, reason, stopped)
      PROVE  Shape
  BY <1>1, <1>3 DEF Invalidate
<1>4. ASSUME NEW p \in Procs, NEW y \in Resources, WorkerStep(p, y) \/ Watch(p, y)
      PROVE  Shape
  <2>1. CASE Abandon(p, y) \/ Watch(p, y)
    BY <1>3, <2>1 DEF Abandon, Watch
  <2>2. CASE Claim(p, y)
    <3>1. rec' = rec \/ \E row : rec' = [rec EXCEPT ![y] = row]
      <4>1. CASE Claimable(y)
        <5>1. rec' = [rec EXCEPT ![y] = [rec[y] EXCEPT !.status = "running", !.attempt = @ + 1,
                                           !.by = lease[p][R], !.clean = FALSE]]
          BY <1>0, <2>2, <4>1 DEF Claim
        <5> QED BY <5>1
      <4>2. CASE ~Claimable(y)
        BY <2>2, <4>2 DEF Claim
      <4> QED BY <4>1, <4>2
    <3> QED BY <1>1, <3>1
  <2>3. CASE Publish(p, y)
    <3>1. rec' = rec \/ \E row : rec' = [rec EXCEPT ![y] = row]
      BY <2>3 DEF Publish
    <3> QED BY <1>1, <3>1
  <2>4. CASE Confirm(p, y)
    <3>1. CASE rec' = rec
      BY <3>1
    <3>2. CASE rec' # rec
      <4>1. rec' = [rec EXCEPT ![y] = [rec[y] EXCEPT !.clean = TRUE, !.status = rec[y].ask]]
        BY <1>0, <2>4, <3>2 DEF Confirm
      <4> QED BY <1>1, <4>1
    <3> QED BY <3>1, <3>2
  <2> QED BY <1>4, <2>1, <2>2, <2>3, <2>4 DEF WorkerStep
<1>5. ASSUME NEW p \in Procs, OwnerStepOf(p) PROVE Shape
  <2>1. CASE \/ Start(p) \/ Look(p) \/ RecordRow(p) \/ EndReconcile(p) \/ Restored(p)
             \/ Write(p) \/ Written(p) \/ Raise(p) \/ Skip(p) \/ EnterCancel(p) \/ EndCancel(p)
             \/ Joined(p) \/ CloseBinding(p) \/ LoseOwnership(p)
             \/ (\E y \in Resources : Inspect(p, y))
             \/ (\E status \in {"released", "failed"} : Release(p, status))
    BY <2>1 DEF Start, Look, RecordRow, EndReconcile, Restored, Write, Written, Raise, Skip,
       EnterCancel, EndCancel, Joined, CloseBinding, LoseOwnership, Inspect, Release
  <2>2. CASE BeginWrite(p) \/ CloseRuntime(p) \/ \E y \in Resources : Ask(p, y)
    BY <1>2, <2>2 DEF BeginWrite, CloseRuntime, Ask
  <2>3. ASSUME NEW y \in Resources, Retry(p, y) \/ StartWorker(p, y) \/ StartFails(p, y)
        PROVE  Shape
    <3>1. CASE Retry(p, y)
      <4>1. rec' = rec \/ \E row : rec' = [rec EXCEPT ![y] = row]
        BY <3>1 DEF Retry
      <4> QED BY <1>1, <4>1
    <3>2. CASE StartWorker(p, y) \/ StartFails(p, y)
      BY <1>3, <3>2 DEF StartWorker, StartFails
    <3> QED BY <2>3, <3>1, <3>2
  <2>4. ASSUME NEW xs \in SUBSET Resources, Delegate(p, xs) PROVE Shape
    <3> DEFINE new(x) == IF x \in xs
                         THEN [rec[x] EXCEPT !.status = "queued", !.charged = Budget, !.settled = FALSE]
                         ELSE rec[x]
    <3>1. rec' = [x \in Resources |-> new(x)]
      BY <2>4 DEF Delegate
    <3> HIDE DEF new
    <3>2. \A x \in Resources : rec'[x] = new(x)
      BY <3>1
    <3> QED BY <3>1, <3>2
  <2> HIDE DEF Shape
  <2> QED BY <1>5, <2>1, <2>2, <2>3, <2>4 DEF OwnerStepOf, Shape
<1>6. ASSUME NEW p \in Procs, Callback(p) \/ Cancel(p) \/ Die(p) PROVE Shape
  BY <1>2, <1>6 DEF Callback, Cancel, Die
<1>7. ASSUME NEW y \in Resources, Deadline(y) PROVE Shape
  <2>1. rec' = [rec EXCEPT ![y] = [rec[y] EXCEPT !.late = TRUE]]
    BY <1>0, <1>7 DEF Deadline
  <2> QED BY <1>1, <2>1
<1>8. ASSUME LeaseExpires PROVE Shape
  BY <1>8 DEF LeaseExpires
<1> HIDE DEF Shape
<1>9. Shape
  BY <1>4, <1>5, <1>6, <1>7, <1>8 DEF ExploreNext
<1> QED BY <1>9 DEF Shape

LEMMA RecKept ==
  ASSUME ExploreInv, ExploreNext
  PROVE  rec' \in [Resources -> Row] /\ \A x \in Resources : RowInv(x)'
<1>1. \A x \in Resources : rec'[x] \in Row /\ RowInv(x)'
  BY Moves, RowKept DEF ExploreInv
<1>2. rec \in [Resources -> Row] /\ LocalTypes
  BY DEF ExploreInv, LocalTypes
<1> QED BY <1>1, <1>2, RecShape

LEMMA ExploreInvStep == ExploreInv /\ [ExploreNext]_exploreVars => ExploreInv'
<1> SUFFICES ASSUME ExploreInv, [ExploreNext]_exploreVars PROVE ExploreInv'
  OBVIOUS
<1>1. OwnershipInv'
  BY StepsOfTheRegistry, StepOwnership DEF ExploreInv
<1>2. CASE ExploreNext
  <2>1. LocalTypes'
    BY <1>2, Moves, RecKept, TokenKept DEF ExploreInv, LocalTypes, Threads, Owners
  <2>2. \A x \in Resources : RowInv(x)'
    BY <1>2, RecKept
  <2>3. \A x \in Resources : WitnessInv(x)'
    BY <1>2, WitnessKept
  <2>4. \A p \in Procs, x \in Resources : ThreadInv(p, x)'
    BY <1>2, ThreadKept
  <2>5. \A p \in Procs : OwnerInv(p)'
    BY <1>2, OwnerKept
  <2>6. ItemInv'
    BY <1>2, Moves
  <2> QED BY <1>1, <2>1, <2>2, <2>3, <2>4, <2>5, <2>6 DEF ExploreInv
<1>3. CASE UNCHANGED exploreVars
  BY <1>1, <1>3 DEF exploreVars, registry, ExploreInv, LocalTypes, ItemInv, RowInv, Account,
     WitnessInv, ThreadInv, OwnerInv, Threaded, Exploring, Exited, Idle, Busy
<1> QED BY <1>2, <1>3

\* Where the registry, the rows, the threads and the owners are whatever happens to the
\* processes: a thread belongs to the last attempt of its task and to a process that has not
\* exited, a row that runs or lost its worker has that thread or an exited process, and an owner
\* that reconciles or writes has no thread.
THEOREM ExplorationInvariant == ExploreSpec => []ExploreInv
  BY ExploreInvInit, ExploreInvStep, PTL DEF ExploreSpec

\* Type correctness of the rows, the threads, the owners and the tokens, with the registry.
THEOREM ExploreTypeCorrect == ExploreSpec => []ExploreTypeOK
<1>1. ExploreInv => ExploreTypeOK
  BY TypesSplit DEF ExploreInv, OwnershipInv
<1> QED BY <1>1, ExplorationInvariant, PTL

\* An exploration has one worker at a time, whichever processes take the run over: the claim of
\* a retried task waits for the end of the process that held the attempt.
THEOREM OneWorkerAtATime == ExploreSpec => []OneWorker
<1>1. ExploreInv => OneWorker
  <2> SUFFICES ASSUME ExploreInv, NEW p \in Procs, NEW q \in Procs, NEW x \in Resources,
                      Exploring(p, x), Exploring(q, x)
               PROVE  p = q
    BY DEF OneWorker
  <2>1. lease[p][R] # 0 /\ lease[p][R] = lease[q][R]
    BY DEF ExploreInv, ThreadInv, Threaded, Exploring
  <2> QED BY <2>1, Generation DEF ExploreInv
<1> QED BY <1>1, ExplorationInvariant, PTL

\* While an owner writes, no worker of its process explores: drain lets the write begin only
\* when the threads have ended, and none starts before the write is over.
THEOREM OwnerWritesAlone == ExploreSpec => []WritesAreAlone
<1>1. ExploreInv => WritesAreAlone
  BY DEF ExploreInv, OwnerInv, WritesAreAlone, Idle, Busy, Exploring
<1> QED BY <1>1, ExplorationInvariant, PTL

\* A lost worker will be found to have ended: the thread of the lost attempt is still there to
\* confirm it, or its process has exited.
THEOREM LostWorkersHaveWitness == ExploreSpec => []LostHaveWitness
<1>1. ExploreInv => LostHaveWitness
  <2> SUFFICES ASSUME ExploreInv, NEW x \in Resources, rec[x].status = "worker_lost",
                      ~Exited(rec[x].by)
               PROVE  \E p \in Procs : /\ work[p][x].pc \in {"exploring", "confirming"}
                                       /\ work[p][x].attempt = rec[x].lost
    BY DEF LostHaveWitness
  <2>1. PICK p \in Procs : Threaded(p, x)
    BY DEF ExploreInv, WitnessInv
  <2>2. work[p][x].attempt = rec[x].attempt /\ rec[x].lost = rec[x].attempt
    BY <2>1 DEF ExploreInv, ThreadInv, RowInv
  <2> QED BY <2>1, <2>2 DEF Threaded
<1> QED BY <1>1, ExplorationInvariant, PTL

-----------------------------------------------------------------------------
(* Cleanup under one owner *)

LEMMA CleanKept == ExploreInv /\ CleanUnderOneOwner /\ [ExploreNext]_exploreVars => CleanUnderOneOwner'
<1> SUFFICES ASSUME ExploreInv, CleanUnderOneOwner, [ExploreNext]_exploreVars
             PROVE  CleanUnderOneOwner'
  OBVIOUS
<1>1. CASE UNCHANGED exploreVars
  BY <1>1 DEF exploreVars, registry, CleanUnderOneOwner, CleanMeansStopped, Exploring
<1>2. CASE ExploreNext
  <2> SUFFICES ASSUME run'[R].generation <= 1, NEW p \in Procs, NEW x \in Resources,
                      rec'[x].clean, Exploring(p, x)'
               PROVE  FALSE
    BY DEF CleanUnderOneOwner, CleanMeansStopped, Exploring
  <2>0. /\ OwnershipInv /\ RowInv(x) /\ ThreadInv(p, x) /\ LocalTypes /\ RowMove(x) /\ WorkMove(p, x)
        /\ LeaseMove /\ rec \in [Resources -> Row] /\ work \in Threads /\ work' \in Threads
        /\ Account(rec[x])
    BY <1>2, Moves DEF ExploreInv, RowInv
  <2>1. run[R].generation <= 1
    BY <2>0, Generation DEF LeaseMove
  \* The row has ended, and its thread was there before.
  <2>2. rec'[x].status # "running"
    BY <1>2, RecKept DEF RowInv
  <2>3. ~Claims(p, x)
    BY <2>0, <2>2 DEF Claims, Claim, Row
  <2>4. Exploring(p, x)
    BY <2>0, <2>3 DEF WorkMove, Exploring, NoWorker
  <2>5. ~rec[x].clean
    BY <2>1, <2>4 DEF CleanUnderOneOwner, CleanMeansStopped
  <2>6. Threaded(p, x) /\ rec[x].status \notin {"absent", "queued"} /\ lease[p][R] = 1
    <3>1. Threaded(p, x) /\ rec[x].status \notin {"absent", "queued"} /\ lease[p][R] # 0
      BY <2>0, <2>4 DEF ThreadInv, Threaded, Exploring
    <3>2. lease[p][R] \in Nat /\ lease[p][R] <= run[R].generation /\ run[R].generation \in Nat
      BY <2>0, Generation
    <3> QED BY <2>1, <3>1, <3>2
  \* No other process holds the run.
  <2>7. ASSUME NEW q \in Procs, lease[q][R] # 0 PROVE q = p
    <3>1. lease[q][R] \in Nat /\ lease[q][R] <= run[R].generation /\ run[R].generation \in Nat
      BY <2>0, Generation
    <3>2. lease[q][R] = 1
      BY <2>1, <2>7, <3>1
    <3> QED BY <2>0, <2>6, <3>2, Generation
  <2>8. \A q \in Procs : ~Claims(q, x) /\ ~Retries(q, x)
    BY <2>0, <2>6, HeldRow
  <2>9. ASSUME NEW q \in Procs, Abandon(q, x) \/ StartWorker(q, x) \/ StartFails(q, x) PROVE FALSE
    <3>1. lease[q][R] # 0
      BY <2>9 DEF Abandon, StartWorker, StartFails, Visiting, ExploreInv, ThreadInv, OwnerInv
    <3>2. q = p
      BY <2>7, <3>1
    <3>3. ~Abandon(p, x)
      BY <2>4 DEF Abandon, Exploring
    <3>4. work[p][x].pc = "none"
      BY <2>9, <3>2, <3>3 DEF StartWorker, StartFails, Visiting, ExploreInv, OwnerInv
    <3> QED BY <2>4, <3>4 DEF Exploring
  <2>10. ASSUME NEW q \in Procs, Publishes(q, x) \/ Confirms(q, x) PROVE FALSE
    <3>1. work[q][x].pc # "none"
      BY <2>10 DEF Publishes, Publish, Confirms, Confirm
    <3>2. q = p
      BY <2>7, <3>1 DEF ExploreInv, ThreadInv
    <3>3. Publish(p, x)
      BY <2>4, <2>10, <3>2 DEF Publishes, Confirms, Confirm, Exploring
    <3>4. work'[p][x].pc = "confirming"
      <4>1. work'[p][x] = [work[p][x] EXCEPT !.pc = "confirming"] /\ work[p][x] \in Worker
        <5> DEFINE w == [work[p][x] EXCEPT !.pc = "confirming"]
        <5>1. work' = [work EXCEPT ![p][x] = w]
          BY <2>0, <3>3 DEF Publish, Threads
        <5> HIDE DEF w
        <5>2. work'[p][x] = w /\ work[p][x] \in Worker
          BY <2>0, <5>1 DEF Threads
        <5> QED BY <5>2 DEF w
      <4> QED BY <4>1 DEF Worker
    <3> QED BY <3>4 DEF Exploring
  <2>11. ASSUME NEW reason \in Reasons, Given(x, reason, FALSE) PROVE FALSE
    <3>1. rec[x] \in Row /\ IsActive(x) /\ rec'[x] = Invalidated(x, reason, FALSE)
      BY <2>0, <2>11 DEF Given
    <3>2. ASSUME NEW new, new = rec'[x] PROVE new.clean = (rec[x].status = "queued" \/ FALSE)
      BY <2>0, <3>1, <3>2, Invalidates
    <3>3. rec'[x].clean = (rec[x].status = "queued" \/ FALSE)
      BY <3>2
    <3> QED BY <2>6, <3>3
  <2>12. ~ Deadline(x)
    <3>1. Deadline(x) => rec'[x] = [rec[x] EXCEPT !.late = TRUE]
      BY <2>0 DEF Deadline
    <3> QED BY <2>0, <2>5, <3>1 DEF Row
  <2>13. ASSUME NEW q \in Procs, NEW xs \in SUBSET Resources, Delegate(q, xs), x \in xs PROVE FALSE
    BY <2>6, <2>13 DEF Delegate
  <2> QED BY <2>0, <2>5, <2>8, <2>9, <2>10, <2>11, <2>12, <2>13 DEF RowMove
<1> QED BY <1>1, <1>2

\* Before any takeover a row says that its cleanup is confirmed only once no thread explores for
\* it, whoever invalidated it: under one owner only the thread itself, or an owner that knows
\* that there is none, confirms it.
THEOREM CleanRowsHaveStopped == ExploreSpec => []CleanUnderOneOwner
<1>1. ExploreInit => CleanUnderOneOwner
  BY DEF ExploreInit, CleanUnderOneOwner, CleanMeansStopped
<1>2. ExploreInit => ExploreInv
  BY ExploreInvInit
<1>3. ExploreInv /\ CleanUnderOneOwner /\ [ExploreNext]_exploreVars
        => ExploreInv' /\ CleanUnderOneOwner'
  BY ExploreInvStep, CleanKept
<1> QED BY <1>1, <1>2, <1>3, PTL DEF ExploreSpec

-----------------------------------------------------------------------------
(* Tokens *)

\* What each row is charged.
Charges(rows) == [x \in Resources |-> rows[x].charged]

\* The fold of the model is the sum of this function.
LEMMA ChargedIsSum == Charged = SumOf(Charges(rec), Resources)
<1> DEFINE f == Charges(rec)
           body(g, s) == IF s = {} THEN 0 ELSE rec[Chosen(s)].charged + g[s \ {Chosen(s)}]
           sums == CHOOSE g : g = [s \in SUBSET Resources |-> body(g, s)]
           base == Sums(f, Resources)
           X == {T \in SUBSET Resources : sums[T] = base[T]}
<1>0. IsFiniteSet(Resources)
  BY ExplorationAssumption
<1>1. Charged = sums[Resources]
  BY DEF Charged, MapThenSumSet, MapThenFoldSet, Chosen
<1>2. \A T \in SUBSET Resources :
         base[T] = IF T = {} THEN 0 ELSE f[Chosen(T)] + base[T \ {Chosen(T)}]
  BY <1>0, SumsStep
<1>3. \A T \in SUBSET Resources : T # {} => f[Chosen(T)] = rec[Chosen(T)].charged
  BY ChosenIsMember DEF Charges
<1>4. \E g : g = [s \in SUBSET Resources |-> body(g, s)]
  <2> DEFINE g == [s \in SUBSET Resources |-> base[s]]
  <2>1. ASSUME NEW s \in SUBSET Resources PROVE g[s] = body(g, s)
    <3>1. CASE s = {}
      BY <1>2, <3>1
    <3>2. CASE s # {}
      <4>1. s \ {Chosen(s)} \in SUBSET Resources
        OBVIOUS
      <4>2. base[s] = rec[Chosen(s)].charged + base[s \ {Chosen(s)}]
        BY <1>2, <1>3, <3>2
      <4> HIDE DEF base
      <4> QED BY <3>2, <4>1, <4>2
    <3> QED BY <3>1, <3>2
  <2> DEFINE h == [s \in SUBSET Resources |-> body(g, s)]
  <2>2. g = h
    <3> HIDE DEF base, body
    <3> QED BY <2>1
  <2> HIDE DEF g, body
  <2> QED BY <2>2
<1>5. sums = [s \in SUBSET Resources |-> body(sums, s)]
  <2> HIDE DEF body
  <2> QED BY <1>4
<1>6. \A T \in SUBSET Resources : sums[T] = body(sums, T)
  <2> HIDE DEF sums, body
  <2> QED BY <1>5
<1>7. {} \in X
  BY <1>2, <1>6
<1>8. ASSUME NEW T \in SUBSET Resources, \A x \in T : T \ {x} \in X PROVE T \in X
  <2>1. CASE T = {}
    BY <1>7, <2>1
  <2>2. CASE T # {}
    <3>1. T \ {Chosen(T)} \in X
      BY <1>8, <2>2, ChosenIsMember
    <3>2. sums[T] = rec[Chosen(T)].charged + sums[T \ {Chosen(T)}]
      BY <1>6, <2>2
    <3>3. base[T] = rec[Chosen(T)].charged + base[T \ {Chosen(T)}]
      BY <1>2, <1>3, <2>2
    <3> HIDE DEF sums, base
    <3> QED BY <3>1, <3>2, <3>3
  <2> QED BY <2>1, <2>2
<1>9. Resources \in X
  <2> HIDE DEF X
  <2> QED BY <1>0, <1>7, <1>8, SubsetInduction
<1>10. SumOf(f, Resources) = base[Resources]
  BY SumUnfold
<1> QED BY <1>1, <1>9, <1>10

WithinTokens == Charged <= RunTokens

LEMMA ChargesAreNaturals ==
  ASSUME NEW rows \in [Resources -> Row]
  PROVE  /\ \A x \in Resources : /\ Charges(rows)[x] = rows[x].charged
                                 /\ Charges(rows)[x] \in Nat /\ Charges(rows)[x] \in Int
         /\ SumOf(Charges(rows), Resources) \in Nat
<1>1. \A x \in Resources : /\ Charges(rows)[x] = rows[x].charged
                           /\ Charges(rows)[x] \in Nat /\ Charges(rows)[x] \in Int
  BY DEF Charges, Row
<1>2. SumOf(Charges(rows), Resources) \in Nat
  BY <1>1, SumOfNaturals, ExplorationAssumption
<1> QED BY <1>1, <1>2

LEMMA TokensKept == ExploreInv /\ WithinTokens /\ [ExploreNext]_exploreVars => WithinTokens'
<1> SUFFICES ASSUME ExploreInv, WithinTokens, [ExploreNext]_exploreVars PROVE WithinTokens'
  OBVIOUS
<1> DEFINE old == Charges(rec)
           new == Charges(rec')
           before == SumOf(old, Resources)
           after == SumOf(new, Resources)
<1>0. /\ rec \in [Resources -> Row] /\ IsFiniteSet(Resources) /\ LocalTypes
      /\ Budget \in Nat /\ Budget \in Int /\ RunTokens \in Nat
  BY ExplorationAssumption DEF ExploreInv, LocalTypes
<1>1. Charged = before /\ Charged' = after
  <2>1. (Charged = SumOf(Charges(rec), Resources))'
    BY ChargedIsSum, PTL
  <2> QED BY <2>1, ChargedIsSum
<1>2. CASE UNCHANGED exploreVars
  <2>1. rec' = rec
    BY <1>2 DEF exploreVars
  <2>2. after = before
    BY <2>1
  <2> QED BY <1>1, <2>2 DEF WithinTokens
<1>3. CASE ExploreNext
  <2>0. rec' \in [Resources -> Row]
    BY <1>3, RecKept
  <2>1. /\ \A x \in Resources : old[x] = rec[x].charged /\ old[x] \in Int
        /\ \A x \in Resources : new[x] = rec'[x].charged /\ new[x] \in Int
        /\ before \in Nat /\ after \in Nat
    <3>1. /\ \A x \in Resources : old[x] = rec[x].charged /\ old[x] \in Int
          /\ before \in Nat
      BY <1>0, ChargesAreNaturals
    <3>2. /\ \A x \in Resources : new[x] = rec'[x].charged /\ new[x] \in Int
          /\ after \in Nat
      BY <2>0, ChargesAreNaturals
    <3> QED BY <3>1, <3>2
  <2>2. ASSUME NEW p \in Procs, NEW y \in Resources, Retries(p, y) PROVE after <= RunTokens
    <3>1. PICK row \in Retried(y) : rec' = [rec EXCEPT ![y] = row]
      BY <2>2 DEF Retries, Retry
    <3>2. rec'[y] = row /\ \A x \in Resources \ {y} : rec'[x] = rec[x]
      BY <1>0, <3>1
    <3>3. Charged + Budget <= RunTokens /\ row.charged = rec[y].charged + Budget
      <4>1. row = [rec[y] EXCEPT !.status = "queued", !.ask = "none", !.settled = FALSE,
                      !.clean = FALSE, !.late = FALSE, !.charged = @ + Budget,
                      !.paid = IF rec[y].settled THEN @ ELSE @ + Budget]
            /\ ~(Charged + Budget > RunTokens)
        BY <3>1 DEF Retried
      <4>2. row.charged = rec[y].charged + Budget
        BY <1>0, <4>1 DEF Row
      <4>3. Charged \in Nat
        BY <1>1, <2>1
      <4> QED BY <1>0, <4>1, <4>2, <4>3
    <3>4. new[y] = old[y] + Budget /\ \A x \in Resources \ {y} : old[x] = new[x]
      BY <2>1, <3>2, <3>3
    <3> HIDE DEF old, new
    <3>5. after = before - old[y] + new[y]
      BY <1>0, <2>1, <3>4, SumOfChange
    <3>6. after = before + Budget
      BY <1>0, <2>1, <3>4, <3>5
    <3> QED BY <1>1, <3>3, <3>6
  <2>3. ASSUME NEW p \in Procs, NEW xs \in SUBSET Resources, Delegate(p, xs) PROVE after <= RunTokens
    <3> DEFINE budgets == [x \in Resources |-> Budget]
    <3>1. \A x \in xs : old[x] = 0 /\ new[x] = Budget
      <4> SUFFICES ASSUME NEW x \in xs PROVE old[x] = 0 /\ new[x] = Budget
        OBVIOUS
      <4>1. rec[x].status = "absent" /\ rec[x].charged = 0
        BY <2>3 DEF Delegate, ExploreInv, RowInv
      <4>2. rec'[x].charged = Budget
        BY <1>0, <2>3 DEF Delegate, Row
      <4> QED BY <2>1, <4>1, <4>2
    <3>2. \A x \in Resources \ xs : new[x] = old[x]
      <4>1. \A x \in Resources \ xs : rec'[x] = rec[x]
        BY <2>3 DEF Delegate
      <4> QED BY <2>1, <4>1
    <3>3. \A x \in Resources : budgets[x] = Budget
      OBVIOUS
    <3> HIDE DEF old, new, budgets
    <3>4. after = before + SumOf(budgets, xs)
      <4>1. \A x \in Resources : old[x] \in Int /\ budgets[x] \in Int
        BY <1>0, <2>1, <3>3
      <4>2. \A x \in xs : old[x] = 0 /\ new[x] = budgets[x]
        BY <3>1, <3>3
      <4> QED BY <1>0, <3>2, <4>1, <4>2, SumOfFill
    <3>5. SumOf(budgets, xs) = Cardinality(xs) * Budget
      <4>1. IsFiniteSet(xs)
        BY <1>0, FS_Subset
      <4> QED BY <1>0, <3>3, <4>1, SumOfConstant
    <3>6. Charged + Cardinality(xs) * Budget <= RunTokens
      BY <2>3 DEF Delegate, Fits
    <3>7. after = Charged + Cardinality(xs) * Budget
      BY <1>1, <3>4, <3>5
    <3> QED BY <3>6, <3>7
  <2>4. ASSUME \A p \in Procs, x \in Resources : ~Retries(p, x),
               \A p \in Procs : \A xs \in SUBSET Resources : ~Delegate(p, xs)
        PROVE  after <= RunTokens
    <3>1. \A x \in Resources : rec'[x].charged <= rec[x].charged
      BY <1>3, <2>4, RowKept, Moves DEF ExploreInv
    <3>2. \A x \in Resources : new[x] <= old[x]
      BY <2>1, <3>1
    <3> HIDE DEF old, new
    <3>3. after <= before
      BY <1>0, <2>1, <3>2, SumOfLess
    <3> QED BY <1>0, <1>1, <2>1, <3>3 DEF WithinTokens
  <2>5. after <= RunTokens
    <3> HIDE DEF after
    <3> QED BY <2>2, <2>3, <2>4
  <2> QED BY <1>1, <2>5 DEF WithinTokens
<1> QED BY <1>2, <1>3

\* The tokens charged to an exploration are those of its receipts, and the whole reservation
\* while one is open, and no batch and no retry takes the run over its tokens: whoever claims,
\* invalidates, publishes and retries, in whatever order, settles each reservation once.
THEOREM TokensAreAccounted == ExploreSpec => []TokensAccounted
<1>1. ExploreInit => WithinTokens
  <2> SUFFICES ASSUME ExploreInit PROVE WithinTokens
    OBVIOUS
  <2>1. \A x \in Resources : Charges(rec)[x] = 0
    BY DEF ExploreInit, Charges
  <2>2. SumOf(Charges(rec), Resources) = 0
    BY <2>1, SumOfZeros, ExplorationAssumption
  <2> QED BY <2>2, ChargedIsSum, ExplorationAssumption DEF WithinTokens
<1>2. ExploreInit => ExploreInv
  BY ExploreInvInit
<1>3. ExploreInv /\ WithinTokens /\ [ExploreNext]_exploreVars => ExploreInv' /\ WithinTokens'
  BY ExploreInvStep, TokensKept
<1>4. ExploreInv /\ WithinTokens => TokensAccounted
  BY DEF ExploreInv, RowInv, Account, WithinTokens, TokensAccounted
<1> QED BY <1>1, <1>2, <1>3, <1>4, PTL DEF ExploreSpec

=============================================================================
