---------------------------- MODULE SandboxCalls ----------------------------
(***************************************************************************)
(* Sandboxed tool calls of one run, from registration to cleanup, and the  *)
(* coordinators that cancel and resume the run meanwhile.  Four kinds of   *)
(* actors interleave over the run registry and the call receipts:          *)
(*   - the coordinator thread of each process: run_coordination/           *)
(*     coordinator.py driven by repair/plan_binding.py and                 *)
(*     repair/events_service.py;                                           *)
(*   - the thread that dispatches a call: linux_sandbox/routing.py and     *)
(*     LinuxSandboxBackend (linux_sandbox/backend.py);                     *)
(*   - the supervisor process of a call: linux_sandbox/supervisor.py;      *)
(*   - the target process the supervisor starts.                           *)
(* A call is a resource of kind sandbox_call without parent.               *)
(***************************************************************************)
EXTENDS RunCoordination

VARIABLES
    own,        \* own[p]: the coordinator thread of process p
    cancelled,  \* cancelled[p]: the cancellation token of process p
    report,     \* report[p]: status of the last CancelReport of process p
    call,       \* call[x]: the thread that dispatches call x
    receipt,    \* receipt[x]: the durable receipt of call x
    sup,        \* sup[x]: the supervisor process of call x
    pipe,       \* pipe[x]: whether the supervisor's control pipe is open
    target      \* target[x]: the target process of call x

registry == <<run, res, lease, retired>>
coordinators == <<own, cancelled, report>>
processes == <<receipt, sup, pipe, target>>
allVars == <<registry, coordinators, call, processes>>

R == CHOOSE r \in Runs : TRUE

ASSUME SingleRun == Runs = {R}

-----------------------------------------------------------------------------
(* Types *)

\* execution_status of a terminal receipt whose cleanup is confirmed; the
\* remaining one is "uncertain".
ConfirmedResults == {"completed", "cancelled", "timeout", "start_failed",
                     "rejected", "output_limit_exceeded"}

\* A terminal receipt is written twice, to the registry file and to the file
\* of the call; it is "torn" in between.
ReceiptRow == [state : {"none", "planned", "running", "torn", "terminal"},
               result : {"none", "uncertain"} \cup ConfirmedResults]

CallSteps == {"idle", "registered", "marked", "asserted", "validated",
              "planned", "sealing", "waiting", "settle", "done"}

SupSteps == {"none", "started", "running", "validated", "collecting",
             "sealing", "exited"}

CoordinatorSteps == {"none", "reconcile", "work", "releasing", "closing",
                     "cancel", "rollback", "closed"}

NoOne == [pc |-> "none", todo |-> {}, planned |-> {}, item |-> NoParent,
          found |-> "none", bad |-> FALSE, final |-> FALSE]

CallsTypeOK ==
    /\ TypeOK
    /\ own \in [Procs ->
         [pc : CoordinatorSteps, todo : SUBSET Resources,
          planned : SUBSET Resources, item : Resources \cup {NoParent},
          found : {"none", "unknown"} \cup SettledStates,
          bad : BOOLEAN, final : BOOLEAN]]
    /\ cancelled \in [Procs -> BOOLEAN]
    /\ report \in [Procs -> {"none", "cancelled", "recovery_required"}]
    /\ call \in [Resources ->
         [pc : CallSteps, by : Procs \cup {NoRun}, gen : Generations,
          result : {"none", "refused", "raised", "lost", "uncertain"}
                     \cup ConfirmedResults]]
    /\ receipt \in [Resources -> ReceiptRow]
    /\ sup \in [Resources -> SupSteps]
    /\ pipe \in [Resources -> BOOLEAN]
    /\ target \in [Resources -> {"none", "running", "stopped"}]

CallsInit ==
    /\ Init
    /\ own = [p \in Procs |-> NoOne]
    /\ cancelled = [p \in Procs |-> FALSE]
    /\ report = [p \in Procs |-> "none"]
    /\ call = [x \in Resources |-> [pc |-> "idle", by |-> NoRun, gen |-> 0,
                                    result |-> "none"]]
    /\ receipt = [x \in Resources |-> [state |-> "none", result |-> "none"]]
    /\ sup = [x \in Resources |-> "none"]
    /\ pipe = [x \in Resources |-> FALSE]
    /\ target = [x \in Resources |-> "none"]

-----------------------------------------------------------------------------
(* What a receipt proves: SandboxCallAdapter *)

\* Status a terminal receipt is adopted as.
Adopted(result) ==
    CASE result \in {"completed", "cancelled"} -> result
      [] result \in {"start_failed", "rejected", "timeout"} -> "failed"
      [] OTHER -> "unknown"

\* Deviation: an unfinished receipt whose owner is gone counts as failed.
FromReceipt_RunningIsFailed(x, wasPlanned) ==
    CASE receipt[x].state = "none" -> IF wasPlanned THEN "not_started" ELSE "unknown"
      [] receipt[x].state = "terminal" -> Adopted(receipt[x].result)
      [] receipt[x].state = "running" -> "failed"
      [] OTHER -> "unknown"

\* Deviation: a receipt without a result counts as a call that did not start.
FromReceipt_OpenIsNotStarted(x, wasPlanned) ==
    CASE receipt[x].state = "none" -> IF wasPlanned THEN "not_started" ELSE "unknown"
      [] receipt[x].state = "terminal" -> Adopted(receipt[x].result)
      [] receipt[x].state \in {"planned", "running"} -> "not_started"
      [] OTHER -> "unknown"

\* _reconcile_receipt: without a receipt only a call never marked running is
\* known not to have started.  A torn receipt raises, which counts as unknown.
FromReceipt(x, wasPlanned) ==
    CASE receipt[x].state = "none" -> IF wasPlanned THEN "not_started" ELSE "unknown"
      [] receipt[x].state = "terminal" -> Adopted(receipt[x].result)
      [] OTHER -> "unknown"

\* cancel: a planned receipt means that the supervisor has still to pass the
\* owner check, which the closed run refuses.
FromCancel(x, wasPlanned) ==
    IF receipt[x].state = "planned" THEN "not_started" ELSE FromReceipt(x, wasPlanned)

-----------------------------------------------------------------------------
(* The coordinator of a process *)

Goto(p, pc) == own' = [own EXCEPT ![p].pc = pc]

\* The resource list a cleanup works through; reconcile also visits the
\* settled ones, to adopt them.
Listed(pc, todo, final) ==
    [pc |-> pc, todo |-> todo,
     planned |-> {x \in todo : res[x].status = "planned"},
     item |-> NoParent, found |-> "none", bad |-> FALSE, final |-> final]

\* begin_repair_trace and RepairPlanBinding: acquire, then reconcile.  The old
\* owner is fenced, so the list may be read with the acquisition.
Start(p) ==
    /\ own[p].pc = "none"
    /\ Acquire(p, R)
    /\ own' = [own EXCEPT ![p] = Listed("reconcile", ResourcesOf(R), TRUE)]
    /\ UNCHANGED <<cancelled, report, call, processes>>

\* SandboxCallAdapter.reconcile on the next resource.
InspectOld(p) ==
    /\ own[p].pc = "reconcile"
    /\ own[p].found = "none"
    /\ \E x \in own[p].todo :
         own' = [own EXCEPT
           ![p].item = x,
           ![p].found = IF Settled(x) THEN res[x].status
                        ELSE FromReceipt(x, x \in own[p].planned)]
    /\ UNCHANGED <<registry, cancelled, report, call, processes>>

\* SandboxCallAdapter.cancel of a running call closes its control pipe, if
\* this process dispatches it ...
AskSupervisor(p) ==
    /\ own[p].pc = "cancel"
    /\ own[p].found = "none"
    /\ own[p].item = NoParent
    /\ \E x \in own[p].todo :
         /\ receipt[x].state = "running"
         /\ own' = [own EXCEPT ![p].item = x]
         /\ pipe' = [pipe EXCEPT ![x] = @ /\ ~(call[x].by = p /\ call[x].pc = "waiting")]
    /\ UNCHANGED <<registry, cancelled, report, call, receipt, sup, target>>

\* Deviation: the poll has no deadline.
InspectCancelled_NoDeadline(p) ==
    /\ own[p].pc = "cancel"
    /\ own[p].found = "none"
    /\ \E x \in own[p].todo :
         /\ own[p].item \in {NoParent, x}
         /\ receipt[x].state # "running"
         /\ own' = [own EXCEPT ![p].item = x,
                               ![p].found = FromCancel(x, x \in own[p].planned)]
    /\ UNCHANGED <<registry, cancelled, report, call, processes>>

\* ... and polls the receipt until a deadline, when it may still be "running".
\* A call found in any other state is not asked at all.
InspectCancelled(p) ==
    /\ own[p].pc = "cancel"
    /\ own[p].found = "none"
    /\ \E x \in own[p].todo :
         /\ \/ own[p].item = x
            \/ own[p].item = NoParent /\ receipt[x].state # "running"
         /\ own' = [own EXCEPT
              ![p].item = x,
              ![p].found = IF own[p].item = x THEN FromReceipt(x, x \in own[p].planned)
                           ELSE FromCancel(x, x \in own[p].planned)]
    /\ UNCHANGED <<registry, cancelled, report, call, processes>>

\* transition_resource with the adapter's result.
Record(p) ==
    /\ own[p].found # "none"
    /\ TransitionResource(p, R, own[p].item, own[p].found,
                          IF own[p].found = "unknown" THEN "unknown" ELSE "confirmed",
                          own[p].pc = "reconcile")
    /\ own' = [own EXCEPT ![p].todo = @ \ {own[p].item},
                          ![p].item = NoParent,
                          ![p].found = "none",
                          ![p].bad = @ \/ own[p].found = "unknown"]
    /\ UNCHANGED <<cancelled, report, call, processes>>

\* transition_resource refuses, say a resource of an earlier generation met
\* by a cancel: the binding is closed for recovery.
RecordRaises(p) ==
    /\ own[p].found # "none"
    /\ Owns(p, R)
    /\ ~TransitionAllowed(p, R, own[p].item, own[p].found, own[p].pc = "reconcile")
    /\ Finish(p, R, "recovery_required")
    /\ Goto(p, "closed")
    /\ UNCHANGED <<cancelled, report, call, processes>>

Visited(p, pc) == own[p].pc = pc /\ own[p].todo = {} /\ own[p].found = "none"

\* reconcile: an unconfirmed resource of the old owner ends in recovery_required.
GiveUpReconcile(p) ==
    /\ Visited(p, "reconcile")
    /\ own[p].bad
    /\ MarkRecoveryRequired(p, R)
    /\ Goto(p, "closed")
    /\ UNCHANGED <<cancelled, report, call, processes>>

BeginWork(p) ==
    /\ Visited(p, "reconcile")
    /\ ~own[p].bad
    /\ Activate(p, R)
    /\ Goto(p, "work")
    /\ UNCHANGED <<cancelled, report, call, processes>>

\* reconcile, persisted cancel request: request_cancel on a reconciling run.
ResumeCancel(p) ==
    /\ Visited(p, "reconcile")
    /\ ~own[p].bad
    /\ run[R].cancel
    /\ RequestCancel(p, R)
    /\ UNCHANGED <<coordinators, call, processes>>

\* The user, a timeout or the shutdown sets the token of the process ...
CancelToken(p) ==
    /\ own[p].pc \in {"reconcile", "work", "releasing"}
    /\ ~cancelled[p]
    /\ cancelled' = [cancelled EXCEPT ![p] = TRUE]
    /\ UNCHANGED <<registry, own, report, call, processes>>

\* ... whose callback persists the request.
CancelCallback(p) ==
    /\ cancelled[p]
    /\ RequestCancel(p, R)
    /\ UNCHANGED <<coordinators, call, processes>>

\* cancel: close the run to dispatches.  An initialisation that is interrupted
\* by the token cancels in the middle of its reconcile, and drops the resource
\* it was about.
EnterCancel(p) ==
    /\ \/ own[p].pc \in {"reconcile", "work", "rollback"} /\ cancelled[p]
       \/ Visited(p, "reconcile") /\ ~own[p].bad /\ run[R].cancel
    /\ \/ BeginCancelling(p, R)
       \/ Owns(p, R) /\ run[R].status = "cancelling" /\ UNCHANGED registry
    /\ \E final \in IF own[p].pc = "work" THEN BOOLEAN ELSE {TRUE} :
         own' = [own EXCEPT ![p].pc = "closing", ![p].final = final,
                            ![p].item = NoParent, ![p].found = "none"]
    /\ UNCHANGED <<cancelled, report, call, processes>>

\* Then list the resources to clean up.  A cancel that is not final keeps the
\* closed run for a rollback (finalize=False).
ListCleanup(p) ==
    /\ own[p].pc = "closing"
    /\ own' = [own EXCEPT ![p] =
          Listed("cancel", {x \in ResourcesOf(R) : ~Settled(x)}, own[p].final)]
    /\ UNCHANGED <<registry, cancelled, report, call, processes>>

\* The report is computed from the adapters' results, then the run is ended.
EndCancel(p) ==
    /\ Visited(p, "cancel")
    /\ IF own[p].bad
         THEN /\ MarkRecoveryRequired(p, R)
              /\ report' = [report EXCEPT ![p] = "recovery_required"]
              /\ Goto(p, "closed")
         ELSE IF own[p].final
         THEN /\ Finish(p, R, "cancelled")
              /\ report' = [report EXCEPT ![p] = "cancelled"]
              /\ Goto(p, "closed")
         ELSE /\ Goto(p, "rollback")
              /\ UNCHANGED <<registry, report>>
    /\ UNCHANGED <<cancelled, call, processes>>

\* end_repair_trace looks at the token, then finishes the run.
CheckRelease(p) ==
    /\ own[p].pc = "work"
    /\ ~cancelled[p]
    /\ Goto(p, "releasing")
    /\ UNCHANGED <<registry, cancelled, report, call, processes>>

Release(p) ==
    /\ own[p].pc = "releasing"
    /\ \E status \in {"released", "failed"} : Finish(p, R, status)
    /\ Goto(p, "closed")
    /\ UNCHANGED <<cancelled, report, call, processes>>

\* An exception or an unconfirmed verification or rollback: the run is left
\* for recovery, or released if it is still active when the binding is closed.
Abort(p) ==
    /\ own[p].pc \notin {"none", "closed"}
    /\ \E status \in {"recovery_required"}
          \cup IF run[R].status = "active" THEN {"released"} ELSE {} :
         Finish(p, R, status)
    /\ Goto(p, "closed")
    /\ UNCHANGED <<cancelled, report, call, processes>>

\* Any store call of an owner that was replaced or fenced raises.
LoseOwnership(p) ==
    /\ own[p].pc \notin {"none", "closed"}
    /\ ~Owns(p, R)
    /\ Goto(p, "closed")
    /\ UNCHANGED <<registry, cancelled, report, call, processes>>

-----------------------------------------------------------------------------
(* The thread that dispatches a call: execute_sandbox_request, then *)
(* LinuxSandboxBackend.execute and _dispatch                        *)

Dispatching(x) == call[x].pc \notin {"idle", "done"}

CallTo(x, pc, result) ==
    call' = [call EXCEPT ![x].pc = pc, ![x].result = result]

\* A transition whose failure is caught: the row then stays as it is.
TryTransition(p, x, status, cleanup) ==
    \/ TransitionResource(p, R, x, status, cleanup, FALSE)
    \/ ~TransitionAllowed(p, R, x, status, FALSE) /\ UNCHANGED registry

\* sandbox_uncertain of the execution context: no further call is made.
UncertainSeen(p) == \E x \in Resources :
    call[x].by = p /\ call[x].result \in {"raised", "uncertain"}

Register(p, x) ==
    /\ call[x].pc = "idle"
    /\ ~UncertainSeen(p)
    /\ CanDispatch(p, R)
    /\ ~cancelled[p]
    /\ RegisterResource(p, R, x, NoParent, FALSE)
    /\ call' = [call EXCEPT ![x] = [pc |-> "registered", by |-> p,
                                    gen |-> lease[p][R], result |-> "none"]]
    /\ UNCHANGED <<coordinators, processes>>

\* transition_resource(running); when it raises the call is given up and its
\* row is written as unknown.
MarkRunning(x) == LET p == call[x].by IN
    /\ call[x].pc = "registered"
    /\ IF TransitionAllowed(p, R, x, "running", FALSE)
         THEN /\ TransitionResource(p, R, x, "running", "unverified", FALSE)
              /\ CallTo(x, "marked", "none")
         ELSE /\ TryTransition(p, x, "unknown", "unverified")
              /\ CallTo(x, "done", "refused")
    /\ UNCHANGED <<coordinators, processes>>

\* The token is looked at before the dispatch lock and once more under it.
TokenStop(x) == LET p == call[x].by IN
    /\ call[x].pc \in {"marked", "asserted"}
    /\ cancelled[p]
    /\ \/ call[x].pc = "marked" /\ RequestCancel(p, R)
       \/ UNCHANGED registry
    /\ CallTo(x, "settle", "cancelled")
    /\ UNCHANGED <<coordinators, processes>>

\* No dispatch lock in time, or the permission, preflight or owner check of
\* the backend fails before a receipt is planned.
Refuse(x) ==
    /\ call[x].pc \in {"marked", "asserted", "validated"}
    /\ CallTo(x, "settle", "rejected")
    /\ UNCHANGED <<registry, coordinators, processes>>

\* sandbox_dispatch_lock.
LockFree(p) == \A x \in Resources :
    call[x].by = p => call[x].pc \notin {"asserted", "validated", "planned",
                                       "sealing", "waiting"}

\* assert_can_dispatch under the lock; when it raises, the row becomes unknown.
AssertCanDispatch(x) == LET p == call[x].by IN
    /\ call[x].pc = "marked"
    /\ LockFree(p)
    /\ cancelled[p] => ~CanDispatch(p, R)    \* the request is persisted first
    /\ IF CanDispatch(p, R) /\ ~UncertainSeen(p)
         THEN CallTo(x, "asserted", "none") /\ UNCHANGED registry
         ELSE /\ TryTransition(p, x, "unknown", "unverified")
              /\ CallTo(x, "done", "raised")
    /\ UNCHANGED <<coordinators, processes>>

\* _validate_owner_envelope in the backend.
Validate(x) ==
    /\ call[x].pc = "asserted"
    /\ IF RequestOwnerValid(R, call[x].gen)
         THEN CallTo(x, "validated", "none")
         ELSE CallTo(x, "settle", "rejected")
    /\ UNCHANGED <<registry, coordinators, processes>>

\* The workspace lock is free and the last receipt proves its call finished.
Plannable(x) == \A y \in Resources \ {x} :
    /\ call[y].pc \notin {"planned", "sealing", "waiting"}
    /\ receipt[y].state \in {"none", "terminal"}
    /\ receipt[y].result # "uncertain"

PlanReceipt(x) ==
    /\ call[x].pc = "validated"
    /\ IF Plannable(x)
         THEN /\ receipt' = [receipt EXCEPT ![x].state = "planned"]
              /\ CallTo(x, "planned", "none")
         ELSE /\ CallTo(x, "settle", "rejected")
              /\ UNCHANGED receipt
    /\ UNCHANGED <<registry, coordinators, sup, pipe, target>>

Spawn(x) ==
    /\ call[x].pc = "planned"
    /\ sup' = [sup EXCEPT ![x] = "started"]
    /\ pipe' = [pipe EXCEPT ![x] = TRUE]
    /\ CallTo(x, "waiting", "none")
    /\ UNCHANGED <<registry, coordinators, receipt, target>>

\* Both writes of a terminal receipt.
Tear(x, result) == receipt' = [receipt EXCEPT ![x] = [state |-> "torn", result |-> result]]
Seal(x) == receipt[x].state = "torn" /\ receipt' = [receipt EXCEPT ![x].state = "terminal"]

SpawnFails(x) ==
    /\ call[x].pc = "planned"
    /\ Tear(x, "start_failed")
    /\ CallTo(x, "sealing", "start_failed")
    /\ UNCHANGED <<registry, coordinators, sup, pipe, target>>

SealStartFailed(x) ==
    /\ call[x].pc = "sealing"
    /\ Seal(x)
    /\ CallTo(x, "settle", "start_failed")
    /\ UNCHANGED <<registry, coordinators, sup, pipe, target>>

\* The supervisor has answered or is gone: its answer counts if it is also
\* the durable receipt.
Response(x) ==
    /\ call[x].pc = "waiting"
    /\ sup[x] = "exited"
    /\ CallTo(x, "settle", IF receipt[x].state = "terminal" THEN receipt[x].result
                           ELSE "uncertain")
    /\ pipe' = [pipe EXCEPT ![x] = FALSE]
    /\ UNCHANGED <<registry, coordinators, receipt, sup, target>>

\* The watcher thread of a cancelled token, or the timeout of _read_response.
CloseControl(x) ==
    /\ call[x].pc = "waiting"
    /\ pipe[x]
    /\ pipe' = [pipe EXCEPT ![x] = FALSE]
    /\ UNCHANGED <<registry, coordinators, call, receipt, sup, target>>

\* Deviation: the thread waits for a supervisor that does not answer.
GiveUp_WaitsForExit(x) ==
    /\ call[x].pc = "waiting"
    /\ ~pipe[x]
    /\ sup[x] = "exited"
    /\ CallTo(x, "settle", "uncertain")
    /\ UNCHANGED <<registry, coordinators, receipt, sup, pipe, target>>

\* No answer after the pipe was closed: the supervisor is killed.
GiveUp(x) ==
    /\ call[x].pc = "waiting"
    /\ ~pipe[x]
    /\ CallTo(x, "settle", "uncertain")
    /\ sup' = [sup EXCEPT ![x] = "exited"]
    /\ UNCHANGED <<registry, coordinators, receipt, pipe, target>>

\* Deviation: every other result counts as failed.
Outcome_OtherIsFailed(result) ==
    IF result \in {"completed", "cancelled"} THEN result ELSE "failed"

\* Resource status a result is recorded with.
Outcome(result) ==
    CASE result \in {"completed", "cancelled"} -> result
      [] result \in {"rejected", "start_failed"} -> "failed"
      [] OTHER -> "unknown"

\* An uncertain result carries no cleanup; "failed" always confirms it.
OutcomeCleanup(result) ==
    IF Outcome(result) = "failed" \/ result # "uncertain" THEN "confirmed" ELSE "unverified"

\* The result is recorded in the registry.  A stale owner keeps its result only
\* if the run was cancelled in its own generation.
SettleCall(x) ==
    LET p == call[x].by
        result == call[x].result
    IN  /\ call[x].pc = "settle"
        /\ IF TransitionAllowed(p, R, x, Outcome(result), FALSE)
             THEN /\ TransitionResource(p, R, x, Outcome(result),
                                        OutcomeCleanup(result), FALSE)
                  /\ CallTo(x, "done", result)
             ELSE /\ UNCHANGED registry
                  /\ CallTo(x, "done",
                            IF run[R].status = "cancelled" /\ run[R].generation = call[x].gen
                              THEN result ELSE "uncertain")
        /\ UNCHANGED <<coordinators, processes>>

-----------------------------------------------------------------------------
(* The supervisor of a call and its target *)

\* supervise: first the receipt, then the owner check, then the target.
SupRun(x) ==
    /\ sup[x] = "started"
    /\ receipt[x].state = "planned"
    /\ receipt' = [receipt EXCEPT ![x].state = "running"]
    /\ sup' = [sup EXCEPT ![x] = "running"]
    /\ UNCHANGED <<registry, coordinators, call, pipe, target>>

\* Deviation: the owner is not checked again.
SupValidate_Skipped(x) ==
    /\ sup[x] = "running"
    /\ sup' = [sup EXCEPT ![x] = "validated"]
    /\ UNCHANGED <<registry, coordinators, call, receipt, pipe, target>>

SupValidate(x) ==
    /\ sup[x] = "running"
    /\ IF RequestOwnerValid(R, call[x].gen)
         THEN sup' = [sup EXCEPT ![x] = "validated"] /\ UNCHANGED receipt
         ELSE sup' = [sup EXCEPT ![x] = "sealing"] /\ Tear(x, "rejected")
    /\ UNCHANGED <<registry, coordinators, call, pipe, target>>

SupStart(x) ==
    /\ sup[x] = "validated"
    /\ sup' = [sup EXCEPT ![x] = "collecting"]
    /\ target' = [target EXCEPT ![x] = "running"]
    /\ UNCHANGED <<registry, coordinators, call, receipt, pipe>>

SupStartFails(x) ==
    /\ sup[x] = "validated"
    /\ sup' = [sup EXCEPT ![x] = "sealing"]
    /\ Tear(x, "start_failed")
    /\ UNCHANGED <<registry, coordinators, call, pipe, target>>

\* What _collect may end with; a closed control pipe cancels.
Collected(x) ==
    {"completed", "timeout", "output_limit_exceeded"}
      \cup IF pipe[x] THEN {} ELSE {"cancelled"}

\* Deviation: the receipt is written before the process group is stopped.
SupFinish_BeforeCleanup(x) ==
    /\ sup[x] = "collecting"
    /\ sup' = [sup EXCEPT ![x] = "sealing"]
    /\ \E result \in Collected(x) : Tear(x, result)
    /\ UNCHANGED <<registry, coordinators, call, pipe, target>>

\* _collect, then _cleanup stops the process group.
SupFinish(x) ==
    /\ sup[x] = "collecting"
    /\ sup' = [sup EXCEPT ![x] = "sealing"]
    /\ \E result \in Collected(x) : Tear(x, result)
    /\ target' = [target EXCEPT ![x] = "stopped"]
    /\ UNCHANGED <<registry, coordinators, call, pipe>>

\* _cleanup cannot confirm that the group has stopped.
SupFinishUnclean(x) ==
    /\ sup[x] = "collecting"
    /\ sup' = [sup EXCEPT ![x] = "sealing"]
    /\ Tear(x, "uncertain")
    /\ UNCHANGED <<registry, coordinators, call, pipe, target>>

SupSeal(x) ==
    /\ sup[x] = "sealing"
    /\ sup' = [sup EXCEPT ![x] = "exited"]
    /\ Seal(x)
    /\ UNCHANGED <<registry, coordinators, call, pipe, target>>

\* A supervisor may be killed, or fail on its envelope, at any point.
SupDies(x) ==
    /\ sup[x] \notin {"none", "exited"}
    /\ sup' = [sup EXCEPT ![x] = "exited"]
    /\ UNCHANGED <<registry, coordinators, call, receipt, pipe, target>>

\* bwrap --die-with-parent: the target does not outlive its supervisor for long.
TargetExits(x) ==
    /\ target[x] = "running"
    /\ sup[x] = "exited"
    /\ target' = [target EXCEPT ![x] = "stopped"]
    /\ UNCHANGED <<registry, coordinators, call, receipt, sup, pipe>>

-----------------------------------------------------------------------------
(* Environment *)

\* A process dies with its threads; its end of the control pipes closes.
CrashProcess(p) ==
    /\ Crash(p)
    /\ own' = [own EXCEPT ![p] = NoOne]
    /\ cancelled' = [cancelled EXCEPT ![p] = FALSE]
    /\ report' = [report EXCEPT ![p] = "none"]
    /\ call' = [x \in Resources |->
                 IF call[x].by = p /\ Dispatching(x)
                   THEN [call[x] EXCEPT !.pc = "done", !.result = "lost"]
                   ELSE call[x]]
    /\ pipe' = [x \in Resources |-> pipe[x] /\ call[x].by # p]
    /\ UNCHANGED <<receipt, sup, target>>

LeaseExpires == Expire(R) /\ UNCHANGED <<coordinators, call, processes>>

-----------------------------------------------------------------------------

CleanupStep(p) ==
    \/ ListCleanup(p)
    \/ AskSupervisor(p)
    \/ InspectCancelled(p)
    \/ Record(p)
    \/ RecordRaises(p)
    \/ EndCancel(p)
    \/ LoseOwnership(p)

CoordinatorStep(p) ==
    \/ Start(p)
    \/ InspectOld(p)
    \/ GiveUpReconcile(p)
    \/ BeginWork(p)
    \/ ResumeCancel(p)
    \/ CancelToken(p)
    \/ CancelCallback(p)
    \/ EnterCancel(p)
    \/ CheckRelease(p)
    \/ Release(p)
    \/ Abort(p)
    \/ CleanupStep(p)

DispatchStep(x) ==
    \/ MarkRunning(x)
    \/ TokenStop(x)
    \/ Refuse(x)
    \/ AssertCanDispatch(x)
    \/ Validate(x)
    \/ PlanReceipt(x)
    \/ Spawn(x)
    \/ SpawnFails(x)
    \/ SealStartFailed(x)
    \/ Response(x)
    \/ CloseControl(x)
    \/ GiveUp(x)
    \/ SettleCall(x)

SupervisorStep(x) ==
    \/ SupRun(x)
    \/ SupValidate(x)
    \/ SupStart(x)
    \/ SupStartFails(x)
    \/ SupFinish(x)
    \/ SupFinishUnclean(x)
    \/ SupSeal(x)
    \/ SupDies(x)

CallsNext ==
    \/ \E p \in Procs : CoordinatorStep(p) \/ CrashProcess(p)
    \/ \E p \in Procs, x \in Resources : Register(p, x)
    \/ \E x \in Resources : DispatchStep(x) \/ SupervisorStep(x) \/ TargetExits(x)
    \/ LeaseExpires

CallsSpec == CallsInit /\ [][CallsNext]_allVars

\* Every wait of a dispatching thread and of a cleanup has a deadline, and the
\* kernel ends an orphaned target.  Nothing is assumed of a supervisor, which
\* may hang, nor of a lease, which may expire.
CallsFairSpec ==
    /\ CallsSpec
    /\ \A p \in Procs : WF_allVars(CleanupStep(p))
    /\ \A x \in Resources : WF_allVars(DispatchStep(x)) /\ WF_allVars(TargetExits(x))

-----------------------------------------------------------------------------
(* Safety *)

\* Once the registry holds a confirmed end of a call, its target does not run
\* and never will: not from a supervisor still starting up, not from a result
\* recorded twice by the dispatching thread and by a cleanup.
SettledMeansStopped ==
    \A x \in Resources : Settled(x) =>
        target[x] # "running" /\ sup[x] \notin {"validated", "collecting"}

\* What the registry records as confirmed is what happened, whichever of the
\* dispatching thread, a cleanup and a new owner recorded it last.
SettledMatchesReceipt ==
    \A x \in Resources : Settled(x) =>
        /\ res[x].status = "completed" =>
             receipt[x] = [state |-> "terminal", result |-> "completed"]
        /\ res[x].status = "cancelled" =>
             target[x] = "none" \/ receipt[x].result = "cancelled"
        /\ res[x].status = "not_started" => target[x] = "none"

\* While a run is active, no target of an earlier generation runs beside it.
OnlyOwnTargets ==
    run[R].status = "active" => \A x \in Resources :
        target[x] = "running" => call[x].gen = run[R].generation

\* One target runs in a workspace at a time, whatever process started it.
SingleTarget ==
    \A x, y \in Resources :
        target[x] = "running" /\ target[y] = "running" => x = y

\* A rollback rewrites the workspace alone: no target runs or may still start.
RollbackIsAlone ==
    \A p \in Procs : own[p].pc = "rollback" /\ Owns(p, R) =>
        \A x \in Resources : target[x] # "running" /\ sup[x] # "validated"

\* A target writes the workspace beside no other target and no rollback.
TargetsRunAlone == SingleTarget /\ RollbackIsAlone

-----------------------------------------------------------------------------
(* Liveness *)

\* The thread of a call always returns, also from a supervisor that hangs.
DispatchReturns ==
    \A x \in Resources : Dispatching(x) ~> call[x].pc = "done"

\* A cleanup ends: its run is closed, fenced for recovery or kept for rollback.
CancelTerminates ==
    \A p \in Procs :
        own[p].pc \in {"closing", "cancel"} ~> own[p].pc \notin {"closing", "cancel"}

\* Threads and cleanups both return.
CallsComeToAnEnd == DispatchReturns /\ CancelTerminates

\* The target of a call stops, cancelled or not, unless the process that
\* dispatched it died while its supervisor hangs.
TargetStops ==
    \A x \in Resources :
        target[x] = "running" ~> target[x] = "stopped" \/ call[x].result = "lost"

-----------------------------------------------------------------------------
(* What the documentation says *)

\* A cleanup that reports "cancelled" leaves a cancelled run.
ReportMatchesRegistry ==
    [][\A p \in Procs : report[p] # "cancelled" /\ report'[p] = "cancelled"
         => run'[R].status = "cancelled"]_allVars

\* A cleanup or a new owner adopts every terminal receipt of confirmed cleanup.
ConfirmedReceiptAdopted ==
    [][\A p \in Procs, x \in Resources :
         /\ own[p].found = "none"
         /\ own'[p].item = x /\ own'[p].found # "none"
         /\ receipt[x].state = "terminal" /\ receipt[x].result # "uncertain"
         => own'[p].found # "unknown"]_allVars

=============================================================================
