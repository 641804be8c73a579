----------------------------- MODULE PhaseTasks -----------------------------
(***************************************************************************)
(* The durable tasks of the repair phases (collaboration/store.py) beside  *)
(* the run registry that owns the run: every process that owns the run, or *)
(* still believes so, advances the phases under the same worker name, and  *)
(* each advance completes the task of the phase before and claims the next *)
(* (collaboration/repair_runtime.py).  A task is also a resource of the    *)
(* run; CollaborationTaskAdapter answers for it when the run is reconciled *)
(* or cancelled.                                                           *)
(*                                                                         *)
(* A row's version is only ever compared with the one read before: prog    *)
(* keeps whether the row it read is still `fresh`.  The lease_owner of a   *)
(* row is "orchestrator" exactly while it is running; `by`, the process    *)
(* that claimed it, is not in the row.                                     *)
(***************************************************************************)
EXTENDS RunCoordination, Sequences, SequencesExt

CONSTANT Faults   \* which happen: the lease of the "run" or of a "task" runs out under a live owner, a "death"

R == CHOOSE r \in Runs : TRUE

\* The phases that have a task, in the order of their dependencies.
Phases == <<"context", "patch", "verify">>

ASSUME PhasesAssumption == Runs = {R} /\ Resources = ToSet(Phases) /\ Faults \subseteq {"run", "task", "death"}

\* AgentTask.max_attempts of the tasks of _ensure_plan.
MaxAttempts == 1

TaskRow == [status : {"pending", "running", "completed", "failed", "cancelled"},
            attempt : 0 .. MaxAttempts + 1, live : BOOLEAN, cancel : BOOLEAN,
            by : Procs \cup {NoRun}]

Ends == {"done", "failed"}
Ended == {"completed", "failed", "cancelled"}

VARIABLES
    task,      \* the rows of task_records
    payload,   \* the generation whose process each resource row names as owner
    prog,      \* prog[p]: the orchestrator thread of process p
    cancelled, \* the cancellation token of each process
    reached    \* the phase the checkpoint of the run has reached

registry == <<run, res, lease, retired>>
taskVars == <<registry, task, payload, prog, cancelled, reached>>

Idle == [pc |-> "none", phase |-> "none", item |-> NoParent, goal |-> "completed", fresh |-> FALSE,
         seen |-> "none", todo |-> {}, pending |-> {}, bad |-> FALSE, next |-> "phase"]

TasksInit ==
    /\ Init
    /\ task = [x \in Resources |-> [status |-> "pending", attempt |-> 0, live |-> FALSE, cancel |-> FALSE, by |-> NoRun]]
    /\ payload = [x \in Resources |-> 0]
    /\ prog = [p \in Procs |-> Idle]
    /\ cancelled = [p \in Procs |-> FALSE]
    /\ reached = "none"

\* Deviation: an advance completes the task of the phase it enters.
Before_Same(ph) == IF ph \in Ends THEN "verify" ELSE ph

\* The task an advance completes.
Before(ph) == CASE ph = "patch" -> "context" [] ph = "verify" -> "patch" [] ph \in Ends -> "verify"

Running(p) == prog[p].pc \notin {"none", "closed"}
Goto(p, pc) == prog' = [prog EXCEPT ![p].pc = pc]
Close(p) == prog' = [prog EXCEPT ![p] = [Idle EXCEPT !.pc = "closed"]]

\* The rows are visited in the order of Phases; that of the store is by their last update.
First(todo) == CHOOSE x \in todo : \A i, j \in DOMAIN Phases : Phases[i] = x /\ Phases[j] \in todo => i <= j

\* A thread between two advances.
Outside(p, pc) == [Idle EXCEPT !.pc = pc, !.phase = prog[p].phase]

\* An exception of the runtime is noted in the state's agent_errors, and the phase runs.
Swallow(p) == prog' = [prog EXCEPT ![p] = Outside(p, prog[p].next)]

\* Every write of a row makes what other threads read of it stale.
Written(x, pr) == [q \in Procs |-> IF pr[q].item = x THEN [pr[q] EXCEPT !.fresh = FALSE] ELSE pr[q]]

-----------------------------------------------------------------------------
(* Opening and reconciling.                                                *)

Start(p) ==
    /\ ~Running(p)
    /\ Acquire(p, R)
    /\ prog' = [prog EXCEPT ![p] = [Idle EXCEPT !.pc = "reconcile", !.todo = ResourcesOf(R), !.phase = reached]]
    /\ cancelled' = [cancelled EXCEPT ![p] = FALSE]
    /\ UNCHANGED <<task, payload, reached>>

\* confirmed_exited of the process the row names.
NamedOwnerExited(x) == \A q \in Procs : lease[q][R] # payload[x]

\* What the adapter says of a task: its end, or that it never started.
FromTask(x) == IF task[x].status = "pending" THEN "not_started"
               ELSE IF task[x].status \in Ended THEN task[x].status
               ELSE IF NamedOwnerExited(x) THEN "failed" ELSE "unknown"

\* reconcile keeps a row that is settled.
Inspect(p) ==
    /\ prog[p].pc = "reconcile" /\ prog[p].item = NoParent
    /\ prog[p].todo # {}
    /\ LET x == First(prog[p].todo)
       IN prog' = [prog EXCEPT ![p].item = x,
                              ![p].seen = IF Settled(x) THEN res[x].status ELSE FromTask(x)]
    /\ UNCHANGED <<registry, task, payload, cancelled, reached>>

Asked(x) == [task EXCEPT ![x].cancel = TRUE,
                         ![x].status = IF @ = "pending" THEN "cancelled" ELSE @]

\* CollaborationTaskAdapter.cancel: request_cancel_task, in one transaction ...
Ask(p) ==
    /\ prog[p].pc = "cancel" /\ prog[p].item = NoParent /\ prog[p].todo # {}
    /\ LET x == First(prog[p].todo)
           ask == ~task[x].cancel /\ task[x].status \notin Ended
       IN /\ task' = IF ask THEN Asked(x) ELSE task
          /\ prog' = [(IF ask THEN Written(x, prog) ELSE prog) EXCEPT ![p].item = x, ![p].seen = "none"]
    /\ UNCHANGED <<registry, payload, cancelled, reached>>

\* ... and then the row is read again.
Look(p) ==
    /\ prog[p].pc = "cancel" /\ prog[p].item # NoParent /\ prog[p].seen = "none"
    /\ prog' = [prog EXCEPT ![p].seen = FromTask(prog[p].item)]
    /\ UNCHANGED <<registry, task, payload, cancelled, reached>>

RecordRow(p) ==
    /\ prog[p].pc \in {"reconcile", "cancel"} /\ prog[p].item # NoParent /\ prog[p].seen # "none"
    /\ TransitionResource(p, R, prog[p].item, prog[p].seen,
                          IF prog[p].seen = "unknown" THEN "unknown" ELSE "confirmed",
                          prog[p].pc = "reconcile")
    /\ prog' = [prog EXCEPT ![p].todo = @ \ {prog[p].item}, ![p].item = NoParent, ![p].seen = "none",
                            ![p].bad = @ \/ prog[p].seen = "unknown"]
    /\ UNCHANGED <<task, payload, cancelled, reached>>

Visited(p, pc) == prog[p].pc = pc /\ prog[p].todo = {} /\ prog[p].item = NoParent

EndReconcile(p) ==
    /\ Visited(p, "reconcile")
    /\ IF prog[p].bad
       THEN MarkRecoveryRequired(p, R) /\ Close(p)
       ELSE IF run[R].cancel
       THEN RequestCancel(p, R) /\ Goto(p, "closing")
       ELSE Activate(p, R) /\ Goto(p, "attach")
    /\ UNCHANGED <<task, payload, cancelled, reached>>

\* attach_coordinator: a row is registered once, with the process that registers it as owner.
Attach(p) ==
    /\ prog[p].pc = "attach" /\ ResourcesOf(R) # Resources
    /\ LET x == First(Resources \ ResourcesOf(R))
       IN /\ RegisterResource(p, R, x, NoParent, TRUE)
          /\ payload' = [payload EXCEPT ![x] = lease[p][R]]
    /\ UNCHANGED <<task, prog, cancelled, reached>>

Attached(p) ==
    /\ prog[p].pc = "attach" /\ ResourcesOf(R) = Resources
    /\ prog' = [prog EXCEPT ![p].pc = "sync", ![p].next = "open"]
    /\ UNCHANGED <<registry, task, payload, cancelled, reached>>

-----------------------------------------------------------------------------
(* _sync_resources.                                                        *)

RowStatus(x) == IF task[x].status = "pending" THEN "planned" ELSE task[x].status
RowCleanup(x) == IF task[x].status \in Ended THEN "confirmed" ELSE "unverified"
InStep(x) == res[x].status = RowStatus(x) /\ res[x].cleanup = RowCleanup(x)

OutOfStep == {x \in Resources : ~InStep(x)}

\* Nothing is written of a run that has ended.
SyncRow(p) ==
    /\ prog[p].pc = "sync" /\ OutOfStep # {} /\ run[R].status \in OwnedStates
    /\ LET x == First(OutOfStep)
       IN IF TransitionAllowed(p, R, x, RowStatus(x), FALSE)
          THEN TransitionResource(p, R, x, RowStatus(x), RowCleanup(x), FALSE) /\ UNCHANGED prog
          ELSE Swallow(p) /\ UNCHANGED registry
    /\ UNCHANGED <<task, payload, cancelled, reached>>

Synced(p) ==
    /\ prog[p].pc = "sync" /\ (OutOfStep = {} \/ run[R].status \notin OwnedStates)
    /\ Swallow(p)
    /\ UNCHANGED <<registry, task, payload, cancelled, reached>>

-----------------------------------------------------------------------------
(* _advance.                                                               *)

\* The phases of the state machine that tell the tasks, from the phase the state is in: the
\* graph alternates patch and verify, and either may be the last; what ends before a patch has
\* failed.  The checkpoint of a process that resumes is in no phase its graph has begun.
NextPhases(p) ==
    LET ph == prog[p].phase
    IN CASE ph = "none" -> {"patch", "failed"}
         [] ph = "patch" -> Ends \cup {IF prog[p].pc = "open" THEN "patch" ELSE "verify"}
         [] ph = "verify" -> Ends \cup {"patch"}
         [] ph \in Ends -> {}

\* The status of the task of Before(ph).
Goal(p, ph, fixed) ==
    IF ph = "failed" \/ (ph = "done" /\ ~(fixed /\ prog[p].phase = "verify")) THEN "failed" ELSE "completed"

\* The run is asked whether it may dispatch; an answer no is one more swallowed exception.
Advance(p) ==
    /\ prog[p].pc \in {"open", "phase"} /\ ~cancelled[p]
    /\ \E ph \in NextPhases(p), fixed \in BOOLEAN :
         /\ reached' = IF Owns(p, R) THEN ph ELSE reached
         /\ prog' = [prog EXCEPT ![p].pc = IF CanDispatch(p, R) THEN "read" ELSE "phase",
                                 ![p].phase = ph, ![p].item = Before(ph),
                                 ![p].goal = Goal(p, ph, fixed), ![p].next = "phase"]
    /\ UNCHANGED <<registry, task, payload, cancelled>>

\* The token is seen when the phase has returned: the tasks that have not ended are completed
\* as cancelled, in the order of the store, and the run is cancelled.
FinishCancelled(p) ==
    /\ prog[p].pc \in {"open", "phase"} /\ cancelled[p]
    /\ prog' = [prog EXCEPT ![p].pc = "finishing", ![p].phase = "cancelled", ![p].next = "closing",
                            ![p].todo = {x \in Resources : task[x].status \notin Ended},
                            ![p].pending = {x \in Resources : task[x].status = "pending"}]
    /\ UNCHANGED <<registry, task, payload, cancelled, reached>>

FinishNext(p) ==
    /\ prog[p].pc = "finishing"
    /\ IF prog[p].todo = {}
       THEN Goto(p, "sync")
       ELSE LET x == First(prog[p].todo)
            IN prog' = [prog EXCEPT ![p].todo = @ \ {x},
                                 ![p].pc = IF x \in prog[p].pending THEN "claim" ELSE "reread",
                                 ![p].item = x, ![p].goal = "cancelled"]
    /\ UNCHANGED <<registry, task, payload, cancelled, reached>>

\* What follows _complete: the next task of a cancelled run, the end, the task of the phase.
After(t) == [t EXCEPT !.pc = IF t.phase = "cancelled" THEN "finishing" ELSE IF t.phase \in Ends THEN "sync" ELSE "current",
                      !.item = NoParent, !.goal = "completed", !.fresh = FALSE]

\* _complete, on the row as it was read.
ReadTask(p) ==
    /\ prog[p].pc = "read"
    /\ LET status == task[prog[p].item].status
       IN prog' = [prog EXCEPT ![p] = IF status \in Ended THEN After(@)
                                      ELSE [@ EXCEPT !.pc = IF status = "pending" THEN "claim" ELSE "reread"]]
    /\ UNCHANGED <<registry, task, payload, cancelled, reached>>

\* Deviation: the status is not looked at.
Claimable_Ended(x) == ~task[x].cancel

\* The refusals of claim_task.  A running task may be claimed again under the same name, and
\* every process has the same one.
Claimable(x) == ~task[x].cancel /\ task[x].status \notin Ended

\* The counter is capped one above its limit.
Claimed(x, p) == [task EXCEPT ![x].status = "running", ![x].live = TRUE, ![x].by = p,
                           ![x].attempt = IF @ > MaxAttempts THEN @ ELSE @ + 1]

Claim(p) ==
    /\ prog[p].pc \in {"claim", "claim current"}
    /\ LET x == prog[p].item
       IN IF Claimable(x)
          THEN /\ task' = Claimed(x, p)
               /\ prog' = [Written(x, prog) EXCEPT
                             ![p].pc = IF prog[p].pc = "claim" THEN "reread" ELSE "refresh"]
          ELSE Swallow(p) /\ UNCHANGED task
    /\ UNCHANGED <<registry, payload, cancelled, reached>>

\* complete_task reads the row and looks at the lease, then writes it if it is unchanged.
Reread(p) ==
    /\ prog[p].pc = "reread"
    /\ LET t == task[prog[p].item]
       IN IF t.status = "running" /\ t.live
          THEN prog' = [prog EXCEPT ![p].pc = "commit", ![p].fresh = TRUE]
          ELSE Swallow(p)
    /\ UNCHANGED <<registry, task, payload, cancelled, reached>>

Completed(x, goal) == [task EXCEPT ![x].status = goal, ![x].live = FALSE]

\* Deviation: the row is replaced without a look at its version, cancel request included.
Commit_Blind(p) ==
    /\ prog[p].pc = "commit"
    /\ LET x == prog[p].item
       IN /\ task' = [Completed(x, prog[p].goal) EXCEPT ![x].cancel = FALSE]
          /\ prog' = [Written(x, prog) EXCEPT ![p] = After(@)]
    /\ UNCHANGED <<registry, payload, cancelled, reached>>

Commit(p) ==
    /\ prog[p].pc = "commit"
    /\ LET x == prog[p].item
       IN IF prog[p].fresh
          THEN /\ task' = Completed(x, prog[p].goal)
               /\ prog' = [Written(x, prog) EXCEPT ![p] = After(@)]
          ELSE Swallow(p) /\ UNCHANGED task
    /\ UNCHANGED <<registry, payload, cancelled, reached>>

\* The task of the phase is claimed when it is pending ...
ReadCurrent(p) ==
    /\ prog[p].pc = "current"
    /\ prog' = [prog EXCEPT ![p].item = prog[p].phase,
                            ![p].pc = IF task[prog[p].phase].status = "pending"
                                      THEN "claim current" ELSE "refresh"]
    /\ UNCHANGED <<registry, task, payload, cancelled, reached>>

\* ... and the DAG is built again, which validates every task.
Refresh(p) ==
    /\ prog[p].pc = "refresh"
    /\ IF \A x \in Resources : task[x].attempt <= MaxAttempts
       THEN prog' = [prog EXCEPT ![p].pc = "sync", ![p].item = NoParent]
       ELSE Swallow(p)
    /\ UNCHANGED <<registry, task, payload, cancelled, reached>>

-----------------------------------------------------------------------------
(* The end of the run, and the world around it.                            *)

Release(p) ==
    /\ prog[p].pc \in {"open", "phase"} /\ prog[p].phase \in Ends /\ ~cancelled[p]
    /\ Finish(p, R, IF prog[p].phase = "done" THEN "released" ELSE "failed")
    /\ Close(p)
    /\ UNCHANGED <<task, payload, cancelled, reached>>

EnterCancel(p) ==
    /\ prog[p].pc = "closing"
    /\ IF run[R].status = "cancel_requested" THEN BeginCancelling(p, R) ELSE RequestCancel(p, R)
    /\ prog' = IF run[R].status = "cancel_requested"
               THEN [prog EXCEPT ![p].pc = "cancel", ![p].item = NoParent,
                                 ![p].todo = {x \in ResourcesOf(R) : ~Settled(x)}]
               ELSE prog
    /\ UNCHANGED <<task, payload, cancelled, reached>>

EndCancel(p) ==
    /\ Visited(p, "cancel")
    /\ IF prog[p].bad THEN MarkRecoveryRequired(p, R) ELSE Finish(p, R, "cancelled")
    /\ Close(p)
    /\ UNCHANGED <<task, payload, cancelled, reached>>

\* A store that refuses ends the run of a process that no longer owns it.
LoseOwnership(p) ==
    /\ Running(p) /\ ~Owns(p, R)
    /\ Close(p)
    /\ UNCHANGED <<registry, task, payload, cancelled, reached>>

\* The token is only read between two advances.
SetToken(p) ==
    /\ prog[p].pc \in {"open", "phase"} /\ ~cancelled[p]
    /\ cancelled' = [cancelled EXCEPT ![p] = TRUE]
    /\ UNCHANGED <<registry, task, payload, prog, reached>>

\* The heartbeat thread of an owner renews the running tasks between two advances, which are
\* under the same lock.
Beats(p) == prog[p].pc = "phase" /\ Owns(p, R) /\ run[R].live
Renew(p, x) ==
    /\ Beats(p) /\ task[x].status = "running" /\ task[x].live
    /\ prog' = Written(x, prog) /\ prog # prog'
    /\ UNCHANGED <<registry, task, payload, cancelled, reached>>

\* The lease of a task runs out when no owner lives, or the owner stalls.
TaskExpires(x) ==
    /\ task[x].live
    /\ "task" \in Faults \/ \A p \in Procs : ~(Running(p) /\ Owns(p, R))
    /\ task' = [task EXCEPT ![x].live = FALSE]
    /\ UNCHANGED <<registry, payload, prog, cancelled, reached>>

LeaseExpires == "run" \in Faults /\ Expire(R) /\ UNCHANGED <<task, payload, prog, cancelled, reached>>

Die(p) ==
    /\ "death" \in Faults /\ Crash(p)
    /\ prog' = [prog EXCEPT ![p] = Idle]
    /\ cancelled' = [cancelled EXCEPT ![p] = FALSE]
    /\ UNCHANGED <<task, payload, reached>>

TaskStep(p) ==
    \/ Start(p) \/ Inspect(p) \/ Ask(p) \/ Look(p) \/ RecordRow(p) \/ EndReconcile(p) \/ Attach(p) \/ Attached(p)
    \/ SyncRow(p) \/ Synced(p) \/ Advance(p) \/ FinishCancelled(p) \/ FinishNext(p)
    \/ ReadTask(p) \/ Claim(p) \/ Reread(p) \/ Commit(p)
    \/ ReadCurrent(p) \/ Refresh(p) \/ Release(p) \/ EnterCancel(p) \/ EndCancel(p)

TasksNext ==
    \/ \E p \in Procs : TaskStep(p) \/ LoseOwnership(p) \/ SetToken(p) \/ Die(p)
                        \/ \E x \in Resources : Renew(p, x)
    \/ \E x \in Resources : TaskExpires(x)
    \/ LeaseExpires

TasksSpec == TasksInit /\ [][TasksNext]_taskVars

-----------------------------------------------------------------------------

Process == [pc : {"none", "reconcile", "cancel", "attach", "sync", "open", "phase", "read", "claim", "reread",
                  "commit", "current", "claim current", "refresh", "finishing", "closing", "closed"},
            phase : {"none", "cancelled"} \cup Ends \cup Resources, item : Resources \cup {NoParent},
            goal : Ended, fresh : BOOLEAN, seen : {"none", "unknown", "not_started"} \cup Ended,
            todo : SUBSET Resources, pending : SUBSET Resources, bad : BOOLEAN,
            next : {"open", "phase", "closing"}]

(* The rows and the threads keep their shape.                              *)
TasksTypeOK ==
    /\ task \in [Resources -> TaskRow]
    /\ payload \in [Resources -> Generations]
    /\ prog \in [Procs -> Process]
    /\ cancelled \in [Procs -> BOOLEAN]
    /\ reached \in {"none", "patch", "verify"} \cup Ends

(* A cancel request is never lost: whatever claims, heartbeats and         *)
(* completions race with request_cancel_task, the request stays in the row *)
(* and no worker claims the task after it.                                 *)
CancelSticks ==
    [][\A x \in Resources : task[x].cancel => task'[x].cancel /\ task'[x].attempt = task[x].attempt]_taskVars

(* Completed, failed and cancelled are final for a task row: no claim, no  *)
(* late completion and no cancel request of any process changes it again.  *)
EndedStays == [][\A x \in Resources : task[x].status \in Ended => task'[x] = task[x]]_taskVars

(* The row of the run never tells more than the task: a row that says      *)
(* completed or cancelled is that of a task which is so, whichever process *)
(* synchronises, reconciles or cancels while another completes it.         *)
RowNeverAhead ==
    \A x \in Resources : res[x].status \in {"completed", "cancelled"} => task[x].status = res[x].status

(* In a run that is not taken over, tasks complete in the order of their   *)
(* dependencies, although an advance looks at one predecessor only and     *)
(* every exception of the runtime is swallowed.                            *)
CompletedInOrder ==
    run[R].generation <= 1 /\ task["verify"].status = "completed" => task["patch"].status = "completed" /\ task["context"].status = "completed"

Executing(q, x) == prog[q].pc = "phase" /\ prog[q].phase = x

(* The adapter never says of a task that it failed or was cancelled while  *)
(* the process that claimed it executes its phase (docstring of            *)
(* CollaborationTaskAdapter: a running task is never guessed to be         *)
(* stopped).                                                               *)
NeverGuessedStopped ==
    [][\A p \in Procs : prog[p].seen # prog'[p].seen /\ prog'[p].seen \in {"failed", "cancelled"}
        => LET x == prog'[p].item IN task[x].by \in Procs => ~Executing(task[x].by, x)]_taskVars

(* AgentTask.validate: attempt must be <= max_attempts.                    *)
AttemptsWithinLimit == \A x \in Resources : task[x].attempt <= MaxAttempts

(* Docstring of RepairCollaborationRuntime: phase execution and durable    *)
(* task state are aligned, so the task of the phase that executes is       *)
(* running.                                                                *)
PhasesAligned == \A p \in Procs, x \in Resources : Executing(p, x) => task[x].status = "running"

(* A run is left in recovery_required only when something of it is not     *)
(* known to have ended: here, while some phase executes or a process that  *)
(* owned the run died in it.                                               *)
RecoveryMeansUnconfirmed ==
    run[R].status = "recovery_required" => \E p \in Procs : Running(p) \/ prog[p].pc = "none"

=============================================================================
