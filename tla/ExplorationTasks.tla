-------------------------- MODULE ExplorationTasks --------------------------
(***************************************************************************)
(* The read-only explorations of one run: durable rows                     *)
(* (collaboration/exploration_store.py), the worker threads, the deadline  *)
(* monitor and the owner thread of each process                            *)
(* (collaboration/exploration_runtime.py), over the run registry, where    *)
(* each exploration is a resource "exploration:<task>".  The owner writes  *)
(* to the workspace only after it has drained its workers.                 *)
(*                                                                         *)
(* The id of an attempt is its number, 0 for none.  lease_generation is    *)
(* left out: it grows with every claim, invalidation and retry, and two    *)
(* rows that are both running and of one attempt have the same.  "partial" *)
(* is counted as "completed".                                              *)
(***************************************************************************)
EXTENDS RunCoordination, FiniteSetsExt

CONSTANTS
    Budget,       \* tokens reserved for one attempt
    RunTokens,    \* tokens of all explorations of the run
    MaxAttempts,  \* bound on the attempts of a task
    MaxWrites,    \* bound on the writes of an owner
    Faults        \* which happen: the "lease" runs out, a "death", a "cancel" of a token, a "deadline"

R == CHOOSE r \in Runs : TRUE

ASSUME ExplorationAssumption ==
    /\ Runs = {R} /\ IsFiniteSet(Resources)
    /\ Budget \in Nat /\ RunTokens \in Nat /\ MaxAttempts \in Nat /\ MaxWrites \in Nat
    /\ Faults \subseteq {"lease", "death", "cancel", "deadline"}

VARIABLES
    rec,       \* the row of each exploration
    work,      \* work[p][x]: the thread of process p that explores x
    own,       \* own[p]: the owner thread of process p
    token      \* token[p]: the parent token, and whether its callback has run

registry == <<run, res, lease, retired>>
exploreVars == <<registry, rec, work, own, token>>

-----------------------------------------------------------------------------

Active == {"queued", "running", "worker_lost"}
Reasons == {"cancelled", "failed", "timed_out"}
Ended == {"completed"} \cup Reasons

Row == [status : {"absent"} \cup Active \cup Ended, ask : {"none"} \cup Reasons,
        attempt : 0 .. MaxAttempts, lost : 0 .. MaxAttempts,
        charged : Nat, paid : Nat, settled : BOOLEAN, clean : BOOLEAN,
        by : Generations, late : BOOLEAN]

Worker == [pc : {"none", "waiting", "exploring", "confirming"}, attempt : 0 .. MaxAttempts, stop : BOOLEAN]

OwnerSteps == {"none", "reconcile", "restore", "open", "delegate", "draining", "writing", "closing",
               "cancel", "close", "joining", "settle", "closed"}

NoWorker == [pc |-> "none", attempt |-> 0, stop |-> FALSE]

NoOwner == [pc |-> "none", todo |-> {}, queued |-> {}, item |-> NoParent, seen |-> "none", bad |-> FALSE,
            writes |-> 0]

ExploreTypeOK ==
    /\ TypeOK
    /\ rec \in [Resources -> Row]
    /\ work \in [Procs -> [Resources -> Worker]]
    /\ own \in [Procs -> [pc : OwnerSteps, todo : SUBSET Resources, queued : SUBSET Resources,
                          item : Resources \cup {NoParent},
                          seen : {"none", "asked", "unknown"} \cup SettledStates, bad : BOOLEAN,
                          writes : 0 .. MaxWrites]]
    /\ token \in [Procs -> {"live", "cancelled", "told"}]

ExploreInit ==
    /\ Init
    /\ rec = [x \in Resources |-> [status |-> "absent", ask |-> "none", attempt |-> 0, lost |-> 0,
                                   charged |-> 0, paid |-> 0, settled |-> TRUE, clean |-> FALSE,
                                   by |-> 0, late |-> FALSE]]
    /\ work = [p \in Procs |-> [x \in Resources |-> NoWorker]]
    /\ own = [p \in Procs |-> NoOwner]
    /\ token = [p \in Procs |-> "live"]

Charged == MapThenSumSet(LAMBDA x : rec[x].charged, Resources)
IsActive(x) == rec[x].status \in Active
Busy(p) == {x \in Resources : work[p][x].pc # "none"}
Idle(p) == Busy(p) = {}
\* The runtime of the process exists and is not closed.
Open(p) == own[p].pc \notin {"none", "joining", "settle", "closed"}
Goto(p, pc) == own' = [own EXCEPT ![p].pc = pc]

\* confirmed_exited: no process holds the generation of the owner any more.
Exited(g) == \A q \in Procs : lease[q][R] # g

\* The worker of the row cannot be running, as far as its row and its process tell.
Stopped(x) == rec[x].clean \/ rec[x].status = "queued" \/ Exited(rec[x].by)

-----------------------------------------------------------------------------
(* invalidate_worker: a row gives up its worker.                           *)

\* Deviation: the reservation is settled with every invalidation.
Settle_Again(row, charge) ==
    [row EXCEPT !.settled = TRUE, !.charged = @ + charge - Budget, !.paid = @ + charge]

\* The receipt of an attempt, once for each reservation.
Settle(row, charge) ==
    IF row.settled THEN row
    ELSE [row EXCEPT !.settled = TRUE, !.charged = @ + charge - Budget, !.paid = @ + charge]

\* Deviation: an invalidated worker counts as stopped.
Invalidated_Clean(x, reason, stopped) ==
    IF ~IsActive(x) THEN rec[x]
    ELSE [Settle(rec[x], IF rec[x].status = "queued" THEN 0 ELSE Budget) EXCEPT
            !.ask = reason, !.lost = rec[x].attempt, !.clean = TRUE,
            !.status = IF rec[x].status = "queued" \/ stopped THEN reason ELSE "worker_lost"]

Invalidated(x, reason, stopped) ==
    LET gone == rec[x].status = "queued" \/ stopped
    IN IF ~IsActive(x) THEN rec[x]
       ELSE [Settle(rec[x], IF rec[x].status = "queued" THEN 0 ELSE Budget) EXCEPT
               !.ask = reason, !.lost = rec[x].attempt, !.clean = gone,
               !.status = IF gone THEN reason ELSE "worker_lost"]

Invalidate(x, reason, stopped) == rec' = [rec EXCEPT ![x] = Invalidated(x, reason, stopped)]

\* _request_cancel: every active row of the run loses its worker, whoever
\* started it, and the threads of this process are told.
CancelAll(p) ==
    /\ rec' = [x \in Resources |-> Invalidated(x, "cancelled", FALSE)]
    /\ work' = [work EXCEPT ![p] = [x \in Resources |->
                 IF IsActive(x) /\ work[p][x].pc # "none" THEN [work[p][x] EXCEPT !.stop = TRUE]
                 ELSE work[p][x]]]

-----------------------------------------------------------------------------
(* The worker thread.                                                      *)

Told(p, x) == work[p][x].stop \/ token[p] # "live"

Leaves(p, x) == work' = [work EXCEPT ![p][x] = NoWorker]

\* The thread is told to stop before it claims its task.
Abandon(p, x) ==
    /\ work[p][x].pc = "waiting" /\ Told(p, x)
    /\ Invalidate(x, "failed", TRUE)
    /\ Leaves(p, x)
    /\ UNCHANGED <<registry, own, token>>

Claimable(x) == rec[x].status = "queued" /\ rec[x].ask = "none" /\ ~rec[x].late

\* One of the two read permits of the run, and the claim.
Claim(p, x) ==
    /\ work[p][x].pc = "waiting"
    /\ Cardinality({y \in Resources : work[p][y].pc \in {"exploring", "confirming"}}) < 2
    /\ IF Claimable(x)
         THEN /\ rec[x].attempt < MaxAttempts
              /\ rec' = [rec EXCEPT ![x].status = "running", ![x].attempt = @ + 1, ![x].by = lease[p][R],
                                    ![x].clean = FALSE]
              /\ work' = [work EXCEPT ![p][x].pc = "exploring", ![p][x].attempt = rec[x].attempt + 1]
         ELSE Leaves(p, x) /\ UNCHANGED rec
    /\ UNCHANGED <<registry, own, token>>

\* What explore returns, or the "failed" of an exception; the usage may be unknown.
Results(p, x) ==
    {"completed", "failed"} \cup
    (IF ~Told(p, x) THEN {} ELSE IF rec[x].late THEN {"timed_out", "cancelled"} ELSE {"cancelled"})

Fenced(p, x) == rec[x].status # "running" \/ rec[x].attempt # work[p][x].attempt

\* finish: refused unless the row still runs this attempt.
Publish(p, x) ==
    /\ work[p][x].pc = "exploring"
    /\ IF Fenced(p, x) THEN UNCHANGED rec
       ELSE \E status \in Results(p, x), charge \in 0 .. Budget :
              rec' = [rec EXCEPT ![x] =
                        [Settle(rec[x], charge) EXCEPT
                           !.status = IF rec[x].ask # "none" THEN "cancelled" ELSE status,
                           !.clean = TRUE]]
    /\ work' = [work EXCEPT ![p][x].pc = "confirming"]
    /\ UNCHANGED <<registry, own, token>>

\* Deviation: only a worker whose result was accepted confirms its end.
Confirm_IfFinished(p, x) ==
    /\ work[p][x].pc = "confirming"
    /\ Leaves(p, x)
    /\ UNCHANGED <<registry, rec, own, token>>

\* confirm_cleanup, the last thing a thread with a claim does.
Confirm(p, x) ==
    /\ work[p][x].pc = "confirming"
    /\ rec' = IF rec[x].lost # work[p][x].attempt THEN rec
              ELSE [rec EXCEPT ![x].clean = TRUE, ![x].status = rec[x].ask]
    /\ Leaves(p, x)
    /\ UNCHANGED <<registry, own, token>>

\* _watch, until the runtime is closed.
Watch(p, x) ==
    /\ Open(p)
    /\ rec[x].late /\ rec[x].status \in {"queued", "running"}
    /\ Invalidate(x, "timed_out", FALSE)
    /\ work' = [work EXCEPT ![p][x].stop = work[p][x].pc # "none"]
    /\ UNCHANGED <<registry, own, token>>

\* The callback of the parent token, until the runtime unsubscribes.
Callback(p) ==
    /\ token[p] = "cancelled"
    /\ Open(p)
    /\ token' = [token EXCEPT ![p] = "told"]
    /\ CancelAll(p)
    /\ UNCHANGED <<registry, own>>

-----------------------------------------------------------------------------
(* The owner thread: opening, and the restoring of what an earlier owner   *)
(* left.                                                                   *)

\* A process opens the run once in its life.
Start(p) ==
    /\ own[p].pc = "none"
    /\ Acquire(p, R)
    /\ own' = [own EXCEPT ![p].pc = "reconcile", ![p].todo = ResourcesOf(R)]
    /\ UNCHANGED <<rec, work, token>>

Visiting(p, pc) == own[p].pc = pc /\ own[p].item = NoParent
Visited(p, pc) == Visiting(p, pc) /\ own[p].todo = {}

\* The adapter's answer for a row: completed once its worker has stopped.
Answer(x) == IF Stopped(x) THEN "completed" ELSE "unknown"

\* reconcile asks for every row, close of the runtime too; a settled one keeps its status.
Inspect(p, x) ==
    /\ Visiting(p, own[p].pc) /\ own[p].pc \in {"reconcile", "settle"}
    /\ x \in own[p].todo
    /\ own' = [own EXCEPT ![p].item = x,
                          ![p].seen = IF own[p].pc = "reconcile" /\ Settled(x) THEN res[x].status ELSE Answer(x)]
    /\ UNCHANGED <<registry, rec, work, token>>

\* The adapter's cancel: every exploration is asked to stop, ...
Ask(p, x) ==
    /\ Visiting(p, "cancel") /\ x \in own[p].todo
    /\ CancelAll(p)
    /\ own' = [own EXCEPT ![p].item = x, ![p].seen = "asked"]
    /\ UNCHANGED <<registry, token>>

\* ... and whether its worker has stopped is looked up once all threads have ended or cleanup_s is over.
Look(p) ==
    /\ own[p].seen = "asked"
    /\ own' = [own EXCEPT ![p].seen = Answer(own[p].item)]
    /\ UNCHANGED <<registry, rec, work, token>>

RecordRow(p) ==
    /\ own[p].seen \notin {"none", "asked"}
    /\ LET x == own[p].item
       IN /\ TransitionResource(p, R, x, own[p].seen, IF own[p].seen = "unknown" THEN "unknown" ELSE "confirmed",
                                own[p].pc = "reconcile")
          /\ own' = [own EXCEPT ![p].item = NoParent, ![p].seen = "none", ![p].todo = @ \ {x},
                                ![p].bad = @ \/ (own[p].seen = "unknown" /\ own[p].pc # "settle")]
    /\ UNCHANGED <<rec, work, token>>

EndReconcile(p) ==
    /\ Visited(p, "reconcile")
    /\ IF own[p].bad THEN MarkRecoveryRequired(p, R) /\ Goto(p, "close")
       ELSE IF run[R].cancel THEN RequestCancel(p, R) /\ Goto(p, "closing")
       ELSE /\ Activate(p, R)
            /\ own' = [own EXCEPT ![p].pc = "restore", ![p].todo = {x \in Resources : IsActive(x)},
                                 ![p].queued = {x \in Resources : rec[x].status = "queued"}]
    /\ UNCHANGED <<rec, work, token>>

\* _owner: what lets the owner thread use the runtime.
MayUse(p) == token[p] = "live" /\ CanDispatch(p, R)

\* Deviation: an attempt is retried whatever became of its worker.
Retried_Anyway(x) ==
    IF Charged + Budget > RunTokens THEN {}
    ELSE {[rec[x] EXCEPT !.status = "queued", !.ask = "none", !.settled = FALSE, !.clean = FALSE, !.late = FALSE,
                         !.charged = @ + Budget, !.paid = IF rec[x].settled THEN @ ELSE @ + Budget]}

\* What retry makes of a running or lost row; nothing when it raises.
Retried(x) ==
    IF ~Stopped(x) \/ Charged + Budget > RunTokens THEN {}
    ELSE {[rec[x] EXCEPT !.status = "queued", !.ask = "none", !.settled = FALSE, !.clean = FALSE, !.late = FALSE,
                         !.charged = @ + Budget, !.paid = IF rec[x].settled THEN @ ELSE @ + Budget]}

\* restore retries the attempts that it listed as running or lost; a row that ended since stays.
Retry(p, x) ==
    /\ Visiting(p, "restore") /\ x \in own[p].todo \ own[p].queued
    /\ IF rec[x].status \in {"running", "worker_lost"}
         THEN /\ \E row \in Retried(x) : rec' = [rec EXCEPT ![x] = row]
              /\ own' = [own EXCEPT ![p].queued = @ \cup {x}]
         ELSE /\ own' = [own EXCEPT ![p].todo = IF rec[x].status = "queued" THEN @ ELSE @ \ {x},
                                    ![p].queued = IF rec[x].status = "queued" THEN @ \cup {x} ELSE @]
              /\ UNCHANGED rec
    /\ UNCHANGED <<registry, work, token>>

\* _start: a stopped runtime gives the task up; else it becomes a resource of the run and gets its thread.
StartWorker(p, x) ==
    /\ Visiting(p, own[p].pc) /\ own[p].pc \in {"restore", "delegate"}
    /\ x \in own[p].todo /\ (own[p].pc = "restore" => x \in own[p].queued)
    /\ own' = [own EXCEPT ![p].todo = @ \ {x}, ![p].queued = @ \ {x}]
    /\ IF token[p] # "live"
         THEN Invalidate(x, "cancelled", TRUE) /\ UNCHANGED <<registry, work>>
         ELSE /\ IF res[x].status # "absent" THEN UNCHANGED registry
                 ELSE CanDispatch(p, R) /\ RegisterResource(p, R, x, NoParent, FALSE)
              /\ work' = [work EXCEPT ![p][x] = [NoWorker EXCEPT !.pc = "waiting", !.stop = rec[x].late]]
              /\ UNCHANGED rec
    /\ UNCHANGED token

\* A task whose row cannot be registered is given up.
StartFails(p, x) ==
    /\ Visiting(p, "delegate") /\ x \in own[p].todo
    /\ token[p] = "live" /\ res[x].status = "absent" /\ ~CanDispatch(p, R)
    /\ Invalidate(x, "failed", TRUE)
    /\ own' = [own EXCEPT ![p].todo = @ \ {x}]
    /\ UNCHANGED <<registry, work, token>>

Restored(p) ==
    /\ \E pc \in {"restore", "delegate"} : Visited(p, pc)
    /\ Goto(p, "open")
    /\ UNCHANGED <<registry, rec, work, token>>

-----------------------------------------------------------------------------
(* The owner thread: delegating and writing.                               *)

Fits(xs) == Charged + Cardinality(xs) * Budget <= RunTokens

\* delegate: submit_batch, in one transaction, and the start of each task.
Delegate(p, xs) ==
    /\ own[p].pc = "open" /\ MayUse(p)
    /\ Cardinality(xs) \in {1, 2} /\ \A x \in xs : rec[x].status = "absent"
    /\ Cardinality({x \in Resources : IsActive(x) /\ ~rec[x].clean}) + Cardinality(xs) <= 2
    /\ Fits(xs)
    /\ rec' = [x \in Resources |-> IF x \in xs THEN [rec[x] EXCEPT !.status = "queued", !.charged = Budget, !.settled = FALSE]
                                               ELSE rec[x]]
    /\ own' = [own EXCEPT ![p].pc = "delegate", ![p].todo = xs]
    /\ UNCHANGED <<registry, work, token>>

\* before_write: the explorations are cancelled and drained, ...
BeginWrite(p) ==
    /\ own[p].pc = "open" /\ MayUse(p) /\ own[p].writes < MaxWrites
    /\ CancelAll(p)
    /\ own' = [own EXCEPT ![p].pc = "draining", ![p].writes = @ + 1]
    /\ UNCHANGED <<registry, token>>

\* Deviation: drain waits for the threads and believes its deadline.
Quiet_Always(p) == TRUE

\* What drain checks when it has joined the threads, or cleanup_s is over.
Quiet(p) == Idle(p) /\ \A x \in Resources : ~IsActive(x)

\* ... and the write begins when nothing is left of them.
Write(p) ==
    /\ own[p].pc = "draining" /\ Quiet(p) /\ MayUse(p)
    /\ Goto(p, "writing")
    /\ UNCHANGED <<registry, rec, work, token>>

Written(p) ==
    /\ own[p].pc = "writing"
    /\ Goto(p, "open")
    /\ UNCHANGED <<registry, rec, work, token>>

-----------------------------------------------------------------------------
(* The owner thread: the end of the run.                                   *)

\* end_repair_trace of a run that was not cancelled.
Release(p, status) ==
    /\ own[p].pc = "open" /\ token[p] = "live"
    /\ Finish(p, R, status)
    /\ Goto(p, "close")
    /\ UNCHANGED <<rec, work, token>>

\* A step of the owner raises: a retry or a drain is refused, the token is cancelled, or it fails itself.
Raise(p) ==
    /\ own[p].pc \in {"reconcile", "restore", "open", "delegate", "draining", "writing"}
    /\ own' = [own EXCEPT ![p] = [NoOwner EXCEPT !.pc = "closing"]]
    /\ UNCHANGED <<registry, rec, work, token>>

\* The cancellation is left out when a verification process may still run.
Skip(p) ==
    /\ own[p].pc = "closing"
    /\ Goto(p, "close")
    /\ UNCHANGED <<registry, rec, work, token>>

EnterCancel(p) ==
    /\ own[p].pc = "closing"
    /\ IF run[R].status = "cancel_requested" THEN BeginCancelling(p, R) ELSE RequestCancel(p, R)
    /\ own' = IF run[R].status = "cancel_requested"
              THEN [own EXCEPT ![p].pc = "cancel", ![p].todo = {x \in ResourcesOf(R) : ~Settled(x)}]
              ELSE own
    /\ UNCHANGED <<rec, work, token>>

\* coordinator.cancel, with or without finalize.
EndCancel(p) ==
    /\ Visited(p, "cancel")
    /\ \/ own[p].bad /\ MarkRecoveryRequired(p, R)
       \/ ~own[p].bad /\ Finish(p, R, "cancelled")
       \/ ~own[p].bad /\ UNCHANGED registry
    /\ Goto(p, "close")
    /\ UNCHANGED <<rec, work, token>>

\* close: the monitor and the callback end, the explorations are cancelled, ...
CloseRuntime(p) ==
    /\ own[p].pc = "close"
    /\ CancelAll(p)
    /\ Goto(p, "joining")
    /\ UNCHANGED <<registry, token>>

\* ... drained, and their rows settled.
Joined(p) ==
    /\ own[p].pc = "joining"
    /\ own' = [own EXCEPT ![p].pc = "settle", ![p].bad = ~Quiet(p), ![p].todo = ResourcesOf(R)]
    /\ UNCHANGED <<registry, rec, work, token>>

\* close of the binding ends a run that is still owned.
CloseBinding(p) ==
    /\ Visited(p, "settle")
    /\ Finish(p, R, IF own[p].bad \/ run[R].status # "active" THEN "recovery_required" ELSE "released")
    /\ Goto(p, "closed")
    /\ UNCHANGED <<rec, work, token>>

\* A registry that refuses an owner that lost the run ends its work.
LoseOwnership(p) ==
    /\ own[p].pc \notin {"none", "close", "joining", "closed"} /\ ~Owns(p, R)
    /\ own' = [own EXCEPT ![p] = [NoOwner EXCEPT !.pc = IF own[p].pc = "settle" THEN "closed" ELSE "close"]]
    /\ UNCHANGED <<registry, rec, work, token>>

-----------------------------------------------------------------------------
(* Surroundings.                                                           *)

Cancel(p) ==
    /\ "cancel" \in Faults /\ token[p] = "live" /\ Open(p)
    /\ token' = [token EXCEPT ![p] = "cancelled"]
    /\ UNCHANGED <<registry, rec, work, own>>

\* deadline_at passes, for the row and for the tokens of its threads.
Deadline(x) ==
    /\ "deadline" \in Faults /\ rec[x].status \in {"queued", "running"} /\ ~rec[x].late
    /\ rec' = [rec EXCEPT ![x].late = TRUE]
    /\ work' = [p \in Procs |-> [work[p] EXCEPT ![x].stop = work[p][x].pc # "none"]]
    /\ UNCHANGED <<registry, own, token>>

LeaseExpires ==
    /\ "lease" \in Faults
    /\ Expire(R)
    /\ UNCHANGED <<rec, work, own, token>>

Die(p) ==
    /\ "death" \in Faults
    /\ Crash(p)
    /\ own' = [own EXCEPT ![p] = NoOwner]
    /\ work' = [work EXCEPT ![p] = [x \in Resources |-> NoWorker]]
    /\ token' = [token EXCEPT ![p] = "live"]
    /\ UNCHANGED rec

WorkerStep(p, x) == Abandon(p, x) \/ Claim(p, x) \/ Publish(p, x) \/ Confirm(p, x)

OwnerStepOf(p) ==
    \/ Start(p) \/ Look(p) \/ RecordRow(p) \/ EndReconcile(p) \/ Restored(p)
    \/ \E x \in Resources : Inspect(p, x) \/ Ask(p, x) \/ Retry(p, x) \/ StartWorker(p, x) \/ StartFails(p, x)
    \/ \E xs \in SUBSET Resources : Delegate(p, xs)
    \/ BeginWrite(p) \/ Write(p) \/ Written(p)
    \/ \E status \in {"released", "failed"} : Release(p, status)
    \/ Raise(p) \/ Skip(p) \/ EnterCancel(p) \/ EndCancel(p)
    \/ CloseRuntime(p) \/ Joined(p) \/ CloseBinding(p) \/ LoseOwnership(p)

ExploreNext ==
    \/ \E p \in Procs : OwnerStepOf(p) \/ Callback(p) \/ Cancel(p) \/ Die(p)
    \/ \E p \in Procs, x \in Resources : WorkerStep(p, x) \/ Watch(p, x)
    \/ \E x \in Resources : Deadline(x)
    \/ LeaseExpires

ExploreSpec == ExploreInit /\ [][ExploreNext]_exploreVars

-----------------------------------------------------------------------------

Exploring(p, x) == work[p][x].pc = "exploring"

(* The tokens charged to an exploration are those of its receipts, and the *)
(* whole reservation while one is open: claims, late results,              *)
(* invalidations by the deadline monitor and by the callback, and retries  *)
(* settle every reservation exactly once, and no batch and no retry after  *)
(* a crash takes the run over its tokens.                                  *)
TokensAccounted ==
    /\ \A x \in Resources : rec[x].charged = rec[x].paid + IF rec[x].settled THEN 0 ELSE Budget
    /\ Charged <= RunTokens

(* A row says that its cleanup is confirmed only once no thread of any     *)
(* process explores for it.                                                *)
CleanMeansStopped == \A p \in Procs, x \in Resources : rec[x].clean => ~Exploring(p, x)

(* Before any takeover a row says that its cleanup is confirmed only once  *)
(* no thread explores for it, whoever invalidated it: the deadline         *)
(* monitor, the callback, the owner or the thread itself.                  *)
CleanUnderOneOwner == run[R].generation <= 1 => CleanMeansStopped

(* While an owner writes, no worker of its process reads the workspace:    *)
(* drain's deadline, a late claim, a retry or a result that is refused     *)
(* never lets a thread outlive the beginning of the write.                 *)
WritesAreAlone ==
    \A p \in Procs, x \in Resources : own[p].pc = "writing" => ~Exploring(p, x)

(* Whichever processes take the run over, an exploration has one worker at *)
(* a time: a retry waits for the end of the process that held the attempt. *)
OneWorker ==
    \A p, q \in Procs, x \in Resources : Exploring(p, x) /\ Exploring(q, x) => p = q

(* A run that the registry has ended has no worker that still explores:    *)
(* finish looks at the rows of the resources, not at the threads.          *)
EndedRunIsQuiet ==
    run[R].status \in EndStates => \A p \in Procs, x \in Resources : ~Exploring(p, x)

(* A run whose explorations are all known to be cleaned up is not left to  *)
(* a recovery when it ends without a cancellation.                         *)
CleanRunIsReleased ==
    [][\A p \in Procs : own[p].pc = "open" /\ own'[p].pc = "close" /\ run'[R].status = "recovery_required"
        => \E x \in Resources : rec[x].status # "absent" /\ ~rec[x].clean]_exploreVars

(* A lost worker will be found to have ended: while its row waits for      *)
(* that, the thread of the lost attempt is still there to confirm it,      *)
(* although its result will be refused, or its process has gone.           *)
LostHaveWitness ==
    \A x \in Resources : rec[x].status = "worker_lost" =>
        \/ \E p \in Procs : work[p][x].pc \in {"exploring", "confirming"} /\ work[p][x].attempt = rec[x].lost
        \/ Exited(rec[x].by)

=============================================================================
