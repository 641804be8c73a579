---------------------------- MODULE PlanExecution ----------------------------
(***************************************************************************)
(* One repair run as its plan journal sees it (agent_runtime/plan_runtime  *)
(* under src/repair/plan_binding.py): nodes explore -> analyze -> edit ->  *)
(* verify, each executed by an attempt that is prepared, dispatched, given *)
(* a recorded result and reconciled in separate appends; tool operations   *)
(* of an attempt are journalled the same way; a failed verification rolls  *)
(* the tree back and asks for a new graph.  A process may die after every  *)
(* append; the next one asks the adapter about every attempt, reconstructs *)
(* the rest from the journal and goes on, or is refused.                   *)
(*                                                                         *)
(* The tree is one content number and a piece of evidence is the content   *)
(* it was taken at, 0 if there is none: it is valid while the tree still   *)
(* has that content.  The pre-plan reads took content 1.                   *)
(***************************************************************************)
EXTENDS Integers, Sequences, SequencesExt, FiniteSets

CONSTANTS
    Explores,     \* the explore nodes of every graph
    MaxReplans,   \* MAX_REPLANS
    MaxOps,       \* bound: tool operations of an edit
    MaxAttempts,  \* bound: attempts of the run
    MaxLives,     \* bound: processes that execute the run
    MaxForeign    \* bound: changes of the tree by anybody else

ASSUME PlanAssumption ==
    /\ Explores \cap {"analyze", "edit", "verify"} = {} /\ IsFiniteSet(Explores)
    /\ {MaxReplans, MaxOps, MaxAttempts, MaxLives, MaxForeign} \subseteq Nat

Nodes == Explores \cup {"analyze", "edit", "verify"}

DependsOn(n) == IF n \in Explores THEN {} ELSE
    CASE n = "analyze" -> Explores [] n = "edit" -> {"analyze"} [] n = "verify" -> {"edit"}

Transitions ==
    [pending |-> {"ready", "blocked", "stale", "cancelled"}, ready |-> {"running", "blocked", "stale", "cancelled"},
     running |-> {"succeeded", "failed", "cancelled", "uncertain"}, uncertain |-> {"succeeded", "failed", "blocked"},
     succeeded |-> {"stale", "uncertain"}, blocked |-> {"stale"}, stale |-> {"ready", "blocked"},
     failed |-> {}, cancelled |-> {}]

Phases == {"prepared", "dispatched", "result_recorded", "reconciled"}
Results == {"none", "success", "failed", "cancelled", "uncertain"}

VARIABLES
    plan,      \* the latest saved Plan: version, content of its input evidence, nodes
    attempts,  \* the latest journal record of every attempt, with its operations and its registry row (`closed`)
    live,      \* the attempts one of whose tools or test runs is really executing
    disk, top, \* the content of the tree, and the last content number given
    origin,    \* the content the process took as its initial snapshot
    rollback,  \* the latest rollback record
    request,   \* the latest replan request
    life,      \* the process that executes the run
    foreign,   \* changes of the tree by others
    me         \* the owner thread

planVars == <<plan, attempts, live, disk, top, origin, rollback, request, life, foreign, me>>
world == <<disk, top, origin, rollback, request, life, foreign>>

Op == [tool : {"read", "write"}, phase : {"prepared", "dispatched", "result_recorded"}, before : Nat, after : Nat,
       ok : BOOLEAN, stopped : BOOLEAN, wrote : BOOLEAN]
NodeRow == [status : DOMAIN Transitions, attempt : Nat, ref : Nat]
AttemptRow == [node : Nodes, version : Nat, before : Nat, phase : Phases, result : Results, ref : Nat,
               terminal : {"none", "succeeded", "failed", "cancelled", "uncertain"}, life : Nat,
               ops : Seq(Op), closed : BOOLEAN]

FreshNode == [status |-> "pending", attempt |-> 0, ref |-> 0]
IdleOwner == [pc |-> "idle", stage |-> "patch", a |-> 0, queue |-> <<>>, batch |-> <<>>, before |-> 0,
         then |-> "idle", status |-> "none", bad |-> FALSE]
Closed == [IdleOwner EXCEPT !.pc = "closed"]

PlanInit ==
    /\ plan = [version |-> 1, inputs |-> 1, node |-> [n \in Nodes |-> FreshNode]]
    /\ attempts = <<>> /\ live = {}
    /\ disk = 1 /\ top = 1 /\ origin = 1
    /\ rollback = [version |-> 0, completed |-> FALSE, after |-> 0, expected |-> 0]
    /\ request = [version |-> 0, status |-> "none"]
    /\ life = 1 /\ foreign = 0 /\ me = IdleOwner

-----------------------------------------------------------------------------
(* The journal read back.                                                  *)

Status(n) == plan.node[n].status
StatusIs(s) == {n \in Nodes : Status(n) \in s}
Ids == 1 .. Len(attempts)
OpsOf(a) == ToSet(attempts[a].ops)
OpenAttempts == {a \in Ids : attempts[a].phase # "reconciled"}
Complete(o) == o.phase = "result_recorded" /\ o.stopped
CompleteOps(a) == \A o \in OpsOf(a) : Complete(o)

\* An operation whose effect nobody can vouch for: not over, or it failed after it changed the tree.
Unknown(o) == ~Complete(o) \/ (o.before # o.after /\ ~o.ok)

Valid(ref) == ref # 0 /\ ref = disk

\* The evidence the tools of an attempt leave behind: the current patch of an edit, else what was observed.
ToolResult(a) ==
    LET useful == {o \in OpsOf(a) : /\ Complete(o) /\ o.ok /\ o.after = disk
                                    /\ attempts[a].node = "edit" => o.tool = "write" /\ o.before # o.after}
    IN  IF useful = {} THEN 0 ELSE disk

SetNode(p, n, s, a, ref) == [p EXCEPT !.node[n] = [status |-> s, attempt |-> a, ref |-> ref]]
SetStatus(p, n, s) == [p EXCEPT !.node[n].status = s]

Bad == {"failed", "cancelled", "blocked", "uncertain", "stale"}

\* refresh: failures spread along the dependencies, and a node becomes ready when they all succeeded.
NewStatus(p) ==
    LET new[n \in Nodes] ==
            LET deps == {new[d] : d \in DependsOn(n)} IN
            IF p.node[n].status \notin {"pending", "ready"} THEN p.node[n].status
            ELSE IF deps \cap Bad # {} \/ (n = "analyze" /\ ~Valid(p.inputs)) THEN "blocked"
            ELSE IF deps \subseteq {"succeeded"} THEN "ready" ELSE p.node[n].status
    IN  new

Refresh(p) ==
    LET new == NewStatus(p)
    IN  [p EXCEPT !.node = [n \in Nodes |-> [@[n] EXCEPT !.status = new[n]]]]

-----------------------------------------------------------------------------
(* An attempt, from prepare to its recorded result.                        *)

\* prepare: only explore nodes run beside each other, two at most.
MayRun(p, n) ==
    LET running == {x \in Nodes : p.node[x].status = "running"} IN
    /\ p.node[n].status = "ready"
    /\ \A x \in Nodes : p.node[x].status # "uncertain"
    /\ running # {} => n \in Explores /\ Cardinality(running) < 2 /\ running \subseteq Explores

Prepare(n, m) ==
    /\ Len(attempts) < MaxAttempts
    /\ MayRun(Refresh(plan), n)
    /\ plan' = Refresh(plan)
    /\ attempts' = Append(attempts, [node |-> n, version |-> plan.version, before |-> disk, phase |-> "prepared",
                                     result |-> "none", ref |-> 0, terminal |-> "none", life |-> life,
                                     ops |-> <<>>, closed |-> FALSE])
    /\ me' = [m EXCEPT !.pc = "mark", !.a = Len(attempts) + 1]
    /\ UNCHANGED <<live, world>>

MarkRunning ==
    /\ me.pc = "mark"
    /\ plan' = SetNode(plan, attempts[me.a].node, "running", me.a, 0)
    /\ me' = [me EXCEPT !.pc = "dispatch"]
    /\ UNCHANGED <<attempts, live, world>>

Dispatch ==
    /\ me.pc = "dispatch"
    /\ attempts' = [attempts EXCEPT ![me.a].phase = "dispatched"]
    /\ me' = [me EXCEPT !.batch = Append(@, me.a), !.pc = IF me.before = 0 \/ me.queue = <<>> THEN "run" ELSE "prepare"]
    /\ live' = IF attempts[me.a].node = "verify" THEN live \cup {me.a} ELSE live
    /\ UNCHANGED <<plan, world>>

\* The callback of attempt a is on the way.
Executing(a) == me.pc = "run" /\ a \in ToSet(me.batch) /\ attempts[a].phase = "dispatched"
Expected(a) == IF attempts[a].ops = <<>> THEN attempts[a].before ELSE Last(attempts[a].ops).after
InFlight(a) == attempts[a].ops # <<>> /\ Last(attempts[a].ops).phase # "result_recorded"
SetOp(a, o) == attempts' = [attempts EXCEPT ![a].ops[Len(attempts[a].ops)] = o]

\* Adopted observations: an explore whose exact read is already known at this content runs no tool.
Adopts(a) == attempts[a].node \in Explores /\ me.then = "adopt"

Tools(a) == IF attempts[a].node \in Explores /\ ~Adopts(a) /\ attempts[a].ops = <<>> THEN {"read"}
            ELSE IF attempts[a].node = "edit" /\ Len(attempts[a].ops) < MaxOps THEN {"read", "write"} ELSE {}

\* No further tool while the context of the attempt would be refused (action_uncertain).
OpPrepare(a, tool) ==
    /\ Executing(a) /\ tool \in Tools(a) /\ ~InFlight(a)
    /\ \A o \in OpsOf(a) : ~Unknown(o)
    /\ Expected(a) = disk
    /\ attempts' = [attempts EXCEPT ![a].ops = Append(@, [tool |-> tool, phase |-> "prepared", before |-> disk,
                        after |-> 0, ok |-> FALSE, stopped |-> FALSE, wrote |-> FALSE])]
    /\ UNCHANGED <<plan, live, world, me>>

OpDispatch(a) ==
    /\ Executing(a) /\ InFlight(a)
    /\ LET o == Last(attempts[a].ops) IN
       /\ o.phase = "prepared" /\ o.before = disk
       /\ SetOp(a, [o EXCEPT !.phase = "dispatched"])
    /\ live' = live \cup {a}
    /\ UNCHANGED <<plan, world, me>>

\* The tool itself, also when nobody waits for it any more.
ToolWrites(a) ==
    /\ a \in live /\ attempts[a].node = "edit"
    /\ LET o == Last(attempts[a].ops) IN
       /\ o.tool = "write" /\ ~o.wrote
       /\ SetOp(a, [o EXCEPT !.wrote = TRUE])
    /\ disk' = top + 1 /\ top' = top + 1
    /\ UNCHANGED <<plan, live, origin, rollback, request, life, foreign, me>>

\* A read during which the tree changed is never taken for stopped.
Stopped(o) == o.tool = "read" => o.before = disk

OpRecord(a) ==
    /\ Executing(a) /\ a \in live /\ InFlight(a)
    /\ LET o == Last(attempts[a].ops) IN
       \E ok \in IF o.tool = "write" /\ ~o.wrote THEN {FALSE} ELSE BOOLEAN :
          SetOp(a, [o EXCEPT !.phase = "result_recorded", !.after = disk, !.ok = ok, !.stopped = Stopped(o)])
    /\ live' = live \ {a}
    /\ UNCHANGED <<plan, world, me>>

\* tool_timeout without termination_guaranteed: recorded, and still executing.
OpTimeout(a) ==
    /\ Executing(a) /\ a \in live /\ InFlight(a)
    /\ SetOp(a, [Last(attempts[a].ops) EXCEPT !.phase = "result_recorded", !.after = disk])
    /\ UNCHANGED <<plan, live, world, me>>

\* What was given up ends on its own.
LateEnd(a) ==
    /\ a \in live /\ ~(Executing(a) /\ (attempts[a].node = "verify" \/ InFlight(a)))
    /\ live' = live \ {a}
    /\ UNCHANGED <<plan, attempts, world, me>>

Record(a, result, ref) ==
    attempts' = [attempts EXCEPT ![a].phase = "result_recorded", ![a].result = result, ![a].ref = ref]

\* An exception after dispatch is not evidence of no effects.
CallbackRaises(a) ==
    /\ Executing(a) /\ (a \in live => ~InFlight(a) /\ attempts[a].node # "verify")
    /\ Record(a, "uncertain", 0)
    /\ UNCHANGED <<plan, live, world, me>>

\* The callback returns: analysis, adopted observations, or the evidence of its tools.
Returns(a) ==
    LET n == attempts[a].node IN
    /\ Executing(a) /\ n # "verify" /\ ~InFlight(a)
    /\ CASE n = "analyze" -> Record(a, "success", IF \E x \in Explores : Valid(plan.node[x].ref) THEN disk ELSE 0)
         [] n = "edit" -> attempts[a].ops # <<>> /\ Record(a, "success", ToolResult(a))
         [] Adopts(a) -> Record(a, "success", attempts[a].before)
         [] OTHER -> attempts[a].ops # <<>> /\ Record(a, IF Last(attempts[a].ops).ok THEN "success" ELSE "failed", ToolResult(a))
    /\ UNCHANGED <<plan, live, world, me>>

\* verify_result: passed or failed tests leave a receipt of the tree as it is now; an interrupted run
\* leaves none, and one whose processes were not seen to end goes on.
VerifyEnds(a) ==
    /\ Executing(a) /\ attempts[a].node = "verify"
    /\ \E r \in {"success", "failed", "cancelled", "interrupted", "uncertain"} :
       /\ Record(a, IF r = "interrupted" THEN "failed" ELSE r, IF r \in {"success", "failed"} THEN disk ELSE 0)
       /\ live' = IF r = "uncertain" THEN live ELSE live \ {a}
    /\ UNCHANGED <<plan, world, me>>

\* run_node settles its attempt; run_reads first compares the tree with the one it started from.
EndRun ==
    /\ me.pc = "run" /\ \A a \in ToSet(me.batch) : attempts[a].phase = "result_recorded"
    /\ attempts' = IF me.before \in {0, disk} THEN attempts
                   ELSE [a \in Ids |-> IF a \in ToSet(me.batch)
                                       THEN [attempts[a] EXCEPT !.result = "uncertain", !.ref = 0] ELSE attempts[a]]
    /\ me' = [me EXCEPT !.pc = "settle", !.a = Head(me.batch), !.batch = Tail(@), !.before = 0]
    /\ UNCHANGED <<plan, live, world>>

-----------------------------------------------------------------------------
(* settle: node, attempt, registry row, and what follows from the result.  *)

\* Deviation: only operations without a recorded result make an attempt uncertain.
Verdict_IgnoresStopped(a) ==
    LET t == attempts[a] IN
    IF t.result = "uncertain" \/ \E o \in OpsOf(a) : o.phase # "result_recorded" THEN "uncertain"
    ELSE IF t.result = "cancelled" THEN "cancelled"
    ELSE IF t.result = "success" /\ Valid(t.ref) THEN "succeeded" ELSE "failed"

Verdict(a) ==
    LET t == attempts[a] IN
    IF t.result = "uncertain" \/ \E o \in OpsOf(a) : Unknown(o) THEN "uncertain"
    ELSE IF t.result = "cancelled" THEN "cancelled"
    ELSE IF t.result = "success" /\ Valid(t.ref) THEN "succeeded" ELSE "failed"

Settles(n, s) == Status(n) = s \/ s \in Transitions[Status(n)]

\* The reducer raises on any other move, and the owner with it.
SettleReduce ==
    LET n == attempts[me.a].node
        verdict == Verdict(me.a) IN
    /\ me.pc = "settle"
    /\ IF Settles(n, verdict)
       THEN /\ plan' = IF Status(n) = verdict THEN plan ELSE SetNode(plan, n, verdict, me.a, attempts[me.a].ref)
            /\ me' = [me EXCEPT !.pc = "reconcile", !.status = verdict]
       ELSE plan' = plan /\ me' = Closed
    /\ UNCHANGED <<attempts, live, world>>

SettleReconcile ==
    /\ me.pc = "reconcile"
    /\ attempts' = [attempts EXCEPT ![me.a].phase = "reconciled", ![me.a].terminal = me.status]
    /\ me' = [me EXCEPT !.pc = "row"]
    /\ UNCHANGED <<plan, live, world>>

SettleRow ==
    /\ me.pc = "row"
    /\ attempts' = [attempts EXCEPT ![me.a].closed = me.status # "uncertain"]
    /\ me' = [me EXCEPT !.pc = "after"]
    /\ UNCHANGED <<plan, live, world>>

\* A patch makes the evidence it was based on stale.
Restale(p) == [p EXCEPT !.node = [n \in Nodes |->
    IF n \in Explores \cup {"analyze"} /\ @[n].status = "succeeded" /\ ~Valid(@[n].ref)
    THEN [@[n] EXCEPT !.status = "stale"] ELSE @[n]]]

\* Where the owner goes on: the rest of the batch, the recovery or evidence refresh it was in, or the next stage.
After ==
    LET n == attempts[me.a].node IN
    IF me.batch # <<>> THEN [me EXCEPT !.pc = "settle", !.a = Head(me.batch), !.batch = Tail(@)]
    ELSE IF me.then \in {"recover", "reopen"} THEN [me EXCEPT !.pc = me.then, !.a = 0]
    ELSE [IdleOwner EXCEPT !.stage =
             CASE n = "edit" /\ me.status = "succeeded" -> "verify"
               [] n = "verify" -> IF me.status = "failed" /\ attempts[me.a].ref # 0 THEN "undo" ELSE "end"
               [] OTHER -> "patch"]

SettleAfter ==
    /\ me.pc = "after"
    /\ plan' = Refresh(IF attempts[me.a].node = "edit" /\ me.status = "succeeded" THEN Restale(plan) ELSE plan)
    /\ me' = After
    /\ UNCHANGED <<attempts, live, world>>

-----------------------------------------------------------------------------
(* The stages of the repair: run_patcher, run_verifier, rollback.          *)

RolledBack == rollback.version = plan.version /\ rollback.completed
VerifyFailed == Status("verify") = "failed"
MustRetry == Status("edit") \in {"failed", "cancelled", "blocked"} \/ RolledBack \/ VerifyFailed
AtStage(s) == me.pc = "idle" /\ me.stage = s

\* Deviation: a patch that was rolled back is adopted again.
AdoptPatch_EvenUndone ==
    /\ AtStage("patch") /\ Status("edit") = "succeeded" /\ ~VerifyFailed
    /\ me' = [me EXCEPT !.stage = "verify"]
    /\ UNCHANGED <<plan, attempts, live, world>>

\* A resumed run finds its patch done.
AdoptPatch ==
    /\ AtStage("patch") /\ Status("edit") = "succeeded" /\ ~MustRetry
    /\ me' = [me EXCEPT !.stage = "verify"]
    /\ UNCHANGED <<plan, attempts, live, world>>

\* The exact read of an explore node is known at the current content.
Observed(n) == \E a \in Ids : attempts[a].node = n /\ \E o \in OpsOf(a) : o.phase = "result_recorded" /\ o.ok /\ o.after = disk

ReadyExplores == {n \in Explores : Refresh(plan).node[n].status = "ready"}
Patching == AtStage("patch") /\ Status("edit") # "succeeded" /\ ~MustRetry

AdoptObservation(n) ==
    /\ Patching /\ n \in ReadyExplores /\ Observed(n)
    /\ Prepare(n, [me EXCEPT !.then = "adopt"])

\* run_reads: the first two ready nodes, once the known ones are done with.
StartReads ==
    LET ready == SetToSeq(ReadyExplores) IN
    /\ Patching /\ ready # <<>> /\ \A n \in ReadyExplores : ~Observed(n)
    /\ StatusIs({"running", "uncertain"}) = {}
    /\ Prepare(Head(ready), [me EXCEPT !.before = disk, !.queue = SubSeq(ready, 2, IF Len(ready) = 1 THEN 1 ELSE 2)])

NextRead ==
    /\ me.pc = "prepare"
    /\ Prepare(Head(me.queue), [me EXCEPT !.queue = Tail(@)])

StartAnalysis == Patching /\ ReadyExplores = {} /\ Prepare("analyze", me)
StartEdit == Patching /\ ReadyExplores = {} /\ Refresh(plan).node["analyze"].status # "ready" /\ Prepare("edit", me)
StartVerify == AtStage("verify") /\ Prepare("verify", me)

\* A verification that succeeded is not repeated while its evidence holds.
AdoptVerification ==
    /\ AtStage("verify") /\ Status("verify") = "succeeded" /\ Valid(plan.node["verify"].ref)
    /\ me' = [me EXCEPT !.stage = "end"]
    /\ UNCHANGED <<plan, attempts, live, world>>

\* Nothing can be prepared, but what the refresh found is committed.
RefreshPlan ==
    /\ Patching /\ Refresh(plan) # plan
    /\ plan' = Refresh(plan)
    /\ UNCHANGED <<attempts, live, world, me>>

\* Intent, restoration and outcome of a rollback are apart; it is refused while something is unconfirmed.
BeginRollback ==
    /\ AtStage("undo") \/ AtStage("verify")
    /\ StatusIs({"running", "uncertain"}) = {}
    /\ rollback' = [version |-> plan.version, completed |-> FALSE, after |-> 0, expected |-> origin]
    /\ me' = [IdleOwner EXCEPT !.pc = "rollback"]
    /\ UNCHANGED <<plan, attempts, live, disk, top, origin, request, life, foreign>>

RestoreFiles ==
    /\ me.pc = "rollback"
    /\ \/ disk' = origin /\ top' = top /\ me' = [me EXCEPT !.pc = "restored"]
       \/ disk' = top + 1 /\ top' = top + 1 /\ me' = [IdleOwner EXCEPT !.stage = "end"]   \* raised halfway
    /\ UNCHANGED <<plan, attempts, live, origin, rollback, request, life, foreign>>

EndRollback ==
    /\ me.pc = "restored"
    /\ rollback' = [rollback EXCEPT !.after = disk, !.completed = disk = rollback.expected]
    /\ me' = [me EXCEPT !.pc = "idle", !.stage = IF disk = rollback.expected THEN @ ELSE "end"]
    /\ UNCHANGED <<plan, attempts, live, disk, top, origin, request, life, foreign>>

-----------------------------------------------------------------------------
(* A new graph after a failed verification.                                *)

CheckReplan ==
    /\ plan.version <= MaxReplans
    /\ StatusIs({"running", "uncertain"}) = {}
    /\ OpenAttempts = {}
    /\ Status("edit") = "succeeded" => RolledBack /\ rollback.after = rollback.expected /\ rollback.after = disk

\* decide_replan on a receipt of completed, failing tests that no request answered yet.
Trigger ==
    LET a == plan.node["verify"].attempt IN
    /\ VerifyFailed /\ attempts[a].result = "failed" /\ attempts[a].ref # 0
    /\ request.version # plan.version
Safe == CheckReplan /\ \A a \in Ids : attempts[a].closed
FreshSource == disk = 1 \/ \E a \in Ids : \E o \in OpsOf(a) : o.tool = "read" /\ Complete(o) /\ o.ok /\ o.after = disk

\* The explore nodes are read again when no observation is current.
RefreshEvidence ==
    /\ AtStage("patch") /\ MustRetry /\ Trigger /\ Safe /\ ~FreshSource
    /\ me' = [me EXCEPT !.pc = "reopen", !.then = "reopen",
                        !.queue = SetToSeq(Explores \cap StatusIs({"stale", "succeeded", "ready"}))]
    /\ UNCHANGED <<plan, attempts, live, world>>

\* A succeeded node is stale before it is ready again.
Reopen ==
    /\ me.pc = "reopen" /\ me.queue # <<>> /\ Status(Head(me.queue)) # "ready"
    /\ plan' = SetStatus(plan, Head(me.queue), IF Status(Head(me.queue)) = "succeeded" THEN "stale" ELSE "ready")
    /\ UNCHANGED <<attempts, live, world, me>>

ReadAgain ==
    /\ me.pc = "reopen" /\ me.queue # <<>>
    /\ Prepare(Head(me.queue), [me EXCEPT !.queue = Tail(@)])

EndReopen ==
    /\ me.pc = "reopen" /\ me.queue = <<>>
    /\ me' = IdleOwner
    /\ UNCHANGED <<plan, attempts, live, world>>

RequestReplan ==
    /\ AtStage("patch") /\ MustRetry /\ Trigger /\ Safe /\ FreshSource
    /\ request' = [version |-> plan.version, status |-> "started"]
    /\ me' = [me EXCEPT !.pc = "replan", !.before = disk]
    /\ UNCHANGED <<plan, attempts, live, disk, top, origin, rollback, life, foreign>>

CommitReplan ==
    /\ me.pc = "replan" /\ Safe /\ disk = me.before
    /\ plan' = Refresh([version |-> plan.version + 1, inputs |-> disk, node |-> [n \in Nodes |-> FreshNode]])
    /\ me' = [me EXCEPT !.pc = "replanned"]
    /\ UNCHANGED <<attempts, live, world>>

\* The planner's candidate was refused, or a gate closed meanwhile.
RejectReplan ==
    /\ me.pc = "replan"
    /\ request' = [request EXCEPT !.status = "rejected"]
    /\ me' = IdleOwner
    /\ UNCHANGED <<plan, attempts, live, disk, top, origin, rollback, life, foreign>>

EndReplan ==
    /\ me.pc = "replanned"
    /\ request' = [request EXCEPT !.status = "committed"]
    /\ me' = IdleOwner
    /\ UNCHANGED <<plan, attempts, live, disk, top, origin, rollback, life, foreign>>

-----------------------------------------------------------------------------
(* Another process: the adapter's answers, then the journal's recovery.    *)

Exited(a) == attempts[a].life # life

\* PlanAttemptAdapter.reconcile: is the end of the attempt confirmed?
Answered(a) ==
    LET t == attempts[a]
        statuses == {o.ok : o \in OpsOf(a)} IN
    CASE t.phase = "reconciled" -> t.terminal # "uncertain"
      [] t.phase = "prepared" -> t.ops = <<>>
      [] t.phase = "dispatched" -> t.ops # <<>> /\ Exited(a) /\ CompleteOps(a) /\ Cardinality(statuses) = 1
      [] OTHER -> t.ops # <<>> /\ CompleteOps(a) /\ t.result # "uncertain"

Sorted(S) == [i \in 1 .. Cardinality(S) |-> CHOOSE a \in S : Cardinality({b \in S : b < a}) = i - 1]

\* RepairPlanBinding._open: the run goes on only if every row of it is confirmed.
Open ==
    /\ me.pc = "closed"
    /\ attempts' = [a \in Ids |-> [attempts[a] EXCEPT !.closed = @ \/ Answered(a)]]
    /\ me' = IF \A a \in Ids : attempts'[a].closed
             THEN [IdleOwner EXCEPT !.pc = "recover", !.then = "recover", !.queue = Sorted(OpenAttempts)]
             ELSE me
    /\ origin' = disk
    /\ UNCHANGED <<plan, live, disk, top, rollback, request, life, foreign>>

\* The attempt the recovery looks at belongs to the plan and to its node, else it raises.
Owned(a) == attempts[a].version = plan.version /\ plan.node[attempts[a].node].attempt \in {0, a}
Recovering(a) == me.pc = "recover" /\ me.queue # <<>> /\ a = Head(me.queue) /\ Owned(a)
Recovered == [me EXCEPT !.queue = Tail(@)]

HasStopped(a) ==
    IF attempts[a].phase = "result_recorded" THEN CompleteOps(a) /\ attempts[a].result # "uncertain"
    ELSE Exited(a) /\ attempts[a].node # "verify"

\* A recorded result is adopted when its evidence is still good, and the writes of an edit when they are all over.
Adoptable(a) == attempts[a].phase = "result_recorded" /\ HasStopped(a)
                /\ (attempts[a].result # "success" \/ Valid(attempts[a].ref))
Finished(a) == /\ attempts[a].node = "edit" /\ attempts[a].ops # <<>>
               /\ CompleteOps(a) /\ HasStopped(a) /\ Valid(ToolResult(a))

\* Deviation: an edit that stopped is run again, like any other node.
Restartable_Edit(a) ==
    \/ attempts[a].phase = "prepared"
    \/ ~Finished(a) /\ ~Adoptable(a) /\ HasStopped(a)

Restartable(a) ==
    \/ attempts[a].phase = "prepared"
    \/ attempts[a].node # "edit" /\ ~Adoptable(a) /\ HasStopped(a)

\* restart_safe: the node is pending again, before its attempt is closed.
RestartSafe(a) ==
    /\ Recovering(a) /\ Restartable(a)
    /\ plan' = SetNode(plan, attempts[a].node, "pending", 0, 0)
    /\ me' = [me EXCEPT !.pc = "restarted"]
    /\ UNCHANGED <<attempts, live, world>>

\* Deviation: the node is pending again, but its old attempt stays open.
EndRestart_LeavesOpen ==
    /\ me.pc = "restarted"
    /\ me' = [Recovered EXCEPT !.pc = "recover"]
    /\ UNCHANGED <<plan, attempts, live, world>>

EndRestart ==
    /\ me.pc = "restarted"
    /\ attempts' = [attempts EXCEPT ![Head(me.queue)].phase = "reconciled", ![Head(me.queue)].terminal = "cancelled"]
    /\ me' = [Recovered EXCEPT !.pc = "recover"]
    /\ UNCHANGED <<plan, live, world>>

AdoptWrites(a) ==
    /\ Recovering(a) /\ Finished(a)
    /\ Record(a, "success", ToolResult(a))
    /\ UNCHANGED <<plan, live, world, me>>

Adopt(a) ==
    LET n == attempts[a].node IN
    /\ Recovering(a) /\ Adoptable(a)
    /\ plan' = IF Status(n) \in {"ready", "pending"} THEN SetNode(plan, n, "running", a, 0) ELSE plan
    /\ me' = [Recovered EXCEPT !.pc = "settle", !.a = a]
    /\ UNCHANGED <<attempts, live, world>>

MarkUncertain(a) ==
    LET n == attempts[a].node IN
    /\ Recovering(a) /\ ~Restartable(a) /\ ~Finished(a) /\ ~Adoptable(a)
    /\ plan' = IF Status(n) \in {"ready", "running"} THEN SetNode(plan, n, "uncertain", a, 0) ELSE plan
    /\ me' = [Recovered EXCEPT !.bad = TRUE]
    /\ UNCHANGED <<attempts, live, world>>

\* What had succeeded on another content: an edit is uncertain unless it was rolled back, anything else is stale.
Undone == RolledBack /\ rollback.after = disk /\ rollback.expected = disk
Stale(n, row) == row.status = "succeeded" /\ row.ref # disk /\ ~(n = "edit" /\ Undone)
Outdate(p) == [p EXCEPT !.node = [n \in Nodes |->
    IF Stale(n, @[n]) THEN [@[n] EXCEPT !.status = IF n = "edit" THEN "uncertain" ELSE "stale"] ELSE @[n]]]

\* A replan request that was started is answered by the graph that was saved, and blocks the run if none was.
EndRecovery ==
    LET new == Refresh(Outdate(plan))
        lost == request.status = "started" /\ request.version = plan.version IN
    /\ me.pc = "recover" /\ me.queue = <<>>
    /\ plan' = new
    /\ request' = IF request.status = "started" /\ ~lost THEN [request EXCEPT !.status = "committed"] ELSE request
    /\ me' = IF me.bad \/ lost \/ \E n \in Nodes : new.node[n].status = "uncertain" THEN Closed ELSE IdleOwner
    /\ UNCHANGED <<attempts, live, disk, top, origin, rollback, life, foreign>>

\* The process ends; a test run it started may outlive it.
Die ==
    /\ life < MaxLives
    /\ life' = life + 1
    /\ me' = Closed
    /\ live' = {a \in live : attempts[a].node = "verify"}
    /\ UNCHANGED <<plan, attempts, disk, top, origin, rollback, request, foreign>>

\* The owner gives up (a lost lease, an interrupt), the process stays.
Abort ==
    /\ me.pc # "closed"
    /\ me' = Closed
    /\ UNCHANGED <<plan, attempts, live, world>>

Foreign ==
    /\ foreign < MaxForeign
    /\ foreign' = foreign + 1
    /\ disk' = top + 1 /\ top' = top + 1
    /\ UNCHANGED <<plan, attempts, live, origin, rollback, request, life, me>>

-----------------------------------------------------------------------------
Attempt(a) ==
    \/ \E tool \in {"read", "write"} : OpPrepare(a, tool)
    \/ OpDispatch(a) \/ ToolWrites(a) \/ OpRecord(a) \/ OpTimeout(a) \/ LateEnd(a)
    \/ CallbackRaises(a) \/ Returns(a) \/ VerifyEnds(a)

Owner ==
    \/ MarkRunning \/ Dispatch \/ EndRun
    \/ SettleReduce \/ SettleReconcile \/ SettleRow \/ SettleAfter
    \/ AdoptPatch \/ StartReads \/ NextRead \/ StartAnalysis \/ StartEdit \/ StartVerify \/ AdoptVerification \/ RefreshPlan
    \/ \E n \in Explores : AdoptObservation(n)
    \/ BeginRollback \/ RestoreFiles \/ EndRollback
    \/ RefreshEvidence \/ Reopen \/ ReadAgain \/ EndReopen
    \/ RequestReplan \/ CommitReplan \/ RejectReplan \/ EndReplan

Recovery ==
    \/ Open \/ EndRestart \/ EndRecovery
    \/ \E a \in Ids : RestartSafe(a) \/ AdoptWrites(a) \/ Adopt(a) \/ MarkUncertain(a)

PlanNext == Owner \/ Recovery \/ Die \/ Abort \/ Foreign \/ \E a \in Ids : Attempt(a)

PlanSpec == PlanInit /\ [][PlanNext]_planVars

-----------------------------------------------------------------------------
(* Properties.                                                             *)

PlanTypeOK ==
    /\ plan \in [version : 1 .. MaxReplans + 1, inputs : 1 .. top, node : [Nodes -> NodeRow]]
    /\ attempts \in Seq(AttemptRow) /\ Len(attempts) <= MaxAttempts
    /\ live \subseteq Ids /\ disk \in 1 .. top
    /\ request.status \in {"none", "started", "rejected", "committed"}

\* A graph is written by one attempt: whatever crashes and recoveries happen between them, no second attempt of
\* the same plan version dispatches a write (restart_safe: write_replay_forbidden).
Wrote(a) == \E o \in OpsOf(a) : o.tool = "write" /\ o.phase # "prepared"
WriteOnce == \A a, b \in Ids : Wrote(a) /\ Wrote(b) /\ attempts[a].version = attempts[b].version => a = b

\* While a tool of an edit or a test run really executes, also one that was given up or outlived its process,
\* nothing of another attempt does (prepare, settle and the adapter together).
NothingBesideAWrite == \A a \in live : attempts[a].node \in {"edit", "verify"} => live = {a}

\* Unless somebody else changed the tree, a plan whose verification succeeded was verified on the content its
\* edit left behind.
CompletedIsVerified ==
    foreign = 0 /\ Status("verify") = "succeeded" => plan.node["verify"].ref = plan.node["edit"].ref

\* The journal and the graph agree.  A node has one open attempt, of the current graph, and holds it; only the
\* reading of a node that was opened again may still be unmarked (recover raises resume_attempt_identity_mismatch
\* on anything else).  Where an attempt is closed and still the node's, the node's status is its outcome.
AttemptsMatchNodes ==
    /\ \A a \in OpenAttempts :
          /\ Owned(a) \/ (attempts[a].node \in Explores /\ attempts[a].phase = "prepared")
          /\ \A b \in OpenAttempts : attempts[b].node = attempts[a].node => b = a
    /\ \A n \in Nodes : LET a == plan.node[n].attempt IN
          a # 0 /\ attempts[a].phase = "reconciled" =>
              Status(n) \in CASE attempts[a].terminal = "succeeded" -> {"succeeded", "stale", "ready", "running", "uncertain"}
                              [] OTHER -> {attempts[a].terminal}

\* Unless somebody else changed the tree, a settlement, also one that a crash cut in two, never asks the reducer
\* for a move outside TRANSITIONS (invalid_node_transition), which would stop every later recovery as well.
SettlementNeverRaises ==
    foreign = 0 /\ me.pc = "settle" => Settles(attempts[me.a].node, Verdict(me.a))

\* A graph that retries a failed verification is planned on the tree the run started on: what was tried before is
\* rolled back first (docs/PLAN_DAG.md:24).
RetryStartsFromBaseline == foreign = 0 /\ plan.version > 1 => plan.inputs = 1

\* What was prepared and not dispatched can be prepared again by the next process (docs/PLAN_DAG.md:32).
PreparedIsRestarted == \A a \in Ids : attempts[a].phase = "prepared" => Owned(a)

\* A result that was recorded before the process died does not stop the run from being resumed.
RecordedResultIsAdopted ==
    \A a \in Ids : attempts[a].phase = "result_recorded" /\ attempts[a].result = "success" => Answered(a)

=============================================================================
