-------------------------- MODULE PhaseTaskProofs --------------------------
(***************************************************************************)
(* Theorems about the tasks of the repair phases, for every set of         *)
(* processes, every bound on the generations and every choice of faults.   *)
(* A step of a thread is a step of the registry or leaves it alone, so     *)
(* what RunCoordinationProofs shows of the registry holds here as well.    *)
(***************************************************************************)
EXTENDS PhaseTasks, RunCoordinationProofs

\* A thread is on a row, of a phase, when it reads or writes one, and reads the row before it
\* writes it.
ThreadOK(t) ==
    /\ t.pc \in {"read", "claim", "claim current", "reread", "commit", "refresh"} => t.item \in Resources
    /\ t.pc \in {"read", "claim", "claim current", "reread", "commit", "current", "refresh"} => t.phase # "none"
    /\ t.pc \in {"claim current", "current", "refresh"} => t.phase \in {"patch", "verify"}
    /\ t.phase # "context"
    /\ t.pc = "finishing" => t.phase = "cancelled"
    /\ t.phase = "cancelled" /\ t.pc \in {"claim", "reread", "commit"} => t.goal = "cancelled"
    /\ t.phase = "cancelled" =>
         \/ t.pc \in {"closing", "cancel"}
         \/ t.next = "closing" /\ t.pc \in {"finishing", "claim", "reread", "commit", "sync"}
    /\ t.fresh => t.pc = "commit"
    /\ t.item = NoParent \/ t.pc \notin {"reconcile", "cancel"} => t.seen = "none"

ThreadInv == \A p \in Procs : ThreadOK(prog[p])

\* Only a running task has a lease, and what a thread read of a row it may still write is true.
RowsInv ==
    /\ \A x \in Resources : task[x].live => task[x].status = "running"
    /\ \A p \in Procs : prog[p].fresh => task[prog[p].item].status = "running"

\* What a thread has seen of a task and not yet recorded stays true when it is an end.
SeenIsTrue == \A p \in Procs :
    prog[p].item \in Resources /\ prog[p].seen \in {"completed", "cancelled"}
        => task[prog[p].item].status = prog[p].seen

\* The inductive invariant of the rows.
TasksInv ==
    /\ TypeOK
    /\ TasksTypeOK
    /\ ThreadInv
    /\ RowsInv
    /\ SeenIsTrue
    /\ RowNeverAhead

-----------------------------------------------------------------------------
\* What holds in a run that is not taken over, and where the leases of tasks do not run out
\* under a live owner.

FirstOwner == run[R].generation <= 1

\* Before the run is acquired nothing has happened.
Untouched ==
    run[R].generation = 0 =>
        /\ \A p \in Procs : ~Running(p)
        /\ \A x \in Resources : task[x].status = "pending" /\ ~task[x].cancel
        /\ reached = "none"

\* A thread that runs owns the run until it closes or dies.
RunningOwns == FirstOwner => \A p \in Procs : Running(p) => Owns(p, R)

\* A running task keeps its lease while the process that owns the run lives.
LeasesHold == FirstOwner /\ (\E p \in Procs : Running(p)) =>
    \A x \in Resources : task[x].status = "running" => task[x].live

\* The thread has not been told to cancel.
Working(p) == prog[p].pc \notin {"none", "closed", "closing", "cancel"} /\ prog[p].phase # "cancelled"

Done(x) == task[x].status = "completed"

\* No task is asked to cancel, and only the last may have failed.
NothingGivenUp(p) == \A x \in Resources :
    ~task[x].cancel /\ task[x].status # "cancelled" /\ (task[x].status = "failed" => x = "verify" /\ prog[p].phase \in Ends)

\* Until the first advance the thread is in no phase.
StartsFresh(p) ==
    prog[p].pc \in {"reconcile", "attach", "open"} \/ (prog[p].pc = "sync" /\ prog[p].next = "open")
        => prog[p].phase = "none"

\* Between two advances the tasks of the earlier phases are completed, or no later advance will
\* be let through.
EarlierDone(p) ==
    prog[p].pc \in {"phase", "sync", "current", "claim current", "refresh"} /\ CanDispatch(p, R) =>
        /\ prog[p].phase \in {"patch", "verify"} => Done("context")
        /\ prog[p].phase = "verify" => Done("patch")

\* Within an advance they are, and the row is as the thread read it.
Advancing(p) ==
    /\ prog[p].pc \in {"read", "claim", "reread", "commit", "current", "claim current", "refresh"} => prog[p].next = "phase"
    /\ prog[p].pc \in {"read", "claim", "reread", "commit"} =>
         /\ prog[p].item = "context" => prog[p].phase = "patch"
         /\ prog[p].item = "patch" => prog[p].phase = "verify" /\ Done("context")
         /\ prog[p].item = "verify" => prog[p].phase \in Ends
         /\ prog[p].goal # "completed" => prog[p].item = "verify"
         /\ prog[p].goal # "cancelled"
         /\ prog[p].item = "verify" /\ prog[p].goal = "completed" => Done("context") /\ Done("patch")
    /\ prog[p].pc = "claim" => task[prog[p].item].status = "pending"
    /\ prog[p].pc \in {"reread", "commit"} => task[prog[p].item].status = "running"
    /\ prog[p].pc = "commit" => prog[p].fresh

InOrder(p) == NothingGivenUp(p) /\ StartsFresh(p) /\ EarlierDone(p) /\ Advancing(p)

\* The inductive invariant of a run's first generation.
OrderInv ==
    /\ Untouched
    /\ RunningOwns
    /\ LeasesHold
    /\ FirstOwner => \A p \in Procs : Working(p) => InOrder(p)
    /\ CompletedInOrder

-----------------------------------------------------------------------------
LEMMA TheRun == R \in Runs /\ Runs = {R} /\ Resources = {"context", "patch", "verify"} /\ NoParent \notin Resources
<1>1. R \in Runs
  BY PhasesAssumption
<1>2. ToSet(Phases) = {"context", "patch", "verify"}
  BY DEF ToSet, Phases
<1> QED BY <1>1, <1>2, PhasesAssumption, ConstantsAssumption

\* The row that is visited next is one of those that are left.
LEMMA FirstIsLeft ==
  ASSUME NEW todo \in SUBSET Resources, todo # {}
  PROVE  First(todo) \in todo
<1>1. \E x \in todo : \A i, j \in DOMAIN Phases : Phases[i] = x /\ Phases[j] \in todo => i <= j
  <2>1. DOMAIN Phases = 1 .. 3 /\ Phases[1] = "context" /\ Phases[2] = "patch" /\ Phases[3] = "verify"
    BY DEF Phases
  <2>2. CASE "context" \in todo
    BY <2>1, <2>2
  <2>3. CASE "context" \notin todo /\ "patch" \in todo
    BY <2>1, <2>3
  <2>4. CASE "context" \notin todo /\ "patch" \notin todo
    <3>1. "verify" \in todo
      BY <2>4, TheRun
    <3> QED BY <3>1, <2>1, <2>4
  <2> QED BY <2>2, <2>3, <2>4
<1> QED BY <1>1 DEF First

\* Forgetting what was read of a row changes nothing else of a thread.
SameButFresh(t, u) ==
    /\ t.pc = u.pc /\ t.phase = u.phase /\ t.item = u.item /\ t.goal = u.goal /\ t.seen = u.seen
    /\ t.todo = u.todo /\ t.pending = u.pending /\ t.bad = u.bad /\ t.next = u.next
    /\ t.fresh = u.fresh \/ ~t.fresh

LEMMA WrittenThreads ==
  ASSUME NEW pr \in [Procs -> Process], NEW x
  PROVE  /\ Written(x, pr) \in [Procs -> Process]
         /\ \A q \in Procs : SameButFresh(Written(x, pr)[q], pr[q]) /\ (pr[q].item = x => ~Written(x, pr)[q].fresh)
<1>1. ASSUME NEW t \in Process
      PROVE  [t EXCEPT !.fresh = FALSE] \in Process /\ SameButFresh([t EXCEPT !.fresh = FALSE], t)
             /\ ~[t EXCEPT !.fresh = FALSE].fresh
  BY <1>1 DEF Process, SameButFresh
<1>2. \A q \in Procs : Written(x, pr)[q] = IF pr[q].item = x THEN [pr[q] EXCEPT !.fresh = FALSE] ELSE pr[q]
  BY DEF Written
<1>3. Written(x, pr) \in [Procs -> Process]
  BY <1>1 DEF Written
<1>4. \A q \in Procs : SameButFresh(pr[q], pr[q])
  BY DEF SameButFresh
<1> QED BY <1>1, <1>2, <1>3, <1>4

\* The fields of a thread after a step.
Becomes(t, pc, phase, item, goal, next, fresh, seen) ==
    /\ t.pc = pc /\ t.phase = phase /\ t.item = item /\ t.goal = goal
    /\ t.next = next /\ t.fresh = fresh /\ t.seen = seen

LEMMA FreshKeepsThread ==
  ASSUME NEW t, NEW u, ThreadOK(u), SameButFresh(t, u)
  PROVE  ThreadOK(t)
  BY DEF ThreadOK, SameButFresh

\* A step of p moves p, and may outdate what others have read.
Moves(p) ==
    /\ prog' \in [Procs -> Process]
    /\ ThreadOK(prog'[p])
    /\ \A q \in Procs \ {p} : SameButFresh(prog'[q], prog[q])

LEMMA MoveOne ==
  ASSUME TasksTypeOK, NEW p \in Procs, NEW t \in Process, ThreadOK(t), prog' = [prog EXCEPT ![p] = t]
  PROVE  Moves(p) /\ prog'[p] = t
  BY DEF Moves, TasksTypeOK, SameButFresh

LEMMA MoveFrom ==
  ASSUME TasksTypeOK, NEW p \in Procs, NEW t \in Process, ThreadOK(t),
         NEW pr \in [Procs -> Process], \A q \in Procs : SameButFresh(pr[q], prog[q]), prog' = [pr EXCEPT ![p] = t]
  PROVE  Moves(p) /\ prog'[p] = t
  BY DEF Moves

LEMMA NoMove ==
  ASSUME TasksTypeOK, ThreadInv, UNCHANGED prog, NEW p \in Procs
  PROVE  Moves(p)
  BY DEF Moves, TasksTypeOK, SameButFresh, ThreadInv

\* A thread outside an advance has nothing read.
LEMMA IdleThread ==
  /\ Idle \in Process /\ ThreadOK(Idle)
  /\ Becomes(Idle, "none", "none", NoParent, "completed", "phase", FALSE, "none")
<1>1. Idle \in Process /\ Becomes(Idle, "none", "none", NoParent, "completed", "phase", FALSE, "none")
  BY DEF Idle, Process, Ended, Becomes
<1> QED BY <1>1 DEF ThreadOK, Becomes

LEMMA OutsideThread ==
  ASSUME TasksTypeOK, NEW p \in Procs, ThreadOK(prog[p]),
         NEW pc \in {"open", "phase", "closing"}, prog[p].phase = "cancelled" => pc = "closing"
  PROVE  /\ Outside(p, pc) \in Process /\ ThreadOK(Outside(p, pc))
         /\ Becomes(Outside(p, pc), pc, prog[p].phase, NoParent, "completed", "phase", FALSE, "none")
<1> DEFINE t == Outside(p, pc)
           ph == prog[p].phase
<1>1. prog[p] \in Process
  BY DEF TasksTypeOK
<1>2. ph \in {"none", "cancelled"} \cup Ends \cup Resources
  BY <1>1 DEF Process
<1>3. ph # "context" /\ (ph = "cancelled" => pc = "closing")
  BY DEF ThreadOK
<1>4. t = [Idle EXCEPT !.pc = pc, !.phase = ph]
  BY DEF Outside
<1> HIDE DEF t, ph
<1>5. t \in Process /\ Becomes(t, pc, ph, NoParent, "completed", "phase", FALSE, "none")
  BY <1>2, <1>4, IdleThread DEF Process, Becomes
<1>6. ThreadOK(t)
  BY <1>3, <1>5 DEF ThreadOK, Becomes
<1> QED BY <1>5, <1>6 DEF t, ph

\* A swallowed exception takes a thread out of its advance, or on to the cancellation.
LEMMA SwallowThread ==
  ASSUME TasksTypeOK, ThreadInv, NEW p \in Procs, Swallow(p),
         prog[p].pc \in {"sync", "claim", "claim current", "reread", "commit", "refresh"}
  PROVE  /\ Moves(p)
         /\ Becomes(prog'[p], prog[p].next, prog[p].phase, NoParent, "completed", "phase", FALSE, "none")
<1>1. ThreadOK(prog[p]) /\ prog \in [Procs -> Process] /\ prog[p].next \in {"open", "phase", "closing"}
  BY DEF TasksTypeOK, Process, ThreadInv
<1>2. prog[p].phase = "cancelled" => prog[p].next = "closing"
  BY <1>1 DEF ThreadOK
<1> DEFINE t == Outside(p, prog[p].next)
<1>3. t \in Process /\ ThreadOK(t) /\ Becomes(t, prog[p].next, prog[p].phase, NoParent, "completed", "phase", FALSE, "none")
  BY <1>1, <1>2, OutsideThread
<1>4. prog' = [prog EXCEPT ![p] = t]
  BY DEF Swallow
<1> HIDE DEF t
<1> QED BY <1>3, <1>4, MoveOne

LEMMA CloseThread ==
  ASSUME TasksTypeOK, NEW p \in Procs, Close(p)
  PROVE  /\ Moves(p)
         /\ Becomes(prog'[p], "closed", "none", NoParent, "completed", "phase", FALSE, "none")
<1> DEFINE t == [Idle EXCEPT !.pc = "closed"]
<1>1. t \in Process /\ Becomes(t, "closed", "none", NoParent, "completed", "phase", FALSE, "none")
  BY IdleThread DEF Process, Becomes
<1>2. prog' = [prog EXCEPT ![p] = t]
  BY DEF Close
<1> HIDE DEF t
<1>3. ThreadOK(t)
  BY <1>1 DEF ThreadOK, Becomes
<1> QED BY <1>1, <1>2, <1>3, MoveOne

-----------------------------------------------------------------------------
(* What each step makes of its thread *)

\* The phases an advance can enter, and the task it completes then.
LEMMA PhasesAhead ==
  ASSUME TasksTypeOK, NEW p \in Procs, ThreadOK(prog[p]), prog[p].pc \in {"open", "phase"},
         NEW ph \in NextPhases(p), NEW fixed \in BOOLEAN
  PROVE  /\ prog[p].phase \in {"none", "patch", "verify"}
         /\ ph \in {"patch", "verify"} \cup Ends
         /\ ph = "patch" => Before(ph) = "context"
         /\ ph = "verify" => Before(ph) = "patch" /\ prog[p].phase = "patch"
         /\ ph \in Ends => Before(ph) = "verify"
         /\ Before(ph) \in Resources
         /\ Goal(p, ph, fixed) \in {"completed", "failed"}
         /\ ph \notin Ends => Goal(p, ph, fixed) = "completed"
         /\ ph \in Ends /\ Goal(p, ph, fixed) = "completed" => prog[p].phase = "verify"
<1>1. prog[p].phase \in {"none", "cancelled"} \cup Ends \cup Resources
  BY DEF TasksTypeOK, Process
<1>2. prog[p].phase \in {"none", "patch", "verify"}
  BY <1>1, TheRun DEF ThreadOK, NextPhases, Ends
<1>3. ph \in {"patch", "verify"} \cup Ends /\ (ph = "verify" => prog[p].phase = "patch")
  BY <1>2 DEF NextPhases, Ends
<1> QED BY <1>2, <1>3, TheRun DEF Before, Ends, Goal

LEMMA InspectThread ==
  ASSUME TypeOK, TasksTypeOK, ThreadInv, NEW p \in Procs, Inspect(p)
  PROVE  /\ Moves(p) /\ First(prog[p].todo) \in Resources
         /\ LET x == First(prog[p].todo)
            IN  Becomes(prog'[p], "reconcile", prog[p].phase, x, prog[p].goal, prog[p].next, FALSE,
                        IF Settled(x) THEN res[x].status ELSE FromTask(x))
<1> DEFINE u == prog[p]
           x == First(u.todo)
           seen == IF Settled(x) THEN res[x].status ELSE FromTask(x)
           t == [u EXCEPT !.item = x, !.seen = seen]
<1>1. u \in Process /\ ThreadOK(u) /\ u.pc = "reconcile" /\ u.todo # {}
  BY DEF Inspect, TasksTypeOK, ThreadInv
<1>2. x \in Resources
  BY <1>1, FirstIsLeft DEF Process
<1>3. seen \in {"unknown", "not_started"} \cup Ended
  BY <1>2 DEF Settled, SettledStates, FromTask, Ended
<1>4. prog' = [prog EXCEPT ![p] = t]
  BY DEF Inspect
<1> HIDE DEF u, x, seen
<1>5. t \in Process
  BY <1>1, <1>2, <1>3 DEF Process, Ended
<1>6. Becomes(t, "reconcile", u.phase, x, u.goal, u.next, FALSE, seen)
  BY <1>1 DEF Process, Becomes, ThreadOK
<1> HIDE DEF t
<1>7. ThreadOK(t)
  BY <1>1, <1>2, <1>3, <1>6, TheRun DEF ThreadOK, Becomes, Ends
<1>8. Moves(p) /\ prog'[p] = t
  BY <1>4, <1>5, <1>7, MoveOne
<1> QED BY <1>2, <1>6, <1>8 DEF u, x, seen

LEMMA LookThread ==
  ASSUME TypeOK, TasksTypeOK, ThreadInv, NEW p \in Procs, Look(p)
  PROVE  Moves(p) /\ Becomes(prog'[p], "cancel", prog[p].phase, prog[p].item, prog[p].goal, prog[p].next, FALSE, FromTask(prog[p].item))
<1> DEFINE u == prog[p]
           seen == FromTask(u.item)
           t == [u EXCEPT !.seen = seen]
<1>1. u \in Process /\ ThreadOK(u) /\ u.pc = "cancel" /\ u.item # NoParent
  BY DEF Look, TasksTypeOK, ThreadInv
<1>2. seen \in {"unknown", "not_started"} \cup Ended
  BY DEF FromTask, Ended
<1>3. prog' = [prog EXCEPT ![p] = t]
  BY DEF Look
<1> HIDE DEF u, seen
<1>4. t \in Process
  BY <1>1, <1>2 DEF Process, Ended
<1>5. Becomes(t, "cancel", u.phase, u.item, u.goal, u.next, FALSE, seen)
  BY <1>1 DEF Process, Becomes, ThreadOK
<1> HIDE DEF t
<1>6. ThreadOK(t)
  BY <1>1, <1>2, <1>5, TheRun DEF ThreadOK, Becomes, Ends
<1>7. Moves(p) /\ prog'[p] = t
  BY <1>3, <1>4, <1>6, MoveOne
<1> QED BY <1>5, <1>7 DEF u, seen

LEMMA RecordThread ==
  ASSUME TypeOK, TasksTypeOK, ThreadInv, NEW p \in Procs, RecordRow(p)
  PROVE  Moves(p) /\ Becomes(prog'[p], prog[p].pc, prog[p].phase, NoParent, prog[p].goal, prog[p].next, FALSE, "none")
<1> DEFINE u == prog[p]
           todo == u.todo \ {u.item}
           bad == u.bad \/ u.seen = "unknown"
           t == [u EXCEPT !.todo = todo, !.item = NoParent, !.seen = "none", !.bad = bad]
<1>1. u \in Process /\ ThreadOK(u) /\ u.pc \in {"reconcile", "cancel"}
  BY DEF RecordRow, TasksTypeOK, ThreadInv
<1>2. todo \in SUBSET Resources
  BY <1>1 DEF Process
<1>3. bad \in BOOLEAN
  BY <1>1 DEF Process
<1>4. prog' = [prog EXCEPT ![p] = t]
  BY DEF RecordRow
<1> HIDE DEF u, todo, bad
<1>5. t \in Process
  BY <1>1, <1>2, <1>3 DEF Process, Ended
<1>6. Becomes(t, u.pc, u.phase, NoParent, u.goal, u.next, FALSE, "none")
  BY <1>1 DEF Process, Becomes, ThreadOK
<1> HIDE DEF t
<1>7. ThreadOK(t)
  BY <1>1, <1>2, <1>3, <1>6, TheRun DEF ThreadOK, Becomes, Ends
<1>8. Moves(p) /\ prog'[p] = t
  BY <1>4, <1>5, <1>7, MoveOne
<1> QED BY <1>6, <1>8 DEF u, todo, bad

LEMMA AttachedThread ==
  ASSUME TypeOK, TasksTypeOK, ThreadInv, NEW p \in Procs, Attached(p)
  PROVE  Moves(p) /\ Becomes(prog'[p], "sync", prog[p].phase, prog[p].item, prog[p].goal, "open", FALSE, "none")
<1> DEFINE u == prog[p]
           t == [u EXCEPT !.pc = "sync", !.next = "open"]
<1>1. u \in Process /\ ThreadOK(u) /\ u.pc = "attach"
  BY DEF Attached, TasksTypeOK, ThreadInv
<1>2. prog' = [prog EXCEPT ![p] = t]
  BY DEF Attached
<1> HIDE DEF u
<1>3. t \in Process
  BY <1>1 DEF Process, Ended
<1>4. Becomes(t, "sync", u.phase, u.item, u.goal, "open", FALSE, "none")
  BY <1>1 DEF Process, Becomes, ThreadOK
<1> HIDE DEF t
<1>5. ThreadOK(t)
  BY <1>1, <1>4, TheRun DEF ThreadOK, Becomes, Ends
<1>6. Moves(p) /\ prog'[p] = t
  BY <1>2, <1>3, <1>5, MoveOne
<1> QED BY <1>4, <1>6 DEF u

LEMMA FinishCancelledThread ==
  ASSUME TypeOK, TasksTypeOK, ThreadInv, NEW p \in Procs, FinishCancelled(p)
  PROVE  Moves(p) /\ Becomes(prog'[p], "finishing", "cancelled", prog[p].item, prog[p].goal, "closing", FALSE, "none")
<1> DEFINE u == prog[p]
           todo == {x \in Resources : task[x].status \notin Ended}
           pending == {x \in Resources : task[x].status = "pending"}
           t == [u EXCEPT !.pc = "finishing", !.phase = "cancelled", !.next = "closing", !.todo = todo, !.pending = pending]
<1>1. u \in Process /\ ThreadOK(u) /\ u.pc \in {"open", "phase"}
  BY DEF FinishCancelled, TasksTypeOK, ThreadInv
<1>2. todo \in SUBSET Resources
  BY SMT
<1>3. pending \in SUBSET Resources
  BY SMT
<1>4. prog' = [prog EXCEPT ![p] = t]
  BY DEF FinishCancelled
<1> HIDE DEF u, todo, pending
<1>5. t \in Process
  BY <1>1, <1>2, <1>3 DEF Process, Ended
<1>6. Becomes(t, "finishing", "cancelled", u.item, u.goal, "closing", FALSE, "none")
  BY <1>1 DEF Process, Becomes, ThreadOK
<1> HIDE DEF t
<1>7. ThreadOK(t)
  BY <1>1, <1>2, <1>3, <1>6, TheRun DEF ThreadOK, Becomes, Ends
<1>8. Moves(p) /\ prog'[p] = t
  BY <1>4, <1>5, <1>7, MoveOne
<1> QED BY <1>6, <1>8 DEF u, todo, pending

LEMMA ReadCurrentThread ==
  ASSUME TypeOK, TasksTypeOK, ThreadInv, NEW p \in Procs, ReadCurrent(p)
  PROVE  Moves(p) /\ Becomes(prog'[p], IF task[prog[p].phase].status = "pending" THEN "claim current" ELSE "refresh",
                    prog[p].phase, prog[p].phase, prog[p].goal, prog[p].next, FALSE, "none")
<1> DEFINE u == prog[p]
           pc == IF task[u.phase].status = "pending" THEN "claim current" ELSE "refresh"
           t == [u EXCEPT !.item = u.phase, !.pc = pc]
<1>1. u \in Process /\ ThreadOK(u) /\ u.pc = "current"
  BY DEF ReadCurrent, TasksTypeOK, ThreadInv
<1>2. pc \in {"claim current", "refresh"} /\ u.phase \in {"patch", "verify"}
  BY <1>1 DEF ThreadOK
<1>3. prog' = [prog EXCEPT ![p] = t]
  BY DEF ReadCurrent
<1> HIDE DEF u, pc
<1>4. t \in Process
  BY <1>1, <1>2, TheRun DEF Process, Ended
<1>5. Becomes(t, pc, u.phase, u.phase, u.goal, u.next, FALSE, "none")
  BY <1>1 DEF Process, Becomes, ThreadOK
<1> HIDE DEF t
<1>6. ThreadOK(t)
  BY <1>1, <1>2, <1>5, TheRun DEF ThreadOK, Becomes, Ends
<1>7. Moves(p) /\ prog'[p] = t
  BY <1>3, <1>4, <1>6, MoveOne
<1> QED BY <1>5, <1>7 DEF u, pc

LEMMA StartThread ==
  ASSUME TypeOK, TasksTypeOK, ThreadInv, NEW p \in Procs, Start(p)
  PROVE  Moves(p) /\ Becomes(prog'[p], "reconcile", reached, NoParent, "completed", "phase", FALSE, "none")
<1> DEFINE rows == ResourcesOf(R)
           t == [Idle EXCEPT !.pc = "reconcile", !.todo = rows, !.phase = reached]
<1>1. rows \in SUBSET Resources /\ reached \notin {"context", "cancelled"} /\ reached \in {"none", "cancelled"} \cup Ends \cup Resources
  BY TheRun DEF ResourcesOf, TasksTypeOK, Ends
<1>2. prog' = [prog EXCEPT ![p] = t]
  BY DEF Start
<1> HIDE DEF rows
<1>3. t \in Process
  BY <1>1, IdleThread DEF Process
<1>4. Becomes(t, "reconcile", reached, NoParent, "completed", "phase", FALSE, "none")
  BY IdleThread DEF Process, Becomes
<1> HIDE DEF t
<1>5. ThreadOK(t)
  BY <1>1, <1>4 DEF ThreadOK, Becomes, Ends
<1> QED BY <1>2, <1>3, <1>4, <1>5, MoveOne

LEMMA AskThread ==
  ASSUME TypeOK, TasksTypeOK, ThreadInv, NEW p \in Procs, Ask(p)
  PROVE  /\ Moves(p) /\ First(prog[p].todo) \in Resources
         /\ Becomes(prog'[p], "cancel", prog[p].phase, First(prog[p].todo), prog[p].goal, prog[p].next, FALSE, "none")
<1>a. PICK pr \in {prog, Written(First(prog[p].todo), prog)} :
         prog' = [pr EXCEPT ![p].item = First(prog[p].todo), ![p].seen = "none"]
  BY DEF Ask
<1>b. pr \in [Procs -> Process] /\ \A q \in Procs : SameButFresh(pr[q], prog[q])
  BY <1>a, WrittenThreads DEF SameButFresh, TasksTypeOK
<1> DEFINE u == pr[p]
           x == First(prog[p].todo)
           t == [u EXCEPT !.item = x, !.seen = "none"]
<1>1. u \in Process /\ ThreadOK(u) /\ u.pc = "cancel" /\ u.phase = prog[p].phase /\ u.goal = prog[p].goal /\ u.next = prog[p].next
  BY <1>b, FreshKeepsThread DEF Ask, SameButFresh, ThreadInv
<1>2. x \in Resources
  BY FirstIsLeft DEF Ask, TasksTypeOK, Process
<1>3. prog' = [pr EXCEPT ![p] = t]
  BY <1>a
<1> HIDE DEF u, x
<1>4. t \in Process
  BY <1>1, <1>2 DEF Process, Ended
<1>5. Becomes(t, "cancel", prog[p].phase, x, prog[p].goal, prog[p].next, FALSE, "none")
  BY <1>1 DEF Process, Becomes, ThreadOK
<1> HIDE DEF t
<1>6. ThreadOK(t)
  BY <1>1, <1>2, <1>5, TheRun DEF ThreadOK, Becomes, Ends
<1>7. Moves(p) /\ prog'[p] = t
  BY <1>3, <1>4, <1>6, <1>b, MoveFrom
<1> QED BY <1>2, <1>5, <1>7 DEF u, x

\* A thread that is only sent elsewhere.
LEMMA GotoThread ==
  ASSUME TasksTypeOK, ThreadInv, NEW p \in Procs, NEW pc \in {"closing", "attach", "sync"}, Goto(p, pc),
         prog[p].pc # "commit", prog[p].pc \in {"reconcile", "cancel"} => prog[p].item = NoParent,
         prog[p].phase = "cancelled" => pc = "sync" /\ prog[p].next = "closing"
  PROVE  Moves(p) /\ Becomes(prog'[p], pc, prog[p].phase, prog[p].item, prog[p].goal, prog[p].next, FALSE, "none")
<1> DEFINE u == prog[p]
           t == [u EXCEPT !.pc = pc]
<1>1. /\ u \in Process /\ ThreadOK(u) /\ u.pc # "commit"
      /\ u.pc \in {"reconcile", "cancel"} => u.item = NoParent
      /\ u.phase = "cancelled" => pc = "sync" /\ u.next = "closing"
  BY DEF TasksTypeOK, ThreadInv
<1>2. prog' = [prog EXCEPT ![p] = t]
  BY DEF Goto
<1> HIDE DEF u
<1>3. t \in Process
  BY <1>1 DEF Process
<1>4. Becomes(t, pc, u.phase, u.item, u.goal, u.next, FALSE, "none")
  BY <1>1 DEF Process, Becomes, ThreadOK
<1> HIDE DEF t
<1>5. ThreadOK(t)
  BY <1>1, <1>4 DEF ThreadOK, Becomes
<1>6. Moves(p) /\ prog'[p] = t
  BY <1>2, <1>3, <1>5, MoveOne
<1> QED BY <1>4, <1>6 DEF u

LEMMA EndReconcileThread ==
  ASSUME TypeOK, TasksTypeOK, ThreadInv, NEW p \in Procs, EndReconcile(p)
  PROVE  /\ Moves(p)
         /\ \/ Close(p)
            \/ Becomes(prog'[p], "closing", prog[p].phase, NoParent, prog[p].goal, prog[p].next, FALSE, "none")
            \/ Becomes(prog'[p], "attach", prog[p].phase, NoParent, prog[p].goal, prog[p].next, FALSE, "none") /\ Activate(p, R)
<1>1. prog[p].pc = "reconcile" /\ prog[p].item = NoParent
  BY DEF EndReconcile, Visited
<1>2. prog[p].phase # "cancelled"
  BY <1>1 DEF ThreadInv, ThreadOK
<1>3. CASE Close(p)
  BY <1>3, CloseThread
<1>4. CASE Goto(p, "closing")
  BY <1>1, <1>2, <1>4, GotoThread
<1>5. CASE Goto(p, "attach") /\ Activate(p, R)
  BY <1>1, <1>2, <1>5, GotoThread
<1> QED BY <1>3, <1>4, <1>5 DEF EndReconcile

LEMMA AdvanceThread ==
  ASSUME TypeOK, TasksTypeOK, ThreadInv, NEW p \in Procs, Advance(p)
  PROVE  /\ Moves(p) /\ prog[p].phase \in {"none", "patch", "verify"}
         /\ \E ph \in NextPhases(p), fixed \in BOOLEAN :
              /\ reached' = IF Owns(p, R) THEN ph ELSE reached
              /\ Becomes(prog'[p], IF CanDispatch(p, R) THEN "read" ELSE "phase", ph, Before(ph),
                         Goal(p, ph, fixed), "phase", FALSE, "none")
<1>0. PICK ph \in NextPhases(p), fixed \in BOOLEAN :
         /\ reached' = IF Owns(p, R) THEN ph ELSE reached
         /\ prog' = [prog EXCEPT ![p].pc = IF CanDispatch(p, R) THEN "read" ELSE "phase",
                                 ![p].phase = ph, ![p].item = Before(ph),
                                 ![p].goal = Goal(p, ph, fixed), ![p].next = "phase"]
  BY DEF Advance
<1> DEFINE u == prog[p]
           pc == IF CanDispatch(p, R) THEN "read" ELSE "phase"
           x == Before(ph)
           goal == Goal(p, ph, fixed)
           t == [u EXCEPT !.pc = pc, !.phase = ph, !.item = x, !.goal = goal, !.next = "phase"]
<1>1. u \in Process /\ ThreadOK(u) /\ u.pc \in {"open", "phase"}
  BY DEF Advance, TasksTypeOK, ThreadInv
<1>2. pc \in {"read", "phase"}
  BY SMT
<1>3. x \in Resources /\ ph \notin {"none", "context", "cancelled"} /\ ph \in {"none", "cancelled"} \cup Ends \cup Resources
  BY <1>0, <1>1, PhasesAhead, TheRun DEF Advance, Ends
<1>4. goal \in Ended /\ prog[p].phase \in {"none", "patch", "verify"}
  BY <1>0, <1>1, PhasesAhead DEF Advance, Ended
<1>5. prog' = [prog EXCEPT ![p] = t]
  BY <1>0
<1> HIDE DEF u, pc, x, goal
<1>6. t \in Process
  BY <1>1, <1>2, <1>3, <1>4 DEF Process
<1>7. Becomes(t, pc, ph, x, goal, "phase", FALSE, "none")
  BY <1>1 DEF Process, Becomes, ThreadOK
<1> HIDE DEF t
<1>8. ThreadOK(t)
  BY <1>1, <1>2, <1>3, <1>4, <1>7, TheRun DEF ThreadOK, Becomes, Ends
<1>9. Moves(p) /\ prog'[p] = t
  BY <1>5, <1>6, <1>8, MoveOne
<1> QED BY <1>0, <1>4, <1>7, <1>9 DEF u, pc, x, goal

LEMMA FinishNextThread ==
  ASSUME TypeOK, TasksTypeOK, ThreadInv, NEW p \in Procs, FinishNext(p)
  PROVE  /\ Moves(p)
         /\ \/ Becomes(prog'[p], "sync", prog[p].phase, prog[p].item, prog[p].goal, prog[p].next, FALSE, "none")
            \/ \E x \in Resources, pc \in {"claim", "reread"} :
                 Becomes(prog'[p], pc, prog[p].phase, x, "cancelled", prog[p].next, FALSE, "none")
<1>1. prog[p].pc = "finishing" /\ prog[p].phase = "cancelled" /\ prog[p].next = "closing"
  BY DEF FinishNext, ThreadInv, ThreadOK
<1>2. CASE Goto(p, "sync")
  BY <1>1, <1>2, GotoThread
<1>3. CASE prog[p].todo # {}
  <2> DEFINE u == prog[p]
             x == First(u.todo)
             todo == u.todo \ {x}
             pc == IF x \in u.pending THEN "claim" ELSE "reread"
             t == [u EXCEPT !.todo = todo, !.pc = pc, !.item = x, !.goal = "cancelled"]
  <2>1. u \in Process /\ ThreadOK(u) /\ u.pc = "finishing" /\ u.phase = "cancelled" /\ u.next = "closing"
    BY <1>1 DEF TasksTypeOK, ThreadInv
  <2>2. x \in Resources /\ todo \in SUBSET Resources /\ pc \in {"claim", "reread"}
    BY <2>1, <1>3, FirstIsLeft DEF Process
  <2>3. prog' = [prog EXCEPT ![p] = t]
    BY <1>3 DEF FinishNext
  <2> HIDE DEF u, x, todo, pc
  <2>4. t \in Process
    BY <2>1, <2>2 DEF Process, Ended
  <2>5. Becomes(t, pc, u.phase, x, "cancelled", u.next, FALSE, "none")
    BY <2>1 DEF Process, Becomes, ThreadOK
  <2> HIDE DEF t
  <2>6. ThreadOK(t)
    BY <2>1, <2>2, <2>5 DEF ThreadOK, Becomes
  <2>7. Moves(p) /\ prog'[p] = t
    BY <2>3, <2>4, <2>6, MoveOne
  <2> QED BY <2>2, <2>5, <2>7 DEF u
<1> QED BY <1>2, <1>3 DEF FinishNext

\* What follows _complete.
AfterPc(t) == IF t.phase = "cancelled" THEN "finishing" ELSE IF t.phase \in Ends THEN "sync" ELSE "current"

LEMMA AfterThread ==
  ASSUME NEW u \in Process, ThreadOK(u), u.pc \in {"read", "commit"}
  PROVE  /\ After(u) \in Process /\ ThreadOK(After(u))
         /\ Becomes(After(u), AfterPc(u), u.phase, NoParent, "completed", u.next, FALSE, "none")
<1> DEFINE pc == AfterPc(u)
           t == [u EXCEPT !.pc = pc, !.item = NoParent, !.goal = "completed", !.fresh = FALSE]
<1>0. pc \in {"finishing", "sync", "current"}
  BY DEF AfterPc
<1>1. (u.phase = "cancelled" => pc = "finishing")
      /\ (pc = "finishing" => u.phase = "cancelled") /\ (pc = "current" => u.phase \in {"patch", "verify"})
  BY TheRun DEF AfterPc, Process, ThreadOK
<1>2. After(u) = t
  BY DEF After, AfterPc
<1> HIDE DEF pc
<1>3. t \in Process
  BY <1>0 DEF Process, Ended
<1>4. Becomes(t, pc, u.phase, NoParent, "completed", u.next, FALSE, "none")
  BY DEF Process, Becomes, ThreadOK
<1> HIDE DEF t
<1>5. ThreadOK(t)
  BY <1>0, <1>1, <1>4 DEF ThreadOK, Becomes
<1> QED BY <1>2, <1>3, <1>4, <1>5 DEF pc

LEMMA ReadTaskThread ==
  ASSUME TypeOK, TasksTypeOK, ThreadInv, NEW p \in Procs, ReadTask(p)
  PROVE  /\ Moves(p)
         /\ LET status == task[prog[p].item].status
            IN  IF status \in Ended
                THEN Becomes(prog'[p], AfterPc(prog[p]), prog[p].phase, NoParent, "completed", prog[p].next, FALSE, "none")
                ELSE Becomes(prog'[p], IF status = "pending" THEN "claim" ELSE "reread",
                             prog[p].phase, prog[p].item, prog[p].goal, prog[p].next, FALSE, "none")
<1> DEFINE status == task[prog[p].item].status
<1>1. CASE status \in Ended
  <2> DEFINE t == After(prog[p])
  <2>1. prog' = [prog EXCEPT ![p] = t]
    BY <1>1 DEF ReadTask
  <2>2. prog[p] \in Process /\ ThreadOK(prog[p]) /\ prog[p].pc = "read"
    BY DEF ReadTask, TasksTypeOK, ThreadInv
  <2>3. t \in Process /\ ThreadOK(t) /\ Becomes(t, AfterPc(prog[p]), prog[p].phase, NoParent, "completed", prog[p].next, FALSE, "none")
    BY <2>2, AfterThread
  <2> HIDE DEF t
  <2> QED BY <1>1, <2>1, <2>3, MoveOne
<1>2. CASE status \notin Ended
  <2> DEFINE u == prog[p]
             pc == IF status = "pending" THEN "claim" ELSE "reread"
             t == [u EXCEPT !.pc = pc]
  <2>1. u \in Process /\ ThreadOK(u) /\ u.pc = "read"
    BY DEF ReadTask, TasksTypeOK, ThreadInv
  <2>2. pc \in {"claim", "reread"}
    OBVIOUS
  <2>3. prog' = [prog EXCEPT ![p] = t]
    BY <1>2 DEF ReadTask
  <2> HIDE DEF u, pc
  <2>4. t \in Process
    BY <2>1, <2>2 DEF Process
  <2>5. Becomes(t, pc, u.phase, u.item, u.goal, u.next, FALSE, "none")
    BY <2>1 DEF Process, Becomes, ThreadOK
  <2> HIDE DEF t
  <2>6. ThreadOK(t)
    BY <2>1, <2>2, <2>5 DEF ThreadOK, Becomes
  <2>7. Moves(p) /\ prog'[p] = t
    BY <2>3, <2>4, <2>6, MoveOne
  <2> QED BY <1>2, <2>5, <2>7 DEF u, pc
<1> QED BY <1>1, <1>2

LEMMA ClaimThread ==
  ASSUME TypeOK, TasksTypeOK, ThreadInv, NEW p \in Procs, Claim(p)
  PROVE  /\ Moves(p) /\ prog[p].item \in Resources
         /\ LET x == prog[p].item
            IN  IF Claimable(x)
                THEN /\ task' = Claimed(x, p)
                     /\ prog' \in [Procs -> Process] /\ \A q \in Procs : prog[q].item = x => ~prog'[q].fresh
                     /\ Becomes(prog'[p], IF prog[p].pc = "claim" THEN "reread" ELSE "refresh",
                                prog[p].phase, x, prog[p].goal, prog[p].next, FALSE, "none")
                ELSE /\ UNCHANGED task
                     /\ Becomes(prog'[p], prog[p].next, prog[p].phase, NoParent, "completed", "phase", FALSE, "none")
<1> DEFINE x == prog[p].item
           pr == Written(x, prog)
<1>1. prog[p].pc \in {"claim", "claim current"} /\ x \in Resources
  BY DEF Claim, ThreadInv, ThreadOK
<1>2. CASE ~Claimable(x)
  BY <1>1, <1>2, SwallowThread DEF Claim
<1>3. CASE Claimable(x)
  <2>1. /\ pr \in [Procs -> Process] /\ \A q \in Procs : SameButFresh(pr[q], prog[q])
        /\ \A q \in Procs : prog[q].item = x => ~pr[q].fresh
    BY WrittenThreads DEF TasksTypeOK
  <2> DEFINE u == pr[p]
             pc == IF prog[p].pc = "claim" THEN "reread" ELSE "refresh"
             t == [u EXCEPT !.pc = pc]
  <2>2. /\ u \in Process /\ ThreadOK(u) /\ ~u.fresh /\ u.pc = prog[p].pc /\ u.pc \in {"claim", "claim current"}
        /\ u.phase = prog[p].phase /\ u.item = x /\ u.goal = prog[p].goal /\ u.next = prog[p].next
    BY <1>1, <2>1, FreshKeepsThread DEF ThreadInv, SameButFresh
  <2>3. pc \in {"reread", "refresh"} /\ (u.pc = "claim" <=> pc = "reread")
    BY <2>2
  <2>4. task' = Claimed(x, p) /\ prog' = [pr EXCEPT ![p] = t]
    BY <1>3 DEF Claim
  <2> HIDE DEF pr, u, pc
  <2>5. t \in Process
    BY <2>2, <2>3 DEF Process
  <2>6. Becomes(t, pc, u.phase, u.item, u.goal, u.next, FALSE, "none")
    BY <2>2 DEF Process, Becomes, ThreadOK
  <2> HIDE DEF t
  <2>7. ThreadOK(t)
    BY <2>2, <2>3, <2>6 DEF ThreadOK, Becomes
  <2>8. Moves(p) /\ prog'[p] = t /\ prog' \in [Procs -> Process]
    BY <2>1, <2>4, <2>5, <2>7, MoveFrom DEF Moves
  <2>9. \A q \in Procs : prog[q].item = x => ~prog'[q].fresh
    BY <2>1, <2>4, <2>6, <2>8 DEF Becomes
  <2>10. Becomes(prog'[p], pc, prog[p].phase, x, prog[p].goal, prog[p].next, FALSE, "none")
    BY <2>2, <2>6, <2>8
  <2> QED BY <1>1, <1>3, <2>4, <2>8, <2>9, <2>10 DEF pc
<1> QED BY <1>2, <1>3

LEMMA RereadThread ==
  ASSUME TypeOK, TasksTypeOK, ThreadInv, NEW p \in Procs, Reread(p)
  PROVE  /\ Moves(p)
         /\ LET r == task[prog[p].item]
            IN  IF r.status = "running" /\ r.live
                THEN Becomes(prog'[p], "commit", prog[p].phase, prog[p].item, prog[p].goal, prog[p].next, TRUE, "none")
                ELSE Becomes(prog'[p], prog[p].next, prog[p].phase, NoParent, "completed", "phase", FALSE, "none")
<1> DEFINE r == task[prog[p].item]
<1>1. CASE ~(r.status = "running" /\ r.live)
  BY <1>1, SwallowThread DEF Reread
<1>2. CASE r.status = "running" /\ r.live
  <2> DEFINE u == prog[p]
             t == [u EXCEPT !.pc = "commit", !.fresh = TRUE]
  <2>1. u \in Process /\ ThreadOK(u) /\ u.pc = "reread"
    BY DEF Reread, TasksTypeOK, ThreadInv
  <2>2. prog' = [prog EXCEPT ![p] = t]
    BY <1>2 DEF Reread
  <2> HIDE DEF u
  <2>3. t \in Process
    BY <2>1 DEF Process
  <2>4. Becomes(t, "commit", u.phase, u.item, u.goal, u.next, TRUE, "none")
    BY <2>1 DEF Process, Becomes, ThreadOK
  <2> HIDE DEF t
  <2>5. ThreadOK(t)
    BY <2>1, <2>4 DEF ThreadOK, Becomes
  <2>6. Moves(p) /\ prog'[p] = t
    BY <2>2, <2>3, <2>5, MoveOne
  <2> QED BY <1>2, <2>4, <2>6 DEF u
<1> QED BY <1>1, <1>2

LEMMA CommitThread ==
  ASSUME TypeOK, TasksTypeOK, ThreadInv, NEW p \in Procs, Commit(p)
  PROVE  /\ Moves(p) /\ prog[p].item \in Resources
         /\ LET x == prog[p].item
            IN  IF prog[p].fresh
                THEN /\ task' = Completed(x, prog[p].goal)
                     /\ prog' \in [Procs -> Process] /\ \A q \in Procs : prog[q].item = x => ~prog'[q].fresh
                     /\ Becomes(prog'[p], AfterPc(prog[p]), prog[p].phase, NoParent, "completed", prog[p].next, FALSE, "none")
                ELSE /\ UNCHANGED task
                     /\ Becomes(prog'[p], prog[p].next, prog[p].phase, NoParent, "completed", "phase", FALSE, "none")
<1> DEFINE x == prog[p].item
           pr == Written(x, prog)
<1>1. prog[p].pc = "commit" /\ x \in Resources
  BY DEF Commit, ThreadInv, ThreadOK
<1>2. CASE ~prog[p].fresh
  BY <1>1, <1>2, SwallowThread DEF Commit
<1>3. CASE prog[p].fresh
  <2>1. /\ pr \in [Procs -> Process] /\ \A q \in Procs : SameButFresh(pr[q], prog[q])
        /\ \A q \in Procs : prog[q].item = x => ~pr[q].fresh
    BY WrittenThreads DEF TasksTypeOK
  <2> DEFINE t == After(pr[p])
  <2>2. /\ pr[p] \in Process /\ ThreadOK(pr[p]) /\ pr[p].pc = "commit"
        /\ pr[p].phase = prog[p].phase /\ pr[p].next = prog[p].next
    BY <1>1, <2>1, FreshKeepsThread DEF ThreadInv, SameButFresh
  <2>3. /\ t \in Process /\ ThreadOK(t)
        /\ Becomes(t, AfterPc(prog[p]), prog[p].phase, NoParent, "completed", prog[p].next, FALSE, "none")
    BY <2>2, AfterThread DEF AfterPc
  <2>4. task' = Completed(x, prog[p].goal) /\ prog' = [pr EXCEPT ![p] = t]
    BY <1>3 DEF Commit
  <2> HIDE DEF pr, t
  <2>5. Moves(p) /\ prog'[p] = t /\ prog' \in [Procs -> Process]
    BY <2>1, <2>3, <2>4, MoveFrom DEF Moves
  <2>6. \A q \in Procs : prog[q].item = x => ~prog'[q].fresh
    BY <2>1, <2>3, <2>4, <2>5 DEF Becomes
  <2> QED BY <1>1, <1>3, <2>3, <2>4, <2>5, <2>6
<1> QED BY <1>2, <1>3

LEMMA RefreshThread ==
  ASSUME TypeOK, TasksTypeOK, ThreadInv, NEW p \in Procs, Refresh(p)
  PROVE  /\ Moves(p)
         /\ \/ Becomes(prog'[p], "sync", prog[p].phase, NoParent, prog[p].goal, prog[p].next, FALSE, "none")
            \/ Becomes(prog'[p], prog[p].next, prog[p].phase, NoParent, "completed", "phase", FALSE, "none")
<1>1. CASE Swallow(p)
  BY <1>1, SwallowThread DEF Refresh
<1>2. CASE prog' = [prog EXCEPT ![p].pc = "sync", ![p].item = NoParent]
  <2> DEFINE u == prog[p]
             t == [u EXCEPT !.pc = "sync", !.item = NoParent]
  <2>1. u \in Process /\ ThreadOK(u) /\ u.pc = "refresh"
    BY DEF Refresh, TasksTypeOK, ThreadInv
  <2>2. prog' = [prog EXCEPT ![p] = t]
    BY <1>2
  <2> HIDE DEF u
  <2>3. t \in Process
    BY <2>1 DEF Process
  <2>4. Becomes(t, "sync", u.phase, NoParent, u.goal, u.next, FALSE, "none")
    BY <2>1 DEF Process, Becomes, ThreadOK
  <2> HIDE DEF t
  <2>5. ThreadOK(t)
    BY <2>1, <2>4 DEF ThreadOK, Becomes
  <2>6. Moves(p) /\ prog'[p] = t
    BY <2>2, <2>3, <2>5, MoveOne
  <2> QED BY <2>4, <2>6 DEF u
<1> QED BY <1>1, <1>2 DEF Refresh

LEMMA EnterCancelThread ==
  ASSUME TypeOK, TasksTypeOK, ThreadInv, NEW p \in Procs, EnterCancel(p)
  PROVE  /\ Moves(p)
         /\ UNCHANGED prog \/ Becomes(prog'[p], "cancel", prog[p].phase, NoParent, prog[p].goal, prog[p].next, FALSE, "none")
<1>1. CASE UNCHANGED prog
  BY <1>1, NoMove
<1>2. CASE prog' # prog
  <2> DEFINE u == prog[p]
             rows == {x \in ResourcesOf(R) : ~Settled(x)}
             t == [u EXCEPT !.pc = "cancel", !.item = NoParent, !.todo = rows]
  <2>1. u \in Process /\ ThreadOK(u) /\ u.pc = "closing"
    BY DEF EnterCancel, TasksTypeOK, ThreadInv
  <2>2. rows \in SUBSET Resources
    BY DEF ResourcesOf
  <2>3. prog' = [prog EXCEPT ![p] = t]
    BY <1>2 DEF EnterCancel
  <2> HIDE DEF u, rows
  <2>4. t \in Process
    BY <2>1, <2>2 DEF Process
  <2>5. Becomes(t, "cancel", u.phase, NoParent, u.goal, u.next, FALSE, "none")
    BY <2>1 DEF Process, Becomes, ThreadOK
  <2> HIDE DEF t
  <2>6. ThreadOK(t)
    BY <2>1, <2>5 DEF ThreadOK, Becomes
  <2>7. Moves(p) /\ prog'[p] = t
    BY <2>3, <2>4, <2>6, MoveOne
  <2> QED BY <2>5, <2>7 DEF u
<1> QED BY <1>1, <1>2

LEMMA DieThread ==
  ASSUME TasksTypeOK, NEW p \in Procs, Die(p)
  PROVE  Moves(p) /\ Becomes(prog'[p], "none", "none", NoParent, "completed", "phase", FALSE, "none")
<1>1. prog' = [prog EXCEPT ![p] = Idle]
  BY DEF Die
<1> QED BY <1>1, IdleThread, MoveOne

LEMMA RenewThreads ==
  ASSUME TasksTypeOK, ThreadInv, NEW p \in Procs, NEW x \in Resources, Renew(p, x)
  PROVE  Moves(p) /\ \A q \in Procs : SameButFresh(prog'[q], prog[q])
<1>1. prog' \in [Procs -> Process] /\ \A q \in Procs : SameButFresh(prog'[q], prog[q])
  BY WrittenThreads DEF Renew, TasksTypeOK
<1> QED BY <1>1, FreshKeepsThread DEF Moves, ThreadInv
-----------------------------------------------------------------------------
(* The threads and the registry *)

\* A thread that has neither a fresh row nor something seen of one.
Quiet(t) == ~t.fresh /\ t.seen = "none"

LEMMA QuietAfter ==
  ASSUME NEW t, NEW pc, NEW phase, NEW item, NEW goal, NEW next, Becomes(t, pc, phase, item, goal, next, FALSE, "none")
  PROVE  Quiet(t)
  BY DEF Becomes, Quiet

LEMMA StepMoves ==
  ASSUME TypeOK, TasksTypeOK, ThreadInv, NEW p \in Procs, TaskStep(p)
  PROVE  Moves(p) /\ (Inspect(p) \/ Look(p) \/ Reread(p) \/ UNCHANGED prog \/ Quiet(prog'[p]))
<1>1. CASE Inspect(p) \/ Look(p) \/ Reread(p)
  BY <1>1, InspectThread, LookThread, RereadThread
<1>2. CASE Start(p) \/ Ask(p) \/ RecordRow(p)
  BY <1>2, StartThread, AskThread, RecordThread, QuietAfter
<1>3. CASE Attached(p) \/ FinishCancelled(p) \/ ReadCurrent(p)
  BY <1>3, AttachedThread, FinishCancelledThread, ReadCurrentThread, QuietAfter
<1>4. CASE EndReconcile(p)
  BY <1>4, EndReconcileThread, CloseThread, QuietAfter
<1>5. CASE Attach(p)
  BY <1>5, NoMove DEF Attach
<1>6. CASE SyncRow(p)
  BY <1>6, NoMove, SwallowThread, QuietAfter DEF SyncRow
<1>7. CASE Synced(p)
  BY <1>7, SwallowThread, QuietAfter DEF Synced
<1>8. CASE Advance(p)
  BY <1>8, AdvanceThread, QuietAfter
<1>9. CASE FinishNext(p)
  BY <1>9, FinishNextThread, QuietAfter
<1>10. CASE ReadTask(p)
  BY <1>10, ReadTaskThread, QuietAfter
<1>11. CASE Claim(p)
  BY <1>11, ClaimThread, QuietAfter
<1>12. CASE Commit(p)
  BY <1>12, CommitThread, QuietAfter
<1>13. CASE Refresh(p)
  BY <1>13, RefreshThread, QuietAfter
<1>14. CASE EnterCancel(p)
  BY <1>14, EnterCancelThread, QuietAfter
<1>15. CASE Release(p)
  BY <1>15, CloseThread, QuietAfter DEF Release
<1>16. CASE EndCancel(p)
  BY <1>16, CloseThread, QuietAfter DEF EndCancel
<1> QED BY <1>1, <1>2, <1>3, <1>4, <1>5, <1>6, <1>7, <1>8, <1>9, <1>10, <1>11, <1>12, <1>13, <1>14, <1>15, <1>16
        DEF TaskStep

\* At most one thread moves, and a thread that reads a row is one of three steps.
LEMMA StepProg ==
  ASSUME TypeOK, TasksTypeOK, ThreadInv, [TasksNext]_taskVars
  PROVE  \/ UNCHANGED prog
         \/ \E p \in Procs :
              /\ Moves(p)
              /\ Inspect(p) \/ Look(p) \/ Reread(p) \/ SameButFresh(prog'[p], prog[p]) \/ Quiet(prog'[p])
<1>1. ASSUME NEW p \in Procs, LoseOwnership(p) PROVE Moves(p) /\ Quiet(prog'[p])
  BY <1>1, CloseThread, QuietAfter DEF LoseOwnership
<1>2. ASSUME NEW p \in Procs, Die(p) PROVE Moves(p) /\ Quiet(prog'[p])
  BY <1>2, DieThread, QuietAfter
<1>3. ASSUME NEW p \in Procs, NEW x \in Resources, Renew(p, x) PROVE Moves(p) /\ SameButFresh(prog'[p], prog[p])
  BY <1>3, RenewThreads
<1>4. ASSUME NEW p \in Procs, SetToken(p) PROVE UNCHANGED prog
  BY <1>4 DEF SetToken
<1>5. ASSUME NEW x \in Resources, TaskExpires(x) PROVE UNCHANGED prog
  BY <1>5 DEF TaskExpires
<1>6. ASSUME LeaseExpires \/ UNCHANGED taskVars PROVE UNCHANGED prog
  BY <1>6 DEF LeaseExpires, taskVars
<1> QED BY <1>1, <1>2, <1>3, <1>4, <1>5, <1>6, StepMoves DEF TasksNext

LEMMA StepThreads ==
  ASSUME TypeOK, TasksTypeOK, ThreadInv, [TasksNext]_taskVars
  PROVE  prog' \in [Procs -> Process] /\ ThreadInv'
<1>1. ASSUME NEW p \in Procs, Moves(p) PROVE prog' \in [Procs -> Process] /\ ThreadInv'
  BY <1>1, FreshKeepsThread DEF Moves, ThreadInv
<1>2. CASE UNCHANGED prog
  BY <1>2 DEF TasksTypeOK, ThreadInv
<1> QED BY <1>1, <1>2, StepProg

\* A step of a thread is a step of the registry, or leaves the registry alone.
LEMMA StepRegistry ==
  ASSUME TypeOK, TasksTypeOK, ThreadInv, [TasksNext]_taskVars
  PROVE  [Next]_vars
<1>1. ASSUME UNCHANGED registry PROVE [Next]_vars
  BY <1>1 DEF registry, vars
<1>2. ASSUME NEW p \in Procs, OwnerStep(p, R) \/ ResourceStep(p, R) PROVE [Next]_vars
  BY <1>2, TheRun DEF Next
<1>3. ASSUME NEW p \in Procs, TaskStep(p) PROVE [Next]_vars
  <2>1. CASE Start(p)
    BY <2>1, <1>2 DEF Start, OwnerStep
  <2>2. CASE RecordRow(p)
    <3> DEFINE x == prog[p].item
               seen == prog[p].seen
               cleanup == IF seen = "unknown" THEN "unknown" ELSE "confirmed"
               adopt == prog[p].pc = "reconcile"
    <3>1. x \in Resources /\ seen \in ResourceStates /\ cleanup \in Cleanups /\ adopt \in BOOLEAN
      BY <2>2 DEF RecordRow, TasksTypeOK, Process, Ended, ResourceStates, Cleanups
    <3>2. TransitionResource(p, R, x, seen, cleanup, adopt)
      BY <2>2 DEF RecordRow
    <3> HIDE DEF x, seen, cleanup, adopt
    <3> QED BY <3>1, <3>2, <1>2 DEF ResourceStep
  <2>3. CASE EndReconcile(p)
    BY <2>3, <1>2 DEF EndReconcile, OwnerStep
  <2>4. CASE Attach(p)
    <3> DEFINE x == First(Resources \ ResourcesOf(R))
    <3>1. Resources \ ResourcesOf(R) # {}
      BY <2>4 DEF Attach, ResourcesOf
    <3>2. x \in Resources
      BY <3>1, FirstIsLeft
    <3>3. RegisterResource(p, R, x, NoParent, TRUE)
      BY <2>4 DEF Attach
    <3> HIDE DEF x
    <3> QED BY <3>2, <3>3, <1>2 DEF ResourceStep
  <2>5. CASE SyncRow(p)
    <3> DEFINE x == First(OutOfStep)
    <3>1. x \in Resources
      BY <2>5, FirstIsLeft DEF SyncRow, OutOfStep
    <3>2. RowStatus(x) \in ResourceStates /\ RowCleanup(x) \in Cleanups
      BY <3>1 DEF RowStatus, RowCleanup, TasksTypeOK, TaskRow, ResourceStates, Cleanups
    <3>3. TransitionResource(p, R, x, RowStatus(x), RowCleanup(x), FALSE) \/ UNCHANGED registry
      BY <2>5 DEF SyncRow
    <3> HIDE DEF x
    <3> QED BY <3>1, <3>2, <3>3, <1>1, <1>2 DEF ResourceStep
  <2>6. CASE Release(p)
    BY <2>6, <1>2 DEF Release, OwnerStep, EndStates
  <2>7. CASE EnterCancel(p)
    BY <2>7, <1>2 DEF EnterCancel, OwnerStep
  <2>8. CASE EndCancel(p)
    BY <2>8, <1>2 DEF EndCancel, OwnerStep, EndStates
  <2>9. CASE UNCHANGED registry
    BY <2>9, <1>1
  <2> QED BY <1>3, <2>1, <2>2, <2>3, <2>4, <2>5, <2>6, <2>7, <2>8, <2>9
          DEF TaskStep, Inspect, Ask, Look, Attached, Synced, Advance, FinishCancelled, FinishNext,
              ReadTask, Claim, Reread, Commit, ReadCurrent, Refresh
<1>4. ASSUME NEW p \in Procs, LoseOwnership(p) \/ SetToken(p) PROVE [Next]_vars
  BY <1>4, <1>1 DEF LoseOwnership, SetToken
<1>5. ASSUME NEW p \in Procs, Die(p) PROVE [Next]_vars
  BY <1>5 DEF Die, Next
<1>6. ASSUME NEW p \in Procs, NEW x \in Resources, Renew(p, x) PROVE [Next]_vars
  BY <1>6, <1>1 DEF Renew
<1>7. ASSUME NEW x \in Resources, TaskExpires(x) PROVE [Next]_vars
  BY <1>7, <1>1 DEF TaskExpires
<1>8. ASSUME LeaseExpires PROVE [Next]_vars
  BY <1>8, TheRun DEF LeaseExpires, Next
<1>9. ASSUME UNCHANGED taskVars PROVE [Next]_vars
  BY <1>9, <1>1 DEF taskVars
<1> QED BY <1>3, <1>4, <1>5, <1>6, <1>7, <1>8, <1>9 DEF TasksNext

-----------------------------------------------------------------------------
(* The rows of the tasks *)

\* What a step makes of one row.
RowAsked(x) ==
    /\ ~task[x].cancel /\ task[x].status \notin Ended
    /\ task'[x].cancel /\ task'[x].attempt = task[x].attempt /\ task'[x].live = task[x].live
    /\ task'[x].status = IF task[x].status = "pending" THEN "cancelled" ELSE task[x].status

RowClaimed(x) ==
    /\ Claimable(x)
    /\ task'[x].cancel = task[x].cancel /\ task'[x].live /\ task'[x].status = "running"

RowCompleted(x, goal) ==
    /\ task'[x].cancel = task[x].cancel /\ task'[x].attempt = task[x].attempt
    /\ ~task'[x].live /\ task'[x].status = goal

RowExpired(x) ==
    /\ task[x].live /\ RowCompleted(x, task[x].status)

OnlyRow(x) == task' \in [Resources -> TaskRow] /\ \A y \in Resources \ {x} : task'[y] = task[y]

LEMMA WriteRow ==
  ASSUME task \in [Resources -> TaskRow], NEW x \in Resources, NEW row \in TaskRow, task' = [task EXCEPT ![x] = row]
  PROVE  OnlyRow(x) /\ task'[x] = row
  BY DEF OnlyRow

LEMMA AskedRow ==
  ASSUME task \in [Resources -> TaskRow], NEW x \in Resources, task' = Asked(x),
         ~task[x].cancel, task[x].status \notin Ended
  PROVE  OnlyRow(x) /\ RowAsked(x)
<1> DEFINE u == task[x]
           status == IF u.status = "pending" THEN "cancelled" ELSE u.status
           row == [u EXCEPT !.cancel = TRUE, !.status = status]
<1>1. u \in TaskRow
  OBVIOUS
<1>2. status \in {"pending", "running", "completed", "failed", "cancelled"}
  BY <1>1 DEF TaskRow
<1>3. task' = [task EXCEPT ![x] = row]
  BY DEF Asked
<1> HIDE DEF u, status
<1>4. row \in TaskRow /\ row.cancel /\ row.attempt = u.attempt /\ row.live = u.live /\ row.status = status
  BY <1>1, <1>2 DEF TaskRow
<1> HIDE DEF row
<1>5. OnlyRow(x) /\ task'[x] = row
  BY <1>3, <1>4, WriteRow
<1> QED BY <1>4, <1>5 DEF RowAsked, u, status

LEMMA ClaimedRow ==
  ASSUME task \in [Resources -> TaskRow], NEW x \in Resources, NEW p \in Procs, task' = Claimed(x, p), Claimable(x)
  PROVE  OnlyRow(x) /\ RowClaimed(x)
<1> DEFINE u == task[x]
           n == IF u.attempt > MaxAttempts THEN u.attempt ELSE u.attempt + 1
           row == [u EXCEPT !.status = "running", !.live = TRUE, !.by = p, !.attempt = n]
<1>1. u \in TaskRow
  OBVIOUS
<1>2. n \in 0 .. MaxAttempts + 1
  BY <1>1 DEF TaskRow, MaxAttempts
<1>3. task' = [task EXCEPT ![x] = row]
  BY DEF Claimed
<1> HIDE DEF u, n
<1>4. row \in TaskRow /\ row.cancel = u.cancel /\ row.live /\ row.status = "running"
  BY <1>1, <1>2 DEF TaskRow
<1> HIDE DEF row
<1>5. OnlyRow(x) /\ task'[x] = row
  BY <1>3, <1>4, WriteRow
<1> QED BY <1>4, <1>5 DEF RowClaimed, u

LEMMA CompletedRow ==
  ASSUME task \in [Resources -> TaskRow], NEW x \in Resources, NEW goal \in Ended, task' = Completed(x, goal)
  PROVE  OnlyRow(x) /\ RowCompleted(x, goal)
<1> DEFINE u == task[x]
           row == [u EXCEPT !.status = goal, !.live = FALSE]
<1>1. u \in TaskRow
  OBVIOUS
<1>2. task' = [task EXCEPT ![x] = row]
  BY DEF Completed
<1> HIDE DEF u
<1>3. row \in TaskRow /\ row.cancel = u.cancel /\ row.attempt = u.attempt /\ ~row.live /\ row.status = goal
  BY <1>1 DEF TaskRow, Ended
<1> HIDE DEF row
<1>4. OnlyRow(x) /\ task'[x] = row
  BY <1>2, <1>3, WriteRow
<1> QED BY <1>3, <1>4 DEF RowCompleted, u

LEMMA ExpiredRow ==
  ASSUME task \in [Resources -> TaskRow], NEW x \in Resources, task[x].live, task' = [task EXCEPT ![x].live = FALSE]
  PROVE  OnlyRow(x) /\ RowExpired(x)
<1> DEFINE u == task[x]
           row == [u EXCEPT !.live = FALSE]
<1>1. u \in TaskRow
  OBVIOUS
<1>2. task' = [task EXCEPT ![x] = row]
  OBVIOUS
<1> HIDE DEF u
<1>3. row \in TaskRow /\ row.cancel = u.cancel /\ row.attempt = u.attempt /\ ~row.live /\ row.status = u.status
  BY <1>1 DEF TaskRow
<1> HIDE DEF row
<1>4. OnlyRow(x) /\ task'[x] = row
  BY <1>2, <1>3, WriteRow
<1> QED BY <1>3, <1>4 DEF RowExpired, RowCompleted, u

\* Whatever was read of the row of x before the step is stale after it.
Outdated(x) == \A q \in Procs : prog[q].item = x => ~prog'[q].fresh

\* The writes of the rows: a cancel request, a claim, a completion, the passing of time.
Writes ==
    \/ UNCHANGED task
    \/ \E x \in Resources : ~task[x].cancel /\ task[x].status \notin Ended /\ task' = Asked(x) /\ Outdated(x)
    \/ \E x \in Resources, p \in Procs : Claimable(x) /\ task' = Claimed(x, p) /\ Outdated(x)
    \/ \E x \in Resources, p \in Procs : /\ prog[p].fresh /\ prog[p].item = x
                                         /\ task' = Completed(x, prog[p].goal) /\ Outdated(x)
    \/ \E x \in Resources : task[x].live /\ task' = [task EXCEPT ![x].live = FALSE] /\ UNCHANGED prog

LEMMA StepWrites ==
  ASSUME TypeOK, TasksTypeOK, ThreadInv, [TasksNext]_taskVars
  PROVE  Writes
<1>1. ASSUME NEW p \in Procs, TaskStep(p) PROVE Writes
  <2>1. CASE Ask(p)
    <3> DEFINE x == First(prog[p].todo)
               pr == Written(x, prog)
    <3>1. CASE UNCHANGED task
      BY <3>1 DEF Writes
    <3>2. CASE task' # task
      <4>1. x \in Resources /\ Becomes(prog'[p], "cancel", prog[p].phase, x, prog[p].goal, prog[p].next, FALSE, "none")
        BY <2>1, AskThread
      <4>2. ~task[x].cancel /\ task[x].status \notin Ended /\ task' = Asked(x)
        BY <2>1, <3>2 DEF Ask
      <4>3. prog' = [pr EXCEPT ![p].item = x, ![p].seen = "none"]
        BY <2>1, <3>2 DEF Ask
      <4>4. pr \in [Procs -> Process] /\ \A q \in Procs : prog[q].item = x => ~pr[q].fresh
        BY WrittenThreads DEF TasksTypeOK
      <4> HIDE DEF x, pr
      <4>5. \A q \in Procs \ {p} : prog'[q] = pr[q]
        BY <4>3, <4>4
      <4>6. Outdated(x)
        BY <4>1, <4>4, <4>5 DEF Outdated, Becomes
      <4> QED BY <4>1, <4>2, <4>6 DEF Writes
    <3> QED BY <3>1, <3>2
  <2>2. CASE Claim(p)
    <3> DEFINE x == prog[p].item
    <3>1. x \in Resources
      BY <2>2, ClaimThread
    <3>2. CASE Claimable(x)
      <4>1. task' = Claimed(x, p) /\ Outdated(x)
        BY <2>2, <3>2, ClaimThread DEF Outdated
      <4> HIDE DEF x
      <4> QED BY <3>1, <3>2, <4>1 DEF Writes
    <3>3. CASE ~Claimable(x)
      <4>1. UNCHANGED task
        BY <2>2, <3>3, ClaimThread
      <4> QED BY <4>1 DEF Writes
    <3> QED BY <3>2, <3>3
  <2>3. CASE Commit(p)
    <3> DEFINE x == prog[p].item
    <3>1. x \in Resources
      BY <2>3, CommitThread
    <3>2. CASE prog[p].fresh
      <4>1. task' = Completed(x, prog[p].goal) /\ Outdated(x)
        BY <2>3, <3>2, CommitThread DEF Outdated
      <4> QED BY <3>1, <3>2, <4>1 DEF Writes
    <3>3. CASE ~prog[p].fresh
      <4>1. UNCHANGED task
        BY <2>3, <3>3, CommitThread
      <4> QED BY <4>1 DEF Writes
    <3> QED BY <3>2, <3>3
  <2>4. CASE UNCHANGED task
    BY <2>4 DEF Writes
  <2> QED BY <1>1, <2>1, <2>2, <2>3, <2>4
          DEF TaskStep, Start, Inspect, Look, RecordRow, EndReconcile, Attach, Attached, SyncRow, Synced, Advance,
              FinishCancelled, FinishNext, ReadTask, Reread, ReadCurrent, Refresh, Release, EnterCancel, EndCancel
<1>2. ASSUME NEW p \in Procs, LoseOwnership(p) \/ SetToken(p) \/ Die(p) PROVE Writes
  BY <1>2 DEF LoseOwnership, SetToken, Die, Writes
<1>3. ASSUME NEW p \in Procs, NEW x \in Resources, Renew(p, x) PROVE Writes
  BY <1>3 DEF Renew, Writes
<1>4. ASSUME NEW x \in Resources, TaskExpires(x) PROVE Writes
  BY <1>4 DEF TaskExpires, Writes
<1>5. ASSUME LeaseExpires \/ UNCHANGED taskVars PROVE Writes
  BY <1>5 DEF LeaseExpires, taskVars, Writes
<1> QED BY <1>1, <1>2, <1>3, <1>4, <1>5 DEF TasksNext

\* Every row either stays or makes one of the moves.
RowMove(x) ==
    \/ task'[x] = task[x]
    \/ RowAsked(x) /\ Outdated(x)
    \/ RowClaimed(x) /\ Outdated(x)
    \/ Outdated(x) /\ \E p \in Procs : prog[p].fresh /\ prog[p].item = x /\ RowCompleted(x, prog[p].goal)
    \/ RowExpired(x) /\ UNCHANGED prog

LEMMA StepRows ==
  ASSUME TasksTypeOK, Writes
  PROVE  task' \in [Resources -> TaskRow] /\ \A x \in Resources : RowMove(x)
<1>1. task \in [Resources -> TaskRow] /\ \A p \in Procs : prog[p].goal \in Ended
  BY DEF TasksTypeOK, Process
<1>2. ASSUME NEW x \in Resources, OnlyRow(x), RowMove(x)
      PROVE  task' \in [Resources -> TaskRow] /\ \A y \in Resources : RowMove(y)
  BY <1>2 DEF RowMove, OnlyRow
<1>3. CASE UNCHANGED task
  BY <1>1, <1>3 DEF RowMove
<1>4. ASSUME NEW x \in Resources, ~task[x].cancel, task[x].status \notin Ended, task' = Asked(x), Outdated(x)
      PROVE  OnlyRow(x) /\ RowMove(x)
  BY <1>1, <1>4, AskedRow DEF RowMove
<1>5. ASSUME NEW x \in Resources, NEW p \in Procs, Claimable(x), task' = Claimed(x, p), Outdated(x)
      PROVE  OnlyRow(x) /\ RowMove(x)
  BY <1>1, <1>5, ClaimedRow DEF RowMove
<1>6. ASSUME NEW x \in Resources, NEW p \in Procs, prog[p].fresh, prog[p].item = x,
             task' = Completed(x, prog[p].goal), Outdated(x)
      PROVE  OnlyRow(x) /\ RowMove(x)
  BY <1>1, <1>6, CompletedRow DEF RowMove
<1>7. ASSUME NEW x \in Resources, task[x].live, task' = [task EXCEPT ![x].live = FALSE], UNCHANGED prog
      PROVE  OnlyRow(x) /\ RowMove(x)
  BY <1>1, <1>7, ExpiredRow DEF RowMove
<1> QED BY <1>2, <1>3, <1>4, <1>5, <1>6, <1>7 DEF Writes

-----------------------------------------------------------------------------
(* Types, and the ends of the tasks *)

LEMMA InitTasks == TasksInit => TasksInv
<1> SUFFICES ASSUME TasksInit PROVE TasksInv
  OBVIOUS
<1>1. TypeOK
  BY InitType DEF TasksInit
<1>2. [status |-> "pending", attempt |-> 0, live |-> FALSE, cancel |-> FALSE, by |-> NoRun] \in TaskRow
  BY DEF TaskRow, MaxAttempts
<1>3. TasksTypeOK
  <2>1. 0 \in Generations
    BY ConstantsAssumption DEF Generations
  <2>2. task \in [Resources -> TaskRow] /\ payload \in [Resources -> Generations]
    BY <1>2, <2>1 DEF TasksInit
  <2>3. prog \in [Procs -> Process] /\ cancelled \in [Procs -> BOOLEAN]
    BY IdleThread DEF TasksInit
  <2> QED BY <2>2, <2>3 DEF TasksInit, TasksTypeOK
<1>4. \A p \in Procs : prog[p] = Idle
  BY DEF TasksInit
<1>5. ThreadInv /\ SeenIsTrue /\ \A p \in Procs : ~prog[p].fresh
  BY <1>4, IdleThread DEF ThreadInv, SeenIsTrue, Becomes
<1>6. RowsInv
  BY <1>5 DEF TasksInit, RowsInv
<1>7. RowNeverAhead
  BY DEF TasksInit, Init, RowNeverAhead
<1> QED BY <1>1, <1>3, <1>5, <1>6, <1>7 DEF TasksInv

LEMMA StepTasksType ==
  ASSUME TypeOK, TasksTypeOK, ThreadInv, [TasksNext]_taskVars
  PROVE  TasksTypeOK'
<1>1. prog' \in [Procs -> Process]
  BY StepThreads
<1>2. task' \in [Resources -> TaskRow]
  BY StepWrites, StepRows
<1>3. payload' \in [Resources -> Generations]
  <2>1. CASE UNCHANGED payload
    BY <2>1 DEF TasksTypeOK
  <2>2. ASSUME NEW p \in Procs, Attach(p) PROVE payload' \in [Resources -> Generations]
    <3> DEFINE x == First(Resources \ ResourcesOf(R))
    <3>1. lease[p][R] \in Generations
      BY TheRun DEF TypeOK
    <3>2. payload' = [payload EXCEPT ![x] = lease[p][R]]
      BY <2>2 DEF Attach
    <3> HIDE DEF x
    <3> QED BY <3>1, <3>2 DEF TasksTypeOK
  <2>3. ASSUME NEW p \in Procs, TaskStep(p), ~Attach(p) PROVE UNCHANGED payload
    BY <2>3
          DEF TaskStep, Start, Inspect, Ask, Look, RecordRow, EndReconcile, Attached, SyncRow,
              Synced, Advance, FinishCancelled, FinishNext, ReadTask, Claim, Reread, Commit,
              ReadCurrent, Refresh, Release, EnterCancel, EndCancel
  <2>4. ASSUME NEW p \in Procs, LoseOwnership(p) \/ SetToken(p) \/ Die(p) \/ \E x \in Resources : Renew(p, x)
        PROVE  UNCHANGED payload
    BY <2>4 DEF LoseOwnership, SetToken, Die, Renew
  <2>5. ASSUME LeaseExpires \/ UNCHANGED taskVars \/ \E x \in Resources : TaskExpires(x) PROVE UNCHANGED payload
    BY <2>5 DEF LeaseExpires, taskVars, TaskExpires
  <2> QED BY <2>1, <2>2, <2>3, <2>4, <2>5 DEF TasksNext
<1>4. cancelled' \in [Procs -> BOOLEAN]
  <2>1. CASE UNCHANGED cancelled
    BY <2>1 DEF TasksTypeOK
  <2>2. ASSUME NEW p \in Procs, Start(p) \/ SetToken(p) \/ Die(p) PROVE cancelled' \in [Procs -> BOOLEAN]
    BY <2>2 DEF Start, SetToken, Die, TasksTypeOK
  <2>3. ASSUME NEW p \in Procs, TaskStep(p), ~Start(p) PROVE UNCHANGED cancelled
    BY <2>3
          DEF TaskStep, Inspect, Ask, Look, RecordRow, EndReconcile, Attach, Attached, SyncRow,
              Synced, Advance, FinishCancelled, FinishNext, ReadTask, Claim, Reread, Commit,
              ReadCurrent, Refresh, Release, EnterCancel, EndCancel
  <2>4. ASSUME NEW p \in Procs, LoseOwnership(p) \/ \E x \in Resources : Renew(p, x) PROVE UNCHANGED cancelled
    BY <2>4 DEF LoseOwnership, Renew
  <2>5. ASSUME LeaseExpires \/ UNCHANGED taskVars \/ \E x \in Resources : TaskExpires(x) PROVE UNCHANGED cancelled
    BY <2>5 DEF LeaseExpires, taskVars, TaskExpires
  <2> QED BY <2>1, <2>2, <2>3, <2>4, <2>5 DEF TasksNext
<1>5. reached' \in {"none", "patch", "verify"} \cup Ends
  <2>1. CASE UNCHANGED reached
    BY <2>1 DEF TasksTypeOK
  <2>2. ASSUME NEW p \in Procs, Advance(p) PROVE reached' \in {"none", "patch", "verify"} \cup Ends
    <3>1. PICK ph \in NextPhases(p) : reached' = IF Owns(p, R) THEN ph ELSE reached
      BY <2>2, AdvanceThread
    <3>2. ph \in {"patch", "verify"} \cup Ends
      BY <2>2, PhasesAhead DEF Advance, ThreadInv
    <3> QED BY <3>1, <3>2 DEF TasksTypeOK
  <2>3. ASSUME NEW p \in Procs, TaskStep(p), ~Advance(p) PROVE UNCHANGED reached
    BY <2>3
          DEF TaskStep, Start, Inspect, Ask, Look, RecordRow, EndReconcile, Attach, Attached,
              SyncRow, Synced, FinishCancelled, FinishNext, ReadTask, Claim, Reread, Commit,
              ReadCurrent, Refresh, Release, EnterCancel, EndCancel
  <2>4. ASSUME NEW p \in Procs, LoseOwnership(p) \/ SetToken(p) \/ Die(p) \/ \E x \in Resources : Renew(p, x)
        PROVE  UNCHANGED reached
    BY <2>4 DEF LoseOwnership, SetToken, Die, Renew
  <2>5. ASSUME LeaseExpires \/ UNCHANGED taskVars \/ \E x \in Resources : TaskExpires(x) PROVE UNCHANGED reached
    BY <2>5 DEF LeaseExpires, taskVars, TaskExpires
  <2> QED BY <2>1, <2>2, <2>3, <2>4, <2>5 DEF TasksNext
<1> QED BY <1>1, <1>2, <1>3, <1>4, <1>5 DEF TasksTypeOK

\* Only a thread that has just read a running row holds it as fresh.
LEMMA StepFresh ==
  ASSUME TypeOK, TasksTypeOK, ThreadInv, [TasksNext]_taskVars, NEW q \in Procs, prog'[q].fresh
  PROVE  /\ prog'[q].item = prog[q].item /\ prog[q].item \in Resources
         /\ prog[q].fresh \/ (task[prog[q].item].status = "running" /\ UNCHANGED task)
<1>1. CASE UNCHANGED prog \/ SameButFresh(prog'[q], prog[q])
  BY <1>1 DEF SameButFresh, ThreadInv, ThreadOK
<1>2. ASSUME NEW p \in Procs, Moves(p), q # p
      PROVE  SameButFresh(prog'[q], prog[q])
  BY <1>2 DEF Moves
<1>3. CASE Inspect(q) \/ Look(q) \/ Quiet(prog'[q])
  BY <1>3, InspectThread, LookThread DEF Becomes, Quiet
<1>4. CASE Reread(q)
  BY <1>4, RereadThread DEF Becomes, Reread, ThreadInv, ThreadOK
<1> QED BY <1>1, <1>2, <1>3, <1>4, StepProg

\* What a thread says of a row is what the row was, or what the adapter makes of the task.
LEMMA StepSeen ==
  ASSUME TypeOK, TasksTypeOK, ThreadInv, [TasksNext]_taskVars, NEW q \in Procs,
         prog'[q].item \in Resources, prog'[q].seen # "none"
  PROVE  \/ prog'[q].item = prog[q].item /\ prog'[q].seen = prog[q].seen
         \/ prog'[q].seen = res[prog'[q].item].status
         \/ prog'[q].seen = FromTask(prog'[q].item)
<1>1. CASE UNCHANGED prog \/ SameButFresh(prog'[q], prog[q])
  BY <1>1 DEF SameButFresh
<1>2. ASSUME NEW p \in Procs, Moves(p), q # p
      PROVE  SameButFresh(prog'[q], prog[q])
  BY <1>2 DEF Moves
<1>3. CASE Inspect(q)
  BY <1>3, InspectThread DEF Becomes
<1>4. CASE Look(q)
  BY <1>4, LookThread DEF Becomes
<1>5. CASE Reread(q) \/ Quiet(prog'[q])
  BY <1>5, RereadThread DEF Becomes, Quiet
<1> QED BY <1>1, <1>2, <1>3, <1>4, <1>5, StepProg

\* The status of a task that has ended is never another one, and a running task may be completed.
LEMMA EndedRow ==
  ASSUME TasksTypeOK, RowsInv, NEW x \in Resources, RowMove(x), task[x].status \in Ended
  PROVE  task'[x] = task[x]
<1>1. ~task[x].live
  BY DEF RowsInv, Ended
<1>2. \A p \in Procs : prog[p].item = x => ~prog[p].fresh
  BY DEF RowsInv, Ended
<1> QED BY <1>1, <1>2 DEF RowMove, RowAsked, RowClaimed, RowExpired, Claimable

LEMMA StepRowsInv ==
  ASSUME TypeOK, TasksTypeOK, ThreadInv, RowsInv, [TasksNext]_taskVars
  PROVE  RowsInv'
<1>1. \A x \in Resources : RowMove(x)
  BY StepWrites, StepRows
<1>2. ASSUME NEW x \in Resources PROVE task'[x].live => task'[x].status = "running"
  BY <1>1, <1>2 DEF RowMove, RowAsked, RowClaimed, RowCompleted, RowExpired, RowsInv
<1>3. ASSUME NEW q \in Procs, prog'[q].fresh PROVE task'[prog'[q].item].status = "running"
  <2> DEFINE x == prog[q].item
  <2>1. /\ prog'[q].item = x /\ x \in Resources
        /\ prog[q].fresh \/ (task[x].status = "running" /\ UNCHANGED task)
    BY <1>3, StepFresh
  <2>2. task[x].status = "running"
    BY <2>1 DEF RowsInv
  <2>3. ~Outdated(x)
    BY <1>3 DEF Outdated
  <2>4. task'[x] = task[x] \/ RowExpired(x)
    BY <1>1, <2>1, <2>3 DEF RowMove
  <2> HIDE DEF x
  <2>5. task'[x].status = "running"
    BY <2>2, <2>4 DEF RowExpired, RowCompleted
  <2> QED BY <2>1, <2>5
<1> QED BY <1>2, <1>3 DEF RowsInv

\* The row of the run is planned, what a thread has seen of the task, or what the task is.
ResMove(x) ==
    \/ res'[x] = res[x]
    \/ res'[x].status \in {"planned", RowStatus(x)}
    \/ \E p \in Procs : prog[p].item = x /\ res'[x].status = prog[p].seen

LEMMA StepRes ==
  ASSUME TypeOK, TasksTypeOK, ThreadInv, [TasksNext]_taskVars, NEW y \in Resources
  PROVE  ResMove(y)
<1>1. res \in [Resources -> ResourceRow]
  BY DEF TypeOK
<1>2. ASSUME UNCHANGED res PROVE ResMove(y)
  BY <1>2 DEF ResMove
<1>3. ASSUME NEW p \in Procs, NEW x \in Resources, NEW status, NEW cleanup, NEW adopt,
             TransitionResource(p, R, x, status, cleanup, adopt)
      PROVE  (y # x => res'[y] = res[y]) /\ (y = x => res'[y].status = status)
  BY <1>1, <1>3 DEF TransitionResource
<1>4. ASSUME NEW p \in Procs, RecordRow(p) PROVE ResMove(y)
  <2>1. prog[p].item \in Resources
    BY <1>4 DEF RecordRow, TasksTypeOK, Process
  <2> QED BY <1>3, <1>4, <2>1 DEF RecordRow, ResMove
<1>5. ASSUME NEW p \in Procs, SyncRow(p) PROVE ResMove(y)
  <2> DEFINE x == First(OutOfStep)
  <2>1. x \in Resources
    BY <1>5, FirstIsLeft DEF SyncRow, OutOfStep
  <2>2. TransitionResource(p, R, x, RowStatus(x), RowCleanup(x), FALSE) \/ UNCHANGED res
    BY <1>5 DEF SyncRow, registry
  <2> HIDE DEF x
  <2> QED BY <1>2, <1>3, <2>1, <2>2 DEF ResMove
<1>6. ASSUME NEW p \in Procs, Attach(p) PROVE ResMove(y)
  <2> DEFINE x == First(Resources \ ResourcesOf(R))
  <2>1. RegisterResource(p, R, x, NoParent, TRUE)
    BY <1>6 DEF Attach
  <2> HIDE DEF x
  <2> QED BY <1>1, <2>1 DEF RegisterResource, ResMove
<1>7. ASSUME NEW p \in Procs, TaskStep(p), ~RecordRow(p), ~SyncRow(p), ~Attach(p) PROVE UNCHANGED res
  <2>1. CASE Start(p) \/ EndReconcile(p) \/ Release(p) \/ EnterCancel(p) \/ EndCancel(p)
    BY <2>1 DEF Start, EndReconcile, Release, EnterCancel, EndCancel, Acquire, MarkRecoveryRequired, RequestCancel,
                Activate, Finish, BeginCancelling
  <2>2. CASE UNCHANGED registry
    BY <2>2 DEF registry
  <2> QED BY <1>7, <2>1, <2>2
          DEF TaskStep, Inspect, Ask, Look, Attached, Synced, Advance, FinishCancelled, FinishNext,
              ReadTask, Claim, Reread, Commit, ReadCurrent, Refresh
<1>8. ASSUME NEW p \in Procs, LoseOwnership(p) \/ SetToken(p) \/ Die(p) \/ \E x \in Resources : Renew(p, x)
      PROVE  UNCHANGED res
  BY <1>8 DEF LoseOwnership, SetToken, Die, Renew, registry, Crash
<1>9. ASSUME LeaseExpires \/ UNCHANGED taskVars \/ \E x \in Resources : TaskExpires(x) PROVE UNCHANGED res
  BY <1>9 DEF LeaseExpires, taskVars, TaskExpires, registry, Expire
<1> QED BY <1>2, <1>4, <1>5, <1>6, <1>7, <1>8, <1>9 DEF TasksNext

LEMMA StepTasksInv == TasksInv /\ [TasksNext]_taskVars => TasksInv'
<1> SUFFICES ASSUME TasksInv, [TasksNext]_taskVars PROVE TasksInv'
  OBVIOUS
<1>1. TypeOK /\ TasksTypeOK /\ ThreadInv /\ RowsInv /\ SeenIsTrue /\ RowNeverAhead
  BY DEF TasksInv
<1>2. TypeOK'
  BY <1>1, StepRegistry, StepType
<1>3. TasksTypeOK' /\ ThreadInv' /\ RowsInv'
  BY <1>1, StepTasksType, StepThreads, StepRowsInv
<1>4. \A x \in Resources : task[x].status \in Ended => task'[x] = task[x]
  BY <1>1, StepWrites, StepRows, EndedRow
<1>5. SeenIsTrue'
  <2> SUFFICES ASSUME NEW q \in Procs, prog'[q].item \in Resources, prog'[q].seen \in {"completed", "cancelled"}
               PROVE  task'[prog'[q].item].status = prog'[q].seen
    BY DEF SeenIsTrue
  <2> DEFINE x == prog'[q].item
  <2>1. task[x].status = prog'[q].seen
    <3>1. CASE x = prog[q].item /\ prog'[q].seen = prog[q].seen
      BY <1>1, <3>1 DEF SeenIsTrue
    <3>2. CASE prog'[q].seen = res[x].status
      BY <1>1, <3>2 DEF RowNeverAhead
    <3>3. CASE prog'[q].seen = FromTask(x)
      BY <3>3 DEF FromTask, Ended
    <3> QED BY <1>1, <3>1, <3>2, <3>3, StepSeen
  <2> QED BY <1>4, <2>1 DEF Ended
<1>6. RowNeverAhead'
  <2> SUFFICES ASSUME NEW x \in Resources, res'[x].status \in {"completed", "cancelled"}
               PROVE  task'[x].status = res'[x].status
    BY DEF RowNeverAhead
  <2>1. task[x].status = res'[x].status
    <3>1. CASE res'[x] = res[x]
      BY <1>1, <3>1 DEF RowNeverAhead
    <3>2. CASE res'[x].status \in {"planned", RowStatus(x)}
      BY <3>2 DEF RowStatus
    <3>3. ASSUME NEW p \in Procs, prog[p].item = x, res'[x].status = prog[p].seen
          PROVE  task[x].status = res'[x].status
      BY <1>1, <3>3 DEF SeenIsTrue
    <3> QED BY <1>1, <3>1, <3>2, <3>3, StepRes DEF ResMove
  <2> QED BY <1>4, <2>1 DEF Ended
<1> QED BY <1>1, <1>2, <1>3, <1>5, <1>6 DEF TasksInv

THEOREM TasksInvariant == TasksSpec => []TasksInv
  BY InitTasks, StepTasksInv, PTL DEF TasksSpec

\* Every row and every thread keeps its shape, whatever the processes do.
THEOREM TasksTypeCorrect == TasksSpec => []TasksTypeOK
<1>1. TasksInv => TasksTypeOK
  BY DEF TasksInv
<1> QED BY <1>1, TasksInvariant, PTL

\* The repair runtime uses the registry only through its methods: every behaviour of the tasks
\* is one of the registry, so what is proved of the registry holds of them.
THEOREM TasksUseRegistry == TasksSpec => Spec
<1>1. TasksInit => Init
  BY DEF TasksInit
<1>2. TasksInv /\ [TasksNext]_taskVars => [Next]_vars
  BY StepRegistry DEF TasksInv
<1> QED BY <1>1, <1>2, TasksInvariant, PTL DEF TasksSpec, Spec

\* A run's row that says completed or cancelled is that of a task which is so: _sync_resources,
\* reconcile and the adapter's cancel race with complete_task and cannot get ahead of it.
THEOREM RowsAreNeverAhead == TasksSpec => []RowNeverAhead
<1>1. TasksInv => RowNeverAhead
  BY DEF TasksInv
<1> QED BY <1>1, TasksInvariant, PTL

\* request_cancel_task is never undone: no claim follows it and no completion drops it.
THEOREM CancelRequestsStick == TasksSpec => CancelSticks
<1>1. TasksInv /\ [TasksNext]_taskVars
        => [\A x \in Resources : task[x].cancel => task'[x].cancel /\ task'[x].attempt = task[x].attempt]_taskVars
  <2> SUFFICES ASSUME TasksInv, [TasksNext]_taskVars, NEW x \in Resources, task[x].cancel
               PROVE  task'[x].cancel /\ task'[x].attempt = task[x].attempt
    OBVIOUS
  <2>1. RowMove(x)
    BY StepWrites, StepRows DEF TasksInv
  <2> QED BY <2>1 DEF RowMove, RowAsked, RowClaimed, RowCompleted, RowExpired, Claimable
<1> QED BY <1>1, TasksInvariant, PTL DEF TasksSpec, CancelSticks

\* A task that has ended is never written again: complete_task writes only the version it read.
THEOREM EndsAreFinal == TasksSpec => EndedStays
<1>1. TasksInv /\ [TasksNext]_taskVars
        => [\A x \in Resources : task[x].status \in Ended => task'[x] = task[x]]_taskVars
  BY StepWrites, StepRows, EndedRow DEF TasksInv
<1> QED BY <1>1, TasksInvariant, PTL DEF TasksSpec, EndedStays

-----------------------------------------------------------------------------
(* The order of the tasks in a run that is not taken over *)

LEMMA StepGuard ==
  ASSUME NEW p \in Procs, TaskStep(p), ~Start(p)
  PROVE  Running(p)
<1>1. CASE Inspect(p) \/ Ask(p) \/ Look(p) \/ RecordRow(p) \/ EndReconcile(p) \/ Attach(p) \/ Attached(p)
  BY <1>1 DEF Inspect, Ask, Look, RecordRow, EndReconcile, Visited, Attach, Attached, Running
<1>2. CASE SyncRow(p) \/ Synced(p) \/ Advance(p) \/ FinishCancelled(p) \/ FinishNext(p)
  BY <1>2 DEF SyncRow, Synced, Advance, FinishCancelled, FinishNext, Running
<1>3. CASE ReadTask(p) \/ Claim(p) \/ Reread(p) \/ Commit(p) \/ ReadCurrent(p) \/ Refresh(p)
  BY <1>3 DEF ReadTask, Claim, Reread, Commit, ReadCurrent, Refresh, Running
<1>4. CASE Release(p) \/ EnterCancel(p) \/ EndCancel(p)
  BY <1>4 DEF Release, EnterCancel, EndCancel, Visited, Running
<1> QED BY <1>1, <1>2, <1>3, <1>4 DEF TaskStep

\* What a thread does to the run it owns: it loses it only when it closes, and may dispatch anew
\* only once it has reconciled.
KeepsRun(p) ==
    /\ UNCHANGED lease
    /\ run'[R].generation = run[R].generation
    /\ Close(p) \/ run'[R].token = run[R].token
    /\ CanDispatch(p, R)' => CanDispatch(p, R) \/ EndReconcile(p)

LEMMA StepRun ==
  ASSUME TypeOK, NEW p \in Procs, TaskStep(p), ~Start(p)
  PROVE  KeepsRun(p)
<1> run \in [Runs -> RunRow] /\ R \in Runs
  BY TheRun DEF TypeOK
<1>1. CASE UNCHANGED <<run, lease>>
  BY <1>1 DEF KeepsRun, CanDispatch, Owns
<1>2. ASSUME NEW status, FenceOff(R, status), UNCHANGED lease, Close(p)
      PROVE  KeepsRun(p)
  <2>1. run'[R].generation = run[R].generation /\ run'[R].token = 0
    BY <1>2 DEF FenceOff
  <2>2. ~CanDispatch(p, R)'
    BY <1>2, <2>1 DEF CanDispatch, Owns
  <2> QED BY <1>2, <2>1, <2>2 DEF KeepsRun
<1>3. ASSUME NEW status, NEW cancel, status # "active", UNCHANGED lease,
             run' = [run EXCEPT ![R].status = status, ![R].cancel = cancel] \/ run' = [run EXCEPT ![R].status = status]
      PROVE  KeepsRun(p)
  <2>1. run'[R].generation = run[R].generation /\ run'[R].token = run[R].token /\ run'[R].status = status
    BY <1>3 DEF RunRow
  <2> QED BY <1>3, <2>1 DEF KeepsRun, CanDispatch
<1>4. CASE EndReconcile(p)
  <2>1. CASE MarkRecoveryRequired(p, R) /\ Close(p)
    BY <2>1, <1>2 DEF MarkRecoveryRequired
  <2>2. CASE RequestCancel(p, R)
    BY <2>2, <1>3 DEF RequestCancel
  <2>3. CASE Activate(p, R)
    <3>1. run'[R].generation = run[R].generation /\ run'[R].token = run[R].token /\ UNCHANGED lease
      BY <2>3 DEF Activate, RunRow
    <3> QED BY <3>1, <1>4 DEF KeepsRun
  <2> QED BY <1>4, <2>1, <2>2, <2>3 DEF EndReconcile
<1>5. CASE Release(p)
  BY <1>5, <1>2 DEF Release, Finish
<1>6. CASE EnterCancel(p)
  BY <1>6, <1>3 DEF EnterCancel, BeginCancelling, RequestCancel
<1>7. CASE EndCancel(p)
  BY <1>7, <1>2 DEF EndCancel, Finish, MarkRecoveryRequired
<1>8. CASE RecordRow(p) \/ Attach(p) \/ SyncRow(p)
  BY <1>8, <1>1 DEF RecordRow, Attach, SyncRow, TransitionResource, RegisterResource, registry
<1>9. CASE UNCHANGED registry
  BY <1>9, <1>1 DEF registry
<1> QED BY <1>4, <1>5, <1>6, <1>7, <1>8, <1>9
        DEF TaskStep, Inspect, Ask, Look, Attached, Synced, Advance, FinishCancelled, FinishNext,
            ReadTask, Claim, Reread, Commit, ReadCurrent, Refresh

\* In its first generation a run has one running thread at most.
LEMMA OneRuns ==
  ASSUME TypeOK, UniqueOwner, RunningOwns, FirstOwner, NEW p \in Procs, NEW q \in Procs, Running(p), Running(q)
  PROVE  p = q
  BY TheRun DEF UniqueOwner, RunningOwns, Owns

LEMMA WorkingRuns ==
  ASSUME NEW p \in Procs, Working(p)
  PROVE  Running(p)
  BY DEF Working, Running

LEMMA InitOrder == TasksInit => OrderInv
<1> SUFFICES ASSUME TasksInit PROVE OrderInv
  OBVIOUS
<1>1. \A p \in Procs : prog[p].pc = "none"
  BY IdleThread DEF TasksInit, Becomes
<1>2. \A x \in Resources : task[x].status = "pending" /\ ~task[x].cancel
  BY DEF TasksInit
<1>3. Untouched /\ RunningOwns /\ LeasesHold
  BY <1>1, <1>2 DEF Untouched, RunningOwns, LeasesHold, Running, TasksInit
<1>4. FirstOwner => \A p \in Procs : Working(p) => InOrder(p)
  BY <1>1 DEF Working
<1>5. CompletedInOrder
  BY <1>2, TheRun DEF CompletedInOrder
<1> QED BY <1>3, <1>4, <1>5 DEF OrderInv

\* Done is for good.
LEMMA DoneStays ==
  ASSUME TasksInv, [TasksNext]_taskVars, NEW x \in Resources, Done(x)
  PROVE  Done(x)'
<1>1. task'[x] = task[x]
  BY StepWrites, StepRows, EndedRow DEF TasksInv, Done, Ended
<1> QED BY <1>1 DEF Done

LEMMA StepInOrder ==
  ASSUME TasksInv, FirstOwner, LeasesHold, NEW p \in Procs, TaskStep(p), ~Start(p), Working(p) => InOrder(p), Working(p)'
  PROVE  InOrder(p)'
<1> USE DEF Working, InOrder
<1>1. TypeOK /\ TasksTypeOK /\ ThreadInv /\ ThreadOK(prog[p]) /\ prog \in [Procs -> Process] /\ task \in [Resources -> TaskRow]
  BY DEF TasksInv, ThreadInv, TasksTypeOK
<1>2. KeepsRun(p) /\ Running(p)
  BY <1>1, StepRun, StepGuard
<1>3. [TasksNext]_taskVars
  BY DEF TasksNext
<1>4. Resources = {"context", "patch", "verify"}
  BY TheRun
<1>5. \A x \in Resources : Done(x) => Done(x)'
  BY <1>3, DoneStays
<1>6. ~EndReconcile(p) /\ CanDispatch(p, R)' => CanDispatch(p, R)
  BY <1>2 DEF KeepsRun
<1>7. UNCHANGED task => (NothingGivenUp(p) /\ (prog'[p].phase = prog[p].phase \/ prog[p].phase \notin Ends) => NothingGivenUp(p)')
  BY DEF NothingGivenUp
\* Steps before the first advance.
<1>8. CASE Inspect(p) \/ RecordRow(p) \/ EndReconcile(p) \/ Attach(p) \/ Attached(p)
  <2>1. UNCHANGED task
    BY <1>8 DEF Inspect, RecordRow, EndReconcile, Attach, Attached
  <2>2. /\ prog'[p].phase = prog[p].phase
        /\ prog'[p].pc \in {"reconcile", "attach"} \/ (prog'[p].pc = "sync" /\ prog'[p].next = "open")
        /\ prog[p].pc \in {"reconcile", "attach"}
    <3>1. CASE Inspect(p) \/ RecordRow(p) \/ Attached(p)
      BY <1>1, <3>1, InspectThread, RecordThread, AttachedThread DEF Becomes, RecordRow, Attached, Inspect
    <3>2. CASE Attach(p)
      BY <3>2 DEF Attach
    <3>3. CASE EndReconcile(p)
      BY <1>1, <3>3, EndReconcileThread, CloseThread DEF Becomes, EndReconcile, Visited
    <3> QED BY <1>8, <3>1, <3>2, <3>3
  <2>3. Working(p)
    BY <2>2
  <2>4. prog'[p].phase = "none"
    BY <2>2, <2>3 DEF StartsFresh
  <2>5. NothingGivenUp(p)'
    BY <1>7, <2>1, <2>2, <2>3
  <2>6. StartsFresh(p)' /\ EarlierDone(p)'
    BY <2>4 DEF StartsFresh, EarlierDone
  <2>7. Advancing(p)'
    BY <2>2 DEF Advancing
  <2> QED BY <2>5, <2>6, <2>7
\* Steps that leave the advance, or stay between two.
<1>9. ASSUME UNCHANGED task, Working(p), ~EndReconcile(p), prog'[p].phase = prog[p].phase,
             prog[p].pc \in {"sync", "refresh", "claim current", "current", "open", "phase"},
             prog'[p].pc \in {"sync", "refresh", "claim current", "open", "phase"},
             prog'[p].pc \in {"refresh", "claim current"} => prog'[p].next = "phase",
             prog'[p].pc = "open" \/ (prog'[p].pc = "sync" /\ prog'[p].next = "open") =>
                prog[p].pc = "sync" /\ prog[p].next = "open",
             prog[p].pc = "open" => prog'[p].pc = "open"
      PROVE  InOrder(p)'
  <2>1. NothingGivenUp(p)'
    BY <1>7, <1>9
  <2>2. StartsFresh(p)'
    BY <1>9 DEF StartsFresh
  <2>3. EarlierDone(p)'
    BY <1>4, <1>5, <1>6, <1>9 DEF EarlierDone
  <2>4. Advancing(p)'
    BY <1>9 DEF Advancing
  <2> QED BY <2>1, <2>2, <2>3, <2>4
<1>10. CASE SyncRow(p) \/ Synced(p)
  <2>1. UNCHANGED task /\ prog[p].pc = "sync"
    BY <1>10 DEF SyncRow, Synced
  <2>2. CASE UNCHANGED prog
    BY <2>1, <2>2, <1>9, <1>1, <1>10 DEF EndReconcile, Visited
  <2>3. CASE Swallow(p)
    <3>1. prog'[p].pc = prog[p].next /\ prog'[p].phase = prog[p].phase /\ prog[p].next \in {"open", "phase", "closing"}
      BY <1>1, <2>1, <2>3, SwallowThread DEF Becomes, Process
    <3> QED BY <2>1, <3>1, <1>9 DEF EndReconcile, Visited
  <2> QED BY <1>10, <2>2, <2>3 DEF SyncRow, Synced
<1>11. CASE Refresh(p)
  <2>1. UNCHANGED task /\ prog[p].pc = "refresh"
    BY <1>11 DEF Refresh
  <2>2. prog'[p].phase = prog[p].phase /\ (prog'[p].pc = prog[p].next \/ (prog'[p].pc = "sync" /\ prog'[p].next = prog[p].next))
    BY <1>1, <1>11, RefreshThread DEF Becomes
  <2>3. Working(p) /\ prog[p].next = "phase"
    BY <2>1, <2>2 DEF Advancing
  <2> QED BY <2>1, <2>2, <2>3, <1>9 DEF EndReconcile, Visited
<1>12. CASE ReadCurrent(p)
  <2>1. UNCHANGED task /\ prog[p].pc = "current"
    BY <1>12 DEF ReadCurrent
  <2>2. prog'[p].phase = prog[p].phase /\ prog'[p].pc \in {"claim current", "refresh"} /\ prog'[p].next = prog[p].next
    BY <1>1, <1>12, ReadCurrentThread DEF Becomes
  <2>3. Working(p) /\ prog[p].next = "phase"
    BY <2>1, <2>2 DEF Advancing
  <2> QED BY <2>1, <2>2, <2>3, <1>9 DEF EndReconcile, Visited
\* The thread is told to cancel, or closes.
<1>13. CASE Ask(p) \/ Look(p) \/ FinishCancelled(p) \/ FinishNext(p) \/ Release(p) \/ EnterCancel(p) \/ EndCancel(p)
  <2>1. CASE Ask(p) \/ Look(p) \/ FinishCancelled(p)
    BY <1>1, <2>1, AskThread, LookThread, FinishCancelledThread DEF Becomes
  <2>2. CASE FinishNext(p)
    BY <1>1, <2>2, FinishNextThread DEF Becomes, FinishNext, ThreadOK
  <2>3. CASE Release(p) \/ EndCancel(p)
    BY <1>1, <2>3, CloseThread DEF Becomes, Release, EndCancel
  <2>4. CASE EnterCancel(p)
    BY <1>1, <2>4, EnterCancelThread DEF Becomes, EnterCancel
  <2> QED BY <1>13, <2>1, <2>2, <2>3, <2>4
\* The advance, which completes the task of the phase before.
<1>14. CASE Advance(p)
  <2>1. prog[p].pc \in {"open", "phase"} /\ UNCHANGED <<task, registry>>
    BY <1>14 DEF Advance
  <2>2. PICK ph \in NextPhases(p), fixed \in BOOLEAN :
          Becomes(prog'[p], IF CanDispatch(p, R) THEN "read" ELSE "phase", ph, Before(ph),
                  Goal(p, ph, fixed), "phase", FALSE, "none")
    BY <1>1, <1>14, AdvanceThread
  <2>3. /\ prog[p].phase \in {"none", "patch", "verify"} /\ ph \in {"patch", "verify"} \cup Ends
        /\ ph = "patch" => Before(ph) = "context"
        /\ ph = "verify" => Before(ph) = "patch" /\ prog[p].phase = "patch"
        /\ ph \in Ends => Before(ph) = "verify"
        /\ Goal(p, ph, fixed) \in {"completed", "failed"}
        /\ ph \notin Ends => Goal(p, ph, fixed) = "completed"
        /\ ph \in Ends /\ Goal(p, ph, fixed) = "completed" => prog[p].phase = "verify"
    BY <1>1, <2>1, PhasesAhead
  <2>4. Working(p) /\ StartsFresh(p) /\ EarlierDone(p) /\ NothingGivenUp(p)
    BY <2>1, <2>3
  <2>5. NothingGivenUp(p)'
    BY <1>7, <2>1, <2>3, <2>4 DEF Ends
  <2> DEFINE goal == Goal(p, ph, fixed)
             item == Before(ph)
  <2>6. StartsFresh(p)'
    BY <2>2 DEF StartsFresh, Becomes
  <2>7. EarlierDone(p)'
    BY <1>6, <1>14, <2>1, <2>2 DEF EarlierDone, Becomes, EndReconcile, Visited
  <2>8. CASE CanDispatch(p, R)
    <3>1. /\ prog[p].phase = "patch" => Done("context")
          /\ prog[p].phase = "verify" => Done("context") /\ Done("patch")
      BY <2>1, <2>4, <2>8 DEF StartsFresh, EarlierDone
    <3>2. prog'[p].pc = "read" /\ prog'[p].item = item /\ prog'[p].phase = ph /\ prog'[p].goal = goal /\ prog'[p].next = "phase"
      BY <2>2, <2>8 DEF Becomes
    <3>3. /\ item = "context" => ph = "patch"
          /\ item = "patch" => ph = "verify" /\ prog[p].phase = "patch"
          /\ item = "verify" => ph \in Ends
          /\ goal \in {"completed", "failed"}
          /\ goal # "completed" => item = "verify"
          /\ item = "verify" /\ goal = "completed" => prog[p].phase = "verify"
      BY <2>3 DEF Ends
    <3>4. Done("context")' = Done("context") /\ Done("patch")' = Done("patch")
      BY <2>1 DEF Done
    <3> HIDE DEF goal, item
    <3>5. Advancing(p)'
      BY <3>1, <3>2, <3>3, <3>4 DEF Advancing
    <3> QED BY <2>5, <2>6, <2>7, <3>5
  <2>9. CASE ~CanDispatch(p, R)
    <3>1. prog'[p].pc = "phase"
      BY <2>2, <2>9 DEF Becomes
    <3>2. Advancing(p)'
      BY <3>1 DEF Advancing
    <3> QED BY <2>5, <2>6, <2>7, <3>2
  <2> QED BY <2>8, <2>9
<1>15. CASE ReadTask(p)
  <2> DEFINE x == prog[p].item
             status == task[x].status
  <2>1. prog[p].pc = "read" /\ UNCHANGED task /\ x \in Resources
    BY <1>1, <1>15 DEF ReadTask, ThreadOK
  <2>2. status \in {"pending", "running", "completed", "failed", "cancelled"} /\ prog[p].phase # "none"
    BY <1>1, <2>1 DEF TaskRow, ThreadOK
  <2>3. IF status \in Ended
        THEN Becomes(prog'[p], AfterPc(prog[p]), prog[p].phase, NoParent, "completed", prog[p].next, FALSE, "none")
        ELSE Becomes(prog'[p], IF status = "pending" THEN "claim" ELSE "reread",
                     prog[p].phase, x, prog[p].goal, prog[p].next, FALSE, "none")
    BY <1>1, <1>15, ReadTaskThread
  <2>4. Working(p) /\ NothingGivenUp(p) /\ Advancing(p) /\ prog'[p].phase = prog[p].phase
    BY <2>1, <2>3 DEF Becomes
  <2>5. NothingGivenUp(p)'
    BY <1>7, <2>1, <2>4
  <2>6. /\ prog[p].next = "phase"
        /\ x = "context" => prog[p].phase = "patch"
        /\ x = "patch" => prog[p].phase = "verify" /\ Done("context")
        /\ x = "verify" => prog[p].phase \in Ends
        /\ prog[p].goal # "completed" => x = "verify"
        /\ prog[p].goal # "cancelled"
        /\ x = "verify" /\ prog[p].goal = "completed" => Done("context") /\ Done("patch")
    BY <2>1, <2>4 DEF Advancing
  <2>7. \A y \in Resources : Done(y)' = Done(y)
    BY <2>1 DEF Done
  <2>8. CASE status \in Ended
    <3>1. x # "verify" => Done(x)
      BY <2>1, <2>4, <2>8 DEF NothingGivenUp, Done, Ended
    <3>2. prog'[p].next = "phase" /\ prog'[p].pc = AfterPc(prog[p])
      BY <2>3, <2>6, <2>8 DEF Becomes
    <3>3. prog'[p].pc \in {"sync", "current"}
      BY <3>2, <2>4 DEF AfterPc
    <3>4. StartsFresh(p)' /\ Advancing(p)'
      BY <3>2, <3>3 DEF StartsFresh, Advancing
    <3>5. EarlierDone(p)'
      BY <1>4, <2>1, <2>4, <2>6, <2>7, <3>1 DEF EarlierDone, Ends
    <3> QED BY <2>5, <3>4, <3>5
  <2>9. CASE status \notin Ended
    <3>1. /\ prog'[p].item = x /\ prog'[p].goal = prog[p].goal /\ prog'[p].next = "phase"
          /\ (prog'[p].pc = "claim" /\ status = "pending") \/ (prog'[p].pc = "reread" /\ status = "running")
      BY <2>2, <2>3, <2>6, <2>9 DEF Becomes, Ended
    <3>2. task'[prog'[p].item].status = status
      BY <2>1, <3>1
    <3>3. StartsFresh(p)' /\ EarlierDone(p)'
      BY <3>1 DEF StartsFresh, EarlierDone
    <3> HIDE DEF x, status
    <3>4. Advancing(p)'
      BY <1>4, <2>4, <2>6, <2>7, <3>1, <3>2 DEF Advancing
    <3> QED BY <2>5, <3>3, <3>4
  <2> QED BY <2>8, <2>9
<1>16. CASE Claim(p)
  <2> DEFINE x == prog[p].item
  <2>1. prog[p].pc \in {"claim", "claim current"} /\ x \in Resources
    BY <1>1, <1>16, ClaimThread DEF Claim
  <2>2. IF Claimable(x)
        THEN /\ task' = Claimed(x, p)
             /\ Becomes(prog'[p], IF prog[p].pc = "claim" THEN "reread" ELSE "refresh",
                        prog[p].phase, x, prog[p].goal, prog[p].next, FALSE, "none")
        ELSE /\ UNCHANGED task
             /\ Becomes(prog'[p], prog[p].next, prog[p].phase, NoParent, "completed", "phase", FALSE, "none")
    BY <1>1, <1>16, ClaimThread
  <2>3. Working(p) /\ NothingGivenUp(p) /\ EarlierDone(p) /\ Advancing(p) /\ prog'[p].phase = prog[p].phase
        /\ prog[p].next = "phase"
    BY <2>1, <2>2 DEF Becomes, Advancing
  <2>4. CASE ~Claimable(x)
    <3>1. prog[p].pc = "claim current"
      <4>1. task[x].status \in Ended
        BY <2>1, <2>3, <2>4 DEF Claimable, NothingGivenUp
      <4> QED BY <4>1, <2>1, <2>3 DEF Advancing, Ended
    <3>2. UNCHANGED task /\ prog'[p].pc = "phase"
      BY <2>2, <2>3, <2>4 DEF Becomes
    <3> QED BY <1>9, <2>3, <3>1, <3>2 DEF EndReconcile, Visited
  <2>5. CASE Claimable(x)
    <3>1. OnlyRow(x) /\ RowClaimed(x)
      BY <1>1, <2>1, <2>2, <2>5, ClaimedRow
    <3>2. prog'[p].item = x /\ prog'[p].goal = prog[p].goal /\ prog'[p].next = "phase"
          /\ prog'[p].pc = IF prog[p].pc = "claim" THEN "reread" ELSE "refresh"
      BY <2>2, <2>3, <2>5 DEF Becomes
    <3>3. NothingGivenUp(p)'
      BY <2>1, <2>3, <3>1 DEF NothingGivenUp, OnlyRow, RowClaimed
    <3>4. StartsFresh(p)'
      BY <3>2 DEF StartsFresh
    <3>5. EarlierDone(p)'
      BY <1>4, <1>5, <1>6, <1>16, <2>1, <2>3, <3>2 DEF EarlierDone, EndReconcile, Visited
    <3>6. task'[prog'[p].item].status = "running"
      BY <3>1, <3>2 DEF RowClaimed
    <3> HIDE DEF x
    <3>7. Advancing(p)'
      BY <1>4, <1>5, <2>1, <2>3, <3>2, <3>6 DEF Advancing, x
    <3> QED BY <3>3, <3>4, <3>5, <3>7
  <2> QED BY <2>4, <2>5
<1>17. CASE Reread(p)
  <2> DEFINE x == prog[p].item
  <2>1. prog[p].pc = "reread" /\ UNCHANGED task /\ x \in Resources
    BY <1>1, <1>17 DEF Reread, ThreadOK
  <2>2. IF task[x].status = "running" /\ task[x].live
        THEN Becomes(prog'[p], "commit", prog[p].phase, x, prog[p].goal, prog[p].next, TRUE, "none")
        ELSE Becomes(prog'[p], prog[p].next, prog[p].phase, NoParent, "completed", "phase", FALSE, "none")
    BY <1>1, <1>17, RereadThread
  <2>3. Working(p) /\ NothingGivenUp(p) /\ Advancing(p) /\ prog'[p].phase = prog[p].phase
    BY <2>1, <2>2 DEF Becomes
  <2>4. task[x].status = "running" /\ task[x].live
    BY <1>2, <2>1, <2>3 DEF Advancing, LeasesHold
  <2>5. prog'[p].pc = "commit" /\ prog'[p].item = x /\ prog'[p].goal = prog[p].goal /\ prog'[p].next = prog[p].next /\ prog'[p].fresh
    BY <2>2, <2>4 DEF Becomes
  <2>6. NothingGivenUp(p)' /\ StartsFresh(p)' /\ EarlierDone(p)'
    BY <1>7, <2>1, <2>3, <2>5 DEF StartsFresh, EarlierDone
  <2>7. task'[prog'[p].item].status = "running"
    BY <2>1, <2>4, <2>5
  <2> HIDE DEF x
  <2>8. Advancing(p)'
    BY <1>4, <1>5, <2>1, <2>3, <2>5, <2>7 DEF Advancing, x
  <2> QED BY <2>6, <2>8
<1>18. CASE Commit(p)
  <2> DEFINE x == prog[p].item
  <2>1. prog[p].pc = "commit" /\ x \in Resources /\ prog[p].goal \in Ended
    BY <1>1, <1>18, CommitThread DEF Commit, Process
  <2>2. IF prog[p].fresh
        THEN /\ task' = Completed(x, prog[p].goal)
             /\ Becomes(prog'[p], AfterPc(prog[p]), prog[p].phase, NoParent, "completed", prog[p].next, FALSE, "none")
        ELSE Becomes(prog'[p], prog[p].next, prog[p].phase, NoParent, "completed", "phase", FALSE, "none")
    BY <1>1, <1>18, CommitThread
  <2>3. Working(p) /\ NothingGivenUp(p) /\ Advancing(p) /\ prog'[p].phase = prog[p].phase
    BY <2>1, <2>2 DEF Becomes
  <2>4. /\ prog[p].fresh /\ prog[p].next = "phase"
        /\ x = "context" => prog[p].phase = "patch"
        /\ x = "patch" => prog[p].phase = "verify" /\ Done("context")
        /\ x = "verify" => prog[p].phase \in Ends
        /\ prog[p].goal # "completed" => x = "verify"
        /\ prog[p].goal # "cancelled"
    BY <2>1, <2>3 DEF Advancing
  <2>5. OnlyRow(x) /\ RowCompleted(x, prog[p].goal)
    BY <1>1, <2>1, <2>2, <2>4, CompletedRow
  <2>6. prog'[p].pc = AfterPc(prog[p]) /\ prog'[p].next = "phase"
    BY <2>2, <2>4 DEF Becomes
  <2>7. prog'[p].pc \in {"sync", "current"}
    BY <2>3, <2>6 DEF AfterPc
  <2>8. NothingGivenUp(p)'
    BY <2>1, <2>3, <2>4, <2>5 DEF NothingGivenUp, OnlyRow, RowCompleted, Ended
  <2>9. StartsFresh(p)' /\ Advancing(p)'
    BY <2>6, <2>7 DEF StartsFresh, Advancing
  <2>10. /\ x = "context" => Done("context")'
         /\ x = "patch" => Done("patch")'
    <3> HIDE DEF x
    <3> QED BY <2>1, <2>4, <2>5 DEF RowCompleted, Done, Ended
  <2>11. EarlierDone(p)'
    <3> HIDE DEF x
    <3> QED BY <1>4, <1>5, <2>1, <2>3, <2>4, <2>10 DEF EarlierDone, Ends
  <2> QED BY <2>8, <2>9, <2>11
<1> QED BY <1>8, <1>10, <1>11, <1>12, <1>13, <1>14, <1>15, <1>16, <1>17, <1>18 DEF TaskStep


\* The last task is completed by the thread that found the others so.
LEMMA StepCompleted ==
  ASSUME TasksInv, OrderInv, [TasksNext]_taskVars, FirstOwner
  PROVE  CompletedInOrder'
<1>1. Resources = {"context", "patch", "verify"}
  BY TheRun
<1>2. \A x \in Resources : Done(x) => Done(x)'
  BY DoneStays
<1>3. ASSUME task["verify"].status # "completed", task'["verify"].status = "completed"
      PROVE  Done("context") /\ Done("patch")
  <2>1. RowMove("verify")
    BY <1>1, StepWrites, StepRows DEF TasksInv
  <2>2. PICK q \in Procs : prog[q].fresh /\ prog[q].item = "verify" /\ prog[q].goal = "completed"
    BY <1>3, <2>1 DEF RowMove, RowAsked, RowClaimed, RowExpired, RowCompleted
  <2>3. prog[q].pc = "commit" /\ prog[q].phase # "cancelled"
    BY <2>2 DEF TasksInv, ThreadInv, ThreadOK
  <2>4. InOrder(q)
    BY <2>3 DEF OrderInv, Working
  <2> QED BY <2>2, <2>3, <2>4 DEF InOrder, Advancing
<1>4. CASE task["verify"].status = "completed"
  <2>1. Done("context") /\ Done("patch")
    BY <1>4 DEF OrderInv, CompletedInOrder, FirstOwner, Done
  <2> QED BY <1>1, <1>2, <2>1 DEF CompletedInOrder, Done
<1> QED BY <1>1, <1>2, <1>3, <1>4 DEF CompletedInOrder, Done

\* The first owner finds the run as it was created.
LEMMA StartOrder ==
  ASSUME TasksInv, OrderInv, NEW p \in Procs, Start(p)
  PROVE  OrderInv'
<1>1. TypeOK /\ TasksTypeOK /\ ThreadInv /\ [TasksNext]_taskVars
  BY DEF TasksInv, TasksNext, TaskStep
<1>2. run[R].generation \in Nat /\ R \in Runs /\ run \in [Runs -> RunRow] /\ lease \in [Procs -> [Runs -> Generations]]
  BY <1>1, TheRun, ConstantsAssumption DEF TypeOK, RunRow, Generations
<1>3. /\ run'[R].generation = run[R].generation + 1 /\ run'[R].token = run[R].generation + 1
      /\ lease'[p][R] = run[R].generation + 1
  BY <1>2 DEF Start, Acquire
<1>4. UNCHANGED <<task, reached>>
  BY DEF Start
<1>5. /\ Becomes(prog'[p], "reconcile", reached, NoParent, "completed", "phase", FALSE, "none")
      /\ \A q \in Procs \ {p} : SameButFresh(prog'[q], prog[q])
  BY <1>1, StartThread DEF Moves
<1>6. Untouched'
  BY <1>2, <1>3 DEF Untouched
<1>7. ASSUME FirstOwner'
      PROVE  /\ FirstOwner
             /\ \A q \in Procs : Running(q)' => q = p
             /\ \A x \in Resources : task[x].status = "pending" /\ ~task[x].cancel
             /\ reached = "none"
  <2>1. run[R].generation = 0
    BY <1>2, <1>3, <1>7 DEF FirstOwner
  <2>2. \A q \in Procs : ~Running(q)
    BY <2>1 DEF OrderInv, Untouched
  <2>3. \A q \in Procs : Running(q)' => q = p
    BY <1>5, <2>2 DEF Running, SameButFresh
  <2> QED BY <2>1, <2>3 DEF OrderInv, Untouched, FirstOwner
<1>8. RunningOwns'
  BY <1>2, <1>3, <1>7 DEF RunningOwns, Owns
<1>9. LeasesHold'
  BY <1>4, <1>7 DEF LeasesHold
<1>10. ASSUME FirstOwner', NEW q \in Procs, Working(q)' PROVE InOrder(q)'
  <2>1. q = p /\ reached = "none"
    BY <1>7, <1>10 DEF Working, Running
  <2>2. NothingGivenUp(q)'
    BY <1>4, <1>7, <1>10 DEF NothingGivenUp
  <2>3. prog'[q].phase = "none" /\ prog'[q].pc = "reconcile"
    BY <1>5, <2>1 DEF Becomes
  <2> QED BY <2>2, <2>3 DEF InOrder, StartsFresh, EarlierDone, Advancing
<1>11. CompletedInOrder'
  BY <1>4, <1>7, TheRun DEF CompletedInOrder, FirstOwner
<1> QED BY <1>6, <1>8, <1>9, <1>10, <1>11 DEF OrderInv

\* The step of a thread that runs.
LEMMA ThreadOrder ==
  ASSUME TasksInv, UniqueOwner, OrderInv, NEW p \in Procs, TaskStep(p), ~Start(p)
  PROVE  OrderInv'
<1>1. TypeOK /\ TasksTypeOK /\ ThreadInv /\ [TasksNext]_taskVars /\ RunningOwns
  BY DEF TasksInv, TasksNext, OrderInv
<1>2. Running(p) /\ KeepsRun(p) /\ Moves(p)
  BY <1>1, StepGuard, StepRun, StepMoves
<1>3. run'[R].generation = run[R].generation /\ run[R].generation # 0 /\ UNCHANGED lease
  BY <1>2 DEF KeepsRun, OrderInv, Untouched
<1>4. Untouched'
  BY <1>3 DEF Untouched
<1>5. FirstOwner' = FirstOwner
  BY <1>3 DEF FirstOwner
<1>6. ASSUME FirstOwner, NEW q \in Procs, Running(q)' PROVE q = p
  <2>1. CASE q # p
    <3>1. Running(q)
      BY <1>2, <1>6, <2>1 DEF Moves, SameButFresh, Running
    <3> QED BY <1>1, <1>2, <1>6, <3>1, OneRuns
  <2> QED BY <2>1
<1>7. RunningOwns'
  <2> SUFFICES ASSUME FirstOwner, Running(p)' PROVE Owns(p, R)'
    BY <1>5, <1>6 DEF RunningOwns
  <2>1. Owns(p, R)
    BY <1>1, <1>2 DEF RunningOwns
  <2>2. ~Close(p)
    BY <1>1, CloseThread DEF Becomes, Running
  <2> QED BY <1>2, <1>3, <2>1, <2>2 DEF KeepsRun, Owns
<1>8. LeasesHold'
  <2> SUFFICES ASSUME FirstOwner, NEW x \in Resources, task'[x].status = "running" PROVE task'[x].live
    BY <1>5 DEF LeasesHold
  <2>1. task[x].status = "running" => task[x].live
    BY <1>2 DEF OrderInv, LeasesHold
  <2>2. RowMove(x) /\ \A q \in Procs : prog[q].goal \in Ended
    BY <1>1, StepWrites, StepRows DEF TasksTypeOK, Process
  <2>3. UNCHANGED prog => UNCHANGED task
    <3>1. CASE Ask(p)
      <4>1. prog[p].item = NoParent /\ prog'[p].item \in Resources
        BY <1>1, <3>1, AskThread DEF Becomes, Ask
      <4> QED BY <4>1, TheRun
    <3>2. CASE Claim(p)
      <4>1. UNCHANGED task \/ prog'[p].pc \in {"reread", "refresh"}
        BY <1>1, <3>2, ClaimThread DEF Becomes
      <4> QED BY <3>2, <4>1 DEF Claim
    <3>3. CASE Commit(p)
      <4>1. UNCHANGED task \/ prog'[p].pc \in {"finishing", "sync", "current"}
        BY <1>1, <3>3, CommitThread DEF Becomes, AfterPc
      <4> QED BY <3>3, <4>1 DEF Commit
    <3>4. CASE UNCHANGED task
      BY <3>4
    <3> QED BY <3>1, <3>2, <3>3, <3>4
            DEF TaskStep, Start, Inspect, Look, RecordRow, EndReconcile, Attach, Attached, SyncRow, Synced,
                Advance, FinishCancelled, FinishNext, ReadTask, Reread, ReadCurrent, Refresh, Release,
                EnterCancel, EndCancel
  <2>4. ~(RowExpired(x) /\ UNCHANGED prog)
    BY <2>3 DEF RowExpired, RowCompleted
  <2> QED BY <2>1, <2>2, <2>4 DEF RowMove, RowAsked, RowClaimed, RowCompleted, Ended
<1>9. ASSUME FirstOwner, NEW q \in Procs, Working(q)' PROVE InOrder(q)'
  <2>1. q = p
    BY <1>6, <1>9 DEF Working, Running
  <2>2. Working(p) => InOrder(p)
    BY <1>9 DEF OrderInv
  <2>3. LeasesHold
    BY DEF OrderInv
  <2>4. InOrder(p)'
    BY <1>9, <2>1, <2>2, <2>3, StepInOrder
  <2> QED BY <2>1, <2>4
<1>10. CompletedInOrder'
  <2>1. FirstOwner => CompletedInOrder'
    BY <1>1, StepCompleted
  <2> QED BY <1>3, <2>1 DEF CompletedInOrder, FirstOwner
<1> QED BY <1>4, <1>5, <1>7, <1>8, <1>9, <1>10 DEF OrderInv

\* What the world does to a thread and to the rows.
WorldKeeps(q) ==
    /\ Running(q)' => SameButFresh(prog'[q], prog[q]) /\ UNCHANGED lease[q] /\ (prog[q].pc = "commit" => prog'[q].fresh = prog[q].fresh)
    /\ CanDispatch(q, R)' => CanDispatch(q, R)

WorldStep ==
    /\ UNCHANGED reached
    /\ run'[R].generation = run[R].generation /\ run'[R].token = run[R].token
    /\ \A q \in Procs : WorldKeeps(q)
    /\ UNCHANGED task \/ \E x \in Resources : TaskExpires(x)

LEMMA StepWorld ==
  ASSUME TasksInv, UniqueOwner, RunningOwns, FirstOwner, [TasksNext]_taskVars, ~\E p \in Procs : TaskStep(p)
  PROVE  WorldStep
<1>1. TypeOK /\ TasksTypeOK /\ ThreadInv /\ run \in [Runs -> RunRow] /\ R \in Runs /\ lease \in [Procs -> [Runs -> Generations]]
  BY TheRun DEF TasksInv, TypeOK
<1> USE DEF WorldStep, WorldKeeps
<1>2. ASSUME NEW p \in Procs, LoseOwnership(p) PROVE WorldStep
  BY <1>2 DEF LoseOwnership, RunningOwns
<1>3. ASSUME NEW p \in Procs, SetToken(p) PROVE WorldStep
  BY <1>3 DEF SetToken, registry, SameButFresh, CanDispatch, Owns
<1>4. ASSUME NEW p \in Procs, Die(p) PROVE WorldStep
  <2>1. UNCHANGED <<run, task, reached>> /\ lease' = [lease EXCEPT ![p] = [r \in Runs |-> 0]] /\ prog' = [prog EXCEPT ![p] = Idle]
    BY <1>4 DEF Die, Crash
  <2>2. ~Running(p)' /\ ~CanDispatch(p, R)'
    BY <1>1, <2>1, IdleThread DEF Running, Becomes, CanDispatch, Owns, TasksTypeOK
  <2>3. \A q \in Procs \ {p} : WorldKeeps(q)
    BY <1>1, <2>1 DEF SameButFresh, CanDispatch, Owns
  <2> QED BY <2>1, <2>2, <2>3
<1>5. ASSUME NEW p \in Procs, NEW x \in Resources, Renew(p, x) PROVE WorldStep
  <2>1. UNCHANGED <<run, lease, task, reached>> /\ Running(p) /\ prog[p].pc = "phase"
    BY <1>5 DEF Renew, Beats, registry, Running
  <2>2. \A q \in Procs : SameButFresh(prog'[q], prog[q])
    BY <1>1, <1>5, WrittenThreads DEF Renew, TasksTypeOK
  <2>3. \A q \in Procs : prog[q].pc # "commit"
    BY <1>1, <2>1, OneRuns DEF Running
  <2> QED BY <2>1, <2>2, <2>3 DEF CanDispatch, Owns
<1>6. ASSUME NEW x \in Resources, TaskExpires(x) PROVE WorldStep
  BY <1>6 DEF TaskExpires, registry, SameButFresh, CanDispatch, Owns
<1>7. CASE LeaseExpires
  <2>1. run'[R].generation = run[R].generation /\ run'[R].token = run[R].token /\ ~run'[R].live
    BY <1>1, <1>7 DEF LeaseExpires, Expire, RunRow
  <2> QED BY <1>7, <2>1 DEF LeaseExpires, Expire, SameButFresh, CanDispatch
<1>8. CASE UNCHANGED taskVars
  BY <1>8 DEF taskVars, registry, SameButFresh, CanDispatch, Owns
<1> QED BY <1>2, <1>3, <1>4, <1>5, <1>6, <1>7, <1>8 DEF TasksNext

\* The world takes nothing of the order away, as long as no task expires beside its owner.
LEMMA WorldOrder ==
  ASSUME "task" \notin Faults, TasksInv, UniqueOwner, OrderInv, FirstOwner, [TasksNext]_taskVars,
         ~\E p \in Procs : TaskStep(p)
  PROVE  OrderInv'
<1>1. WorldStep /\ RunningOwns
  BY StepWorld DEF OrderInv
<1>2. \A q \in Procs : Running(q)' => Running(q) /\ Owns(q, R)
  BY <1>1 DEF WorldStep, WorldKeeps, SameButFresh, Running, RunningOwns
<1>3. (\E q \in Procs : Running(q)') => UNCHANGED task
  BY <1>1, <1>2 DEF WorldStep, TaskExpires
<1>4. \A x \in Resources : task[x].status = "pending" => task'[x] = task[x]
  <2>1. ASSUME NEW x \in Resources, NEW y \in Resources, task[x].status = "pending", TaskExpires(y) PROVE task'[x] = task[x]
    <3>1. task[y].status = "running"
      BY <2>1 DEF TaskExpires, TasksInv, RowsInv
    <3> QED BY <2>1, <3>1 DEF TaskExpires, TasksInv, TasksTypeOK
  <2> QED BY <1>1, <2>1 DEF WorldStep
<1>5. Untouched'
  <2>1. ASSUME run'[R].generation = 0
        PROVE  /\ \A q \in Procs : ~Running(q)
               /\ \A x \in Resources : task[x].status = "pending" /\ ~task[x].cancel
               /\ reached = "none"
    BY <1>1, <2>1 DEF WorldStep, OrderInv, Untouched
  <2> QED BY <1>1, <1>2, <1>4, <2>1 DEF Untouched, WorldStep
<1>6. RunningOwns'
  BY <1>1, <1>2 DEF RunningOwns, WorldStep, WorldKeeps, Owns
<1>7. LeasesHold'
  BY <1>2, <1>3 DEF OrderInv, LeasesHold
<1>8. ASSUME NEW q \in Procs, Working(q)' PROVE InOrder(q)'
  <2>1. Running(q)' /\ WorldKeeps(q)
    BY <1>1, <1>8 DEF Working, Running, WorldStep
  <2>2. /\ SameButFresh(prog'[q], prog[q]) /\ UNCHANGED task
        /\ prog[q].pc = "commit" => prog'[q].fresh = prog[q].fresh
        /\ CanDispatch(q, R)' => CanDispatch(q, R)
    BY <1>3, <2>1 DEF WorldKeeps
  <2>3. InOrder(q)
    BY <1>8, <2>2 DEF Working, SameButFresh, OrderInv
  <2>4. NothingGivenUp(q)' /\ StartsFresh(q)'
    BY <2>2, <2>3 DEF InOrder, SameButFresh, NothingGivenUp, StartsFresh
  <2>5. \A x \in Resources : Done(x)' = Done(x)
    BY <2>2 DEF Done
  <2>6. EarlierDone(q)'
    BY <2>2, <2>3, <2>5, TheRun DEF InOrder, SameButFresh, EarlierDone
  <2>7. Advancing(q)'
    BY <2>2, <2>3, <2>5, TheRun DEF InOrder, SameButFresh, Advancing
  <2> QED BY <2>4, <2>6, <2>7 DEF InOrder
<1>9. CompletedInOrder'
  BY StepCompleted
<1> QED BY <1>5, <1>6, <1>7, <1>8, <1>9 DEF OrderInv

\* After a takeover the order is not promised, and takeovers are not undone.
LEMMA StepTaken ==
  ASSUME TypeOK, [TasksNext]_taskVars, ~FirstOwner
  PROVE  ~FirstOwner'
<1>1. run[R].generation \in Nat /\ R \in Runs /\ run \in [Runs -> RunRow]
  BY TheRun, ConstantsAssumption DEF TypeOK, RunRow, Generations
<1>2. ASSUME NEW p \in Procs, Start(p) PROVE ~FirstOwner'
  BY <1>1, <1>2 DEF Start, Acquire, FirstOwner
<1>3. ASSUME NEW p \in Procs, TaskStep(p), ~Start(p) PROVE ~FirstOwner'
  BY <1>3, StepRun DEF KeepsRun, FirstOwner
<1>4. CASE UNCHANGED run
  BY <1>4 DEF FirstOwner
<1>5. CASE LeaseExpires
  BY <1>1, <1>5 DEF LeaseExpires, Expire, RunRow, FirstOwner
<1>6. ASSUME NEW p \in Procs, LoseOwnership(p) \/ SetToken(p) \/ Die(p) \/ \E x \in Resources : Renew(p, x)
      PROVE  UNCHANGED run
  BY <1>6 DEF LoseOwnership, SetToken, Die, Renew, registry, Crash
<1>7. ASSUME UNCHANGED taskVars \/ \E x \in Resources : TaskExpires(x) PROVE UNCHANGED run
  BY <1>7 DEF taskVars, TaskExpires, registry
<1> QED BY <1>2, <1>3, <1>4, <1>5, <1>6, <1>7 DEF TasksNext

LEMMA StepOrder ==
  ASSUME "task" \notin Faults, TasksInv, UniqueOwner, OrderInv, [TasksNext]_taskVars
  PROVE  OrderInv'
<1>1. CASE \E p \in Procs : TaskStep(p)
  BY <1>1, StartOrder, ThreadOrder
<1>2. CASE FirstOwner /\ ~\E p \in Procs : TaskStep(p)
  BY <1>2, WorldOrder
<1>3. CASE ~FirstOwner
  <2>1. ~FirstOwner' /\ run'[R].generation \in Nat
    <3>1. TypeOK'
      BY StepRegistry, StepType DEF TasksInv
    <3>2. run'[R].generation \in Nat
      BY <3>1, TheRun, ConstantsAssumption DEF TypeOK, RunRow, Generations
    <3> QED BY <1>3, <3>2, StepTaken DEF TasksInv
  <2> QED BY <2>1 DEF OrderInv, Untouched, RunningOwns, LeasesHold, CompletedInOrder, FirstOwner
<1> QED BY <1>1, <1>2, <1>3

\* In a run that is not taken over the tasks complete in the order of their dependencies, although
\* an advance looks at one predecessor only and what the runtime raises is swallowed.  The lease of
\* a task must not run out beside its living owner: the completion that finds it gone is swallowed
\* as well, and the next advance goes on.
THEOREM TasksCompleteInOrder == "task" \notin Faults /\ TasksSpec => []CompletedInOrder
<1>1. TasksInit => TasksInv /\ OwnershipInv /\ OrderInv
  BY InitTasks, InitOwnership, InitOrder DEF TasksInit
<1>2. "task" \notin Faults /\ TasksInv /\ OwnershipInv /\ OrderInv /\ [TasksNext]_taskVars
        => (TasksInv /\ OwnershipInv /\ OrderInv)'
  <2> SUFFICES ASSUME "task" \notin Faults, TasksInv, OwnershipInv, OrderInv, [TasksNext]_taskVars
               PROVE  (TasksInv /\ OwnershipInv /\ OrderInv)'
    OBVIOUS
  <2>1. TasksInv'
    BY StepTasksInv
  <2>2. OwnershipInv'
    BY StepRegistry, StepOwnership DEF TasksInv
  <2>3. OrderInv'
    BY StepOrder DEF OwnershipInv
  <2> QED BY <2>1, <2>2, <2>3
<1>3. OrderInv => CompletedInOrder
  BY DEF OrderInv
<1>4. CASE "task" \notin Faults
  <2>1. TasksInv /\ OwnershipInv /\ OrderInv /\ [TasksNext]_taskVars => (TasksInv /\ OwnershipInv /\ OrderInv)'
    BY <1>2, <1>4
  <2> QED BY <1>1, <1>3, <2>1, PTL DEF TasksSpec
<1> QED BY <1>4
=============================================================================
