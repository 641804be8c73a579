-------------------------- MODULE WorkbenchRestore --------------------------
(***************************************************************************)
(* The restoration of project files by the workbench:                      *)
(* src/workbench/restore.py with files.py and the history of store.py.     *)
(*                                                                         *)
(* A restore replaces the managed files of a project by those of a         *)
(* snapshot, path by path and journaled step by step, while editors go on  *)
(* writing.  The source of a step is moved to a backup, the target is      *)
(* published under the free name, the history is committed when all paths  *)
(* read as the target, and the backups are deleted last.  After a failure  *)
(* or a crash the project is shut until the user has the operation         *)
(* completed or rolled back, by a child plan with a journal of its own.    *)
(*                                                                         *)
(* The lock of the service makes its calls one at a time, so one call with *)
(* a place in the code stands for them.  There is one conversation.  A     *)
(* scan is one step: the service writes nothing meanwhile, and edits of    *)
(* different paths commute.                                                *)
(***************************************************************************)
EXTENDS Naturals, Sequences, FiniteSets

CONSTANTS
    Paths,       \* managed paths, numbered in the order of their names
    Parent,      \* Parent[p]: the directory path p is in, 0 for the root; one level
    Files,       \* contents of files; a change of the mode of a file alone is left out
    Dirs,        \* modes of directories, all with the rights of the owner
    Private,     \* mode 0700
    Absent,      \* no entry
    Outputs,     \* trees that an isolated run may leave
    Ops,         \* restore operations
    NoPlan, NoOp,
    MaxRevision, \* bound on the revision of the conversation
    MaxEdits,    \* bound on the edits from outside
    MaxFaults    \* bound on failures and crashes

ASSUME RestoreAssumption ==
    /\ Paths \subseteq Nat \ {0} /\ IsFiniteSet(Paths)
    /\ Parent \in [Paths -> Paths \cup {0}]
    /\ \A p \in Paths : Parent[p] # 0 => Parent[p] < p /\ Parent[Parent[p]] = 0
    /\ Absent \notin Files \cup Dirs \cup {Private}
    /\ Files \cap (Dirs \cup {Private}) = {}
    /\ MaxRevision \in Nat /\ MaxEdits \in Nat /\ MaxFaults \in Nat

VARIABLES
    tree,      \* the entries of the project
    backups,   \* moved sources
    plans,     \* previews in memory
    journal,   \* operations in the database
    children,  \* children[o]: the recovery plan of operation o in the database
    history,   \* the rest of the database: see History
    call,      \* the call in progress
    up,        \* whether the service runs
    faults,    \* failures so far
    user       \* what users did: see UserState

vars == <<tree, backups, plans, journal, children, history, call, up, faults, user>>

-----------------------------------------------------------------------------
(* State                                                                   *)

Entries == Files \cup Dirs \cup {Private, Absent}

Trees == [Paths -> Entries]

Statuses == {"preview", "open", "committed", "rolled_back"}

Plan == [before : Trees, target : Trees, revision : Nat, project : Nat, manual : BOOLEAN,
         action : {"restore", "candidate"},
         started : Nat, done : Nat, status : Statuses, decision : {"none", "complete", "rollback"}]

\* What a repair run proposes: its output in place of its input.
Candidate == [status : {"none", "ready", "applied", "discarded"}, input : Trees, output : Trees,
              project : Nat]

\* Revisions of the conversation and of the project, the snapshot at the head of the
\* branch, all snapshots, the receipts of operations, and one candidate.
History == [revision : Nat, project : Nat, head : Trees, snapshots : SUBSET Trees,
            receipts : [Ops -> Nat], candidate : Candidate]

\* A step of one path, in either journal, has one name for its backup.
Backup == [op : Ops, who : {"main", "child"}, step : Nat, path : Paths, file : Entries]

Places == {"idle", "skip", "start", "read", "move", "publish", "chmod", "mark", "commit", "rescan", "clean"}

Call == [op : Ops \cup {NoOp}, mode : {"none", "apply", "child", "reconcile", "receipt"},
         pc : Places, expected : Entries]

ASSUME ValueAssumption == Outputs \subseteq Trees /\ NoPlan \notin Plan /\ NoOp \notin Ops

Idle == [op |-> NoOp, mode |-> "none", pc |-> "idle", expected |-> Absent]

\* For the properties: the last entry a user made at each path, the paths edited since
\* the last scan that found the files as planned, whether there was an edit since the
\* last operation was applied, that operation, and the number of edits.
UserState == [latest : Trees, dirty : SUBSET Paths, edited : BOOLEAN, last : Ops \cup {NoOp},
              edits : Nat]

\* Types and numbers of all variables.
RestoreTypeOK ==
    /\ tree \in Trees
    /\ backups \subseteq Backup
    /\ \A p \in {plans, journal, children} : p \in [Ops -> Plan \cup {NoPlan}]
    /\ history \in History
    /\ call \in Call /\ up \in BOOLEAN /\ faults \in Nat
    /\ user \in UserState

Kind(e) == IF e = Absent THEN "none" ELSE IF e \in Files THEN "file" ELSE "directory"

\* The directory of a path is there in tree t.
HasPlace(t, p) == Parent[p] # 0 => Kind(t[Parent[p]]) = "directory"

\* read takes a missing entry, or directory, for none, but raises where a file stands for the directory.
Unreadable(p) == ~HasPlace(tree, p) /\ Kind(tree[Parent[p]]) = "file"

Projects ==
    {t \in [Paths -> Files \cup Dirs \cup {Absent}] : \A p \in Paths : t[p] # Absent => HasPlace(t, p)}

\* A project with a baseline, edited since.
RestoreInit ==
    \E t, baseline \in Projects :
        /\ tree = t
        /\ backups = {}
        /\ plans = [o \in Ops |-> NoPlan]
        /\ journal = [o \in Ops |-> NoPlan]
        /\ children = [o \in Ops |-> NoPlan]
        /\ history = [revision |-> 0, project |-> 0, head |-> baseline, snapshots |-> {baseline},
                      receipts |-> [o \in Ops |-> 0],
                      candidate |-> [status |-> "none", input |-> baseline, output |-> baseline, project |-> 0]]
        /\ call = Idle /\ up = TRUE /\ faults = 0
        /\ user = [latest |-> t, dirty |-> {}, edited |-> FALSE, last |-> NoOp, edits |-> 0]

-----------------------------------------------------------------------------
(* Plans                                                                   *)

\* The steps that take the paths of S from one tree to another, in an order of names: the
\* i-th path is the one that i - 1 others go before.
InOrder(S, before(_, _), from, to) ==
    LET name(i) == CHOOSE p \in S : Cardinality({q \in S : before(q, p)}) = i - 1
    IN  [i \in 1..Cardinality(S) |-> [path |-> name(i), before |-> from[name(i)], after |-> to[name(i)]]]

\* What is inside a directory comes before it, and the other way round.
InnerFirst(p, q) == IF (Parent[p] = 0) = (Parent[q] = 0) THEN p < q ELSE Parent[q] = 0

ByName(p, q) == p < q

OuterFirst(p, q) == IF (Parent[p] = 0) = (Parent[q] = 0) THEN p < q ELSE Parent[p] = 0

\* steps: first what goes, then directories, files, and modes of directories.
Steps(before, target) ==
    LET changed == {p \in Paths : before[p] # target[p]}
        removed == {p \in changed : before[p] # Absent /\ Kind(before[p]) # Kind(target[p])}
        left == [p \in Paths |-> IF p \in removed THEN Absent ELSE before[p]]
        isDir == {p \in changed : Kind(target[p]) = "directory"}
        isNew == {p \in isDir : left[p] = Absent}
        isFile == {p \in changed : Kind(target[p]) = "file"}
    IN  InOrder(removed, InnerFirst, before, left) \o InOrder(isNew, OuterFirst, left, target)
            \o InOrder(isFile, ByName, left, target) \o InOrder(isDir \ isNew, InnerFirst, left, target)

StepsOf(plan) == Steps(plan.before, plan.target)

\* _known_live: every path is as it was, or as a step that was started may have left it.
Known(plan) ==
    \A p \in Paths :
        \/ tree[p] = plan.before[p]
        \/ \E i \in 1..plan.started :
            LET s == StepsOf(plan)[i] IN s.path = p /\ tree[p] \in {s.before, s.after, Absent}

NewPlan(action, target) ==
    [before |-> tree, target |-> target, revision |-> history.revision, project |-> history.project,
     manual |-> action = "restore" /\ tree # history.head, action |-> action,
     started |-> 0, done |-> 0, status |-> "preview", decision |-> "none"]

IsOpen(plan) == plan # NoPlan /\ plan.status = "open"

\* pending: one unfinished operation shuts the project.
Pending == {o \in Ops : IsOpen(journal[o])}

HasReceipt(o) == history.receipts[o] > 0

Ready == up /\ call = Idle

-----------------------------------------------------------------------------
(* The user, and the calls that start no restore                           *)

\* An editor writes, deletes or makes an entry, at any time; what is inside goes with it.
Edit(p, e) ==
    LET inside == IF Kind(e) = "directory" THEN {} ELSE {q \in Paths : Parent[q] = p}
        after(t) == [q \in Paths |-> IF q = p THEN e ELSE IF q \in inside THEN Absent ELSE t[q]]
    IN  /\ user.edits < MaxEdits /\ tree[p] # e /\ HasPlace(tree, p)
        /\ tree' = after(tree)
        /\ user' = [user EXCEPT !.latest = after(@), !.dirty = @ \cup inside \cup {p},
                                !.edited = TRUE, !.edits = @ + 1]
        /\ UNCHANGED <<backups, plans, journal, children, history, call, up, faults>>

Checkpoint ==
    /\ Ready /\ Pending = {} /\ history.revision < MaxRevision
    /\ history' = [history EXCEPT !.revision = @ + 1, !.project = @ + 1, !.head = tree,
                                  !.snapshots = @ \cup {tree}]
    /\ UNCHANGED <<tree, backups, plans, journal, children, call, up, faults, user>>

\* Any other change of the conversation, a new title for one.
Touch ==
    /\ Ready /\ Pending = {} /\ history.revision < MaxRevision
    /\ history' = [history EXCEPT !.revision = @ + 1]
    /\ UNCHANGED <<tree, backups, plans, journal, children, call, up, faults, user>>

\* A turn of the conversation runs on a copy of the project, and ends with a candidate:
\* the output is a snapshot, the head and the project keep the input.
RunTurn(output) ==
    /\ Ready /\ Pending = {} /\ history.revision < MaxRevision
    /\ history.candidate.status = "none" /\ output # tree
    /\ history' = [history EXCEPT !.revision = @ + 1, !.head = tree, !.snapshots = @ \cup {tree, output},
                                  !.candidate = [status |-> "ready", input |-> tree, output |-> output,
                                                 project |-> history.project]]
    /\ UNCHANGED <<tree, backups, plans, journal, children, call, up, faults, user>>

Discard ==
    /\ Ready /\ Pending = {} /\ history.revision < MaxRevision
    /\ history.candidate.status = "ready"
    /\ history' = [history EXCEPT !.revision = @ + 1, !.candidate.status = "discarded"]
    /\ UNCHANGED <<tree, backups, plans, journal, children, call, up, faults, user>>

Remember(o, plan) ==
    /\ Ready /\ Pending = {}
    /\ plans[o] = NoPlan /\ journal[o] = NoPlan
    /\ plans' = [plans EXCEPT ![o] = plan]
    /\ UNCHANGED <<tree, backups, journal, children, history, call, up, faults, user>>

Preview(o) == \E target \in history.snapshots : Remember(o, NewPlan("restore", target))

\* The project is still as the run found it.
Applicable(c) == c.status = "ready" /\ c.project = history.project /\ c.input = tree

PreviewCandidate(o) ==
    /\ Applicable(history.candidate)
    /\ Remember(o, NewPlan("candidate", history.candidate.output))

\* A preview that is stale is refused.
Fresh(plan) ==
    plan.revision = history.revision /\ plan.project = history.project /\ plan.before = tree

Apply(o) ==
    /\ Ready /\ Pending = {}
    /\ plans[o] # NoPlan /\ Fresh(plans[o])
    /\ journal' = [journal EXCEPT ![o] = [plans[o] EXCEPT !.status = "open"]]
    /\ plans' = [plans EXCEPT ![o] = NoPlan]
    /\ call' = [op |-> o, mode |-> "apply", pc |-> "start", expected |-> Absent]
    /\ user' = [user EXCEPT !.edited = FALSE, !.last = o]
    /\ UNCHANGED <<tree, backups, children, history, up, faults>>

-----------------------------------------------------------------------------
(* The steps of a plan: _execute, and the loop of _recover_child           *)

Who == IF call.mode = "child" THEN "child" ELSE "main"

Running == IF Who = "child" THEN children[call.op] ELSE journal[call.op]

\* RestoreJournal.write
Write(plan) ==
    IF Who = "child" THEN children' = [children EXCEPT ![call.op] = plan] /\ UNCHANGED journal
    ELSE journal' = [journal EXCEPT ![call.op] = plan] /\ UNCHANGED children

Goto(pc) == call' = [call EXCEPT !.pc = pc]

\* An exception: the operation stays open, under the status needs_recovery.
Raise == call' = Idle

AllDone == Running.done = Len(StepsOf(Running))

\* The step that was started last.
Current == StepsOf(Running)[Running.started]

At(e) == tree' = [tree EXCEPT ![Current.path] = e]

\* Deviation: the source of the interrupted step must still be there.
Resumable_Before(i) == {StepsOf(Running)[i].before}

\* What a recovery may find at the path of its next step.
Resumable(i) ==
    {StepsOf(Running)[i].before} \cup (IF i = Running.started THEN {Absent} ELSE {})

\* _recover_child reads the path of every step, also of those that were done before.
SkipDone ==
    /\ call.pc = "skip"
    /\ IF \E i \in 1..Running.done : Unreadable(StepsOf(Running)[i].path) THEN Raise ELSE Goto("start")
    /\ UNCHANGED <<tree, backups, plans, journal, children, history, up, faults, user>>

StartStep ==
    LET i == Running.done + 1
        s == StepsOf(Running)[i]
        found == tree[s.path]
        lost == Unreadable(s.path)
        ended == i = Running.started /\ found = s.after /\ ~lost
    IN  /\ call.pc = "start" /\ ~AllDone
        /\ \/ /\ Who = "main"
              /\ Write([Running EXCEPT !.started = i])
              /\ call' = [call EXCEPT !.pc = "read", !.expected = s.before]
           \/ /\ Who = "child" /\ ended
              /\ Write([Running EXCEPT !.done = i])
              /\ UNCHANGED call
           \/ /\ Who = "child" /\ ~ended /\ ~lost /\ found \in Resumable(i)
              /\ Write([Running EXCEPT !.started = i])
              /\ call' = [call EXCEPT !.pc = "read", !.expected = found]
           \/ /\ Who = "child" /\ ~ended /\ (lost \/ found \notin Resumable(i))
              /\ Raise /\ UNCHANGED <<journal, children>>
        /\ UNCHANGED <<tree, backups, plans, history, up, faults, user>>

\* change reads the path once more.
ReadStep ==
    /\ call.pc = "read"
    /\ IF tree[Current.path] # call.expected \/ ~HasPlace(tree, Current.path) THEN Raise
       ELSE Goto(IF call.expected = Absent THEN "publish" ELSE "move")
    /\ UNCHANGED <<tree, backups, plans, journal, children, history, up, faults, user>>

Moved == [op |-> call.op, who |-> Who, step |-> Running.started, path |-> Current.path,
          file |-> tree[Current.path]]

NameTaken == \E b \in backups : b.op = Moved.op /\ b.who = Moved.who /\ b.step = Moved.step

\* What follows the removal of the source.
AfterMove == IF Current.after = Absent THEN "mark" ELSE "publish"

\* A file is renamed to its backup, and then compared with what was read.
MoveFile ==
    /\ call.pc = "move" /\ Kind(call.expected) = "file"
    /\ IF tree[Current.path] = Absent \/ NameTaken THEN Raise /\ UNCHANGED <<tree, backups>>
       ELSE /\ backups' = backups \cup {Moved}
            /\ At(Absent)
            /\ IF Moved.file = call.expected THEN Goto(AfterMove) ELSE Raise
    /\ UNCHANGED <<plans, journal, children, history, up, faults, user>>

\* rmdir refuses a directory with entries; the other change is one of its mode.
MoveDir ==
    /\ call.pc = "move" /\ Kind(call.expected) = "directory"
    /\ IF Kind(tree[Current.path]) = "directory"
          /\ (Current.after = Absent => \A p \in Paths : Parent[p] = Current.path => tree[p] = Absent)
       THEN At(Current.after) /\ Goto("mark")
       ELSE Raise /\ UNCHANGED tree
    /\ UNCHANGED <<backups, plans, journal, children, history, up, faults, user>>

\* linkat and mkdir refuse a name that is taken; mkdir makes a directory with mode 0700.
Publish ==
    /\ call.pc = "publish"
    /\ IF tree[Current.path] # Absent \/ ~HasPlace(tree, Current.path) THEN Raise /\ UNCHANGED tree
       ELSE IF Kind(Current.after) = "file" THEN At(Current.after) /\ Goto("mark")
       ELSE At(Private) /\ Goto("chmod")
    /\ UNCHANGED <<backups, plans, journal, children, history, up, faults, user>>

Chmod ==
    /\ call.pc = "chmod"
    /\ IF Kind(tree[Current.path]) = "directory" THEN At(Current.after) /\ Goto("mark")
       ELSE Raise /\ UNCHANGED tree
    /\ UNCHANGED <<backups, plans, journal, children, history, up, faults, user>>

MarkStep ==
    /\ call.pc = "mark"
    /\ Write([Running EXCEPT !.done = Running.started])
    /\ Goto("start")
    /\ UNCHANGED <<tree, backups, plans, history, up, faults, user>>

-----------------------------------------------------------------------------
(* The end of a plan                                                       *)

Scanned == user' = [user EXCEPT !.dirty = {}]

\* A rollback leaves the history alone.
AfterScan == IF Running.decision = "rollback" \/ HasReceipt(call.op) THEN "clean" ELSE "commit"

Scan ==
    /\ call.pc = "start" /\ AllDone
    /\ IF tree = Running.target THEN Goto(AfterScan) /\ Scanned
       ELSE Raise /\ UNCHANGED user
    /\ UNCHANGED <<tree, backups, plans, journal, children, history, up, faults>>

\* What commit_restore looks at.
MayCommit(plan) ==
    /\ plan.revision = history.revision /\ plan.project = history.project
    /\ plan.action = "candidate" => history.candidate.status = "ready"

\* commit_restore: manual changes, the candidate, the move of the cursor and the receipt at once.
Committed(o) ==
    LET plan == journal[o]
    IN  [history EXCEPT
            !.revision = @ + 1, !.project = @ + 1,
            !.head = plan.target,
            !.snapshots = @ \cup {plan.target} \cup (IF plan.manual THEN {plan.before} ELSE {}),
            !.receipts[o] = @ + 1,
            !.candidate.status = IF plan.action = "candidate" THEN "applied" ELSE @]

Commit ==
    /\ call.pc = "commit"
    /\ IF ~MayCommit(journal[call.op]) THEN Raise /\ UNCHANGED history
       ELSE /\ history' = Committed(call.op)
            /\ Goto(IF call.mode = "reconcile" THEN "rescan" ELSE "clean")
    /\ UNCHANGED <<tree, backups, plans, journal, children, up, faults, user>>

\* The scan of recover for an operation with a receipt.
Rescan ==
    /\ call.pc = "rescan"
    /\ IF tree = journal[call.op].target
       THEN call' = [call EXCEPT !.mode = "receipt", !.pc = "clean"] /\ Scanned
       ELSE Raise /\ UNCHANGED user
    /\ UNCHANGED <<tree, backups, plans, journal, children, history, up, faults>>

\* The backups that are cleaned, in the order of the plans and of their steps.
ToClean == {b \in backups : b.op = call.op}

First == IF call.mode = "child" THEN "child" ELSE "main"

NextBackup ==
    CHOOSE b \in ToClean : \A c \in ToClean \ {b} :
        \/ b.who = First /\ c.who # First
        \/ b.who = c.who /\ b.step < c.step

PlanOf(b) == IF b.who = "child" THEN children[b.op] ELSE journal[b.op]

\* Deviation: whatever was moved away is deleted.
AsPlanned_Unchecked(b) == TRUE

\* cleanup: a backup that is not what was planned is retained.
AsPlanned(b) == b.file = StepsOf(PlanOf(b))[b.step].before

Clean ==
    /\ call.pc = "clean" /\ ToClean # {}
    /\ IF AsPlanned(NextBackup) THEN backups' = backups \ {NextBackup} /\ UNCHANGED call
       ELSE Raise /\ UNCHANGED backups
    /\ UNCHANGED <<tree, plans, journal, children, history, up, faults, user>>

Ended(plan, status) == [plan EXCEPT !.status = status]

\* The child of an operation with a receipt is closed first, in a transaction of its own.
EndCall ==
    LET o == call.op
        status == IF Running.decision = "rollback" THEN "rolled_back" ELSE "committed"
        alone == call.mode = "apply" \/ ~IsOpen(children[o])
    IN  /\ call.pc = "clean" /\ ToClean = {}
        /\ children' = IF alone THEN children ELSE [children EXCEPT ![o] = Ended(@, status)]
        /\ IF call.mode = "receipt" /\ ~alone THEN UNCHANGED <<journal, call>>
           ELSE journal' = [journal EXCEPT ![o] = Ended(@, status)] /\ Raise
        /\ UNCHANGED <<tree, backups, plans, history, up, faults, user>>

-----------------------------------------------------------------------------
(* Recovery                                                                *)

\* The checks of recover.
CanRecover(o, decision) ==
    /\ o \in Pending
    /\ IF HasReceipt(o) THEN decision = "complete" /\ tree = journal[o].target
       ELSE /\ journal[o].revision = history.revision
            /\ IF children[o] = NoPlan THEN Known(journal[o])
               ELSE children[o].decision = decision /\ Known(children[o])

NewChild(o, decision) ==
    [journal[o] EXCEPT !.before = tree, !.started = 0, !.done = 0, !.decision = decision,
                       !.target = IF decision = "complete" THEN @ ELSE journal[o].before]

Recover(o, decision) ==
    /\ Ready /\ CanRecover(o, decision)
    /\ IF HasReceipt(o)
       THEN /\ call' = [op |-> o, mode |-> "receipt", pc |-> "clean", expected |-> Absent]
            /\ Scanned /\ UNCHANGED children
       ELSE /\ children' = IF children[o] = NoPlan THEN [children EXCEPT ![o] = NewChild(o, decision)]
                           ELSE children
            /\ call' = [op |-> o, mode |-> "child", pc |-> "skip", expected |-> Absent]
            /\ UNCHANGED user
    /\ UNCHANGED <<tree, backups, plans, journal, history, up, faults>>

\* A call fails: any of its system calls may.
Fault ==
    /\ call # Idle /\ faults < MaxFaults
    /\ Raise /\ faults' = faults + 1
    /\ UNCHANGED <<tree, backups, plans, journal, children, history, up, user>>

Crash ==
    /\ up /\ faults < MaxFaults
    /\ up' = FALSE /\ call' = Idle /\ faults' = faults + 1
    /\ plans' = [o \in Ops |-> NoPlan]
    /\ UNCHANGED <<tree, backups, journal, children, history, user>>

\* Deviation: the decision of the user is forgotten.
Proven_Undecided == {o \in Pending : tree = journal[o].target}

\* reconcile_committed: only files that all read as the target, and no decision to the contrary.
Proven == {o \in Pending : ~IsOpen(children[o]) /\ tree = journal[o].target}

Restart ==
    /\ ~up /\ up' = TRUE
    /\ IF Proven = {} THEN UNCHANGED <<call, user>>
       ELSE LET o == CHOOSE o \in Proven : TRUE
            IN  /\ call' = [op |-> o, mode |-> "reconcile", expected |-> Absent,
                            pc |-> IF HasReceipt(o) THEN "rescan" ELSE "commit"]
                /\ Scanned
    /\ UNCHANGED <<tree, backups, plans, journal, children, history, faults>>

-----------------------------------------------------------------------------
(* Specification                                                           *)

CallStep ==
    \/ SkipDone \/ StartStep \/ ReadStep \/ MoveFile \/ MoveDir \/ Publish \/ Chmod \/ MarkStep
    \/ Scan \/ Commit \/ Rescan \/ Clean \/ EndCall

RestoreNext ==
    \/ \E p \in Paths, e \in Files \cup Dirs \cup {Absent} : Edit(p, e)
    \/ Checkpoint \/ Touch \/ Discard
    \/ \E output \in Outputs : RunTurn(output)
    \/ \E o \in Ops :
        \/ Preview(o) \/ PreviewCandidate(o) \/ Apply(o)
        \/ \E d \in {"complete", "rollback"} : Recover(o, d)
    \/ CallStep \/ Fault \/ Crash \/ Restart

RestoreSpec == RestoreInit /\ [][RestoreNext]_vars

-----------------------------------------------------------------------------
(* Properties                                                              *)

\* No edit is lost: the last file a user left at a path is at the path, in a backup
\* or in a snapshot of the history, whatever fails between two steps.
EditsSurvive ==
    \A p \in Paths :
        LET e == user.latest[p]
        IN  \/ Kind(e) # "file" \/ tree[p] = e
            \/ \E b \in backups : b.path = p /\ b.file = e
            \/ \E s \in history.snapshots : s[p] = e

Goal(o) == IF journal[o].status = "rolled_back" THEN journal[o].before ELSE journal[o].target

\* The history and the files tell the same: an operation has at most one receipt, it has
\* one when it is committed and none when it is rolled back, it ends as the user decided
\* and without backups, and what nobody edited since is then as the plan says.
EndsAsDecided ==
    \A o \in Ops : journal[o] # NoPlan =>
        LET status == journal[o].status
            decided == IF children[o] = NoPlan THEN "none" ELSE children[o].decision
        IN  /\ history.receipts[o] <= 1
            /\ HasReceipt(o) /\ journal[o].action = "candidate" => history.candidate.status = "applied"
            /\ status = "committed" => HasReceipt(o) /\ decided # "rollback"
            /\ status = "rolled_back" => ~HasReceipt(o) /\ decided = "rollback"
            /\ status # "open" => \A b \in backups : b.op # o
            /\ (status # "open" \/ HasReceipt(o)) /\ o = user.last =>
                \A p \in Paths \ user.dirty : tree[p] = Goal(o)[p]

\* Whatever step was interrupted: as long as nobody edits the files, one of the two
\* decisions is accepted, ...
InterruptedIsRecoverable ==
    Ready /\ ~user.edited => \A o \in Pending : \E d \in {"complete", "rollback"} : CanRecover(o, d)

\* A call comes to its end though nothing failed in it and nobody edited the files.
CallEndsUndisturbed == call # Idle /\ call' = Idle /\ faults' = faults /\ ~user.edited

\* A file is to take the place of a directory with entries.
ReplacesEntries(plan) ==
    \E p \in Paths : Parent[p] # 0 /\ plan.before[p] # Absent /\ Kind(plan.target[Parent[p]]) = "file"

\* ... and a call in which nothing fails ends the operation. The one exception is a recovery that
\* is continued where a file was to replace a directory that had entries: see ContinuedRecoveryEnds.
RecoveryGoesThrough ==
    /\ []InterruptedIsRecoverable
    /\ [][CallEndsUndisturbed => ~IsOpen(journal'[call.op]) \/ (call.pc = "skip" /\ ReplacesEntries(Running))]_vars

\* A recovery that was interrupted need only be continued, whatever it replaces (docs/WORKBENCH_S3.md:87).
ContinuedRecoveryEnds == [][CallEndsUndisturbed => ~IsOpen(journal'[call.op])]_vars

\* A source that is moved finds the name of its backup free.
BackupNameIsFree == call.pc = "move" /\ Kind(call.expected) = "file" => ~NameTaken

\* An operation that is in the history can always be ended by "complete".
ReceiptCanBeCleaned ==
    \A o \in Pending : HasReceipt(o) => \A b \in backups : b.op = o => AsPlanned(b)
=============================================================================
