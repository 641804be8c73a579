-------------------------- MODULE SandboxCallProofs --------------------------
(***************************************************************************)
(* Theorems about the sandboxed calls of a run, for every set of processes *)
(* and calls and every bound on the generations: what the registry holds   *)
(* as settled has stopped and will not start, and targets and rollbacks    *)
(* have the workspace to themselves.                                       *)
(***************************************************************************)
EXTENDS SandboxCalls, RunCoordinationProofs

-----------------------------------------------------------------------------
(* Types *)

CoordinatorRow ==
    [pc : CoordinatorSteps, todo : SUBSET Resources, planned : SUBSET Resources,
     item : Resources \cup {NoParent},
     found : {"none", "unknown"} \cup SettledStates, bad : BOOLEAN, final : BOOLEAN]

CallResults == {"none", "refused", "raised", "lost", "uncertain"} \cup ConfirmedResults

CallRow == [pc : CallSteps, by : Procs \cup {NoRun}, gen : Generations, result : CallResults]

\* The variables of this module, without the registry's.
LocalTypes ==
    /\ own \in [Procs -> CoordinatorRow]
    /\ cancelled \in [Procs -> BOOLEAN]
    /\ report \in [Procs -> {"none", "cancelled", "recovery_required"}]
    /\ call \in [Resources -> CallRow]
    /\ receipt \in [Resources -> ReceiptRow]
    /\ sup \in [Resources -> SupSteps]
    /\ pipe \in [Resources -> BOOLEAN]
    /\ target \in [Resources -> {"none", "running", "stopped"}]

\* A coordinator with a finding knows the call it is about, and a call that was
\* begun knows its process.
NamesInv ==
    /\ \A p \in Procs : own[p].found # "none" => own[p].item \in Resources
    /\ \A x \in Resources : call[x].pc # "idle" => call[x].by \in Procs

LEMMA TypesSplit == CallsTypeOK <=> TypeOK /\ LocalTypes
  BY DEF CallsTypeOK, LocalTypes, CoordinatorRow, CallRow, CallResults

LEMMA TheRun == R \in Runs /\ \A r \in Runs : r = R
  BY SingleRun

LEMMA StatusTypes ==
  /\ {"none", "unknown"} \cup SettledStates \subseteq ResourceStates \cup {"none"}
  /\ SettledStates \subseteq ResourceStates
  /\ \A result \in CallResults : Outcome(result) \in ResourceStates /\ OutcomeCleanup(result) \in Cleanups
  BY DEF SettledStates, ResourceStates, Outcome, OutcomeCleanup, CallResults, Cleanups

\* Every step takes the registry where one of its methods takes it.
LEMMA StepsOfTheRegistry == LocalTypes /\ NamesInv /\ [CallsNext]_allVars => [Next]_vars
<1> SUFFICES ASSUME LocalTypes, NamesInv, CallsNext PROVE [Next]_vars
  BY DEF allVars, registry, vars
<1> DEFINE Owner(p) == OwnerStep(p, R) \/ ResourceStep(p, R)
<1>0. /\ UNCHANGED registry => [Next]_vars
      /\ \A p \in Procs : Owner(p) => [Next]_vars
  BY TheRun DEF registry, vars, Next
<1>1. ASSUME NEW p \in Procs, NEW x \in Resources, NEW status \in ResourceStates,
             NEW cleanup \in Cleanups, NEW adopt \in BOOLEAN,
             TransitionResource(p, R, x, status, cleanup, adopt)
      PROVE  [Next]_vars
  BY <1>0, <1>1 DEF ResourceStep
<1>2. ASSUME NEW p \in Procs, NEW status \in EndStates \cup {"recovery_required"},
             Finish(p, R, status)
      PROVE  [Next]_vars
  BY <1>0, <1>2 DEF OwnerStep
<1>3. ASSUME NEW p \in Procs, CoordinatorStep(p) PROVE [Next]_vars
  <2>1. CASE Start(p)
    BY <1>0, <2>1 DEF Start, OwnerStep
  <2>2. CASE InspectOld(p) \/ AskSupervisor(p) \/ InspectCancelled(p) \/ ListCleanup(p)
    BY <1>0, <2>2 DEF InspectOld, AskSupervisor, InspectCancelled, ListCleanup
  <2>3. CASE GiveUpReconcile(p)
    BY <1>0, <2>3 DEF GiveUpReconcile, OwnerStep
  <2>4. CASE BeginWork(p)
    BY <1>0, <2>4 DEF BeginWork, OwnerStep
  <2>5. CASE ResumeCancel(p) \/ CancelCallback(p)
    BY <1>0, <2>5 DEF ResumeCancel, CancelCallback, OwnerStep
  <2>6. CASE CancelToken(p) \/ CheckRelease(p) \/ LoseOwnership(p)
    BY <1>0, <2>6 DEF CancelToken, CheckRelease, LoseOwnership
  <2>7. CASE EnterCancel(p)
    BY <1>0, <2>7 DEF EnterCancel, OwnerStep, registry, vars
  <2>8. CASE Release(p)
    BY <1>2, <2>8 DEF Release, EndStates
  <2>9. CASE Abort(p)
    BY <1>2, <2>9 DEF Abort, EndStates
  <2>10. CASE Record(p)
    <3>1. own[p].found \in ResourceStates
      BY <2>10, StatusTypes DEF LocalTypes, CoordinatorRow, Record
    <3>2. own[p].item \in Resources
      BY <2>10 DEF Record, NamesInv
    <3> QED BY <1>1, <2>10, <3>1, <3>2 DEF Record, Cleanups
  <2>11. CASE RecordRaises(p)
    BY <1>2, <2>11 DEF RecordRaises
  <2>12. CASE EndCancel(p)
    <3>1. CASE own[p].bad
      BY <1>0, <2>12, <3>1 DEF EndCancel, OwnerStep
    <3>2. CASE ~ own[p].bad /\ own[p].final
      BY <1>2, <2>12, <3>2 DEF EndCancel, EndStates
    <3>3. CASE ~ own[p].bad /\ ~ own[p].final
      BY <2>12, <3>3 DEF EndCancel, registry, vars
    <3> QED BY <3>1, <3>2, <3>3
  <2> QED BY <1>3, <2>1, <2>2, <2>3, <2>4, <2>5, <2>6, <2>7, <2>8, <2>9, <2>10, <2>11, <2>12
     DEF CoordinatorStep, CleanupStep
<1>4. ASSUME NEW p \in Procs, CrashProcess(p) PROVE [Next]_vars
  BY <1>4 DEF CrashProcess, Next
<1>5. ASSUME NEW p \in Procs, NEW x \in Resources, Register(p, x) PROVE [Next]_vars
  <2>1. RegisterResource(p, R, x, NoParent, FALSE)
    BY <1>5 DEF Register
  <2>2. ResourceStep(p, R)
    BY <2>1 DEF ResourceStep
  <2> QED BY <1>0, <2>2
<1>6. ASSUME NEW x \in Resources, DispatchStep(x) PROVE [Next]_vars
  <2> DEFINE p == call[x].by
  <2>1. ASSUME UNCHANGED registry PROVE [Next]_vars
    BY <2>1 DEF registry, vars
  <2>2. ASSUME p \in Procs, NEW status \in ResourceStates, NEW cleanup \in Cleanups,
               TryTransition(p, x, status, cleanup)
        PROVE  [Next]_vars
    BY <1>1, <2>1, <2>2 DEF TryTransition
  <2>3. ASSUME p \in Procs, RequestCancel(p, R) PROVE [Next]_vars
    BY <1>0, <2>3 DEF OwnerStep
  <2>4. call[x].pc # "idle" => p \in Procs
    BY DEF NamesInv
  <2> HIDE DEF p
  <2>5. CASE MarkRunning(x)
    <3>1. p \in Procs
      BY <2>4, <2>5 DEF MarkRunning
    <3>2. CASE TransitionAllowed(p, R, x, "running", FALSE)
      BY <1>1, <2>5, <3>1, <3>2 DEF MarkRunning, p, ResourceStates, Cleanups
    <3>3. CASE ~ TransitionAllowed(p, R, x, "running", FALSE)
      BY <2>2, <2>5, <3>1, <3>3 DEF MarkRunning, p, ResourceStates, Cleanups
    <3> QED BY <3>2, <3>3
  <2>6. CASE TokenStop(x)
    BY <2>1, <2>3, <2>4, <2>6 DEF TokenStop, p
  <2>7. CASE AssertCanDispatch(x)
    <3>1. p \in Procs
      BY <2>4, <2>7 DEF AssertCanDispatch
    <3>2. UNCHANGED registry \/ TryTransition(p, x, "unknown", "unverified")
      BY <2>7 DEF AssertCanDispatch, p
    <3> QED BY <2>1, <2>2, <3>1, <3>2 DEF ResourceStates, Cleanups
  <2>8. CASE SettleCall(x)
    <3>1. p \in Procs
      BY <2>4, <2>8 DEF SettleCall
    <3>2. call[x].result \in CallResults
      BY DEF LocalTypes, CallRow
    <3>3. UNCHANGED registry \/ TryTransition(p, x, Outcome(call[x].result),
                                              OutcomeCleanup(call[x].result))
      BY <2>8 DEF SettleCall, TryTransition, p
    <3> QED BY <2>1, <2>2, <3>1, <3>2, <3>3, StatusTypes
  <2>9. CASE \/ Refuse(x) \/ Validate(x) \/ PlanReceipt(x) \/ Spawn(x) \/ SpawnFails(x)
             \/ SealStartFailed(x) \/ Response(x) \/ CloseControl(x) \/ GiveUp(x)
    BY <2>1, <2>9 DEF Refuse, Validate, PlanReceipt, Spawn, SpawnFails, SealStartFailed,
       Response, CloseControl, GiveUp
  <2> QED BY <1>6, <2>5, <2>6, <2>7, <2>8, <2>9 DEF DispatchStep
<1>7. ASSUME NEW x \in Resources, SupervisorStep(x) \/ TargetExits(x) PROVE [Next]_vars
  BY <1>0, <1>7 DEF SupervisorStep, TargetExits, SupRun, SupValidate, SupStart, SupStartFails,
     SupFinish, SupFinishUnclean, SupSeal, SupDies, registry, vars
<1>8. CASE LeaseExpires
  BY <1>8, TheRun DEF LeaseExpires, Next
<1> QED BY <1>3, <1>4, <1>5, <1>6, <1>7, <1>8 DEF CallsNext

-----------------------------------------------------------------------------
(* Type correctness *)

LEMMA FoundTypes ==
  ASSUME LocalTypes, NEW x \in Resources, NEW planned
  PROVE  /\ FromReceipt(x, x \in planned) \in {"unknown"} \cup SettledStates
         /\ FromCancel(x, x \in planned) \in {"unknown"} \cup SettledStates
         /\ Settled(x) => res[x].status \in SettledStates
<1>1. \A result \in {"none", "uncertain"} \cup ConfirmedResults :
         Adopted(result) \in {"unknown"} \cup SettledStates
  BY DEF Adopted, SettledStates
<1>2. receipt[x].result \in {"none", "uncertain"} \cup ConfirmedResults
  BY DEF LocalTypes, ReceiptRow
<1>3. FromReceipt(x, x \in planned) \in {"unknown"} \cup SettledStates
  BY <1>1, <1>2 DEF FromReceipt, SettledStates
<1>4. FromCancel(x, x \in planned) \in {"unknown"} \cup SettledStates
  BY <1>3 DEF FromCancel, SettledStates
<1> QED BY <1>3, <1>4 DEF Settled

LEMMA CallsInitTypes == CallsInit => LocalTypes /\ NamesInv
<1> SUFFICES ASSUME CallsInit PROVE LocalTypes /\ NamesInv
  OBVIOUS
<1>1. NoOne \in CoordinatorRow /\ NoOne.found = "none"
  BY DEF NoOne, CoordinatorRow, CoordinatorSteps
<1>2. [pc |-> "idle", by |-> NoRun, gen |-> 0, result |-> "none"] \in CallRow
  <2>1. 0 \in Generations
    BY ConstantsAssumption DEF Generations
  <2> QED BY <2>1 DEF CallRow, CallSteps, CallResults
<1> QED BY <1>1, <1>2 DEF CallsInit, LocalTypes, NamesInv, ReceiptRow, SupSteps

LEMMA CoordinatorTypes ==
  ASSUME LocalTypes, NamesInv, NEW p \in Procs, CoordinatorStep(p)
  PROVE  LocalTypes' /\ NamesInv'
<1> USE DEF LocalTypes
<1>0. own[p] \in CoordinatorRow /\ \A q \in Procs : own[q] \in CoordinatorRow
  OBVIOUS
\* Whatever is written to the coordinator of p.
<1>1. ASSUME NEW row \in CoordinatorRow, own' = [own EXCEPT ![p] = row],
             row.found # "none" => row.item \in Resources,
             UNCHANGED <<call, receipt, sup, target>>,
             cancelled' \in [Procs -> BOOLEAN],
             report' \in [Procs -> {"none", "cancelled", "recovery_required"}],
             pipe' \in [Resources -> BOOLEAN]
      PROVE  LocalTypes' /\ NamesInv'
  BY <1>1 DEF NamesInv
<1>2. ASSUME NEW pc \in CoordinatorSteps, Goto(p, pc), UNCHANGED <<call, processes>>,
             cancelled' \in [Procs -> BOOLEAN],
             report' \in [Procs -> {"none", "cancelled", "recovery_required"}]
      PROVE  LocalTypes' /\ NamesInv'
  <2> DEFINE row == [own[p] EXCEPT !.pc = pc]
  <2>1. row \in CoordinatorRow /\ row.found = own[p].found /\ row.item = own[p].item
    BY <1>0 DEF CoordinatorRow
  <2>2. own' = [own EXCEPT ![p] = row]
    BY <1>2 DEF Goto
  <2> HIDE DEF row
  <2> QED BY <1>1, <1>2, <2>1, <2>2 DEF processes, NamesInv
<1>3. ASSUME NEW pc \in CoordinatorSteps, NEW todo \in SUBSET Resources, NEW final \in BOOLEAN,
             own' = [own EXCEPT ![p] = Listed(pc, todo, final)],
             UNCHANGED <<cancelled, report, call, processes>>
      PROVE  LocalTypes' /\ NamesInv'
  <2>1. Listed(pc, todo, final) \in CoordinatorRow /\ Listed(pc, todo, final).found = "none"
    BY DEF Listed, CoordinatorRow
  <2> QED BY <1>1, <1>3, <2>1 DEF processes
\* A finding about a call of the list.
<1>4. ASSUME NEW x \in own[p].todo, NEW found \in {"none", "unknown"} \cup SettledStates,
             own' = [own EXCEPT ![p].item = x, ![p].found = found],
             UNCHANGED <<cancelled, report, call, receipt, sup, target>>,
             pipe' \in [Resources -> BOOLEAN]
      PROVE  LocalTypes' /\ NamesInv'
  <2> DEFINE row == [own[p] EXCEPT !.item = x, !.found = found]
  <2>1. x \in Resources
    BY <1>0 DEF CoordinatorRow
  <2>2. row \in CoordinatorRow /\ row.item = x
    BY <1>0, <2>1 DEF CoordinatorRow
  <2>3. own' = [own EXCEPT ![p] = row]
    BY <1>4
  <2> HIDE DEF row
  <2> QED BY <1>1, <1>4, <2>1, <2>2, <2>3
<1>5. CASE Start(p)
  BY <1>3, <1>5 DEF Start, CoordinatorSteps, ResourcesOf
<1>6. CASE InspectOld(p)
  <2>1. PICK x \in own[p].todo :
          own' = [own EXCEPT ![p].item = x,
                   ![p].found = IF Settled(x) THEN res[x].status
                                ELSE FromReceipt(x, x \in own[p].planned)]
    BY <1>6 DEF InspectOld
  <2>2. x \in Resources
    BY <1>0 DEF CoordinatorRow
  <2>3. (IF Settled(x) THEN res[x].status ELSE FromReceipt(x, x \in own[p].planned))
           \in {"none", "unknown"} \cup SettledStates
    BY <2>2, FoundTypes
  <2> QED BY <1>4, <1>6, <2>1, <2>3 DEF InspectOld, processes
<1>7. CASE AskSupervisor(p)
  <2>1. PICK x \in own[p].todo :
          /\ own' = [own EXCEPT ![p].item = x]
          /\ pipe' = [pipe EXCEPT ![x] = @ /\ ~(call[x].by = p /\ call[x].pc = "waiting")]
    BY <1>7 DEF AskSupervisor
  <2> DEFINE row == [own[p] EXCEPT !.item = x]
  <2>2. x \in Resources /\ own[p].found = "none"
    BY <1>0, <1>7 DEF CoordinatorRow, AskSupervisor
  <2>3. row \in CoordinatorRow /\ row.found = "none"
    BY <1>0, <2>2 DEF CoordinatorRow
  <2>4. own' = [own EXCEPT ![p] = row] /\ pipe' \in [Resources -> BOOLEAN]
    BY <2>1
  <2> HIDE DEF row
  <2> QED BY <1>1, <1>7, <2>3, <2>4 DEF AskSupervisor
<1>8. CASE InspectCancelled(p)
  <2>1. PICK x \in own[p].todo :
          own' = [own EXCEPT ![p].item = x,
                   ![p].found = IF own[p].item = x THEN FromReceipt(x, x \in own[p].planned)
                                ELSE FromCancel(x, x \in own[p].planned)]
    BY <1>8 DEF InspectCancelled
  <2>2. x \in Resources
    BY <1>0 DEF CoordinatorRow
  <2>3. (IF own[p].item = x THEN FromReceipt(x, x \in own[p].planned)
         ELSE FromCancel(x, x \in own[p].planned)) \in {"none", "unknown"} \cup SettledStates
    BY <2>2, FoundTypes
  <2> QED BY <1>4, <1>8, <2>1, <2>3 DEF InspectCancelled, processes
<1>9. CASE Record(p)
  <2> DEFINE row == [own[p] EXCEPT !.todo = @ \ {own[p].item}, !.item = NoParent,
                                   !.found = "none", !.bad = @ \/ own[p].found = "unknown"]
  <2>1. \A todo \in SUBSET Resources, bad \in BOOLEAN :
           [own[p] EXCEPT !.todo = todo, !.item = NoParent, !.found = "none", !.bad = bad]
             \in CoordinatorRow
    BY <1>0 DEF CoordinatorRow
  <2>2. row \in CoordinatorRow /\ row.found = "none"
    BY <1>0, <2>1 DEF CoordinatorRow
  <2>3. own' = [own EXCEPT ![p] = row]
    BY <1>9 DEF Record
  <2> HIDE DEF row
  <2> QED BY <1>1, <1>9, <2>2, <2>3 DEF Record, processes
<1>10. CASE EnterCancel(p)
  <2>1. PICK final \in BOOLEAN :
          own' = [own EXCEPT ![p].pc = "closing", ![p].final = final,
                             ![p].item = NoParent, ![p].found = "none"]
    <3>1. (IF own[p].pc = "work" THEN BOOLEAN ELSE {TRUE}) \subseteq BOOLEAN
      OBVIOUS
    <3> QED BY <1>10, <3>1 DEF EnterCancel
  <2> DEFINE row == [own[p] EXCEPT !.pc = "closing", !.final = final,
                                   !.item = NoParent, !.found = "none"]
  <2>2. row \in CoordinatorRow /\ row.found = "none"
    BY <1>0 DEF CoordinatorRow, CoordinatorSteps
  <2>3. own' = [own EXCEPT ![p] = row]
    BY <2>1
  <2> HIDE DEF row
  <2> QED BY <1>1, <1>10, <2>2, <2>3 DEF EnterCancel, processes
<1>11. CASE ListCleanup(p)
  <2>1. own[p].final \in BOOLEAN
    BY <1>0 DEF CoordinatorRow
  <2> QED BY <1>3, <1>11, <2>1 DEF ListCleanup, CoordinatorSteps, ResourcesOf
<1>12. CASE EndCancel(p)
  BY <1>2, <1>12 DEF EndCancel, CoordinatorSteps
<1>13. CASE ResumeCancel(p) \/ CancelCallback(p) \/ CancelToken(p)
  BY <1>13 DEF ResumeCancel, CancelCallback, CancelToken, coordinators, processes, NamesInv
<1>14. CASE \/ RecordRaises(p) \/ GiveUpReconcile(p) \/ BeginWork(p) \/ CheckRelease(p)
            \/ Release(p) \/ Abort(p) \/ LoseOwnership(p)
  BY <1>2, <1>14 DEF RecordRaises, GiveUpReconcile, BeginWork, CheckRelease, Release, Abort,
     LoseOwnership, CoordinatorSteps
<1> QED BY <1>5, <1>6, <1>7, <1>8, <1>9, <1>10, <1>11, <1>12, <1>13, <1>14
   DEF CoordinatorStep, CleanupStep

LEMMA DispatchTypes ==
  ASSUME TypeOK, LocalTypes, NamesInv, NEW x \in Resources,
         DispatchStep(x) \/ \E p \in Procs : Register(p, x)
  PROVE  LocalTypes' /\ NamesInv'
<1> USE DEF LocalTypes
<1>0. /\ \A y \in Resources : call[y] \in CallRow /\ receipt[y] \in ReceiptRow
      /\ {"torn", "terminal", "planned", "running"} \subseteq
           {"none", "planned", "running", "torn", "terminal"}
  OBVIOUS
\* A step of the thread, and what it writes beside the row of its call.
<1>1. ASSUME NEW pc \in CallSteps, NEW result \in CallResults, CallTo(x, pc, result),
             call[x].pc # "idle", UNCHANGED coordinators,
             receipt' \in [Resources -> ReceiptRow], sup' \in [Resources -> SupSteps],
             pipe' \in [Resources -> BOOLEAN], UNCHANGED target
      PROVE  LocalTypes' /\ NamesInv'
  <2> DEFINE row == [call[x] EXCEPT !.pc = pc, !.result = result]
  <2>1. row \in CallRow /\ row.by = call[x].by
    BY <1>0 DEF CallRow
  <2>2. call' = [call EXCEPT ![x] = row]
    BY <1>1 DEF CallTo
  <2> HIDE DEF row
  <2> QED BY <1>1, <2>1, <2>2 DEF NamesInv, coordinators
<1>2. /\ CallResults = {"none", "refused", "raised", "lost", "uncertain", "completed", "cancelled",
                        "timeout", "start_failed", "rejected", "output_limit_exceeded"}
      /\ receipt[x].result \in CallResults /\ call[x].result \in CallResults
  BY <1>0 DEF CallResults, ConfirmedResults, ReceiptRow, CallRow
<1>3. ASSUME NEW p \in Procs, Register(p, x) PROVE LocalTypes' /\ NamesInv'
  <2>1. lease[p][R] \in Generations
    BY TheRun DEF TypeOK
  <2> DEFINE row == [pc |-> "registered", by |-> p, gen |-> lease[p][R], result |-> "none"]
  <2>2. row \in CallRow /\ row.by \in Procs
    BY <1>2, <2>1 DEF CallRow, CallSteps
  <2>3. call' = [call EXCEPT ![x] = row]
    BY <1>3 DEF Register
  <2> HIDE DEF row
  <2> QED BY <1>3, <2>2, <2>3 DEF Register, NamesInv, coordinators, processes
<1>4. CASE MarkRunning(x) \/ TokenStop(x) \/ Refuse(x) \/ AssertCanDispatch(x) \/ Validate(x)
  BY <1>1, <1>2, <1>4 DEF MarkRunning, TokenStop, Refuse, AssertCanDispatch, Validate,
     CallSteps, processes
<1>5. CASE SettleCall(x)
  BY <1>1, <1>2, <1>5 DEF SettleCall, CallSteps, processes
<1>6. CASE PlanReceipt(x)
  <2>1. receipt' \in [Resources -> ReceiptRow]
    BY <1>0, <1>6 DEF PlanReceipt, ReceiptRow
  <2> QED BY <1>1, <1>2, <1>6, <2>1 DEF PlanReceipt, CallSteps
<1>7. CASE Spawn(x)
  BY <1>1, <1>2, <1>7 DEF Spawn, CallSteps, SupSteps
<1>8. CASE SpawnFails(x)
  <2>1. receipt' \in [Resources -> ReceiptRow]
    BY <1>8 DEF SpawnFails, Tear, ReceiptRow, ConfirmedResults
  <2> QED BY <1>1, <1>2, <1>8, <2>1 DEF SpawnFails, CallSteps
<1>9. CASE SealStartFailed(x)
  <2>1. receipt' \in [Resources -> ReceiptRow]
    BY <1>0, <1>9 DEF SealStartFailed, Seal, ReceiptRow
  <2> QED BY <1>1, <1>2, <1>9, <2>1 DEF SealStartFailed, CallSteps
<1>10. CASE Response(x)
  BY <1>1, <1>2, <1>10 DEF Response, CallSteps
<1>11. CASE CloseControl(x)
  BY <1>11 DEF CloseControl, coordinators, NamesInv
<1>12. CASE GiveUp(x)
  BY <1>1, <1>2, <1>12 DEF GiveUp, CallSteps, SupSteps
<1> QED BY <1>3, <1>4, <1>5, <1>6, <1>7, <1>8, <1>9, <1>10, <1>11, <1>12 DEF DispatchStep

LEMMA SupervisorTypes ==
  ASSUME LocalTypes, NamesInv, NEW x \in Resources, SupervisorStep(x) \/ TargetExits(x)
  PROVE  LocalTypes' /\ NamesInv'
<1> USE DEF LocalTypes
<1>0. receipt[x] \in ReceiptRow
  OBVIOUS
<1>1. ASSUME UNCHANGED <<own, call>> PROVE NamesInv'
  BY <1>1 DEF NamesInv
<1>2. ASSUME NEW result \in {"uncertain"} \cup ConfirmedResults, Tear(x, result)
      PROVE  receipt' \in [Resources -> ReceiptRow]
  <2>1. [state |-> "torn", result |-> result] \in ReceiptRow
    BY DEF ReceiptRow
  <2> QED BY <1>2, <2>1 DEF Tear
<1>3. CASE SupRun(x)
  <2>1. receipt' \in [Resources -> ReceiptRow]
    BY <1>0, <1>3 DEF SupRun, ReceiptRow
  <2> QED BY <1>1, <1>3, <2>1 DEF SupRun, SupSteps, coordinators
<1>4. CASE SupValidate(x)
  <2>1. receipt' \in [Resources -> ReceiptRow]
    BY <1>2, <1>4 DEF SupValidate, ConfirmedResults
  <2>2. sup' \in [Resources -> SupSteps]
    BY <1>4 DEF SupValidate, SupSteps
  <2> QED BY <1>1, <1>4, <2>1, <2>2 DEF SupValidate, coordinators
<1>5. CASE SupStart(x)
  BY <1>1, <1>5 DEF SupStart, SupSteps, coordinators
<1>6. CASE SupStartFails(x) \/ SupFinish(x) \/ SupFinishUnclean(x)
  <2>1. receipt' \in [Resources -> ReceiptRow]
    BY <1>2, <1>6 DEF SupStartFails, SupFinish, SupFinishUnclean, Collected, ConfirmedResults
  <2> QED BY <1>1, <1>6, <2>1 DEF SupStartFails, SupFinish, SupFinishUnclean, SupSteps, coordinators
<1>7. CASE SupSeal(x)
  <2>1. receipt' \in [Resources -> ReceiptRow]
    BY <1>0, <1>7 DEF SupSeal, Seal, ReceiptRow
  <2> QED BY <1>1, <1>7, <2>1 DEF SupSeal, SupSteps, coordinators
<1>8. CASE SupDies(x)
  BY <1>1, <1>8 DEF SupDies, SupSteps, coordinators
<1>9. CASE TargetExits(x)
  BY <1>1, <1>9 DEF TargetExits, coordinators
<1> QED BY <1>3, <1>4, <1>5, <1>6, <1>7, <1>8, <1>9 DEF SupervisorStep

LEMMA CrashTypes ==
  ASSUME LocalTypes, NamesInv, NEW p \in Procs, CrashProcess(p)
  PROVE  LocalTypes' /\ NamesInv'
<1> USE DEF LocalTypes
<1>1. NoOne \in CoordinatorRow /\ NoOne.found = "none"
  BY DEF NoOne, CoordinatorRow, CoordinatorSteps
<1>2. \A x \in Resources : [call[x] EXCEPT !.pc = "done", !.result = "lost"] \in CallRow
  <2> SUFFICES ASSUME NEW x \in Resources
               PROVE [call[x] EXCEPT !.pc = "done", !.result = "lost"] \in CallRow
    OBVIOUS
  <2>1. call[x] \in CallRow
    OBVIOUS
  <2> QED BY <2>1 DEF CallRow, CallSteps, CallResults
<1>3. call' \in [Resources -> CallRow]
  BY <1>2 DEF CrashProcess
<1>4. own' = [own EXCEPT ![p] = NoOne]
  BY DEF CrashProcess
<1>5. \A x \in Resources : call'[x].pc # "idle" => call[x].pc # "idle" /\ call'[x].by = call[x].by
  BY DEF CrashProcess, CallRow, Dispatching
<1>6. own' \in [Procs -> CoordinatorRow]
  BY <1>1, <1>4
<1>7. \A q \in Procs : own'[q].found # "none" => own'[q].item \in Resources
  BY <1>1, <1>4 DEF NamesInv
<1>8. NamesInv'
  BY <1>5, <1>7 DEF NamesInv
<1>9. /\ cancelled' \in [Procs -> BOOLEAN] /\ pipe' \in [Resources -> BOOLEAN]
      /\ report' \in [Procs -> {"none", "cancelled", "recovery_required"}]
      /\ UNCHANGED <<receipt, sup, target>>
  BY DEF CrashProcess
<1> QED BY <1>3, <1>6, <1>8, <1>9

\* What types need of the other actors of the call.
TypeInv == TypeOK /\ LocalTypes /\ NamesInv

LEMMA CallsStepTypes == TypeInv /\ [CallsNext]_allVars => TypeInv'
<1> SUFFICES ASSUME TypeInv, [CallsNext]_allVars PROVE TypeInv'
  OBVIOUS
<1> USE DEF TypeInv
<1>1. TypeOK'
  BY StepsOfTheRegistry, StepType
<1>2. CASE UNCHANGED allVars
  BY <1>1, <1>2 DEF allVars, coordinators, processes, LocalTypes, NamesInv
<1>3. CASE LeaseExpires
  BY <1>1, <1>3 DEF LeaseExpires, coordinators, processes, LocalTypes, NamesInv
<1> QED BY <1>1, <1>2, <1>3, CoordinatorTypes, DispatchTypes, SupervisorTypes, CrashTypes
   DEF CallsNext

\* Type correctness of the coordinators, threads, receipts and supervisors.
THEOREM CallsTypeCorrect == CallsSpec => []CallsTypeOK
<1>1. CallsInit => TypeInv
  BY CallsInitTypes, InitType DEF CallsInit, TypeInv
<1>2. TypeInv => CallsTypeOK
  BY TypesSplit DEF TypeInv
<1> QED BY <1>1, <1>2, CallsStepTypes, PTL DEF CallsSpec

-----------------------------------------------------------------------------
(* The inductive invariant *)

Begun(x) == call[x].pc # "idle"

\* A generation that can never be let through to start a target again.
Shut(g) == run[R].token # g \/ run[R].cancel

\* The target of a call does not run and never will.
Harmless(x) ==
    /\ target[x] # "running" /\ sup[x] \notin {"validated", "collecting"}
    /\ \/ Shut(call[x].gen)
       \/ sup[x] \in {"sealing", "exited"}
       \/ sup[x] = "none" /\ call[x].pc \in {"sealing", "settle", "done"}

\* What a confirmed status says of the target is so.
Good(x, status) ==
    status \in SettledStates =>
        /\ Harmless(x)
        /\ status = "completed" => receipt[x].state = "terminal" /\ receipt[x].result = "completed"
        /\ status = "cancelled" => target[x] = "none" \/ receipt[x].result = "cancelled"
        /\ status = "not_started" => target[x] = "none"

\* A receipt in a state, with a result.
Receipt(x, state, result) == receipt[x].state = state /\ receipt[x].result = result

\* A call that was registered and no more.
Fresh(x) ==
    /\ call[x].pc \in {"registered", "done"}
    /\ Receipt(x, "none", "none") /\ sup[x] = "none" /\ target[x] = "none"

RowInv(x) ==
    /\ Begun(x) => /\ res[x].run = R /\ res[x].status # "absent"
                   /\ call[x].gen \in 1 .. run[R].generation
    /\ ~ Begun(x) => res[x].run = NoRun /\ res[x].status = "absent"
    /\ res[x].status = "planned" => Fresh(x)

\* How far thread, receipt, supervisor and target of a call are apart.
StepInv(x) ==
    /\ call[x].pc \in {"idle", "registered", "marked", "asserted", "validated"} =>
          Receipt(x, "none", "none") /\ sup[x] = "none"
    /\ call[x].pc = "planned" => Receipt(x, "planned", "none") /\ sup[x] = "none"
    /\ call[x].pc = "sealing" => Receipt(x, "torn", "start_failed") /\ sup[x] = "none"
    /\ call[x].pc = "waiting" => sup[x] # "none"
    /\ sup[x] = "started" => Receipt(x, "planned", "none")
    /\ sup[x] \in {"running", "validated", "collecting"} => Receipt(x, "running", "none")
    /\ sup[x] = "sealing" => receipt[x].state = "torn"
    /\ sup[x] = "collecting" => target[x] = "running"
    /\ sup[x] \in {"none", "started", "running", "validated"} \/ receipt[x].state \in {"none", "planned"} =>
          target[x] = "none"
    /\ receipt[x].result = "none" <=> receipt[x].state \in {"none", "planned", "running"}

\* A receipt that keeps the workspace from every other call.
Occupies(x) ==
    receipt[x].state \in {"planned", "running", "torn"} \/ receipt[x].result = "uncertain"

OneOccupies == \A x, y \in Resources : Occupies(x) /\ Occupies(y) => x = y

ProofInv(x) ==
    /\ receipt[x].result \in ConfirmedResults => Harmless(x)
    /\ call[x].pc = "settle" => Good(x, Outcome(call[x].result))
    /\ Settled(x) => Good(x, res[x].status)

\* While the run is active, nothing of an earlier generation can start.
ActiveInv(x) ==
    run[R].status = "active" /\ Begun(x) /\ call[x].gen # run[R].generation => Harmless(x)

CallInv == \A x \in Resources : RowInv(x) /\ StepInv(x) /\ ProofInv(x) /\ ActiveInv(x)

CancelIsAsked == run[R].status \in {"cancel_requested", "cancelling"} => run[R].cancel

\* Where the run is at each stage of the coordinator that owns it.
StageInv(p) ==
    /\ own[p].pc \notin {"none", "closed"}
    /\ own[p].pc = "reconcile" =>
          /\ run[R].status \in {"reconciling", "cancel_requested"}
          /\ \A x \in Resources : Begun(x) => call[x].gen # run[R].generation
    /\ own[p].pc \in {"closing", "cancel", "rollback"} => run[R].status = "cancelling"

\* What the coordinator that owns the run may rely on.
ListInv(p) ==
    /\ own[p].pc \in {"reconcile", "cancel"} =>
          /\ \A x \in own[p].planned : Fresh(x)
          /\ \A x \in own[p].todo : Begun(x)
          /\ ~ own[p].bad => \A x \in Resources : Begun(x) /\ x \notin own[p].todo => Harmless(x)
          /\ own[p].found # "none" => own[p].item \in own[p].todo /\ Good(own[p].item, own[p].found)
    /\ own[p].pc \notin {"reconcile", "cancel"} => own[p].found = "none"
    /\ own[p].pc = "rollback" => \A x \in Resources : Begun(x) => Harmless(x)

OwnerInv == \A p \in Procs : Owns(p, R) => StageInv(p) /\ ListInv(p)

CallsInv ==
    /\ OwnershipInv /\ LocalTypes /\ NamesInv
    /\ CallInv /\ OneOccupies /\ CancelIsAsked /\ OwnerInv

-----------------------------------------------------------------------------
(* What a step does to the run *)

LEMMA Numbers ==
  ASSUME TypeInv
  PROVE  /\ run[R] \in RunRow
         /\ run[R].generation \in Nat /\ run[R].token \in Nat
         /\ run[R].status \in RunStates /\ run[R].cancel \in BOOLEAN
         /\ \A p \in Procs : lease[p][R] \in Nat
         /\ \A x \in Resources : call[x].gen \in Nat
         /\ run = [r \in Runs |-> run[R]]
<1> USE DEF TypeInv, TypeOK, LocalTypes
<1>1. run[R] \in RunRow
  BY TheRun
<1>2. Generations \subseteq Nat
  BY ConstantsAssumption DEF Generations
<1>3. \A p \in Procs : lease[p][R] \in Nat
  BY <1>2, TheRun
<1>4. \A x \in Resources : call[x].gen \in Nat
  <2>1. \A x \in Resources : call[x] \in CallRow
    OBVIOUS
  <2> QED BY <1>2, <2>1 DEF CallRow
<1>5. run = [r \in Runs |-> run[R]]
  BY TheRun
<1> QED BY <1>1, <1>2, <1>3, <1>4, <1>5 DEF RunRow

\* The steps that write the row of the run.
LEMMA RunMoves ==
  ASSUME CallsNext
  PROVE  \/ UNCHANGED run /\ (UNCHANGED lease \/ \E p \in Procs : CrashProcess(p))
         \/ \E p \in Procs : Start(p)
         \/ \E p : RequestCancel(p, R) /\ UNCHANGED own
         \/ \E p \in Procs : BeginWork(p)
         \/ \E p \in Procs : EnterCancel(p) /\ BeginCancelling(p, R)
         \/ \E p \in Procs, status \in EndStates \cup {"recovery_required"} :
              Owns(p, R) /\ FenceOff(R, status) /\ UNCHANGED lease
         \/ Expire(R) /\ UNCHANGED own
<1> DEFINE Quiet == UNCHANGED <<run, lease>>
           Fenced == \E p \in Procs, status \in EndStates \cup {"recovery_required"} :
                       Owns(p, R) /\ FenceOff(R, status) /\ UNCHANGED lease
<1>0. UNCHANGED registry => Quiet
  BY DEF registry
<1>1. ASSUME NEW p \in Procs, NEW status \in EndStates \cup {"recovery_required"}, Finish(p, R, status)
      PROVE  Fenced
  <2>1. FenceOff(R, status) \/ FenceOff(R, "recovery_required")
    BY <1>1 DEF Finish
  <2>2. Owns(p, R) /\ UNCHANGED lease
    BY <1>1 DEF Finish
  <2> QED BY <2>1, <2>2
<1>2. ASSUME NEW p \in Procs, MarkRecoveryRequired(p, R) PROVE Fenced
  BY <1>2 DEF MarkRecoveryRequired
<1>3. ASSUME NEW p, NEW x, NEW status, NEW cleanup, NEW adopt,
             TransitionResource(p, R, x, status, cleanup, adopt)
      PROVE  Quiet
  BY <1>3 DEF TransitionResource
<1> HIDE DEF Quiet, Fenced
<1>4. ASSUME NEW p \in Procs, CoordinatorStep(p)
      PROVE  \/ Quiet \/ Fenced \/ Start(p) \/ BeginWork(p)
             \/ RequestCancel(p, R) /\ UNCHANGED own
             \/ EnterCancel(p) /\ BeginCancelling(p, R)
  <2>1. CASE InspectOld(p) \/ AskSupervisor(p) \/ InspectCancelled(p) \/ ListCleanup(p)
             \/ CancelToken(p) \/ CheckRelease(p) \/ LoseOwnership(p)
    BY <1>0, <2>1 DEF InspectOld, AskSupervisor, InspectCancelled, ListCleanup, CancelToken,
       CheckRelease, LoseOwnership
  <2>2. CASE GiveUpReconcile(p) \/ RecordRaises(p)
    BY <1>1, <1>2, <2>2 DEF GiveUpReconcile, RecordRaises
  <2>3. CASE ResumeCancel(p) \/ CancelCallback(p)
    BY <2>3 DEF ResumeCancel, CancelCallback, coordinators
  <2>4. CASE EnterCancel(p)
    BY <1>0, <2>4 DEF EnterCancel
  <2>5. CASE Release(p) \/ Abort(p)
    BY <1>1, <2>5 DEF Release, Abort, EndStates
  <2>6. CASE Record(p)
    BY <1>3, <2>6 DEF Record
  <2>7. CASE EndCancel(p)
    BY <1>0, <1>1, <1>2, <2>7 DEF EndCancel, EndStates, registry
  <2> QED BY <1>4, <2>1, <2>2, <2>3, <2>4, <2>5, <2>6, <2>7 DEF CoordinatorStep, CleanupStep
<1>5. ASSUME NEW x \in Resources, DispatchStep(x)
      PROVE  Quiet \/ \E p : RequestCancel(p, R) /\ UNCHANGED own
  <2>1. CASE MarkRunning(x)
    BY <1>0, <1>3, <2>1 DEF MarkRunning, TryTransition
  <2>2. CASE TokenStop(x)
    BY <1>0, <2>2 DEF TokenStop, coordinators
  <2>3. CASE AssertCanDispatch(x)
    BY <1>0, <1>3, <2>3 DEF AssertCanDispatch, TryTransition
  <2>4. CASE SettleCall(x)
    BY <1>0, <1>3, <2>4 DEF SettleCall
  <2>5. CASE \/ Refuse(x) \/ Validate(x) \/ PlanReceipt(x) \/ Spawn(x) \/ SpawnFails(x)
             \/ SealStartFailed(x) \/ Response(x) \/ CloseControl(x) \/ GiveUp(x)
    BY <1>0, <2>5 DEF Refuse, Validate, PlanReceipt, Spawn, SpawnFails, SealStartFailed,
       Response, CloseControl, GiveUp
  <2> QED BY <1>5, <2>1, <2>2, <2>3, <2>4, <2>5 DEF DispatchStep
<1>6. ASSUME NEW x \in Resources, SupervisorStep(x) \/ TargetExits(x) PROVE Quiet
  BY <1>0, <1>6 DEF SupervisorStep, TargetExits, SupRun, SupValidate, SupStart, SupStartFails,
     SupFinish, SupFinishUnclean, SupSeal, SupDies
<1>7. ASSUME NEW p \in Procs, NEW x \in Resources, Register(p, x) PROVE Quiet
  BY <1>7 DEF Register, RegisterResource, Quiet
<1>8. ASSUME NEW p \in Procs, CrashProcess(p) PROVE UNCHANGED run
  BY <1>8 DEF CrashProcess, Crash
<1>9. CASE LeaseExpires
  BY <1>9 DEF LeaseExpires, coordinators
<1>10. \/ Quiet \/ Fenced
       \/ \E p \in Procs : CrashProcess(p)
       \/ \E p \in Procs : Start(p) \/ BeginWork(p)
       \/ \E p : RequestCancel(p, R) /\ UNCHANGED own
       \/ \E p \in Procs : EnterCancel(p) /\ BeginCancelling(p, R)
       \/ LeaseExpires
  BY <1>4, <1>5, <1>6, <1>7 DEF CallsNext
<1> QED BY <1>8, <1>9, <1>10 DEF Quiet, Fenced

\* The row of the run, after a step of its owner.
LEMMA RowAfter ==
  ASSUME TypeInv
  PROVE  /\ \A p \in Procs : Start(p) =>
              /\ run'[R].status = "reconciling" /\ run'[R].cancel = run[R].cancel
              /\ run'[R].generation = run[R].generation + 1
              /\ run'[R].token = run[R].generation + 1
              /\ \A q \in Procs : lease'[q][R] = IF q = p THEN run[R].generation + 1 ELSE lease[q][R]
         /\ \A p : RequestCancel(p, R) =>
              /\ run'[R].status = "cancel_requested" /\ run'[R].cancel
              /\ run'[R].generation = run[R].generation /\ run'[R].token = run[R].token
              /\ UNCHANGED lease
         /\ \A p \in Procs : BeginWork(p) =>
              /\ run'[R].status = "active" /\ run'[R].cancel = run[R].cancel
              /\ run'[R].generation = run[R].generation /\ run'[R].token = run[R].token
              /\ UNCHANGED lease
         /\ \A p \in Procs : BeginCancelling(p, R) =>
              /\ run'[R].status = "cancelling" /\ run'[R].cancel = run[R].cancel
              /\ run'[R].generation = run[R].generation /\ run'[R].token = run[R].token
              /\ UNCHANGED lease
         /\ \A status : FenceOff(R, status) =>
              /\ run'[R].status = status /\ run'[R].cancel = run[R].cancel
              /\ run'[R].generation = run[R].generation /\ run'[R].token = 0
         /\ Expire(R) =>
              /\ run'[R].status = run[R].status /\ run'[R].cancel = run[R].cancel
              /\ run'[R].generation = run[R].generation /\ run'[R].token = run[R].token
              /\ UNCHANGED lease
<1> USE DEF TypeInv, TypeOK
<1>0. R \in Runs /\ run[R] \in RunRow /\ run \in [Runs -> RunRow]
  BY TheRun
<1>1. ASSUME NEW p \in Procs, Start(p)
      PROVE  /\ run'[R].status = "reconciling" /\ run'[R].cancel = run[R].cancel
             /\ run'[R].generation = run[R].generation + 1
             /\ run'[R].token = run[R].generation + 1
             /\ \A q \in Procs : lease'[q][R] = IF q = p THEN run[R].generation + 1 ELSE lease[q][R]
  BY <1>0, <1>1 DEF Start, Acquire
<1>2. ASSUME NEW p, RequestCancel(p, R)
      PROVE  /\ run'[R].status = "cancel_requested" /\ run'[R].cancel
             /\ run'[R].generation = run[R].generation /\ run'[R].token = run[R].token
             /\ UNCHANGED lease
  BY <1>0, <1>2 DEF RequestCancel, RunRow
<1>3. ASSUME NEW p \in Procs, BeginWork(p)
      PROVE  /\ run'[R].status = "active" /\ run'[R].cancel = run[R].cancel
             /\ run'[R].generation = run[R].generation /\ run'[R].token = run[R].token
             /\ UNCHANGED lease
  BY <1>0, <1>3 DEF BeginWork, Activate, RunRow
<1>4. ASSUME NEW p \in Procs, BeginCancelling(p, R)
      PROVE  /\ run'[R].status = "cancelling" /\ run'[R].cancel = run[R].cancel
             /\ run'[R].generation = run[R].generation /\ run'[R].token = run[R].token
             /\ UNCHANGED lease
  BY <1>0, <1>4 DEF BeginCancelling, RunRow
<1>5. ASSUME NEW status, FenceOff(R, status)
      PROVE  /\ run'[R].status = status /\ run'[R].cancel = run[R].cancel
             /\ run'[R].generation = run[R].generation /\ run'[R].token = 0
  BY <1>0, <1>5 DEF FenceOff
<1>6. ASSUME Expire(R)
      PROVE  /\ run'[R].status = run[R].status /\ run'[R].cancel = run[R].cancel
             /\ run'[R].generation = run[R].generation /\ run'[R].token = run[R].token
             /\ UNCHANGED lease
  BY <1>0, <1>6 DEF Expire, RunRow
<1> QED BY <1>1, <1>2, <1>3, <1>4, <1>5, <1>6

\* A generation that is shut stays shut.
LEMMA RunOnlyGrows ==
  ASSUME TypeInv, TypeInv', CallsNext
  PROVE  /\ run[R].generation <= run'[R].generation
         /\ \A g \in 1 .. run[R].generation : Shut(g) => Shut(g)'
<1>1. \/ UNCHANGED run
      \/ run'[R].generation = run[R].generation /\ run'[R].token \in {0, run[R].token}
         /\ (run[R].cancel => run'[R].cancel)
      \/ run'[R].generation = run[R].generation + 1 /\ run'[R].token = run[R].generation + 1
         /\ (run[R].cancel => run'[R].cancel)
  <2>1. ASSUME NEW p \in Procs, EnterCancel(p), BeginCancelling(p, R)
        PROVE  run'[R].generation = run[R].generation /\ run'[R].token = run[R].token
               /\ run'[R].cancel = run[R].cancel
    BY <2>1, RowAfter
  <2> QED BY <2>1, RunMoves, RowAfter
<1>2. run[R].generation \in Nat
  BY Numbers
<1>3. \A g \in 1 .. run[R].generation : g # 0 /\ g # run[R].generation + 1
  BY <1>2
<1> QED BY <1>1, <1>2, <1>3 DEF Shut

\* Who owns the run after a step owned it before, or has just acquired it.
LEMMA OwnerMoves ==
  ASSUME TypeInv, OwnershipInv, OwnershipInv', CallsNext, NEW p \in Procs, Owns(p, R)', ~ Start(p)
  PROVE  /\ Owns(p, R) /\ UNCHANGED lease[p][R]
         /\ run'[R].generation = run[R].generation /\ run'[R].token = run[R].token
         /\ \A q \in Procs : ~ Start(q)
<1>0. /\ \A q \in Procs : lease[q][R] \in Nat /\ lease[q][R] <= run[R].generation
      /\ run[R].generation \in Nat
  BY Numbers, TheRun DEF OwnershipInv, LeaseIsPast
<1>1. ASSUME NEW q \in Procs, Start(q) PROVE FALSE
  <2>1. q # p /\ lease'[p][R] = lease[p][R] /\ run'[R].generation = run[R].generation + 1
    BY <1>1, RowAfter
  <2> QED BY <1>0, <2>1 DEF Owns
<1>2. ASSUME NEW q \in Procs, CrashProcess(q) PROVE lease'[p][R] = lease[p][R]
  <2>1. \A r \in Procs : lease'[r][R] = IF r = q THEN 0 ELSE lease[r][R]
    BY <1>2, TheRun DEF CrashProcess, Crash, TypeInv, TypeOK
  <2> QED BY <2>1 DEF Owns
<1>3. ASSUME NEW status, FenceOff(R, status) PROVE FALSE
  <2>1. run'[R].token = 0
    BY <1>3, RowAfter
  <2> QED BY <2>1 DEF Owns
<1>4. /\ lease'[p][R] = lease[p][R]
      /\ run'[R].generation = run[R].generation /\ run'[R].token = run[R].token
  BY <1>1, <1>2, <1>3, RunMoves, RowAfter
<1> QED BY <1>1, <1>4 DEF Owns

\* The same with the status of the run, which only the owner moves.
LEMMA OwnerSees ==
  ASSUME TypeInv, OwnershipInv, OwnershipInv', CallsNext, CancelIsAsked,
         NEW p \in Procs, Owns(p, R)', ~ Start(p)
  PROVE  \/ run'[R].status = run[R].status
         \/ run'[R].status = "cancel_requested" /\ run[R].status # "cancelling" /\ UNCHANGED own
         \/ run'[R].status = "active" /\ BeginWork(p)
         \/ run'[R].status = "cancelling" /\ EnterCancel(p)
<1>1. /\ Owns(p, R)
      /\ \A q \in Procs : ~ Start(q)
  BY OwnerMoves
<1>2. \A q \in Procs : Owns(q, R) => q = p
  BY <1>1, TheRun DEF OwnershipInv, UniqueOwner, Owns
<1>3. ASSUME NEW status, FenceOff(R, status) PROVE FALSE
  <2>1. run'[R].token = 0
    BY <1>3, RowAfter
  <2> QED BY <2>1 DEF Owns
<1>4. ASSUME NEW q, RequestCancel(q, R), UNCHANGED own
      PROVE  run'[R].status = "cancel_requested" /\ run[R].status # "cancelling" /\ UNCHANGED own
  <2>1. run[R].status # "cancelling"
    BY <1>4 DEF RequestCancel, CancelIsAsked
  <2> QED BY <1>4, <2>1, RowAfter
<1>5. ASSUME NEW q \in Procs, BeginWork(q)
      PROVE  run'[R].status = "active" /\ BeginWork(p)
  <2>1. Owns(q, R)
    BY <1>5 DEF BeginWork, Activate
  <2> QED BY <1>2, <1>5, <2>1, RowAfter
<1>6. ASSUME NEW q \in Procs, EnterCancel(q), BeginCancelling(q, R)
      PROVE  run'[R].status = "cancelling" /\ EnterCancel(p)
  <2>1. Owns(q, R)
    BY <1>6 DEF BeginCancelling
  <2> QED BY <1>2, <1>6, <2>1, RowAfter
<1> QED BY <1>1, <1>3, <1>4, <1>5, <1>6, RunMoves, RowAfter

-----------------------------------------------------------------------------
(* What a step does to a call *)

\* The thread, receipt, supervisor and target of a call are left alone.
Same(x) ==
    /\ call'[x] = call[x] /\ receipt'[x] = receipt[x]
    /\ sup'[x] = sup[x] /\ target'[x] = target[x]

\* Its thread dies with the process.
ThreadDies(x) ==
    /\ call[x].pc # "idle" /\ call'[x].pc = "done" /\ call'[x].gen = call[x].gen
    /\ receipt'[x] = receipt[x] /\ sup'[x] = sup[x] /\ target'[x] = target[x]

LEMMA CoordinatorsLeaveCalls ==
  ASSUME NEW p \in Procs, CoordinatorStep(p)
  PROVE  UNCHANGED <<call, receipt, sup, target>>
<1>1. UNCHANGED processes => UNCHANGED <<receipt, sup, target>>
  BY DEF processes
<1> QED BY <1>1 DEF CoordinatorStep, CleanupStep, Start, InspectOld, GiveUpReconcile, BeginWork,
   ResumeCancel, CancelToken, CancelCallback, EnterCancel, CheckRelease, Release, Abort,
   ListCleanup, AskSupervisor, InspectCancelled, Record, RecordRaises, EndCancel, LoseOwnership

LEMMA CallMoves ==
  ASSUME TypeInv, CallsNext, NEW x \in Resources
  PROVE  \/ Same(x) \/ ThreadDies(x)
         \/ \E p \in Procs : Register(p, x)
         \/ DispatchStep(x) \/ SupervisorStep(x) \/ TargetExits(x)
<1> USE DEF TypeInv, LocalTypes
<1>0. ASSUME UNCHANGED <<call, receipt, sup, target>> PROVE Same(x)
  BY <1>0 DEF Same
<1>1. ASSUME NEW p \in Procs, CoordinatorStep(p) PROVE Same(x)
  BY <1>0, <1>1, CoordinatorsLeaveCalls
<1>2. ASSUME NEW p \in Procs, CrashProcess(p) PROVE Same(x) \/ ThreadDies(x)
  <2>1. call[x] \in CallRow
    OBVIOUS
  <2>2. CASE call[x].by = p /\ Dispatching(x)
    BY <1>2, <2>1, <2>2 DEF CrashProcess, ThreadDies, Dispatching, CallRow
  <2>3. CASE ~ (call[x].by = p /\ Dispatching(x))
    BY <1>2, <2>3 DEF CrashProcess, Same
  <2> QED BY <2>2, <2>3
<1>3. ASSUME NEW y \in Resources, y # x, NEW p \in Procs, Register(p, y) PROVE Same(x)
  BY <1>3 DEF Register, processes, Same
<1>4. ASSUME NEW y \in Resources, y # x, DispatchStep(y) PROVE Same(x)
  <2>1. CASE MarkRunning(y) \/ TokenStop(y) \/ Refuse(y) \/ AssertCanDispatch(y) \/ Validate(y)
             \/ SettleCall(y)
    BY <1>4, <2>1 DEF MarkRunning, TokenStop, Refuse, AssertCanDispatch, Validate, SettleCall,
       CallTo, processes, Same
  <2>2. CASE PlanReceipt(y) \/ Spawn(y) \/ SpawnFails(y) \/ SealStartFailed(y) \/ Response(y)
             \/ CloseControl(y) \/ GiveUp(y)
    BY <1>4, <2>2 DEF PlanReceipt, Spawn, SpawnFails, SealStartFailed, Response, CloseControl,
       GiveUp, CallTo, Tear, Seal, Same
  <2> QED BY <1>4, <2>1, <2>2 DEF DispatchStep
<1>5. ASSUME NEW y \in Resources, y # x, SupervisorStep(y) \/ TargetExits(y) PROVE Same(x)
  BY <1>5 DEF SupervisorStep, TargetExits, SupRun, SupValidate, SupStart, SupStartFails,
     SupFinish, SupFinishUnclean, SupSeal, SupDies, Tear, Seal, Same
<1>6. CASE LeaseExpires
  BY <1>0, <1>6 DEF LeaseExpires, processes
<1> QED BY <1>1, <1>2, <1>3, <1>4, <1>5, <1>6 DEF CallsNext

\* What the steps of a call write about it.
LEMMA CallAfter ==
  ASSUME TypeInv, NEW x \in Resources
  PROVE  /\ \A pc, result : CallTo(x, pc, result) =>
              call'[x].pc = pc /\ call'[x].result = result /\ call'[x].gen = call[x].gen
         /\ \A result : Tear(x, result) => Receipt(x, "torn", result)'
         /\ Seal(x) => /\ receipt[x].state = "torn" /\ receipt'[x].state = "terminal"
                       /\ receipt'[x].result = receipt[x].result
<1> USE DEF TypeInv, LocalTypes
<1>1. call[x] \in CallRow /\ receipt[x] \in ReceiptRow
  OBVIOUS
<1>2. ASSUME NEW pc, NEW result, CallTo(x, pc, result)
      PROVE  call'[x].pc = pc /\ call'[x].result = result /\ call'[x].gen = call[x].gen
  BY <1>1, <1>2 DEF CallTo, CallRow
<1>3. ASSUME NEW result, Tear(x, result) PROVE Receipt(x, "torn", result)'
  BY <1>3 DEF Tear, Receipt
<1>4. ASSUME Seal(x)
      PROVE  /\ receipt[x].state = "torn" /\ receipt'[x].state = "terminal"
             /\ receipt'[x].result = receipt[x].result
  BY <1>1, <1>4 DEF Seal, ReceiptRow
<1> QED BY <1>2, <1>3, <1>4

LEMMA StepPreserved ==
  ASSUME TypeInv, CallsNext, NEW x \in Resources, StepInv(x)
  PROVE  StepInv(x)'
<1> USE DEF StepInv, Receipt
<1>0. /\ receipt[x] \in ReceiptRow /\ call[x] \in CallRow
      /\ sup \in [Resources -> SupSteps] /\ receipt \in [Resources -> ReceiptRow]
      /\ target \in [Resources -> {"none", "running", "stopped"}]
  BY DEF TypeInv, LocalTypes
<1>1. CASE Same(x)
  BY <1>1 DEF Same
<1>2. CASE ThreadDies(x)
  BY <1>2 DEF ThreadDies
<1>3. ASSUME NEW p \in Procs, Register(p, x) PROVE StepInv(x)'
  <2>1. call'[x].pc = "registered"
    BY <1>3 DEF Register, TypeInv, LocalTypes
  <2> QED BY <1>3, <2>1 DEF Register, processes
<1>4. CASE MarkRunning(x) \/ TokenStop(x) \/ Refuse(x) \/ AssertCanDispatch(x) \/ Validate(x)
           \/ SettleCall(x)
  <2>1. UNCHANGED <<receipt, sup, target>>
    BY <1>4 DEF MarkRunning, TokenStop, Refuse, AssertCanDispatch, Validate, SettleCall, processes
  <2>2. \/ call'[x].pc \in {"marked", "asserted", "validated"}
              /\ call[x].pc \in {"registered", "marked", "asserted"}
        \/ call'[x].pc \in {"settle", "done"}
    BY <1>4, CallAfter DEF MarkRunning, TokenStop, Refuse, AssertCanDispatch, Validate, SettleCall
  <2> QED BY <2>1, <2>2
<1>5. CASE PlanReceipt(x)
  <2>1. CASE Plannable(x)
    <3>1. receipt'[x].state = "planned" /\ receipt'[x].result = receipt[x].result
      BY <1>0, <1>5, <2>1 DEF PlanReceipt, ReceiptRow
    <3>2. call'[x].pc = "planned"
      BY <1>5, <2>1, CallAfter DEF PlanReceipt
    <3> QED BY <1>5, <3>1, <3>2 DEF PlanReceipt
  <2>2. CASE ~ Plannable(x)
    <3>1. call'[x].pc = "settle" /\ UNCHANGED <<receipt, sup, target>>
      BY <1>5, <2>2, CallAfter DEF PlanReceipt
    <3> QED BY <3>1
  <2> QED BY <2>1, <2>2
<1>6. CASE Spawn(x)
  <2>1. sup'[x] = "started" /\ call'[x].pc = "waiting" /\ UNCHANGED <<receipt, target>>
    BY <1>0, <1>6, CallAfter DEF Spawn
  <2> QED BY <1>6, <2>1 DEF Spawn
<1>7. CASE SpawnFails(x)
  <2>1. Receipt(x, "torn", "start_failed")' /\ call'[x].pc = "sealing" /\ UNCHANGED <<sup, target>>
    BY <1>7, CallAfter DEF SpawnFails
  <2> QED BY <1>7, <2>1 DEF SpawnFails
<1>8. CASE SealStartFailed(x)
  <2>1. /\ receipt'[x].state = "terminal" /\ receipt'[x].result = receipt[x].result
        /\ call'[x].pc = "settle" /\ UNCHANGED <<sup, target>>
    BY <1>8, CallAfter DEF SealStartFailed
  <2> QED BY <1>8, <2>1 DEF SealStartFailed
<1>9. CASE Response(x) \/ CloseControl(x)
  <2>1. UNCHANGED <<receipt, sup, target>> /\ (call'[x].pc = "settle" \/ UNCHANGED call)
    BY <1>9, CallAfter DEF Response, CloseControl
  <2> QED BY <2>1
<1>10. CASE GiveUp(x)
  <2>1. /\ UNCHANGED <<receipt, target>> /\ call'[x].pc = "settle" /\ sup'[x] = "exited"
        /\ sup[x] # "none"
    BY <1>0, <1>10, CallAfter DEF GiveUp
  <2> QED BY <2>1
<1>11. CASE SupRun(x)
  <2>1. /\ receipt'[x].state = "running" /\ receipt'[x].result = receipt[x].result
        /\ sup'[x] = "running" /\ UNCHANGED <<call, target>>
    BY <1>0, <1>11 DEF SupRun, ReceiptRow
  <2> QED BY <1>11, <2>1 DEF SupRun
<1>12. CASE SupValidate(x) \/ SupStartFails(x)
  <2>1. /\ UNCHANGED <<call, target>>
        /\ \/ sup'[x] = "validated" /\ UNCHANGED receipt
           \/ sup'[x] = "sealing" /\ \E result \in {"rejected", "start_failed"} :
                Receipt(x, "torn", result)'
    BY <1>0, <1>12, CallAfter DEF SupValidate, SupStartFails
  <2> QED BY <1>12, <2>1 DEF SupValidate, SupStartFails
<1>13. CASE SupStart(x)
  <2>1. UNCHANGED <<call, receipt>> /\ sup'[x] = "collecting" /\ target'[x] = "running"
    BY <1>0, <1>13 DEF SupStart
  <2> QED BY <1>13, <2>1 DEF SupStart
<1>14. CASE SupFinish(x) \/ SupFinishUnclean(x)
  <2>1. /\ UNCHANGED call /\ sup'[x] = "sealing"
        /\ \E result \in {"completed", "timeout", "output_limit_exceeded", "cancelled", "uncertain"} :
             Receipt(x, "torn", result)'
    BY <1>0, <1>14, CallAfter DEF SupFinish, SupFinishUnclean, Collected
  <2> QED BY <1>14, <2>1 DEF SupFinish, SupFinishUnclean
<1>15. CASE SupSeal(x)
  <2>1. /\ UNCHANGED <<call, target>> /\ sup'[x] = "exited"
        /\ receipt'[x].state = "terminal" /\ receipt'[x].result = receipt[x].result /\ receipt[x].state = "torn"
    BY <1>0, <1>15, CallAfter DEF SupSeal
  <2> QED BY <1>15, <2>1 DEF SupSeal
<1>16. CASE SupDies(x)
  <2>1. UNCHANGED <<call, receipt, target>> /\ sup'[x] = "exited" /\ sup[x] # "none"
    BY <1>0, <1>16 DEF SupDies
  <2> QED BY <2>1
<1>17. CASE TargetExits(x)
  <2>1. UNCHANGED <<call, receipt, sup>> /\ target[x] = "running" /\ sup[x] = "exited"
    BY <1>17 DEF TargetExits
  <2> QED BY <2>1
<1> QED BY <1>1, <1>2, <1>3, <1>4, <1>5, <1>6, <1>7, <1>8, <1>9, <1>10, <1>11, <1>12, <1>13,
   <1>14, <1>15, <1>16, <1>17, CallMoves DEF DispatchStep, SupervisorStep

\* A call that was begun keeps its generation.
LEMMA BegunStays ==
  ASSUME TypeInv, TypeInv', CallsNext, NEW x \in Resources, Begun(x)
  PROVE  /\ Begun(x)' /\ call'[x].gen = call[x].gen
         /\ call[x].gen \in 1 .. run[R].generation => call'[x].gen \in 1 .. run'[R].generation
<1> USE DEF Begun
<1>1. Begun(x)' /\ call'[x].gen = call[x].gen
  <2>1. CASE Same(x) \/ ThreadDies(x)
    BY <2>1 DEF Same, ThreadDies
  <2>2. ASSUME NEW p \in Procs, Register(p, x) PROVE FALSE
    BY <2>2 DEF Register
  <2>3. CASE DispatchStep(x)
    <3>1. CASE MarkRunning(x) \/ TokenStop(x) \/ Refuse(x) \/ AssertCanDispatch(x) \/ Validate(x)
               \/ SettleCall(x)
      <4>1. \E pc \in CallSteps \ {"idle"} : \E result : CallTo(x, pc, result)
        BY <3>1 DEF MarkRunning, TokenStop, Refuse, AssertCanDispatch, Validate, SettleCall, CallSteps
      <4> QED BY <4>1, CallAfter
    <3>2. CASE PlanReceipt(x) \/ Spawn(x) \/ SpawnFails(x) \/ SealStartFailed(x) \/ Response(x)
               \/ CloseControl(x) \/ GiveUp(x)
      BY <3>2, CallAfter DEF PlanReceipt, Spawn, SpawnFails, SealStartFailed, Response,
         CloseControl, GiveUp
    <3> QED BY <2>3, <3>1, <3>2 DEF DispatchStep
  <2>4. CASE SupervisorStep(x) \/ TargetExits(x)
    BY <2>4 DEF SupervisorStep, TargetExits, SupRun, SupValidate, SupStart, SupStartFails,
       SupFinish, SupFinishUnclean, SupSeal, SupDies
  <2> QED BY <2>1, <2>2, <2>3, <2>4, CallMoves
<1>2. /\ run[R].generation <= run'[R].generation
      /\ run[R].generation \in Nat /\ run'[R].generation \in Nat
  <2>1. run'[R].generation \in Nat
    BY TheRun, ConstantsAssumption DEF TypeInv, TypeOK, RunRow, Generations
  <2> QED BY <2>1, RunOnlyGrows, Numbers
<1> QED BY <1>1, <1>2

\* What is harmless stays harmless: whoever may still start the target asks the
\* registry first, and the generation of the call is shut.
LEMMA HarmlessStays ==
  ASSUME TypeInv, TypeInv', CallsNext, NEW x \in Resources, StepInv(x), Begun(x),
         call[x].gen \in 1 .. run[R].generation, Harmless(x)
  PROVE  Harmless(x)'
<1> DEFINE g == call[x].gen
           Asleep == sup[x] = "none" /\ call[x].pc \in {"sealing", "settle", "done"}
<1>0. /\ sup \in [Resources -> SupSteps]
      /\ target \in [Resources -> {"none", "running", "stopped"}]
  BY DEF TypeInv, LocalTypes
<1>1. Shut(g) => run'[R].token # g \/ run'[R].cancel
  BY RunOnlyGrows DEF Shut
<1>2. target[x] # "running" /\ sup[x] \notin {"validated", "collecting"}
  BY DEF Harmless
<1>3. RequestOwnerValid(R, g) => ~ Shut(g)
  BY DEF RequestOwnerValid, Shut
<1>4. /\ target'[x] # "running" /\ sup'[x] \notin {"validated", "collecting"}
      /\ sup[x] \in {"sealing", "exited"} => sup'[x] \in {"sealing", "exited"}
      /\ Asleep => Asleep'
  <2> USE <1>0, <1>2
  <2>1. CASE Same(x) \/ ThreadDies(x)
    BY <2>1 DEF Same, ThreadDies
  <2>2. ASSUME NEW p \in Procs, Register(p, x) PROVE FALSE
    BY <2>2 DEF Register, Begun
  <2>3. CASE MarkRunning(x) \/ TokenStop(x) \/ Refuse(x) \/ AssertCanDispatch(x) \/ Validate(x)
             \/ SettleCall(x)
    <3>1. UNCHANGED <<sup, target>>
      BY <2>3 DEF MarkRunning, TokenStop, Refuse, AssertCanDispatch, Validate, SettleCall, processes
    <3>2. call[x].pc \in {"sealing", "settle", "done"} => call'[x].pc = "done"
      BY <2>3, CallAfter DEF MarkRunning, TokenStop, Refuse, AssertCanDispatch, Validate, SettleCall
    <3> QED BY <3>1, <3>2
  <2>4. CASE PlanReceipt(x) \/ SpawnFails(x) \/ SealStartFailed(x) \/ Response(x) \/ CloseControl(x)
    <3>1. UNCHANGED <<sup, target>>
      BY <2>4 DEF PlanReceipt, SpawnFails, SealStartFailed, Response, CloseControl
    <3>2. call[x].pc \in {"sealing", "settle", "done"} => call'[x].pc \in {"sealing", "settle", "done"}
      BY <2>4, CallAfter DEF PlanReceipt, SpawnFails, SealStartFailed, Response, CloseControl
    <3> QED BY <3>1, <3>2
  <2>5. CASE Spawn(x) \/ GiveUp(x)
    <3>1. /\ UNCHANGED target /\ sup'[x] \in {"started", "exited"}
          /\ sup[x] = "none" => call[x].pc \notin {"sealing", "settle", "done"}
          /\ sup[x] \in {"sealing", "exited"} => sup'[x] = "exited"
      BY <2>5 DEF Spawn, GiveUp, StepInv
    <3> QED BY <3>1
  <2>6. CASE SupRun(x) \/ SupStart(x) \/ SupStartFails(x) \/ SupFinish(x) \/ SupFinishUnclean(x)
             \/ SupSeal(x) \/ SupDies(x)
    <3>1. /\ UNCHANGED target \/ target'[x] = "stopped"
          /\ sup[x] # "none" /\ sup'[x] \notin {"validated", "collecting"}
          /\ sup[x] \in {"sealing", "exited"} => sup'[x] = "exited"
      BY <2>6 DEF SupRun, SupStart, SupStartFails, SupFinish, SupFinishUnclean, SupSeal, SupDies
    <3> QED BY <3>1
  <2>7. CASE SupValidate(x)
    <3>1. sup[x] = "running" /\ Shut(g)
      BY <2>7 DEF SupValidate, Harmless
    <3>2. sup'[x] = "sealing" /\ UNCHANGED target
      BY <1>3, <2>7, <3>1 DEF SupValidate
    <3> QED BY <3>1, <3>2
  <2>8. CASE TargetExits(x)
    BY <2>8 DEF TargetExits
  <2> QED BY <2>1, <2>2, <2>3, <2>4, <2>5, <2>6, <2>7, <2>8, CallMoves
     DEF DispatchStep, SupervisorStep
<1>5. call'[x].gen = g
  BY BegunStays
<1> QED BY <1>1, <1>4, <1>5 DEF Harmless, Shut

\* A terminal receipt is final, and a result is never rewritten.
LEMMA GoodStays ==
  ASSUME TypeInv, TypeInv', CallsNext, NEW x \in Resources, StepInv(x), Begun(x),
         call[x].gen \in 1 .. run[R].generation, NEW status, Good(x, status)
  PROVE  Good(x, status)'
<1> USE DEF Begun
<1>0. /\ sup \in [Resources -> SupSteps]
      /\ target \in [Resources -> {"none", "running", "stopped"}]
      /\ receipt \in [Resources -> ReceiptRow] /\ receipt[x] \in ReceiptRow
  BY DEF TypeInv, LocalTypes
<1>1. SUFFICES ASSUME Harmless(x)
               PROVE  /\ Harmless(x)'
                      /\ Receipt(x, "terminal", "completed") => Receipt(x, "terminal", "completed")'
                      /\ receipt[x].result = "cancelled" => receipt'[x].result = "cancelled"
                      /\ target[x] = "none" => target'[x] = "none"
  BY DEF Good, Receipt
<1>2. Harmless(x)'
  BY <1>1, HarmlessStays
<1>3. /\ Receipt(x, "terminal", "completed") => Receipt(x, "terminal", "completed")'
      /\ receipt[x].result = "cancelled" => receipt'[x].result = "cancelled"
  <2> USE DEF Receipt
  <2>1. CASE UNCHANGED receipt
    BY <2>1
  <2>2. CASE Same(x) \/ ThreadDies(x)
    BY <2>2 DEF Same, ThreadDies
  <2>3. CASE \E p \in Procs : Register(p, x)
    BY <2>3 DEF Register, processes
  <2>4. CASE PlanReceipt(x) \/ SpawnFails(x) \/ SealStartFailed(x)
    BY <2>1, <2>4, CallAfter DEF PlanReceipt, SpawnFails, SealStartFailed, StepInv
  <2>5. CASE \/ MarkRunning(x) \/ TokenStop(x) \/ Refuse(x) \/ AssertCanDispatch(x) \/ Validate(x)
             \/ SettleCall(x) \/ Spawn(x) \/ Response(x) \/ CloseControl(x) \/ GiveUp(x)
    BY <2>1, <2>5 DEF MarkRunning, TokenStop, Refuse, AssertCanDispatch, Validate, SettleCall,
       Spawn, Response, CloseControl, GiveUp, processes
  <2>6. CASE SupRun(x) \/ SupValidate(x) \/ SupStartFails(x) \/ SupFinish(x) \/ SupFinishUnclean(x)
    BY <1>0, <2>1, <2>6, CallAfter DEF SupRun, SupValidate, SupStartFails, SupFinish,
       SupFinishUnclean, StepInv
  <2>7. CASE SupSeal(x)
    BY <2>7, CallAfter DEF SupSeal
  <2>8. CASE SupStart(x) \/ SupDies(x) \/ TargetExits(x)
    BY <2>1, <2>8 DEF SupStart, SupDies, TargetExits
  <2> QED BY <2>2, <2>3, <2>4, <2>5, <2>6, <2>7, <2>8, CallMoves
     DEF DispatchStep, SupervisorStep
<1>4. ASSUME target[x] = "none" PROVE target'[x] = "none"
  <2>1. CASE UNCHANGED target
    BY <1>4, <2>1
  <2>2. CASE Same(x) \/ ThreadDies(x)
    BY <1>4, <2>2 DEF Same, ThreadDies
  <2>3. CASE \E p \in Procs : Register(p, x)
    BY <2>1, <2>3 DEF Register, processes
  <2>4. CASE DispatchStep(x)
    BY <2>1, <2>4 DEF DispatchStep, MarkRunning, TokenStop, Refuse, AssertCanDispatch, Validate,
       SettleCall, PlanReceipt, SpawnFails, SealStartFailed, Spawn, Response, CloseControl,
       GiveUp, processes
  <2>5. CASE SupervisorStep(x) \/ TargetExits(x)
    BY <1>1, <1>4, <2>1, <2>5 DEF SupervisorStep, TargetExits, SupRun, SupValidate, SupStart,
       SupStartFails, SupFinish, SupFinishUnclean, SupSeal, SupDies, StepInv, Harmless
  <2> QED BY <2>2, <2>3, <2>4, <2>5, CallMoves
<1> QED BY <1>2, <1>3, <1>4

-----------------------------------------------------------------------------
(* What a step does to the rows of the resources *)

\* The row of a call keeps its run, and changes its status only as here.
RowWrite(x) ==
    \/ \E p \in Procs : /\ Owns(p, R) /\ own[p].found # "none" /\ own[p].item = x
                        /\ res'[x].status = own[p].found
    \/ call[x].pc = "settle" /\ res'[x].status = Outcome(call[x].result)
    \/ res'[x].status = "unknown"
    \/ res'[x].status = "running" /\ run[R].status = "active" /\ ~ run[R].cancel

LEMMA RowMoves ==
  ASSUME TypeInv, CallsNext, NEW x \in Resources
  PROVE  \/ res'[x] = res[x]
         \/ \E p \in Procs : Register(p, x)
         \/ res[x].run = R /\ res'[x].run = R /\ RowWrite(x)
<1> DEFINE Goal == \/ res'[x] = res[x]
                   \/ \E p \in Procs : Register(p, x)
                   \/ res[x].run = R /\ res'[x].run = R /\ RowWrite(x)
<1>0. /\ UNCHANGED res => Goal
      /\ UNCHANGED registry => UNCHANGED res
  BY DEF registry
<1>1. ASSUME NEW p \in Procs, CoordinatorStep(p) PROVE Goal
  <2>1. CASE Record(p)
    <3>1. own[p].item \in Resources /\ own[p].found # "none"
      BY <2>1 DEF Record, TypeInv, NamesInv
    <3>2. /\ Owns(p, R) /\ res[own[p].item].run = R
          /\ \A y \in Resources \ {own[p].item} : res'[y] = res[y]
          /\ res'[own[p].item].status = own[p].found /\ res'[own[p].item].run = R
      BY <2>1, <3>1 DEF Record, TransitionResource, TransitionAllowed, TypeInv, TypeOK
    <3> QED BY <3>1, <3>2 DEF RowWrite
  <2>2. CASE Start(p) \/ GiveUpReconcile(p) \/ BeginWork(p) \/ ResumeCancel(p) \/ CancelCallback(p)
             \/ RecordRaises(p) \/ Release(p) \/ Abort(p)
    BY <1>0, <2>2 DEF Start, Acquire, GiveUpReconcile, MarkRecoveryRequired, BeginWork, Activate,
       ResumeCancel, CancelCallback, RequestCancel, RecordRaises, Release, Abort, Finish
  <2>3. CASE EnterCancel(p) \/ EndCancel(p)
    BY <1>0, <2>3 DEF EnterCancel, BeginCancelling, EndCancel, MarkRecoveryRequired, Finish
  <2>4. CASE \/ InspectOld(p) \/ AskSupervisor(p) \/ InspectCancelled(p) \/ ListCleanup(p)
             \/ CancelToken(p) \/ CheckRelease(p) \/ LoseOwnership(p)
    BY <1>0, <2>4 DEF InspectOld, AskSupervisor, InspectCancelled, ListCleanup, CancelToken,
       CheckRelease, LoseOwnership
  <2> QED BY <1>1, <2>1, <2>2, <2>3, <2>4 DEF CoordinatorStep, CleanupStep
<1>2. ASSUME NEW p \in Procs, NEW y \in Resources, Register(p, y) PROVE Goal
  <2>1. CASE y = x
    BY <1>2, <2>1
  <2>2. CASE y # x
    BY <1>2, <2>2 DEF Register, RegisterResource, TypeInv, TypeOK
  <2> QED BY <2>1, <2>2
<1>3. ASSUME NEW y \in Resources, NEW p, NEW status, NEW cleanup,
             TransitionResource(p, R, y, status, cleanup, FALSE),
             \/ status \in {"running", "unknown"}
             \/ call[y].pc = "settle" /\ status = Outcome(call[y].result)
      PROVE  Goal
  <2>1. CASE y = x
    <3>1. /\ res[x].run = R /\ res'[x].status = status /\ res'[x].run = R
          /\ status = "running" => run[R].status = "active" /\ ~ run[R].cancel
      BY <1>3, <2>1 DEF TransitionResource, TransitionAllowed, TypeInv, TypeOK
    <3> QED BY <1>3, <2>1, <3>1 DEF RowWrite
  <2>2. CASE y # x
    BY <1>3, <2>2 DEF TransitionResource, TypeInv, TypeOK
  <2> QED BY <2>1, <2>2
<1> HIDE DEF Goal
<1>4. ASSUME NEW y \in Resources, DispatchStep(y) PROVE Goal
  <2>1. CASE MarkRunning(y) \/ AssertCanDispatch(y)
    BY <1>0, <1>3, <2>1 DEF MarkRunning, AssertCanDispatch, TryTransition
  <2>2. CASE SettleCall(y)
    BY <1>0, <1>3, <2>2 DEF SettleCall
  <2>3. CASE \/ TokenStop(y) \/ Refuse(y) \/ Validate(y) \/ PlanReceipt(y) \/ Spawn(y)
             \/ SpawnFails(y) \/ SealStartFailed(y) \/ Response(y) \/ CloseControl(y) \/ GiveUp(y)
    BY <1>0, <2>3 DEF TokenStop, RequestCancel, Refuse, Validate, PlanReceipt, Spawn, SpawnFails,
       SealStartFailed, Response, CloseControl, GiveUp
  <2> QED BY <1>4, <2>1, <2>2, <2>3 DEF DispatchStep
<1>5. ASSUME NEW y \in Resources, SupervisorStep(y) \/ TargetExits(y) PROVE Goal
  BY <1>0, <1>5 DEF SupervisorStep, TargetExits, SupRun, SupValidate, SupStart, SupStartFails,
     SupFinish, SupFinishUnclean, SupSeal, SupDies
<1>6. ASSUME NEW p \in Procs, CrashProcess(p) PROVE Goal
  BY <1>0, <1>6 DEF CrashProcess, Crash
<1>7. CASE LeaseExpires
  BY <1>0, <1>7 DEF LeaseExpires, Expire
<1> QED BY <1>1, <1>2, <1>4, <1>5, <1>6, <1>7 DEF CallsNext, Goal

-----------------------------------------------------------------------------
(* What the registry and the receipts say of a call *)

\* A call that never got beyond its registration stays so, unless its thread
\* may mark it running.
LEMMA FreshStays ==
  ASSUME TypeInv, CallsNext, NEW x \in Resources, Fresh(x)
  PROVE  \/ Fresh(x)'
         \/ run[R].status = "active" /\ res'[x].status = "running"
<1> USE DEF Fresh, Receipt
<1>1. CASE Same(x) \/ ThreadDies(x)
  BY <1>1 DEF Same, ThreadDies
<1>2. CASE \E p \in Procs : Register(p, x)
  BY <1>2 DEF Register
<1>3. CASE MarkRunning(x)
  <2>1. UNCHANGED <<receipt, sup, target>>
    BY <1>3 DEF MarkRunning, processes
  <2>2. CASE TransitionAllowed(call[x].by, R, x, "running", FALSE)
    <3>1. TransitionResource(call[x].by, R, x, "running", "unverified", FALSE)
      BY <1>3, <2>2 DEF MarkRunning
    <3>2. run[R].status = "active" /\ res'[x].status = "running"
      BY <3>1 DEF TransitionResource, TransitionAllowed, TypeInv, TypeOK
    <3> QED BY <3>2
  <2>3. CASE ~ TransitionAllowed(call[x].by, R, x, "running", FALSE)
    <3>1. call'[x].pc = "done"
      BY <1>3, <2>3, CallAfter DEF MarkRunning
    <3> QED BY <2>1, <3>1
  <2> QED BY <2>2, <2>3
<1>4. CASE DispatchStep(x) /\ ~ MarkRunning(x)
  <2>1. call[x].pc \notin {"registered", "done"}
    BY <1>4 DEF DispatchStep, TokenStop, Refuse, AssertCanDispatch, Validate, PlanReceipt, Spawn,
       SpawnFails, SealStartFailed, Response, CloseControl, GiveUp, SettleCall
  <2> QED BY <2>1
<1>5. CASE SupervisorStep(x) \/ TargetExits(x)
  BY <1>5 DEF SupervisorStep, TargetExits, SupRun, SupValidate, SupStart, SupStartFails,
     SupFinish, SupFinishUnclean, SupSeal, SupDies
<1> QED BY <1>1, <1>2, <1>3, <1>4, <1>5, CallMoves

LEMMA Outcomes ==
  /\ \A result \in CallResults : Outcome(result) \in {"completed", "cancelled", "failed", "unknown"}
  /\ \A result : /\ Outcome(result) = "completed" <=> result = "completed"
                 /\ Outcome(result) = "cancelled" <=> result = "cancelled"
                 /\ Outcome(result) \in SettledStates => result \in ConfirmedResults
  /\ Outcome("rejected") = "failed" /\ Outcome("start_failed") = "failed"
  BY DEF Outcome, SettledStates, ConfirmedResults

LEMMA RowPreserved ==
  ASSUME TypeInv, TypeInv', OwnershipInv, CallsNext, NEW x \in Resources, RowInv(x), StepInv(x)
  PROVE  RowInv(x)'
<1> USE DEF RowInv, Begun
<1>0. /\ R # NoRun
      /\ \A p \in Procs : own[p].found \in {"none", "unknown"} \cup SettledStates
      /\ Outcome(call[x].result) \in {"completed", "cancelled", "failed", "unknown"}
  <2>1. call[x].result \in CallResults /\ \A p \in Procs : own[p] \in CoordinatorRow
    BY DEF TypeInv, LocalTypes, CallRow
  <2> QED BY <2>1, TheRun, ConstantsAssumption, Outcomes DEF CoordinatorRow
<1>1. ASSUME NEW p \in Procs, Register(p, x) PROVE RowInv(x)'
  <2>1. Owns(p, R) /\ UNCHANGED run
    BY <1>1 DEF Register, RegisterResource
  <2>2. lease[p][R] \in 1 .. run[R].generation
    BY <2>1, Numbers DEF Owns
  <2>3. call'[x].pc = "registered" /\ call'[x].gen = lease[p][R]
    BY <1>1 DEF Register, TypeInv, LocalTypes
  <2>4. res'[x].run = R /\ res'[x].status = "planned"
    BY <1>1 DEF Register, RegisterResource, TypeInv, TypeOK
  <2>5. UNCHANGED <<receipt, sup, target>> /\ call[x].pc = "idle"
    BY <1>1 DEF Register, processes
  <2>6. Fresh(x)'
    BY <2>3, <2>5 DEF StepInv, Fresh, Receipt
  <2> QED BY <2>1, <2>2, <2>3, <2>4, <2>6
<1>2. CASE ~ Begun(x) /\ \A p \in Procs : ~ Register(p, x)
  <2>1. ~ (DispatchStep(x) \/ SupervisorStep(x) \/ TargetExits(x)) \/ ~ Begun(x)'
    <3>1. ~ DispatchStep(x)
      BY <1>2 DEF DispatchStep, MarkRunning, TokenStop, Refuse, AssertCanDispatch, Validate,
         PlanReceipt, Spawn, SpawnFails, SealStartFailed, Response, CloseControl, GiveUp, SettleCall
    <3>2. SupervisorStep(x) \/ TargetExits(x) => UNCHANGED call
      BY DEF SupervisorStep, TargetExits, SupRun, SupValidate, SupStart, SupStartFails,
         SupFinish, SupFinishUnclean, SupSeal, SupDies
    <3> QED BY <1>2, <3>1, <3>2
  <2>2. ~ Begun(x)'
    BY <1>2, <2>1, CallMoves DEF Same, ThreadDies
  <2>3. res'[x] = res[x] /\ res[x].status = "absent"
    BY <1>0, <1>2, RowMoves
  <2> QED BY <1>2, <2>2, <2>3
<1>3. CASE Begun(x)
  <2>1. Begun(x)' /\ call'[x].gen \in 1 .. run'[R].generation
    BY <1>3, BegunStays
  <2>2. ~ \E p \in Procs : Register(p, x)
    BY <1>3 DEF Register
  <2>3. CASE res'[x] = res[x]
    <3>1. res[x].status = "planned" => Fresh(x)'
      BY <2>3, FreshStays
    <3> QED BY <1>3, <2>1, <2>3, <3>1
  <2>4. CASE res'[x].run = R /\ RowWrite(x)
    <3>1. res'[x].status \notin {"absent", "planned"}
      BY <1>0, <2>4 DEF RowWrite, SettledStates
    <3> QED BY <2>1, <2>4, <3>1
  <2> QED BY <2>2, <2>3, <2>4, RowMoves
<1> QED BY <1>1, <1>2, <1>3

\* A call given up before it has a supervisor never starts its target.
LEMMA GivenUp ==
  ASSUME TypeInv, NEW x \in Resources, StepInv(x), UNCHANGED <<sup, target>>,
         call[x].pc \in {"marked", "asserted", "validated", "planned", "sealing"},
         call'[x].pc \in {"sealing", "settle"}
  PROVE  Harmless(x)' /\ target'[x] = "none"
  BY DEF StepInv, Harmless

LEMMA ReceiptProves ==
  ASSUME TypeInv, TypeInv', CallsNext, NEW x \in Resources, RowInv(x), StepInv(x), ProofInv(x),
         receipt'[x].result \in ConfirmedResults
  PROVE  Harmless(x)'
<1>0. /\ sup \in [Resources -> SupSteps] /\ receipt \in [Resources -> ReceiptRow]
      /\ target \in [Resources -> {"none", "running", "stopped"}] /\ receipt[x] \in ReceiptRow
      /\ "none" \notin ConfirmedResults
  BY DEF TypeInv, LocalTypes, ConfirmedResults
<1>1. CASE receipt[x].result \in ConfirmedResults
  <2>1. Begun(x)
    BY <1>0, <1>1 DEF StepInv, Begun, Receipt
  <2>2. Harmless(x) /\ call[x].gen \in 1 .. run[R].generation
    BY <1>1, <2>1 DEF ProofInv, RowInv
  <2> QED BY <2>1, <2>2, HarmlessStays
<1>2. CASE receipt[x].result \notin ConfirmedResults
  <2>0. receipt'[x].result # receipt[x].result
    BY <1>2
  <2>1. CASE Same(x) \/ ThreadDies(x)
    BY <2>0, <2>1 DEF Same, ThreadDies
  <2>2. CASE \E p \in Procs : Register(p, x)
    BY <2>0, <2>2 DEF Register, processes
  <2>3. CASE \/ MarkRunning(x) \/ TokenStop(x) \/ Refuse(x) \/ AssertCanDispatch(x) \/ Validate(x)
             \/ SettleCall(x) \/ Spawn(x) \/ Response(x) \/ CloseControl(x) \/ GiveUp(x)
    <3>1. UNCHANGED receipt
      BY <2>3 DEF MarkRunning, TokenStop, Refuse, AssertCanDispatch, Validate, SettleCall,
         Spawn, Response, CloseControl, GiveUp, processes
    <3> QED BY <2>0, <3>1
  <2>4. CASE PlanReceipt(x)
    BY <1>0, <2>0, <2>4 DEF PlanReceipt, ReceiptRow
  <2>5. CASE SpawnFails(x)
    <3>1. call[x].pc = "planned" /\ call'[x].pc = "sealing" /\ UNCHANGED <<sup, target>>
      BY <2>5, CallAfter DEF SpawnFails
    <3> QED BY <3>1, GivenUp
  <2>6. CASE SealStartFailed(x) \/ SupSeal(x)
    BY <2>0, <2>6, CallAfter DEF SealStartFailed, SupSeal
  <2>7. CASE SupRun(x)
    BY <1>0, <2>0, <2>7 DEF SupRun, ReceiptRow
  <2>8. CASE SupValidate(x) \/ SupStartFails(x)
    <3>1. sup'[x] = "sealing" /\ UNCHANGED target /\ sup[x] \in {"running", "validated"}
      BY <1>0, <2>0, <2>8 DEF SupValidate, SupStartFails
    <3> QED BY <3>1 DEF Harmless, StepInv
  <2>9. CASE SupFinish(x)
    <3>1. sup'[x] = "sealing" /\ target'[x] = "stopped"
      BY <1>0, <2>9 DEF SupFinish
    <3> QED BY <3>1 DEF Harmless
  <2>10. CASE SupFinishUnclean(x)
    <3>1. receipt'[x].result = "uncertain"
      BY <2>10, CallAfter DEF SupFinishUnclean, Receipt
    <3> QED BY <3>1 DEF ConfirmedResults
  <2>11. CASE SupStart(x) \/ SupDies(x) \/ TargetExits(x)
    BY <2>0, <2>11 DEF SupStart, SupDies, TargetExits
  <2> QED BY <2>1, <2>2, <2>3, <2>4, <2>5, <2>6, <2>7, <2>8, <2>9, <2>10, <2>11, CallMoves
     DEF DispatchStep, SupervisorStep
<1> QED BY <1>1, <1>2

\* The thread settles its call with what it knows of the target.
LEMMA ThreadProves ==
  ASSUME TypeInv, TypeInv', CallsNext, NEW x \in Resources, RowInv(x), StepInv(x), ProofInv(x),
         call'[x].pc = "settle"
  PROVE  Good(x, Outcome(call[x].result))'
<1> DEFINE Proved(result) == Good(x, Outcome(result))
<1>0. Begun(x) => call[x].gen \in 1 .. run[R].generation
  BY DEF RowInv
<1>1. ASSUME call[x].pc = "settle", call'[x] = call[x] PROVE Good(x, Outcome(call[x].result))'
  <2> DEFINE status == Outcome(call[x].result)
  <2>1. Good(x, status) /\ Begun(x)
    BY <1>1 DEF ProofInv, Begun
  <2>2. \A s : Good(x, s) => Good(x, s)'
    BY <1>0, <2>1, GoodStays
  <2>3. Outcome(call[x].result)' = status
    BY <1>1 DEF Outcome
  <2> HIDE DEF status
  <2> QED BY <2>1, <2>2, <2>3 DEF Good, Harmless, Shut
\* Given up by the thread: nothing was started.
<1>2. ASSUME NEW result \in {"cancelled", "rejected", "start_failed"}, CallTo(x, "settle", result),
             UNCHANGED <<sup, target>>,
             call[x].pc \in {"marked", "asserted", "validated", "planned", "sealing"}
      PROVE  Good(x, Outcome(call[x].result))'
  <2>1. call'[x].result = result
    BY <1>2, CallAfter
  <2>2. Harmless(x)' /\ target'[x] = "none"
    BY <1>2, GivenUp
  <2> QED BY <2>1, <2>2 DEF Good, Outcome
<1>3. ASSUME CallTo(x, "settle", "uncertain") PROVE Good(x, Outcome(call[x].result))'
  <2>1. call'[x].result = "uncertain"
    BY <1>3, CallAfter
  <2> QED BY <2>1 DEF Good, Outcome, SettledStates
<1>4. CASE Same(x)
  BY <1>1, <1>4 DEF Same
<1>5. CASE ThreadDies(x)
  BY <1>5 DEF ThreadDies
<1>6. ASSUME NEW p \in Procs, Register(p, x) PROVE FALSE
  BY <1>6 DEF Register, TypeInv, LocalTypes
<1>7. CASE TokenStop(x) \/ Refuse(x)
  BY <1>2, <1>7 DEF TokenStop, Refuse, processes
<1>8. CASE Validate(x) \/ PlanReceipt(x)
  <2>1. \/ \E pc \in {"planned", "validated"} : \E result : CallTo(x, pc, result)
        \/ CallTo(x, "settle", "rejected") /\ UNCHANGED <<sup, target>>
    BY <1>8 DEF Validate, PlanReceipt, processes
  <2>2. CallTo(x, "settle", "rejected") /\ UNCHANGED <<sup, target>>
    BY <2>1, CallAfter
  <2> QED BY <1>2, <1>8, <2>2 DEF Validate, PlanReceipt
<1>9. CASE SealStartFailed(x)
  BY <1>2, <1>9 DEF SealStartFailed
<1>10. CASE GiveUp(x)
  BY <1>3, <1>10 DEF GiveUp
<1>11. CASE Response(x)
  <2>1. CASE receipt[x].state # "terminal"
    BY <1>3, <1>11, <2>1 DEF Response
  <2>2. CASE receipt[x].state = "terminal"
    <3>1. call'[x].result = receipt[x].result /\ UNCHANGED receipt
      BY <1>11, <2>2, CallAfter DEF Response
    <3>2. Outcome(receipt[x].result) \in SettledStates => Harmless(x)'
      BY <3>1, Outcomes, ReceiptProves
    <3>3. /\ Outcome(receipt[x].result) = "completed" => receipt[x].result = "completed"
          /\ Outcome(receipt[x].result) = "cancelled" => receipt[x].result = "cancelled"
          /\ Outcome(receipt[x].result) # "not_started"
      BY Outcomes DEF Outcome
    <3>4. Outcome(call[x].result)' = Outcome(receipt[x].result)
      BY <3>1 DEF Outcome
    <3> QED BY <2>2, <3>1, <3>2, <3>3, <3>4 DEF Good
  <2> QED BY <2>1, <2>2
<1>12. CASE MarkRunning(x) \/ AssertCanDispatch(x) \/ Spawn(x) \/ SpawnFails(x) \/ SettleCall(x)
  <2>1. \E pc \in {"marked", "asserted", "waiting", "sealing", "done"} : \E result : CallTo(x, pc, result)
    BY <1>12 DEF MarkRunning, AssertCanDispatch, Spawn, SpawnFails, SettleCall
  <2> QED BY <2>1, CallAfter
<1>13. CASE CloseControl(x)
  BY <1>13 DEF CloseControl
<1>14. CASE SupervisorStep(x) \/ TargetExits(x)
  <2>1. UNCHANGED call
    BY <1>14 DEF SupervisorStep, TargetExits, SupRun, SupValidate, SupStart, SupStartFails,
       SupFinish, SupFinishUnclean, SupSeal, SupDies
  <2> QED BY <1>1, <2>1
<1> QED BY <1>4, <1>5, <1>6, <1>7, <1>8, <1>9, <1>10, <1>11, <1>12, <1>13, <1>14, CallMoves
   DEF DispatchStep

\* Whoever writes a confirmed end of a call writes what has happened to it.
LEMMA RowProves ==
  ASSUME TypeInv, TypeInv', CallsNext, NEW x \in Resources, RowInv(x), StepInv(x), ProofInv(x),
         \A p \in Procs : Owns(p, R) => ListInv(p),
         Settled(x)'
  PROVE  Good(x, res[x].status)'
<1> DEFINE status == res'[x].status
<1>0. status \in SettledStates
  BY DEF Settled
<1>1. SUFFICES Good(x, status) /\ Begun(x)
  <2>1. Begun(x) => call[x].gen \in 1 .. run[R].generation
    BY DEF RowInv
  <2>2. \A s : Good(x, s) /\ Begun(x) => Good(x, s)'
    BY <2>1, GoodStays
  <2> QED BY <1>1, <2>2 DEF Good, Harmless, Shut
<1>2. ASSUME res[x].run = R PROVE Begun(x)
  BY <1>2, TheRun, ConstantsAssumption DEF RowInv
<1>3. CASE res'[x] = res[x]
  <2>1. Settled(x) /\ status = res[x].status
    BY <1>3 DEF Settled
  <2>2. Begun(x)
    BY <2>1 DEF Settled, SettledStates, RowInv
  <2> QED BY <2>1, <2>2 DEF ProofInv
<1>4. ASSUME NEW p \in Procs, Register(p, x) PROVE FALSE
  <2>1. status = "planned"
    BY <1>4 DEF Register, RegisterResource, TypeInv, TypeOK
  <2> QED BY <1>0, <2>1 DEF SettledStates
<1>5. CASE res[x].run = R /\ RowWrite(x)
  <2>1. Begun(x)
    BY <1>2, <1>5
  <2>2. ASSUME NEW p \in Procs, Owns(p, R), own[p].found # "none", own[p].item = x,
               status = own[p].found
        PROVE  Good(x, status)
    BY <2>2 DEF ListInv
  <2>3. ASSUME call[x].pc = "settle", status = Outcome(call[x].result) PROVE Good(x, status)
    BY <2>3 DEF ProofInv
  <2>4. status \notin {"unknown", "running"}
    BY <1>0 DEF SettledStates
  <2> HIDE DEF status
  <2> QED BY <1>5, <2>1, <2>2, <2>3, <2>4 DEF RowWrite, status
<1> QED BY <1>3, <1>4, <1>5, RowMoves

LEMMA ProofPreserved ==
  ASSUME TypeInv, TypeInv', CallsNext, NEW x \in Resources, RowInv(x), StepInv(x), ProofInv(x),
         \A p \in Procs : Owns(p, R) => ListInv(p)
  PROVE  ProofInv(x)'
  BY ReceiptProves, ThreadProves, RowProves DEF ProofInv

-----------------------------------------------------------------------------
(* Calls beside each other and beside their owner *)

\* A plan needs a workspace that no other receipt occupies.
LEMMA OccupantStays ==
  ASSUME TypeInv, CallsNext, NEW x \in Resources, StepInv(x), Occupies(x)'
  PROVE  Occupies(x) \/ (PlanReceipt(x) /\ Plannable(x))
<1> USE DEF Occupies
<1>0. receipt \in [Resources -> ReceiptRow] /\ receipt[x] \in ReceiptRow
  BY DEF TypeInv, LocalTypes
<1>1. CASE receipt'[x] = receipt[x]
  BY <1>1
<1>2. CASE Same(x) \/ ThreadDies(x)
  BY <1>2 DEF Same, ThreadDies
<1>3. CASE \E p \in Procs : Register(p, x)
  BY <1>1, <1>3 DEF Register, processes
<1>4. CASE \/ MarkRunning(x) \/ TokenStop(x) \/ Refuse(x) \/ AssertCanDispatch(x) \/ Validate(x)
           \/ SettleCall(x) \/ Spawn(x) \/ Response(x) \/ CloseControl(x) \/ GiveUp(x)
  BY <1>1, <1>4 DEF MarkRunning, TokenStop, Refuse, AssertCanDispatch, Validate, SettleCall,
     Spawn, Response, CloseControl, GiveUp, processes
<1>5. CASE PlanReceipt(x)
  BY <1>1, <1>5 DEF PlanReceipt
<1>6. CASE SpawnFails(x) \/ SealStartFailed(x) \/ SupSeal(x) \/ SupRun(x)
  BY <1>6 DEF SpawnFails, SealStartFailed, SupSeal, SupRun, Seal, StepInv, Receipt
<1>7. CASE SupValidate(x) \/ SupStartFails(x) \/ SupFinish(x) \/ SupFinishUnclean(x)
  BY <1>7 DEF SupValidate, SupStartFails, SupFinish, SupFinishUnclean, StepInv, Receipt
<1>8. CASE SupStart(x) \/ SupDies(x) \/ TargetExits(x)
  BY <1>1, <1>8 DEF SupStart, SupDies, TargetExits
<1> QED BY <1>2, <1>3, <1>4, <1>5, <1>6, <1>7, <1>8, CallMoves DEF DispatchStep, SupervisorStep

LEMMA OneOccupiesPreserved ==
  ASSUME TypeInv, CallsNext, \A x \in Resources : StepInv(x), OneOccupies
  PROVE  OneOccupies'
<1> SUFFICES ASSUME NEW x \in Resources, NEW y \in Resources, Occupies(x)', Occupies(y)', x # y
             PROVE  FALSE
  BY DEF OneOccupies
<1>1. /\ Occupies(x) \/ (PlanReceipt(x) /\ Plannable(x))
      /\ Occupies(y) \/ (PlanReceipt(y) /\ Plannable(y))
  BY OccupantStays
<1>2. Plannable(x) => ~ Occupies(y)
  BY DEF Plannable, Occupies
<1>3. Plannable(y) => ~ Occupies(x)
  BY DEF Plannable, Occupies
<1>4. ~ (PlanReceipt(x) /\ Plannable(x) /\ PlanReceipt(y) /\ Plannable(y))
  <2> SUFFICES ASSUME PlanReceipt(x), Plannable(x), PlanReceipt(y), Plannable(y) PROVE FALSE
    OBVIOUS
  <2>1. call'[x].pc = "planned" /\ call[x].pc = "validated"
    BY CallAfter DEF PlanReceipt
  <2>2. call'[x] = call[x]
    BY DEF PlanReceipt, CallTo, TypeInv, LocalTypes
  <2> QED BY <2>1, <2>2
<1> QED BY <1>1, <1>2, <1>3, <1>4 DEF OneOccupies

LEMMA CancelIsAskedPreserved ==
  ASSUME TypeInv, CallsNext, CancelIsAsked
  PROVE  CancelIsAsked'
<1>1. ASSUME NEW p \in Procs, EnterCancel(p), BeginCancelling(p, R) PROVE CancelIsAsked'
  BY <1>1, RowAfter DEF CancelIsAsked, BeginCancelling
<1>2. ASSUME NEW status \in EndStates \cup {"recovery_required"}, FenceOff(R, status)
      PROVE  CancelIsAsked'
  BY <1>2, RowAfter DEF CancelIsAsked, EndStates
<1> QED BY <1>1, <1>2, RunMoves, RowAfter DEF CancelIsAsked

\* The coordinators that did not step, and those whose own step changes nothing
\* but their row.
LEMMA OthersKeepTheirPlace ==
  ASSUME TypeInv, CallsNext, NEW p \in Procs
  PROVE  own'[p] = own[p] \/ CoordinatorStep(p) \/ CrashProcess(p)
<1>1. ASSUME NEW q \in Procs, CrashProcess(q), q # p PROVE own'[p] = own[p]
  BY <1>1 DEF CrashProcess, TypeInv, LocalTypes
<1>2. ASSUME NEW q \in Procs, CoordinatorStep(q), q # p PROVE own'[p] = own[p]
  <2>1. own \in [Procs -> CoordinatorRow]
    BY DEF TypeInv, LocalTypes
  <2>2. ASSUME NEW pc, Goto(q, pc) PROVE own'[p] = own[p]
    BY <1>2, <2>1, <2>2 DEF Goto
  <2>3. CASE Start(q) \/ ListCleanup(q)
    BY <1>2, <2>1, <2>3 DEF Start, ListCleanup
  <2>4. CASE InspectOld(q) \/ InspectCancelled(q) \/ AskSupervisor(q)
    BY <1>2, <2>1, <2>4 DEF InspectOld, InspectCancelled, AskSupervisor
  <2>5. CASE \/ GiveUpReconcile(q) \/ BeginWork(q) \/ CheckRelease(q) \/ Release(q) \/ Abort(q)
             \/ RecordRaises(q) \/ LoseOwnership(q) \/ EndCancel(q)
    BY <2>2, <2>5 DEF GiveUpReconcile, BeginWork, CheckRelease, Release, Abort, RecordRaises,
       LoseOwnership, EndCancel
  <2>6. CASE ResumeCancel(q) \/ CancelToken(q) \/ CancelCallback(q)
    BY <2>6 DEF ResumeCancel, CancelToken, CancelCallback, coordinators
  <2>7. CASE Record(q) \/ EnterCancel(q)
    BY <1>2, <2>1, <2>7 DEF Record, EnterCancel
  <2> QED BY <1>2, <2>3, <2>4, <2>5, <2>6, <2>7 DEF CoordinatorStep, CleanupStep
<1>3. ASSUME NEW x \in Resources, DispatchStep(x) \/ SupervisorStep(x) \/ TargetExits(x)
      PROVE  UNCHANGED own
  <2>1. UNCHANGED coordinators => UNCHANGED own
    BY DEF coordinators
  <2> QED BY <1>3, <2>1 DEF DispatchStep, SupervisorStep, TargetExits, MarkRunning, TokenStop,
     Refuse, AssertCanDispatch, Validate, PlanReceipt, Spawn, SpawnFails, SealStartFailed, Response,
     CloseControl, GiveUp, SettleCall, SupRun, SupValidate, SupStart, SupStartFails, SupFinish,
     SupFinishUnclean, SupSeal, SupDies
<1>4. ASSUME NEW q \in Procs, NEW x \in Resources, Register(q, x) PROVE UNCHANGED own
  BY <1>4 DEF Register, coordinators
<1>5. CASE LeaseExpires
  BY <1>5 DEF LeaseExpires, coordinators
<1> QED BY <1>1, <1>2, <1>3, <1>4, <1>5 DEF CallsNext

\* The run is activated by an owner that found every earlier call harmless.
LEMMA ActivePreserved ==
  ASSUME CallsInv, TypeInv, TypeInv', OwnershipInv', CallsNext, NEW x \in Resources
  PROVE  ActiveInv(x)'
<1> USE DEF CallsInv
<1> SUFFICES ASSUME run'[R].status = "active", Begun(x)', call'[x].gen # run'[R].generation
             PROVE  Harmless(x)'
  BY DEF ActiveInv
<1>1. RowInv(x) /\ StepInv(x) /\ ActiveInv(x)
  BY DEF CallInv
<1>2. ASSUME NEW p \in Procs, Register(p, x) PROVE FALSE
  <2>1. Owns(p, R) /\ UNCHANGED run
    BY <1>2 DEF Register, RegisterResource
  <2>2. call'[x].gen = lease[p][R]
    BY <1>2 DEF Register, TypeInv, LocalTypes
  <2> QED BY <2>1, <2>2 DEF Owns
<1>3. Begun(x)
  <2>1. CASE Same(x) \/ ThreadDies(x)
    BY <2>1 DEF Same, ThreadDies, Begun
  <2>2. DispatchStep(x) => call[x].pc # "idle"
    BY DEF DispatchStep, MarkRunning, TokenStop, Refuse, AssertCanDispatch, Validate,
       PlanReceipt, Spawn, SpawnFails, SealStartFailed, Response, CloseControl, GiveUp, SettleCall
  <2>3. SupervisorStep(x) \/ TargetExits(x) => UNCHANGED call
    BY DEF SupervisorStep, TargetExits, SupRun, SupValidate, SupStart, SupStartFails,
       SupFinish, SupFinishUnclean, SupSeal, SupDies
  <2> QED BY <1>2, <2>1, <2>2, <2>3, CallMoves DEF Begun
<1>4. call[x].gen \in 1 .. run[R].generation
  BY <1>1, <1>3 DEF RowInv
<1>5. SUFFICES Harmless(x)
  BY <1>1, <1>3, <1>4, <1>5, HarmlessStays
<1>6. call'[x].gen = call[x].gen
  BY <1>3, BegunStays
<1>7. CASE run[R].status = "active" /\ run'[R].generation = run[R].generation
  BY <1>1, <1>3, <1>6, <1>7 DEF ActiveInv
<1>8. ASSUME NEW p \in Procs, BeginWork(p) PROVE Harmless(x)
  <2>1. Owns(p, R) /\ Visited(p, "reconcile") /\ ~ own[p].bad
    BY <1>8 DEF BeginWork, Activate
  <2> QED BY <1>3, <2>1 DEF OwnerInv, ListInv, Visited
<1>9. ASSUME NEW p \in Procs, EnterCancel(p), BeginCancelling(p, R) PROVE FALSE
  BY <1>9, RowAfter
<1>10. ASSUME NEW status \in EndStates \cup {"recovery_required"}, FenceOff(R, status) PROVE FALSE
  <2>1. run'[R].status = status
    BY <1>10, RowAfter
  <2> QED BY <2>1 DEF EndStates
<1>11. CASE UNCHANGED run
  BY <1>7, <1>11
<1>12. CASE Expire(R)
  BY <1>7, <1>12, RowAfter
<1>13. ASSUME NEW p \in Procs, Start(p) PROVE FALSE
  BY <1>13, RowAfter
<1>14. ASSUME NEW p, RequestCancel(p, R) PROVE FALSE
  BY <1>14, RowAfter
<1> QED BY <1>8, <1>9, <1>10, <1>11, <1>12, <1>13, <1>14, RunMoves

-----------------------------------------------------------------------------
(* What an owner may rely on *)

\* A finding about a call that can no longer start its target is right.
LEMMA FoundIsGood ==
  ASSUME TypeInv, NEW x \in Resources, StepInv(x), ProofInv(x), Shut(call[x].gen), NEW planned,
         x \in planned => Fresh(x)
  PROVE  /\ Good(x, FromReceipt(x, x \in planned))
         /\ Good(x, FromCancel(x, x \in planned))
<1>1. CASE receipt[x].state = "none"
  <2>1. target[x] = "none" /\ sup[x] \notin {"validated", "collecting"}
    BY <1>1 DEF StepInv, Receipt
  <2>2. Good(x, "not_started")
    BY <2>1 DEF Good, Harmless
  <2>3. Good(x, "unknown")
    BY DEF Good, SettledStates
  <2> QED BY <1>1, <2>2, <2>3 DEF FromReceipt, FromCancel
<1>2. CASE receipt[x].state = "terminal"
  <2> DEFINE result == receipt[x].result
  <2>1. result \in ConfirmedResults => Harmless(x)
    BY DEF ProofInv
  <2>2. /\ Adopted(result) \in SettledStates => result \in ConfirmedResults
        /\ Adopted(result) = "completed" => result = "completed"
        /\ Adopted(result) = "cancelled" => result = "cancelled"
        /\ Adopted(result) # "not_started"
    BY DEF Adopted, SettledStates, ConfirmedResults
  <2>3. Good(x, Adopted(result))
    BY <1>2, <2>1, <2>2 DEF Good
  <2> QED BY <1>2, <2>3 DEF FromReceipt, FromCancel
<1>3. CASE receipt[x].state = "planned"
  <2>1. target[x] = "none" /\ sup[x] \notin {"validated", "collecting"}
    BY <1>3 DEF StepInv, Receipt
  <2>2. Good(x, "not_started")
    BY <2>1 DEF Good, Harmless
  <2>3. Good(x, "unknown")
    BY DEF Good, SettledStates
  <2> QED BY <1>3, <2>2, <2>3 DEF FromReceipt, FromCancel
<1>4. CASE receipt[x].state \notin {"none", "terminal", "planned"}
  <2>1. Good(x, "unknown")
    BY DEF Good, SettledStates
  <2> QED BY <1>4, <2>1 DEF FromReceipt, FromCancel
<1> QED BY <1>1, <1>2, <1>3, <1>4

\* While the run is not active, no call is begun, and what is known stays so.
LEMMA QuietWhileShut ==
  ASSUME CallsInv, TypeInv, TypeInv', CallsNext, run[R].status # "active", NEW x \in Resources
  PROVE  /\ Begun(x)' <=> Begun(x)
         /\ Begun(x) => call'[x].gen = call[x].gen
         /\ Fresh(x) => Fresh(x)'
         /\ Begun(x) /\ Harmless(x) => Harmless(x)'
         /\ \A status : Begun(x) /\ Good(x, status) => Good(x, status)'
<1>1. RowInv(x) /\ StepInv(x)
  BY DEF CallsInv, CallInv
<1>2. ASSUME NEW p \in Procs, Register(p, x) PROVE FALSE
  BY <1>2 DEF Register, RegisterResource
<1>3. ASSUME ~ Begun(x) PROVE ~ Begun(x)'
  <2>1. ~ (DispatchStep(x) \/ ThreadDies(x))
    BY <1>3 DEF Begun, ThreadDies, DispatchStep, MarkRunning, TokenStop, Refuse, AssertCanDispatch,
       Validate, PlanReceipt, Spawn, SpawnFails, SealStartFailed, Response, CloseControl, GiveUp,
       SettleCall
  <2>2. SupervisorStep(x) \/ TargetExits(x) => UNCHANGED call
    BY DEF SupervisorStep, TargetExits, SupRun, SupValidate, SupStart, SupStartFails,
       SupFinish, SupFinishUnclean, SupSeal, SupDies
  <2> QED BY <1>2, <1>3, <2>1, <2>2, CallMoves DEF Begun, Same
<1>4. ASSUME Begun(x) PROVE Begun(x)' /\ call'[x].gen = call[x].gen /\ call[x].gen \in 1 .. run[R].generation
  BY <1>1, <1>4, BegunStays DEF RowInv
<1>5. Fresh(x) => Fresh(x)'
  BY FreshStays
<1>6. Begun(x) /\ Harmless(x) => Harmless(x)'
  BY <1>1, <1>4, HarmlessStays
<1>7. \A status : Begun(x) /\ Good(x, status) => Good(x, status)'
  BY <1>1, <1>4, GoodStays
<1> QED BY <1>3, <1>4, <1>5, <1>6, <1>7

\* An owner whose coordinator does not move.
LEMMA OwnerWaits ==
  ASSUME CallsInv, TypeInv, TypeInv', OwnershipInv', CallsNext,
         NEW p \in Procs, Owns(p, R)', ~ Start(p), own'[p] = own[p]
  PROVE  StageInv(p)' /\ ListInv(p)'
<1>0. TypeInv /\ OwnershipInv /\ CancelIsAsked /\ OwnerInv
  BY DEF CallsInv
<1>1. Owns(p, R) /\ run'[R].generation = run[R].generation
  BY <1>0, OwnerMoves
<1>2. StageInv(p) /\ ListInv(p)
  BY <1>0, <1>1 DEF OwnerInv
<1>3. own \in [Procs -> CoordinatorRow] /\ own[p] \in CoordinatorRow
  BY <1>0 DEF TypeInv, LocalTypes
<1>4. ~ BeginWork(p) /\ ~ EnterCancel(p)
  <2>1. BeginWork(p) => own[p].pc = "reconcile" /\ own'[p].pc = "work"
    BY <1>3 DEF BeginWork, Goto, Visited, CoordinatorRow
  <2>2. EnterCancel(p) => own[p].pc # "closing" /\ own'[p].pc = "closing"
    <3>1. ASSUME NEW final, own' = [own EXCEPT ![p].pc = "closing", ![p].final = final,
                                              ![p].item = NoParent, ![p].found = "none"]
          PROVE  own'[p].pc = "closing"
      BY <1>3, <3>1 DEF CoordinatorRow
    <3> QED BY <3>1 DEF EnterCancel, Visited
  <2> QED BY <2>1, <2>2
<1>5. \/ run'[R].status = run[R].status
      \/ run'[R].status = "cancel_requested" /\ run[R].status # "cancelling"
  BY <1>0, <1>4, OwnerSees
<1>6. StageInv(p)'
  <2>1. CASE own[p].pc = "reconcile"
    <3>1. run[R].status # "active"
      BY <1>2, <2>1 DEF StageInv
    <3>2. \A x \in Resources : (Begun(x)' <=> Begun(x)) /\ (Begun(x) => call'[x].gen = call[x].gen)
      BY <3>1, QuietWhileShut
    <3> QED BY <1>1, <1>2, <1>5, <2>1, <3>2 DEF StageInv
  <2>2. CASE own[p].pc # "reconcile"
    BY <1>2, <1>5, <2>2 DEF StageInv
  <2> QED BY <2>1, <2>2
<1>7. CASE own[p].pc \in {"reconcile", "cancel", "rollback"}
  <2>1. run[R].status # "active"
    BY <1>2, <1>7 DEF StageInv
  <2>2. \A x \in Resources : /\ Begun(x)' <=> Begun(x)
                             /\ Fresh(x) => Fresh(x)'
                             /\ Begun(x) /\ Harmless(x) => Harmless(x)'
                             /\ \A status : Begun(x) /\ Good(x, status) => Good(x, status)'
    BY <2>1, QuietWhileShut
  <2>3. own[p].todo \subseteq Resources /\ own[p].planned \subseteq Resources
    BY <1>3 DEF CoordinatorRow
  <2>4. own[p].pc \in {"reconcile", "cancel"} => ListInv(p)'
    <3> SUFFICES ASSUME own[p].pc \in {"reconcile", "cancel"} PROVE ListInv(p)'
      OBVIOUS
    <3>1. \A x \in own[p].planned : Fresh(x)'
      BY <1>2, <2>2, <2>3 DEF ListInv
    <3>2. \A x \in own[p].todo : Begun(x)'
      BY <1>2, <2>2, <2>3 DEF ListInv
    <3>3. ~ own[p].bad => \A x \in Resources : Begun(x)' /\ x \notin own[p].todo => Harmless(x)'
      BY <1>2, <2>2 DEF ListInv
    <3>4. ASSUME own[p].found # "none"
          PROVE  own[p].item \in own[p].todo /\ Good(own[p].item, own[p].found)'
      <4>1. PICK x \in Resources : x = own[p].item /\ x \in own[p].todo
        BY <1>2, <2>3, <3>4 DEF ListInv
      <4>2. PICK status : status = own[p].found
        OBVIOUS
      <4>3. Begun(x) /\ Good(x, status)
        BY <1>2, <3>4, <4>1, <4>2 DEF ListInv
      <4>4. Good(x, status)'
        BY <2>2, <4>3
      <4> QED BY <4>1, <4>2, <4>4 DEF Good, Harmless, Shut
    <3> QED BY <3>1, <3>2, <3>3, <3>4 DEF ListInv
  <2>5. own[p].pc = "rollback" => ListInv(p)'
    BY <1>2, <2>2 DEF ListInv
  <2> QED BY <1>6, <1>7, <2>4, <2>5
<1>8. CASE own[p].pc \notin {"reconcile", "cancel", "rollback"}
  BY <1>2, <1>6, <1>8 DEF ListInv
<1> QED BY <1>7, <1>8

\* An owner whose coordinator records what it knows of the calls on its list.
LEMMA OwnerLists ==
  ASSUME CallsInv, TypeInv, TypeInv', OwnershipInv', CallsNext,
         NEW p \in Procs, Owns(p, R)', ~ Start(p),
         \/ InspectOld(p) \/ AskSupervisor(p) \/ InspectCancelled(p) \/ Record(p)
  PROVE  StageInv(p)' /\ ListInv(p)'
<1>0. /\ TypeInv /\ OwnershipInv /\ CancelIsAsked /\ OwnerInv
      /\ own \in [Procs -> CoordinatorRow] /\ own[p] \in CoordinatorRow
      /\ \A x \in Resources : RowInv(x) /\ StepInv(x) /\ ProofInv(x)
  BY DEF CallsInv, CallInv, TypeInv, LocalTypes
<1>1. Owns(p, R)
  BY <1>0, OwnerMoves
<1>2. StageInv(p) /\ ListInv(p)
  BY <1>0, <1>1 DEF OwnerInv
<1>3. own[p].pc \in {"reconcile", "cancel"} /\ UNCHANGED <<run, call, receipt, sup, target>>
  <2>1. UNCHANGED run
    <3>1. UNCHANGED registry => UNCHANGED run
      BY DEF registry
    <3> QED BY <3>1 DEF InspectOld, AskSupervisor, InspectCancelled, Record, TransitionResource
  <2>2. own[p].pc \in {"reconcile", "cancel"}
    BY <1>2 DEF InspectOld, AskSupervisor, InspectCancelled, Record, ListInv
  <2>3. CoordinatorStep(p)
    BY DEF CoordinatorStep, CleanupStep
  <2> QED BY <2>1, <2>2, <2>3, CoordinatorsLeaveCalls
\* Nothing that the invariant says of the calls has changed.
<1>4. /\ \A x : (Begun(x)' <=> Begun(x)) /\ (Fresh(x)' <=> Fresh(x)) /\ (Harmless(x)' <=> Harmless(x))
      /\ \A x, status : Good(x, status)' <=> Good(x, status)
  BY <1>3 DEF Begun, Fresh, Receipt, Harmless, Shut, Good
\* The generations of the calls on the list are shut.
<1>5. \A x \in own[p].todo : x \in Resources /\ Begun(x) /\ Shut(call[x].gen)
  <2>1. \A x \in own[p].todo : x \in Resources /\ Begun(x)
    BY <1>0, <1>2, <1>3 DEF CoordinatorRow, ListInv
  <2>2. own[p].pc = "reconcile" => \A x \in own[p].todo : Shut(call[x].gen)
    BY <1>1, <1>2, <2>1 DEF StageInv, Shut, Owns
  <2>3. own[p].pc = "cancel" => run[R].cancel
    BY <1>0, <1>2 DEF StageInv, CancelIsAsked
  <2> QED BY <1>3, <2>1, <2>2, <2>3 DEF Shut
<1>6. ASSUME own'[p].pc = own[p].pc PROVE StageInv(p)'
  BY <1>2, <1>3, <1>4, <1>6 DEF StageInv
<1>7. ASSUME NEW x \in own[p].todo, NEW found,
             own' = [own EXCEPT ![p].item = x, ![p].found = found],
             found # "none" => Good(x, found)
      PROVE  StageInv(p)' /\ ListInv(p)'
  <2>1. /\ own'[p].pc = own[p].pc /\ own'[p].planned = own[p].planned
        /\ own'[p].todo = own[p].todo /\ own'[p].bad = own[p].bad
        /\ own'[p].item = x /\ own'[p].found = found
    BY <1>0, <1>7 DEF CoordinatorRow
  <2>2. own'[p].found # "none" => own'[p].item \in own'[p].todo /\ Good(own'[p].item, own'[p].found)
    BY <1>7, <2>1
  <2>3. ListInv(p)'
    BY <1>2, <1>3, <1>4, <2>1, <2>2 DEF ListInv
  <2> QED BY <1>6, <2>1, <2>3
<1>8. CASE InspectOld(p)
  <2>1. PICK x \in own[p].todo :
          own' = [own EXCEPT ![p].item = x,
                   ![p].found = IF Settled(x) THEN res[x].status
                                ELSE FromReceipt(x, x \in own[p].planned)]
    BY <1>8 DEF InspectOld
  <2>2. Settled(x) => Good(x, res[x].status)
    BY <1>0, <1>5 DEF ProofInv
  <2>3. Good(x, FromReceipt(x, x \in own[p].planned))
    <3>1. x \in own[p].planned => Fresh(x)
      BY <1>2, <1>3 DEF ListInv
    <3> QED BY <1>0, <1>5, <3>1, FoundIsGood
  <2> QED BY <1>7, <2>1, <2>2, <2>3
<1>9. CASE InspectCancelled(p)
  <2>1. PICK x \in own[p].todo :
          own' = [own EXCEPT ![p].item = x,
                   ![p].found = IF own[p].item = x THEN FromReceipt(x, x \in own[p].planned)
                                ELSE FromCancel(x, x \in own[p].planned)]
    BY <1>9 DEF InspectCancelled
  <2>2. Good(x, FromReceipt(x, x \in own[p].planned)) /\ Good(x, FromCancel(x, x \in own[p].planned))
    <3>1. x \in own[p].planned => Fresh(x)
      BY <1>2, <1>3 DEF ListInv
    <3> QED BY <1>0, <1>5, <3>1, FoundIsGood
  <2> QED BY <1>7, <2>1, <2>2
<1>10. CASE AskSupervisor(p)
  <2>1. PICK x \in own[p].todo : own' = [own EXCEPT ![p].item = x]
    BY <1>10 DEF AskSupervisor
  <2>2. /\ own'[p].pc = own[p].pc /\ own'[p].planned = own[p].planned
        /\ own'[p].todo = own[p].todo /\ own'[p].bad = own[p].bad
        /\ own'[p].found = own[p].found /\ own[p].found = "none"
    BY <1>0, <1>10, <2>1 DEF CoordinatorRow, AskSupervisor
  <2>3. ListInv(p)'
    BY <1>2, <1>3, <1>4, <2>2 DEF ListInv
  <2> QED BY <1>6, <2>2, <2>3
<1>11. CASE Record(p)
  <2>1. /\ own'[p].pc = own[p].pc /\ own'[p].planned = own[p].planned
        /\ own'[p].todo = own[p].todo \ {own[p].item} /\ own'[p].found = "none"
        /\ own'[p].bad = (own[p].bad \/ own[p].found = "unknown")
        /\ own[p].found # "none"
    BY <1>0, <1>11 DEF Record, CoordinatorRow
  <2>2. ~ own'[p].bad => Harmless(own[p].item)
    <3>1. own[p].found \in {"none", "unknown"} \cup SettledStates
      BY <1>0 DEF CoordinatorRow
    <3>2. Good(own[p].item, own[p].found)
      BY <1>2, <1>3, <2>1 DEF ListInv
    <3> QED BY <2>1, <3>1, <3>2 DEF Good
  <2>3. ListInv(p)'
    BY <1>2, <1>3, <1>4, <2>1, <2>2 DEF ListInv
  <2> QED BY <1>6, <2>1, <2>3
<1> QED BY <1>8, <1>9, <1>10, <1>11

LEMMA OwnerStarts ==
  ASSUME CallsInv, TypeInv, TypeInv', CallsNext, NEW p \in Procs, Start(p)
  PROVE  StageInv(p)' /\ ListInv(p)'
<1>0. /\ TypeInv /\ own \in [Procs -> CoordinatorRow]
      /\ \A x \in Resources : RowInv(x)
      /\ run[R].generation \in Nat
  BY Numbers DEF CallsInv, CallInv, TypeInv, LocalTypes
<1>1. /\ own'[p].pc = "reconcile" /\ own'[p].todo = ResourcesOf(R)
      /\ own'[p].planned = {x \in ResourcesOf(R) : res[x].status = "planned"}
      /\ own'[p].found = "none"
  BY <1>0 DEF Start, Listed
<1>2. /\ run'[R].status = "reconciling" /\ run'[R].generation = run[R].generation + 1
      /\ UNCHANGED <<call, receipt, sup, target>>
  BY <1>0, RowAfter DEF Start, processes
<1>3. \A x \in Resources : Begun(x) => call[x].gen # run[R].generation + 1
  BY <1>0 DEF RowInv
<1>4. \A x \in Resources : Begun(x) <=> x \in ResourcesOf(R)
  BY <1>0, TheRun, ConstantsAssumption DEF RowInv, ResourcesOf
<1>5. \A x : (Begun(x)' <=> Begun(x)) /\ (Fresh(x)' <=> Fresh(x))
  BY <1>2 DEF Begun, Fresh, Receipt
<1>6. StageInv(p)'
  BY <1>1, <1>2, <1>3, <1>5 DEF StageInv
<1>7. \A x \in own'[p].planned : Fresh(x)'
  BY <1>0, <1>1, <1>5 DEF RowInv, ResourcesOf
<1>8. ListInv(p)'
  BY <1>1, <1>4, <1>5, <1>7 DEF ListInv, ResourcesOf
<1> QED BY <1>6, <1>8

\* An owner whose coordinator goes on to its next stage.
LEMMA OwnerGoesOn ==
  ASSUME CallsInv, TypeInv, TypeInv', OwnershipInv', CallsNext,
         NEW p \in Procs, Owns(p, R)', CoordinatorStep(p), ~ Start(p),
         ~ (InspectOld(p) \/ AskSupervisor(p) \/ InspectCancelled(p) \/ Record(p))
  PROVE  StageInv(p)' /\ ListInv(p)'
<1>0. /\ TypeInv /\ OwnershipInv /\ CancelIsAsked /\ OwnerInv
      /\ own \in [Procs -> CoordinatorRow] /\ own[p] \in CoordinatorRow
      /\ \A x \in Resources : RowInv(x) /\ StepInv(x) /\ ProofInv(x)
  BY DEF CallsInv, CallInv, TypeInv, LocalTypes
<1>1. Owns(p, R) /\ run'[R].token = run[R].token /\ run[R].token # 0
  BY <1>0, OwnerMoves DEF Owns
<1>2. StageInv(p) /\ ListInv(p)
  BY <1>0, <1>1 DEF OwnerInv
<1>3. UNCHANGED <<call, receipt, sup, target>>
  BY CoordinatorsLeaveCalls
<1>4. ASSUME NEW pc, Goto(p, pc)
      PROVE  /\ own'[p].pc = pc /\ own'[p].found = own[p].found
             /\ own'[p].todo = own[p].todo /\ own'[p].bad = own[p].bad
  BY <1>0, <1>4 DEF Goto, CoordinatorRow
\* A coordinator that fences the run owns it no more.
<1>5. ASSUME NEW status, FenceOff(R, status) PROVE FALSE
  <2>1. run'[R].token = 0
    BY <1>0, <1>5, RowAfter
  <2> QED BY <1>1, <2>1
<1>6. CASE ResumeCancel(p) \/ CancelToken(p) \/ CancelCallback(p)
  <2>1. own'[p] = own[p]
    BY <1>6 DEF ResumeCancel, CancelToken, CancelCallback, coordinators
  <2> QED BY <2>1, OwnerWaits
<1>7. CASE GiveUpReconcile(p) \/ RecordRaises(p) \/ Release(p) \/ Abort(p)
  BY <1>5, <1>7 DEF GiveUpReconcile, MarkRecoveryRequired, RecordRaises, Release, Abort, Finish
<1>8. CASE LoseOwnership(p)
  BY <1>1, <1>8 DEF LoseOwnership
<1>9. CASE BeginWork(p)
  <2>1. own'[p].pc = "work" /\ own'[p].found = "none"
    BY <1>4, <1>9 DEF BeginWork, Visited
  <2> QED BY <2>1 DEF StageInv, ListInv
<1>10. CASE CheckRelease(p)
  <2>1. own'[p].pc = "releasing" /\ own'[p].found = "none"
    BY <1>2, <1>4, <1>10 DEF CheckRelease, ListInv
  <2> QED BY <2>1 DEF StageInv, ListInv
<1>11. CASE EnterCancel(p)
  <2>1. ASSUME NEW final, own' = [own EXCEPT ![p].pc = "closing", ![p].final = final,
                                             ![p].item = NoParent, ![p].found = "none"]
        PROVE  own'[p].pc = "closing" /\ own'[p].found = "none"
    BY <1>0, <2>1 DEF CoordinatorRow
  <2>2. own'[p].pc = "closing" /\ own'[p].found = "none"
    BY <1>11, <2>1 DEF EnterCancel
  <2>3. run'[R].status = "cancelling"
    BY <1>0, <1>11, RowAfter DEF EnterCancel, registry
  <2> QED BY <2>2, <2>3 DEF StageInv, ListInv
<1>12. CASE ListCleanup(p)
  <2>1. /\ own'[p].pc = "cancel" /\ own'[p].todo = {x \in ResourcesOf(R) : ~ Settled(x)}
        /\ own'[p].planned = {x \in own'[p].todo : res[x].status = "planned"}
        /\ own'[p].found = "none"
    BY <1>0, <1>12 DEF ListCleanup, Listed
  <2>2. run' = run /\ run[R].status = "cancelling"
    BY <1>2, <1>12 DEF ListCleanup, registry, StageInv
  <2>3. \A x : /\ Begun(x)' <=> Begun(x)
               /\ Fresh(x)' <=> Fresh(x)
               /\ Harmless(x)' <=> Harmless(x)
    BY <1>3, <2>2 DEF Begun, Fresh, Receipt, Harmless, Shut
  <2>4. \A x \in Resources : Begun(x) <=> x \in ResourcesOf(R)
    BY <1>0, TheRun, ConstantsAssumption DEF RowInv, ResourcesOf
  <2>5. \A x \in Resources : Begun(x) /\ x \notin own'[p].todo => Harmless(x)
    <3>1. \A x \in Resources : Settled(x) => Harmless(x)
      BY <1>0 DEF ProofInv, Good, Settled
    <3> QED BY <2>1, <2>4, <3>1
  <2>6. \A x \in own'[p].planned : Fresh(x)
    BY <1>0, <2>1 DEF RowInv, ResourcesOf
  <2>7. \A x \in own'[p].todo : Begun(x)
    BY <2>1, <2>4 DEF ResourcesOf
  <2>8. ListInv(p)'
    BY <2>1, <2>3, <2>5, <2>6, <2>7 DEF ListInv
  <2>9. StageInv(p)'
    BY <2>1, <2>2 DEF StageInv
  <2> QED BY <2>8, <2>9
<1>13. CASE EndCancel(p)
  <2>1. CASE own[p].bad
    BY <1>5, <1>13, <2>1 DEF EndCancel, MarkRecoveryRequired
  <2>2. CASE ~ own[p].bad /\ own[p].final
    BY <1>5, <1>13, <2>2 DEF EndCancel, Finish
  <2>3. CASE ~ own[p].bad /\ ~ own[p].final
    <3>1. /\ own'[p].pc = "rollback" /\ own'[p].found = "none" /\ run' = run
          /\ own[p].pc = "cancel" /\ own[p].todo = {}
      BY <1>4, <1>13, <2>3 DEF EndCancel, Visited, registry
    <3>2. \A x \in Resources : Begun(x)' => Harmless(x)'
      BY <1>2, <1>3, <2>3, <3>1 DEF ListInv, Begun, Harmless, Shut
    <3> QED BY <1>2, <3>1, <3>2 DEF StageInv, ListInv
  <2> QED BY <2>1, <2>2, <2>3
<1> QED BY <1>6, <1>7, <1>8, <1>9, <1>10, <1>11, <1>12, <1>13 DEF CoordinatorStep, CleanupStep

LEMMA OwnerPreserved ==
  ASSUME CallsInv, TypeInv, TypeInv', OwnershipInv', CallsNext
  PROVE  OwnerInv'
<1> SUFFICES ASSUME NEW p \in Procs, Owns(p, R)' PROVE StageInv(p)' /\ ListInv(p)'
  BY DEF OwnerInv
<1>1. ASSUME CrashProcess(p) PROVE FALSE
  <2>1. lease'[p][R] = 0
    BY <1>1, TheRun DEF CrashProcess, Crash, TypeInv, TypeOK
  <2> QED BY <2>1 DEF Owns
<1>2. CASE Start(p)
  BY <1>2, OwnerStarts
<1>3. CASE ~ Start(p) /\ own'[p] = own[p]
  BY <1>3, OwnerWaits
<1>4. CASE ~ Start(p) /\ CoordinatorStep(p)
  BY <1>4, OwnerLists, OwnerGoesOn
<1> QED BY <1>1, <1>2, <1>3, <1>4, OthersKeepTheirPlace

-----------------------------------------------------------------------------
(* Theorems *)

LEMMA CallsInitInv == CallsInit => CallsInv
<1> SUFFICES ASSUME CallsInit PROVE CallsInv
  OBVIOUS
<1>1. OwnershipInv /\ LocalTypes /\ NamesInv
  BY InitOwnership, CallsInitTypes DEF CallsInit
<1>2. /\ run[R].status = "new" /\ run[R].token = 0
      /\ \A p \in Procs : lease[p][R] = 0
  BY TheRun DEF CallsInit, Init
<1>3. \A x \in Resources :
        /\ call[x].pc = "idle" /\ Receipt(x, "none", "none") /\ sup[x] = "none"
        /\ target[x] = "none" /\ res[x].status = "absent" /\ res[x].run = NoRun
  BY DEF CallsInit, Init, Receipt
<1>4. CallInv
  BY <1>2, <1>3 DEF CallInv, RowInv, StepInv, ProofInv, ActiveInv, Begun, Receipt, Settled,
     SettledStates, ConfirmedResults
<1>5. OneOccupies
  BY <1>3 DEF OneOccupies, Occupies, Receipt
<1>6. CancelIsAsked /\ OwnerInv
  BY <1>2 DEF CancelIsAsked, OwnerInv, Owns
<1> QED BY <1>1, <1>4, <1>5, <1>6 DEF CallsInv

LEMMA CallsStepInv == CallsInv /\ [CallsNext]_allVars => CallsInv'
<1> SUFFICES ASSUME CallsInv, [CallsNext]_allVars PROVE CallsInv'
  OBVIOUS
<1>1. TypeInv /\ OwnershipInv /\ LocalTypes /\ NamesInv
  BY DEF CallsInv, TypeInv, OwnershipInv
<1>2. TypeInv' /\ OwnershipInv'
  BY <1>1, CallsStepTypes, StepsOfTheRegistry, StepOwnership
<1>3. CASE CallsNext
  <2>1. \A x \in Resources : RowInv(x) /\ StepInv(x) /\ ProofInv(x) /\ ActiveInv(x)
    BY DEF CallsInv, CallInv
  <2>2. \A p \in Procs : Owns(p, R) => ListInv(p)
    BY DEF CallsInv, OwnerInv
  <2>3. CallInv'
    <3> SUFFICES ASSUME NEW x \in Resources
                 PROVE  RowInv(x)' /\ StepInv(x)' /\ ProofInv(x)' /\ ActiveInv(x)'
      BY DEF CallInv
    <3>1. RowInv(x)'
      BY <1>1, <1>2, <1>3, <2>1, RowPreserved
    <3>2. StepInv(x)'
      BY <1>1, <1>3, <2>1, StepPreserved
    <3>3. ProofInv(x)'
      BY <1>1, <1>2, <1>3, <2>1, <2>2, ProofPreserved
    <3>4. ActiveInv(x)'
      BY <1>1, <1>2, <1>3, ActivePreserved
    <3> QED BY <3>1, <3>2, <3>3, <3>4
  <2>4. OneOccupies' /\ CancelIsAsked'
    BY <1>1, <1>3, <2>1, OneOccupiesPreserved, CancelIsAskedPreserved DEF CallsInv
  <2>5. OwnerInv'
    BY <1>1, <1>2, <1>3, OwnerPreserved
  <2> QED BY <1>2, <2>3, <2>4, <2>5 DEF CallsInv, TypeInv
<1>4. CASE UNCHANGED allVars
  <2>1. UNCHANGED <<run, res, lease, retired, own, cancelled, report, call, receipt, sup, pipe, target>>
    BY <1>4 DEF allVars, registry, coordinators, processes
  <2>2. /\ \A x : /\ Begun(x)' <=> Begun(x)
                  /\ Fresh(x)' <=> Fresh(x)
                  /\ Harmless(x)' <=> Harmless(x)
                  /\ Settled(x)' <=> Settled(x)
                  /\ StepInv(x)' <=> StepInv(x)
        /\ \A x, status : Good(x, status)' <=> Good(x, status)
    BY <2>1 DEF Begun, Fresh, Receipt, Harmless, Shut, Settled, StepInv, Good
  <2>3. CallInv'
    <3>1. \A x \in Resources : RowInv(x)' /\ StepInv(x)'
      BY <2>1, <2>2 DEF CallsInv, CallInv, RowInv
    <3>2. \A x \in Resources : ActiveInv(x)'
      BY <2>1, <2>2 DEF CallsInv, CallInv, ActiveInv
    <3>3. \A x \in Resources : Good(x, res[x].status)' <=> Good(x, res[x].status)
      BY <2>1 DEF Good, Harmless, Shut
    <3>4. \A x \in Resources : Good(x, Outcome(call[x].result))' <=> Good(x, Outcome(call[x].result))
      BY <2>1 DEF Good, Harmless, Shut, Outcome
    <3>5. \A x \in Resources : ProofInv(x)'
      BY <2>1, <2>2, <3>3, <3>4 DEF CallsInv, CallInv, ProofInv
    <3> QED BY <3>1, <3>2, <3>5 DEF CallInv
  <2>4. OneOccupies' /\ CancelIsAsked'
    BY <2>1 DEF CallsInv, OneOccupies, Occupies, CancelIsAsked
  <2>5. \A p \in Procs : (Owns(p, R)' <=> Owns(p, R)) /\ (StageInv(p) => StageInv(p)')
    BY <2>1, <2>2 DEF Owns, StageInv
  <2>6. \A p \in Procs : ListInv(p) => ListInv(p)'
    BY <2>1 DEF ListInv, Begun, Fresh, Receipt, Harmless, Shut, Good
  <2>7. OwnerInv'
    BY <2>5, <2>6 DEF CallsInv, OwnerInv
  <2> QED BY <1>2, <2>3, <2>4, <2>7 DEF CallsInv, TypeInv
<1> QED BY <1>3, <1>4

\* The invariant behind the theorems below: what the thread, the receipt, the
\* supervisor and the registry know of each call, and what an owner may rely
\* on at each stage of its coordinator.
THEOREM CallsInvariant == CallsSpec => []CallsInv
  BY CallsInitInv, CallsStepInv, PTL DEF CallsSpec

\* Once the registry holds a confirmed end of a call, its target does not run
\* and never will: not from a supervisor still starting up, not from a result
\* recorded twice, by the dispatching thread and by a cleanup or a new owner.
THEOREM SettledCallsHaveStopped == CallsSpec => []SettledMeansStopped
<1>1. CallsInv => SettledMeansStopped
  BY DEF CallsInv, CallInv, ProofInv, Settled, Good, Harmless, SettledMeansStopped
<1> QED BY <1>1, CallsInvariant, PTL

\* What the registry records as confirmed is what happened, whoever of the
\* thread, a cleanup and a new owner recorded it last.
THEOREM SettledCallsMatchReceipts == CallsSpec => []SettledMatchesReceipt
<1>1. CallsInv => SettledMatchesReceipt
  <2> SUFFICES ASSUME CallsInv, NEW x \in Resources, Settled(x)
               PROVE  /\ res[x].status = "completed" =>
                           receipt[x] = [state |-> "terminal", result |-> "completed"]
                      /\ res[x].status = "cancelled" =>
                           target[x] = "none" \/ receipt[x].result = "cancelled"
                      /\ res[x].status = "not_started" => target[x] = "none"
    BY DEF SettledMatchesReceipt
  <2>1. Good(x, res[x].status) /\ res[x].status \in SettledStates
    BY DEF CallsInv, CallInv, ProofInv, Settled
  <2>2. receipt[x] \in ReceiptRow
    BY DEF CallsInv, LocalTypes
  <2>3. receipt[x].state = "terminal" /\ receipt[x].result = "completed" =>
          receipt[x] = [state |-> "terminal", result |-> "completed"]
    BY <2>2 DEF ReceiptRow
  <2> QED BY <2>1, <2>3 DEF Good
<1> QED BY <1>1, CallsInvariant, PTL

\* While a run is active, every target that runs was started by the owner of
\* this generation: a takeover waits for the targets of the old owner.
THEOREM ActiveRunsOwnTheirTargets == CallsSpec => []OnlyOwnTargets
<1>1. CallsInv => OnlyOwnTargets
  <2> SUFFICES ASSUME CallsInv, run[R].status = "active", NEW x \in Resources, target[x] = "running"
               PROVE  call[x].gen = run[R].generation
    BY DEF OnlyOwnTargets
  <2>1. StepInv(x) /\ ActiveInv(x)
    BY DEF CallsInv, CallInv
  <2>2. Begun(x)
    BY <2>1 DEF StepInv, Begun, Receipt
  <2> QED BY <2>1, <2>2 DEF ActiveInv, Harmless
<1> QED BY <1>1, CallsInvariant, PTL

\* One target runs in a workspace at a time, and none beside a rollback: the
\* receipt of a call keeps every other call from being planned, and a cleanup
\* that leads to a rollback has confirmed the end of every call.
THEOREM TargetsAreAlone == CallsSpec => []TargetsRunAlone
<1>1. CallsInv => SingleTarget
  <2> SUFFICES ASSUME CallsInv, NEW x \in Resources, NEW y \in Resources,
                      target[x] = "running", target[y] = "running"
               PROVE  x = y
    BY DEF SingleTarget
  <2>1. ASSUME NEW z \in Resources, target[z] = "running" PROVE Occupies(z)
    <3>1. StepInv(z) /\ receipt[z] \in ReceiptRow
      BY DEF CallsInv, CallInv, LocalTypes
    <3>2. receipt[z].state \notin {"none", "planned"}
      BY <2>1, <3>1 DEF StepInv
    <3>3. receipt[z].result \notin ConfirmedResults
      BY <2>1 DEF CallsInv, CallInv, ProofInv, Harmless
    <3>4. receipt[z].state = "terminal" => receipt[z].result = "uncertain"
      BY <3>1, <3>3 DEF StepInv, ReceiptRow
    <3> QED BY <3>1, <3>2, <3>4 DEF Occupies, ReceiptRow
  <2> QED BY <2>1 DEF CallsInv, OneOccupies
<1>2. CallsInv => RollbackIsAlone
  <2> SUFFICES ASSUME CallsInv, NEW p \in Procs, own[p].pc = "rollback", Owns(p, R), NEW x \in Resources
               PROVE  target[x] # "running" /\ sup[x] # "validated"
    BY DEF RollbackIsAlone
  <2>1. CASE Begun(x)
    BY <2>1 DEF CallsInv, OwnerInv, ListInv, Harmless
  <2>2. CASE ~ Begun(x)
    <3>1. StepInv(x)
      BY DEF CallsInv, CallInv
    <3> QED BY <2>2, <3>1 DEF StepInv, Begun
  <2> QED BY <2>1, <2>2
<1>3. CallsInv => TargetsRunAlone
  BY <1>1, <1>2 DEF TargetsRunAlone
<1> QED BY <1>3, CallsInvariant, PTL
=============================================================================
