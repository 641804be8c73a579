-------------------------- MODULE PermissionProofs --------------------------
(***************************************************************************)
(* Theorems about the permission service, for every set of calls, requests *)
(* and scopes, every number of owners and every bound.                     *)
(***************************************************************************)
EXTENDS PermissionTickets, TLAPS

USE PermissionAssumption, DistinctAssumption

-----------------------------------------------------------------------------
(* Type correctness *)

CallRecords ==
    [pc : CallSteps, gen : 0..MaxGen, req : Requests, ver : 0..MaxVersion,
     again : BOOLEAN, asks : Notices \cup {NoProposal}, says : BOOLEAN,
     proof : Policies \cup {NoTicket}]

FenceType ==
    /\ occupant \in Runs \cup {NoRun} /\ open \in BOOLEAN
    /\ epoch \in [Runs -> 0..MaxGen] /\ asked \subseteq Runs /\ closed \subseteq Runs

ServiceType ==
    /\ scope \in Authority!Scopes
    /\ revision \in Nat
    /\ pending \in Proposals \cup {NoProposal}
    /\ tickets \in [Calls -> Tickets \cup {NoTicket}]
    /\ used \subseteq Calls
    /\ audited \in BOOLEAN

PeopleType ==
    /\ version \in 0..MaxVersion
    /\ stop \in [Owners -> {"no", "token", "done"}]
    /\ shown \in Notices \cup {NoProposal}
    /\ agreed \subseteq Notices

LEMMA TypeParts ==
  /\ PermTypeOK <=> FenceType /\ ServiceType /\ call \in [Calls -> CallRecords] /\ PeopleType
  /\ PermTypeOK' <=> /\ FenceType' /\ ServiceType' /\ PeopleType'
                     /\ call' \in [Calls -> CallRecords]
  BY DEF PermTypeOK, FenceType, ServiceType, PeopleType, CallRecords

LEMMA WidenType ==
  ASSUME NEW s \in Authority!Scopes, NEW q \in Requests
  PROVE  Authority!Widen(s, q) \in Authority!Scopes
  BY DEF Authority!Widen, Authority!Scopes, Authority!Actions

LEMMA GoType ==
  ASSUME call \in [Calls -> CallRecords], FenceType, PeopleType,
         NEW c \in Calls, NEW pc \in CallSteps, Go(c, pc) \/ Return(c, pc)
  PROVE  call' \in [Calls -> CallRecords] /\ FenceType' /\ PeopleType'
<1>1. FenceType' /\ PeopleType'
  BY DEF Go, Return, fence, people, FenceType, PeopleType
<1>2. call[c] \in CallRecords
  OBVIOUS
<1>3. CASE Go(c, pc)
  <2>1. [call[c] EXCEPT !.pc = pc] \in CallRecords
    BY <1>2 DEF CallRecords
  <2>2. call' = [call EXCEPT ![c] = [call[c] EXCEPT !.pc = pc]]
    BY <1>3 DEF Go
  <2> QED BY <1>1, <2>1, <2>2
<1>4. CASE Return(c, pc)
  <2> DEFINE new == [call[c] EXCEPT !.pc = pc, !.again = FALSE, !.says = FALSE,
                                    !.asks = NoProposal, !.proof = NoTicket]
  <2>1. new \in CallRecords
    BY <1>2 DEF CallRecords
  <2>2. call' = [call EXCEPT ![c] = new]
    BY <1>4 DEF Return
  <2> QED BY <1>1, <2>1, <2>2
<1> QED BY <1>3, <1>4

LEMMA NewRevisionType ==
  ASSUME ServiceType, NewRevision
  PROVE  /\ revision' \in Nat /\ used' \subseteq Calls /\ audited' \in BOOLEAN
         /\ tickets' \in [Calls -> Tickets \cup {NoTicket}]
  BY DEF NewRevision, ServiceType

LEMMA DecisionType ==
  ASSUME ServiceType, pending # NoProposal, NEW allow \in BOOLEAN, Decision(allow)
  PROVE  ServiceType'
<1>1. pending \in Proposals
  BY DEF ServiceType
<1>2. revision + 1 \in Nat
  BY DEF ServiceType
<1>3. [pending EXCEPT !.status = IF allow THEN "approved" ELSE "denied",
                      !.revision = revision + 1] \in Proposals
  BY <1>1, <1>2 DEF Proposals
<1>4. pending' \in Proposals
  BY <1>3 DEF Decision
<1> QED BY <1>4, NewRevisionType DEF Decision, ServiceType

LEMMA CancelType ==
  ASSUME ServiceType, NEW ours \in BOOLEAN, CancelPending(ours)
  PROVE  ServiceType'
<1>1. CASE Unsettled /\ ours
  <2>1. pending' \in Proposals
    BY <1>1 DEF CancelPending, Unsettled, ServiceType, Proposals
  <2> QED BY <1>1, <2>1, NewRevisionType DEF CancelPending, ServiceType
<1>2. CASE ~(Unsettled /\ ours)
  BY <1>2 DEF CancelPending, service, ServiceType
<1> QED BY <1>1, <1>2

LEMMA InitPermType == PermInit => PermTypeOK
<1> SUFFICES ASSUME PermInit PROVE PermTypeOK
  OBVIOUS
<1>1. FenceType
  <2>1. occupant = NoRun
    BY DEF PermInit, Init
  <2>2. open \in BOOLEAN
    BY DEF PermInit, Init
  <2>3. epoch \in [Runs -> 0..MaxGen]
    BY DEF PermInit, Init
  <2>4. asked \subseteq Runs
    BY DEF PermInit, Init
  <2>5. closed \subseteq Runs
    BY DEF PermInit, Init
  <2> QED BY <2>1, <2>2, <2>3, <2>4, <2>5 DEF FenceType
<1>5. PeopleType
  BY DEF PermInit, PeopleType
<1>2. ServiceType
  BY DEF PermInit, ServiceType
<1>3. NotYet \in CallRecords
  BY DEF NotYet, CallRecords, CallSteps
<1>4. call \in [Calls -> CallRecords]
  BY <1>3 DEF PermInit
<1> QED BY <1>1, <1>2, <1>4, <1>5, TypeParts

\* A call that waits for a person, or comes from there, knows its proposal.
Asking ==
    \A c \in Calls : call[c].pc \in {"waiting", "answered", "interrupted", "recheck"} =>
        call[c].asks # NoProposal

LEMMA PinType ==
  ASSUME PeopleType, NEW q \in Requests
  PROVE  Pin(q) \in 0..MaxVersion
  BY DEF Pin, PeopleType

LEMMA CallStepType ==
  ASSUME PermTypeOK, Asking, NEW c \in Calls, CallStep(c)
  PROVE  PermTypeOK'
<1>0. FenceType /\ ServiceType /\ call \in [Calls -> CallRecords] /\ PeopleType
  BY TypeParts
<1> SUFFICES FenceType' /\ ServiceType' /\ call' \in [Calls -> CallRecords] /\ PeopleType'
  BY TypeParts
<1> call[c] \in CallRecords
  BY <1>0
<1> {"ended", "committed", "ticketed", "recheck", "again", "dispatched", "checked"} \subseteq CallSteps
  BY DEF CallSteps
<1>s. ASSUME UNCHANGED service PROVE ServiceType'
  BY <1>0, <1>s DEF service, ServiceType
<1>1. CASE Refuse(c)
  BY <1>0, <1>1, <1>s, GoType DEF Refuse
<1>2. CASE Issue(c)
  <2>1. CASE Return(c, "ended") /\ UNCHANGED service
    BY <1>0, <2>1, <1>s, GoType
  <2>2. CASE ~(Return(c, "ended") /\ UNCHANGED service)
    <3> DEFINE ticket == [req |-> call[c].req, ver |-> call[c].ver, gen |-> call[c].gen,
                    policy |-> Policy, grant |-> Granting(c),
                    widened |-> IF Granting(c) THEN Authority!Widen(scope, call[c].req)
                                               ELSE scope,
                    digest |-> IF Granting(c) THEN Digest(pending) ELSE Digest(call[c])]
    <3>1. /\ Go(c, "ticketed") /\ audited' = TRUE
          /\ UNCHANGED <<scope, revision, pending, used>>
          /\ tickets' = [tickets EXCEPT ![c] = ticket]
      BY <1>2, <2>2 DEF Issue
    <3>2. Policy \in Policies
      BY <1>0 DEF Policy, Policies, ServiceType
    <3>3. ticket.widened \in Authority!Scopes
      BY <1>0, WidenType DEF ServiceType, CallRecords
    <3>4. Granting(c) \in BOOLEAN /\ (Granting(c) => pending \in Proposals)
      BY <1>0 DEF Granting, Matches, ServiceType
    <3>5. ticket.digest \in [req : Requests, ver : 0..MaxVersion, gen : 0..MaxGen]
      BY <3>4 DEF Digest, CallRecords, Proposals
    <3>6. ticket \in Tickets
      BY <3>2, <3>3, <3>4, <3>5 DEF Tickets, CallRecords
    <3> HIDE DEF ticket
    <3> QED BY <1>0, <3>1, <3>6, GoType DEF ServiceType
  <2> QED BY <2>1, <2>2
<1>3. CASE Propose(c)
  <2> DEFINE new == [id |-> revision, req |-> call[c].req, ver |-> call[c].ver,
                     gen |-> call[c].gen, revision |-> revision,
                     status |-> "pending"]
  <2>1. new \in Proposals
    BY <1>0 DEF Proposals, CallRecords, ServiceType
  <2>2. pending' \in Proposals
    BY <1>0, <1>3, <2>1 DEF Propose, Matches, ServiceType
  <2>3. Notice(pending') \in Notices
    BY <2>2 DEF Notice, Notices, Proposals
  <2>4. [call[c] EXCEPT !.pc = "waiting", !.asks = Notice(pending')] \in CallRecords
    BY <2>3 DEF CallRecords, CallSteps
  <2>5. call' \in [Calls -> CallRecords]
    BY <1>0, <1>3, <2>4 DEF Propose
  <2>6. FenceType' /\ ServiceType' /\ PeopleType'
    BY <1>0, <1>3, <2>2 DEF Propose, fence, FenceType, ServiceType, PeopleType
  <2> QED BY <2>5, <2>6
<1>4. ASSUME NEW allow \in BOOLEAN, Answer(c, allow)
      PROVE  FenceType' /\ ServiceType' /\ call' \in [Calls -> CallRecords] /\ PeopleType'
  <2>1. [call[c] EXCEPT !.pc = "answered", !.says = allow] \in CallRecords
    BY DEF CallRecords, CallSteps
  <2>2. call' \in [Calls -> CallRecords]
    BY <1>0, <1>4, <2>1 DEF Answer
  <2>3. call[c].asks \in Notices
    BY <1>4 DEF Answer, Asking, CallRecords
  <2> QED BY <1>0, <1>4, <1>s, <2>2, <2>3 DEF Answer, fence, FenceType, PeopleType
<1>5. CASE NoAnswer(c)
  BY <1>0, <1>5, <1>s, GoType DEF NoAnswer
<1>6. CASE Interrupt(c)
  <2>1. [call[c] EXCEPT !.pc = "interrupted"] \in CallRecords
    BY DEF CallRecords, CallSteps
  <2>2. call' \in [Calls -> CallRecords]
    BY <1>0, <1>6, <2>1 DEF Interrupt
  <2>3. stop' \in [Owners -> {"no", "token", "done"}]
    BY <1>0, <1>6 DEF Interrupt, PeopleType
  <2> QED BY <1>0, <1>6, <1>s, <2>2, <2>3 DEF Interrupt, fence, people, FenceType, PeopleType
<1>7. CASE AfterInterrupt(c)
  <2>1. Same(call[c].asks) \in BOOLEAN
    BY DEF Same
  <2> QED BY <1>0, <1>7, <2>1, GoType, CancelType DEF AfterInterrupt
<1>8. CASE Resolve(c)
  <2>1. CASE Decidable(call[c].asks)
    BY <1>0, <1>8, <2>1, GoType, DecisionType DEF Resolve, Decidable, CallRecords
  <2>2. CASE ~Decidable(call[c].asks)
    BY <1>0, <1>8, <2>2, <1>s, GoType DEF Resolve
  <2> QED BY <2>1, <2>2
<1>9. CASE Recheck(c)
  <2>1. CASE CancelPending(Same(call[c].asks)) /\ Return(c, "ended")
    <3>1. Same(call[c].asks) \in BOOLEAN
      BY DEF Same
    <3> QED BY <1>0, <2>1, <3>1, GoType, CancelType
  <2>2. CASE Return(c, "ended") /\ UNCHANGED service
    BY <1>0, <2>2, <1>s, GoType
  <2>3. CASE Go(c, "again") /\ UNCHANGED service
    BY <1>0, <2>3, <1>s, GoType
  <2> QED BY <1>9, <2>1, <2>2, <2>3 DEF Recheck
<1>17. CASE Again(c)
  <2>1. CASE Return(c, "ended")
    BY <1>0, <1>17, <2>1, <1>s, GoType DEF Again
  <2>2. CASE /\ call' = [call EXCEPT ![c].pc = "asked", ![c].again = TRUE]
             /\ UNCHANGED <<fence, version, stop, people>>
    <3>1. [call[c] EXCEPT !.pc = "asked", !.again = TRUE] \in CallRecords
      BY DEF CallRecords, CallSteps
    <3>2. call' \in [Calls -> CallRecords]
      BY <1>0, <2>2, <3>1
    <3> QED BY <1>0, <1>17, <2>2, <1>s, <3>2 DEF Again, fence, people, FenceType, PeopleType
  <2> QED BY <1>17, <2>1, <2>2 DEF Again
<1>10. CASE Dispatch(c)
  BY <1>0, <1>10, <1>s, GoType DEF Dispatch
<1>11. CASE Discard(c)
  BY <1>0, <1>11, GoType DEF Discard, Drop, ServiceType
<1>12. CASE Consume(c)
  <2> DEFINE proof == [revision |-> revision, scope |-> scope']
  <2>1. tickets[c] \in Tickets
    BY <1>0, <1>12 DEF Consume, Usable, ServiceType
  <2>2. scope' \in Authority!Scopes
    BY <1>0, <1>12, <2>1 DEF Consume, ServiceType, Tickets
  <2>3. pending' \in Proposals \cup {NoProposal}
    BY <1>0, <1>12 DEF Consume, Usable, ServiceType, Proposals
  <2>4. ServiceType'
    BY <1>0, <1>12, <2>2, <2>3 DEF Consume, ServiceType
  <2>5. proof \in Policies
    BY <1>0, <2>2 DEF Policies, ServiceType
  <2>6. [call[c] EXCEPT !.pc = "running", !.proof = proof] \in CallRecords
    BY <2>5 DEF CallRecords, CallSteps
  <2>7. call' \in [Calls -> CallRecords]
    BY <1>0, <1>12, <2>6 DEF Consume
  <2> QED BY <1>0, <1>12, <2>4, <2>7 DEF Consume, fence, people, FenceType, PeopleType
<1>13. CASE ConsumeRaises(c)
  BY <1>0, <1>13, <1>s, GoType DEF ConsumeRaises, Drop, ServiceType
<1>14. CASE AssertOwner(c)
  BY <1>0, <1>14, <1>s, GoType DEF AssertOwner
<1>15. CASE CommitEdit(c)
  BY <1>0, <1>15, <1>s, GoType DEF CommitEdit
<1>16. CASE Finish(c)
  BY <1>0, <1>16, <1>s, GoType DEF Finish
<1> QED BY <1>1, <1>2, <1>3, <1>4, <1>5, <1>6, <1>7, <1>8, <1>9, <1>10, <1>11, <1>12,
           <1>13, <1>14, <1>15, <1>16, <1>17 DEF CallStep

LEMMA OtherStepType ==
  ASSUME PermTypeOK, PermNext \/ UNCHANGED allVars, \A c \in Calls : ~CallStep(c)
  PROVE  PermTypeOK'
<1>0. FenceType /\ ServiceType /\ call \in [Calls -> CallRecords] /\ PeopleType
  BY TypeParts
<1> SUFFICES FenceType' /\ ServiceType' /\ call' \in [Calls -> CallRecords] /\ PeopleType'
  BY TypeParts
<1>s. ASSUME UNCHANGED service PROVE ServiceType'
  BY <1>0, <1>s DEF service, ServiceType
<1>f. ASSUME UNCHANGED fence PROVE FenceType'
  BY <1>0, <1>f DEF fence, FenceType
<1>1. ASSUME NEW c \in Calls, NEW g \in Owners, NEW req \in Requests, Begin(c, g, req)
      PROVE  FenceType' /\ ServiceType' /\ call' \in [Calls -> CallRecords] /\ PeopleType'
  <2>1. Pin(req) \in 0..MaxVersion
    BY <1>0, PinType
  <2>2. call[c] \in CallRecords /\ g \in 0..MaxGen
    BY <1>0 DEF Owners
  <2>3. [call[c] EXCEPT !.pc = "asked", !.gen = g, !.req = req, !.ver = Pin(req)]
          \in CallRecords
    BY <2>1, <2>2 DEF CallRecords, CallSteps
  <2>4. call' \in [Calls -> CallRecords]
    BY <1>0, <1>1, <2>3 DEF Begin
  <2> QED BY <1>0, <1>1, <1>s, <1>f, <2>4 DEF Begin, people, PeopleType
<1>2. CASE Show
  BY <1>0, <1>2, <1>s, <1>f DEF Show, Unsettled, Notice, Notices, PeopleType, ServiceType,
     Proposals
<1>3. ASSUME NEW allow \in BOOLEAN, ResolveShown(allow)
      PROVE  FenceType' /\ ServiceType' /\ call' \in [Calls -> CallRecords] /\ PeopleType'
  <2>1. ServiceType'
    BY <1>0, <1>3, <1>s, DecisionType DEF ResolveShown, Decidable
  <2> QED BY <1>0, <1>3, <1>f, <2>1 DEF ResolveShown, PeopleType
<1>4. CASE CancelShown
  <2>1. Same(shown) \in BOOLEAN
    BY DEF Same
  <2>2. ServiceType'
    BY <1>0, <1>4, <2>1, CancelType DEF CancelShown
  <2> QED BY <1>0, <1>4, <1>f, <2>2 DEF CancelShown, PeopleType
<1>5. ASSUME NEW s \in TrustedScopes, ReplaceScope(s)
      PROVE  FenceType' /\ ServiceType' /\ call' \in [Calls -> CallRecords] /\ PeopleType'
  <2>1. pending' \in Proposals \cup {NoProposal}
    BY <1>0, <1>5 DEF ReplaceScope, ServiceType, Proposals
  <2>2. ServiceType'
    BY <1>0, <1>5, <2>1, NewRevisionType DEF ReplaceScope, ServiceType
  <2> QED BY <1>0, <1>5, <1>f, <2>2 DEF ReplaceScope, people, PeopleType
<1>6. ASSUME NEW s \in TrustedScopes, InitializeScope(s)
      PROVE  FenceType' /\ ServiceType' /\ call' \in [Calls -> CallRecords] /\ PeopleType'
  BY <1>0, <1>6, <1>f DEF InitializeScope, people, PeopleType, ServiceType
<1>7. ASSUME NEW g \in Owners, SetToken(g)
      PROVE  FenceType' /\ ServiceType' /\ call' \in [Calls -> CallRecords] /\ PeopleType'
  BY <1>0, <1>7, <1>s, <1>f DEF SetToken, people, PeopleType
<1>8. ASSUME NEW g \in Owners, CancelCallback(g)
      PROVE  FenceType' /\ ServiceType' /\ call' \in [Calls -> CallRecords] /\ PeopleType'
  BY <1>0, <1>8, <1>f, CancelType DEF CancelCallback, people, PeopleType
<1>9. ASSUME NEW g \in Owners, Crash(g)
      PROVE  FenceType' /\ ServiceType' /\ call' \in [Calls -> CallRecords] /\ PeopleType'
  <2>1. ASSUME NEW c \in Calls
        PROVE  [call[c] EXCEPT !.pc = "lost", !.again = FALSE, !.says = FALSE,
                               !.asks = NoProposal, !.proof = NoTicket] \in CallRecords
    <3>1. call[c] \in CallRecords
      BY <1>0
    <3> QED BY <3>1 DEF CallRecords, CallSteps
  <2>2. call' \in [Calls -> CallRecords]
    BY <1>0, <1>9, <2>1 DEF Crash
  <2> QED BY <1>0, <1>9, <1>s, <1>f, <2>2 DEF Crash, people, PeopleType
<1>10. CASE ChangeInputs
  BY <1>0, <1>10, <1>s, <1>f DEF ChangeInputs, people, PeopleType
<1>11. CASE Registry
  <2>0. Next
    BY <1>11 DEF Registry
  <2>1. open' \in BOOLEAN
    BY <2>0 DEF Next, Take, Open, Shut, Ask, Leave
  <2>2. occupant' \in Runs \cup {NoRun}
    BY <1>0, <2>0 DEF Next, Take, Open, Shut, Ask, Leave, FenceType
  <2>3. epoch' \in [Runs -> 0..MaxGen]
    BY <1>0, <2>0 DEF Next, Take, Open, Shut, Ask, Leave, FenceType
  <2>4. asked' \subseteq Runs
    BY <1>0, <2>0 DEF Next, Take, Open, Shut, Ask, Leave, FenceType
  <2>5. closed' \subseteq Runs
    BY <1>0, <2>0 DEF Next, Take, Open, Shut, Ask, Leave, FenceType
  <2>6. FenceType'
    BY <2>1, <2>2, <2>3, <2>4, <2>5 DEF FenceType
  <2> QED BY <1>0, <1>11, <1>s, <2>6 DEF Registry, people, PeopleType
<1>12. CASE UNCHANGED allVars
  BY <1>0, <1>12, <1>s, <1>f DEF allVars, people, PeopleType
<1> QED BY <1>1, <1>2, <1>3, <1>4, <1>5, <1>6, <1>7, <1>8, <1>9, <1>10, <1>11, <1>12
        DEF PermNext, TrustedStep

-----------------------------------------------------------------------------
(* Tickets *)

\* What a ticket says is what its call does, and its grant is computed from
\* the scope its policy names.
TicketFits ==
    \A c \in Calls : tickets[c] # NoTicket =>
        /\ call[c].pc # "idle"
        /\ tickets[c].req = call[c].req
        /\ tickets[c].ver = call[c].ver
        /\ tickets[c].gen = call[c].gen
        /\ ~tickets[c].grant => Authority!Covers(tickets[c].policy.scope, call[c].req)
        /\ tickets[c].grant =>
             /\ tickets[c].widened = Authority!Widen(tickets[c].policy.scope, call[c].req)
             /\ tickets[c].digest.req = call[c].req
             /\ tickets[c].digest.ver = call[c].ver

Started == {"running", "checked", "committed", "ended", "lost"}

\* A call whose id is used has consumed its ticket.
UsedIsStarted == \A c \in used : call[c].pc \in Started

\* The step does not give call c a ticket, nor change what the call is about.
Keeps(c) ==
    /\ tickets'[c] \in {tickets[c], NoTicket}
    /\ call'[c].req = call[c].req /\ call'[c].ver = call[c].ver
    /\ call'[c].gen = call[c].gen
    /\ call[c].pc # "idle" => call'[c].pc # "idle"

LEMMA KeepsTicketFits ==
  ASSUME TicketFits, \A c \in Calls : Keeps(c)
  PROVE  TicketFits'
  BY DEF TicketFits, Keeps, Authority!Covers, Authority!Widen

LEMMA GoKeeps ==
  ASSUME PermTypeOK, NEW c \in Calls, NEW pc, Go(c, pc) \/ Return(c, pc),
         pc # "idle",
         \A d \in Calls : tickets'[d] \in {tickets[d], NoTicket}
  PROVE  \A d \in Calls : Keeps(d)
<1>1. call \in [Calls -> CallRecords]
  BY TypeParts
<1> QED BY <1>1 DEF Go, Return, Keeps, CallRecords

LEMMA NewRevisionKeeps ==
  ASSUME NewRevision
  PROVE  \A d \in Calls : tickets'[d] \in {tickets[d], NoTicket}
  BY DEF NewRevision

LEMMA CancelKeeps ==
  ASSUME NEW ours \in BOOLEAN, CancelPending(ours)
  PROVE  (\A d \in Calls : tickets'[d] \in {tickets[d], NoTicket}) /\ used' = used
  BY DEF CancelPending, NewRevision, service

\* Every step but the beginning of a call and the issue of a ticket.
LEMMA StepKeeps ==
  ASSUME PermTypeOK, NEW c \in Calls, CallStep(c), ~Issue(c)
  PROVE  \A d \in Calls : Keeps(d)
<1>t. call \in [Calls -> CallRecords] /\ tickets \in [Calls -> Tickets \cup {NoTicket}]
  BY TypeParts DEF ServiceType
<1> DEFINE Same1 == \A d \in Calls : tickets'[d] \in {tickets[d], NoTicket}
<1>s. ASSUME UNCHANGED service PROVE Same1
  BY <1>s DEF service
<1>1. CASE Refuse(c)
  BY <1>1, <1>s, GoKeeps DEF Refuse
<1>3. CASE Propose(c)
  BY <1>3, <1>t DEF Propose, Keeps, CallRecords
<1>4. ASSUME NEW allow \in BOOLEAN, Answer(c, allow) PROVE \A d \in Calls : Keeps(d)
  BY <1>4, <1>t, <1>s DEF Answer, Keeps, CallRecords, service
<1>5. CASE NoAnswer(c)
  BY <1>5, <1>s, GoKeeps DEF NoAnswer
<1>6. CASE Interrupt(c)
  BY <1>6, <1>t, <1>s DEF Interrupt, Keeps, CallRecords, service
<1>7. CASE AfterInterrupt(c)
  <2>1. Same(call[c].asks) \in BOOLEAN
    BY DEF Same
  <2> QED BY <1>7, <2>1, CancelKeeps, GoKeeps DEF AfterInterrupt
<1>8. CASE Resolve(c)
  <2>1. Same1
    BY <1>8, <1>s, NewRevisionKeeps DEF Resolve, Decision
  <2> QED BY <1>8, <2>1, GoKeeps DEF Resolve
<1>9. CASE Recheck(c)
  <2>1. Same(call[c].asks) \in BOOLEAN
    BY DEF Same
  <2>2. CASE CancelPending(Same(call[c].asks)) /\ Return(c, "ended")
    BY <2>1, <2>2, CancelKeeps, GoKeeps
  <2>3. CASE Return(c, "ended") /\ UNCHANGED service
    BY <2>3, <1>s, GoKeeps
  <2>4. CASE Go(c, "again") /\ UNCHANGED service
    BY <2>4, <1>s, GoKeeps
  <2> QED BY <1>9, <2>2, <2>3, <2>4 DEF Recheck
<1>17. CASE Again(c)
  <2>1. CASE Return(c, "ended")
    BY <1>17, <2>1, <1>s, GoKeeps DEF Again
  <2>2. CASE call' = [call EXCEPT ![c].pc = "asked", ![c].again = TRUE]
    BY <1>17, <2>2, <1>t, <1>s DEF Again, Keeps, CallRecords, service
  <2> QED BY <1>17, <2>1, <2>2 DEF Again
<1>10. CASE Dispatch(c)
  BY <1>10, <1>s, GoKeeps DEF Dispatch
<1>11. CASE Discard(c)
  BY <1>11, <1>t, GoKeeps DEF Discard, Drop
<1>12. CASE Consume(c)
  BY <1>12, <1>t DEF Consume, Keeps, CallRecords
<1>13. CASE ConsumeRaises(c)
  <2>1. Same1
    BY <1>13, <1>t, <1>s DEF ConsumeRaises, Drop
  <2> QED BY <1>13, <2>1, GoKeeps DEF ConsumeRaises
<1>14. CASE AssertOwner(c)
  BY <1>14, <1>s, GoKeeps DEF AssertOwner
<1>15. CASE CommitEdit(c)
  BY <1>15, <1>s, GoKeeps DEF CommitEdit
<1>16. CASE Finish(c)
  BY <1>16, <1>s, GoKeeps DEF Finish
<1> QED BY <1>1, <1>3, <1>4, <1>5, <1>6, <1>7, <1>8, <1>9, <1>10, <1>11, <1>12,
           <1>13, <1>14, <1>15, <1>16, <1>17 DEF CallStep

LEMMA BeginFits ==
  ASSUME PermTypeOK, TicketFits, NEW c \in Calls, NEW g \in Owners,
         NEW req \in Requests, Begin(c, g, req)
  PROVE  TicketFits'
<1>1. call \in [Calls -> CallRecords] /\ tickets[c] = NoTicket /\ tickets' = tickets
  BY TypeParts DEF Begin, TicketFits, service
<1>2. \A d \in Calls : d # c => call'[d] = call[d]
  BY <1>1 DEF Begin
<1> QED BY <1>1, <1>2 DEF TicketFits

LEMMA IssueFits ==
  ASSUME PermTypeOK, TicketFits, NEW c \in Calls, Issue(c)
  PROVE  TicketFits'
<1>t. call \in [Calls -> CallRecords] /\ tickets \in [Calls -> Tickets \cup {NoTicket}]
  BY TypeParts DEF ServiceType
<1>1. CASE Return(c, "ended") /\ UNCHANGED service
  <2>1. \A d \in Calls : tickets'[d] \in {tickets[d], NoTicket}
    BY <1>1 DEF service
  <2> QED BY <1>1, <2>1, GoKeeps, KeepsTicketFits
<1>2. CASE ~(Return(c, "ended") /\ UNCHANGED service)
  <2> DEFINE ticket == [req |-> call[c].req, ver |-> call[c].ver, gen |-> call[c].gen,
                  policy |-> Policy, grant |-> Granting(c),
                  widened |-> IF Granting(c) THEN Authority!Widen(scope, call[c].req)
                                             ELSE scope,
                  digest |-> IF Granting(c) THEN Digest(pending) ELSE Digest(call[c])]
  <2>1. Go(c, "ticketed") /\ tickets' = [tickets EXCEPT ![c] = ticket]
    BY <1>2 DEF Issue
  <2>2. Allowed(c)
    BY <1>2 DEF Issue
  <2>3. \A d \in Calls : d # c => tickets'[d] = tickets[d] /\ call'[d] = call[d]
    BY <2>1, <1>t DEF Go
  <2>4. /\ call'[c].pc = "ticketed" /\ call'[c].req = call[c].req
        /\ call'[c].ver = call[c].ver /\ call'[c].gen = call[c].gen
    BY <2>1, <1>t DEF Go, CallRecords
  <2>5. tickets'[c] = ticket
    BY <2>1, <1>t
  <2>6. ticket.policy.scope = scope
    BY DEF Policy
  <2>7. ~ticket.grant => Authority!Covers(ticket.policy.scope, call[c].req)
    BY <2>2, <2>6 DEF Allowed
  <2>8. ticket.grant => ticket.widened = Authority!Widen(ticket.policy.scope, call[c].req)
    BY <2>6
  <2>9. ticket.grant => ticket.digest.req = call[c].req /\ ticket.digest.ver = call[c].ver
    BY DEF Granting, Matches, Digest
  <2>10. ticket.req = call[c].req /\ ticket.ver = call[c].ver /\ ticket.gen = call[c].gen
    OBVIOUS
  <2> HIDE DEF ticket
  <2> QED BY <2>3, <2>4, <2>5, <2>7, <2>8, <2>9, <2>10 DEF TicketFits
<1> QED BY <1>1, <1>2

LEMMA OtherKeeps ==
  ASSUME PermTypeOK, PermNext \/ UNCHANGED allVars, \A c \in Calls : ~CallStep(c),
         ~\E c \in Calls, g \in Owners, req \in Requests : Begin(c, g, req)
  PROVE  (\A d \in Calls : Keeps(d)) /\ used' = used /\ (UsedIsStarted => UsedIsStarted')
<1>t. call \in [Calls -> CallRecords] /\ used \subseteq Calls
  BY TypeParts DEF ServiceType
<1> DEFINE Goal == (\A d \in Calls : Keeps(d)) /\ used' = used
                     /\ (UsedIsStarted => UsedIsStarted')
<1>c. ASSUME UNCHANGED call, used' = used,
             \A d \in Calls : tickets'[d] \in {tickets[d], NoTicket}
      PROVE  Goal
  BY <1>c DEF Keeps, UsedIsStarted
<1>s. ASSUME UNCHANGED call, UNCHANGED service PROVE Goal
  BY <1>s, <1>c DEF service
<1>1. CASE Show \/ ChangeInputs \/ Registry \/ UNCHANGED allVars
  BY <1>1, <1>s DEF Show, ChangeInputs, Registry, allVars
<1>2. ASSUME NEW allow \in BOOLEAN, ResolveShown(allow) PROVE Goal
  <2>1. CASE UNCHANGED service
    BY <1>2, <2>1, <1>s DEF ResolveShown
  <2>2. CASE Decision(allow)
    BY <1>2, <2>2, <1>c, NewRevisionKeeps DEF ResolveShown, Decision, NewRevision
  <2> QED BY <1>2, <2>1, <2>2 DEF ResolveShown
<1>3. CASE CancelShown
  <2>1. Same(shown) \in BOOLEAN
    BY DEF Same
  <2> QED BY <1>3, <2>1, <1>c, CancelKeeps DEF CancelShown
<1>4. ASSUME NEW s \in TrustedScopes, ReplaceScope(s) PROVE Goal
  BY <1>4, <1>c, NewRevisionKeeps DEF ReplaceScope, NewRevision
<1>5. ASSUME NEW s \in TrustedScopes, InitializeScope(s) PROVE Goal
  BY <1>5, <1>c DEF InitializeScope
<1>6. ASSUME NEW g \in Owners, SetToken(g) PROVE Goal
  BY <1>6, <1>s DEF SetToken
<1>7. ASSUME NEW g \in Owners, CancelCallback(g) PROVE Goal
  BY <1>7, <1>c, CancelKeeps DEF CancelCallback
<1>8. ASSUME NEW g \in Owners, Crash(g) PROVE Goal
  <2>1. \A d \in Calls : /\ call'[d].req = call[d].req /\ call'[d].ver = call[d].ver
                         /\ call'[d].gen = call[d].gen
                         /\ call'[d].pc \in {call[d].pc, "lost"}
    BY <1>8, <1>t DEF Crash, CallRecords
  <2>2. tickets' = tickets /\ used' = used
    BY <1>8 DEF Crash, service
  <2>3. \A d \in Calls : Keeps(d)
    BY <2>1, <2>2 DEF Keeps
  <2>4. UsedIsStarted => UsedIsStarted'
    BY <2>1, <2>2, <1>t DEF UsedIsStarted, Started
  <2> QED BY <2>2, <2>3, <2>4
<1> QED BY <1>1, <1>2, <1>3, <1>4, <1>5, <1>6, <1>7, <1>8 DEF PermNext, TrustedStep

LEMMA CallStepUsed ==
  ASSUME NEW c \in Calls, CallStep(c), ~Consume(c)
  PROVE  used' = used
<1>1. \A ours \in BOOLEAN : CancelPending(ours) => used' = used
  BY DEF CancelPending, NewRevision, service
<1>2. Same(call[c].asks) \in BOOLEAN
  BY DEF Same
<1> QED BY <1>1, <1>2 DEF CallStep, Refuse, Issue, Propose, Answer, NoAnswer,
      Interrupt, AfterInterrupt, Resolve, Recheck, Again, Dispatch, Discard, ConsumeRaises,
      AssertOwner, CommitEdit, Finish, Drop, Decision, NewRevision, service

\* What the thread of a call leaves: the ids in use, and how far it came.
LEMMA CallStepStarted ==
  ASSUME PermTypeOK, UsedIsStarted, NEW c \in Calls, CallStep(c)
  PROVE  UsedIsStarted'
<1>t. call \in [Calls -> CallRecords] /\ used \subseteq Calls
  BY TypeParts DEF ServiceType
<1>o. \A d \in Calls : d # c => call'[d] = call[d]
  BY <1>t DEF CallStep, Refuse, Issue, Propose, Answer, NoAnswer, Interrupt, AfterInterrupt,
     Resolve, Recheck, Again, Dispatch, Discard, Consume, ConsumeRaises, AssertOwner, CommitEdit,
     Finish, Go, Return
<1>1. CASE Consume(c)
  <2>1. used' = used \cup {c} /\ call'[c].pc = "running"
    BY <1>1, <1>t DEF Consume, CallRecords
  <2> QED BY <1>o, <1>t, <2>1 DEF UsedIsStarted, Started
<1>2. CASE ~Consume(c)
  <2>1. used' = used
    BY <1>2, CallStepUsed
  <2>2. CASE call[c].pc \in Started
    <3>1. AssertOwner(c) \/ CommitEdit(c) \/ Finish(c)
      BY <1>2, <2>2 DEF Started, CallStep, Refuse, Issue, Propose, Answer, NoAnswer, Interrupt,
         AfterInterrupt, Resolve, Recheck, Again, Dispatch, Discard, ConsumeRaises, Hosted
    <3>2. call'[c].pc \in Started
      BY <3>1, <1>t DEF AssertOwner, CommitEdit, Finish, Go, Return, CallRecords, Started
    <3> QED BY <1>o, <1>t, <2>1, <3>2 DEF UsedIsStarted
  <2>3. CASE call[c].pc \notin Started
    BY <1>o, <1>t, <2>1, <2>3 DEF UsedIsStarted
  <2> QED BY <2>2, <2>3
<1> QED BY <1>1, <1>2

LEMMA BeginStarted ==
  ASSUME PermTypeOK, UsedIsStarted, NEW c \in Calls, NEW g \in Owners,
         NEW req \in Requests, Begin(c, g, req)
  PROVE  UsedIsStarted'
<1>1. call \in [Calls -> CallRecords] /\ used' = used /\ c \notin used /\ used \subseteq Calls
  BY TypeParts DEF ServiceType, Begin, UsedIsStarted, Started, service
<1>2. \A d \in Calls : d # c => call'[d] = call[d]
  BY <1>1 DEF Begin
<1> QED BY <1>1, <1>2 DEF UsedIsStarted

-----------------------------------------------------------------------------
(* Proposals *)

AskSteps == {"waiting", "answered", "interrupted", "recheck"}

\* Every proposal got an id of its own: what is settled was settled by a
\* later revision.
ProposalIds ==
    pending # NoProposal =>
        /\ pending.id <= revision
        /\ pending.status # "pending" => pending.id < revision

\* A notice somebody holds is of the proposal in place or of an earlier one.
Held(n) ==
    /\ pending # NoProposal
    /\ n.id <= pending.id
    /\ n.id = pending.id => n = Notice(pending)

HeldNotices ==
    /\ \A c \in Calls : call[c].asks # NoProposal => Held(call[c].asks)
    /\ shown # NoProposal => Held(shown)

\* A yes that is on its way to resolve was given to the proposal in place, or
\* to an earlier one.
Promised ==
    \A c \in Calls :
        /\ call[c].pc = "answered" /\ call[c].says
        /\ call[c].asks # NoProposal
        /\ pending # NoProposal
        /\ call[c].asks.id = pending.id
        => call[c].asks \in agreed

Informed == Asking /\ ProposalIds /\ HeldNotices /\ Promised /\ ConsentIsInformed

\* A step that leaves the proposal in place, though it may settle it; what is
\* settled starts a revision, and what is approved is agreed to.
SameProposal ==
    /\ revision' >= revision
    /\ pending = NoProposal => pending' = NoProposal
    /\ pending # NoProposal =>
         /\ pending' # NoProposal
         /\ Notice(pending') = Notice(pending)
         /\ pending'.status # "pending" => pending.status # "pending" \/ revision' > revision
         /\ pending'.status \in {"approved", "consumed"} =>
              pending.status \in {"approved", "consumed"} \/ Notice(pending) \in agreed'

\* A step in which no thread asks anew; a thread that says yes is on record.
SameQuestions ==
    \A c \in Calls :
        /\ call'[c].asks \in {call[c].asks, NoProposal}
        /\ call'[c].pc \in AskSteps =>
             call[c].pc \in AskSteps /\ call'[c].asks = call[c].asks
        /\ call'[c].pc = "answered" /\ call'[c].says =>
             \/ call[c].pc = "answered" /\ call[c].says
             \/ call[c].asks \in agreed'

SameNotice ==
    shown' \in {shown, NoProposal} \/ (pending # NoProposal /\ shown' = Notice(pending))

Careful == SameProposal /\ SameQuestions /\ SameNotice /\ agreed \subseteq agreed'

LEMMA InformedKept ==
  ASSUME PermTypeOK, PermTypeOK', Informed, Careful
  PROVE  Informed'
<1> SameProposal /\ SameQuestions /\ SameNotice /\ agreed \subseteq agreed'
  BY DEF Careful
<1>t. /\ revision \in Nat /\ revision' \in Nat
      /\ pending \in Proposals \cup {NoProposal} /\ pending' \in Proposals \cup {NoProposal}
      /\ \A c \in Calls : call[c].asks \in Notices \cup {NoProposal}
      /\ shown \in Notices \cup {NoProposal}
  BY TypeParts DEF ServiceType, PeopleType, CallRecords
<1>n. pending # NoProposal => /\ pending' # NoProposal
                              /\ Notice(pending') = Notice(pending)
                              /\ pending'.id = pending.id
  BY DEF SameProposal, Notice
<1>h. \A n : Held(n) => Held(n)'
  BY <1>n DEF Held
<1>1. Asking'
  BY DEF Informed, Asking, SameQuestions, AskSteps
<1>2. ProposalIds'
  <2>1. CASE pending = NoProposal
    BY <2>1 DEF SameProposal, ProposalIds
  <2>2. CASE pending # NoProposal
    <3>1. pending.id \in Nat
      BY <1>t, <2>2 DEF Proposals
    <3> QED BY <1>t, <1>n, <2>2, <3>1 DEF Informed, ProposalIds, SameProposal
  <2> QED BY <2>1, <2>2
<1>3. HeldNotices'
  <2>1. ASSUME NEW c \in Calls, call'[c].asks # NoProposal PROVE Held(call[c].asks)'
    BY <1>h, <1>n, <2>1 DEF Informed, HeldNotices, SameQuestions, Held
  <2>2. shown' # NoProposal => Held(shown)'
    <3>1. CASE pending # NoProposal /\ shown' = Notice(pending)
      <4>1. pending.id \in Nat
        BY <1>t, <3>1 DEF Proposals
      <4>2. shown'.id = pending.id
        BY <3>1 DEF Notice
      <4> QED BY <1>n, <3>1, <4>1, <4>2 DEF Held
    <3>2. CASE shown' \in {shown, NoProposal}
      BY <1>n, <3>2 DEF Informed, HeldNotices, Held
    <3> QED BY <3>1, <3>2 DEF SameNotice
  <2> QED BY <2>1, <2>2 DEF HeldNotices
<1>4. Promised'
  <2> SUFFICES ASSUME NEW c \in Calls, call'[c].pc = "answered", call'[c].says,
                      call'[c].asks # NoProposal, pending' # NoProposal,
                      call'[c].asks.id = pending'.id
               PROVE  call'[c].asks \in agreed'
    BY DEF Promised
  <2>1. call'[c].asks = call[c].asks
    BY DEF SameQuestions
  <2>2. CASE call[c].asks \in agreed'
    BY <2>1, <2>2
  <2>3. CASE call[c].pc = "answered" /\ call[c].says
    BY <1>n, <2>1, <2>3 DEF Informed, Promised, SameProposal
  <2> QED BY <2>2, <2>3 DEF SameQuestions
<1>5. ConsentIsInformed'
  BY <1>n DEF Informed, ConsentIsInformed, SameProposal
<1> QED BY <1>1, <1>2, <1>3, <1>4, <1>5 DEF Informed

\* A new proposal: earlier notices are of earlier proposals.
LEMMA ProposeInformed ==
  ASSUME PermTypeOK, PermTypeOK', Informed, NEW c \in Calls, Propose(c)
  PROVE  Informed'
<1>t. /\ revision \in Nat
      /\ pending \in Proposals \cup {NoProposal} /\ pending' \in Proposals \cup {NoProposal}
      /\ call \in [Calls -> CallRecords]
      /\ \A d \in Calls : call[d].asks \in Notices \cup {NoProposal}
      /\ shown \in Notices \cup {NoProposal}
  BY TypeParts DEF ServiceType, PeopleType, CallRecords
<1>c. /\ call'[c].pc = "waiting" /\ call'[c].asks = Notice(pending')
      /\ \A d \in Calls : d # c => call'[d] = call[d]
  BY <1>t DEF Propose, CallRecords
<1>s. shown' = shown /\ revision' = revision
  BY DEF Propose
<1>1. CASE Matches(c) /\ pending.status # "consumed"
  <2>1. pending # NoProposal /\ pending' = pending /\ agreed' = agreed
    BY <1>1 DEF Propose, Matches
  <2>2. pending.id \in Nat /\ Notice(pending).id = pending.id /\ Notice(pending) # NoProposal
    BY <1>t, <2>1 DEF Proposals, Notice, Notices
  <2>3. Held(Notice(pending))
    BY <2>1, <2>2 DEF Held
  <2>4. Asking'
    BY <1>c, <2>1, <2>2 DEF Informed, Asking
  <2>5. ProposalIds'
    BY <2>1, <1>s DEF Informed, ProposalIds
  <2>6. HeldNotices'
    BY <1>c, <1>s, <2>1, <2>3 DEF Informed, HeldNotices, Held
  <2>7. Promised'
    BY <1>c, <2>1 DEF Informed, Promised
  <2>8. ConsentIsInformed'
    BY <2>1 DEF Informed, ConsentIsInformed
  <2> QED BY <2>4, <2>5, <2>6, <2>7, <2>8 DEF Informed
<1>2. CASE ~(Matches(c) /\ pending.status # "consumed")
  <2>1. pending' = [id |-> revision, req |-> call[c].req, ver |-> call[c].ver,
                    gen |-> call[c].gen, revision |-> revision, status |-> "pending"]
    BY <1>2 DEF Propose
  <2>2. pending' # NoProposal
    BY <1>t, <2>1 DEF Propose, Proposals, CallRecords
  <2>3. ~InternalRead(c)
    BY DEF Propose, Allowed, InternalRead
  <2>4. pending # NoProposal => pending.id \in Nat /\ pending.id < revision
    BY <1>t, <1>2, <2>3 DEF Propose, Refused, Unsettled, Informed, ProposalIds, Proposals
  <2>5. \A n : Held(n) /\ n.id \in Nat => Held(n)'
    BY <2>1, <2>2, <2>4, <1>t DEF Held
  <2>6. Held(Notice(pending))'
    BY <2>1, <2>2, <1>t DEF Held, Notice
  <2>7. \A n \in Notices : n.id \in Nat
    BY DEF Notices
  <2>8. Notice(pending') # NoProposal
    BY <1>t, <2>2 DEF Notice, Notices, Proposals
  <2>9. HeldNotices'
    BY <1>c, <1>s, <1>t, <2>5, <2>6, <2>7 DEF Informed, HeldNotices, Held
  <2>10. Asking'
    BY <1>c, <2>8 DEF Informed, Asking
  <2>11. ProposalIds'
    BY <2>1, <1>s, <1>t DEF ProposalIds
  <2>12. ASSUME NEW d \in Calls, call'[d].pc = "answered", call'[d].asks # NoProposal
         PROVE  call'[d].asks.id # pending'.id
    BY <1>c, <1>t, <2>1, <2>4, <2>7, <2>12 DEF Informed, HeldNotices, Held
  <2>13. Promised'
    BY <2>12 DEF Promised
  <2>14. ConsentIsInformed'
    BY <2>1 DEF ConsentIsInformed
  <2> QED BY <2>9, <2>10, <2>11, <2>13, <2>14 DEF Informed
<1> QED BY <1>1, <1>2

LEMMA GoQuestions ==
  ASSUME PermTypeOK, NEW c \in Calls, NEW pc,
         \/ Go(c, pc) /\ (pc \in AskSteps => call[c].pc \in AskSteps)
         \/ Return(c, pc) /\ pc \notin AskSteps,
         pc # "answered"
  PROVE  SameQuestions /\ SameNotice /\ agreed' = agreed
<1>1. call \in [Calls -> CallRecords]
  BY TypeParts
<1>2. \A d \in Calls : d # c => call'[d] = call[d]
  BY <1>1 DEF Go, Return
<1>3. /\ call'[c].pc = pc /\ call'[c].asks \in {call[c].asks, NoProposal}
      /\ Go(c, pc) => call'[c].asks = call[c].asks
  BY <1>1 DEF Go, Return, CallRecords
<1>4. shown' = shown /\ agreed' = agreed
  BY DEF Go, Return, people
<1>5. SameQuestions
  BY <1>2, <1>3, <1>4 DEF SameQuestions
<1> QED BY <1>4, <1>5 DEF SameNotice

LEMMA StaySame ==
  ASSUME PermTypeOK, UNCHANGED service PROVE SameProposal
<1>1. revision \in Nat
  BY TypeParts DEF ServiceType
<1> QED BY <1>1 DEF service, SameProposal

LEMMA CancelSame ==
  ASSUME PermTypeOK, NEW ours \in BOOLEAN, CancelPending(ours)
  PROVE  SameProposal
<1>1. revision \in Nat /\ pending \in Proposals \cup {NoProposal}
  BY TypeParts DEF ServiceType
<1>2. CASE Unsettled /\ ours
  <2>1. pending # NoProposal /\ pending' = [pending EXCEPT !.status = "stale"]
        /\ revision' = revision + 1
    BY <1>2 DEF CancelPending, NewRevision, Unsettled
  <2>2. pending' \in Proposals /\ Notice(pending') = Notice(pending) /\ pending'.status = "stale"
    BY <1>1, <2>1 DEF Proposals, Notice
  <2> QED BY <1>1, <2>1, <2>2 DEF SameProposal
<1>3. CASE ~(Unsettled /\ ours)
  BY <1>3, StaySame DEF CancelPending
<1> QED BY <1>2, <1>3

\* A decision about the proposal n is of.
LEMMA DecisionSame ==
  ASSUME PermTypeOK, Informed, NEW n, Held(n), Decidable(n), NEW allow \in BOOLEAN,
         Decision(allow), allow => n \in agreed'
  PROVE  SameProposal
<1>1. revision \in Nat /\ pending \in Proposals /\ pending # NoProposal
  BY TypeParts DEF ServiceType, Decidable
<1>2. /\ pending' = [pending EXCEPT !.status = IF allow THEN "approved" ELSE "denied",
                                    !.revision = revision + 1]
      /\ revision' = revision + 1
  BY DEF Decision, NewRevision
<1>r. revision + 1 \in Nat
  BY <1>1
<1>3. /\ pending' \in Proposals /\ Notice(pending') = Notice(pending)
      /\ pending'.status = IF allow THEN "approved" ELSE "denied"
  <2> DEFINE status == IF allow THEN "approved" ELSE "denied"
  <2>1. status \in {"approved", "denied"}
    OBVIOUS
  <2>2. pending' = [pending EXCEPT !.status = status, !.revision = revision + 1]
    BY <1>2
  <2> HIDE DEF status
  <2>3. pending' \in Proposals /\ Notice(pending') = Notice(pending) /\ pending'.status = status
    BY <1>1, <1>r, <2>1, <2>2 DEF Proposals, Notice
  <2> QED BY <2>3 DEF status
<1>4. n = Notice(pending)
  BY DEF Held, Decidable
<1>5. pending' # NoProposal
  BY <1>3
<1> QED BY <1>1, <1>2, <1>3, <1>4, <1>5 DEF SameProposal

LEMMA CallStepCareful ==
  ASSUME PermTypeOK, Informed, NEW c \in Calls, CallStep(c), ~Propose(c)
  PROVE  Careful
<1>t. /\ call \in [Calls -> CallRecords]
      /\ revision \in Nat /\ pending \in Proposals \cup {NoProposal}
      /\ Same(call[c].asks) \in BOOLEAN
  BY TypeParts DEF ServiceType, Same
<1> DEFINE Goal == SameProposal /\ SameQuestions /\ SameNotice /\ agreed \subseteq agreed'
<1> SUFFICES Goal
  BY DEF Careful
<1>r. ASSUME UNCHANGED service, NEW pc, pc \notin AskSteps, Go(c, pc) \/ Return(c, pc)
      PROVE  Goal
  BY <1>r, StaySame, GoQuestions DEF AskSteps
<1>1. CASE Refuse(c)
  BY <1>1, <1>r DEF Refuse, AskSteps
<1>2. CASE Issue(c)
  <2>1. CASE Return(c, "ended") /\ UNCHANGED service
    BY <2>1, <1>r DEF AskSteps
  <2>2. CASE Go(c, "ticketed") /\ UNCHANGED <<scope, revision, pending, used>>
    <3>1. SameProposal
      BY <1>t, <2>2 DEF SameProposal
    <3> QED BY <2>2, <3>1, GoQuestions DEF AskSteps
  <2> QED BY <1>2, <2>1, <2>2 DEF Issue
<1>4. ASSUME NEW allow \in BOOLEAN, Answer(c, allow) PROVE Goal
  <2>1. \A d \in Calls : d # c => call'[d] = call[d]
    BY <1>4, <1>t DEF Answer
  <2>2. /\ call'[c].pc = "answered" /\ call'[c].says = allow
        /\ call'[c].asks = call[c].asks /\ call[c].pc = "waiting"
    BY <1>4, <1>t DEF Answer, CallRecords
  <2>3. agreed \subseteq agreed' /\ (allow => call[c].asks \in agreed') /\ shown' = shown
    BY <1>4 DEF Answer
  <2>4. SameQuestions
    BY <2>1, <2>2, <2>3 DEF SameQuestions, AskSteps
  <2> QED BY <1>4, <2>3, <2>4, StaySame DEF Answer, SameNotice
<1>5. CASE NoAnswer(c)
  BY <1>5, StaySame, GoQuestions DEF NoAnswer, AskSteps
<1>6. CASE Interrupt(c)
  <2>1. \A d \in Calls : d # c => call'[d] = call[d]
    BY <1>6, <1>t DEF Interrupt
  <2>2. call'[c].pc = "interrupted" /\ call'[c].asks = call[c].asks /\ call[c].pc = "waiting"
    BY <1>6, <1>t DEF Interrupt, CallRecords
  <2>3. SameQuestions
    BY <2>1, <2>2 DEF SameQuestions, AskSteps
  <2> QED BY <1>6, <2>3, StaySame DEF Interrupt, SameNotice, people
<1>7. CASE AfterInterrupt(c)
  BY <1>t, <1>7, CancelSame, GoQuestions DEF AfterInterrupt, AskSteps
<1>8. CASE Resolve(c)
  <2>1. CASE Decidable(call[c].asks)
    <3>1. call[c].pc = "answered" /\ Decision(call[c].says) /\ Go(c, "recheck")
      BY <1>8, <2>1 DEF Resolve
    <3>2. SameQuestions /\ SameNotice /\ agreed' = agreed
      BY <3>1, GoQuestions DEF AskSteps
    <3>3. call[c].asks # NoProposal
      BY <3>1 DEF Informed, Asking
    <3>4. call[c].says \in BOOLEAN
      BY <1>t DEF CallRecords
    <3>5. call[c].says => call[c].asks \in agreed'
      BY <2>1, <3>1, <3>2, <3>3 DEF Informed, Promised, Decidable
    <3>6. Held(call[c].asks)
      BY <3>3 DEF Informed, HeldNotices
    <3> QED BY <2>1, <3>1, <3>2, <3>4, <3>5, <3>6, DecisionSame
  <2>2. CASE ~Decidable(call[c].asks)
    BY <1>8, <2>2, <1>r DEF Resolve, AskSteps
  <2> QED BY <2>1, <2>2
<1>9. CASE Recheck(c)
  <2>1. CASE CancelPending(Same(call[c].asks)) /\ Return(c, "ended")
    BY <1>t, <2>1, CancelSame, GoQuestions DEF AskSteps
  <2>2. CASE Return(c, "ended") /\ UNCHANGED service
    BY <2>2, <1>r DEF AskSteps
  <2>3. CASE Go(c, "again") /\ UNCHANGED service
    BY <2>3, <1>r DEF AskSteps
  <2> QED BY <1>9, <2>1, <2>2, <2>3 DEF Recheck
<1>17. CASE Again(c)
  <2>1. CASE Return(c, "ended")
    BY <1>17, <2>1, <1>r DEF Again, AskSteps
  <2>2. CASE /\ call' = [call EXCEPT ![c].pc = "asked", ![c].again = TRUE]
             /\ UNCHANGED <<fence, version, stop, people>>
    <3>1. \A d \in Calls : d # c => call'[d] = call[d]
      BY <2>2, <1>t
    <3>2. call'[c].pc = "asked" /\ call'[c].asks = call[c].asks
      BY <2>2, <1>t DEF CallRecords
    <3>3. SameQuestions
      BY <3>1, <3>2 DEF SameQuestions, AskSteps
    <3> QED BY <1>17, <2>2, <3>3, StaySame DEF Again, SameNotice, people
  <2> QED BY <1>17, <2>1, <2>2 DEF Again
<1>10. CASE Dispatch(c)
  BY <1>10, <1>r DEF Dispatch, AskSteps
<1>11. CASE Discard(c)
  <2>1. SameProposal
    BY <1>t, <1>11 DEF SameProposal, Discard, Drop
  <2> QED BY <1>11, <2>1, GoQuestions DEF Discard, AskSteps
<1>12. CASE Consume(c)
  <2>1. \A d \in Calls : d # c => call'[d] = call[d]
    BY <1>12, <1>t DEF Consume
  <2>2. call'[c].pc = "running" /\ call'[c].asks = call[c].asks
    BY <1>12, <1>t DEF Consume, CallRecords
  <2>3. SameQuestions
    BY <2>1, <2>2 DEF SameQuestions, AskSteps
  <2>4. revision' = revision /\ people' = people
    BY <1>12 DEF Consume
  <2>5. SameProposal
    <3>1. CASE pending' = pending
      BY <1>t, <2>4, <3>1 DEF SameProposal
    <3>2. CASE /\ pending # NoProposal /\ pending.status = "approved"
               /\ pending' = [pending EXCEPT !.status = "consumed"]
      <4>1. pending' \in Proposals /\ Notice(pending') = Notice(pending)
        BY <1>t, <3>2 DEF Proposals, Notice
      <4> QED BY <1>t, <2>4, <3>2, <4>1 DEF SameProposal
    <3> QED BY <1>12, <3>1, <3>2 DEF Consume, Usable
  <2> QED BY <2>3, <2>4, <2>5 DEF SameNotice, people
<1>13. CASE ConsumeRaises(c)
  <2>1. SameProposal
    BY <1>t, <1>13, StaySame DEF SameProposal, ConsumeRaises, Drop
  <2> QED BY <1>13, <2>1, GoQuestions DEF ConsumeRaises, AskSteps
<1>14. CASE AssertOwner(c)
  BY <1>14, <1>r DEF AssertOwner, AskSteps
<1>15. CASE CommitEdit(c)
  BY <1>15, <1>r DEF CommitEdit, AskSteps
<1>16. CASE Finish(c)
  BY <1>16, <1>r DEF Finish, AskSteps
<1> QED BY <1>1, <1>2, <1>4, <1>5, <1>6, <1>7, <1>8, <1>9, <1>10, <1>11, <1>12,
           <1>13, <1>14, <1>15, <1>16, <1>17 DEF CallStep

LEMMA OtherStepCareful ==
  ASSUME PermTypeOK, Informed, PermNext \/ UNCHANGED allVars,
         \A c \in Calls : ~CallStep(c)
  PROVE  Careful
<1>t. /\ call \in [Calls -> CallRecords]
      /\ revision \in Nat /\ pending \in Proposals \cup {NoProposal}
      /\ Same(shown) \in BOOLEAN
  BY TypeParts DEF ServiceType, Same
<1> DEFINE Goal == SameProposal /\ SameQuestions /\ SameNotice /\ agreed \subseteq agreed'
<1> SUFFICES Goal
  BY DEF Careful
<1>q. ASSUME UNCHANGED call PROVE SameQuestions
  BY <1>q DEF SameQuestions
<1>1. ASSUME NEW c \in Calls, NEW g \in Owners, NEW req \in Requests, Begin(c, g, req)
      PROVE  Goal
  <2>1. \A d \in Calls : d # c => call'[d] = call[d]
    BY <1>1, <1>t DEF Begin
  <2>2. call'[c].pc = "asked" /\ call'[c].asks = call[c].asks
    BY <1>1, <1>t DEF Begin, CallRecords
  <2>3. SameQuestions
    BY <2>1, <2>2 DEF SameQuestions, AskSteps
  <2> QED BY <1>1, <2>3, StaySame DEF Begin, SameNotice, people
<1>2. CASE Show
  BY <1>2, <1>q, StaySame DEF Show, SameNotice, Unsettled
<1>3. ASSUME NEW allow \in BOOLEAN, ResolveShown(allow) PROVE Goal
  <2>1. agreed \subseteq agreed' /\ (allow => shown \in agreed') /\ SameNotice
    BY <1>3 DEF ResolveShown, SameNotice
  <2>2. CASE Decidable(shown)
    <3>1. Held(shown) /\ Decision(allow)
      BY <1>3, <2>2 DEF ResolveShown, Informed, HeldNotices
    <3>2. SameProposal
      BY <2>1, <2>2, <3>1, DecisionSame
    <3> QED BY <1>3, <1>q, <2>1, <3>2 DEF ResolveShown
  <2>3. CASE ~Decidable(shown)
    BY <1>3, <1>q, <2>1, <2>3, StaySame DEF ResolveShown
  <2> QED BY <2>2, <2>3
<1>4. CASE CancelShown
  BY <1>t, <1>4, <1>q, CancelSame DEF CancelShown, SameNotice
<1>5. ASSUME NEW s \in TrustedScopes, ReplaceScope(s) PROVE Goal
  <2>1. revision' = revision + 1
    BY <1>5 DEF ReplaceScope, NewRevision
  <2>2. SameProposal
    <3>1. CASE pending = NoProposal
      BY <1>t, <1>5, <2>1, <3>1 DEF ReplaceScope, SameProposal
    <3>2. CASE pending # NoProposal
      <4>1. pending' = [pending EXCEPT !.status = "stale"]
        BY <1>5, <3>2 DEF ReplaceScope
      <4>2. pending' \in Proposals /\ Notice(pending') = Notice(pending)
            /\ pending'.status = "stale"
        BY <1>t, <3>2, <4>1 DEF Proposals, Notice
      <4> QED BY <1>t, <2>1, <3>2, <4>2 DEF SameProposal
    <3> QED BY <3>1, <3>2
  <2> QED BY <1>5, <1>q, <2>2 DEF ReplaceScope, SameNotice, people
<1>6. ASSUME NEW s \in TrustedScopes, InitializeScope(s) PROVE Goal
  BY <1>t, <1>6, <1>q DEF InitializeScope, SameNotice, people, SameProposal
<1>7. ASSUME NEW g \in Owners, SetToken(g) PROVE Goal
  BY <1>7, <1>q, StaySame DEF SetToken, SameNotice, people
<1>8. ASSUME NEW g \in Owners, CancelCallback(g) PROVE Goal
  BY <1>8, <1>q, CancelSame DEF CancelCallback, SameNotice, people
<1>9. ASSUME NEW g \in Owners, Crash(g) PROVE Goal
  <2>1. \A d \in Calls : \/ call'[d] = call[d]
                         \/ call'[d].pc = "lost" /\ call'[d].asks = NoProposal
    BY <1>9, <1>t DEF Crash, CallRecords
  <2>2. SameQuestions
    BY <2>1 DEF SameQuestions, AskSteps
  <2> QED BY <1>9, <2>2, StaySame DEF Crash, SameNotice, people
<1>10. CASE ChangeInputs
  BY <1>10, <1>q, StaySame DEF ChangeInputs, SameNotice, people
<1>11. CASE Registry
  BY <1>11, <1>q, StaySame DEF Registry, SameNotice, people
<1>12. CASE UNCHANGED allVars
  BY <1>12, <1>q, StaySame DEF allVars, SameNotice, people
<1> QED BY <1>1, <1>2, <1>3, <1>4, <1>5, <1>6, <1>7, <1>8, <1>9, <1>10, <1>11, <1>12
        DEF PermNext, TrustedStep

-----------------------------------------------------------------------------
(* Theorems *)

PermInv == PermTypeOK /\ TicketFits /\ UsedIsStarted /\ Informed

LEMMA PermInvInit == PermInit => PermInv
<1> SUFFICES ASSUME PermInit PROVE PermInv
  OBVIOUS
<1>1. PermTypeOK
  BY InitPermType
<1>2. /\ tickets = [c \in Calls |-> NoTicket] /\ used = {} /\ pending = NoProposal
      /\ shown = NoProposal /\ \A c \in Calls : call[c] = NotYet
  BY DEF PermInit
<1>3. NotYet.pc = "idle" /\ NotYet.asks = NoProposal
  BY DEF NotYet
<1>4. TicketFits /\ UsedIsStarted
  BY <1>2 DEF TicketFits, UsedIsStarted
<1>5. Informed
  BY <1>2, <1>3 DEF Informed, Asking, ProposalIds, HeldNotices, Promised, ConsentIsInformed
<1> QED BY <1>1, <1>4, <1>5 DEF PermInv

LEMMA PermInvNext ==
  ASSUME PermInv, PermNext \/ UNCHANGED allVars
  PROVE  PermInv'
<1> PermTypeOK /\ TicketFits /\ UsedIsStarted /\ Informed /\ Asking
  BY DEF PermInv, Informed
<1>1. CASE \E c \in Calls : CallStep(c)
  <2>1. PICK c \in Calls : CallStep(c)
    BY <1>1
  <2>2. PermTypeOK'
    BY <2>1, CallStepType
  <2>3. TicketFits'
    BY <2>1, IssueFits, StepKeeps, KeepsTicketFits
  <2>4. UsedIsStarted'
    BY <2>1, CallStepStarted
  <2>5. Informed'
    BY <2>1, <2>2, CallStepCareful, InformedKept, ProposeInformed
  <2> QED BY <2>2, <2>3, <2>4, <2>5 DEF PermInv
<1>2. CASE \A c \in Calls : ~CallStep(c)
  <2>1. PermTypeOK'
    BY <1>2, OtherStepType
  <2>2. Informed'
    BY <1>2, <2>1, OtherStepCareful, InformedKept
  <2>3. TicketFits' /\ UsedIsStarted'
    <3>1. CASE \E c \in Calls, g \in Owners, req \in Requests : Begin(c, g, req)
      BY <3>1, BeginFits, BeginStarted
    <3>2. CASE ~\E c \in Calls, g \in Owners, req \in Requests : Begin(c, g, req)
      BY <1>2, <3>2, OtherKeeps, KeepsTicketFits
    <3> QED BY <3>1, <3>2
  <2> QED BY <2>1, <2>2, <2>3 DEF PermInv
<1> QED BY <1>1, <1>2

LEMMA PermAlways == PermSpec => []PermInv
<1>1. PermInv /\ [PermNext]_allVars => PermInv'
  BY PermInvNext
<1> QED BY <1>1, PermInvInit, PTL DEF PermSpec

\* The state of the permission service, of its calls and of the interface
\* stays what the code takes it to be; in particular no call comes to the
\* callback or to resolve without a proposal of its own.
THEOREM PermTypeCorrect == PermSpec => []PermTypeOK
<1>1. PermInv => PermTypeOK
  BY DEF PermInv
<1> QED BY <1>1, PermAlways, PTL

\* resolve approves nothing but the proposal the person saw, although
\* authorize_action and the interface decide without the lock.
THEOREM ConsentInformed == PermSpec => []ConsentIsInformed
<1>1. PermInv => ConsentIsInformed
  BY DEF PermInv, Informed
<1> QED BY <1>1, PermAlways, PTL

\* consume_action admits a call only with the input versions that were
\* authorized, however much time passed since its ticket was issued.
THEOREM InputsPinned == PermSpec => PinnedInputs
<1> DEFINE A == \A c \in used' \ used : call[c].ver = Pin(call[c].req)
<1>1. ASSUME PermInv, [PermNext]_allVars PROVE [A]_allVars
  <2> SUFFICES ASSUME NEW d \in used', d \notin used, PermNext
               PROVE  call[d].ver = Pin(call[d].req)
    BY <1>1 DEF allVars, service
  <2> PermTypeOK /\ TicketFits /\ UsedIsStarted
    BY <1>1 DEF PermInv
  <2>1. CASE \A c \in Calls : ~CallStep(c)
    <3>1. used' = used
      <4>1. CASE \E c \in Calls, g \in Owners, req \in Requests : Begin(c, g, req)
        BY <4>1 DEF Begin, service
      <4> QED BY <2>1, <4>1, OtherKeeps
    <3> QED BY <3>1
  <2>2. ASSUME NEW c \in Calls, CallStep(c) PROVE call[d].ver = Pin(call[d].req)
    <3>1. CASE Consume(c)
      <4>1. d = c
        BY <3>1 DEF Consume
      <4> QED BY <3>1, <4>1 DEF Consume, Usable, TicketFits
    <3>2. CASE ~Consume(c)
      BY <2>2, <3>2, CallStepUsed
    <3> QED BY <3>1, <3>2
  <2> QED BY <2>1, <2>2
<1> QED BY <1>1, PermAlways, PTL DEF PermSpec, PinnedInputs

\* request_action never puts another proposal in the place of one that is
\* pending or approved.
THEOREM UnsettledKept == PermSpec => UnsettledStays
<1> DEFINE A == Unsettled /\ pending' # pending => pending' # NoProposal /\ Same(pending')
<1>1. ASSUME PermInv, [PermNext]_allVars PROVE [A]_allVars
  <2> SUFFICES ASSUME Unsettled, pending' # pending, PermNext
               PROVE  pending' # NoProposal /\ Same(pending')
    BY <1>1 DEF allVars
  <2> PermTypeOK /\ Informed
    BY <1>1 DEF PermInv
  <2>1. CASE SameProposal
    BY <2>1 DEF SameProposal, Unsettled, Same, Notice
  <2>2. CASE \A c \in Calls : ~CallStep(c)
    BY <2>1, <2>2, OtherStepCareful DEF Careful
  <2>3. ASSUME NEW c \in Calls, CallStep(c) PROVE SameProposal
    <3>1. ~Propose(c)
      BY DEF Propose, Refused, Allowed, InternalRead, Unsettled
    <3> QED BY <2>3, <3>1, CallStepCareful DEF Careful
  <2> QED BY <2>1, <2>2, <2>3
<1> QED BY <1>1, PermAlways, PTL DEF PermSpec, UnsettledStays

-----------------------------------------------------------------------------
(* PermissionTickets implements PermissionAuthority *)

InRun == {"running", "checked"}

\* A call that runs has consumed its ticket, and keeps the policy it did so
\* under; within a revision the scope only grows.
RunInv ==
    /\ \A c \in Calls :
         /\ call[c].pc \in InRun \cup {"committed"} => c \in used
         /\ call[c].proof # NoTicket =>
              /\ call[c].pc \in InRun
              /\ call[c].proof.revision <= revision
              /\ call[c].proof.revision = revision =>
                   /\ call[c].proof.scope.caps \subseteq scope.caps
                   /\ call[c].proof.scope.paths \subseteq scope.paths
    /\ used # {} \/ pending # NoProposal => audited

\* No call starts or commits.
NoStart ==
    /\ used' = used
    /\ \A c \in used : call'[c].req = call[c].req /\ call'[c].ver = call[c].ver
    /\ \A c \in Calls :
         /\ call'[c].proof \in {call[c].proof, NoTicket}
         /\ call'[c].pc \in InRun => call[c].pc \in InRun /\ call'[c].proof = call[c].proof
         /\ call[c].pc \in InRun => call'[c].pc \in InRun \/ call'[c].proof = NoTicket
         /\ call'[c].pc = "committed" <=> call[c].pc = "committed"

\* The trusted side does not decide anything.
Mild ==
    /\ scope' = scope /\ revision' = revision /\ TheConsent' = TheConsent
    /\ audited => audited'
    /\ pending' # NoProposal => pending # NoProposal \/ audited'

\* It decides, or withdraws the proposal.
Sharp == scope' = scope /\ revision' > revision /\ audited'

LEMMA GoNoStart ==
  ASSUME PermTypeOK, NEW c \in Calls, NEW pc, used' = used,
         Go(c, pc) \/ Return(c, pc), call[c].pc # "committed", pc # "committed",
         pc \in InRun => call[c].pc \in InRun /\ Go(c, pc),
         call[c].pc \in InRun => pc \in InRun \/ Return(c, pc)
  PROVE  NoStart
<1>1. call \in [Calls -> CallRecords] /\ used \subseteq Calls
  BY TypeParts DEF ServiceType
<1>2. \A d \in Calls : d # c => call'[d] = call[d]
  BY <1>1 DEF Go, Return
<1>3. /\ call'[c].req = call[c].req /\ call'[c].ver = call[c].ver /\ call'[c].pc = pc
      /\ call'[c].proof \in {call[c].proof, NoTicket}
      /\ Go(c, pc) => call'[c].proof = call[c].proof
      /\ Return(c, pc) => call'[c].proof = NoTicket
  BY <1>1 DEF Go, Return, CallRecords
<1> QED BY <1>1, <1>2, <1>3 DEF NoStart

\* A step of one call by which it neither begins to run nor ends.
LEMMA StayNoStart ==
  ASSUME PermTypeOK, NEW c \in Calls, used' = used,
         \A d \in Calls : d # c => call'[d] = call[d],
         c \in used => call'[c].req = call[c].req /\ call'[c].ver = call[c].ver,
         call'[c].proof = call[c].proof,
         call[c].pc \notin InRun \cup {"committed"},
         call'[c].pc \notin InRun \cup {"committed"}
  PROVE  NoStart
<1>1. used \subseteq Calls
  BY TypeParts DEF ServiceType
<1> QED BY <1>1 DEF NoStart

LEMMA CallStepNoStart ==
  ASSUME PermTypeOK, NEW c \in Calls, CallStep(c), ~Consume(c), ~CommitEdit(c)
  PROVE  NoStart
<1>t. call \in [Calls -> CallRecords]
  BY TypeParts
<1>u. used' = used
  BY CallStepUsed
<1>1. CASE Refuse(c)
  BY <1>1, <1>u, GoNoStart DEF Refuse, InRun
<1>2. CASE Issue(c)
  BY <1>2, <1>u, GoNoStart DEF Issue, InRun
<1>4. ASSUME NEW allow \in BOOLEAN, Answer(c, allow) PROVE NoStart
  <2>1. \A d \in Calls : d # c => call'[d] = call[d]
    BY <1>4, <1>t DEF Answer
  <2>2. /\ call'[c].pc = "answered" /\ call[c].pc = "waiting"
        /\ call'[c].req = call[c].req /\ call'[c].ver = call[c].ver
        /\ call'[c].proof = call[c].proof
    BY <1>4, <1>t DEF Answer, CallRecords
  <2> QED BY <1>u, <2>1, <2>2, StayNoStart DEF InRun
<1>5. CASE NoAnswer(c)
  BY <1>5, <1>u, GoNoStart DEF NoAnswer, InRun
<1>6. CASE Interrupt(c)
  <2>1. \A d \in Calls : d # c => call'[d] = call[d]
    BY <1>6, <1>t DEF Interrupt
  <2>2. /\ call'[c].pc = "interrupted" /\ call[c].pc = "waiting"
        /\ call'[c].req = call[c].req /\ call'[c].ver = call[c].ver
        /\ call'[c].proof = call[c].proof
    BY <1>6, <1>t DEF Interrupt, CallRecords
  <2> QED BY <1>u, <2>1, <2>2, StayNoStart DEF InRun
<1>7. CASE AfterInterrupt(c)
  BY <1>7, <1>u, GoNoStart DEF AfterInterrupt, InRun
<1>8. CASE Resolve(c)
  BY <1>8, <1>u, GoNoStart DEF Resolve, InRun
<1>9. CASE Recheck(c)
  <2>1. CASE Return(c, "ended")
    BY <1>9, <2>1, <1>u, GoNoStart DEF Recheck, InRun
  <2>2. CASE Go(c, "again")
    BY <1>9, <2>2, <1>u, GoNoStart DEF Recheck, InRun
  <2> QED BY <1>9, <2>1, <2>2 DEF Recheck
<1>18. CASE Again(c)
  <2>1. CASE Return(c, "ended")
    BY <1>18, <2>1, <1>u, GoNoStart DEF Again, InRun
  <2>2. CASE call' = [call EXCEPT ![c].pc = "asked", ![c].again = TRUE]
    <3>1. \A d \in Calls : d # c => call'[d] = call[d]
      BY <2>2, <1>t
    <3>2. /\ call'[c].pc = "asked" /\ call[c].pc = "again"
          /\ call'[c].req = call[c].req /\ call'[c].ver = call[c].ver
          /\ call'[c].proof = call[c].proof
      BY <1>18, <2>2, <1>t DEF CallRecords, Again
    <3> QED BY <1>u, <3>1, <3>2, StayNoStart DEF InRun
  <2> QED BY <1>18, <2>1, <2>2 DEF Again
<1>10. CASE Dispatch(c)
  BY <1>10, <1>u, GoNoStart DEF Dispatch, InRun
<1>11. CASE Discard(c)
  BY <1>11, <1>u, GoNoStart DEF Discard, InRun
<1>13. CASE ConsumeRaises(c)
  BY <1>13, <1>u, GoNoStart DEF ConsumeRaises, InRun
<1>14. CASE AssertOwner(c)
  BY <1>14, <1>u, GoNoStart DEF AssertOwner, InRun
<1>16. CASE Finish(c)
  BY <1>16, <1>u, GoNoStart DEF Finish, InRun
<1>17. CASE Propose(c)
  <2>1. \A d \in Calls : d # c => call'[d] = call[d]
    BY <1>17, <1>t DEF Propose
  <2>2. /\ call'[c].pc = "waiting" /\ call[c].pc = "asked"
        /\ call'[c].req = call[c].req /\ call'[c].ver = call[c].ver
        /\ call'[c].proof = call[c].proof
    BY <1>17, <1>t DEF Propose, CallRecords
  <2> QED BY <1>u, <2>1, <2>2, StayNoStart DEF InRun
<1> QED BY <1>1, <1>2, <1>4, <1>5, <1>6, <1>7, <1>8, <1>9, <1>10, <1>11,
           <1>13, <1>14, <1>16, <1>17, <1>18 DEF CallStep

LEMMA OtherStepNoStart ==
  ASSUME PermTypeOK, UsedIsStarted, PermNext \/ UNCHANGED allVars,
         \A c \in Calls : ~CallStep(c)
  PROVE  NoStart
<1>t. call \in [Calls -> CallRecords] /\ used \subseteq Calls
  BY TypeParts DEF ServiceType
<1>1. ASSUME NEW c \in Calls, NEW g \in Owners, NEW req \in Requests, Begin(c, g, req)
      PROVE  NoStart
  <2>1. \A d \in Calls : d # c => call'[d] = call[d]
    BY <1>1, <1>t DEF Begin
  <2>2. /\ call'[c].pc = "asked" /\ call[c].pc = "idle" /\ used' = used
        /\ call'[c].proof = call[c].proof
    BY <1>1, <1>t DEF Begin, CallRecords, service
  <2>3. c \notin used
    BY <2>2 DEF UsedIsStarted, Started
  <2> QED BY <2>1, <2>2, <2>3, StayNoStart DEF InRun
<1>2. ASSUME NEW g \in Owners, Crash(g) PROVE NoStart
  <2>1. used' = used
    BY <1>2 DEF Crash, service
  <2>2. \A c \in Calls : \/ call'[c] = call[c]
                         \/ /\ call'[c].pc = "lost" /\ call'[c].proof = NoTicket
                            /\ call[c].pc # "committed"
                            /\ call'[c].req = call[c].req /\ call'[c].ver = call[c].ver
    BY <1>2, <1>t DEF Crash, CallRecords
  <2> QED BY <1>t, <2>1, <2>2 DEF NoStart, InRun
<1>3. CASE /\ ~\E c \in Calls, g \in Owners, req \in Requests : Begin(c, g, req)
           /\ ~\E g \in Owners : Crash(g)
  <2>1. used' = used
    BY <1>3, OtherKeeps
  <2>2. call' = call
    BY <1>3 DEF PermNext, TrustedStep, Show, ResolveShown, CancelShown, ReplaceScope,
       InitializeScope, SetToken, CancelCallback, ChangeInputs, Registry, allVars
  <2> QED BY <2>1, <2>2 DEF NoStart
<1> QED BY <1>1, <1>2, <1>3

LEMMA StayMild ==
  ASSUME UNCHANGED service PROVE Mild
  BY DEF service, Mild, TheConsent

LEMMA CancelEffect ==
  ASSUME PermTypeOK, NEW ours \in BOOLEAN, CancelPending(ours)
  PROVE  Mild \/ Sharp
<1>1. revision \in Nat
  BY TypeParts DEF ServiceType
<1> QED BY <1>1, StayMild DEF CancelPending, NewRevision, Sharp

LEMMA CallStepEffect ==
  ASSUME PermTypeOK, NEW c \in Calls, CallStep(c), ~Consume(c)
  PROVE  Mild \/ Sharp
<1>t. revision \in Nat /\ Same(call[c].asks) \in BOOLEAN
  BY TypeParts DEF ServiceType, Same
<1>1. CASE UNCHANGED service
  BY <1>1, StayMild
<1>2. CASE CancelPending(Same(call[c].asks))
  BY <1>t, <1>2, CancelEffect
<1>3. CASE Drop(c)
  BY <1>3 DEF Drop, Mild, TheConsent
<1>4. CASE Issue(c)
  BY <1>1, <1>4 DEF Issue, Mild, TheConsent
<1>5. CASE Resolve(c)
  BY <1>t, <1>1, <1>5 DEF Resolve, Decision, NewRevision, Sharp
<1>6. CASE Propose(c)
  <2>1. scope' = scope /\ revision' = revision /\ audited'
    BY <1>6 DEF Propose
  <2>2. TheConsent' = TheConsent
    <3>1. CASE pending' = pending
      BY <3>1 DEF TheConsent
    <3>2. CASE pending' # pending
      <4>1. ~(pending # NoProposal /\ pending.status = "approved")
        BY <1>6, <3>2 DEF Propose, Refused, Allowed, InternalRead, Unsettled, Granting
      <4>2. pending'.status = "pending"
        BY <1>6, <3>2 DEF Propose
      <4> QED BY <4>1, <4>2 DEF TheConsent
    <3> QED BY <3>1, <3>2
  <2> QED BY <2>1, <2>2 DEF Mild
<1> QED BY <1>1, <1>2, <1>3, <1>4, <1>5, <1>6 DEF CallStep, Refuse, Answer, NoAnswer,
      Interrupt, AfterInterrupt, Recheck, Again, Dispatch, Discard, ConsumeRaises, AssertOwner,
      CommitEdit, Finish

\* The other steps, but for those of the trusted side that set the scope.
LEMMA OtherStepEffect ==
  ASSUME PermTypeOK, PermNext \/ UNCHANGED allVars, \A c \in Calls : ~CallStep(c),
         ~\E s \in TrustedScopes : ReplaceScope(s) \/ InitializeScope(s)
  PROVE  Mild \/ Sharp
<1>t. revision \in Nat /\ Same(shown) \in BOOLEAN
  BY TypeParts DEF ServiceType, Same
<1>1. CASE UNCHANGED service
  BY <1>1, StayMild
<1>2. ASSUME NEW allow \in BOOLEAN, ResolveShown(allow) PROVE Mild \/ Sharp
  BY <1>t, <1>1, <1>2 DEF ResolveShown, Decision, NewRevision, Sharp
<1>3. CASE CancelShown
  BY <1>t, <1>3, CancelEffect DEF CancelShown
<1>4. ASSUME NEW g \in Owners, CancelCallback(g) PROVE Mild \/ Sharp
  BY <1>4, CancelEffect DEF CancelCallback
<1> QED BY <1>1, <1>2, <1>3, <1>4 DEF PermNext, TrustedStep, Begin, Show, SetToken, Crash,
      ChangeInputs, Registry, allVars

LEMMA QuietRunInv ==
  ASSUME PermTypeOK, PermTypeOK', RunInv, NoStart, Mild \/ Sharp
  PROVE  RunInv'
<1>t. /\ revision \in Nat /\ revision' \in Nat /\ used \subseteq Calls
      /\ \A c \in Calls : call[c].proof \in Policies \cup {NoTicket}
  BY TypeParts DEF ServiceType, CallRecords
<1>r. \A c \in Calls : call[c].proof # NoTicket => call[c].proof.revision \in Nat
  BY <1>t DEF Policies
<1>1. ASSUME NEW c \in Calls
      PROVE  call'[c].pc \in InRun \cup {"committed"} => c \in used'
  BY DEF RunInv, NoStart
<1>2. ASSUME NEW c \in Calls, call'[c].proof # NoTicket
      PROVE  /\ call'[c].pc \in InRun
             /\ call'[c].proof.revision <= revision'
             /\ call'[c].proof.revision = revision' =>
                  /\ call'[c].proof.scope.caps \subseteq scope'.caps
                  /\ call'[c].proof.scope.paths \subseteq scope'.paths
  <2>1. call'[c].proof = call[c].proof /\ call[c].proof # NoTicket
    BY <1>2 DEF NoStart
  <2>2. call[c].pc \in InRun /\ call[c].proof.revision <= revision
    BY <2>1 DEF RunInv
  <2>3. call'[c].pc \in InRun
    BY <1>2, <2>2 DEF NoStart
  <2>4. revision' >= revision /\ scope' = scope
    BY <1>t DEF Mild, Sharp
  <2> QED BY <1>r, <1>t, <2>1, <2>2, <2>3, <2>4 DEF RunInv
<1>3. used' # {} \/ pending' # NoProposal => audited'
  BY DEF RunInv, NoStart, Mild, Sharp
<1> QED BY <1>1, <1>2, <1>3 DEF RunInv

\* A decision ends the authority of every call.
LEMMA RevisionEnds ==
  ASSUME PermTypeOK, PermTypeOK', RunInv, NoStart, revision' > revision
  PROVE  TheValid' = {}
<1>t. /\ revision \in Nat /\ revision' \in Nat
      /\ \A c \in Calls : call[c].proof \in Policies \cup {NoTicket}
  BY TypeParts DEF ServiceType, CallRecords
<1>1. ASSUME NEW c \in Calls, call'[c].pc \in InRun, call'[c].proof = Policy'
      PROVE  FALSE
  <2>1. call[c].pc \in InRun /\ call'[c].proof = call[c].proof
    BY <1>1 DEF NoStart
  <2>2. call[c].proof.revision = revision'
    BY <1>1, <2>1 DEF Policy
  <2>3. Policy' # NoTicket
    BY PermTypeOK', TypeParts DEF Policy, Policies, ServiceType
  <2>4. call[c].proof.revision <= revision
    BY <1>1, <2>1, <2>3 DEF RunInv
  <2> QED BY <1>t, <2>2, <2>4
<1> QED BY <1>1 DEF TheValid, InRun

LEMMA QuietSimulates ==
  ASSUME PermTypeOK, PermTypeOK', RunInv, NoStart, Mild \/ Sharp
  PROVE  Authority!Decide \/ Authority!End
<1>t. used \subseteq Calls /\ pending' \in Proposals \cup {NoProposal}
  BY TypeParts DEF ServiceType
<1>1. TheStarted' = TheStarted
  BY DEF NoStart, TheStarted
<1>2. TheCommitted' = TheCommitted
  BY DEF NoStart, TheCommitted
<1>3. CASE Mild
  <2>1. Policy' = Policy
    BY <1>3 DEF Mild, Policy
  <2>2. TheValid' \subseteq TheValid
    BY <2>1 DEF NoStart, TheValid, InRun
  <2> QED BY <1>1, <1>2, <1>3, <2>2 DEF Authority!End, Mild
<1>4. CASE Sharp
  <2>1. TheValid' = {}
    BY <1>4, RevisionEnds DEF Sharp
  <2>2. TheConsent' \in Authority!Subjects \cup {NoProposal}
    <3>1. ASSUME pending' # NoProposal
          PROVE  [req |-> pending'.req, ver |-> pending'.ver] \in Authority!Subjects
      <4>1. pending'.req \in Requests /\ pending'.ver \in 0..MaxVersion
        BY <1>t, <3>1 DEF Proposals
      <4>2. Requests \subseteq Authority!Actions
        OBVIOUS
      <4> QED BY <4>1, <4>2 DEF Authority!Subjects
    <3> QED BY <3>1 DEF TheConsent
  <2> QED BY <1>1, <1>2, <1>4, <2>1, <2>2 DEF Authority!Decide, Sharp
<1> QED BY <1>3, <1>4

\* The trusted side sets the scope: replace_scope at any time, initialize_scope
\* while nothing was recorded.
LEMMA ScopeStep ==
  ASSUME PermTypeOK, PermTypeOK', RunInv, NoStart, NEW s \in TrustedScopes,
         ReplaceScope(s) \/ InitializeScope(s)
  PROVE  RunInv' /\ (Authority!Regulate \/ Authority!Preset)
<1>t. /\ revision \in Nat /\ used \subseteq Calls /\ s \in Authority!Scopes
      /\ \A c \in Calls : call[c].proof \in Policies \cup {NoTicket}
  BY TypeParts DEF ServiceType, CallRecords
<1>c. call' = call /\ used' = used /\ scope' = s
  BY DEF ReplaceScope, InitializeScope, NewRevision
<1>1. TheStarted' = TheStarted /\ TheCommitted' = TheCommitted
  BY <1>c DEF TheStarted, TheCommitted
<1>2. CASE ReplaceScope(s)
  <2>1. revision' = revision + 1 /\ audited'
    BY <1>2 DEF ReplaceScope, NewRevision
  <2>2. TheValid' = {}
    BY <1>t, <2>1, RevisionEnds
  <2>3. TheConsent' = NoProposal
    <3>1. CASE pending = NoProposal
      BY <1>2, <3>1 DEF ReplaceScope, TheConsent
    <3>2. CASE pending # NoProposal
      <4>1. pending \in Proposals
        BY <3>2, TypeParts DEF ServiceType
      <4>2. pending'.status = "stale"
        BY <1>2, <3>2, <4>1 DEF ReplaceScope, Proposals
      <4> QED BY <4>2 DEF TheConsent
    <3> QED BY <3>1, <3>2
  <2>4. \A c \in Calls : call[c].proof # NoTicket =>
           call[c].proof.revision \in Nat /\ call[c].proof.revision <= revision
    BY <1>t DEF RunInv, Policies
  <2>5. \A c \in Calls : call[c].proof # NoTicket =>
           call[c].proof.revision <= revision' /\ call[c].proof.revision # revision'
    BY <1>t, <2>1, <2>4
  <2>6. RunInv'
    BY <1>c, <2>1, <2>5 DEF RunInv
  <2> QED BY <1>t, <1>c, <1>1, <2>2, <2>3, <2>6 DEF Authority!Regulate
<1>3. CASE InitializeScope(s)
  <2>1. ~audited /\ revision' = revision /\ pending' = pending /\ audited' = audited
    BY <1>3 DEF InitializeScope
  <2>2. used = {} /\ pending = NoProposal
    BY <2>1 DEF RunInv
  <2>3. \A c \in Calls : call[c].pc \notin InRun /\ call[c].proof = NoTicket
    BY <2>2 DEF RunInv
  <2>4. RunInv'
    BY <1>c, <2>1, <2>2, <2>3 DEF RunInv
  <2>5. TheValid = {} /\ TheValid' = {}
    BY <1>c, <2>3 DEF TheValid, InRun
  <2>6. TheStarted = {} /\ TheConsent = NoProposal /\ TheConsent' = TheConsent
    BY <2>1, <2>2 DEF TheStarted, TheConsent
  <2> QED BY <1>t, <1>c, <1>1, <2>4, <2>5, <2>6 DEF Authority!Preset
<1> QED BY <1>2, <1>3

\* What c consumed is what it was issued, and the service is as it was then.
LEMMA ConsumeSimulates ==
  ASSUME PermTypeOK, TicketFits, UsedIsStarted, RunInv, NEW c \in Calls, Consume(c)
  PROVE  RunInv' /\ \E a \in Authority!Subjects : Authority!Start(c, a)
<1> DEFINE a == [req |-> call[c].req, ver |-> call[c].ver]
           new == [revision |-> revision, scope |-> scope']
<1>t. /\ revision \in Nat /\ used \subseteq Calls /\ call \in [Calls -> CallRecords]
      /\ scope \in Authority!Scopes /\ pending \in Proposals \cup {NoProposal}
      /\ \A d \in Calls : call[d].proof \in Policies \cup {NoTicket}
  BY TypeParts DEF ServiceType, CallRecords
<1>o. \A d \in Calls : d # c => call'[d] = call[d]
  BY <1>t DEF Consume
<1>c. /\ call[c].pc \in {"ticketed", "dispatched"} /\ call'[c].pc = "running"
      /\ call'[c].req = call[c].req /\ call'[c].ver = call[c].ver
      /\ call'[c].proof = new
  BY <1>t DEF Consume, CallRecords
<1>u. used' = used \cup {c} /\ c \notin used /\ revision' = revision /\ audited' = TRUE
  BY <1>c DEF Consume, UsedIsStarted, Started
<1>a. a \in Authority!Subjects
  <2>1. call[c].req \in Authority!Actions /\ call[c].ver \in 0..MaxVersion
    BY <1>t DEF CallRecords
  <2> QED BY <2>1 DEF Authority!Subjects
<1>p. tickets[c].policy.scope = scope
  BY DEF Consume, Usable, Policy
<1>3. \/ Authority!Covers(scope, a.req) /\ UNCHANGED <<scope, TheConsent>>
      \/ /\ TheConsent = a
         /\ scope' = Authority!Widen(scope, a.req)
         /\ TheConsent' = NoProposal
  <2>1. CASE ~tickets[c].grant
    <3>1. scope' = scope /\ pending' = pending
      BY <2>1 DEF Consume
    <3>2. Authority!Covers(scope, a.req)
      BY <2>1, <1>p DEF TicketFits, Consume, Usable
    <3> QED BY <3>1, <3>2 DEF TheConsent
  <2>2. CASE tickets[c].grant
    <3>1. scope' = Authority!Widen(scope, a.req)
      BY <2>2, <1>p DEF TicketFits, Consume, Usable
    <3>2. /\ pending # NoProposal /\ pending.status = "approved"
          /\ pending.req = a.req /\ pending.ver = a.ver
      BY <2>2 DEF TicketFits, Consume, Usable, Digest
    <3>3. TheConsent = a
      BY <3>2 DEF TheConsent
    <3>4. pending'.status = "consumed"
      BY <2>2, <1>t, <3>2 DEF Consume, Proposals
    <3> QED BY <3>1, <3>3, <3>4 DEF TheConsent
  <2> QED BY <2>1, <2>2
<1>4. scope.caps \subseteq scope'.caps /\ scope.paths \subseteq scope'.paths
  BY <1>3 DEF Authority!Widen
<1>5. scope' \in Authority!Scopes
  <2>1. call[c].req \in Requests
    BY <1>t DEF CallRecords
  <2> QED BY <1>3, <1>t, <2>1, WidenType
<1>6. ASSUME NEW d \in Calls, d # c, call[d].proof = [revision |-> revision, scope |-> scope']
      PROVE  scope' = scope
  <2>1. call[d].proof # NoTicket
    BY <1>6, <1>t, <1>5 DEF Policies
  <2>2. scope'.caps \subseteq scope.caps /\ scope'.paths \subseteq scope.paths
    BY <1>6, <2>1 DEF RunInv
  <2>3. scope'.caps = scope.caps /\ scope'.paths = scope.paths
    BY <1>4, <2>2
  <2> QED BY <1>t, <1>5, <2>3 DEF Authority!Scopes
<1>7. TheValid' \subseteq TheValid \cup {c}
  BY <1>o, <1>u, <1>6 DEF TheValid, Policy
<1>8. TheStarted' = TheStarted \cup {<<c, a>>}
  <2> DEFINE entry(d) == <<d, [req |-> call[d].req, ver |-> call[d].ver]>>
             entryNext(d) == <<d, [req |-> call'[d].req, ver |-> call'[d].ver]>>
  <2>1. \A d \in used : entryNext(d) = entry(d)
    BY <1>o, <1>t, <1>u
  <2>2. entryNext(c) = <<c, a>>
    BY <1>c
  <2>3. TheStarted = {entry(d) : d \in used} /\ TheStarted' = {entryNext(d) : d \in used'}
    BY DEF TheStarted
  <2> HIDE DEF entry, entryNext, a
  <2> QED BY <2>1, <2>2, <2>3, <1>u
<1>9. TheCommitted' = TheCommitted
  BY <1>o, <1>c DEF TheCommitted
<1>10. \A p \in TheStarted : p[1] # c
  BY <1>u DEF TheStarted
<1>11. Authority!Start(c, a)
  BY <1>3, <1>7, <1>8, <1>9, <1>10 DEF Authority!Start
<1>12. RunInv'
  <2>1. ASSUME NEW d \in Calls
        PROVE  call'[d].pc \in InRun \cup {"committed"} => d \in used'
    BY <1>o, <1>u DEF RunInv
  <2>2. ASSUME NEW d \in Calls, call'[d].proof # NoTicket
        PROVE  /\ call'[d].pc \in InRun
               /\ call'[d].proof.revision <= revision'
               /\ call'[d].proof.revision = revision' =>
                    /\ call'[d].proof.scope.caps \subseteq scope'.caps
                    /\ call'[d].proof.scope.paths \subseteq scope'.paths
    <3>1. CASE d = c
      BY <1>t, <1>c, <1>u, <3>1 DEF InRun
    <3>2. CASE d # c
      BY <1>o, <1>u, <1>4, <2>2, <3>2 DEF RunInv
    <3> QED BY <3>1, <3>2
  <2> QED BY <1>u, <2>1, <2>2 DEF RunInv
<1> QED BY <1>a, <1>11, <1>12

\* The authority was in force at the commit, and is spent by it.
LEMMA CommitSimulates ==
  ASSUME PermTypeOK, RunInv, NEW c \in Calls, CommitEdit(c)
  PROVE  RunInv' /\ Authority!Commit(c)
<1>t. call \in [Calls -> CallRecords] /\ used \subseteq Calls
  BY TypeParts DEF ServiceType
<1>o. \A d \in Calls : d # c => call'[d] = call[d]
  BY <1>t DEF CommitEdit, Return
<1>c. /\ call[c].pc = "checked" /\ call[c].proof = Policy
      /\ call'[c].pc = "committed" /\ call'[c].proof = NoTicket
      /\ call'[c].req = call[c].req /\ call'[c].ver = call[c].ver
  BY <1>t DEF CommitEdit, Return, CallRecords
<1>s. UNCHANGED service
  BY DEF CommitEdit
<1>1. TheConsent' = TheConsent /\ scope' = scope /\ Policy' = Policy
  BY <1>s DEF service, TheConsent, Policy
<1>2. TheStarted' = TheStarted
  <2>1. \A d \in Calls : call'[d].req = call[d].req /\ call'[d].ver = call[d].ver
    BY <1>o, <1>c
  <2> QED BY <1>s, <1>t, <2>1 DEF service, TheStarted
<1>3. TheValid' = TheValid \ {c} /\ c \in TheValid
  BY <1>o, <1>c, <1>1 DEF TheValid
<1>4. TheCommitted' = TheCommitted \cup {c}
  BY <1>o, <1>c DEF TheCommitted
<1>5. c \in used
  BY <1>c DEF RunInv, InRun
<1>6. RunInv'
  BY <1>o, <1>c, <1>s, <1>5 DEF RunInv, service, InRun
<1> QED BY <1>1, <1>2, <1>3, <1>4, <1>6 DEF Authority!Commit

LEMMA InitSimulates == PermInit => RunInv /\ Authority!Init
<1> SUFFICES ASSUME PermInit PROVE RunInv /\ Authority!Init
  OBVIOUS
<1>1. /\ used = {} /\ pending = NoProposal /\ scope \in TrustedScopes
      /\ \A c \in Calls : call[c].pc = "idle" /\ call[c].proof = NoTicket
  BY DEF PermInit, NotYet
<1>2. RunInv
  BY <1>1 DEF RunInv, InRun
<1>3. TheConsent = NoProposal /\ TheStarted = {} /\ TheValid = {} /\ TheCommitted = {}
  BY <1>1 DEF TheConsent, TheStarted, TheValid, TheCommitted
<1>4. scope \in Authority!Scopes
  BY <1>1
<1> QED BY <1>2, <1>3, <1>4 DEF Authority!Init

LEMMA StepSimulates ==
  ASSUME PermInv, PermInv', RunInv, PermNext \/ UNCHANGED allVars
  PROVE  RunInv' /\ Authority!Next
<1> PermTypeOK /\ PermTypeOK' /\ TicketFits /\ UsedIsStarted
  BY DEF PermInv
<1>1. ASSUME NEW c \in Calls, Consume(c) PROVE RunInv' /\ Authority!Next
  BY <1>1, ConsumeSimulates DEF Authority!Next
<1>2. ASSUME NEW c \in Calls, CommitEdit(c) PROVE RunInv' /\ Authority!Next
  BY <1>2, CommitSimulates DEF Authority!Next
<1>3. ASSUME NEW c \in Calls, CallStep(c), ~Consume(c), ~CommitEdit(c)
      PROVE  RunInv' /\ Authority!Next
  BY <1>3, CallStepNoStart, CallStepEffect, QuietRunInv, QuietSimulates DEF Authority!Next
<1>4. ASSUME \A c \in Calls : ~CallStep(c) PROVE RunInv' /\ Authority!Next
  <2>1. NoStart
    BY <1>4, OtherStepNoStart
  <2>2. ASSUME NEW s \in TrustedScopes, ReplaceScope(s) \/ InitializeScope(s)
        PROVE  RunInv' /\ Authority!Next
    BY <2>1, <2>2, ScopeStep DEF Authority!Next
  <2>3. CASE ~\E s \in TrustedScopes : ReplaceScope(s) \/ InitializeScope(s)
    BY <1>4, <2>1, <2>3, OtherStepEffect, QuietRunInv, QuietSimulates DEF Authority!Next
  <2> QED BY <2>2, <2>3
<1> QED BY <1>1, <1>2, <1>3, <1>4

\* Tickets and proposals, with the lock given up between them, authorize no
\* more than a service that decides in one step: every start is covered by
\* the scope or the consent in force at that moment, and no commit follows a
\* decision of the trusted side.
THEOREM PermissionImplementsAuthority == PermSpec => ImplementsAuthority
<1>1. PermInv /\ PermInv' /\ RunInv /\ [PermNext]_allVars => RunInv' /\ [Authority!Next]_(Authority!vars)
  BY StepSimulates
<1> QED BY <1>1, InitSimulates, PermAlways, PTL
        DEF PermSpec, ImplementsAuthority, Authority!Spec

-----------------------------------------------------------------------------
(* Cancellation *)

\* A proposal of owner g waits for a person although g's cancellation came by.
WaitsOn(g) ==
    /\ stop[g] = "done"
    /\ pending # NoProposal /\ pending.gen = g /\ pending.status = "pending"

\* Call c, of owner g, still has to answer for the proposal in place, or its
\* process died before it could.
Answers(c, g) ==
    /\ call[c].gen = g
    /\ call[c].pc = "lost" \/ (call[c].pc \in AskSteps /\ call[c].asks = Notice(pending))

SomebodyAnswers == \A g \in Owners : WaitsOn(g) => \E c \in Calls : Answers(c, g)

\* A step leaves a proposal that is undecided afterwards as it was.
LEMMA UndecidedStays ==
  ASSUME PermTypeOK, PermNext, pending' # NoProposal, pending'.status = "pending",
         \A c \in Calls : ~Propose(c)
  PROVE  pending' = pending
<1>1. pending \in Proposals \cup {NoProposal}
  BY TypeParts DEF ServiceType
<1>2. ASSUME NEW ours \in BOOLEAN, CancelPending(ours) PROVE pending' = pending
  BY <1>1, <1>2 DEF CancelPending, Unsettled, Proposals, service
<1>3. ASSUME NEW allow \in BOOLEAN, pending # NoProposal, Decision(allow) PROVE FALSE
  BY <1>1, <1>3 DEF Decision, Proposals
<1>4. ASSUME NEW c \in Calls, CallStep(c) PROVE pending' = pending
  <2>1. CASE AfterInterrupt(c)
    BY <1>2, <2>1 DEF AfterInterrupt, Same
  <2>2. CASE Resolve(c)
    <3>1. call[c].says \in BOOLEAN
      BY TypeParts DEF CallRecords
    <3> QED BY <1>3, <2>2, <3>1 DEF Resolve, Decidable, service
  <2>3. CASE Recheck(c)
    BY <1>2, <2>3 DEF Recheck, Same, service
  <2>4. CASE Consume(c)
    BY <1>1, <2>4 DEF Consume, Usable, Proposals
  <2> QED BY <1>4, <2>1, <2>2, <2>3, <2>4 DEF CallStep, Refuse, Issue, Answer, NoAnswer,
     Interrupt, Again, Dispatch, Discard, ConsumeRaises, AssertOwner, CommitEdit, Finish, Drop,
     service
<1>5. CASE TrustedStep
  <2>1. ASSUME NEW allow \in BOOLEAN, ResolveShown(allow) PROVE pending' = pending
    BY <1>3, <2>1 DEF ResolveShown, Decidable, service
  <2>2. CASE CancelShown
    BY <1>2, <2>2 DEF CancelShown, Same
  <2>3. ASSUME NEW s \in TrustedScopes, ReplaceScope(s) PROVE pending' = pending
    BY <1>1, <2>3 DEF ReplaceScope, Proposals
  <2> QED BY <1>5, <2>1, <2>2, <2>3 DEF TrustedStep, Show, InitializeScope, service
<1>6. ASSUME NEW g \in Owners, CancelCallback(g) PROVE pending' = pending
  BY <1>2, <1>6 DEF CancelCallback
<1> QED BY <1>4, <1>5, <1>6 DEF PermNext, Begin, SetToken, Crash, ChangeInputs, Registry, service

\* The callback of a cancellation leaves nothing undecided.
LEMMA CallbackDecides ==
  ASSUME PermTypeOK, NEW g \in Owners, CancelCallback(g), pending' # NoProposal
  PROVE  pending'.status # "pending"
<1>1. pending \in Proposals \cup {NoProposal}
  BY TypeParts DEF ServiceType
<1> QED BY <1>1 DEF CancelCallback, CancelPending, Unsettled, Proposals, service

\* The call that has to answer goes on asking, or settles the proposal.
LEMMA AnswersOn ==
  ASSUME PermTypeOK, NEW c \in Calls, NEW g \in Owners, WaitsOn(g), Answers(c, g),
         CallStep(c), pending' = pending
  PROVE  Answers(c, g)'
<1>0. call \in [Calls -> CallRecords] /\ pending \in Proposals
  BY TypeParts DEF ServiceType, WaitsOn
<1>1. call[c].pc \in AskSteps /\ call[c].asks = Notice(pending)
  BY DEF Answers, CallStep, Refuse, Issue, Propose, Answer, NoAnswer, Interrupt, AfterInterrupt,
     Resolve, Recheck, Again, Dispatch, Discard, Consume, ConsumeRaises, AssertOwner, CommitEdit,
     Finish
<1>2. Same(call[c].asks) /\ Decidable(call[c].asks) /\ Unsettled
  BY <1>1 DEF Notice, Same, Decidable, WaitsOn, Unsettled
<1>3. ASSUME CancelPending(TRUE) PROVE FALSE
  BY <1>0, <1>2, <1>3 DEF CancelPending, Proposals, WaitsOn
<1>4. ~AfterInterrupt(c)
  BY <1>2, <1>3 DEF AfterInterrupt
<1>5. ~Recheck(c)
  BY <1>2, <1>3 DEF Recheck, WaitsOn, Answers, AskSteps
<1>6. ~Resolve(c)
  <2>1. ASSUME NEW allow \in BOOLEAN, Decision(allow) PROVE FALSE
    BY <1>0, <2>1 DEF Decision, Proposals, WaitsOn
  <2>2. call[c].says \in BOOLEAN
    BY <1>0 DEF CallRecords
  <2> QED BY <1>2, <2>1, <2>2 DEF Resolve
<1>7. (\E allow \in BOOLEAN : Answer(c, allow)) \/ NoAnswer(c) \/ Interrupt(c)
  BY <1>1, <1>4, <1>5, <1>6 DEF AskSteps, CallStep, Refuse, Issue, Propose, Again, Dispatch,
     Discard, Consume, ConsumeRaises, AssertOwner, CommitEdit, Finish, Hosted
<1>8. /\ call'[c].pc \in AskSteps
      /\ call'[c].asks = call[c].asks /\ call'[c].gen = call[c].gen
  BY <1>0, <1>7 DEF Answer, NoAnswer, Interrupt, Go, CallRecords, AskSteps
<1> QED BY <1>1, <1>8 DEF Answers, Notice

LEMMA SomebodyAnswersNext ==
  ASSUME PermTypeOK, SomebodyAnswers, [PermNext]_allVars
  PROVE  SomebodyAnswers'
<1>1. CASE UNCHANGED allVars
  BY <1>1 DEF SomebodyAnswers, WaitsOn, Answers, Notice, allVars, service, people
<1> SUFFICES ASSUME PermNext, NEW g \in Owners, WaitsOn(g)'
             PROVE  \E c \in Calls : Answers(c, g)'
  BY <1>1 DEF SomebodyAnswers
<1>0. /\ call \in [Calls -> CallRecords] /\ stop \in [Owners -> {"no", "token", "done"}]
      /\ pending \in Proposals \cup {NoProposal}
  BY TypeParts DEF ServiceType, PeopleType
<1>2. CASE \E c \in Calls : Propose(c) /\ pending' # pending
  <2>1. PICK c \in Calls : Propose(c) /\ pending' # pending
    BY <1>2
  <2>2. pending'.gen = call[c].gen
    BY <2>1 DEF Propose
  <2>3. /\ call'[c].pc = "waiting" /\ call'[c].gen = call[c].gen
        /\ call'[c].asks = Notice(pending')
    BY <1>0, <2>1 DEF Propose, CallRecords
  <2> QED BY <2>2, <2>3 DEF Answers, WaitsOn, AskSteps, Notice
<1>3. CASE ~\E c \in Calls : Propose(c) /\ pending' # pending
  <2>1. pending' = pending
    BY <1>3, UndecidedStays DEF WaitsOn
  <2>2. \A h \in Owners : ~CancelCallback(h)
    BY CallbackDecides DEF WaitsOn
  <2>3. stop[g] = "done"
    <3>1. ASSUME NEW c \in Calls, Interrupt(c) PROVE stop[g] = "done"
      BY <1>0, <3>1 DEF Interrupt, WaitsOn
    <3>2. ASSUME NEW h \in Owners, SetToken(h) PROVE stop[g] = "done"
      BY <1>0, <3>2 DEF SetToken, WaitsOn
    <3>3. ASSUME NEW c \in Calls, CallStep(c), ~Interrupt(c) PROVE stop' = stop
      BY <3>3 DEF CallStep, Refuse, Issue, Propose, Answer, NoAnswer, AfterInterrupt, Resolve,
         Recheck, Again, Dispatch, Discard, Consume, ConsumeRaises, AssertOwner, CommitEdit,
         Finish, Go, Return
    <3>4. CASE stop' = stop
      BY <3>4 DEF WaitsOn
    <3> QED BY <2>2, <3>1, <3>2, <3>3, <3>4 DEF PermNext, Begin, TrustedStep, Show, ResolveShown,
       CancelShown, ReplaceScope, InitializeScope, Crash, ChangeInputs, Registry
  <2>4. WaitsOn(g)
    BY <2>1, <2>3 DEF WaitsOn
  <2>5. PICK c \in Calls : Answers(c, g)
    BY <2>4 DEF SomebodyAnswers
  <2>6. CASE CallStep(c)
    BY <2>1, <2>4, <2>5, <2>6, AnswersOn
  <2>7. CASE call'[c] = call[c]
    BY <2>1, <2>5, <2>7 DEF Answers, Notice
  <2>8. ASSUME NEW d \in Calls, CallStep(d), d # c PROVE call'[c] = call[c]
    BY <1>0, <2>8 DEF CallStep, Refuse, Issue, Propose, Answer, NoAnswer, Interrupt, AfterInterrupt,
       Resolve, Recheck, Again, Dispatch, Discard, Consume, ConsumeRaises, AssertOwner, CommitEdit,
       Finish, Go, Return
  <2>9. ASSUME NEW d \in Calls, NEW h \in Owners, NEW req \in Requests, Begin(d, h, req)
        PROVE  call'[c] = call[c]
    BY <1>0, <2>5, <2>9 DEF Begin, Answers, AskSteps
  <2>10. ASSUME NEW h \in Owners, Crash(h) PROVE Answers(c, g)'
    <3>1. CASE h = g
      <4>1. call[c].pc \notin {"committed", "ended"} /\ call[c].gen = g
        BY <2>5 DEF Answers, AskSteps
      <4>2. call'[c] = [call[c] EXCEPT !.pc = "lost", !.again = FALSE, !.says = FALSE,
                                       !.asks = NoProposal, !.proof = NoTicket]
        BY <2>10, <3>1, <4>1 DEF Crash
      <4>3. call[c] \in CallRecords
        BY <1>0
      <4>4. call'[c].pc = "lost" /\ call'[c].gen = g
        BY <4>1, <4>2, <4>3 DEF CallRecords
      <4> QED BY <4>4 DEF Answers
    <3>2. CASE h # g
      <4>1. call[c].gen # h
        BY <2>5, <3>2 DEF Answers
      <4>2. call'[c] = call[c]
        BY <2>10, <4>1 DEF Crash
      <4> QED BY <2>1, <2>5, <4>2 DEF Answers, Notice
    <3> QED BY <3>1, <3>2
  <2>11. CASE TrustedStep \/ ChangeInputs \/ Registry \/ \E h \in Owners : SetToken(h)
    BY <2>7, <2>11 DEF TrustedStep, Show, ResolveShown, CancelShown, ReplaceScope, InitializeScope,
       ChangeInputs, Registry, SetToken
  <2> QED BY <2>2, <2>6, <2>7, <2>8, <2>9, <2>10, <2>11 DEF PermNext
<1> QED BY <1>2, <1>3

\* Once the callback of a cancellation ran and the calls of the owner are over,
\* no proposal of that owner waits for a person: whoever proposes after the
\* callback looks at the token afterwards and withdraws (authorize_action).
THEOREM CancellationIsFinal == PermSpec => []CancelLeavesNothingToDecide
<1>1. PermInit => SomebodyAnswers
  BY DEF PermInit, SomebodyAnswers, WaitsOn
<1>2. PermTypeOK /\ SomebodyAnswers /\ [PermNext]_allVars => SomebodyAnswers'
  BY SomebodyAnswersNext
<1>3. SomebodyAnswers => CancelLeavesNothingToDecide
  BY DEF SomebodyAnswers, WaitsOn, Answers, AskSteps, CancelLeavesNothingToDecide
<1> QED BY <1>1, <1>2, <1>3, PermTypeCorrect, PTL DEF PermSpec

-----------------------------------------------------------------------------
(* Tickets *)

\* A call has no ticket before it began; the ticket of a sandboxed call is on
\* its way to consumption, or its process died.
TicketsInUse ==
    \A c \in Calls : tickets[c] # NoTicket =>
        \/ call[c].pc \in {"ticketed", "dispatched", "lost"}
        \/ Hosted(c) /\ call[c].pc # "idle"

\* A ticket appears with its issue only, and what a call does stays.
LEMMA TicketsNext ==
  ASSUME PermTypeOK, TicketsInUse, [PermNext]_allVars
  PROVE  TicketsInUse'
<1>0. call \in [Calls -> CallRecords] /\ tickets \in [Calls -> Tickets \cup {NoTicket}]
  BY TypeParts DEF ServiceType
<1>1. ASSUME NEW ours, CancelPending(ours)
      PROVE  \A c \in Calls : tickets'[c] \in {tickets[c], NoTicket}
  BY <1>0, <1>1 DEF CancelPending, NewRevision, service
<1>2. CASE UNCHANGED allVars
  BY <1>2 DEF TicketsInUse, Hosted, allVars, service, people
<1>3. ASSUME NEW c \in Calls, CallStep(c) PROVE TicketsInUse'
  <2>1. \A d \in Calls \ {c} : call'[d] = call[d] /\ tickets'[d] \in {tickets[d], NoTicket}
    <3>1. \A d \in Calls \ {c} : call'[d] = call[d]
      BY <1>0, <1>3 DEF CallStep, Refuse, Issue, Propose, Answer, NoAnswer, Interrupt,
         AfterInterrupt, Resolve, Recheck, Again, Dispatch, Discard, Consume, ConsumeRaises,
         AssertOwner, CommitEdit, Finish, Go, Return
    <3>2. CASE AfterInterrupt(c) \/ Recheck(c)
      BY <1>0, <1>1, <3>1, <3>2 DEF AfterInterrupt, Recheck, service
    <3>3. CASE Resolve(c)
      BY <1>0, <3>1, <3>3 DEF Resolve, Decision, NewRevision, service
    <3>4. CASE Issue(c) \/ Consume(c) \/ Discard(c) \/ ConsumeRaises(c)
      BY <1>0, <3>1, <3>4 DEF Issue, Consume, Discard, ConsumeRaises, Drop, service
    <3> QED BY <1>3, <3>1, <3>2, <3>3, <3>4 DEF CallStep, Refuse, Propose, Answer, NoAnswer,
       Interrupt, Again, Dispatch, AssertOwner, CommitEdit, Finish, service
  <2>2. call'[c].req = call[c].req /\ call'[c].pc # "idle"
    BY <1>0, <1>3 DEF CallStep, Refuse, Issue, Propose, Answer, NoAnswer, Interrupt,
       AfterInterrupt, Resolve, Recheck, Again, Dispatch, Discard, Consume, ConsumeRaises,
       AssertOwner, CommitEdit, Finish, Go, Return, CallRecords
  <2>3. tickets'[c] # NoTicket => call'[c].pc \in {"ticketed", "dispatched", "lost"} \/ Hosted(c)
    <3> SUFFICES ASSUME tickets'[c] # NoTicket, ~Hosted(c)
                 PROVE  call'[c].pc \in {"ticketed", "dispatched", "lost"}
      OBVIOUS
    <3>1. CASE Issue(c)
      BY <1>0, <3>1 DEF Issue, Go, CallRecords, Return, service, TicketsInUse
    <3>2. CASE ~Issue(c)
      <4>1. tickets[c] # NoTicket
        <5>1. CASE AfterInterrupt(c) \/ Recheck(c)
          BY <1>1, <5>1 DEF AfterInterrupt, Recheck, service
        <5>2. CASE Resolve(c)
          BY <1>0, <5>2 DEF Resolve, Decision, NewRevision, service
        <5>3. CASE Consume(c) \/ Discard(c) \/ ConsumeRaises(c)
          BY <1>0, <5>3 DEF Consume, Discard, ConsumeRaises, Drop, service
        <5> QED BY <1>3, <3>2, <5>1, <5>2, <5>3 DEF CallStep, Refuse, Propose, Answer, NoAnswer,
           Interrupt, Again, Dispatch, AssertOwner, CommitEdit, Finish, service
      <4>2. call[c].pc \in {"ticketed", "dispatched", "lost"}
        BY <4>1 DEF TicketsInUse
      <4>3. Dispatch(c) \/ Discard(c) \/ Consume(c) \/ ConsumeRaises(c)
        BY <1>3, <3>2, <4>2 DEF CallStep, Refuse, Propose, Answer, NoAnswer, Interrupt,
           AfterInterrupt, Resolve, Recheck, Again, AssertOwner, CommitEdit, Finish
      <4>4. Dispatch(c)
        BY <1>0, <4>3 DEF Discard, Consume, ConsumeRaises, Drop
      <4> QED BY <1>0, <4>4 DEF Dispatch, Go, CallRecords
    <3> QED BY <3>1, <3>2
  <2> QED BY <2>1, <2>2, <2>3 DEF TicketsInUse, Hosted
<1>4. ASSUME NEW c \in Calls, NEW g \in Owners, NEW req \in Requests, Begin(c, g, req)
      PROVE  TicketsInUse'
  <2>1. tickets' = tickets /\ tickets[c] = NoTicket
    BY <1>4 DEF Begin, TicketsInUse, service
  <2>2. \A d \in Calls \ {c} : call'[d] = call[d]
    BY <1>0, <1>4 DEF Begin
  <2> QED BY <2>1, <2>2 DEF TicketsInUse, Hosted
<1>5. ASSUME NEW g \in Owners, Crash(g) PROVE TicketsInUse'
  <2>1. tickets' = tickets
    BY <1>5 DEF Crash, service
  <2>2. \A c \in Calls : /\ call'[c].req = call[c].req
                         /\ call'[c].pc \in {call[c].pc, "lost"}
    BY <1>0, <1>5 DEF Crash, CallRecords
  <2> QED BY <2>1, <2>2 DEF TicketsInUse, Hosted
<1>6. ASSUME \A c \in Calls : tickets'[c] \in {tickets[c], NoTicket}, call' = call
      PROVE  TicketsInUse'
  BY <1>6 DEF TicketsInUse, Hosted
<1>7. CASE TrustedStep
  <2>1. ASSUME NEW allow \in BOOLEAN, ResolveShown(allow) PROVE TicketsInUse'
    BY <1>0, <1>6, <2>1 DEF ResolveShown, Decision, NewRevision, service
  <2>2. CASE CancelShown
    BY <1>1, <1>6, <2>2 DEF CancelShown
  <2>3. CASE \E s \in TrustedScopes : ReplaceScope(s) \/ InitializeScope(s)
    BY <1>0, <1>6, <2>3 DEF ReplaceScope, InitializeScope, NewRevision
  <2>4. CASE Show
    BY <1>6, <2>4 DEF Show, service
  <2> QED BY <1>7, <2>1, <2>2, <2>3, <2>4 DEF TrustedStep
<1>8. ASSUME NEW g \in Owners, SetToken(g) \/ CancelCallback(g) PROVE TicketsInUse'
  BY <1>1, <1>6, <1>8 DEF SetToken, CancelCallback, service
<1>9. CASE ChangeInputs \/ Registry
  BY <1>6, <1>9 DEF ChangeInputs, Registry, service
<1> QED BY <1>2, <1>3, <1>4, <1>5, <1>7, <1>8, <1>9 DEF PermNext

\* A ticket that nobody will consume is given back (discard), unless its process
\* died or it was a host tool's: MAX_TICKETS counts it.
THEOREM TicketsReturn == PermSpec => []TicketsAreReturned
<1>1. PermInit => TicketsInUse
  BY DEF PermInit, TicketsInUse
<1>2. PermTypeOK /\ TicketsInUse /\ [PermNext]_allVars => TicketsInUse'
  BY TicketsNext
<1>3. TicketsInUse => TicketsAreReturned
  BY DEF TicketsInUse, TicketsAreReturned
<1> QED BY <1>1, <1>2, <1>3, PermTypeCorrect, PTL DEF PermSpec

=============================================================================
