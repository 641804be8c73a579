------------------------- MODULE PermissionTickets -------------------------
(***************************************************************************)
(* The permission service of a sandbox task, linux_sandbox/permissions.py: *)
(* a durable scope, one proposal for the trusted side, and one-time        *)
(* tickets fenced by a revision.  Every method runs under the file lock of *)
(* the service; the lock is released while a person decides, and between   *)
(* the ticket and its use.  Interleaved are                                *)
(*   - the threads that carry out calls: linux_sandbox/routing.py with     *)
(*     workspace_backend.py, and authorize_trusted for host tools;         *)
(*   - the trusted interface, runtime.py, which shows the proposal and     *)
(*     resolves or cancels it;                                             *)
(*   - cancellation, agent_loop.py and repair/plan_binding.py;             *)
(*   - the owners of the run.  The run registry is represented by what it  *)
(*     promises, WorkspaceFence; owner g is the g-th process that took the *)
(*     run.                                                                *)
(***************************************************************************)
EXTENDS WorkspaceFence, FiniteSets

CONSTANTS
    ThisRun,        \* the run of the service's identity
    Calls,          \* call ids
    Caps,           \* capabilities of the classified requests
    ReadCap,        \* the capability workspace_read
    PinnedCaps,     \* capabilities whose requests carry input versions
    TrustedCaps,    \* capabilities of host tools (authorize_trusted)
    Paths,          \* paths, each to be read, to be written or to install from
    Requests,       \* requests the model of the agent makes
    TrustedScopes,  \* scopes the trusted side sets
    MaxTickets,     \* 256 in the code
    MaxRevision,    \* bound on what the trusted side does on its own account
    MaxVersion,     \* bound on changes of the input files
    NoProposal, NoTicket

VARIABLES
    scope,      \* state["scope"]
    revision,   \* state["revision"]
    pending,    \* state["pending"]
    tickets,    \* state["tickets"]
    used,       \* state["used_calls"]
    audited,    \* whether state["audit"] has an entry
    call,       \* call[c]: the thread that carries out call c
    version,    \* version of the pinned input files
    stop,       \* stop[g]: cancellation of owner g
    shown,      \* the proposal the trusted interface shows
    agreed      \* history: proposals a person agreed to since the last one was made

fence == <<occupant, open, epoch, asked, closed>>
service == <<scope, revision, pending, tickets, used, audited>>
people == <<shown, agreed>>
allVars == <<fence, service, call, version, stop, people>>

\* _policy: a digest of revision and scope.
Policy == [revision |-> revision, scope |-> scope]

\* What the parts of PermissionAuthority are here.
TheConsent == IF pending # NoProposal /\ pending.status = "approved"
                THEN [req |-> pending.req, ver |-> pending.ver]
                ELSE NoProposal
TheStarted == {<<c, [req |-> call[c].req, ver |-> call[c].ver]>> : c \in used}
TheValid == {c \in Calls : call[c].pc \in {"running", "checked"} /\ call[c].proof = Policy}
TheCommitted == {c \in Calls : call[c].pc = "committed"}

Authority == INSTANCE PermissionAuthority WITH
    NoConsent <- NoProposal, Versions <- 0..MaxVersion,
    consent <- TheConsent, started <- TheStarted, valid <- TheValid,
    committed <- TheCommitted

Owners == 1..MaxGen

ASSUME PermissionAssumption ==
    /\ ThisRun \in Runs
    /\ MaxGen \in Nat /\ MaxTickets \in Nat \ {0} /\ MaxVersion \in Nat
    /\ ReadCap \in Caps /\ PinnedCaps \subseteq Caps /\ TrustedCaps \subseteq Caps
    /\ Requests \subseteq Authority!Actions /\ Requests # {}
    /\ TrustedScopes \subseteq Authority!Scopes

-----------------------------------------------------------------------------
(* Types *)

Policies == [revision : Nat, scope : Authority!Scopes]

\* A proposal's id is the revision at which it was made: settling one starts
\* a new revision before the next can be made.
Proposals == [id : Nat, req : Requests, ver : 0..MaxVersion, gen : 0..MaxGen,
              revision : Nat,
              status : {"pending", "approved", "denied", "stale", "consumed"}]

\* grant: the ticket carries grant_scope.
Tickets == [req : Requests, ver : 0..MaxVersion, gen : 0..MaxGen, policy : Policies,
            grant : BOOLEAN, widened : Authority!Scopes,
            digest : [req : Requests, ver : 0..MaxVersion, gen : 0..MaxGen]]

\* What a person sees of a proposal.
Notices == [id : Nat, req : Requests, ver : 0..MaxVersion]

Notice(p) == [id |-> p.id, req |-> p.req, ver |-> p.ver]

CallSteps == {"idle", "asked", "waiting", "answered", "interrupted", "recheck",
              "again", "ticketed", "dispatched", "running", "checked", "committed",
              "ended", "lost"}

ASSUME DistinctAssumption ==
    /\ NoProposal \notin Proposals \cup Notices
    /\ NoTicket \notin Tickets \cup Policies

InLock == {"dispatched", "running", "checked"}

NotYet == [pc |-> "idle", gen |-> 0, req |-> CHOOSE r \in Requests : TRUE,
           ver |-> 0, again |-> FALSE, asks |-> NoProposal, says |-> FALSE,
           proof |-> NoTicket]

PermTypeOK ==
    /\ occupant \in Runs \cup {NoRun} /\ open \in BOOLEAN
    /\ epoch \in [Runs -> 0..MaxGen] /\ asked \subseteq Runs /\ closed \subseteq Runs
    /\ scope \in Authority!Scopes
    /\ revision \in Nat
    /\ pending \in Proposals \cup {NoProposal}
    /\ tickets \in [Calls -> Tickets \cup {NoTicket}]
    /\ used \subseteq Calls
    /\ audited \in BOOLEAN
    /\ call \in [Calls ->
         [pc : CallSteps, gen : 0..MaxGen, req : Requests, ver : 0..MaxVersion,
          again : BOOLEAN, asks : Notices \cup {NoProposal}, says : BOOLEAN,
          proof : Policies \cup {NoTicket}]]
    /\ version \in 0..MaxVersion
    /\ stop \in [Owners -> {"no", "token", "done"}]
    /\ shown \in Notices \cup {NoProposal}
    /\ agreed \subseteq Notices

PermInit ==
    /\ Init
    /\ scope \in TrustedScopes
    /\ revision = 1
    /\ pending = NoProposal
    /\ tickets = [c \in Calls |-> NoTicket]
    /\ used = {}
    /\ audited = FALSE
    /\ call = [c \in Calls |-> NotYet]
    /\ version = 0
    /\ stop = [g \in Owners |-> "no"]
    /\ shown = NoProposal
    /\ agreed = {}

-----------------------------------------------------------------------------
(* Conditions *)

\* assert_can_dispatch and assert_request_owner, as the registry promises them.
CanDispatch(g) == occupant = ThisRun /\ open /\ epoch[ThisRun] = g

\* Input versions a request carries when it is classified now.
Pin(req) == IF req.cap \in PinnedCaps THEN version ELSE 0

Unsettled == pending # NoProposal /\ pending.status \in {"pending", "approved"}

Digest(p) == [req |-> p.req, ver |-> p.ver, gen |-> p.gen]

\* The proposal is for this action, or was for an earlier owner's.
Matches(c) ==
    /\ pending # NoProposal
    /\ pending.req = call[c].req /\ pending.ver = call[c].ver
    /\ \/ pending.gen = call[c].gen
       \/ CanDispatch(call[c].gen) /\ pending.gen <= call[c].gen

\* A read inside the scope does not wait for the proposal.
InternalRead(c) == call[c].req.cap = ReadCap /\ Authority!Covers(scope, call[c].req)

\* The action is the one that was approved.
Granting(c) ==
    /\ Matches(c) /\ ~InternalRead(c)
    /\ pending.status = "approved" /\ pending.revision = revision

\* Deviation: only an undecided proposal holds other actions up.
Refused_OnlyUndecided(c) ==
    \/ /\ pending # NoProposal /\ pending.status = "pending"
       /\ ~InternalRead(c) /\ ~Matches(c)
    \/ Matches(c) /\ pending.status \in {"denied", "stale"}

Refused(c) ==
    \/ Unsettled /\ ~InternalRead(c) /\ ~Matches(c)
    \/ Unsettled /\ ~InternalRead(c) /\ pending.status = "approved" /\ ~Granting(c)
    \/ Matches(c) /\ pending.status \in {"denied", "stale"}

Allowed(c) == Authority!Covers(scope, call[c].req) \/ Granting(c)

\* Deviation: the decision is taken for whatever is pending.
Decidable_AnyProposal(p) == pending # NoProposal /\ pending.status = "pending"

\* The proposal p is still the one in place and undecided.
Decidable(p) ==
    /\ pending # NoProposal
    /\ pending.id = p.id
    /\ pending.status = "pending"

\* Deviation: the inputs are not read again at consumption.
Usable_OldInputs(c) ==
    /\ tickets[c] # NoTicket
    /\ tickets[c].policy = Policy
    /\ tickets[c].grant => /\ pending # NoProposal
                           /\ pending.status = "approved"
                           /\ Digest(pending) = tickets[c].digest

\* The ticket of c authorizes what c does with its inputs as they are now.
Usable(c) ==
    /\ tickets[c] # NoTicket
    /\ tickets[c].req = call[c].req /\ tickets[c].gen = call[c].gen
    /\ tickets[c].ver = Pin(call[c].req)
    /\ tickets[c].policy = Policy
    /\ tickets[c].grant => /\ pending # NoProposal
                           /\ pending.status = "approved"
                           /\ Digest(pending) = tickets[c].digest

-----------------------------------------------------------------------------
(* Effects of the service's methods *)

\* A decision of the trusted side: all tickets issued so far are void.
NewRevision ==
    /\ revision' = revision + 1
    /\ tickets' = [c \in Calls |-> NoTicket]
    /\ audited' = TRUE
    /\ UNCHANGED used

Decision(allow) ==
    /\ NewRevision
    /\ pending' = [pending EXCEPT !.status = IF allow THEN "approved" ELSE "denied",
                                  !.revision = revision + 1]
    /\ UNCHANGED scope

\* Deviation: the proposal turns stale and the revision stays.
CancelPending_SameRevision(ours) ==
    IF Unsettled /\ ours
      THEN /\ pending' = [pending EXCEPT !.status = "stale"]
           /\ UNCHANGED <<scope, revision, tickets, used, audited>>
      ELSE UNCHANGED service

\* cancel_pending; ours: whether the id given is that of the proposal.
CancelPending(ours) ==
    IF Unsettled /\ ours
      THEN /\ NewRevision
           /\ pending' = [pending EXCEPT !.status = "stale"]
           /\ UNCHANGED scope
      ELSE UNCHANGED service

Same(p) == pending # NoProposal /\ pending.id = p.id

\* discard
Drop(c) ==
    /\ tickets' = [tickets EXCEPT ![c] = NoTicket]
    /\ UNCHANGED <<scope, revision, pending, used, audited>>

\* The thread of call c goes on; nothing but the service changes besides.
Go(c, pc) ==
    /\ call' = [call EXCEPT ![c].pc = pc]
    /\ UNCHANGED <<fence, version, stop, people>>

\* It comes to its end and forgets its local variables.
Return(c, pc) ==
    /\ call' = [call EXCEPT ![c].pc = pc, ![c].again = FALSE, ![c].says = FALSE,
                            ![c].asks = NoProposal, ![c].proof = NoTicket]
    /\ UNCHANGED <<fence, version, stop, people>>

-----------------------------------------------------------------------------
(* A call asks for authority *)

\* routing reads the input versions; authorize_action asserts the owner and
\* looks at the cancellation token, then waits for the lock.
Begin(c, g, req) ==
    /\ call[c].pc = "idle"
    /\ CanDispatch(g) /\ stop[g] = "no"
    /\ call' = [call EXCEPT ![c].pc = "asked", ![c].gen = g, ![c].req = req,
                            ![c].ver = Pin(req)]
    /\ UNCHANGED <<fence, service, version, stop, people>>

\* authorize_action under the lock: an unsettled proposal of another action,
\* or the answer this action got before.
Refuse(c) ==
    /\ call[c].pc = "asked"
    /\ Refused(c)
    /\ Return(c, "ended")
    /\ UNCHANGED service

Issue(c) ==
    /\ call[c].pc = "asked"
    /\ ~Refused(c) /\ Allowed(c)
    /\ c \notin used /\ tickets[c] = NoTicket
    /\ IF Cardinality({d \in Calls : tickets[d] # NoTicket}) >= MaxTickets
         THEN Return(c, "ended") /\ UNCHANGED service
         ELSE /\ tickets' = [tickets EXCEPT ![c] =
                   [req |-> call[c].req, ver |-> call[c].ver, gen |-> call[c].gen,
                    policy |-> Policy, grant |-> Granting(c),
                    widened |-> IF Granting(c) THEN Authority!Widen(scope, call[c].req)
                                               ELSE scope,
                    digest |-> IF Granting(c) THEN Digest(pending) ELSE Digest(call[c])]]
              /\ audited' = TRUE
              /\ Go(c, "ticketed")
              /\ UNCHANGED <<scope, revision, pending, used>>

\* The action needs a decision: it joins its own proposal or makes a new one.
Propose(c) ==
    /\ call[c].pc = "asked"
    /\ ~Refused(c) /\ ~Allowed(c)
    /\ pending' = IF Matches(c) /\ pending.status # "consumed" THEN pending
                  ELSE [id |-> revision, req |-> call[c].req, ver |-> call[c].ver,
                        gen |-> call[c].gen, revision |-> revision,
                        status |-> "pending"]
    /\ audited' = TRUE
    /\ call' = [call EXCEPT ![c].pc = "waiting", ![c].asks = Notice(pending')]
    /\ agreed' = IF pending' = pending THEN agreed ELSE {}
    /\ UNCHANGED <<fence, scope, revision, tickets, used, version, stop, shown>>

-----------------------------------------------------------------------------
(* Without the lock: a person decides *)

\* The callback returns a decision, or policy "never" decides; the second
\* authorize_action of a call has no callback.
Answer(c, allow) ==
    /\ call[c].pc = "waiting" /\ ~call[c].again
    /\ call' = [call EXCEPT ![c].pc = "answered", ![c].says = allow]
    /\ agreed' = IF allow THEN agreed \cup {call[c].asks} ELSE agreed
    /\ UNCHANGED <<fence, service, version, stop, shown>>

\* No callback, no decision, or the end of the input.
NoAnswer(c) ==
    /\ call[c].pc = "waiting"
    /\ Go(c, "recheck")
    /\ UNCHANGED service

\* KeyboardInterrupt in the callback sets the cancellation token.
Interrupt(c) ==
    /\ call[c].pc = "waiting" /\ ~call[c].again
    /\ call' = [call EXCEPT ![c].pc = "interrupted"]
    /\ stop' = [stop EXCEPT ![call[c].gen] = IF @ = "no" THEN "token" ELSE @]
    /\ UNCHANGED <<fence, service, version, people>>

AfterInterrupt(c) ==
    /\ call[c].pc = "interrupted"
    /\ CancelPending(Same(call[c].asks))
    /\ Return(c, "ended")

\* resolve, from the thread of the call; a proposal that is no longer in
\* place raises approval_stale.
Resolve(c) ==
    /\ call[c].pc = "answered"
    /\ IF Decidable(call[c].asks)
         THEN Decision(call[c].says) /\ Go(c, "recheck")
         ELSE UNCHANGED service /\ Return(c, "ended")

\* Deviation: the token is not looked at after the decision.
Recheck_NoToken(c) ==
    /\ call[c].pc = "recheck"
    /\ IF Same(call[c].asks) /\ pending.status = "approved"
         THEN Go(c, "again") ELSE Return(c, "ended")
    /\ UNCHANGED service

\* Deviation: a call without a decision asks until it gets one.
Recheck_UntilDecided(c) ==
    /\ call[c].pc = "recheck"
    /\ IF stop[call[c].gen] # "no"
         THEN CancelPending(Same(call[c].asks)) /\ Return(c, "ended")
         ELSE Go(c, "again") /\ UNCHANGED service

\* The token is looked at after the decision.
Recheck(c) ==
    /\ call[c].pc = "recheck"
    /\ \/ /\ stop[call[c].gen] # "no"
          /\ CancelPending(Same(call[c].asks))
          /\ Return(c, "ended")
       \/ /\ stop[call[c].gen] = "no"
          /\ IF Same(call[c].asks) /\ pending.status = "approved"
               THEN Go(c, "again") ELSE Return(c, "ended")
          /\ UNCHANGED service

\* An approved call is authorized again, this time without a callback; the
\* owner is asserted and the token looked at as in Begin.
Again(c) ==
    /\ call[c].pc = "again"
    /\ UNCHANGED service
    /\ IF CanDispatch(call[c].gen) /\ stop[call[c].gen] = "no"
         THEN /\ call' = [call EXCEPT ![c].pc = "asked", ![c].again = TRUE]
              /\ UNCHANGED <<fence, version, stop, people>>
         ELSE Return(c, "ended")

-----------------------------------------------------------------------------
(* The ticket is used *)

Hosted(c) == call[c].req.cap \in TrustedCaps

\* The backend takes the file lock of the receipts and asserts the owner.
Dispatch(c) ==
    /\ call[c].pc = "ticketed" /\ ~Hosted(c)
    /\ CanDispatch(call[c].gen) /\ stop[call[c].gen] = "no"
    /\ \A d \in Calls : call[d].pc \notin InLock \/ Hosted(d)
    /\ Go(c, "dispatched")
    /\ UNCHANGED service

\* Registration failed, the workspace is busy or the call was cancelled.
Discard(c) ==
    /\ call[c].pc = "ticketed" /\ ~Hosted(c)
    /\ Drop(c)
    /\ Return(c, "ended")

\* consume_action; a host tool consumes right after its authorization.
Consume(c) ==
    /\ call[c].pc = IF Hosted(c) THEN "ticketed" ELSE "dispatched"
    /\ Usable(c)
    /\ tickets' = [tickets EXCEPT ![c] = NoTicket]
    /\ used' = used \cup {c}
    /\ scope' = IF tickets[c].grant THEN tickets[c].widened ELSE scope
    /\ pending' = IF tickets[c].grant THEN [pending EXCEPT !.status = "consumed"]
                                      ELSE pending
    /\ audited' = TRUE
    /\ call' = [call EXCEPT ![c].pc = "running",
                            ![c].proof = [revision |-> revision, scope |-> scope']]
    /\ UNCHANGED <<fence, revision, version, stop, people>>

\* Deviation: the ticket that did not fit is not discarded.
ConsumeRaises_KeepsTicket(c) ==
    /\ call[c].pc = IF Hosted(c) THEN "ticketed" ELSE "dispatched"
    /\ ~Usable(c)
    /\ Return(c, "ended")
    /\ UNCHANGED service

\* The ticket does not fit any more. routing discards it, authorize_trusted
\* does not.
ConsumeRaises(c) ==
    /\ call[c].pc = IF Hosted(c) THEN "ticketed" ELSE "dispatched"
    /\ ~Usable(c)
    /\ IF Hosted(c) THEN UNCHANGED service ELSE Drop(c)
    /\ Return(c, "ended")

\* Before it commits an edit the backend asserts the owner, then the authority.
AssertOwner(c) ==
    /\ call[c].pc = "running" /\ ~Hosted(c)
    /\ CanDispatch(call[c].gen) /\ stop[call[c].gen] = "no"
    /\ Go(c, "checked")
    /\ UNCHANGED service

\* assert_current lets the commit through.  The file is replaced when the lock
\* is free again: a decision made meanwhile comes too late.
CommitEdit(c) ==
    /\ call[c].pc = "checked"
    /\ call[c].proof = Policy
    /\ Return(c, "committed")
    /\ UNCHANGED service

\* The call ends without an edit: it has none, a check raised, it was
\* cancelled, or it is a host tool.
Finish(c) ==
    /\ call[c].pc \in {"running", "checked"}
    /\ Return(c, "ended")
    /\ UNCHANGED service

-----------------------------------------------------------------------------
(* The trusted interface and cancellation *)

\* pending_sandbox_approval shows a copy of the proposal.
Show ==
    /\ revision < MaxRevision
    /\ Unsettled
    /\ shown' = Notice(pending)
    /\ UNCHANGED <<fence, service, call, version, stop, agreed>>

\* resolve_sandbox_approval with the id that is shown.
ResolveShown(allow) ==
    /\ shown # NoProposal
    /\ agreed' = IF allow THEN agreed \cup {shown} ELSE agreed
    /\ IF Decidable(shown) THEN Decision(allow) ELSE UNCHANGED service
    /\ shown' = NoProposal
    /\ UNCHANGED <<fence, call, version, stop>>

\* cancel_sandbox_approval with the id that is shown.
CancelShown ==
    /\ shown # NoProposal
    /\ CancelPending(Same(shown))
    /\ shown' = NoProposal
    /\ UNCHANGED <<fence, call, version, stop, agreed>>

ReplaceScope(s) ==
    /\ revision < MaxRevision
    /\ NewRevision
    /\ scope' = s
    /\ pending' = IF pending = NoProposal THEN NoProposal
                  ELSE [pending EXCEPT !.status = "stale"]
    /\ UNCHANGED <<fence, call, version, stop, people>>

\* initialize_scope, by the first context that uses the service.
InitializeScope(s) ==
    /\ revision = 1 /\ ~audited /\ \A c \in Calls : tickets[c] = NoTicket
    /\ scope' = s
    /\ UNCHANGED <<fence, revision, pending, tickets, used, audited, call, version,
                   stop, people>>

\* The user cancels: the token is set, then its callback and the agent loop
\* cancel the proposal; the request to the coordinator is the fence's Ask.
SetToken(g) ==
    /\ stop[g] = "no"
    /\ epoch[ThisRun] >= g
    /\ stop' = [stop EXCEPT ![g] = "token"]
    /\ UNCHANGED <<fence, service, call, version, people>>

CancelCallback(g) ==
    /\ stop[g] # "no"
    /\ CancelPending(TRUE)
    /\ stop' = [stop EXCEPT ![g] = "done"]
    /\ UNCHANGED <<fence, call, version, people>>

-----------------------------------------------------------------------------
(* The surroundings *)

\* An input file changes.
ChangeInputs ==
    /\ version < MaxVersion
    /\ version' = version + 1
    /\ UNCHANGED <<fence, service, call, stop, people>>

\* The process of owner g dies; the durable state stays.
Crash(g) ==
    /\ \E c \in Calls : call[c].gen = g /\ call[c].pc \notin {"committed", "ended", "lost"}
    /\ call' = [c \in Calls |->
         IF call[c].gen = g /\ call[c].pc \notin {"committed", "ended"}
           THEN [call[c] EXCEPT !.pc = "lost", !.again = FALSE, !.says = FALSE,
                                !.asks = NoProposal, !.proof = NoTicket]
           ELSE call[c]]
    /\ UNCHANGED <<fence, service, version, stop, people>>

\* Owners come and go; the registry keeps its promise.
Registry == Next /\ UNCHANGED <<service, call, version, stop, people>>

-----------------------------------------------------------------------------

CallStep(c) ==
    \/ Refuse(c) \/ Issue(c) \/ Propose(c)
    \/ \E allow \in BOOLEAN : Answer(c, allow)
    \/ NoAnswer(c) \/ Interrupt(c) \/ AfterInterrupt(c)
    \/ Resolve(c) \/ Recheck(c) \/ Again(c)
    \/ Dispatch(c) \/ Discard(c)
    \/ Consume(c) \/ ConsumeRaises(c)
    \/ AssertOwner(c) \/ CommitEdit(c) \/ Finish(c)

TrustedStep ==
    \/ Show
    \/ \E allow \in BOOLEAN : ResolveShown(allow)
    \/ CancelShown
    \/ \E s \in TrustedScopes : ReplaceScope(s) \/ InitializeScope(s)

PermNext ==
    \/ \E c \in Calls, g \in Owners, req \in Requests : Begin(c, g, req)
    \/ \E c \in Calls : CallStep(c)
    \/ TrustedStep
    \/ \E g \in Owners : SetToken(g) \/ CancelCallback(g) \/ Crash(g)
    \/ ChangeInputs
    \/ Registry

PermSpec == PermInit /\ [][PermNext]_allVars

\* Threads run and people answer; nobody has to ask, revoke, cancel or crash.
PermFairSpec == PermSpec /\ \A c \in Calls : WF_allVars(CallStep(c))

-----------------------------------------------------------------------------
(* Properties *)

\* The service keeps the promise of PermissionAuthority: tickets issued under
\* an earlier state never authorize more than the scope or the consent in
\* force when they are consumed, a consent serves one start, and no call
\* commits after the trusted side decided anew.
ImplementsAuthority == Authority!Spec

\* What is approved was agreed to by a person who saw that very proposal,
\* although the service was unlocked while the person thought about it.
ConsentIsInformed ==
    pending # NoProposal /\ pending.status \in {"approved", "consumed"} =>
        Notice(pending) \in agreed

\* A call runs on the input versions that were authorized: consumption checks
\* them against the files as they are then.
PinnedInputs ==
    [][\A c \in used' \ used : call[c].ver = Pin(call[c].req)]_allVars

\* An unsettled proposal is never displaced by another call's: it stays until
\* somebody decides it, consumes it or cancels it.
UnsettledStays ==
    [][Unsettled /\ pending' # pending =>
         pending' # NoProposal /\ Same(pending')]_allVars

\* Once the callback of a cancellation ran and the owner's calls are over, no
\* proposal of that owner waits for a person: one made after the callback is
\* withdrawn by its own call.
CancelLeavesNothingToDecide ==
    \A g \in Owners :
        /\ stop[g] = "done"
        /\ \A c \in Calls : call[c].gen = g => call[c].pc \in {"committed", "ended"}
        /\ pending # NoProposal
        /\ pending.gen = g
        => pending.status # "pending"

\* What the records of the project say of a cancellation: it leaves the
\* proposal stale.  A call whose resolve raises never looks at the token.
CancelLeavesNoApproval ==
    \A g \in Owners :
        /\ stop[g] = "done"
        /\ \A c \in Calls : call[c].gen = g => call[c].pc \in {"committed", "ended"}
        /\ pending # NoProposal
        /\ pending.gen = g
        => pending.status # "approved"

\* A ticket outlives its call only if the process died or the call was of a
\* host tool: the others discard it on every path.
TicketsAreReturned ==
    \A c \in Calls : tickets[c] # NoTicket =>
        call[c].pc \in {"ticketed", "dispatched", "lost"} \/ Hosted(c)

\* A call that asks for authority comes to an end, however often proposals
\* are withdrawn under its hands.
CallsReturn ==
    \A c \in Calls : call[c].pc = "asked" ~> call[c].pc \in {"committed", "ended", "lost"}

=============================================================================
