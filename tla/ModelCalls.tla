----------------------------- MODULE ModelCalls -----------------------------
(***************************************************************************)
(* The dispatch gate of model calls: the run's ledger (BudgetManager), one *)
(* call from its reservation to its settlement (invoke_model_call), the    *)
(* worker thread that carries it and may be left behind (run_blocking,     *)
(* BlockingScope), the lock of the client it uses, and the circuit breaker *)
(* of the agent, which has no lock of its own.                             *)
(*                                                                         *)
(* One process at a time runs the calls.  Restart is its death, and a new  *)
(* process that restores the ledger from the last checkpoint and adds the  *)
(* calls that only the journal of the extraction knows.                    *)
(***************************************************************************)
EXTENDS Integers, FiniteSets, FiniteSetsExt

CONSTANTS
    Calls,        \* the calls (each has a fresh key)
    Durable,      \* the calls whose reservation is journalled before dispatch (purpose "extraction")
    Guarded,      \* the calls that go through the agent's breaker
    Clients,      \* the provider clients
    ClientOf,     \* the client a call uses
    NoCall,
    Reserve,      \* tokens one call reserves
    MaxUse,       \* the most tokens one call really uses
    CallLimit,    \* limit of llm_calls
    TokenLimit,   \* limit of total_tokens
    CostLimit,    \* limit of hard_cost_limit_usd, one unit per settled token (0: none)
    Threshold,    \* failure_threshold
    Probes,       \* half_open_success_threshold
    Recovery,     \* recovery_timeout, in ticks
    MaxRestarts   \* bound on the restarts of the process

ASSUME CallsAssumption ==
    /\ IsFiniteSet(Calls) /\ NoCall \notin Calls
    /\ Durable \subseteq Calls /\ Guarded \subseteq Calls
    /\ ClientOf \in [Calls -> Clients]
    /\ {Reserve, MaxUse, CallLimit, TokenLimit, Threshold, Probes} \subseteq Nat \ {0}
    /\ {CostLimit, Recovery, MaxRestarts} \subseteq Nat

\* What a worker thread leaves for the owner: nothing yet, an exception, an
\* answer without usage, or the tokens it reports.
Pending == -3
Raised == -2
Silent == -1
Outcomes == {Pending, Raised, Silent} \cup 0 .. MaxUse * Cardinality(Calls)

\* `unknown` until the call is settled; a call that has no record is `absent`.
Statuses == {"absent", "unknown", "estimated", "actual"}

\* The ledger: the totals, and what each call holds of them.
Ledgers == [calls : Nat, tokens : Nat, usd : Nat, scope : [Calls -> Nat], status : [Calls -> Statuses]]
EmptyLedger == [calls |-> 0, tokens |-> 0, usd |-> 0,
                scope |-> [c \in Calls |-> 0], status |-> [c \in Calls |-> "absent"]]

OwnerSteps == {"idle", "reserved", "recorded", "waiting", "settled", "raised", "reported"}
WorkerSteps == {"none", "queued", "calling", "ended"}

VARIABLES
    ledger,    \* BudgetManager of the run
    saved,     \* its snapshot in the last checkpoint
    journal,   \* its snapshot in the extraction's journal
    owner,     \* the thread that waits for a call
    worker,    \* the thread that carries it
    answer,    \* what the worker leaves
    lock,      \* _model_budget_lock of each client
    counter,   \* session_usage of each client
    before,    \* session_usage read under the lock before the call
    breaker,   \* the agent's CircuitBreaker
    cancelled, \* the run's cancellation token is set, or its deadline has passed
    scope,     \* the BlockingScope of the run: open or closed
    spent,     \* what the provider really charged for a call (history)
    sent,      \* the requests made that the ledger must know (history)
    trial,     \* the calls whose request was made in this half-open period (history)
    restarts   \* number of restarts (bounded)

ledgerVars == <<ledger, saved, journal>>
clientVars == <<lock, counter, before>>
history == <<spent, sent, trial>>
callsVars == <<ledgerVars, owner, worker, answer, clientVars, breaker, cancelled, scope, history, restarts>>

ClosedBreaker == [mode |-> "closed", failures |-> 0, probes |-> 0, age |-> 0]

CallsInit ==
    /\ ledger = EmptyLedger /\ saved = EmptyLedger /\ journal = EmptyLedger
    /\ owner = [c \in Calls |-> "idle"]
    /\ worker = [c \in Calls |-> "none"]
    /\ answer = [c \in Calls |-> Pending]
    /\ lock = [k \in Clients |-> NoCall]
    /\ counter = [k \in Clients |-> 0]
    /\ before = [c \in Calls |-> 0]
    /\ breaker = ClosedBreaker
    /\ cancelled = FALSE /\ scope = "open"
    /\ spent = [c \in Calls |-> 0] /\ sent = {} /\ trial = {}
    /\ restarts = 0

-----------------------------------------------------------------------------
(* The ledger.                                                             *)

\* Deviation: a scope that was already reserved is charged again.
Reconcile_Adds(l, c, amount) ==
    [l EXCEPT !.calls = @ + (IF l.status[c] = "absent" THEN 1 ELSE 0),
              !.tokens = @ + amount,
              !.scope[c] = amount]

\* reconcile_scope: what the call holds is replaced, never added to.
Reconcile(l, c, amount) ==
    [l EXCEPT !.calls = @ + (IF l.status[c] = "absent" THEN 1 ELSE 0),
              !.tokens = @ - l.scope[c] + amount,
              !.scope[c] = amount]

\* Deviation: room for the reservation is looked for in the settled calls only.
HasRoom_Settled(l) ==
    /\ Cardinality({c \in Calls : l.status[c] \in {"estimated", "actual"}}) + 1 <= CallLimit
    /\ l.tokens + Reserve <= TokenLimit
    /\ CostLimit = 0 \/ l.usd <= CostLimit

\* reserve_model_call refuses unless every resource has room; a spent cost limit
\* refuses before it.
HasRoom(l) ==
    /\ l.calls + 1 <= CallLimit
    /\ l.tokens + Reserve <= TokenLimit
    /\ CostLimit = 0 \/ l.usd <= CostLimit

\* settle_model_call: the reported usage, or the reservation when none was reported.
Settlement(l, c, a) ==
    LET amount == IF a = Silent THEN Reserve ELSE a
    IN [Reconcile(l, c, amount) EXCEPT
           !.status[c] = IF a = Silent THEN "estimated" ELSE "actual",
           !.usd = @ + amount]

\* restore, then restore_missing_model_calls: the checkpoint wins, and the journal adds
\* the durable calls the checkpoint does not know.
Missing(s, j) == {c \in Durable : s.status[c] = "absent" /\ j.status[c] # "absent"}
Restored(s, j) ==
    LET missing == Missing(s, j)
    IN [calls |-> s.calls + Cardinality(missing),
        tokens |-> s.tokens + MapThenSumSet(LAMBDA c : j.scope[c], missing),
        usd |-> s.usd,
        scope |-> [c \in Calls |-> IF c \in missing THEN j.scope[c] ELSE s.scope[c]],
        status |-> [c \in Calls |-> IF c \in missing THEN j.status[c] ELSE s.status[c]]]

-----------------------------------------------------------------------------
(* The circuit breaker.                                                    *)

Refuses(b) == b.mode = "open" /\ b.age < Recovery

\* The first call after the recovery timeout starts the half-open period.
Probe(b) == IF b.mode = "open" THEN [b EXCEPT !.mode = "half_open", !.probes = 0, !.age = 0] ELSE b

\* Deviation: a success in the half-open period leaves the failures counted.
Success_KeepsFailures(b) ==
    IF b.mode = "half_open" /\ b.probes + 1 >= Probes
    THEN [b EXCEPT !.mode = "closed", !.probes = 0]
    ELSE [b EXCEPT !.probes = IF b.mode = "half_open" THEN @ + 1 ELSE @]

Success(b) ==
    IF b.mode = "half_open" /\ b.probes + 1 >= Probes
    THEN ClosedBreaker
    ELSE [b EXCEPT !.failures = 0, !.probes = IF b.mode = "half_open" THEN @ + 1 ELSE @]

Opened(b) == [b EXCEPT !.mode = "open", !.age = 0]

\* A failed probe opens the circuit again; the count stops growing at the threshold.
Failure(b) ==
    IF b.mode = "half_open" THEN [Opened(b) EXCEPT !.probes = 0]
    ELSE IF b.failures + 1 >= Threshold
         THEN [Opened(b) EXCEPT !.failures = Threshold]
         ELSE [b EXCEPT !.failures = @ + 1]

-----------------------------------------------------------------------------
(* The owner of a call.                                                    *)

\* The token is checked before anything is reserved; the ledger then takes the whole
\* reservation or refuses the call.
ReserveCall(c) ==
    /\ owner[c] = "idle"
    /\ IF cancelled \/ ~HasRoom(ledger)
       THEN /\ owner' = [owner EXCEPT ![c] = "raised"]
            /\ UNCHANGED ledger
       ELSE /\ owner' = [owner EXCEPT ![c] = "reserved"]
            /\ ledger' = [Reconcile(ledger, c, Reserve) EXCEPT !.status[c] = "unknown"]
    /\ UNCHANGED <<saved, journal, worker, answer, clientVars, breaker, cancelled, scope, history, restarts>>

\* on_reserved: the extraction journals the snapshot, and a journal that refuses it ends
\* the call with its debt kept.
Record(c) ==
    /\ owner[c] = "reserved" /\ c \in Durable
    /\ \/ /\ journal' = ledger
          /\ owner' = [owner EXCEPT ![c] = "recorded"]
       \/ /\ owner' = [owner EXCEPT ![c] = "raised"]
          /\ UNCHANGED journal
    /\ UNCHANGED <<ledger, saved, worker, answer, clientVars, breaker, cancelled, scope, history, restarts>>

Ready(c) == owner[c] = "recorded" \/ (owner[c] = "reserved" /\ c \notin Durable)

\* Deviation: the worker does not enter the scope it must be waited for in.
Submit_NoScope(c) ==
    /\ Ready(c)
    /\ IF cancelled
       THEN owner' = [owner EXCEPT ![c] = "raised"] /\ UNCHANGED worker
       ELSE owner' = [owner EXCEPT ![c] = "waiting"] /\ worker' = [worker EXCEPT ![c] = "queued"]
    /\ UNCHANGED <<ledgerVars, answer, clientVars, breaker, cancelled, scope, history, restarts>>

\* run_blocking: a cancelled token and a closed scope refuse the worker.
Submit(c) ==
    /\ Ready(c)
    /\ IF cancelled \/ scope = "closed"
       THEN owner' = [owner EXCEPT ![c] = "raised"] /\ UNCHANGED worker
       ELSE owner' = [owner EXCEPT ![c] = "waiting"] /\ worker' = [worker EXCEPT ![c] = "queued"]
    /\ UNCHANGED <<ledgerVars, answer, clientVars, breaker, cancelled, scope, history, restarts>>

\* wait_future gives up at the step's timeout, at the deadline or at the cancellation; the
\* worker goes on.
Abandon(c) ==
    /\ owner[c] = "waiting"
    /\ owner' = [owner EXCEPT ![c] = "raised"]
    /\ UNCHANGED <<ledgerVars, worker, answer, clientVars, breaker, cancelled, scope, history, restarts>>

\* Only the thread that still waits settles the call.
Settle(c) ==
    /\ owner[c] = "waiting" /\ worker[c] = "ended"
    /\ IF answer[c] = Raised
       THEN owner' = [owner EXCEPT ![c] = "raised"] /\ UNCHANGED ledger
       ELSE /\ owner' = [owner EXCEPT ![c] = "settled"]
            /\ ledger' = Settlement(ledger, c, answer[c])
    /\ UNCHANGED <<saved, journal, worker, answer, clientVars, breaker, cancelled, scope, history, restarts>>

\* The extraction journals the ledger again, however its call ended.
Report(c) ==
    /\ owner[c] \in {"settled", "raised"} /\ c \in Durable
    /\ owner' = [owner EXCEPT ![c] = "reported"]
    /\ journal' = ledger
    /\ UNCHANGED <<ledger, saved, worker, answer, clientVars, breaker, cancelled, scope, history, restarts>>

-----------------------------------------------------------------------------
(* The worker of a call.                                                   *)

Stop(c, a) ==
    /\ worker' = [worker EXCEPT ![c] = "ended"]
    /\ answer' = [answer EXCEPT ![c] = a]

Free(c) == lock[ClientOf[c]] = NoCall

\* Under the client's lock: the token, the usage so far, the breaker, and the request.
Enter(c) ==
    /\ worker[c] = "queued" /\ Free(c)
    /\ IF cancelled \/ (c \in Guarded /\ Refuses(breaker))
       THEN /\ Stop(c, Raised)
            /\ UNCHANGED <<lock, before, breaker, sent, trial>>
       ELSE /\ worker' = [worker EXCEPT ![c] = "calling"]
            /\ lock' = [lock EXCEPT ![ClientOf[c]] = c]
            /\ before' = [before EXCEPT ![c] = counter[ClientOf[c]]]
            /\ breaker' = IF c \in Guarded THEN Probe(breaker) ELSE breaker
            /\ trial' = IF c \in Guarded /\ breaker'.mode = "half_open" THEN trial \cup {c} ELSE trial
            /\ sent' = sent \cup {c}
            /\ UNCHANGED answer
    /\ UNCHANGED <<ledgerVars, owner, counter, cancelled, scope, spent, restarts>>

\* The half-open period ends when the breaker closes or opens.
Trials == IF breaker'.mode = "half_open" THEN trial ELSE {}

\* Deviation: the lock is released only when the provider answers.
Release_OnAnswer(c) == lock' = IF breaker'.failures > breaker.failures THEN lock
                               ELSE [lock EXCEPT ![ClientOf[c]] = NoCall]

Release(c) == lock' = [lock EXCEPT ![ClientOf[c]] = NoCall]

\* The provider answers.  The usage is what the client's counter gained, unless the client
\* keeps none.
Answer(c) ==
    /\ worker[c] = "calling"
    /\ breaker' = IF c \in Guarded THEN Success(breaker) ELSE breaker
    /\ \E used \in 0 .. MaxUse, reported \in BOOLEAN :
        /\ spent' = [spent EXCEPT ![c] = used]
        /\ counter' = [counter EXCEPT ![ClientOf[c]] = @ + (IF reported THEN used ELSE 0)]
        /\ Stop(c, IF reported THEN counter'[ClientOf[c]] - before[c] ELSE Silent)
    /\ trial' = Trials
    /\ Release(c)
    /\ UNCHANGED <<ledgerVars, owner, before, cancelled, scope, sent, restarts>>

\* The provider, its retries or the cancellation inside them raise; the breaker counts
\* every exception but an exhausted rate limit.
Fail(c) ==
    /\ worker[c] = "calling"
    /\ \E limited \in BOOLEAN :
        breaker' = IF c \in Guarded /\ ~limited THEN Failure(breaker) ELSE breaker
    /\ \E used \in 0 .. MaxUse : spent' = [spent EXCEPT ![c] = used]
    /\ Stop(c, Raised)
    /\ trial' = Trials
    /\ Release(c)
    /\ UNCHANGED <<ledgerVars, owner, counter, before, cancelled, scope, sent, restarts>>

-----------------------------------------------------------------------------
(* The run around the calls.                                               *)

Tick ==
    /\ breaker.mode = "open" /\ breaker.age < Recovery
    /\ breaker' = [breaker EXCEPT !.age = @ + 1]
    /\ UNCHANGED <<ledgerVars, owner, worker, answer, clientVars, cancelled, scope, history, restarts>>

Cancel ==
    /\ ~cancelled /\ cancelled' = TRUE
    /\ UNCHANGED <<ledgerVars, owner, worker, answer, clientVars, breaker, scope, history, restarts>>

\* BlockingScope.__exit__: the owner waits until no worker is pending, and closes the scope.
LeaveScope ==
    /\ scope = "open"
    /\ \A c \in Calls : worker[c] \in {"none", "ended"}
    /\ scope' = "closed"
    /\ UNCHANGED <<ledgerVars, owner, worker, answer, clientVars, breaker, cancelled, history, restarts>>

\* The run saves the ledger with its checkpoint (one that no restart reads is left out).
Checkpoint ==
    /\ restarts < MaxRestarts /\ saved # ledger
    /\ saved' = ledger
    /\ UNCHANGED <<ledger, journal, owner, worker, answer, clientVars, breaker, cancelled, scope, history, restarts>>

\* The process dies with its calls; the next one restores the ledger and makes new calls.
Restart ==
    /\ restarts < MaxRestarts
    /\ restarts' = restarts + 1
    /\ ledger' = Restored(saved, journal)
    /\ owner' = [c \in Calls |-> IF owner[c] = "idle" THEN "idle" ELSE "reported"]
    /\ worker' = [c \in Calls |-> IF worker[c] = "none" THEN "none" ELSE "ended"]
    /\ answer' = [c \in Calls |-> IF worker[c] = "none" THEN Pending ELSE Raised]
    /\ lock' = [k \in Clients |-> NoCall]
    /\ counter' = [k \in Clients |-> 0]
    /\ before' = [c \in Calls |-> 0]
    /\ breaker' = ClosedBreaker
    /\ cancelled' = FALSE /\ scope' = "open"
    /\ sent' = sent \cap Durable /\ trial' = {}
    /\ UNCHANGED <<saved, journal, spent>>

CallerStep(c) == ReserveCall(c) \/ Record(c) \/ Submit(c) \/ Settle(c) \/ Report(c)
WorkerStep(c) == Enter(c) \/ Answer(c) \/ Fail(c)

CallsNext ==
    \/ \E c \in Calls : CallerStep(c) \/ Abandon(c) \/ WorkerStep(c)
    \/ Tick \/ Cancel \/ LeaveScope \/ Checkpoint \/ Restart

CallsSpec == CallsInit /\ [][CallsNext]_callsVars

\* The threads of a call run, and a request ends: the provider's client has a timeout.
CallsFairSpec == CallsSpec /\ \A c \in Calls : WF_callsVars(CallerStep(c)) /\ WF_callsVars(WorkerStep(c))

-----------------------------------------------------------------------------
(* Properties.                                                             *)

CallsTypeOK ==
    /\ ledger \in Ledgers /\ saved \in Ledgers /\ journal \in Ledgers
    /\ owner \in [Calls -> OwnerSteps] /\ worker \in [Calls -> WorkerSteps]
    /\ answer \in [Calls -> Outcomes]
    /\ lock \in [Clients -> Calls \cup {NoCall}]
    /\ counter \in [Clients -> Nat] /\ before \in [Calls -> Nat]
    /\ breaker \in [mode : {"closed", "open", "half_open"}, failures : 0 .. Threshold,
                    probes : 0 .. Probes - 1, age : 0 .. Recovery]
    /\ cancelled \in BOOLEAN /\ scope \in {"open", "closed"}
    /\ spent \in [Calls -> 0 .. MaxUse] /\ sent \subseteq Calls /\ trial \subseteq Calls
    /\ restarts \in 0 .. MaxRestarts

\* The totals of the ledger are the sum of what its calls hold, through settlements of
\* other amounts, restores and the merge of the journal (reconcile_scope, restore,
\* restore_missing_model_calls).  What is settled as actual is what the provider charged for
\* this very call, though a text client reports a difference of a counter all calls share.
\* No more requests are made than the limit allows, whoever was left behind, and for the
\* extraction over restarts too.
LedgerAddsUp ==
    /\ ledger.calls = Cardinality({c \in Calls : ledger.status[c] # "absent"})
    /\ ledger.tokens = MapThenSumSet(LAMBDA c : ledger.scope[c], Calls)
    /\ \A c \in Calls : ledger.status[c] = "actual" => ledger.scope[c] = spent[c]
    /\ Cardinality(sent) <= CallLimit

\* A request that was made is in the ledger; one of the extraction also after a restart
\* that loses the checkpoint of its reservation (on_reserved runs before the dispatch).
RequestsAreReserved == \A c \in sent : ledger.status[c] # "absent"

\* A call whose owner went away keeps its whole reservation for ever: a late worker cannot
\* refund it.
LateResultsRefundNothing ==
    [][\A c \in Calls :
          (owner[c] = "raised" /\ ledger.status[c] = "unknown" /\ restarts' = restarts)
          => ledger'.scope[c] = Reserve /\ ledger'.status[c] = "unknown"]_callsVars

\* A closed circuit is never one failure count past its threshold: every way to close it,
\* and every success, starts the count again.
ClosedMeansFewFailures == breaker.mode = "closed" => breaker.failures < Threshold

\* The successes the half-open circuit counts are answers to requests it let through as
\* probes.  The breaker has no lock: this is the work of the lock of the agent's client.
ProbesAreProbes ==
    breaker.mode = "half_open" =>
        breaker.probes = Cardinality({c \in trial : worker[c] = "ended" /\ answer[c] # Raised})

\* When the scope of the run is left, no worker that was left behind is still alive, and
\* none starts.
LeftScopeIsQuiet == scope = "closed" => \A c \in Calls : worker[c] \in {"none", "ended"}

\* Every worker comes to its end, though it waits for the client behind workers that nobody
\* waits for any more.
WorkersEnd == \A c \in Calls : worker[c] = "queued" ~> worker[c] = "ended"

=============================================================================
