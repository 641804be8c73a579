-------------------------- MODULE ModelCallProofs --------------------------
(***************************************************************************)
(* Theorems about the dispatch gate of model calls, for every set of calls *)
(* and clients, every limit and every number of restarts.                  *)
(*                                                                         *)
(* CallsInv is the inductive invariant: each of the three ledgers adds up, *)
(* what is restored was known, a call past its reservation is covered by   *)
(* the ledger (and by the journal), and the counter of a client does not   *)
(* move under the worker that reads it.                                    *)
(***************************************************************************)
EXTENDS ModelCalls, RunCoordinationProofs

USE CallsAssumption

-----------------------------------------------------------------------------
(* The operators of the ledger.                                            *)

\* The calls a ledger has a record of.
Known(l) == {c \in Calls : l.status[c] # "absent"}

\* A ledger adds up.
Sound(l) ==
    /\ l \in Ledgers
    /\ l.calls = Cardinality(Known(l))
    /\ l.tokens = SumOf(l.scope, Calls)
    /\ \A c \in Calls : /\ l.status[c] = "absent" => l.scope[c] = 0
                        /\ l.status[c] = "unknown" => l.scope[c] = Reserve

\* A ledger before it is known that its tokens are no debt of anybody.
Shapes == [calls : Nat, tokens : Int, usd : Nat, scope : [Calls -> Nat], status : [Calls -> Statuses]]

\* h is l after c holds amount, whatever c held before.
Holds(h, l, c, amount, st, more) ==
    /\ h \in Shapes
    /\ h.calls = l.calls + (IF l.status[c] = "absent" THEN 1 ELSE 0)
    /\ h.tokens = l.tokens - l.scope[c] + amount
    /\ h.usd = l.usd + more
    /\ h.scope = [l.scope EXCEPT ![c] = amount]
    /\ h.status = [l.status EXCEPT ![c] = st]

LEMMA KnownFinite ==
  ASSUME NEW l
  PROVE  IsFiniteSet(Known(l)) /\ Cardinality(Known(l)) \in Nat
  BY FS_Subset, FS_CardinalityType DEF Known

\* Replacing what one call holds keeps the ledger sound (reconcile_scope).
LEMMA HoldingSound ==
  ASSUME NEW l, Sound(l), NEW c \in Calls, NEW amount \in Nat, NEW more \in Nat,
         NEW st \in Statuses \ {"absent"}, st = "unknown" => amount = Reserve,
         NEW h, Holds(h, l, c, amount, st, more)
  PROVE  Sound(h) /\ Known(h) = Known(l) \cup {c}
<1>0. l \in Ledgers /\ l.scope \in [Calls -> Nat] /\ l.status \in [Calls -> Statuses]
      /\ l.calls \in Nat /\ l.tokens \in Nat /\ l.usd \in Nat
  BY DEF Sound, Ledgers
<1>1. /\ h.calls = l.calls + (IF l.status[c] = "absent" THEN 1 ELSE 0)
      /\ h.tokens = l.tokens - l.scope[c] + amount
      /\ h.scope = [l.scope EXCEPT ![c] = amount]
      /\ h.status = [l.status EXCEPT ![c] = st]
      /\ h.usd = l.usd + more
      /\ h \in Shapes
  BY DEF Holds
<1>2. h.scope \in [Calls -> Nat] /\ h.status \in [Calls -> Statuses]
  BY <1>0, <1>1
<1>3. Known(h) = Known(l) \cup {c}
  BY <1>0, <1>1 DEF Known
<1>4. h.calls = Cardinality(Known(h))
  <2>1. Cardinality(Known(l) \cup {c}) = IF c \in Known(l) THEN Cardinality(Known(l)) ELSE Cardinality(Known(l)) + 1
    BY KnownFinite, FS_AddElement
  <2>2. c \in Known(l) <=> l.status[c] # "absent"
    BY DEF Known
  <2>3. l.calls = Cardinality(Known(l))
    BY DEF Sound
  <2> QED BY <2>1, <2>2, <2>3, <1>0, <1>1, <1>3
<1>5. h.tokens = SumOf(h.scope, Calls)
  <2>1. SumOf(h.scope, Calls) = SumOf(l.scope, Calls) - l.scope[c] + h.scope[c]
    <3>1. \A x \in Calls : l.scope[x] \in Int /\ h.scope[x] \in Int
      BY <1>0, <1>2
    <3>2. \A x \in Calls \ {c} : l.scope[x] = h.scope[x]
      BY <1>0, <1>1
    <3> QED BY <3>1, <3>2, SumOfChange
  <2>2. h.scope[c] = amount
    BY <1>0, <1>1
  <2> QED BY <2>1, <2>2, <1>1 DEF Sound
<1>6. h.tokens \in Nat
  BY <1>2, <1>5, SumOfNaturals
<1>7. h \in Ledgers
  BY <1>1, <1>6 DEF Shapes, Ledgers
<1>8. \A d \in Calls : /\ h.status[d] = "absent" => h.scope[d] = 0
                       /\ h.status[d] = "unknown" => h.scope[d] = Reserve
  BY <1>0, <1>1 DEF Sound
<1> QED BY <1>3, <1>4, <1>5, <1>7, <1>8 DEF Sound

\* So does the merge of the checkpoint with what only the journal knows.
LEMMA RestoredSound ==
  ASSUME NEW s, NEW j, Sound(s), Sound(j)
  PROVE  /\ Sound(Restored(s, j))
         /\ Known(Restored(s, j)) = Known(s) \cup Missing(s, j)
<1> DEFINE r == Restored(s, j)
           M == Missing(s, j)
<1>0. /\ s.scope \in [Calls -> Nat] /\ s.status \in [Calls -> Statuses] /\ s.usd \in Nat
      /\ j.scope \in [Calls -> Nat] /\ j.status \in [Calls -> Statuses]
      /\ s.calls \in Nat /\ s.tokens \in Nat /\ s \in Ledgers
  BY DEF Sound, Ledgers
<1>1. /\ r.calls = s.calls + Cardinality(M)
      /\ r.tokens = s.tokens + SumOf(j.scope, M)
      /\ r.usd = s.usd
      /\ r.scope = [c \in Calls |-> IF c \in M THEN j.scope[c] ELSE s.scope[c]]
      /\ r.status = [c \in Calls |-> IF c \in M THEN j.status[c] ELSE s.status[c]]
      /\ r = [calls |-> r.calls, tokens |-> r.tokens, usd |-> r.usd,
              scope |-> r.scope, status |-> r.status]
  BY DEF Restored, SumOf
<1>2. M \subseteq Calls /\ \A c \in M : s.status[c] = "absent" /\ j.status[c] # "absent"
  BY DEF Missing
<1> HIDE DEF r, M
<1>3. r.scope \in [Calls -> Nat] /\ r.status \in [Calls -> Statuses]
  BY <1>0, <1>1
<1>4. Known(r) = Known(s) \cup M
  BY <1>0, <1>1, <1>2 DEF Known
<1>5. r.calls = Cardinality(Known(r))
  <2>1. IsFiniteSet(M) /\ Cardinality(M) \in Nat
    BY <1>2, FS_Subset, FS_CardinalityType
  <2>2. Known(s) \cap M = {}
    BY <1>2 DEF Known
  <2>3. Cardinality(Known(s) \cup M) = Cardinality(Known(s)) + Cardinality(M) - Cardinality({})
    BY <2>1, <2>2, KnownFinite, FS_Union
  <2>4. Cardinality({}) = 0
    BY FS_EmptySet
  <2>5. s.calls = Cardinality(Known(s))
    BY DEF Sound
  <2> QED BY <2>1, <2>3, <2>4, <2>5, <1>0, <1>1, <1>4
<1>6. r.tokens = SumOf(r.scope, Calls)
  <2>1. \A x \in Calls : s.scope[x] \in Int /\ j.scope[x] \in Int
    BY <1>0
  <2>2. \A x \in M : s.scope[x] = 0 /\ r.scope[x] = j.scope[x]
    BY <1>1, <1>2 DEF Sound
  <2>3. \A x \in Calls \ M : r.scope[x] = s.scope[x]
    BY <1>1
  <2>4. SumOf(r.scope, Calls) = SumOf(s.scope, Calls) + SumOf(j.scope, M)
    BY <2>1, <2>2, <2>3, <1>2, SumOfFill
  <2> QED BY <2>4, <1>1 DEF Sound
<1>7. r.tokens \in Nat
  BY <1>3, <1>6, SumOfNaturals
<1>8. r.calls \in Nat
  BY <1>5, KnownFinite
<1>9. r \in Ledgers
  BY <1>0, <1>1, <1>3, <1>7, <1>8 DEF Ledgers
<1>10. \A d \in Calls : /\ r.status[d] = "absent" => r.scope[d] = 0
                        /\ r.status[d] = "unknown" => r.scope[d] = Reserve
  BY <1>1, <1>2 DEF Sound
<1>11. Sound(r)
  BY <1>5, <1>6, <1>9, <1>10 DEF Sound
<1> QED BY <1>4, <1>11 DEF r, M

-----------------------------------------------------------------------------
(* The inductive invariant.                                                *)

Threads ==
    /\ owner \in [Calls -> OwnerSteps] /\ worker \in [Calls -> WorkerSteps]
    /\ answer \in [Calls -> Outcomes]
    /\ cancelled \in BOOLEAN /\ scope \in {"open", "closed"}
    /\ spent \in [Calls -> 0 .. MaxUse] /\ sent \subseteq Calls /\ trial \subseteq Calls
    /\ restarts \in 0 .. MaxRestarts

ClientType ==
    /\ lock \in [Clients -> Calls \cup {NoCall}]
    /\ counter \in [Clients -> Nat] /\ before \in [Calls -> Nat]

Breakers == [mode : {"closed", "open", "half_open"}, failures : 0 .. Threshold,
             probes : 0 .. Probes - 1, age : 0 .. Recovery]

BreakerInv == breaker \in Breakers /\ ClosedMeansFewFailures

LedgersSound == Sound(ledger) /\ Sound(saved) /\ Sound(journal)

\* What a ledger holds as actual is what its call was charged, and the call is over.
Paid(l) ==
    \A c \in Calls : l.status[c] = "actual" =>
        l.scope[c] = spent[c] /\ worker[c] = "ended" /\ owner[c] \in {"settled", "reported"}

PaidInv == Paid(ledger) /\ Paid(saved) /\ Paid(journal)

\* What a restart restores the ledger knows already, and the ledger keeps to the limit.
KnownInv ==
    /\ Known(saved) \subseteq Known(ledger)
    /\ Known(journal) \cap Durable \subseteq Known(ledger)
    /\ Cardinality(Known(ledger)) <= CallLimit

\* A call past its reservation is in the ledger; one of the extraction past its record is
\* in the journal.
OnItsWay(c) == owner[c] = "waiting" \/ worker[c] \in {"queued", "calling"} \/ c \in sent

CoveredInv ==
    \A c \in Calls :
        /\ owner[c] \in {"reserved", "recorded"} \/ OnItsWay(c) => c \in Known(ledger)
        /\ c \in Durable /\ (owner[c] = "recorded" \/ OnItsWay(c)) => c \in Known(journal)

\* The worker that makes the request holds its client, and nobody else moves the counter.
LineInv ==
    \A c \in Calls :
        /\ worker[c] = "calling" =>
              lock[ClientOf[c]] = c /\ before[c] = counter[ClientOf[c]]
        /\ worker[c] = "ended" => answer[c] \in {Raised, Silent} \/ answer[c] = spent[c]

CallsInv ==
    /\ Threads /\ ClientType /\ BreakerInv /\ LedgersSound /\ PaidInv /\ KnownInv
    /\ CoveredInv /\ LineInv /\ LeftScopeIsQuiet

LEMMA Numbers ==
  /\ Reserve \in Nat \ {0} /\ MaxUse \in Nat \ {0} /\ CallLimit \in Nat \ {0}
  /\ TokenLimit \in Nat \ {0} /\ Threshold \in Nat \ {0} /\ Probes \in Nat \ {0}
  /\ Recovery \in Nat /\ MaxRestarts \in Nat /\ CostLimit \in Nat
  OBVIOUS

LEMMA UseIsOutcome ==
  ASSUME Calls # {}
  PROVE  0 .. MaxUse \subseteq Outcomes
<1>1. Cardinality(Calls) \in Nat /\ Cardinality(Calls) # 0
  BY FS_CardinalityType, FS_EmptySet
<1> DEFINE n == Cardinality(Calls)
<1>2. MaxUse * n >= MaxUse
  <2> HIDE DEF n
  <2>1. n \in Nat /\ n >= 1 /\ MaxUse \in Nat
    BY <1>1, Numbers DEF n
  <2>2. MaxUse * n = MaxUse * (n - 1) + MaxUse /\ MaxUse * (n - 1) >= 0
    BY <2>1
  <2> QED BY <2>1, <2>2
<1>3. MaxUse * n \in Int
  BY <1>1, Numbers
<1> QED BY <1>1, <1>2, <1>3, Numbers DEF Outcomes

-----------------------------------------------------------------------------

LEMMA InitCalls == CallsInit => CallsInv
<1> SUFFICES ASSUME CallsInit PROVE CallsInv
  OBVIOUS
<1> USE DEF CallsInit
<1>1. Threads
  <2>1. 0 \in 0 .. MaxUse /\ 0 \in 0 .. MaxRestarts
    BY Numbers
  <2>2. Pending \in Outcomes
    BY DEF Outcomes
  <2>3. owner \in [Calls -> OwnerSteps] /\ worker \in [Calls -> WorkerSteps]
    BY DEF OwnerSteps, WorkerSteps
  <2>4. answer \in [Calls -> Outcomes] /\ spent \in [Calls -> 0 .. MaxUse]
    BY <2>1, <2>2
  <2> QED BY <2>1, <2>3, <2>4 DEF Threads
<1>2. ClientType
  BY DEF ClientType
<1>3. BreakerInv
  BY Numbers DEF BreakerInv, Breakers, ClosedMeansFewFailures, ClosedBreaker
<1>4. Known(EmptyLedger) = {} /\ Cardinality({}) = 0
  BY FS_EmptySet DEF Known, EmptyLedger
<1>5. Sound(EmptyLedger)
  <2>1. EmptyLedger \in Ledgers
    BY DEF EmptyLedger, Ledgers, Statuses
  <2>2. SumOf(EmptyLedger.scope, Calls) = 0
    BY SumOfZeros DEF EmptyLedger
  <2> QED BY <2>1, <2>2, <1>4 DEF Sound, EmptyLedger
<1>6. LedgersSound
  BY <1>5 DEF LedgersSound
<1>7. PaidInv
  BY DEF PaidInv, Paid, EmptyLedger
<1>8. KnownInv
  BY <1>4, Numbers DEF KnownInv
<1>9. CoveredInv /\ LineInv /\ LeftScopeIsQuiet
  BY DEF CoveredInv, OnItsWay, LineInv, LeftScopeIsQuiet
<1> QED BY <1>1, <1>2, <1>3, <1>6, <1>7, <1>8, <1>9 DEF CallsInv

-----------------------------------------------------------------------------
(* What a step does to the ledgers.                                        *)

LEMMA ReconcileShape ==
  ASSUME NEW l \in Shapes, NEW c \in Calls, NEW amount \in Nat
  PROVE  LET r == Reconcile(l, c, amount)
         IN /\ r \in Shapes
            /\ r.calls = l.calls + (IF l.status[c] = "absent" THEN 1 ELSE 0)
            /\ r.tokens = l.tokens - l.scope[c] + amount
            /\ r.usd = l.usd
            /\ r.scope = [l.scope EXCEPT ![c] = amount]
            /\ r.status = l.status
<1>1. l.calls + (IF l.status[c] = "absent" THEN 1 ELSE 0) \in Nat
  BY DEF Shapes
<1>2. l.tokens - l.scope[c] + amount \in Int
  BY DEF Shapes
<1>3. \A x \in Nat, y \in Int : [l EXCEPT !.calls = x, !.tokens = y, !.scope[c] = amount] \in Shapes
  BY DEF Shapes
<1>4. Reconcile(l, c, amount) \in Shapes
  BY <1>1, <1>2, <1>3 DEF Reconcile
<1>5. LET r == Reconcile(l, c, amount)
      IN /\ r.calls = l.calls + (IF l.status[c] = "absent" THEN 1 ELSE 0)
         /\ r.tokens = l.tokens - l.scope[c] + amount
         /\ r.usd = l.usd
         /\ r.scope = [l.scope EXCEPT ![c] = amount]
         /\ r.status = l.status
  BY DEF Shapes, Reconcile
<1> QED BY <1>4, <1>5

LEMMA ReserveHolds ==
  ASSUME NEW l \in Shapes, NEW c \in Calls
  PROVE  Holds([Reconcile(l, c, Reserve) EXCEPT !.status[c] = "unknown"],
               l, c, Reserve, "unknown", 0)
<1> DEFINE r == Reconcile(l, c, Reserve)
           h == [r EXCEPT !.status[c] = "unknown"]
<1>1. /\ r \in Shapes
      /\ r.calls = l.calls + (IF l.status[c] = "absent" THEN 1 ELSE 0)
      /\ r.tokens = l.tokens - l.scope[c] + Reserve
      /\ r.usd = l.usd
      /\ r.scope = [l.scope EXCEPT ![c] = Reserve]
      /\ r.status = l.status
  BY ReconcileShape, Numbers
<1> HIDE DEF r
<1>2. /\ h \in Shapes
      /\ h.calls = r.calls /\ h.tokens = r.tokens /\ h.usd = r.usd /\ h.scope = r.scope
      /\ h.status = [r.status EXCEPT ![c] = "unknown"]
  BY <1>1 DEF Shapes, Statuses
<1>3. l.usd \in Nat /\ l.usd + 0 = l.usd
  BY DEF Shapes
<1> HIDE DEF h
<1>4. Holds(h, l, c, Reserve, "unknown", 0)
  BY <1>1, <1>2, <1>3 DEF Holds
<1> QED BY <1>4 DEF h, r

LEMMA SettleHolds ==
  ASSUME NEW l \in Shapes, NEW c \in Calls, NEW a \in Nat \cup {Silent}
  PROVE  LET amount == IF a = Silent THEN Reserve ELSE a
         IN Holds(Settlement(l, c, a), l, c, amount,
                  IF a = Silent THEN "estimated" ELSE "actual", amount)
<1> DEFINE amount == IF a = Silent THEN Reserve ELSE a
           st == IF a = Silent THEN "estimated" ELSE "actual"
           r == Reconcile(l, c, amount)
           h == [r EXCEPT !.status[c] = st, !.usd = @ + amount]
<1>0. amount \in Nat /\ st \in Statuses
  BY Numbers DEF Statuses
<1>1. Settlement(l, c, a) = h
  BY DEF Settlement
<1> HIDE DEF amount, st
<1>2. /\ r \in Shapes
      /\ r.calls = l.calls + (IF l.status[c] = "absent" THEN 1 ELSE 0)
      /\ r.tokens = l.tokens - l.scope[c] + amount
      /\ r.usd = l.usd
      /\ r.scope = [l.scope EXCEPT ![c] = amount]
      /\ r.status = l.status
  BY <1>0, ReconcileShape
<1> HIDE DEF r
<1>3. \A x \in Nat : [r EXCEPT !.status[c] = st, !.usd = x] \in Shapes
  BY <1>0, <1>2 DEF Shapes
<1>4. r.usd + amount \in Nat
  BY <1>0, <1>2 DEF Shapes
<1>5. h \in Shapes
  BY <1>3, <1>4
<1>6. /\ h.calls = r.calls /\ h.tokens = r.tokens /\ h.usd = r.usd + amount
      /\ h.scope = r.scope /\ h.status = [r.status EXCEPT ![c] = st]
  BY <1>2 DEF Shapes
<1> HIDE DEF h
<1>7. Holds(h, l, c, amount, st, amount)
  BY <1>2, <1>5, <1>6 DEF Holds
<1> QED BY <1>1, <1>7 DEF amount, st

LEMMA SoundShape ==
  ASSUME NEW l, Sound(l)
  PROVE  l \in Shapes
  BY DEF Sound, Ledgers, Shapes

\* The thread that settles knows what its call was charged.
LEMMA SettleStep ==
  ASSUME CallsInv, NEW c \in Calls, Settle(c), answer[c] # Raised
  PROVE  \E amount \in Nat, st \in {"estimated", "actual"} :
            /\ Holds(ledger', ledger, c, amount, st, amount)
            /\ st = "actual" => amount = spent[c]
<1>1. answer[c] = Silent \/ answer[c] = spent[c]
  BY DEF CallsInv, LineInv, Settle
<1>2. spent[c] \in Nat /\ answer[c] \in Nat \cup {Silent}
  BY <1>1 DEF CallsInv, Threads
<1>3. ledger \in Shapes
  BY SoundShape DEF CallsInv, LedgersSound
<1>4. ledger' = Settlement(ledger, c, answer[c])
  BY DEF Settle
<1> DEFINE amount == IF answer[c] = Silent THEN Reserve ELSE answer[c]
           st == IF answer[c] = Silent THEN "estimated" ELSE "actual"
<1>5. Holds(ledger', ledger, c, amount, st, amount)
  BY <1>2, <1>3, <1>4, SettleHolds
<1>6. amount \in Nat /\ st \in {"estimated", "actual"} /\ (st = "actual" => amount = spent[c])
  BY <1>1, <1>2, Numbers
<1> HIDE DEF amount, st
<1> QED BY <1>5, <1>6

LEMMA ReserveStep ==
  ASSUME CallsInv, NEW c \in Calls, ReserveCall(c)
  PROVE  \/ UNCHANGED ledger
         \/ /\ Holds(ledger', ledger, c, Reserve, "unknown", 0)
            /\ owner' = [owner EXCEPT ![c] = "reserved"]
            /\ HasRoom(ledger)
<1>1. ledger \in Shapes
  BY SoundShape DEF CallsInv, LedgersSound
<1>2. Holds([Reconcile(ledger, c, Reserve) EXCEPT !.status[c] = "unknown"],
            ledger, c, Reserve, "unknown", 0)
  BY <1>1, ReserveHolds
<1> QED BY <1>2 DEF ReserveCall

\* Every step but the three that write the ledger leaves it alone.
LEMMA LedgerSteps ==
  ASSUME CallsNext
  PROVE  \/ UNCHANGED ledger
         \/ \E c \in Calls : ReserveCall(c)
         \/ \E c \in Calls : Settle(c) /\ answer[c] # Raised
         \/ Restart
  BY DEF CallsNext, CallerStep, WorkerStep, Record, Submit, Settle, Report, Abandon, Enter, Answer,
         Fail, Tick, Cancel, LeaveScope, Checkpoint, ledgerVars

LEMMA SnapshotSteps ==
  ASSUME CallsNext
  PROVE  /\ saved' \in {saved, ledger}
         /\ journal' \in {journal, ledger}
         /\ UNCHANGED <<saved, journal>> \/ UNCHANGED ledger
  BY DEF CallsNext, CallerStep, WorkerStep, ReserveCall, Record, Submit, Settle, Report, Abandon,
         Enter, Answer, Fail, Tick, Cancel, LeaveScope, Checkpoint, Restart, ledgerVars

LEMMA LedgersStep ==
  ASSUME CallsInv, CallsNext
  PROVE  LedgersSound'
<1>0. Sound(ledger) /\ Sound(saved) /\ Sound(journal)
  BY DEF CallsInv, LedgersSound
<1>1. Sound(ledger')
  <2>1. CASE UNCHANGED ledger
    BY <2>1, <1>0
  <2>2. ASSUME NEW c \in Calls, ReserveCall(c), ledger' # ledger PROVE Sound(ledger')
    <3>1. Holds(ledger', ledger, c, Reserve, "unknown", 0)
      BY <2>2, ReserveStep
    <3> QED BY <1>0, <3>1, Numbers, HoldingSound DEF Statuses
  <2>3. ASSUME NEW c \in Calls, Settle(c), answer[c] # Raised PROVE Sound(ledger')
    <3>1. PICK amount \in Nat, st \in {"estimated", "actual"} :
            Holds(ledger', ledger, c, amount, st, amount)
      BY <2>3, SettleStep
    <3> QED BY <1>0, <3>1, HoldingSound DEF Statuses
  <2>4. CASE Restart
    <3>1. ledger' = Restored(saved, journal)
      BY <2>4 DEF Restart
    <3> QED BY <1>0, <3>1, RestoredSound
  <2> QED BY <2>1, <2>2, <2>3, <2>4, LedgerSteps
<1>2. Sound(saved') /\ Sound(journal')
  BY <1>0, SnapshotSteps
<1>3. LedgersSound' <=> Sound(ledger') /\ Sound(saved') /\ Sound(journal')
  BY DEF LedgersSound, Sound, Known
<1> QED BY <1>1, <1>2, <1>3

\* How the calls of the ledger grow, and what a restart leaves of them.
LEMMA KnownSteps ==
  ASSUME CallsInv, CallsNext
  PROVE  \/ Known(ledger') = Known(ledger) /\ ~ Restart
         \/ /\ \E c \in Calls : ReserveCall(c) /\ owner' = [owner EXCEPT ![c] = "reserved"]
                                 /\ Known(ledger') = Known(ledger) \cup {c}
            /\ HasRoom(ledger)
         \/ Restart /\ Known(ledger') = Known(saved) \cup (Known(journal) \cap Durable)
<1>0. Sound(ledger) /\ Sound(saved) /\ Sound(journal)
  BY DEF CallsInv, LedgersSound
<1>1. CASE UNCHANGED ledger /\ ~ Restart
  BY <1>1
<1>2. ASSUME NEW c \in Calls, ReserveCall(c), ledger' # ledger
      PROVE  /\ owner' = [owner EXCEPT ![c] = "reserved"]
             /\ Known(ledger') = Known(ledger) \cup {c}
             /\ HasRoom(ledger)
  <2>1. /\ Holds(ledger', ledger, c, Reserve, "unknown", 0)
        /\ owner' = [owner EXCEPT ![c] = "reserved"]
        /\ HasRoom(ledger)
    BY <1>2, ReserveStep
  <2>2. Known(ledger') = Known(ledger) \cup {c}
    BY <1>0, <2>1, Numbers, HoldingSound DEF Statuses
  <2> QED BY <2>1, <2>2
<1>3. ASSUME NEW c \in Calls, Settle(c), answer[c] # Raised
      PROVE  Known(ledger') = Known(ledger) /\ ~ Restart
  <2>1. PICK amount \in Nat, st \in {"estimated", "actual"} :
          Holds(ledger', ledger, c, amount, st, amount)
    BY <1>3, SettleStep
  <2>2. Known(ledger') = Known(ledger) \cup {c}
    BY <1>0, <2>1, HoldingSound DEF Statuses
  <2>3. c \in Known(ledger)
    BY <1>3 DEF CallsInv, CoveredInv, OnItsWay, Settle
  <2>4. ~ Restart
    BY <1>3 DEF Settle, Restart, history, CallsInv, Threads
  <2> QED BY <2>2, <2>3, <2>4
<1>4. CASE Restart
  <2>1. Known(ledger') = Known(saved) \cup Missing(saved, journal)
    BY <1>0, <1>4, RestoredSound DEF Restart
  <2>2. Known(saved) \cup Missing(saved, journal) = Known(saved) \cup (Known(journal) \cap Durable)
    BY DEF Missing, Known
  <2> QED BY <1>4, <2>1, <2>2
<1> QED BY <1>1, <1>2, <1>3, <1>4, LedgerSteps

LEMMA KnownStep ==
  ASSUME CallsInv, CallsNext
  PROVE  KnownInv'
<1>0. KnownInv /\ Sound(ledger)
  BY DEF CallsInv, LedgersSound
<1>1. /\ Known(ledger)' = Known(ledger') /\ Known(saved)' = Known(saved')
      /\ Known(journal)' = Known(journal')
  BY DEF Known
<1>2. CASE Known(ledger') = Known(ledger) /\ ~ Restart
  BY <1>0, <1>1, <1>2, SnapshotSteps DEF KnownInv
<1>3. ASSUME NEW c \in Calls, ReserveCall(c), HasRoom(ledger),
             Known(ledger') = Known(ledger) \cup {c}
      PROVE  KnownInv'
  <2>1. UNCHANGED <<saved, journal>>
    BY <1>3 DEF ReserveCall
  <2>2. Cardinality(Known(ledger)) + 1 <= CallLimit
    BY <1>0, <1>3 DEF Sound, HasRoom
  <2>3. \/ Cardinality(Known(ledger) \cup {c}) = Cardinality(Known(ledger)) + 1
        \/ Cardinality(Known(ledger) \cup {c}) = Cardinality(Known(ledger))
    BY KnownFinite, FS_AddElement
  <2>4. Cardinality(Known(ledger')) \in Nat /\ Cardinality(Known(ledger)) \in Nat
    BY KnownFinite
  <2>5. Cardinality(Known(ledger')) <= CallLimit
    BY <1>3, <2>2, <2>3, <2>4, Numbers
  <2> QED BY <1>0, <1>1, <1>3, <2>1, <2>5 DEF KnownInv
<1>4. CASE Restart /\ Known(ledger') = Known(saved) \cup (Known(journal) \cap Durable)
  <2>1. UNCHANGED <<saved, journal>>
    BY <1>4 DEF Restart
  <2>2. Known(ledger') \in SUBSET Known(ledger)
    BY <1>0, <1>4 DEF KnownInv
  <2>3. Cardinality(Known(ledger')) <= Cardinality(Known(ledger))
    BY <2>2, KnownFinite, FS_Subset
  <2>4. Cardinality(Known(ledger')) \in Nat /\ Cardinality(Known(ledger)) \in Nat
    BY KnownFinite
  <2>5. Cardinality(Known(ledger')) <= CallLimit
    BY <1>0, <2>3, <2>4, Numbers DEF KnownInv
  <2> QED BY <1>1, <1>4, <2>1, <2>5 DEF KnownInv
<1> QED BY <1>2, <1>3, <1>4, KnownSteps

\* Nothing a ledger holds as actual is touched again.
LEMMA PaidKept ==
  ASSUME CallsInv, CallsNext, NEW l, Paid(l), NEW c \in Calls, l.status[c] = "actual"
  PROVE  l.scope[c] = spent'[c] /\ worker'[c] = "ended" /\ owner'[c] \in {"settled", "reported"}
<1>0. /\ l.scope[c] = spent[c] /\ worker[c] = "ended" /\ owner[c] \in {"settled", "reported"}
      /\ Threads
  BY DEF Paid, CallsInv
<1>1. ASSUME NEW d \in Calls, CallerStep(d) \/ Abandon(d)
      PROVE  UNCHANGED <<spent, worker[c]>> /\ owner'[c] \in {"settled", "reported"}
  BY <1>0, <1>1 DEF CallerStep, ReserveCall, Record, Submit, Ready, Settle, Report, Abandon,
     history, Threads
<1>2. ASSUME NEW d \in Calls, WorkerStep(d)
      PROVE  UNCHANGED <<spent[c], worker[c], owner>>
  BY <1>0, <1>2 DEF WorkerStep, Enter, Answer, Fail, Stop, Threads
<1>3. CASE Tick \/ Cancel \/ LeaveScope \/ Checkpoint
  BY <1>0, <1>3 DEF Tick, Cancel, LeaveScope, Checkpoint, history
<1>4. CASE Restart
  BY <1>0, <1>4 DEF Restart, Threads
<1> QED BY <1>0, <1>1, <1>2, <1>3, <1>4 DEF CallsNext

LEMMA PaidStep ==
  ASSUME CallsInv, CallsNext
  PROVE  PaidInv'
<1> DEFINE PaidNow(l) == \A c \in Calls : l.status[c] = "actual" =>
        l.scope[c] = spent'[c] /\ worker'[c] = "ended" /\ owner'[c] \in {"settled", "reported"}
<1>0. Paid(ledger) /\ Paid(saved) /\ Paid(journal)
  BY DEF CallsInv, PaidInv
<1>1. PaidNow(ledger) /\ PaidNow(saved) /\ PaidNow(journal)
  BY <1>0, PaidKept
<1>2. ledger \in Shapes /\ saved \in Shapes /\ journal \in Shapes
  BY SoundShape DEF CallsInv, LedgersSound
<1>3. PaidNow(ledger')
  <2>1. CASE UNCHANGED ledger
    BY <1>1, <2>1
  <2>2. ASSUME NEW c \in Calls, ReserveCall(c), ledger' # ledger
        PROVE  PaidNow(ledger')
    <3>1. Holds(ledger', ledger, c, Reserve, "unknown", 0)
      BY <2>2, ReserveStep
    <3> HIDE DEF PaidNow
    <3>2. \A d \in Calls : ledger'.status[d] = "actual" =>
             d # c /\ ledger.status[d] = "actual" /\ ledger'.scope[d] = ledger.scope[d]
      BY <1>2, <3>1 DEF Holds, Shapes
    <3> QED BY <1>1, <3>2 DEF PaidNow
  <2>3. ASSUME NEW c \in Calls, Settle(c), answer[c] # Raised PROVE PaidNow(ledger')
    <3>1. PICK amount \in Nat, st \in {"estimated", "actual"} :
            Holds(ledger', ledger, c, amount, st, amount) /\ (st = "actual" => amount = spent[c])
      BY <2>3, SettleStep
    <3>2. \A d \in Calls : d # c =>
             ledger.status[d] = ledger'.status[d] /\ ledger'.scope[d] = ledger.scope[d]
      BY <1>2, <3>1 DEF Holds, Shapes
    <3>3. ledger'.status[c] = st /\ ledger'.scope[c] = amount
      BY <1>2, <3>1 DEF Holds, Shapes
    <3>4. spent'[c] = spent[c] /\ worker'[c] = "ended" /\ owner'[c] = "settled"
      BY <2>3 DEF Settle, history, CallsInv, Threads
    <3> QED BY <1>1, <3>1, <3>2, <3>3, <3>4
  <2>4. CASE Restart
    <3>1. ledger' = Restored(saved, journal)
      BY <2>4 DEF Restart
    <3>2. \A d \in Calls :
             \/ ledger'.status[d] = saved.status[d] /\ ledger'.scope[d] = saved.scope[d]
             \/ ledger'.status[d] = journal.status[d] /\ ledger'.scope[d] = journal.scope[d]
      BY <3>1 DEF Restored
    <3> QED BY <1>1, <3>2
  <2> QED BY <2>1, <2>2, <2>3, <2>4, LedgerSteps
<1>4. PaidNow(saved') /\ PaidNow(journal')
  <2> HIDE DEF PaidNow
  <2> QED BY <1>1, SnapshotSteps
<1>5. Paid(ledger)' /\ Paid(saved)' /\ Paid(journal)'
  BY <1>3, <1>4 DEF Paid
<1> QED BY <1>5 DEF PaidInv

LEMMA ReserveKnown ==
  ASSUME CallsInv, NEW c \in Calls, ReserveCall(c)
  PROVE  \/ owner' = [owner EXCEPT ![c] = "raised"] /\ UNCHANGED ledger
         \/ /\ owner' = [owner EXCEPT ![c] = "reserved"]
            /\ Known(ledger') = Known(ledger) \cup {c}
<1>1. ledger \in Shapes /\ Sound(ledger)
  BY SoundShape DEF CallsInv, LedgersSound
<1>2. Holds([Reconcile(ledger, c, Reserve) EXCEPT !.status[c] = "unknown"],
            ledger, c, Reserve, "unknown", 0)
  BY <1>1, ReserveHolds
<1>3. ASSUME ledger' = [Reconcile(ledger, c, Reserve) EXCEPT !.status[c] = "unknown"]
      PROVE  Known(ledger') = Known(ledger) \cup {c}
  BY <1>1, <1>2, <1>3, Numbers, HoldingSound DEF Statuses
<1> QED BY <1>3 DEF ReserveCall

LEMMA CoveredStep ==
  ASSUME CallsInv, CallsNext
  PROVE  CoveredInv'
<1> DEFINE Late(c) == owner[c] = "recorded" \/ OnItsWay(c)
           Past(c) == owner[c] \in {"reserved", "recorded"} \/ OnItsWay(c)
<1>0. /\ \A c \in Calls : /\ Past(c) => c \in Known(ledger)
                          /\ c \in Durable /\ Late(c) => c \in Known(journal)
      /\ Threads
      /\ Known(journal) \cap Durable \subseteq Known(ledger)
  BY DEF CallsInv, CoveredInv, KnownInv
<1>1. Known(ledger)' = Known(ledger') /\ Known(journal)' = Known(journal')
  BY DEF Known
<1>2. CASE Restart
  <2>1. ASSUME NEW c \in Calls
        PROVE  /\ owner'[c] \in {"idle", "reported"} /\ worker'[c] \in {"none", "ended"}
               /\ c \in sent' => c \in sent /\ c \in Durable
    BY <1>0, <1>2 DEF Restart, Threads, WorkerSteps
  <2>2. Known(journal') = Known(journal)
    BY <1>2 DEF Restart
  <2>3. Known(journal) \cap Durable \subseteq Known(ledger')
    BY <1>2, KnownSteps DEF Restart, ReserveCall, history
  <2> QED BY <1>0, <1>1, <2>1, <2>2, <2>3 DEF CoveredInv, OnItsWay
<1>3. CASE ~ Restart
  <2>1. Known(ledger) \subseteq Known(ledger')
    BY <1>3, KnownSteps
  <2>2. \A c \in Durable : c \in Known(journal) => c \in Known(journal')
    BY <1>0, SnapshotSteps
  <2>3. ASSUME NEW c \in Calls, ReserveCall(c) PROVE CoveredInv'
    <3>1. \/ owner' = [owner EXCEPT ![c] = "raised"]
          \/ owner' = [owner EXCEPT ![c] = "reserved"] /\ c \in Known(ledger')
      BY <2>3, ReserveKnown
    <3> QED BY <1>0, <1>1, <2>1, <2>2, <2>3, <3>1
        DEF ReserveCall, CoveredInv, OnItsWay, history, Threads
  <2>4. ASSUME NEW c \in Calls, Record(c) PROVE CoveredInv'
    <3>1. c \in Known(ledger) /\ c \in Durable
      BY <1>0, <2>4 DEF Record
    <3>2. \/ owner' = [owner EXCEPT ![c] = "raised"]
          \/ owner' = [owner EXCEPT ![c] = "recorded"] /\ journal' = ledger
      BY <2>4 DEF Record
    <3> QED BY <1>0, <1>1, <2>1, <2>2, <2>4, <3>1, <3>2 DEF Record, CoveredInv, OnItsWay, history, Threads
  <2>5. ASSUME NEW c \in Calls, Submit(c) PROVE CoveredInv'
    <3>1. Past(c) /\ (c \in Durable => Late(c))
      BY <2>5 DEF Submit, Ready
    <3> QED BY <1>0, <1>1, <2>1, <2>2, <2>5, <3>1 DEF Submit, CoveredInv, OnItsWay, history, Threads
  <2>6. ASSUME NEW c \in Calls, Settle(c) \/ Report(c) \/ Abandon(c) PROVE CoveredInv'
    BY <1>0, <1>1, <2>1, <2>2, <2>6 DEF Settle, Report, Abandon, CoveredInv, OnItsWay, history, Threads
  <2>7. ASSUME NEW c \in Calls, WorkerStep(c) PROVE CoveredInv'
    BY <1>0, <1>1, <2>1, <2>2, <2>7
    DEF WorkerStep, Enter, Answer, Fail, Stop, CoveredInv, OnItsWay, Threads
  <2>8. CASE Tick \/ Cancel \/ LeaveScope \/ Checkpoint
    BY <1>0, <1>1, <2>1, <2>2, <2>8
    DEF Tick, Cancel, LeaveScope, Checkpoint, CoveredInv, OnItsWay, history
  <2> QED BY <1>3, <2>3, <2>4, <2>5, <2>6, <2>7, <2>8 DEF CallsNext, CallerStep
<1> QED BY <1>2, <1>3

-----------------------------------------------------------------------------
(* The threads and the client.                                             *)

\* The answer of the provider reaches the thread whole, through the counter all calls share.
LEMMA AnswerStep ==
  ASSUME CallsInv, NEW c \in Calls, Answer(c)
  PROVE  \E used \in 0 .. MaxUse, said \in Outcomes :
            /\ said = Silent \/ said = used
            /\ spent' = [spent EXCEPT ![c] = used]
            /\ Stop(c, said)
            /\ counter' \in [Clients -> Nat]
            /\ \A k \in Clients : k # ClientOf[c] => counter'[k] = counter[k]
<1>0. /\ before[c] = counter[ClientOf[c]] /\ counter \in [Clients -> Nat] /\ ClientOf[c] \in Clients
  BY DEF CallsInv, LineInv, ClientType, Answer
<1>1. PICK used \in 0 .. MaxUse, reported \in BOOLEAN :
        /\ spent' = [spent EXCEPT ![c] = used]
        /\ counter' = [counter EXCEPT ![ClientOf[c]] = @ + (IF reported THEN used ELSE 0)]
        /\ Stop(c, IF reported THEN counter'[ClientOf[c]] - before[c] ELSE Silent)
  BY DEF Answer
<1>2. used \in Nat /\ used \in Outcomes
  BY UseIsOutcome, Numbers
<1> DEFINE said == IF reported THEN counter'[ClientOf[c]] - before[c] ELSE Silent
<1>3. said = Silent \/ said = used
  <2>1. CASE reported
    <3>1. counter'[ClientOf[c]] = counter[ClientOf[c]] + used
      BY <1>0, <1>1, <2>1
    <3>2. counter[ClientOf[c]] \in Nat
      BY <1>0
    <3> QED BY <1>0, <1>2, <3>1, <3>2
  <2>2. CASE ~ reported
    BY <2>2
  <2> QED BY <2>1, <2>2
<1>4. said \in Outcomes
  BY <1>2, <1>3 DEF Outcomes
<1>5. counter' \in [Clients -> Nat]
  <2>1. counter[ClientOf[c]] + (IF reported THEN used ELSE 0) \in Nat
    BY <1>0, <1>2
  <2> QED BY <1>0, <1>1, <2>1
<1>6. \A k \in Clients : k # ClientOf[c] => counter'[k] = counter[k]
  BY <1>0, <1>1
<1> HIDE DEF said
<1>7. Stop(c, said)
  BY <1>1 DEF said
<1> QED BY <1>1, <1>3, <1>4, <1>5, <1>6, <1>7

LEMMA ThreadsStep ==
  ASSUME CallsInv, CallsNext
  PROVE  Threads'
<1>0. Threads
  BY DEF CallsInv
<1>1. Raised \in Outcomes /\ Pending \in Outcomes
  BY DEF Outcomes
<1>2. ASSUME NEW c \in Calls, CallerStep(c) \/ Abandon(c) PROVE Threads'
  BY <1>0, <1>2 DEF CallerStep, ReserveCall, Record, Submit, Settle, Report, Abandon,
     history, Threads, OwnerSteps, WorkerSteps
<1>3. ASSUME NEW c \in Calls, Enter(c) PROVE Threads'
  BY <1>0, <1>1, <1>3 DEF Enter, Stop, Threads, WorkerSteps
<1>4. ASSUME NEW c \in Calls, Answer(c) PROVE Threads'
  <2>1. PICK used \in 0 .. MaxUse, said \in Outcomes :
          spent' = [spent EXCEPT ![c] = used] /\ Stop(c, said)
    BY <1>4, AnswerStep
  <2> QED BY <1>0, <1>4, <2>1 DEF Answer, Stop, Trials, Threads, WorkerSteps
<1>5. ASSUME NEW c \in Calls, Fail(c) PROVE Threads'
  BY <1>0, <1>1, <1>5 DEF Fail, Stop, Trials, Threads, WorkerSteps
<1>6. CASE Tick \/ Cancel \/ LeaveScope \/ Checkpoint
  BY <1>0, <1>6 DEF Tick, Cancel, LeaveScope, Checkpoint, history, Threads
<1>7. CASE Restart
  <2>1. restarts' \in 0 .. MaxRestarts
    BY <1>0, <1>7, Numbers DEF Restart, Threads
  <2>2. owner' \in [Calls -> OwnerSteps] /\ worker' \in [Calls -> WorkerSteps]
    BY <1>7 DEF Restart, OwnerSteps, WorkerSteps
  <2>3. answer' \in [Calls -> Outcomes]
    BY <1>1, <1>7 DEF Restart
  <2>4. sent' \subseteq Calls /\ trial' \subseteq Calls /\ spent' \in [Calls -> 0 .. MaxUse]
    BY <1>0, <1>7 DEF Restart, Threads
  <2>5. cancelled' \in BOOLEAN /\ scope' \in {"open", "closed"}
    BY <1>7 DEF Restart
  <2> QED BY <2>1, <2>2, <2>3, <2>4, <2>5 DEF Threads
<1> QED BY <1>2, <1>3, <1>4, <1>5, <1>6, <1>7 DEF CallsNext, WorkerStep

LEMMA LineStep ==
  ASSUME CallsInv, CallsNext
  PROVE  ClientType' /\ LineInv'
<1>0. ClientType /\ LineInv /\ Threads
  BY DEF CallsInv
<1>1. ASSUME NEW c \in Calls, CallerStep(c) \/ Abandon(c) PROVE ClientType' /\ LineInv'
  BY <1>0, <1>1 DEF CallerStep, ReserveCall, Record, Submit, Settle, Report, Abandon,
     history, clientVars, ClientType, LineInv, Threads
<1>2. ASSUME NEW c \in Calls, Enter(c) PROVE ClientType' /\ LineInv'
  <2>1. CASE Stop(c, Raised) /\ UNCHANGED <<lock, before>>
    BY <1>0, <1>2, <2>1 DEF Enter, Stop, ClientType, LineInv, Threads
  <2>2. CASE /\ worker' = [worker EXCEPT ![c] = "calling"]
             /\ lock' = [lock EXCEPT ![ClientOf[c]] = c]
             /\ before' = [before EXCEPT ![c] = counter[ClientOf[c]]]
             /\ UNCHANGED answer
    <3>1. lock[ClientOf[c]] = NoCall /\ UNCHANGED <<counter, spent>> /\ worker[c] = "queued"
      BY <1>2 DEF Enter, Free
    <3>2. ClientOf[c] \in Clients /\ counter[ClientOf[c]] \in Nat
      BY <1>0 DEF ClientType
    <3>3. ClientType'
      BY <1>0, <2>2, <3>1, <3>2 DEF ClientType
    <3>4. ASSUME NEW d \in Calls, worker'[d] = "calling"
          PROVE  lock'[ClientOf[d]] = d /\ before'[d] = counter'[ClientOf[d]]
      <4>1. CASE d = c
        BY <1>0, <2>2, <3>1, <3>2, <4>1 DEF ClientType
      <4>2. CASE d # c
        <5>1. worker[d] = "calling"
          BY <1>0, <2>2, <3>4, <4>2 DEF Threads
        <5>2. lock[ClientOf[d]] = d /\ before[d] = counter[ClientOf[d]] /\ ClientOf[d] # ClientOf[c]
          BY <1>0, <3>1, <5>1 DEF LineInv
        <5> QED BY <1>0, <2>2, <3>1, <4>2, <5>2 DEF ClientType
      <4> QED BY <4>1, <4>2
    <3>5. ASSUME NEW d \in Calls, worker'[d] = "ended"
          PROVE  answer'[d] \in {Raised, Silent} \/ answer'[d] = spent'[d]
      BY <1>0, <2>2, <3>1, <3>5 DEF Threads, LineInv
    <3> QED BY <3>3, <3>4, <3>5 DEF LineInv
  <2> QED BY <1>2, <2>1, <2>2 DEF Enter
<1>3. ASSUME NEW c \in Calls, NEW used \in 0 .. MaxUse, NEW said \in Outcomes,
             said \in {Raised, Silent} \/ said = used,
             worker[c] = "calling", Stop(c, said), Release(c), UNCHANGED before,
             spent' = [spent EXCEPT ![c] = used],
             counter' \in [Clients -> Nat],
             \A k \in Clients : k # ClientOf[c] => counter'[k] = counter[k]
      PROVE  ClientType' /\ LineInv'
  <2>1. ClientType'
    BY <1>0, <1>3 DEF ClientType, Release
  <2>2. lock[ClientOf[c]] = c
    BY <1>0, <1>3 DEF LineInv
  <2>3. ASSUME NEW d \in Calls, worker'[d] = "calling"
        PROVE  lock'[ClientOf[d]] = d /\ before'[d] = counter'[ClientOf[d]]
    <3>1. d # c /\ worker[d] = "calling"
      BY <1>0, <1>3, <2>3 DEF Threads, Stop
    <3>2. lock[ClientOf[d]] = d /\ before[d] = counter[ClientOf[d]] /\ ClientOf[d] # ClientOf[c]
      BY <1>0, <2>2, <3>1 DEF LineInv
    <3>3. ClientOf[d] \in Clients
      OBVIOUS
    <3> QED BY <1>0, <1>3, <3>2, <3>3 DEF ClientType, Release
  <2>4. ASSUME NEW d \in Calls, worker'[d] = "ended"
        PROVE  answer'[d] \in {Raised, Silent} \/ answer'[d] = spent'[d]
    BY <1>0, <1>3, <2>4 DEF Threads, LineInv, Stop
  <2> QED BY <2>1, <2>3, <2>4 DEF LineInv
<1>4. ASSUME NEW c \in Calls, Answer(c) PROVE ClientType' /\ LineInv'
  <2>1. PICK used \in 0 .. MaxUse, said \in Outcomes :
            /\ said = Silent \/ said = used
            /\ spent' = [spent EXCEPT ![c] = used]
            /\ Stop(c, said)
            /\ counter' \in [Clients -> Nat]
            /\ \A k \in Clients : k # ClientOf[c] => counter'[k] = counter[k]
    BY <1>4, AnswerStep
  <2>2. worker[c] = "calling" /\ Release(c) /\ UNCHANGED before
    BY <1>4 DEF Answer
  <2> QED BY <1>3, <2>1, <2>2
<1>5. ASSUME NEW c \in Calls, Fail(c) PROVE ClientType' /\ LineInv'
  <2>1. PICK used \in 0 .. MaxUse : spent' = [spent EXCEPT ![c] = used]
    BY <1>5 DEF Fail
  <2>2. worker[c] = "calling" /\ Release(c) /\ UNCHANGED <<before, counter>> /\ Stop(c, Raised)
    BY <1>5 DEF Fail
  <2>3. counter' \in [Clients -> Nat]
    BY <1>0, <2>2 DEF ClientType
  <2>4. Raised \in Outcomes
    BY DEF Outcomes
  <2> QED BY <1>3, <2>1, <2>2, <2>3, <2>4
<1>6. CASE Tick \/ Cancel \/ LeaveScope \/ Checkpoint
  BY <1>0, <1>6 DEF Tick, Cancel, LeaveScope, Checkpoint, history, clientVars, ClientType, LineInv
<1>7. CASE Restart
  <2>1. ClientType'
    BY <1>7 DEF Restart, ClientType
  <2>2. \A c \in Calls : worker'[c] \in {"none", "ended"} /\ answer'[c] \in {Pending, Raised}
                          /\ (worker'[c] = "ended" => answer'[c] = Raised)
    BY <1>7 DEF Restart
  <2> QED BY <2>1, <2>2 DEF LineInv
<1> QED BY <1>1, <1>2, <1>4, <1>5, <1>6, <1>7 DEF CallsNext, WorkerStep

LEMMA QuietStep ==
  ASSUME CallsInv, CallsNext
  PROVE  LeftScopeIsQuiet'
<1>0. LeftScopeIsQuiet /\ Threads
  BY DEF CallsInv
<1>1. ASSUME NEW c \in Calls, CallerStep(c) \/ Abandon(c) \/ WorkerStep(c) PROVE LeftScopeIsQuiet'
  BY <1>0, <1>1 DEF CallerStep, WorkerStep, ReserveCall, Record, Submit, Settle, Report, Abandon,
     Enter, Answer, Fail, Stop, LeftScopeIsQuiet, Threads
<1>2. CASE Tick \/ Cancel \/ LeaveScope \/ Checkpoint
  BY <1>0, <1>2 DEF Tick, Cancel, LeaveScope, Checkpoint, LeftScopeIsQuiet
<1>3. CASE Restart
  BY <1>3 DEF Restart, LeftScopeIsQuiet
<1> QED BY <1>1, <1>2, <1>3 DEF CallsNext

-----------------------------------------------------------------------------
(* The circuit breaker.                                                    *)

Fit(b) == b \in Breakers /\ (b.mode = "closed" => b.failures < Threshold)

LEMMA ClosedFits == Fit(ClosedBreaker)
  BY Numbers DEF Fit, Breakers, ClosedBreaker

LEMMA BreakerMoves ==
  ASSUME NEW b, Fit(b)
  PROVE  Fit(Probe(b)) /\ Fit(Success(b)) /\ Fit(Failure(b))
<1>0. /\ b \in Breakers /\ (b.mode = "closed" => b.failures < Threshold)
      /\ b.failures \in 0 .. Threshold /\ b.probes \in 0 .. Probes - 1 /\ b.age \in 0 .. Recovery
      /\ b.mode \in {"closed", "open", "half_open"}
      /\ 0 \in 0 .. Probes - 1 /\ 0 \in 0 .. Recovery /\ 0 \in 0 .. Threshold
      /\ Threshold \in 0 .. Threshold
  BY Numbers DEF Fit, Breakers
<1>1. Fit(Probe(b))
  <2>1. CASE b.mode = "open"
    <3>1. [b EXCEPT !.mode = "half_open", !.probes = 0, !.age = 0] \in Breakers
      BY <1>0 DEF Breakers
    <3>2. [b EXCEPT !.mode = "half_open", !.probes = 0, !.age = 0].mode = "half_open"
      BY <1>0 DEF Breakers
    <3> QED BY <2>1, <3>1, <3>2 DEF Fit, Probe
  <2>2. CASE b.mode # "open"
    BY <1>0, <2>2 DEF Fit, Probe
  <2> QED BY <2>1, <2>2
<1>2. Fit(Success(b))
  <2>1. CASE b.mode = "half_open" /\ b.probes + 1 >= Probes
    BY <2>1, ClosedFits DEF Success
  <2>2. CASE ~ (b.mode = "half_open" /\ b.probes + 1 >= Probes)
    <3> DEFINE p == IF b.mode = "half_open" THEN b.probes + 1 ELSE b.probes
               s == [b EXCEPT !.failures = 0, !.probes = p]
    <3>1. p \in 0 .. Probes - 1
      BY <1>0, <2>2, Numbers
    <3>2. Success(b) = s
      BY <2>2 DEF Success
    <3> HIDE DEF p
    <3>3. s \in Breakers /\ s.failures = 0 /\ s.mode = b.mode
      BY <1>0, <3>1 DEF Breakers
    <3> HIDE DEF s
    <3> QED BY <3>2, <3>3, Numbers DEF Fit
  <2> QED BY <2>1, <2>2
<1>3. Fit(Failure(b))
  <2>0. Opened(b) \in Breakers /\ Opened(b).mode = "open"
    BY <1>0 DEF Opened, Breakers
  <2>1. CASE b.mode = "half_open"
    <3>1. [Opened(b) EXCEPT !.probes = 0] \in Breakers /\ [Opened(b) EXCEPT !.probes = 0].mode = "open"
      BY <1>0, <2>0 DEF Breakers
    <3> QED BY <2>1, <3>1 DEF Fit, Failure
  <2>2. CASE b.mode # "half_open" /\ b.failures + 1 >= Threshold
    <3>1. /\ [Opened(b) EXCEPT !.failures = Threshold] \in Breakers
          /\ [Opened(b) EXCEPT !.failures = Threshold].mode = "open"
      BY <1>0, <2>0 DEF Breakers
    <3> QED BY <2>2, <3>1 DEF Fit, Failure
  <2>3. CASE b.mode # "half_open" /\ ~ (b.failures + 1 >= Threshold)
    <3> DEFINE n == b.failures + 1
    <3>1. n \in 0 .. Threshold /\ n < Threshold
      BY <1>0, <2>3, Numbers
    <3>2. Failure(b) = [b EXCEPT !.failures = n]
      BY <2>3 DEF Failure
    <3> HIDE DEF n
    <3>3. [b EXCEPT !.failures = n] \in Breakers /\ [b EXCEPT !.failures = n].failures = n
      BY <1>0, <3>1 DEF Breakers
    <3> QED BY <3>1, <3>2, <3>3 DEF Fit
  <2> QED BY <2>1, <2>2, <2>3
<1> QED BY <1>1, <1>2, <1>3

LEMMA BreakerStep ==
  ASSUME CallsInv, CallsNext
  PROVE  BreakerInv'
<1>0. Fit(breaker)
  BY DEF CallsInv, BreakerInv, ClosedMeansFewFailures, Fit
<1>1. BreakerInv' <=> Fit(breaker')
  BY DEF BreakerInv, ClosedMeansFewFailures, Fit
<1>2. ASSUME NEW c \in Calls, CallerStep(c) \/ Abandon(c) PROVE Fit(breaker')
  BY <1>0, <1>2 DEF CallerStep, ReserveCall, Record, Submit, Settle, Report, Abandon
<1>3. ASSUME NEW c \in Calls, WorkerStep(c) PROVE Fit(breaker')
  <2>1. breaker' \in {breaker, Probe(breaker), Success(breaker), Failure(breaker)}
    BY <1>3 DEF WorkerStep, Enter, Answer, Fail
  <2> QED BY <1>0, <2>1, BreakerMoves
<1>4. CASE Tick
  <2> DEFINE n == breaker.age + 1
  <2>1. n \in 0 .. Recovery /\ breaker.mode = "open"
    BY <1>0, <1>4, Numbers DEF Tick, Fit, Breakers
  <2>2. breaker' = [breaker EXCEPT !.age = n]
    BY <1>4 DEF Tick
  <2> HIDE DEF n
  <2>3. breaker' \in Breakers /\ breaker'.mode = "open"
    BY <1>0, <2>1, <2>2 DEF Fit, Breakers
  <2> QED BY <1>1, <2>3 DEF Fit
<1>5. CASE Cancel \/ LeaveScope \/ Checkpoint
  BY <1>0, <1>1, <1>5 DEF Cancel, LeaveScope, Checkpoint
<1>6. CASE Restart
  BY <1>1, <1>6, ClosedFits DEF Restart
<1> QED BY <1>1, <1>2, <1>3, <1>4, <1>5, <1>6 DEF CallsNext

-----------------------------------------------------------------------------
(* The theorems.                                                           *)

LEMMA NextCalls == CallsInv /\ [CallsNext]_callsVars => CallsInv'
<1>1. ASSUME CallsInv, CallsNext PROVE CallsInv'
  BY <1>1, ThreadsStep, LineStep, BreakerStep, LedgersStep, PaidStep, KnownStep, CoveredStep,
     QuietStep DEF CallsInv
<1>2. ASSUME CallsInv, UNCHANGED callsVars PROVE CallsInv'
  <2>1. UNCHANGED <<ledger, saved, journal, owner, worker, answer, lock, counter, before, breaker,
                    cancelled, scope, spent, sent, trial, restarts>>
    BY <1>2 DEF callsVars, ledgerVars, clientVars, history
  <2>2. Threads' /\ ClientType' /\ BreakerInv'
    BY <1>2, <2>1 DEF CallsInv, Threads, ClientType, BreakerInv, ClosedMeansFewFailures
  <2>3. LedgersSound' /\ PaidInv' /\ KnownInv'
    BY <1>2, <2>1 DEF CallsInv, LedgersSound, Sound, PaidInv, Paid, KnownInv, Known
  <2>4. CoveredInv' /\ LineInv' /\ LeftScopeIsQuiet'
    BY <1>2, <2>1 DEF CallsInv, CoveredInv, OnItsWay, LineInv, LeftScopeIsQuiet, Known
  <2> QED BY <2>2, <2>3, <2>4 DEF CallsInv
<1> QED BY <1>1, <1>2

\* The inductive invariant holds in every state.
THEOREM CallsInvariant == CallsSpec => []CallsInv
<1>1. CallsInit => CallsInv
  BY InitCalls
<1>2. CallsInv /\ [CallsNext]_callsVars => CallsInv'
  BY NextCalls
<1> QED BY <1>1, <1>2, PTL DEF CallsSpec

\* Type correctness: in particular no settlement takes the tokens below zero.
THEOREM CallsType == CallsSpec => []CallsTypeOK
<1>1. CallsInv => CallsTypeOK
  BY DEF CallsInv, CallsTypeOK, Threads, ClientType, BreakerInv, Breakers, LedgersSound, Sound
<1> QED BY <1>1, CallsInvariant, PTL

\* A request that was made is in the ledger, and one of the extraction still is after a
\* restart (reserve_model_call and on_reserved come before the dispatch).
THEOREM CallsReserved == CallsSpec => []RequestsAreReserved
<1>1. CallsInv => RequestsAreReserved
  BY DEF CallsInv, RequestsAreReserved, CoveredInv, OnItsWay, Known, Threads
<1> QED BY <1>1, CallsInvariant, PTL

\* The ledger adds up through settlements, restores and merges; what is settled as actual is
\* what the provider charged for this call; the requests keep to the limit over restarts.
THEOREM CallsAddUp == CallsSpec => []LedgerAddsUp
<1>1. ASSUME CallsInv PROVE LedgerAddsUp
  <2>1. ledger.calls = Cardinality({c \in Calls : ledger.status[c] # "absent"})
    BY <1>1 DEF CallsInv, LedgersSound, Sound, Known
  <2>2. ledger.tokens = MapThenSumSet(LAMBDA c : ledger.scope[c], Calls)
    <3>1. ledger.tokens = SumOf(ledger.scope, Calls)
      BY <1>1 DEF CallsInv, LedgersSound, Sound
    <3> QED BY <3>1 DEF SumOf
  <2>3. \A c \in Calls : ledger.status[c] = "actual" => ledger.scope[c] = spent[c]
    BY <1>1 DEF CallsInv, PaidInv, Paid
  <2>4. Cardinality(sent) <= CallLimit
    <3>1. sent \in SUBSET Known(ledger)
      BY <1>1 DEF CallsInv, CoveredInv, OnItsWay, Threads
    <3>2. Cardinality(sent) <= Cardinality(Known(ledger)) /\ Cardinality(sent) \in Nat
      BY <3>1, KnownFinite, FS_Subset, FS_CardinalityType
    <3>3. Cardinality(Known(ledger)) <= CallLimit
      BY <1>1 DEF CallsInv, KnownInv
    <3> QED BY <3>2, <3>3, KnownFinite, Numbers
  <2> QED BY <2>1, <2>2, <2>3, <2>4 DEF LedgerAddsUp
<1> QED BY <1>1, CallsInvariant, PTL

\* Behind a closed BlockingScope no worker is alive, and none starts.
THEOREM CallsQuiet == CallsSpec => []LeftScopeIsQuiet
<1>1. CallsInv => LeftScopeIsQuiet
  BY DEF CallsInv
<1> QED BY <1>1, CallsInvariant, PTL

\* A closed circuit has counted fewer failures than its threshold.
THEOREM CallsFewFailures == CallsSpec => []ClosedMeansFewFailures
<1>1. CallsInv => ClosedMeansFewFailures
  BY DEF CallsInv, BreakerInv
<1> QED BY <1>1, CallsInvariant, PTL

\* A late worker cannot refund the reservation of a call whose owner went away.
THEOREM CallsNoRefund == CallsSpec => LateResultsRefundNothing
<1>1. ASSUME CallsInv, [CallsNext]_callsVars, NEW c \in Calls,
             owner[c] = "raised", ledger.status[c] = "unknown", restarts' = restarts
      PROVE  ledger'.scope[c] = Reserve /\ ledger'.status[c] = "unknown"
  <2>0. /\ ledger.scope[c] = Reserve /\ ledger \in Shapes
        /\ restarts \in Int
    BY <1>1, SoundShape DEF CallsInv, LedgersSound, Sound, Threads
  <2>1. CASE UNCHANGED ledger
    BY <1>1, <2>0, <2>1
  <2>2. ASSUME NEW d \in Calls, ReserveCall(d), ledger' # ledger
        PROVE  ledger'.scope[c] = Reserve /\ ledger'.status[c] = "unknown"
    <3>1. Holds(ledger', ledger, d, Reserve, "unknown", 0)
      BY <1>1, <2>2, ReserveStep
    <3>2. d # c
      BY <1>1, <2>2 DEF ReserveCall
    <3> QED BY <1>1, <2>0, <3>1, <3>2 DEF Holds, Shapes
  <2>3. ASSUME NEW d \in Calls, Settle(d), answer[d] # Raised
        PROVE  ledger'.scope[c] = Reserve /\ ledger'.status[c] = "unknown"
    <3>1. PICK amount \in Nat, st \in {"estimated", "actual"} :
            Holds(ledger', ledger, d, amount, st, amount)
      BY <1>1, <2>3, SettleStep
    <3>2. d # c
      BY <1>1, <2>3 DEF Settle
    <3> QED BY <1>1, <2>0, <3>1, <3>2 DEF Holds, Shapes
  <2>4. CASE Restart
    BY <1>1, <2>0, <2>4 DEF Restart
  <2>5. UNCHANGED callsVars => UNCHANGED ledger
    BY DEF callsVars, ledgerVars
  <2> QED BY <1>1, <2>1, <2>2, <2>3, <2>4, <2>5, LedgerSteps
<1>2. CallsInv /\ [CallsNext]_callsVars =>
        [\A c \in Calls :
            (owner[c] = "raised" /\ ledger.status[c] = "unknown" /\ restarts' = restarts)
            => ledger'.scope[c] = Reserve /\ ledger'.status[c] = "unknown"]_callsVars
  BY <1>1
<1> QED BY <1>2, CallsInvariant, PTL DEF CallsSpec, LateResultsRefundNothing

-----------------------------------------------------------------------------
(* The probes of the half-open circuit, when the guarded calls share one client. *)

SharedClient == \A c, d \in Guarded : ClientOf[c] = ClientOf[d]

Passed == {c \in trial : worker[c] = "ended" /\ answer[c] # Raised}

\* A call has no worker before it is submitted: no request is made a second time.
NotYet == \A c \in Calls : owner[c] \in {"idle", "reserved", "recorded"} => worker[c] = "none"

\* While the circuit is half open, every guarded request under way is one of its probes.
TrialInv ==
    /\ NotYet
    /\ trial \subseteq Guarded
    /\ breaker.mode # "half_open" => trial = {}
    /\ \A c \in trial : worker[c] \in {"calling", "ended"}
    /\ breaker.mode = "half_open" => \A c \in Guarded : worker[c] = "calling" => c \in trial
    /\ ProbesAreProbes

LEMMA InitTrial == CallsInit => TrialInv
  BY DEF CallsInit, TrialInv, NotYet, ProbesAreProbes, ClosedBreaker

LEMMA NotYetStep ==
  ASSUME Threads, TrialInv, CallsNext
  PROVE  NotYet'
<1>0. NotYet /\ Threads
  BY DEF TrialInv
<1>1. ASSUME NEW c \in Calls, CallerStep(c) \/ Abandon(c) PROVE NotYet'
  BY <1>0, <1>1 DEF CallerStep, ReserveCall, Record, Submit, Ready, Settle, Report, Abandon,
     NotYet, Threads
<1>2. ASSUME NEW c \in Calls, WorkerStep(c) PROVE NotYet'
  BY <1>0, <1>2 DEF WorkerStep, Enter, Answer, Fail, Stop, NotYet, Threads
<1>3. CASE Tick \/ Cancel \/ LeaveScope \/ Checkpoint
  BY <1>0, <1>3 DEF Tick, Cancel, LeaveScope, Checkpoint, NotYet
<1>4. CASE Restart
  BY <1>0, <1>4 DEF Restart, NotYet
<1> QED BY <1>1, <1>2, <1>3, <1>4 DEF CallsNext

\* A step of a worker that was let through: at most one guarded call is under way.
LEMMA TrialStep ==
  ASSUME SharedClient, CallsInv, TrialInv, CallsNext
  PROVE  TrialInv'
<1>0. Threads /\ Fit(breaker) /\ LineInv /\ NotYet'
  BY NotYetStep DEF CallsInv, BreakerInv, ClosedMeansFewFailures, Fit
<1>1. breaker.mode = "half_open" => breaker.probes = Cardinality(Passed)
  BY DEF TrialInv, ProbesAreProbes, Passed
<1>2. ProbesAreProbes' <=> (breaker'.mode = "half_open" => breaker'.probes = Cardinality(Passed'))
  BY DEF ProbesAreProbes, Passed
<1>3. IsFiniteSet(Passed) /\ Cardinality(Passed) \in Nat
  <2>1. Passed \in SUBSET Calls
    BY <1>0 DEF Passed, Threads
  <2> QED BY <2>1, FS_Subset, FS_CardinalityType
<1>4. ASSUME UNCHANGED <<breaker, trial>>, \A c \in trial : UNCHANGED <<worker[c], answer[c]>>,
             \A c \in Guarded : worker'[c] = "calling" => worker[c] = "calling"
      PROVE  TrialInv'
  <2>1. Passed' = Passed
    BY <1>4 DEF Passed
  <2> QED BY <1>0, <1>1, <1>2, <1>4, <2>1 DEF TrialInv, NotYet
<1>5. ASSUME NEW c \in Calls, CallerStep(c) \/ Abandon(c) PROVE TrialInv'
  <2>1. UNCHANGED <<breaker, trial, answer>> /\ (UNCHANGED worker \/ Submit(c))
    BY <1>5 DEF CallerStep, ReserveCall, Record, Submit, Settle, Report, Abandon, history
  <2>2. CASE UNCHANGED worker
    BY <1>4, <2>1, <2>2
  <2>3. CASE Submit(c) /\ worker' # worker
    <3>1. worker[c] = "none" /\ worker' = [worker EXCEPT ![c] = "queued"]
      BY <2>3 DEF Submit, Ready, TrialInv, NotYet
    <3>2. \A d \in trial : UNCHANGED <<worker[d], answer[d]>>
      BY <1>0, <2>1, <3>1 DEF Threads, TrialInv
    <3>3. \A d \in Guarded : worker'[d] = "calling" => worker[d] = "calling"
      BY <1>0, <3>1 DEF Threads
    <3> QED BY <1>4, <2>1, <3>2, <3>3
  <2> QED BY <2>1, <2>2, <2>3
<1>6. ASSUME NEW c \in Calls, Enter(c) PROVE TrialInv'
  <2>0. worker[c] = "queued" /\ c \notin trial /\ lock[ClientOf[c]] = NoCall
    BY <1>6 DEF Enter, Free, TrialInv
  <2>1. CASE Stop(c, Raised) /\ UNCHANGED <<breaker, trial>>
    <3>1. \A d \in trial : UNCHANGED <<worker[d], answer[d]>>
      BY <1>0, <2>0, <2>1 DEF Stop, Threads
    <3>2. \A d \in Guarded : worker'[d] = "calling" => worker[d] = "calling"
      BY <1>0, <2>0, <2>1 DEF Stop, Threads
    <3> QED BY <1>4, <2>1, <3>1, <3>2
  <2>2. CASE /\ worker' = [worker EXCEPT ![c] = "calling"] /\ UNCHANGED answer
             /\ breaker' = IF c \in Guarded THEN Probe(breaker) ELSE breaker
             /\ trial' = IF c \in Guarded /\ breaker'.mode = "half_open" THEN trial \cup {c} ELSE trial
    <3>1. CASE c \notin Guarded
      <4>1. \A d \in trial : UNCHANGED <<worker[d], answer[d]>>
        BY <1>0, <2>0, <2>2 DEF Threads
      <4>2. \A d \in Guarded : worker'[d] = "calling" => worker[d] = "calling"
        BY <1>0, <2>2, <3>1 DEF Threads
      <4> QED BY <1>4, <2>2, <3>1, <4>1, <4>2
    <3>2. CASE c \in Guarded
      <4>1. \A d \in Guarded : worker[d] # "calling"
        BY <1>0, <2>0, <3>2 DEF SharedClient, LineInv
      <4>2. \A d \in Guarded : worker'[d] = "calling" => d = c
        BY <1>0, <2>2, <4>1 DEF Threads
      <4>3. /\ breaker' = Probe(breaker)
            /\ trial' = IF breaker'.mode = "half_open" THEN trial \cup {c} ELSE trial
        BY <2>2, <3>2
      <4>4. Passed' = Passed
        <5>1. \A d \in Calls : d \in trial' => d \in trial \/ d = c
          BY <4>3
        <5>2. c \notin Passed /\ c \notin Passed'
          BY <1>0, <2>0, <2>2 DEF Passed, Threads
        <5>3. trial \subseteq trial' /\ trial' \subseteq trial \cup {c}
          BY <4>3
        <5>4. \A d \in trial : d # c /\ worker'[d] = worker[d] /\ answer'[d] = answer[d]
          BY <1>0, <2>0, <2>2 DEF Threads
        <5> QED BY <5>2, <5>3, <5>4 DEF Passed
      <4>5. CASE breaker.mode = "open"
        <5>1. breaker'.mode = "half_open" /\ breaker'.probes = 0
          BY <1>0, <4>3, <4>5 DEF Probe, Fit, Breakers
        <5>2. Passed = {} /\ trial' = {c}
          BY <4>3, <4>5, <5>1 DEF TrialInv, Passed
        <5>3. ProbesAreProbes'
          BY <1>2, <4>4, <5>1, <5>2, FS_EmptySet
        <5> QED BY <1>0, <2>2, <3>2, <4>2, <5>1, <5>2, <5>3 DEF TrialInv, NotYet, Threads
      <4>6. CASE breaker.mode # "open"
        <5>1. breaker' = breaker
          BY <4>3, <4>6 DEF Probe
        <5>2. ProbesAreProbes'
          BY <1>1, <1>2, <4>4, <5>1
        <5>3. \A d \in trial' : worker'[d] \in {"calling", "ended"}
          BY <1>0, <2>2, <4>3 DEF TrialInv, Threads
        <5>4. trial' \subseteq Guarded /\ (breaker'.mode # "half_open" => trial' = {})
          BY <3>2, <4>3, <5>1 DEF TrialInv
        <5>5. breaker'.mode = "half_open" => c \in trial'
          BY <4>3
        <5> QED BY <1>0, <4>2, <5>2, <5>3, <5>4, <5>5 DEF TrialInv, NotYet
      <4> QED BY <4>5, <4>6
    <3> QED BY <3>1, <3>2
  <2> QED BY <1>6, <2>1, <2>2 DEF Enter
<1>7. ASSUME NEW c \in Calls, NEW said \in Outcomes, worker[c] = "calling", Stop(c, said),
             trial' = IF breaker'.mode = "half_open" THEN trial ELSE {},
             \/ breaker' = breaker /\ (said = Raised \/ c \notin Guarded)
             \/ breaker' = Success(breaker) /\ c \in Guarded /\ said # Raised
             \/ breaker' = Failure(breaker) /\ c \in Guarded /\ said = Raised
      PROVE  TrialInv'
  <2>1. worker' = [worker EXCEPT ![c] = "ended"] /\ answer' = [answer EXCEPT ![c] = said]
    BY <1>7 DEF Stop
  <2>2. \A d \in Calls : worker'[d] = "calling" => worker[d] = "calling" /\ d # c
    BY <1>0, <2>1 DEF Threads
  <2>3. \A d \in trial : worker'[d] \in {"calling", "ended"}
    BY <1>0, <2>1 DEF Threads, TrialInv
  <2>4. CASE breaker'.mode # "half_open"
    BY <1>0, <1>2, <1>7, <2>4 DEF TrialInv, NotYet
  <2>5. CASE breaker'.mode = "half_open"
    <3>1. breaker.mode = "half_open"
      BY <1>0, <1>7, <2>5 DEF Success, Failure, Opened, ClosedBreaker, Fit, Breakers
    <3>2. trial' = trial /\ (c \in Guarded => c \in trial)
      BY <1>7, <2>5, <3>1 DEF TrialInv
    <3>3. ProbesAreProbes'
      <4>1. CASE c \in Guarded /\ said # Raised
        <5>1. breaker' = Success(breaker)
          BY <1>7, <4>1
        <5>2. breaker'.probes = breaker.probes + 1
          BY <1>0, <2>5, <3>1, <5>1 DEF Success, ClosedBreaker, Fit, Breakers
        <5>3. c \notin Passed /\ Passed' = Passed \cup {c}
          BY <1>0, <1>7, <2>1, <3>2, <4>1 DEF Passed, Threads
        <5>4. Cardinality(Passed') = Cardinality(Passed) + 1
          BY <1>3, <5>3, FS_AddElement
        <5> QED BY <1>1, <1>2, <3>1, <5>2, <5>4
      <4>2. CASE ~ (c \in Guarded /\ said # Raised)
        <5>1. breaker' = breaker
          BY <1>0, <1>7, <2>5, <3>1, <4>2 DEF Failure, Opened, Fit, Breakers
        <5>2. Passed' = Passed
          BY <1>0, <1>7, <2>1, <3>2, <4>2 DEF Passed, Threads, TrialInv
        <5> QED BY <1>1, <1>2, <5>1, <5>2
      <4> QED BY <4>1, <4>2
    <3> QED BY <1>0, <2>2, <2>3, <2>5, <3>1, <3>2, <3>3 DEF TrialInv, NotYet
  <2> QED BY <2>4, <2>5
<1>8. ASSUME NEW c \in Calls, Answer(c) PROVE TrialInv'
  <2>1. PICK used \in 0 .. MaxUse, said \in Outcomes : (said = Silent \/ said = used) /\ Stop(c, said)
    BY <1>8, AnswerStep
  <2>2. said # Raised
    BY <2>1, Numbers DEF Silent, Raised
  <2>3. /\ worker[c] = "calling" /\ breaker' = IF c \in Guarded THEN Success(breaker) ELSE breaker
        /\ trial' = IF breaker'.mode = "half_open" THEN trial ELSE {}
    BY <1>8 DEF Answer, Trials
  <2> QED BY <1>7, <2>1, <2>2, <2>3
<1>9. ASSUME NEW c \in Calls, Fail(c) PROVE TrialInv'
  <2>1. Raised \in Outcomes
    BY DEF Outcomes
  <2>2. /\ worker[c] = "calling" /\ Stop(c, Raised)
        /\ breaker' = breaker \/ (breaker' = Failure(breaker) /\ c \in Guarded)
        /\ trial' = IF breaker'.mode = "half_open" THEN trial ELSE {}
    BY <1>9 DEF Fail, Trials
  <2> QED BY <1>7, <2>1, <2>2
<1>10. CASE Tick
  <2>1. breaker.mode = "open" /\ breaker'.mode = "open" /\ UNCHANGED <<trial, worker>>
    BY <1>0, <1>10 DEF Tick, Fit, Breakers, history
  <2> QED BY <1>0, <1>2, <2>1 DEF TrialInv, NotYet
<1>11. CASE Cancel \/ LeaveScope \/ Checkpoint
  BY <1>4, <1>11 DEF Cancel, LeaveScope, Checkpoint, history
<1>12. CASE Restart
  <2>1. breaker'.mode = "closed" /\ trial' = {}
    BY <1>12 DEF Restart, ClosedBreaker
  <2> QED BY <1>0, <1>2, <2>1 DEF TrialInv, NotYet
<1> QED BY <1>5, <1>6, <1>8, <1>9, <1>10, <1>11, <1>12 DEF CallsNext, WorkerStep

\* The half-open circuit counts answers to its own probes, as long as the calls it guards go
\* through one client, whose lock stands in for the one the breaker does not have.
THEOREM CallsProbe ==
  ASSUME SharedClient
  PROVE  CallsSpec => []ProbesAreProbes
<1>1. CallsInv /\ TrialInv /\ [CallsNext]_callsVars => TrialInv'
  <2>1. ASSUME TrialInv, UNCHANGED callsVars PROVE TrialInv'
    <3>1. UNCHANGED <<owner, worker, answer, breaker, trial>>
      BY <2>1 DEF callsVars, history
    <3> QED BY <2>1, <3>1 DEF TrialInv, NotYet, ProbesAreProbes
  <2> QED BY <2>1, TrialStep
<1>2. TrialInv => ProbesAreProbes
  BY DEF TrialInv
<1> QED BY <1>1, <1>2, InitTrial, CallsInvariant, PTL DEF CallsSpec

=============================================================================
