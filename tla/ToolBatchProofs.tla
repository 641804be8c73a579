-------------------------- MODULE ToolBatchProofs --------------------------
(***************************************************************************)
(* Theorems about the tool calls of a run, for every script of batches,    *)
(* every choice of effects, limits and approvals, and any number of        *)
(* explorations.                                                           *)
(***************************************************************************)
EXTENDS ToolBatches, FiniteSetTheorems, TLAPS

Quiet(c) == call[c].status = "none" /\ thread[c] = "none"

\* Nothing is known of a call before its batch is asked for.
NotYet(o) ==
    /\ own[o].pc \in {"new", "waiting"} => own[o].turn = 0 /\ o # Main
    /\ \A i \in DOMAIN Script[o] :
        i > own[o].turn + 1 \/ (i = own[o].turn + 1 /\ own[o].pc \in {"new", "waiting", "turn"})
            => \A c \in CallsIn(Script[o][i]) : Quiet(c)

\* Inside a batch: which calls may still be open, and what is pending.
InsideOK(o) ==
    own[o].pc \in InBatch =>
        /\ own[o].turn + 1 \in DOMAIN Script[o]
        /\ own[o].pc = "serial" <=> ~IsParallel(Batch(o))
        /\ \A i, j \in DOMAIN own[o].todo : own[o].todo[i] = own[o].todo[j] => i = j
        /\ CallsIn(own[o].todo) \subseteq CallsIn(Batch(o))
        /\ \A c \in CallsIn(own[o].todo) : call[c].status = "queued" /\ thread[c] = "none"
        /\ \A c \in CallsOf(o) :
            /\ call[c].status = "queued" => c \in CallsIn(own[o].todo)
            /\ call[c].status = "running" => c \in CallsIn(Batch(o))

\* A call is open only until its loop has left the batch.
OpenOK(o) ==
    own[o].pc \notin InBatch \cup {"leaving"} =>
        \A c \in CallsOf(o) : call[c].status \notin {"queued", "running"}

\* Where the thread of a call can be.
ThreadsOK(o) == \A c \in CallsOf(o) :
    /\ Runs(c) => c \in Parallel /\ call[c].status \in {"running", "uncertain"}
    /\ thread[c] \in Results => c \in Parallel /\ call[c].status = "running"
    /\ thread[c] = "working" /\ call[c].status = "running" => own[o].pc = "serial"

\* On its own thread a loop runs one call, and no effect once a cleanup is unverified.
SerialOK(o) ==
    own[o].pc = "serial" => \A c \in CallsOf(o) : call[c].status = "running" =>
        /\ \A d \in CallsOf(o) : call[d].status = "running" => d = c
        /\ own[o].unsure => c \notin Effects

\* What was given up while it may write or hold a permit closed the gate.
GateOK(o) ==
    own[o].pc # "ended" => \A c \in CallsOf(o) :
        (Runs(c) /\ call[c].status = "uncertain") \/ (c \in Effects /\ thread[c] = "working" /\ call[c].status # "running")
            => own[o].unsure

LoopOK(o) == NotYet(o) /\ InsideOK(o) /\ OpenOK(o) /\ ThreadsOK(o) /\ SerialOK(o) /\ GateOK(o)

\* A call that no script names is never made.
NeverMade == \A c \in Calls : (\A o \in Owners : c \notin CallsOf(o)) => Quiet(c)

\* The inductive invariant of the batches.
BatchInv ==
    /\ BatchTypeOK
    /\ NeverMade
    /\ \A o \in Owners : LoopOK(o)
    /\ PermitsBalanced

-----------------------------------------------------------------------------
(* The script *)

LEMMA ScriptFacts ==
  /\ \A o \in Owners : /\ Script[o] \in Seq(Seq(Calls)) /\ CallsOf(o) \subseteq Calls /\ IsFiniteSet(CallsOf(o))
                       /\ \A i \in DOMAIN Script[o] :
                            /\ Script[o][i] \in Seq(Calls) /\ i \in Nat
                            /\ CallsIn(Script[o][i]) \subseteq CallsOf(o)
  /\ Main \in Owners /\ Children \subseteq Owners /\ Main \notin Children
<1>1. ASSUME NEW o \in Owners
      PROVE  /\ Script[o] \in Seq(Seq(Calls)) /\ CallsOf(o) \subseteq Calls
             /\ \A i \in DOMAIN Script[o] :
                  /\ Script[o][i] \in Seq(Calls) /\ i \in Nat
                  /\ CallsIn(Script[o][i]) \subseteq CallsOf(o)
  <2>1. Script[o] \in Seq(Seq(Calls))
    BY BatchAssumption
  <2>2. \A i \in DOMAIN Script[o] : Script[o][i] \in Seq(Calls) /\ i \in Nat
    BY <2>1
  <2>3. \A i \in DOMAIN Script[o] : CallsIn(Script[o][i]) \subseteq Calls
    BY <2>2 DEF CallsIn
  <2>4. \A i \in DOMAIN Script[o] : CallsIn(Script[o][i]) \subseteq CallsOf(o)
    BY DEF CallsOf
  <2>5. CallsOf(o) \subseteq Calls
    BY <2>3 DEF CallsOf
  <2> QED BY <2>1, <2>2, <2>4, <2>5
<1>2. \A o \in Owners : IsFiniteSet(CallsOf(o))
  BY <1>1, ScriptAssumption, FS_Subset
<1> QED BY <1>1, <1>2, BatchAssumption DEF Owners

\* A call belongs to one loop, one batch and one place in it.
LEMMA OnePlace ==
  ASSUME NEW o \in Owners, NEW p \in Owners, NEW i \in DOMAIN Script[o], NEW j \in DOMAIN Script[p],
         NEW c \in CallsIn(Script[o][i]), c \in CallsIn(Script[p][j])
  PROVE  o = p /\ i = j
<1>1. PICK place \in DOMAIN Script[o][i] : c = Script[o][i][place]
  BY DEF CallsIn
<1>2. \A n \in DOMAIN Script[o][i], l \in DOMAIN Script[p][j] : Script[o][i][n] = Script[p][j][l] => o = p /\ i = j
  <2>1. \A u, v \in Owners : \A m \in DOMAIN Script[u], n \in DOMAIN Script[v] :
          \A k \in DOMAIN Script[u][m], l \in DOMAIN Script[v][n] :
            Script[u][m][k] = Script[v][n][l] => u = v /\ m = n /\ k = l
    BY ScriptAssumption
  <2>2. \A m \in DOMAIN Script[o], n \in DOMAIN Script[p] :
          \A k \in DOMAIN Script[o][m], l \in DOMAIN Script[p][n] :
            Script[o][m][k] = Script[p][n][l] => o = p /\ m = n /\ k = l
    BY <2>1, Zenon
  <2> QED BY <2>2, Zenon
<1>3. \E l \in DOMAIN Script[p][j] : c = Script[p][j][l]
  BY DEF CallsIn
<1> QED BY <1>1, <1>2, <1>3

LEMMA OneOwner ==
  ASSUME NEW o \in Owners, NEW c \in CallsOf(o)
  PROVE  /\ c \in Calls /\ OwnerOf[c] = o
         /\ \A p \in Owners : c \in CallsOf(p) => p = o
<1>1. \A p \in Owners : c \in CallsOf(p) => p = o
  BY OnePlace DEF CallsOf
<1>2. c \in Calls
  BY ScriptFacts
<1>3. (CHOOSE p \in Owners : c \in CallsOf(p)) = o
  BY <1>1
<1> QED BY <1>1, <1>2, <1>3 DEF OwnerOf

\* The calls of a batch run on threads, all or none.
LEMMA InParallel ==
  ASSUME NEW o \in Owners, NEW i \in DOMAIN Script[o], NEW c \in CallsIn(Script[o][i])
  PROVE  c \in Parallel <=> IsParallel(Script[o][i])
<1>1. c \in Calls
  BY ScriptFacts
<1>2. c \in Parallel => IsParallel(Script[o][i])
  BY OnePlace DEF Parallel
<1> QED BY <1>1, <1>2 DEF Parallel

LEMMA ParallelOwned ==
  ASSUME NEW c \in Parallel
  PROVE  c \in Calls /\ OwnerOf[c] \in Owners /\ c \in CallsOf(OwnerOf[c])
<1>1. PICK o \in Owners : \E i \in DOMAIN Script[o] : c \in CallsIn(Script[o][i])
  BY DEF Parallel
<1>2. c \in CallsOf(o)
  BY <1>1 DEF CallsOf
<1> QED BY <1>2, OneOwner

\* A batch names a call once.
LEMMA BatchDistinct ==
  ASSUME NEW o \in Owners, NEW i \in DOMAIN Script[o]
  PROVE  \A k, l \in DOMAIN Script[o][i] : Script[o][i][k] = Script[o][i][l] => k = l
  BY ScriptAssumption

\* The first of what is pending is not among the rest.
LEMMA HeadAndTail ==
  ASSUME NEW s \in Seq(Calls), s # <<>>, \A i, j \in DOMAIN s : s[i] = s[j] => i = j
  PROVE  /\ Head(s) \in Calls /\ Tail(s) \in Seq(Calls)
         /\ CallsIn(Tail(s)) = CallsIn(s) \ {Head(s)} /\ Head(s) \in CallsIn(s)
         /\ \A i, j \in DOMAIN Tail(s) : Tail(s)[i] = Tail(s)[j] => i = j
<1>1. Len(s) \in Nat \ {0} /\ DOMAIN s = 1 .. Len(s) /\ Head(s) = s[1]
  OBVIOUS
<1>2. /\ Tail(s) \in Seq(Calls) /\ DOMAIN Tail(s) = 1 .. Len(s) - 1
      /\ \A i \in 1 .. Len(s) - 1 : Tail(s)[i] = s[i + 1]
  BY <1>1
<1>3. \A i, j \in DOMAIN Tail(s) : Tail(s)[i] = Tail(s)[j] => i = j
  BY <1>1, <1>2
<1>4. ASSUME NEW i \in DOMAIN s PROVE s[i] = Head(s) \/ s[i] \in CallsIn(Tail(s))
  <2>1. CASE i # 1
    <3>1. i - 1 \in DOMAIN Tail(s) /\ Tail(s)[i - 1] = s[i]
      BY <1>1, <1>2, <2>1
    <3> QED BY <3>1 DEF CallsIn
  <2> QED BY <1>1, <2>1
<1>5. ASSUME NEW i \in DOMAIN Tail(s) PROVE Tail(s)[i] \in CallsIn(s) /\ Tail(s)[i] # Head(s)
  <2>1. i + 1 \in DOMAIN s /\ i + 1 # 1 /\ Tail(s)[i] = s[i + 1] /\ 1 \in DOMAIN s
    BY <1>1, <1>2
  <2> QED BY <1>1, <2>1 DEF CallsIn
<1>6. Head(s) \in CallsIn(s) /\ Head(s) \in Calls
  BY <1>1 DEF CallsIn
<1> QED BY <1>2, <1>3, <1>4, <1>5, <1>6 DEF CallsIn

-----------------------------------------------------------------------------
(* What a step can change *)

CallRow == [status : {"none", "queued", "running"} \cup Final, token : BOOLEAN, timeout : BOOLEAN]

\* Only the loop o and its calls move.
Local(o) ==
    /\ own' \in [Owners -> Loop]
    /\ call' \in [Calls -> CallRow]
    /\ thread' \in [Calls -> {"none", "working"} \cup OnPermit \cup Results]
    /\ \A q \in Owners \ {o} : own'[q] = own[q]
    /\ \A c \in Calls \ CallsOf(o) : call'[c] = call[c] /\ thread'[c] = thread[c]

\* The fields of a loop that the invariant speaks of.
LoopTo(o, pc, turn, todo, unsure) ==
    own'[o].pc = pc /\ own'[o].turn = turn /\ own'[o].todo = todo /\ own'[o].unsure = unsure

LEMMA Rows ==
  /\ \A s \in {"none", "queued", "running"} \cup Final :
       /\ Answered(s) \in CallRow /\ Answered(s).status = s
       /\ Abandoned(s) \in CallRow /\ Abandoned(s).status = s
  /\ \A u \in CallRow :
       /\ [u EXCEPT !.token = TRUE] \in CallRow /\ [u EXCEPT !.token = TRUE].status = u.status
       /\ [u EXCEPT !.timeout = TRUE, !.token = TRUE] \in CallRow
       /\ [u EXCEPT !.timeout = TRUE, !.token = TRUE].status = u.status
       /\ \A s \in {"none", "queued", "running"} \cup Final :
            [u EXCEPT !.status = s] \in CallRow /\ [u EXCEPT !.status = s].status = s
  BY DEF CallRow, Answered, Abandoned

LEMMA SetLoop ==
  ASSUME own \in [Owners -> Loop], NEW o \in Owners, NEW t \in Loop, own' = [own EXCEPT ![o] = t]
  PROVE  own' \in [Owners -> Loop] /\ own'[o] = t /\ \A q \in Owners \ {o} : own'[q] = own[q]
  OBVIOUS

\* A loop that only goes on to pc.
LEMMA GotoLoop ==
  ASSUME own \in [Owners -> Loop], NEW o \in Owners, Goto(o, "waiting") \/ Goto(o, "turn") \/ Goto(o, "ended") \/ Goto(o, "leaving")
  PROVE  /\ own' \in [Owners -> Loop] /\ \A q \in Owners \ {o} : own'[q] = own[q]
         /\ own'[o].turn = own[o].turn /\ own'[o].todo = own[o].todo /\ own'[o].unsure = own[o].unsure
<1>1. PICK pc \in {"waiting", "turn", "ended", "leaving"} : own' = [own EXCEPT ![o].pc = pc]
  BY DEF Goto
<1> DEFINE u == own[o]
           t == [u EXCEPT !.pc = pc]
<1>2. own' = [own EXCEPT ![o] = t]
  BY <1>1
<1>3. u \in Loop
  OBVIOUS
<1> HIDE DEF u
<1>4. t \in Loop /\ t.turn = u.turn /\ t.todo = u.todo /\ t.unsure = u.unsure
  BY <1>3 DEF Loop
<1> HIDE DEF t
<1>5. own' \in [Owners -> Loop] /\ own'[o] = t /\ \A q \in Owners \ {o} : own'[q] = own[q]
  BY <1>2, <1>4, SetLoop
<1> QED BY <1>4, <1>5 DEF u

LEMMA GotoPc ==
  ASSUME own \in [Owners -> Loop], NEW o \in Owners, NEW pc, Goto(o, pc)
  PROVE  own'[o].pc = pc
  BY DEF Goto, Loop

\* A loop whose other fields change, none of which the invariant speaks of.
SameLoop(o) == own'[o].pc = own[o].pc /\ own'[o].turn = own[o].turn /\ own'[o].todo = own[o].todo /\ own'[o].unsure = own[o].unsure

LEMMA Elsewhere ==
  ASSUME NEW o \in Owners, Local(o), NEW q \in Owners \ {o}, LoopOK(q)
  PROVE  LoopOK(q)'
<1>1. own'[q] = own[q] /\ \A c \in CallsOf(q) : call'[c] = call[c] /\ thread'[c] = thread[c]
  BY OneOwner DEF Local
<1>2. \A i \in DOMAIN Script[q] : CallsIn(Script[q][i]) \subseteq CallsOf(q)
  BY ScriptFacts
<1>3. NotYet(q)'
  BY <1>1, <1>2 DEF LoopOK, NotYet, Quiet
<1>4. InsideOK(q)'
  <2> SUFFICES ASSUME own[q].pc \in InBatch PROVE InsideOK(q)'
    BY <1>1 DEF InsideOK
  <2>1. Batch(q)' = Batch(q) /\ CallsIn(own'[q].todo) \subseteq CallsOf(q)
    BY <1>1, <1>2 DEF Batch, LoopOK, InsideOK
  <2> QED BY <1>1, <2>1 DEF LoopOK, InsideOK
<1>5. OpenOK(q)' /\ ThreadsOK(q)' /\ SerialOK(q)' /\ GateOK(q)'
  BY <1>1 DEF LoopOK, OpenOK, ThreadsOK, SerialOK, GateOK, Runs
<1> QED BY <1>3, <1>4, <1>5 DEF LoopOK

\* A step of one loop keeps the invariant when it keeps it of this loop.
LEMMA OneLoop ==
  ASSUME \A q \in Owners : LoopOK(q), NEW o \in Owners, Local(o), LoopOK(o)'
  PROVE  \A q \in Owners : LoopOK(q)'
  BY Elsewhere

-----------------------------------------------------------------------------
(* Permits *)

HeldByMain == {c \in Parallel \cap CallsOf(Main) : Runs(c)}
HeldBy(o) == {c \in CallsOf(o) \cap Parallel : Runs(c)}
Leased == {o \in Children : refs[o] > 0}
Holds(o) == IF own[o].pc \in {"new", "waiting", "ended"} THEN 0 ELSE 1

LEMMA Balanced ==
  PermitsBalanced <=> /\ slots + Cardinality(HeldByMain) + Cardinality(Leased) = Capacity
                      /\ \A o \in Children : refs[o] = Cardinality(HeldBy(o)) + Holds(o)
  BY DEF PermitsBalanced, HeldByMain, HeldBy, Leased, Holds

LEMMA PermitSets ==
  /\ IsFiniteSet(HeldByMain) /\ IsFiniteSet(Leased) /\ Cardinality(HeldByMain) \in Nat /\ Cardinality(Leased) \in Nat
  /\ \A o \in Children : IsFiniteSet(HeldBy(o)) /\ Cardinality(HeldBy(o)) \in Nat /\ Holds(o) \in {0, 1}
<1>1. IsFiniteSet(HeldByMain)
  BY ScriptFacts, FS_Subset DEF HeldByMain
<1>2. IsFiniteSet(Leased)
  BY ScriptAssumption, FS_Subset DEF Leased
<1>3. \A o \in Children : IsFiniteSet(HeldBy(o))
  BY ScriptFacts, FS_Subset DEF HeldBy
<1> QED BY <1>1, <1>2, <1>3, FS_CardinalityType DEF Holds

\* Most steps leave the permits alone.
LEMMA PermitsStay ==
  ASSUME PermitsBalanced, UNCHANGED <<slots, refs>>, \A c \in Parallel : Runs(c)' = Runs(c),
         \A o \in Children : Holds(o)' = Holds(o)
  PROVE  PermitsBalanced'
<1>1. HeldByMain' = HeldByMain /\ Leased' = Leased
  BY DEF HeldByMain, Leased
<1>2. \A o \in Children : HeldBy(o)' = HeldBy(o)
  BY DEF HeldBy
<1>3. (PermitsBalanced <=> /\ slots + Cardinality(HeldByMain) + Cardinality(Leased) = Capacity
                           /\ \A o \in Children : refs[o] = Cardinality(HeldBy(o)) + Holds(o))'
  BY Balanced, PTL
<1> QED BY <1>1, <1>2, <1>3, Balanced

PermitsTyped == slots \in 0 .. Capacity /\ refs \in [Children -> Nat]

LEMMA BalancedNext ==
  PermitsBalanced' <=> /\ slots' + Cardinality(HeldByMain') + Cardinality(Leased') = Capacity
                       /\ \A o \in Children : refs'[o] = Cardinality(HeldBy(o)') + Holds(o)'
  BY DEF PermitsBalanced, HeldByMain, HeldBy, Leased, Holds

\* One reference to the permit of a child comes or goes.
LEMMA LeaseMoves ==
  ASSUME PermitsTyped, PermitsBalanced, NEW o \in Children, NEW n \in Nat, refs' = [refs EXCEPT ![o] = n],
         HeldByMain' = HeldByMain, n = Cardinality(HeldBy(o)') + Holds(o)',
         \A p \in Children \ {o} : HeldBy(p)' = HeldBy(p) /\ Holds(p)' = Holds(p),
         slots' = slots + (IF refs[o] > 0 THEN 1 ELSE 0) - (IF n > 0 THEN 1 ELSE 0), slots' >= 0
  PROVE  PermitsBalanced' /\ PermitsTyped'
<1>1. /\ slots + Cardinality(HeldByMain) + Cardinality(Leased) = Capacity
      /\ \A p \in Children : refs[p] = Cardinality(HeldBy(p)) + Holds(p)
  BY Balanced
<1>2. refs' \in [Children -> Nat] /\ refs'[o] = n /\ \A p \in Children \ {o} : refs'[p] = refs[p]
  BY DEF PermitsTyped
<1>3. \A p \in Children : refs'[p] = Cardinality(HeldBy(p)') + Holds(p)'
  <2>1. \A p \in Children \ {o} : refs'[p] = Cardinality(HeldBy(p)') + Holds(p)'
    BY <1>1, <1>2
  <2> QED BY <1>2, <2>1
<1>4. Leased' = IF n > 0 THEN Leased \cup {o} ELSE Leased \ {o}
  BY <1>2 DEF Leased
<1>5. IsFiniteSet(Leased) /\ Cardinality(Leased) \in Nat /\ Cardinality(HeldByMain) \in Nat
  BY PermitSets
<1>6. o \in Leased <=> refs[o] > 0
  BY DEF Leased
<1>7. Cardinality(Leased') = Cardinality(Leased) - (IF refs[o] > 0 THEN 1 ELSE 0) + (IF n > 0 THEN 1 ELSE 0)
  <2>1. /\ Cardinality(Leased \cup {o}) = IF o \in Leased THEN Cardinality(Leased) ELSE Cardinality(Leased) + 1
        /\ Cardinality(Leased \ {o}) = IF o \in Leased THEN Cardinality(Leased) - 1 ELSE Cardinality(Leased)
    BY <1>5, FS_AddElement, FS_RemoveElement
  <2>2. CASE n > 0
    BY <1>4, <1>5, <1>6, <2>1, <2>2
  <2>3. CASE ~(n > 0)
    BY <1>4, <1>5, <1>6, <2>1, <2>3
  <2> QED BY <2>2, <2>3
<1>8. Capacity \in Nat /\ slots \in Nat /\ slots' \in Int
  BY BatchAssumption DEF PermitsTyped
<1>9. slots' + Cardinality(HeldByMain') + Cardinality(Leased') = Capacity
  BY <1>1, <1>5, <1>7, <1>8
<1>10. PermitsBalanced'
  BY <1>3, <1>9, BalancedNext
<1>11. slots' \in 0 .. Capacity
  <2>1. Cardinality(Leased') \in Nat
    BY <1>4, <1>5, FS_AddElement, FS_RemoveElement, FS_CardinalityType
  <2> QED BY <1>5, <1>8, <1>9, <2>1
<1> QED BY <1>2, <1>10, <1>11 DEF PermitsTyped

\* The sets of running threads when one thread ends or begins.
LEMMA HeldMoves ==
  ASSUME NEW c \in Parallel, \A d \in Parallel \ {c} : Runs(d)' = Runs(d), NEW o \in Owners, c \in CallsOf(o)
  PROVE  /\ \A p \in Children \ {o} : HeldBy(p)' = HeldBy(p)
         /\ o # Main => HeldByMain' = HeldByMain
         /\ Runs(c)' /\ ~Runs(c) =>
              /\ o = Main => HeldByMain' = HeldByMain \cup {c} /\ c \notin HeldByMain
              /\ o # Main => HeldBy(o)' = HeldBy(o) \cup {c} /\ c \notin HeldBy(o)
         /\ ~Runs(c)' /\ Runs(c) =>
              /\ o = Main => HeldByMain' = HeldByMain \ {c} /\ c \in HeldByMain
              /\ o # Main => HeldBy(o)' = HeldBy(o) \ {c} /\ c \in HeldBy(o)
<1>1. \A p \in Owners : c \in CallsOf(p) => p = o
  BY OneOwner
<1>2. Children \subseteq Owners /\ Main \in Owners
  BY ScriptFacts
<1> QED BY <1>1, <1>2 DEF HeldBy, HeldByMain

\* The permits of the loop of the run.
LEMMA MainMoves ==
  ASSUME PermitsTyped, PermitsBalanced, UNCHANGED refs, \A p \in Children : HeldBy(p)' = HeldBy(p) /\ Holds(p)' = Holds(p),
         NEW n \in Nat, Cardinality(HeldByMain') = n, slots' = slots + Cardinality(HeldByMain) - n, slots' >= 0
  PROVE  PermitsBalanced' /\ PermitsTyped'
<1>1. /\ slots + Cardinality(HeldByMain) + Cardinality(Leased) = Capacity
      /\ \A p \in Children : refs[p] = Cardinality(HeldBy(p)) + Holds(p)
  BY Balanced
<1>2. Leased' = Leased
  BY DEF Leased
<1>3. Cardinality(Leased) \in Nat /\ Cardinality(HeldByMain) \in Nat /\ Capacity \in Nat /\ slots \in Nat
  BY PermitSets, BatchAssumption DEF PermitsTyped
<1>4. slots' + Cardinality(HeldByMain') + Cardinality(Leased') = Capacity
  BY <1>1, <1>2, <1>3
<1>5. PermitsBalanced'
  BY <1>1, <1>4, BalancedNext
<1> QED BY <1>2, <1>3, <1>4, <1>5 DEF PermitsTyped

\* A thread returns and its permit is released.
LEMMA ReturnPermits ==
  ASSUME PermitsTyped, PermitsBalanced, NEW c \in Parallel, Runs(c), ~Runs(c)',
         \A d \in Parallel \ {c} : Runs(d)' = Runs(d), \A p \in Children : Holds(p)' = Holds(p), GiveBack(OwnerOf[c])
  PROVE  PermitsBalanced' /\ PermitsTyped'
<1> DEFINE o == OwnerOf[c]
<1>1. o \in Owners /\ c \in CallsOf(o)
  BY ParallelOwned
<1> HIDE DEF o
<1>2. CASE o = Main
  <2>1. HeldByMain' = HeldByMain \ {c} /\ c \in HeldByMain /\ \A p \in Children : HeldBy(p)' = HeldBy(p)
    BY <1>1, <1>2, HeldMoves, ScriptFacts
  <2>2. Cardinality(HeldByMain') = Cardinality(HeldByMain) - 1 /\ Cardinality(HeldByMain') \in Nat
    BY <2>1, PermitSets, FS_RemoveElement, FS_CardinalityType
  <2>3. slots' = slots + 1 /\ UNCHANGED refs
    BY <1>2 DEF GiveBack, o
  <2>4. slots' = slots + Cardinality(HeldByMain) - Cardinality(HeldByMain') /\ slots' >= 0
    BY <2>2, <2>3, PermitSets DEF PermitsTyped
  <2> QED BY <2>1, <2>2, <2>3, <2>4, MainMoves
<1>3. CASE o # Main
  <2>1. o \in Children
    BY <1>1, <1>3 DEF Owners
  <2>2. /\ HeldBy(o)' = HeldBy(o) \ {c} /\ c \in HeldBy(o) /\ HeldByMain' = HeldByMain
        /\ \A p \in Children \ {o} : HeldBy(p)' = HeldBy(p)
    BY <1>1, <1>3, HeldMoves
  <2>3. IsFiniteSet(HeldBy(o)) /\ Cardinality(HeldBy(o)) \in Nat /\ Holds(o) \in {0, 1}
    BY <2>1, PermitSets
  <2>4. Cardinality(HeldBy(o)') = Cardinality(HeldBy(o)) - 1 /\ Cardinality(HeldBy(o)') \in Nat
    BY <2>2, <2>3, FS_RemoveElement, FS_CardinalityType
  <2>5. refs[o] = Cardinality(HeldBy(o)) + Holds(o) /\ refs[o] \in Nat
    BY <2>1, Balanced DEF PermitsTyped
  <2> DEFINE n == refs[o] - 1
  <2>6. n \in Nat /\ n = Cardinality(HeldBy(o)') + Holds(o)'
    BY <2>1, <2>3, <2>4, <2>5
  <2>7. refs' = [refs EXCEPT ![o] = n] /\ slots' = IF refs[o] = 1 THEN slots + 1 ELSE slots
    BY <1>3 DEF GiveBack, o
  <2>8. slots' = slots + (IF refs[o] > 0 THEN 1 ELSE 0) - (IF n > 0 THEN 1 ELSE 0)
    BY <2>3, <2>4, <2>5, <2>7 DEF PermitsTyped
  <2>9. slots' >= 0
    BY <2>7 DEF PermitsTyped
  <2> HIDE DEF n
  <2> QED BY <2>1, <2>2, <2>6, <2>7, <2>8, <2>9, LeaseMoves
<1> QED BY <1>2, <1>3

\* A thread of a batch gets a permit, its own or the one its loop holds.
LEMMA SubmitPermits ==
  ASSUME PermitsTyped, PermitsBalanced, NEW o \in Owners, NEW c \in Parallel, c \in CallsOf(o), ~Runs(c), Runs(c)',
         \A d \in Parallel \ {c} : Runs(d)' = Runs(d), \A p \in Children : Holds(p)' = Holds(p),
         o = Main => slots > 0, o # Main => Holds(o) = 1,
         IF o = Main THEN slots' = slots - 1 /\ UNCHANGED refs
         ELSE refs' = [refs EXCEPT ![o] = @ + 1] /\ UNCHANGED slots
  PROVE  PermitsBalanced' /\ PermitsTyped'
<1>1. CASE o = Main
  <2>1. HeldByMain' = HeldByMain \cup {c} /\ c \notin HeldByMain /\ \A p \in Children : HeldBy(p)' = HeldBy(p)
    BY <1>1, HeldMoves, ScriptFacts
  <2>2. Cardinality(HeldByMain') = Cardinality(HeldByMain) + 1 /\ Cardinality(HeldByMain') \in Nat
    BY <2>1, PermitSets, FS_AddElement, FS_CardinalityType
  <2>3. slots' = slots - 1 /\ UNCHANGED refs /\ slots > 0
    BY <1>1
  <2>4. slots' = slots + Cardinality(HeldByMain) - Cardinality(HeldByMain') /\ slots' >= 0
    BY <2>2, <2>3, PermitSets DEF PermitsTyped
  <2> QED BY <2>1, <2>2, <2>3, <2>4, MainMoves
<1>2. CASE o # Main
  <2>1. o \in Children
    BY <1>2 DEF Owners
  <2>2. /\ HeldBy(o)' = HeldBy(o) \cup {c} /\ c \notin HeldBy(o) /\ HeldByMain' = HeldByMain
        /\ \A p \in Children \ {o} : HeldBy(p)' = HeldBy(p)
    BY <1>2, HeldMoves
  <2>3. IsFiniteSet(HeldBy(o)) /\ Cardinality(HeldBy(o)) \in Nat
    BY <2>1, PermitSets
  <2>4. Cardinality(HeldBy(o)') = Cardinality(HeldBy(o)) + 1
    BY <2>2, <2>3, FS_AddElement
  <2>5. refs[o] = Cardinality(HeldBy(o)) + Holds(o) /\ refs[o] \in Nat /\ Holds(o) = 1 /\ Holds(o)' = 1
    BY <1>2, <2>1, Balanced DEF PermitsTyped
  <2> DEFINE n == refs[o] + 1
  <2>6. n \in Nat /\ n = Cardinality(HeldBy(o)') + Holds(o)'
    BY <2>3, <2>4, <2>5
  <2>7. refs' = [refs EXCEPT ![o] = n] /\ slots' = slots
    BY <1>2
  <2>8. slots' = slots + (IF refs[o] > 0 THEN 1 ELSE 0) - (IF n > 0 THEN 1 ELSE 0)
    BY <2>3, <2>5, <2>7 DEF PermitsTyped
  <2>9. slots' >= 0
    BY <2>7 DEF PermitsTyped
  <2> HIDE DEF n
  <2> QED BY <2>1, <2>2, <2>6, <2>7, <2>8, <2>9, LeaseMoves
<1> QED BY <1>1, <1>2

-----------------------------------------------------------------------------
(* The steps of a loop *)

LoopTyped ==
    /\ own \in [Owners -> Loop]
    /\ call \in [Calls -> CallRow]
    /\ thread \in [Calls -> {"none", "working"} \cup OnPermit \cup Results]

LEMMA Typed == BatchTypeOK <=> PermitsTyped /\ LoopTyped
  BY DEF BatchTypeOK, PermitsTyped, LoopTyped, CallRow

AnswersKept(o) == \A c \in CallsOf(o) : call[c].status \in Final => call'[c].status = call[c].status

\* What a step of the loop o has to keep.
Keeps(o) == Local(o) /\ LoopOK(o)' /\ AnswersKept(o)

\* What the permits depend on.
PermitsAlone(o) ==
    /\ UNCHANGED <<slots, refs>>
    /\ \A c \in CallsOf(o) : Runs(c)' = Runs(c)
    /\ own'[o].pc \in {"new", "waiting", "ended"} <=> own[o].pc \in {"new", "waiting", "ended"}

LEMMA AloneBalanced ==
  ASSUME PermitsTyped, PermitsBalanced, NEW o \in Owners, Local(o), PermitsAlone(o)
  PROVE  PermitsBalanced' /\ PermitsTyped'
<1>1. ASSUME NEW c \in Parallel PROVE Runs(c)' = Runs(c)
  <2>1. CASE c \in CallsOf(o)
    BY <2>1 DEF PermitsAlone
  <2>2. CASE c \notin CallsOf(o)
    BY <2>2 DEF Local, Runs, Parallel
  <2> QED BY <2>1, <2>2
<1>2. ASSUME NEW p \in Children PROVE Holds(p)' = Holds(p)
  <2>1. CASE p = o
    BY <2>1 DEF PermitsAlone, Holds
  <2>2. CASE p # o
    BY <2>2, ScriptFacts DEF Local, Holds
  <2> QED BY <2>1, <2>2
<1>3. UNCHANGED <<slots, refs>>
  BY DEF PermitsAlone
<1> QED BY <1>1, <1>2, <1>3, PermitsStay DEF PermitsTyped

\* The calls of later batches stay untouched.
LEMMA LaterStay ==
  ASSUME NEW o \in Owners, NotYet(o), own[o].pc \notin {"new", "waiting"},
         own'[o].pc \notin {"new", "waiting", "turn"}, own'[o].turn = own[o].turn,
         \A c \in CallsOf(o) : Quiet(c) /\ (own[o].turn + 1 \in DOMAIN Script[o] => c \notin CallsIn(Batch(o))) => Quiet(c)'
  PROVE  NotYet(o)'
<1> SUFFICES ASSUME NEW i \in DOMAIN Script[o], i > own[o].turn + 1, NEW c \in CallsIn(Script[o][i])
             PROVE  Quiet(c)'
  BY DEF NotYet
<1>1. c \in CallsOf(o) /\ Quiet(c) /\ i \in Nat
  BY ScriptFacts DEF NotYet
<1>2. own[o].turn + 1 \in DOMAIN Script[o] => c \notin CallsIn(Batch(o))
  <2>1. ASSUME own[o].turn + 1 \in DOMAIN Script[o], c \in CallsIn(Script[o][own[o].turn + 1]) PROVE i = own[o].turn + 1
    BY <2>1, OnePlace
  <2>2. own[o].turn + 1 \in DOMAIN Script[o] => own[o].turn + 1 \in Nat
    BY ScriptFacts
  <2> QED BY <1>1, <2>1, <2>2 DEF Batch
<1> QED BY <1>1, <1>2

\* The batch a loop is in.
LEMMA InsideFacts ==
  ASSUME NEW o \in Owners, LoopOK(o), own[o].pc \in InBatch
  PROVE  /\ own[o].turn + 1 \in DOMAIN Script[o] /\ Batch(o) = Script[o][own[o].turn + 1]
         /\ CallsIn(Batch(o)) \subseteq CallsOf(o) /\ CallsOf(o) \subseteq Calls
         /\ CallsIn(own[o].todo) \subseteq CallsIn(Batch(o))
         /\ Active(o) = {c \in CallsOf(o) : call[c].status = "running"}
         /\ \A c \in CallsIn(Batch(o)) : c \in Parallel <=> own[o].pc # "serial"
<1>1. own[o].turn + 1 \in DOMAIN Script[o] /\ Batch(o) = Script[o][own[o].turn + 1]
  BY DEF LoopOK, InsideOK, Batch
<1>2. CallsIn(Batch(o)) \subseteq CallsOf(o) /\ CallsOf(o) \subseteq Calls
  BY <1>1, ScriptFacts
<1>3. \A c \in CallsIn(Batch(o)) : c \in Parallel <=> own[o].pc # "serial"
  BY <1>1, InParallel DEF LoopOK, InsideOK
<1>4. Active(o) = {c \in CallsOf(o) : call[c].status = "running"}
  BY <1>2 DEF Active, LoopOK, InsideOK
<1> QED BY <1>1, <1>2, <1>3, <1>4 DEF LoopOK, InsideOK

\* Outside its batches a loop only goes on, with nothing open.
LEMMA GoOn ==
  ASSUME LoopTyped, NEW o \in Owners, LoopOK(o), UNCHANGED <<call, thread>>,
         \/ Spawn(o) \/ TakeLease(o) \/ GiveUpLease(o) \/ EndLoop(o)
  PROVE  Keeps(o)
<1>1. /\ Goto(o, "waiting") \/ Goto(o, "turn") \/ Goto(o, "ended") \/ Goto(o, "leaving")
      /\ own[o].pc \in {"new", "waiting", "turn"}
  BY DEF Spawn, TakeLease, GiveUpLease, EndLoop, At
<1>2. /\ own' \in [Owners -> Loop] /\ \A q \in Owners \ {o} : own'[q] = own[q]
      /\ own'[o].turn = own[o].turn /\ own'[o].todo = own[o].todo /\ own'[o].unsure = own[o].unsure
  BY <1>1, GotoLoop DEF LoopTyped
<1>3. \/ own[o].pc = "new" /\ own'[o].pc = "waiting"
      \/ own[o].pc = "waiting" /\ own'[o].pc \in {"turn", "ended"}
      \/ own[o].pc = "turn" /\ own'[o].pc = "leaving"
  BY GotoPc DEF Spawn, TakeLease, GiveUpLease, EndLoop, At, LoopTyped
<1>4. Local(o)
  BY <1>2 DEF Local, LoopTyped
<1>5. NotYet(o)'
  BY <1>2, <1>3 DEF LoopOK, NotYet, Quiet
<1>6. InsideOK(o)' /\ SerialOK(o)'
  BY <1>3 DEF InsideOK, SerialOK, InBatch
<1>7. \A c \in CallsOf(o) : call[c].status \notin {"queued", "running"}
  BY <1>1 DEF LoopOK, OpenOK, InBatch
<1>8. OpenOK(o)' /\ ThreadsOK(o)' /\ GateOK(o)'
  BY <1>1, <1>2, <1>7 DEF LoopOK, OpenOK, ThreadsOK, GateOK, Runs
<1>ans. AnswersKept(o)
  BY DEF AnswersKept
<1> QED BY <1>4, <1>5, <1>6, <1>8, <1>ans DEF Keeps, LoopOK

LEMMA BeginStep ==
  ASSUME LoopTyped, NEW o \in Owners, LoopOK(o), BeginBatch(o)
  PROVE  Keeps(o) /\ PermitsAlone(o)
<1> DEFINE u == own[o]
           i == u.turn + 1
           pc == IF IsParallel(Batch(o)) THEN "top" ELSE "serial"
           t == [u EXCEPT !.pc = pc, !.todo = Batch(o), !.stop = "no", !.lost = 0]
<1>1. u \in Loop /\ u.pc = "turn" /\ i \in DOMAIN Script[o] /\ own' = [own EXCEPT ![o] = t]
  <2>1. Script[o] \in Seq(Seq(Calls)) /\ u.turn < Len(Script[o]) /\ u.turn \in Nat
    BY ScriptFacts DEF BeginBatch, LoopTyped, Loop
  <2> QED BY <2>1 DEF BeginBatch, LoopTyped, At
<1>2. Batch(o) = Script[o][i] /\ Batch(o) \in Seq(Calls) /\ CallsIn(Batch(o)) \subseteq CallsOf(o) /\ CallsOf(o) \subseteq Calls
  BY <1>1, ScriptFacts DEF Batch
<1>3. call' = [c \in Calls |-> IF c \in CallsIn(Batch(o)) THEN Answered("queued") ELSE call[c]] /\ UNCHANGED <<slots, refs, thread>>
  BY DEF BeginBatch
<1> HIDE DEF u
<1>4. t \in Loop /\ t.pc = pc /\ t.turn = u.turn /\ t.todo = Batch(o) /\ t.unsure = u.unsure
  BY <1>1, <1>2 DEF Loop, InBatch
<1> HIDE DEF t
<1>5. /\ own' \in [Owners -> Loop] /\ \A q \in Owners \ {o} : own'[q] = own[q]
      /\ own'[o].pc = pc /\ own'[o].turn = own[o].turn /\ own'[o].todo = Batch(o) /\ own'[o].unsure = own[o].unsure
  BY <1>1, <1>4, SetLoop DEF LoopTyped, u
<1>6. /\ call' \in [Calls -> CallRow]
      /\ \A c \in CallsOf(o) : call'[c].status = IF c \in CallsIn(Batch(o)) THEN "queued" ELSE call[c].status
      /\ \A c \in Calls \ CallsOf(o) : call'[c] = call[c]
  BY <1>2, <1>3, Rows DEF LoopTyped
<1>7. Local(o)
  BY <1>3, <1>5, <1>6 DEF Local, LoopTyped
<1>8. /\ \A c \in CallsIn(Batch(o)) : Quiet(c)
      /\ \A c \in CallsOf(o) : call[c].status \notin {"queued", "running"} /\ ~(thread[c] \in Results)
  BY <1>1, <1>2 DEF LoopOK, NotYet, OpenOK, ThreadsOK, InBatch, u
<1>9. pc \in {"top", "serial"} /\ (pc = "serial" <=> ~IsParallel(Batch(o)))
  OBVIOUS
<1> HIDE DEF pc
<1>10. NotYet(o)'
  BY <1>1, <1>3, <1>5, <1>6, <1>9, LaterStay DEF LoopOK, Quiet, u
<1>11. InsideOK(o)'
  <2>1. Batch(o)' = Batch(o)
    BY <1>5 DEF Batch
  <2>2. \A k, l \in DOMAIN Batch(o) : Batch(o)[k] = Batch(o)[l] => k = l
    BY <1>1, <1>2, BatchDistinct
  <2>3. own'[o].turn + 1 \in DOMAIN Script[o]
    BY <1>1, <1>5 DEF u
  <2>4. own'[o].pc = "serial" <=> ~IsParallel(Batch(o)')
    BY <1>5, <1>9, <2>1
  <2>5. \A c \in CallsIn(Batch(o)) : call'[c].status = "queued" /\ thread'[c] = "none"
    BY <1>2, <1>3, <1>6, <1>8 DEF Quiet
  <2>6. \A c \in CallsOf(o) : /\ call'[c].status = "queued" => c \in CallsIn(Batch(o))
                              /\ call'[c].status # "running"
    BY <1>6, <1>8
  <2> QED BY <1>5, <2>1, <2>2, <2>3, <2>4, <2>5, <2>6 DEF InsideOK
<1>12. OpenOK(o)' /\ ThreadsOK(o)' /\ SerialOK(o)' /\ GateOK(o)'
  BY <1>1, <1>3, <1>5, <1>6, <1>8, <1>9
     DEF LoopOK, OpenOK, ThreadsOK, SerialOK, GateOK, Runs, Quiet, InBatch, OnPermit, Results, u
<1>13. PermitsAlone(o)
  BY <1>1, <1>3, <1>5, <1>9 DEF PermitsAlone, Runs, u
<1>ans. AnswersKept(o)
  BY <1>6, <1>8 DEF AnswersKept, Quiet, Final
<1> QED BY <1>7, <1>10, <1>11, <1>12, <1>13, <1>ans DEF Keeps, LoopOK

LEMMA EndStep ==
  ASSUME LoopTyped, NEW o \in Owners, LoopOK(o), EndBatch(o)
  PROVE  Keeps(o) /\ PermitsAlone(o)
<1> DEFINE u == own[o]
           pc == IF u.asked \/ Cancelled(o) THEN "leaving" ELSE "turn"
           t == [u EXCEPT !.pc = pc, !.turn = u.turn + 1, !.stop = "no", !.lost = 0]
<1>1. u \in Loop /\ u.pc \in {"serial", "top"} /\ u.todo = <<>> /\ Active(o) = {} /\ own' = [own EXCEPT ![o] = t]
  BY DEF EndBatch, LoopTyped
<1>2. UNCHANGED <<slots, refs, call, thread>>
  BY DEF EndBatch
<1>a. pc \in {"leaving", "turn"}
  OBVIOUS
<1> HIDE DEF u, pc
<1>b. u.turn + 1 \in Nat
  BY <1>1 DEF Loop
<1>3. t \in Loop /\ t.pc = pc /\ t.turn = u.turn + 1 /\ t.todo = u.todo /\ t.unsure = u.unsure
  BY <1>1, <1>a, <1>b DEF Loop
<1> HIDE DEF t
<1>4. /\ own' \in [Owners -> Loop] /\ \A q \in Owners \ {o} : own'[q] = own[q]
      /\ own'[o].pc = pc /\ own'[o].turn = own[o].turn + 1 /\ own'[o].unsure = own[o].unsure
  BY <1>1, <1>3, SetLoop DEF LoopTyped, u
<1>5. Local(o)
  BY <1>2, <1>4 DEF Local, LoopTyped
<1>6. \A c \in CallsOf(o) : call[c].status \notin {"queued", "running"}
  <2>1. own[o].pc \in InBatch /\ CallsIn(own[o].todo) = {}
    BY <1>1 DEF InBatch, CallsIn, u
  <2> QED BY <1>1, <2>1, InsideFacts DEF LoopOK, InsideOK
<1>7. NotYet(o)'
  <2>1. own[o].turn \in Nat /\ \A i \in DOMAIN Script[o] : i \in Nat
    BY <1>1, ScriptFacts DEF Loop, u
  <2>2. \A i \in DOMAIN Script[o] : i > own[o].turn + 1 + 1 \/ i = own[o].turn + 1 + 1 => i > own[o].turn + 1
    BY <2>1
  <2> QED BY <1>2, <1>4, <1>a, <2>1, <2>2 DEF LoopOK, NotYet, Quiet
<1>8. InsideOK(o)' /\ OpenOK(o)' /\ ThreadsOK(o)' /\ SerialOK(o)' /\ GateOK(o)'
  BY <1>1, <1>2, <1>4, <1>6, <1>a
     DEF LoopOK, InsideOK, OpenOK, ThreadsOK, SerialOK, GateOK, Runs, InBatch, u
<1>9. PermitsAlone(o)
  BY <1>1, <1>2, <1>4, <1>a DEF PermitsAlone, Runs, u
<1>ans. AnswersKept(o)
  BY <1>2 DEF AnswersKept
<1> QED BY <1>5, <1>7, <1>8, <1>9, <1>ans DEF Keeps, LoopOK

\* A step inside a batch moves the calls of the batch and keeps what is pending apart.
LEMMA InsideStep ==
  ASSUME LoopTyped, NEW o \in Owners, LoopOK(o), own[o].pc \in InBatch,
         NEW t \in Loop, own' = [own EXCEPT ![o] = t], t.turn = own[o].turn, t.pc \in InBatch,
         t.pc = "serial" <=> own[o].pc = "serial",
         \A i, j \in DOMAIN t.todo : t.todo[i] = t.todo[j] => i = j,
         CallsIn(t.todo) \subseteq CallsIn(Batch(o)),
         call' \in [Calls -> CallRow],
         thread' \in [Calls -> {"none", "working"} \cup OnPermit \cup Results],
         \A c \in Calls \ CallsIn(Batch(o)) : call'[c] = call[c] /\ thread'[c] = thread[c],
         \A c \in CallsIn(t.todo) : call'[c].status = "queued" /\ thread'[c] = "none",
         \A c \in CallsIn(Batch(o)) : call'[c].status = "queued" => c \in CallsIn(t.todo)
  PROVE  Local(o) /\ own'[o] = t /\ NotYet(o)' /\ InsideOK(o)' /\ OpenOK(o)'
<1>1. own' \in [Owners -> Loop] /\ own'[o] = t /\ \A q \in Owners \ {o} : own'[q] = own[q]
  BY SetLoop DEF LoopTyped
<1>2. /\ own[o].turn + 1 \in DOMAIN Script[o] /\ CallsIn(Batch(o)) \subseteq CallsOf(o) /\ CallsOf(o) \subseteq Calls
      /\ CallsIn(own[o].todo) \subseteq CallsIn(Batch(o))
  BY InsideFacts
<1>3. Local(o)
  BY <1>1, <1>2 DEF Local
<1>4. NotYet(o)'
  <2>1. own[o].pc \notin {"new", "waiting"} /\ own'[o].pc \notin {"new", "waiting", "turn"} /\ own'[o].turn = own[o].turn
    BY <1>1 DEF InBatch
  <2>2. \A c \in CallsOf(o) : c \notin CallsIn(Batch(o)) => Quiet(c)' = Quiet(c)
    BY <1>2 DEF Quiet
  <2> QED BY <1>2, <2>1, <2>2, LaterStay DEF LoopOK
<1>5. InsideOK(o)'
  <2>1. Batch(o)' = Batch(o)
    BY <1>1 DEF Batch
  <2>2. own'[o].pc = "serial" <=> ~IsParallel(Batch(o)')
    BY <1>1, <2>1 DEF LoopOK, InsideOK
  <2>3. \A c \in CallsOf(o) : call'[c].status = "queued" => c \in CallsIn(t.todo)
    BY <1>2 DEF LoopOK, InsideOK
  <2>4. \A c \in CallsOf(o) : call'[c].status = "running" => c \in CallsIn(Batch(o))
    BY <1>2 DEF LoopOK, InsideOK
  <2>5. own'[o].turn + 1 \in DOMAIN Script[o]
    BY <1>1, <1>2
  <2> QED BY <1>1, <2>1, <2>2, <2>3, <2>4, <2>5 DEF InsideOK
<1>6. OpenOK(o)'
  BY <1>1 DEF OpenOK
<1> QED BY <1>1, <1>3, <1>4, <1>5, <1>6

LEMMA TopStep ==
  ASSUME LoopTyped, NEW o \in Owners, LoopOK(o), Top(o)
  PROVE  Keeps(o) /\ PermitsAlone(o)
<1> DEFINE u == own[o]
           queued == CallsIn(u.todo)
           stops == Stops(o) /\ u.stop = "no"
           stop == IF stops THEN "seen" ELSE u.stop
           todo == IF u.asked \/ stops THEN <<>> ELSE u.todo
           t == [u EXCEPT !.pc = "dispatch", !.stop = stop, !.todo = todo]
<1>1. u \in Loop /\ u.pc = "top" /\ u.pc \in InBatch /\ own' = [own EXCEPT ![o] = t] /\ UNCHANGED <<slots, refs, thread>>
  BY DEF Top, LoopTyped, At, InBatch
<1>2. call' = [c \in Calls |->
                 CASE c \in queued /\ u.asked -> Answered("done")
                   [] c \in queued /\ ~u.asked /\ stops -> Answered("cancelled")
                   [] c \in Active(o) /\ stops -> [call[c] EXCEPT !.token = TRUE]
                   [] OTHER -> call[c]]
  BY DEF Top
<1>3. stops \in BOOLEAN
  BY DEF Stops, Cancelled
<1> HIDE DEF stops
<1>4. /\ CallsIn(Batch(o)) \subseteq CallsOf(o) /\ CallsOf(o) \subseteq Calls /\ queued \subseteq CallsIn(Batch(o))
      /\ Active(o) \subseteq CallsIn(Batch(o))
      /\ \A c \in queued : call[c].status = "queued" /\ thread[c] = "none"
      /\ \A i, j \in DOMAIN u.todo : u.todo[i] = u.todo[j] => i = j
  BY <1>1, InsideFacts DEF LoopOK, InsideOK, Active
<1>5. \A c \in Calls : /\ call'[c] \in CallRow
                       /\ c \notin CallsIn(Batch(o)) => call'[c] = call[c]
                       /\ c \notin queued \/ ~(u.asked \/ stops) => call'[c].status = call[c].status
                       /\ c \in queued /\ (u.asked \/ stops) => call'[c].status \in Final
  <2> SUFFICES ASSUME NEW c \in Calls
               PROVE  /\ call'[c] \in CallRow
                      /\ c \notin CallsIn(Batch(o)) => call'[c] = call[c]
                      /\ c \notin queued \/ ~(u.asked \/ stops) => call'[c].status = call[c].status
                      /\ c \in queued /\ (u.asked \/ stops) => call'[c].status \in Final
    OBVIOUS
  <2>1. /\ call[c] \in CallRow /\ u.asked \in BOOLEAN
        /\ Answered("done") \in CallRow /\ Answered("done").status \in Final
        /\ Answered("cancelled") \in CallRow /\ Answered("cancelled").status \in Final
        /\ [call[c] EXCEPT !.token = TRUE] \in CallRow /\ [call[c] EXCEPT !.token = TRUE].status = call[c].status
    BY <1>1, Rows DEF LoopTyped, Loop, Final
  <2> DEFINE asked == u.asked
  <2>2. asked \in BOOLEAN
    BY <2>1
  <2>3. call'[c] = CASE c \in queued /\ asked -> Answered("done")
                     [] c \in queued /\ ~asked /\ stops -> Answered("cancelled")
                     [] c \in Active(o) /\ stops -> [call[c] EXCEPT !.token = TRUE]
                     [] OTHER -> call[c]
    BY <1>2
  <2>a. c \in queued => c \notin Active(o)
    BY <1>4 DEF Active
  <2> HIDE DEF asked, queued, u
  <2>4. CASE c \in queued /\ asked
    <3>1. call'[c] = Answered("done")
      BY <2>a, <2>3, <2>4
    <3> QED BY <1>4, <2>1, <2>4, <3>1 DEF asked
  <2>5. CASE c \in queued /\ ~asked /\ stops
    <3>1. call'[c] = Answered("cancelled")
      BY <2>a, <2>3, <2>5
    <3> QED BY <1>4, <2>1, <2>5, <3>1 DEF asked
  <2>6. CASE ~(c \in queued /\ asked) /\ ~(c \in queued /\ ~asked /\ stops)
    <3>1. CASE c \in Active(o) /\ stops
      <4>1. call'[c] = [call[c] EXCEPT !.token = TRUE]
        BY <2>3, <2>6, <3>1, Zenon
      <4> QED BY <1>4, <2>1, <2>6, <3>1, <4>1 DEF asked
    <3>2. CASE ~(c \in Active(o) /\ stops)
      <4>1. call'[c] = call[c]
        BY <2>3, <2>6, <3>2, Zenon
      <4> QED BY <1>4, <2>1, <2>6, <3>2, <4>1 DEF asked
    <3> QED BY <3>1, <3>2
  <2> QED BY <1>3, <2>2, <2>4, <2>5, <2>6
<1>6. call' \in [Calls -> CallRow]
  BY <1>2, <1>5
<1>7. u.stop \in {"no", "seen", "over"} /\ u.todo \in Seq(Calls) /\ u.asked \in BOOLEAN
  BY <1>1 DEF Loop
<1>8. stop \in {"no", "seen", "over"} /\ todo \in Seq(Calls)
      /\ (u.asked \/ stops => todo = <<>>) /\ (~(u.asked \/ stops) => todo = u.todo)
  BY <1>3, <1>7
<1>9. /\ \A i, j \in DOMAIN todo : todo[i] = todo[j] => i = j
      /\ CallsIn(todo) \subseteq queued
      /\ u.asked \/ stops => CallsIn(todo) = {}
      /\ ~(u.asked \/ stops) => CallsIn(todo) = queued
  BY <1>4, <1>8 DEF CallsIn
<1> HIDE DEF stop, todo, u
<1>10. t \in Loop /\ t.pc = "dispatch" /\ t.turn = u.turn /\ t.todo = todo /\ t.unsure = u.unsure
  BY <1>1, <1>8 DEF Loop, InBatch
<1> HIDE DEF t
<1>11. \A c \in CallsIn(todo) : call'[c].status = "queued" /\ thread'[c] = "none"
  BY <1>1, <1>4, <1>5, <1>9
<1>12. \A c \in CallsIn(Batch(o)) : call'[c].status = "queued" => c \in CallsIn(todo)
  BY <1>1, <1>4, <1>5, <1>9 DEF LoopOK, InsideOK, Final, u
<1>13. Local(o) /\ own'[o] = t /\ NotYet(o)' /\ InsideOK(o)' /\ OpenOK(o)'
  <2>1. t.pc \in InBatch /\ (t.pc = "serial" <=> own[o].pc = "serial") /\ own[o].pc \in InBatch /\ t.turn = own[o].turn
    BY <1>1, <1>10 DEF InBatch, u
  <2>2. CallsIn(t.todo) \subseteq CallsIn(Batch(o)) /\ \A i, j \in DOMAIN t.todo : t.todo[i] = t.todo[j] => i = j
    BY <1>4, <1>9, <1>10
  <2>3. thread' \in [Calls -> {"none", "working"} \cup OnPermit \cup Results]
    BY <1>1 DEF LoopTyped
  <2>4. \A c \in Calls \ CallsIn(Batch(o)) : call'[c] = call[c] /\ thread'[c] = thread[c]
    BY <1>1, <1>5
  <2> QED BY <1>1, <1>6, <1>10, <1>11, <1>12, <2>1, <2>2, <2>3, <2>4, InsideStep
<1>14. \A c \in CallsOf(o) : \/ call'[c].status = call[c].status
                             \/ thread[c] = "none" /\ call'[c].status \in Final
  BY <1>4, <1>5
<1>15. ThreadsOK(o)' /\ SerialOK(o)' /\ GateOK(o)'
  BY <1>1, <1>10, <1>13, <1>14 DEF LoopOK, ThreadsOK, SerialOK, GateOK, Runs, OnPermit, Results, Final, u
<1>16. PermitsAlone(o)
  BY <1>1, <1>10, <1>13 DEF PermitsAlone, Runs, u
<1>ans. AnswersKept(o)
  BY <1>4, <1>5 DEF AnswersKept, Final
<1> QED BY <1>13, <1>15, <1>16, <1>ans DEF Keeps, LoopOK

\* A step that touches nothing the invariant speaks of: tokens, clocks and deadlines.
LEMMA AsideStep ==
  ASSUME LoopTyped, NEW o \in Owners, LoopOK(o),
         own' \in [Owners -> Loop], SameLoop(o), \A q \in Owners \ {o} : own'[q] = own[q],
         call' \in [Calls -> CallRow], \A c \in Calls : call'[c].status = call[c].status,
         \A c \in Calls \ CallsOf(o) : call'[c] = call[c], UNCHANGED <<slots, refs, thread>>
  PROVE  Keeps(o) /\ PermitsAlone(o)
<1>1. Local(o)
  BY DEF Local, LoopTyped
<1>2. Batch(o)' = Batch(o)
  BY DEF SameLoop, Batch
<1>3. \A i \in DOMAIN Script[o] : CallsIn(Script[o][i]) \subseteq CallsOf(o) /\ CallsOf(o) \subseteq Calls
  BY ScriptFacts
<1>4. NotYet(o)'
  BY <1>3 DEF LoopOK, NotYet, Quiet, SameLoop
<1>5. InsideOK(o)'
  <2> SUFFICES ASSUME own[o].pc \in InBatch PROVE InsideOK(o)'
    BY DEF InsideOK, SameLoop
  <2>1. CallsIn(own[o].todo) \subseteq Calls /\ CallsOf(o) \subseteq Calls
    BY InsideFacts
  <2> QED BY <1>2, <2>1 DEF LoopOK, InsideOK, SameLoop
<1>6. CallsOf(o) \subseteq Calls
  BY ScriptFacts
<1>7. OpenOK(o)' /\ ThreadsOK(o)' /\ SerialOK(o)' /\ GateOK(o)'
  BY <1>6 DEF LoopOK, OpenOK, ThreadsOK, SerialOK, GateOK, Runs, SameLoop
<1>8. PermitsAlone(o)
  BY DEF PermitsAlone, SameLoop, Runs
<1>ans. AnswersKept(o)
  BY <1>6 DEF AnswersKept
<1> QED BY <1>1, <1>4, <1>5, <1>7, <1>8, <1>ans DEF Keeps, LoopOK

LEMMA ClockStep ==
  ASSUME LoopTyped, NEW o \in Owners, LoopOK(o), CleanupPasses(o) \/ Cancel(o) \/ Deadline(o)
  PROVE  Keeps(o) /\ PermitsAlone(o)
<1> DEFINE u == own[o]
<1>1. u \in Loop /\ UNCHANGED <<slots, refs, call, thread>>
  BY DEF LoopTyped, CleanupPasses, Cancel, Deadline
<1>2. PICK t \in {[u EXCEPT !.stop = "over"], [u EXCEPT !.token = TRUE], [u EXCEPT !.late = TRUE]} :
        own' = [own EXCEPT ![o] = t]
  BY DEF CleanupPasses, Cancel, Deadline
<1> HIDE DEF u
<1>3. t \in Loop /\ t.pc = u.pc /\ t.turn = u.turn /\ t.todo = u.todo /\ t.unsure = u.unsure
  BY <1>1, <1>2 DEF Loop
<1>4. own' \in [Owners -> Loop] /\ own'[o] = t /\ \A q \in Owners \ {o} : own'[q] = own[q]
  BY <1>2, <1>3, SetLoop DEF LoopTyped
<1>5. SameLoop(o)
  BY <1>3, <1>4 DEF SameLoop, u
<1> QED BY <1>1, <1>4, <1>5, AsideStep DEF LoopTyped

LEMMA CancelCallsStep ==
  ASSUME LoopTyped, NEW o \in Owners, LoopOK(o), CancelCalls(o)
  PROVE  Keeps(o) /\ PermitsAlone(o)
<1> DEFINE open == {c \in CallsIn(Batch(o)) : call[c].status \notin Final /\ ~call[c].token}
<1>1. /\ call' = [c \in Calls |-> IF c \in open THEN [call[c] EXCEPT !.token = TRUE] ELSE call[c]]
      /\ UNCHANGED <<slots, refs, own, thread>> /\ own[o].pc \in InBatch
  BY DEF CancelCalls
<1>2. open \subseteq CallsOf(o)
  BY <1>1, InsideFacts
<1> HIDE DEF open
<1>3. /\ call' \in [Calls -> CallRow] /\ \A c \in Calls : call'[c].status = call[c].status
      /\ \A c \in Calls \ CallsOf(o) : call'[c] = call[c]
  BY <1>1, <1>2, Rows DEF LoopTyped
<1>4. SameLoop(o) /\ own' \in [Owners -> Loop] /\ \A q \in Owners \ {o} : own'[q] = own[q]
  BY <1>1 DEF SameLoop, LoopTyped
<1> QED BY <1>1, <1>3, <1>4, AsideStep

\* What is taken next.
LEMMA HeadOfTodo ==
  ASSUME LoopTyped, NEW o \in Owners, LoopOK(o), own[o].pc \in InBatch, own[o].todo # <<>>
  PROVE  /\ Head(own[o].todo) \in Calls /\ Head(own[o].todo) \in CallsIn(own[o].todo)
         /\ thread[Head(own[o].todo)] = "none" /\ call[Head(own[o].todo)] \in CallRow
<1>1. own[o].todo \in Seq(Calls) /\ \A i, j \in DOMAIN own[o].todo : own[o].todo[i] = own[o].todo[j] => i = j
  BY DEF LoopTyped, Loop, LoopOK, InsideOK
<1>2. Head(own[o].todo) \in Calls /\ Head(own[o].todo) \in CallsIn(own[o].todo)
  BY <1>1, HeadAndTail
<1> QED BY <1>2 DEF LoopOK, InsideOK, LoopTyped

\* The next call of a batch is taken from what is pending; its row and thread become r and th.
Takes(o, c, r, th) ==
    /\ own[o].pc \in InBatch /\ own[o].todo # <<>> /\ c = Head(own[o].todo)
    /\ own' = [own EXCEPT ![o].todo = Tail(own[o].todo)]
    /\ r \in CallRow /\ r.status # "queued" /\ th \in {"none", "working"} \cup OnPermit \cup Results
    /\ call' = [call EXCEPT ![c] = r] /\ thread' = [thread EXCEPT ![c] = th]

Took(o, c, r, th) ==
    /\ Local(o) /\ NotYet(o)' /\ InsideOK(o)' /\ OpenOK(o)'
    /\ own'[o].pc = own[o].pc /\ own'[o].unsure = own[o].unsure
    /\ c \in CallsIn(Batch(o)) /\ c \in CallsOf(o) /\ call[c].status = "queued" /\ thread[c] = "none"
    /\ call'[c] = r /\ thread'[c] = th
    /\ \A d \in Calls \ {c} : call'[d] = call[d] /\ thread'[d] = thread[d]

LEMMA NextCall ==
  ASSUME LoopTyped, NEW o \in Owners, LoopOK(o), NEW c, NEW r, NEW th, Takes(o, c, r, th)
  PROVE  Took(o, c, r, th)
<1> SUFFICES ASSUME own[o].pc \in InBatch, own[o].todo # <<>>, c = Head(own[o].todo),
                    own' = [own EXCEPT ![o].todo = Tail(own[o].todo)],
                    r \in CallRow, r.status # "queued", th \in {"none", "working"} \cup OnPermit \cup Results,
                    call' = [call EXCEPT ![c] = r], thread' = [thread EXCEPT ![c] = th]
             PROVE  Took(o, c, r, th)
  BY DEF Takes
<1> DEFINE u == own[o]
           t == [u EXCEPT !.todo = Tail(u.todo)]
<1>1. /\ CallsIn(Batch(o)) \subseteq CallsOf(o) /\ CallsOf(o) \subseteq Calls
      /\ CallsIn(u.todo) \subseteq CallsIn(Batch(o))
      /\ \A d \in CallsIn(u.todo) : call[d].status = "queued" /\ thread[d] = "none"
      /\ \A d \in CallsOf(o) : call[d].status = "queued" => d \in CallsIn(u.todo)
      /\ \A i, j \in DOMAIN u.todo : u.todo[i] = u.todo[j] => i = j
  BY InsideFacts DEF LoopOK, InsideOK
<1>2. u \in Loop /\ u.todo \in Seq(Calls) /\ own' = [own EXCEPT ![o] = t]
  BY DEF LoopTyped, Loop
<1>3. /\ c \in Calls /\ Tail(u.todo) \in Seq(Calls)
      /\ CallsIn(Tail(u.todo)) = CallsIn(u.todo) \ {c} /\ c \in CallsIn(u.todo)
      /\ \A i, j \in DOMAIN Tail(u.todo) : Tail(u.todo)[i] = Tail(u.todo)[j] => i = j
  BY <1>1, <1>2, HeadAndTail
<1>4. t \in Loop /\ t.pc = u.pc /\ t.turn = u.turn /\ t.todo = Tail(u.todo) /\ t.unsure = u.unsure
  <2> DEFINE s == Tail(u.todo)
  <2>1. t = [u EXCEPT !.todo = s] /\ s \in Seq(Calls)
    BY <1>3
  <2> HIDE DEF s, t, u
  <2>2. t \in Loop /\ t.pc = u.pc /\ t.turn = u.turn /\ t.todo = s /\ t.unsure = u.unsure
    BY <1>2, <2>1 DEF Loop
  <2> QED BY <2>2 DEF s
<1>6. c \in CallsIn(Batch(o)) /\ c \in CallsOf(o) /\ call[c].status = "queued" /\ thread[c] = "none"
  BY <1>1, <1>3
<1> HIDE DEF t
<1>7. /\ call' \in [Calls -> CallRow]
      /\ thread' \in [Calls -> {"none", "working"} \cup OnPermit \cup Results]
      /\ call'[c] = r /\ thread'[c] = th
      /\ \A d \in Calls \ {c} : call'[d] = call[d] /\ thread'[d] = thread[d]
  BY <1>3 DEF LoopTyped
<1>8. Local(o) /\ own'[o] = t /\ NotYet(o)' /\ InsideOK(o)' /\ OpenOK(o)'
  <2>1. \A d \in Calls \ CallsIn(Batch(o)) : call'[d] = call[d] /\ thread'[d] = thread[d]
    BY <1>6, <1>7
  <2>2. \A d \in CallsIn(t.todo) : call'[d].status = "queued" /\ thread'[d] = "none"
    BY <1>1, <1>3, <1>4, <1>7
  <2>3. \A d \in CallsIn(Batch(o)) : call'[d].status = "queued" => d \in CallsIn(t.todo)
    BY <1>1, <1>3, <1>4, <1>7
  <2>4. /\ CallsIn(t.todo) \subseteq CallsIn(Batch(o)) /\ \A i, j \in DOMAIN t.todo : t.todo[i] = t.todo[j] => i = j
        /\ t.pc \in InBatch /\ (t.pc = "serial" <=> own[o].pc = "serial") /\ t.turn = own[o].turn
    BY <1>1, <1>3, <1>4
  <2> HIDE DEF u
  <2> QED BY <1>2, <1>4, <1>7, <2>1, <2>2, <2>3, <2>4, InsideStep
<1> QED BY <1>4, <1>6, <1>7, <1>8 DEF Took

LEMMA SubmitStep ==
  ASSUME PermitsTyped, PermitsBalanced, LoopTyped, NEW o \in Owners, LoopOK(o), Submit(o)
  PROVE  Keeps(o) /\ PermitsBalanced' /\ PermitsTyped'
<1>a. own[o].pc = "dispatch" /\ own[o].pc \in InBatch /\ own[o].todo # <<>>
  BY DEF Submit, MayStart, At, InBatch
<1>2. PICK c \in Calls : c = Head(own[o].todo) /\ call[c] \in CallRow
  BY <1>a, HeadOfTodo
<1> DEFINE r == [call[c] EXCEPT !.status = "running"]
<1>b. r \in CallRow /\ r.status = "running"
  BY <1>2, Rows
<1>1. /\ own[o].pc = "dispatch" /\ own[o].pc \in InBatch /\ own[o].todo # <<>> /\ HasPermit(o)
      /\ own' = [own EXCEPT ![o].todo = Tail(own[o].todo)]
      /\ call' = [call EXCEPT ![c] = r] /\ thread' = [thread EXCEPT ![c] = "submitted"]
      /\ IF o = Main THEN slots' = slots - 1 /\ UNCHANGED refs
         ELSE refs' = [refs EXCEPT ![o] = @ + 1] /\ UNCHANGED slots
  BY <1>2 DEF Submit, MayStart, At, InBatch
<1> HIDE DEF r
<1>3. /\ Local(o) /\ NotYet(o)' /\ InsideOK(o)' /\ OpenOK(o)'
      /\ own'[o].pc = own[o].pc /\ own'[o].unsure = own[o].unsure
      /\ c \in CallsIn(Batch(o)) /\ c \in CallsOf(o) /\ call[c].status = "queued" /\ thread[c] = "none"
      /\ call'[c] = r /\ thread'[c] = "submitted"
      /\ \A d \in Calls \ {c} : call'[d] = call[d] /\ thread'[d] = thread[d]
  <2>1. r.status # "queued" /\ "submitted" \in {"none", "working"} \cup OnPermit \cup Results
    BY <1>b DEF OnPermit
  <2>2. Takes(o, c, r, "submitted")
    BY <1>1, <1>2, <1>b, <2>1 DEF Takes
  <2>3. Took(o, c, r, "submitted")
    BY <2>2, NextCall
  <2> QED BY <2>3 DEF Took
<1>4. c \in Parallel /\ CallsOf(o) \subseteq Calls
  BY <1>1, <1>3, InsideFacts
<1>5. ThreadsOK(o)' /\ SerialOK(o)' /\ GateOK(o)'
  BY <1>1, <1>b, <1>3, <1>4 DEF LoopOK, ThreadsOK, SerialOK, GateOK, Runs, OnPermit, Results, Final
<1>6. \A d \in Parallel \ {c} : Runs(d)' = Runs(d)
  BY <1>3, ParallelOwned DEF Runs
<1>7. ~Runs(c) /\ Runs(c)'
  BY <1>3 DEF Runs, OnPermit
<1>8. \A p \in Children : Holds(p)' = Holds(p)
  BY <1>3, ScriptFacts DEF Holds, Local
<1>9. (o = Main => slots > 0) /\ (o # Main => Holds(o) = 1)
  BY <1>1 DEF HasPermit, Holds
<1>10. PermitsBalanced' /\ PermitsTyped'
  BY <1>1, <1>3, <1>4, <1>6, <1>7, <1>8, <1>9, SubmitPermits
<1>ans. AnswersKept(o)
  BY <1>3, <1>4 DEF AnswersKept, Final
<1> QED BY <1>3, <1>5, <1>10, <1>ans DEF Keeps, LoopOK

LEMMA RejectStep ==
  ASSUME LoopTyped, NEW o \in Owners, LoopOK(o), Reject(o)
  PROVE  Keeps(o) /\ PermitsAlone(o)
<1> DEFINE c == Head(own[o].todo)
           r == Answered("done")
<1>1. /\ own[o].pc = "dispatch" /\ own[o].pc \in InBatch /\ own[o].todo # <<>>
      /\ own' = [own EXCEPT ![o].todo = Tail(own[o].todo)]
      /\ call' = [call EXCEPT ![c] = r] /\ UNCHANGED <<slots, refs, thread>>
  BY DEF Reject, MayStart, At, InBatch
<1>2. r \in CallRow /\ r.status = "done"
  BY Rows DEF Final
<1>3. c \in CallsIn(own[o].todo) /\ c \in Calls /\ thread[c] = "none"
  BY <1>1, HeadOfTodo
<1>4. thread' = [thread EXCEPT ![c] = "none"]
  BY <1>1, <1>3 DEF LoopTyped
<1> HIDE DEF r
<1>5. /\ Local(o) /\ NotYet(o)' /\ InsideOK(o)' /\ OpenOK(o)'
      /\ own'[o].pc = own[o].pc /\ own'[o].unsure = own[o].unsure
      /\ c \in CallsIn(Batch(o)) /\ c \in CallsOf(o) /\ call[c].status = "queued" /\ thread[c] = "none"
      /\ call'[c] = r
      /\ \A d \in Calls \ {c} : call'[d] = call[d] /\ thread'[d] = thread[d]
  <2>1. r.status # "queued" /\ "none" \in {"none", "working"} \cup OnPermit \cup Results
    BY <1>2
  <2>2. Takes(o, c, r, "none")
    BY <1>1, <1>2, <1>4, <2>1 DEF Takes
  <2>3. Took(o, c, r, "none")
    BY <2>2, NextCall
  <2> QED BY <2>3 DEF Took
<1> HIDE DEF c
<1>6. ThreadsOK(o)' /\ SerialOK(o)' /\ GateOK(o)'
  <2>1. CallsOf(o) \subseteq Calls
    BY ScriptFacts
  <2> QED BY <1>1, <1>2, <1>5, <2>1 DEF LoopOK, ThreadsOK, SerialOK, GateOK, Runs, OnPermit, Results, Final
<1>7. PermitsAlone(o)
  BY <1>1, <1>5 DEF PermitsAlone, Runs
<1>ans. AnswersKept(o)
  BY <1>5, ScriptFacts DEF AnswersKept, Final
<1> QED BY <1>5, <1>6, <1>7, <1>ans DEF Keeps, LoopOK

LEMMA SerialNextStep ==
  ASSUME LoopTyped, NEW o \in Owners, LoopOK(o), SerialNext(o)
  PROVE  Keeps(o) /\ PermitsAlone(o)
<1> DEFINE c == Head(own[o].todo)
<1>1. /\ own[o].pc = "serial" /\ own[o].pc \in InBatch /\ own[o].todo # <<>> /\ Active(o) = {}
      /\ own' = [own EXCEPT ![o].todo = Tail(own[o].todo)] /\ UNCHANGED <<slots, refs>>
  BY DEF SerialNext, At, InBatch
<1>2. c \in CallsIn(own[o].todo) /\ c \in Calls /\ thread[c] = "none"
  BY <1>1, HeadOfTodo
<1>3. PICK r \in CallRow, th \in {"none", "working"} :
        /\ call' = [call EXCEPT ![c] = r] /\ thread' = [thread EXCEPT ![c] = th]
        /\ \/ r.status \in {"done", "cancelled"} /\ th = "none"
           \/ r.status = "running" /\ th = "working" /\ MayRun(o, c)
  <2>1. /\ Answered("done") \in CallRow /\ Answered("done").status = "done"
        /\ Answered("cancelled") \in CallRow /\ Answered("cancelled").status = "cancelled"
        /\ Answered("running") \in CallRow /\ Answered("running").status = "running"
    BY Rows DEF Final
  <2>2. CASE /\ call' = [call EXCEPT ![c] = Answered(IF own[o].asked \/ ~Cancelled(o) THEN "done" ELSE "cancelled")]
             /\ UNCHANGED thread
    <3>1. thread' = [thread EXCEPT ![c] = "none"]
      BY <1>2, <2>2 DEF LoopTyped
    <3>2. PICK s \in {"done", "cancelled"} : call' = [call EXCEPT ![c] = Answered(s)]
      BY <2>2
    <3> QED BY <2>1, <3>1, <3>2
  <2>3. CASE /\ call' = [call EXCEPT ![c] = Answered("running")] /\ MayRun(o, c)
             /\ thread' = [thread EXCEPT ![c] = "working"]
    BY <2>1, <2>3
  <2> QED BY <2>2, <2>3 DEF SerialNext
<1>4. /\ Local(o) /\ NotYet(o)' /\ InsideOK(o)' /\ OpenOK(o)'
      /\ own'[o].pc = own[o].pc /\ own'[o].unsure = own[o].unsure
      /\ c \in CallsIn(Batch(o)) /\ c \in CallsOf(o) /\ call[c].status = "queued" /\ thread[c] = "none"
      /\ call'[c] = r /\ thread'[c] = th
      /\ \A d \in Calls \ {c} : call'[d] = call[d] /\ thread'[d] = thread[d]
  <2>1. r.status # "queued" /\ th \in {"none", "working"} \cup OnPermit \cup Results
    BY <1>3
  <2>2. Takes(o, c, r, th)
    BY <1>1, <1>3, <2>1 DEF Takes
  <2>3. Took(o, c, r, th)
    BY <2>2, NextCall
  <2> QED BY <2>3 DEF Took
<1>5. CallsOf(o) \subseteq Calls /\ \A d \in CallsOf(o) : call[d].status # "running"
  BY <1>1, InsideFacts
<1> HIDE DEF c
<1>6. ThreadsOK(o)' /\ SerialOK(o)' /\ GateOK(o)'
  BY <1>1, <1>3, <1>4, <1>5 DEF LoopOK, ThreadsOK, SerialOK, GateOK, Runs, OnPermit, Results, Final, MayRun
<1>7. PermitsAlone(o)
  <2>1. \A d \in CallsOf(o) : Runs(d)' = Runs(d)
    BY <1>3, <1>4, <1>5 DEF Runs, OnPermit
  <2> QED BY <1>1, <1>4, <2>1 DEF PermitsAlone
<1>ans. AnswersKept(o)
  BY <1>4, <1>5 DEF AnswersKept, Final
<1> QED BY <1>4, <1>6, <1>7, <1>ans DEF Keeps, LoopOK

LEMMA RaiseStep ==
  ASSUME LoopTyped, NEW o \in Owners, LoopOK(o), Raise(o)
  PROVE  Keeps(o) /\ PermitsAlone(o)
<1> DEFINE h == Head(own[o].todo)
<1>1. /\ own[o].pc \in {"dispatch", "serial"} /\ own[o].pc \in InBatch /\ own[o].todo # <<>>
      /\ own[o].pc = "serial" => Active(o) = {}
      /\ Goto(o, "leaving") /\ UNCHANGED <<slots, refs, thread>>
      /\ call' = [c \in Calls |-> CASE c \in Active(o) -> [call[c] EXCEPT !.token = TRUE]
                                    [] c = h -> Answered("running")
                                    [] OTHER -> call[c]]
  BY DEF Raise, MayStart, At, InBatch
<1>2. /\ h \in CallsIn(own[o].todo) /\ h \in CallsIn(Batch(o)) /\ h \in CallsOf(o)
      /\ thread[h] = "none" /\ call[h].status = "queued" /\ h \notin Active(o)
  <2>1. own[o].todo \in Seq(Calls) /\ \A i, j \in DOMAIN own[o].todo : own[o].todo[i] = own[o].todo[j] => i = j
    BY <1>1 DEF LoopTyped, Loop, LoopOK, InsideOK
  <2>2. h \in CallsIn(own[o].todo)
    BY <1>1, <2>1, HeadAndTail
  <2> QED BY <1>1, <2>2, InsideFacts DEF LoopOK, InsideOK, Active
<1>3. CallsOf(o) \subseteq Calls /\ CallsIn(Batch(o)) \subseteq CallsOf(o) /\ Active(o) \subseteq CallsIn(Batch(o))
      /\ Active(o) = {c \in CallsOf(o) : call[c].status = "running"}
  BY <1>1, InsideFacts DEF Active
<1> HIDE DEF h
<1>4. \A c \in Calls : /\ call'[c] \in CallRow
                       /\ c \notin CallsIn(Batch(o)) => call'[c] = call[c]
                       /\ c # h => call'[c].status = call[c].status
  <2> SUFFICES ASSUME NEW c \in Calls
               PROVE  /\ call'[c] \in CallRow
                      /\ c \notin CallsIn(Batch(o)) => call'[c] = call[c]
                      /\ c # h => call'[c].status = call[c].status
    OBVIOUS
  <2>1. /\ call[c] \in CallRow /\ Answered("running") \in CallRow
        /\ [call[c] EXCEPT !.token = TRUE] \in CallRow /\ [call[c] EXCEPT !.token = TRUE].status = call[c].status
    BY Rows DEF LoopTyped
  <2>2. call'[c] = CASE c \in Active(o) -> [call[c] EXCEPT !.token = TRUE]
                     [] c = h -> Answered("running")
                     [] OTHER -> call[c]
    BY <1>1
  <2>3. \/ c \in Active(o) /\ call'[c] = [call[c] EXCEPT !.token = TRUE]
        \/ c = h /\ call'[c] = Answered("running")
        \/ call'[c] = call[c]
    BY <1>2, <2>2
  <2> QED BY <1>2, <1>3, <2>1, <2>3
<1>5. call' \in [Calls -> CallRow]
  BY <1>1, <1>4
<1>6. /\ own' \in [Owners -> Loop] /\ \A q \in Owners \ {o} : own'[q] = own[q]
      /\ own'[o].turn = own[o].turn /\ own'[o].todo = own[o].todo /\ own'[o].unsure = own[o].unsure
      /\ own'[o].pc = "leaving"
  BY <1>1, GotoLoop, GotoPc DEF LoopTyped
<1>7. Local(o)
  BY <1>1, <1>3, <1>4, <1>5, <1>6 DEF Local, LoopTyped
<1>8. NotYet(o)'
  <2>1. own[o].pc \notin {"new", "waiting"} /\ own'[o].pc \notin {"new", "waiting", "turn"} /\ own'[o].turn = own[o].turn
    BY <1>1, <1>6
  <2>2. \A c \in CallsOf(o) : c \notin CallsIn(Batch(o)) => Quiet(c)' = Quiet(c)
    BY <1>1, <1>3, <1>4 DEF Quiet
  <2>3. own[o].turn + 1 \in DOMAIN Script[o]
    BY <1>1, InsideFacts
  <2> QED BY <2>1, <2>2, <2>3, LaterStay DEF LoopOK
<1>9. InsideOK(o)' /\ OpenOK(o)' /\ SerialOK(o)'
  BY <1>6 DEF InsideOK, OpenOK, SerialOK, InBatch
<1>10. ThreadsOK(o)' /\ GateOK(o)'
  BY <1>1, <1>2, <1>3, <1>4, <1>6 DEF LoopOK, ThreadsOK, GateOK, Runs, OnPermit, Results
<1>11. PermitsAlone(o)
  BY <1>1, <1>6 DEF PermitsAlone, Runs
<1>ans. AnswersKept(o)
  BY <1>2, <1>3, <1>4 DEF AnswersKept, Final
<1> QED BY <1>7, <1>8, <1>9, <1>10, <1>11, <1>ans DEF Keeps, LoopOK

LEMMA CollectStep ==
  ASSUME LoopTyped, NEW o \in Owners, LoopOK(o), Collect(o)
  PROVE  Keeps(o) /\ PermitsAlone(o)
<1> DEFINE u == own[o]
           back == Back(o)
           rest == Active(o) \ back
           queued == CallsIn(u.todo)
<1>1. u \in Loop /\ u.pc = "dispatch" /\ u.pc \in InBatch /\ UNCHANGED <<slots, refs>>
  BY DEF Collect, LoopTyped, At, InBatch
<1>2. PICK late \in SUBSET rest, fresh \in SUBSET rest :
        LET lost == u.lost + Cardinality(late)
            full == late # {} /\ lost >= Width(o)
            left == IF u.stop = "over" THEN rest ELSE late
        IN  /\ call' = [c \in Calls |->
                  CASE c \in back -> Answered(Verdict(o, c))
                    [] c \in left -> Abandoned(GivenUp)
                    [] c \in fresh \ left -> [call[c] EXCEPT !.timeout = TRUE, !.token = TRUE]
                    [] full /\ c \in queued -> Answered("cancelled")
                    [] OTHER -> call[c]]
            /\ own' = [own EXCEPT ![o] = [@ EXCEPT
                  !.pc = "top", !.lost = lost, !.todo = IF full THEN <<>> ELSE u.todo,
                  !.asked = u.asked \/ \E c \in back :
                                    Verdict(o, c) = "done" /\ ~call[c].timeout /\ thread[c] = "ask",
                  !.unsure = u.unsure \/ \E c \in back \cup left : call'[c].status = "uncertain"]]
            /\ thread' = [c \in Calls |-> IF c \in back THEN "none" ELSE thread[c]]
  <2>1. PICK fresh \in SUBSET {c \in rest \cap Timed : ~call[c].timeout}, late \in SUBSET {c \in rest : call[c].timeout} :
            LET lost == u.lost + Cardinality(late)
                full == late # {} /\ lost >= Width(o)
                left == IF u.stop = "over" THEN rest ELSE late
            IN  /\ call' = [c \in Calls |->
                      CASE c \in back -> Answered(Verdict(o, c))
                        [] c \in left -> Abandoned(GivenUp)
                        [] c \in fresh \ left -> [call[c] EXCEPT !.timeout = TRUE, !.token = TRUE]
                        [] full /\ c \in queued -> Answered("cancelled")
                        [] OTHER -> call[c]]
                /\ own' = [own EXCEPT ![o] = [@ EXCEPT
                      !.pc = "top", !.lost = lost, !.todo = IF full THEN <<>> ELSE u.todo,
                      !.asked = u.asked \/ \E c \in back :
                                        Verdict(o, c) = "done" /\ ~call[c].timeout /\ thread[c] = "ask",
                      !.unsure = u.unsure \/ \E c \in back \cup left : call'[c].status = "uncertain"]]
                /\ thread' = [c \in Calls |-> IF c \in back THEN "none" ELSE thread[c]]
    BY Zenon DEF Collect
  <2>2. late \in SUBSET rest /\ fresh \in SUBSET rest
    OBVIOUS
  <2> HIDE DEF back, rest, queued, u
  <2> QED BY <2>1, <2>2, Zenon
<1> DEFINE lost == u.lost + Cardinality(late)
           full == late # {} /\ lost >= Width(o)
           left == IF u.stop = "over" THEN rest ELSE late
           todo == IF full THEN <<>> ELSE u.todo
           asked == u.asked \/ \E c \in back : Verdict(o, c) = "done" /\ ~call[c].timeout /\ thread[c] = "ask"
           unsure == u.unsure \/ \E c \in back \cup left : call'[c].status = "uncertain"
           t == [u EXCEPT !.pc = "top", !.lost = lost, !.todo = todo, !.asked = asked, !.unsure = unsure]
<1>3. /\ call' = [c \in Calls |->
                  CASE c \in back -> Answered(Verdict(o, c))
                    [] c \in left -> Abandoned(GivenUp)
                    [] c \in fresh \ left -> [call[c] EXCEPT !.timeout = TRUE, !.token = TRUE]
                    [] full /\ c \in queued -> Answered("cancelled")
                    [] OTHER -> call[c]]
      /\ own' = [own EXCEPT ![o] = t]
      /\ thread' = [c \in Calls |-> IF c \in back THEN "none" ELSE thread[c]]
  BY <1>2
<1>4. /\ CallsIn(Batch(o)) \subseteq CallsOf(o) /\ CallsOf(o) \subseteq Calls /\ queued \subseteq CallsIn(Batch(o))
      /\ Active(o) \subseteq CallsIn(Batch(o)) /\ Active(o) = {c \in CallsOf(o) : call[c].status = "running"}
      /\ \A c \in queued : call[c].status = "queued" /\ thread[c] = "none"
      /\ \A c \in CallsOf(o) : call[c].status = "queued" => c \in queued
      /\ \A i, j \in DOMAIN u.todo : u.todo[i] = u.todo[j] => i = j
  BY <1>1, InsideFacts DEF LoopOK, InsideOK, Active
<1>5. back = {c \in Active(o) : thread[c] \in Results} /\ left \in {rest, late} /\ left \subseteq rest
  BY <1>2 DEF Back
<1>6. full \in BOOLEAN /\ asked \in BOOLEAN /\ unsure \in BOOLEAN
  BY <1>1 DEF Loop
<1>7. lost \in Nat
  <2>1. IsFiniteSet(late)
    BY <1>2, <1>4, ScriptFacts, FS_Subset
  <2>2. Cardinality(late) \in Nat /\ u.lost \in Nat
    BY <1>1, <2>1, FS_CardinalityType DEF Loop
  <2> QED BY <2>2
<1>8. /\ todo \in Seq(Calls) /\ \A i, j \in DOMAIN todo : todo[i] = todo[j] => i = j
      /\ full => CallsIn(todo) = {}
      /\ ~full => CallsIn(todo) = queued
  BY <1>1, <1>4, <1>6 DEF Loop, CallsIn
<1>a. (u.unsure => unsure) /\ \A c \in back \cup left : call'[c].status = "uncertain" => unsure
  BY DEF Loop
<1> HIDE DEF lost, full, left, todo, asked, unsure
<1>9. \A c \in Calls : /\ call'[c] \in CallRow
                       /\ c \notin CallsIn(Batch(o)) => call'[c] = call[c]
                       /\ c \in back => call'[c].status \in Final
                       /\ c \in left => call'[c].status = "uncertain"
                       /\ c \in queued /\ full => call'[c].status \in {"cancelled"}
                       /\ c \notin back \cup left /\ ~(c \in queued /\ full) => call'[c].status = call[c].status
  <2> SUFFICES ASSUME NEW c \in Calls
               PROVE  /\ call'[c] \in CallRow
                      /\ c \notin CallsIn(Batch(o)) => call'[c] = call[c]
                      /\ c \in back => call'[c].status \in Final
                      /\ c \in left => call'[c].status = "uncertain"
                      /\ c \in queued /\ full => call'[c].status \in {"cancelled"}
                      /\ c \notin back \cup left /\ ~(c \in queued /\ full) => call'[c].status = call[c].status
    OBVIOUS
  <2>1. /\ call[c] \in CallRow /\ call[c].timeout \in BOOLEAN /\ call[c].token \in BOOLEAN
        /\ Abandoned(GivenUp) \in CallRow /\ Abandoned(GivenUp).status = "uncertain"
        /\ Answered("cancelled") \in CallRow /\ Answered("cancelled").status = "cancelled"
    <3>1. call[c] \in CallRow
      BY DEF LoopTyped
    <3>2. call[c].timeout \in BOOLEAN /\ call[c].token \in BOOLEAN
      BY <3>1 DEF CallRow
    <3> QED BY <3>1, <3>2, Rows DEF Final, GivenUp
  <2>2. /\ [call[c] EXCEPT !.timeout = TRUE, !.token = TRUE] \in CallRow
        /\ [call[c] EXCEPT !.timeout = TRUE, !.token = TRUE].status = call[c].status
    BY <2>1, Rows
  <2>3. Verdict(o, c) \in Final
    BY <2>1 DEF Verdict, Final
  <2>4. Answered(Verdict(o, c)) \in CallRow /\ Answered(Verdict(o, c)).status \in Final
    BY <2>3, Rows
  <2>5. call'[c] = CASE c \in back -> Answered(Verdict(o, c))
                    [] c \in left -> Abandoned(GivenUp)
                    [] c \in fresh \ left -> [call[c] EXCEPT !.timeout = TRUE, !.token = TRUE]
                    [] full /\ c \in queued -> Answered("cancelled")
                    [] OTHER -> call[c]
    BY <1>3
  <2>6. /\ c \in back => c \in CallsIn(Batch(o)) /\ c \notin queued /\ c \notin left /\ c \notin fresh
        /\ c \in left => c \in CallsIn(Batch(o)) /\ c \notin queued /\ c \notin back
        /\ c \in fresh => c \in CallsIn(Batch(o)) /\ c \notin queued /\ c \notin back
        /\ c \in queued => c \in CallsIn(Batch(o))
    BY <1>2, <1>4, <1>5
  <2> HIDE DEF back, rest, queued, u
  <2>7. CASE c \in back
    <3>1. call'[c] = Answered(Verdict(o, c))
      BY <2>5, <2>6, <2>7
    <3> QED BY <2>4, <2>6, <2>7, <3>1
  <2>8. CASE c \in left
    <3>1. call'[c] = Abandoned(GivenUp)
      BY <2>5, <2>6, <2>8
    <3> QED BY <2>1, <2>6, <2>8, <3>1 DEF Final
  <2>9. CASE c \in fresh \ left
    <3>1. call'[c] = [call[c] EXCEPT !.timeout = TRUE, !.token = TRUE]
      BY <2>5, <2>6, <2>9
    <3> QED BY <2>2, <2>6, <2>9, <3>1
  <2>10. CASE full /\ c \in queued
    <3>1. call'[c] = Answered("cancelled")
      BY <2>5, <2>6, <2>10
    <3> QED BY <2>1, <2>6, <2>10, <3>1
  <2>11. CASE c \notin back /\ c \notin left /\ c \notin fresh \ left /\ ~(full /\ c \in queued)
    <3>1. call'[c] = call[c]
      BY <2>5, <2>11
    <3> QED BY <2>1, <2>11, <3>1
  <2> QED BY <2>7, <2>8, <2>9, <2>10, <2>11
<1>10. /\ call' \in [Calls -> CallRow]
       /\ thread' \in [Calls -> {"none", "working"} \cup OnPermit \cup Results]
       /\ \A c \in Calls : thread'[c] = IF c \in back THEN "none" ELSE thread[c]
  BY <1>3, <1>9 DEF LoopTyped
<1> HIDE DEF back, rest, queued, u
<1>11. t \in Loop /\ t.pc = "top" /\ t.turn = u.turn /\ t.todo = todo /\ t.unsure = unsure
  BY <1>1, <1>6, <1>7, <1>8 DEF Loop, InBatch
<1> HIDE DEF t
<1>12. Local(o) /\ own'[o] = t /\ NotYet(o)' /\ InsideOK(o)' /\ OpenOK(o)'
  <2>1. \A c \in Calls \ CallsIn(Batch(o)) : call'[c] = call[c] /\ thread'[c] = thread[c]
    BY <1>4, <1>5, <1>9, <1>10
  <2>2. \A c \in CallsIn(t.todo) : call'[c].status = "queued" /\ thread'[c] = "none"
    BY <1>4, <1>5, <1>8, <1>9, <1>10, <1>11 DEF rest
  <2>3. \A c \in CallsIn(Batch(o)) : call'[c].status = "queued" => c \in CallsIn(t.todo)
    BY <1>4, <1>6, <1>8, <1>9, <1>11 DEF Final
  <2>4. /\ CallsIn(t.todo) \subseteq CallsIn(Batch(o)) /\ \A i, j \in DOMAIN t.todo : t.todo[i] = t.todo[j] => i = j
        /\ t.pc \in InBatch /\ (t.pc = "serial" <=> own[o].pc = "serial") /\ t.turn = own[o].turn /\ own[o].pc \in InBatch
    BY <1>1, <1>4, <1>6, <1>8, <1>11 DEF InBatch, u
  <2> QED BY <1>3, <1>10, <1>11, <2>1, <2>2, <2>3, <2>4, InsideStep
<1>13. ThreadsOK(o)' /\ SerialOK(o)' /\ GateOK(o)'
  <2>1. own'[o].pc = "top" /\ own'[o].unsure = unsure
    BY <1>11, <1>12
  <2>2. ASSUME NEW c \in CallsOf(o)
        PROVE  \/ c \in back /\ thread'[c] = "none" /\ call'[c].status \in Final
               \/ c \in left /\ call[c].status = "running" /\ thread[c] \notin Results /\ thread'[c] = thread[c] /\ call'[c].status = "uncertain" /\ unsure
               \/ thread[c] = "none" /\ thread'[c] = "none" /\ call'[c].status = "cancelled"
               \/ thread[c] = thread'[c] /\ call'[c].status = call[c].status /\ (call[c].status = "running" => thread[c] \notin Results)
    BY <1>4, <1>5, <1>9, <1>10, <1>a DEF rest
  <2>3. ThreadsOK(o)'
    BY <1>1, <1>4, <2>1, <2>2 DEF LoopOK, ThreadsOK, Runs, OnPermit, Results, Final, u
  <2>4. GateOK(o)'
    BY <1>1, <1>4, <1>a, <2>1, <2>2 DEF LoopOK, ThreadsOK, GateOK, Runs, OnPermit, Results, Final, u
  <2> QED BY <2>1, <2>3, <2>4 DEF SerialOK
<1>14. PermitsAlone(o)
  <2>1. \A c \in CallsOf(o) : Runs(c)' = Runs(c)
    BY <1>4, <1>5, <1>10 DEF Runs, OnPermit, Results
  <2> QED BY <1>1, <1>11, <1>12, <2>1 DEF PermitsAlone, InBatch, u
<1>ans. AnswersKept(o)
  BY <1>4, <1>5, <1>9 DEF AnswersKept, Final, rest
<1> QED BY <1>12, <1>13, <1>14, <1>ans DEF Keeps, LoopOK

LEMMA SerialEndStep ==
  ASSUME LoopTyped, NEW o \in Owners, LoopOK(o), SerialEnd(o) \/ SerialDetach(o)
  PROVE  Keeps(o) /\ PermitsAlone(o)
<1>1. own[o].pc = "serial" /\ own[o].pc \in InBatch /\ UNCHANGED <<slots, refs>> /\ own[o] \in Loop
  BY DEF SerialEnd, SerialDetach, At, InBatch, LoopTyped
<1>2. /\ CallsOf(o) \subseteq Calls /\ CallsIn(Batch(o)) \subseteq CallsOf(o)
      /\ Active(o) = {c \in CallsOf(o) : call[c].status = "running"} /\ Active(o) \subseteq CallsIn(Batch(o))
      /\ \A c \in CallsIn(Batch(o)) : c \notin Parallel
  BY <1>1, InsideFacts DEF Active
<1>3. PICK c \in Active(o), r \in CallRow, th \in {"none", "working"} \cup OnPermit \cup Results, asked \in BOOLEAN, unsure \in BOOLEAN :
        /\ th = "none" \/ th = thread[c]
        /\ call' = [call EXCEPT ![c] = r] /\ r.status \in Final
        /\ thread' = [thread EXCEPT ![c] = th]
        /\ own' = [own EXCEPT ![o] = [own[o] EXCEPT !.asked = asked, !.unsure = unsure]]
        /\ own[o].unsure => unsure
        /\ c \in Effects /\ th = "working" => unsure
  <2>1. /\ \A s \in Final : /\ Answered(s) \in CallRow /\ Answered(s).status \in Final
                            /\ Abandoned(s) \in CallRow /\ Abandoned(s).status \in Final
        /\ "done" \in Final /\ "uncertain" \in Final
    BY Rows DEF Final
  <2>2. own[o].asked \in BOOLEAN /\ own[o].unsure \in BOOLEAN
    BY <1>1 DEF Loop
  <2>3. CASE SerialEnd(o)
    <3>1. PICK c \in Active(o), result \in {"done", "ask", "unclean"} :
            /\ thread' = [thread EXCEPT ![c] = "none"]
            /\ call' = [call EXCEPT ![c] = Answered(IF result = "unclean" THEN "uncertain" ELSE "done")]
            /\ own' = [own EXCEPT ![o].asked = @ \/ result = "ask", ![o].unsure = @ \/ result = "unclean"]
      BY <2>3 DEF SerialEnd
    <3> DEFINE r == Answered(IF result = "unclean" THEN "uncertain" ELSE "done")
               asked == own[o].asked \/ result = "ask"
               unsure == own[o].unsure \/ result = "unclean"
    <3>2. r \in CallRow /\ r.status \in Final
      BY <2>1
    <3>3. own' = [own EXCEPT ![o] = [own[o] EXCEPT !.asked = asked, !.unsure = unsure]]
      BY <1>1, <3>1 DEF LoopTyped
    <3>4. asked \in BOOLEAN /\ unsure \in BOOLEAN /\ (own[o].unsure => unsure)
      BY <2>2
    <3>5. call' = [call EXCEPT ![c] = r] /\ thread' = [thread EXCEPT ![c] = "none"]
      BY <3>1
    <3> HIDE DEF r, asked, unsure
    <3>6. "none" \in {"none", "working"} \cup OnPermit \cup Results
      OBVIOUS
    <3> USE <3>2, <3>4
    <3> WITNESS c \in Active(o), r \in CallRow, "none" \in {"none", "working"} \cup OnPermit \cup Results,
                asked \in BOOLEAN, unsure \in BOOLEAN
    <3> QED BY <3>2, <3>3, <3>4, <3>5
  <2>4. CASE SerialDetach(o)
    <3>1. PICK c \in Active(o) :
            /\ thread[c] \in {"none", "working"} \cup OnPermit \cup Results
            /\ call' = [call EXCEPT ![c] = Abandoned("done")]
            /\ own' = [own EXCEPT ![o].unsure = @ \/ c \in Effects] /\ UNCHANGED thread
      BY <1>2, <2>4 DEF SerialDetach, LoopTyped
    <3> DEFINE unsure == own[o].unsure \/ c \in Effects
               asked == own[o].asked
    <3>2. thread' = [thread EXCEPT ![c] = thread[c]]
      BY <3>1 DEF LoopTyped
    <3>3. own' = [own EXCEPT ![o] = [own[o] EXCEPT !.asked = asked, !.unsure = unsure]]
      BY <1>1, <3>1 DEF LoopTyped, Loop
    <3>4. asked \in BOOLEAN /\ unsure \in BOOLEAN /\ (own[o].unsure => unsure) /\ (c \in Effects => unsure)
      BY <2>2
    <3> HIDE DEF asked, unsure
    <3> QED BY <2>1, <3>1, <3>2, <3>3, <3>4
  <2> QED BY <2>3, <2>4
<1> DEFINE u == own[o]
           t == [u EXCEPT !.asked = asked, !.unsure = unsure]
<1>4. own' = [own EXCEPT ![o] = t] /\ u \in Loop
  BY <1>1, <1>3
<1> HIDE DEF u
<1>5. t \in Loop /\ t.pc = u.pc /\ t.turn = u.turn /\ t.todo = u.todo /\ t.unsure = unsure
  BY <1>3, <1>4 DEF Loop
<1> HIDE DEF t
<1>6. c \in Calls /\ c \in CallsOf(o) /\ c \in CallsIn(Batch(o)) /\ call[c].status = "running" /\ ~Runs(c)
  BY <1>2, <1>3 DEF LoopOK, ThreadsOK
<1>7. /\ call' \in [Calls -> CallRow] /\ call'[c] = r /\ thread'[c] = th
      /\ thread' \in [Calls -> {"none", "working"} \cup OnPermit \cup Results]
      /\ \A d \in Calls \ {c} : call'[d] = call[d] /\ thread'[d] = thread[d]
  BY <1>3, <1>6 DEF LoopTyped
<1>8. /\ \A i, j \in DOMAIN u.todo : u.todo[i] = u.todo[j] => i = j
      /\ CallsIn(u.todo) \subseteq CallsIn(Batch(o)) /\ CallsIn(Batch(o)) \subseteq Calls
      /\ \A d \in CallsIn(u.todo) : call[d].status = "queued" /\ thread[d] = "none"
      /\ \A d \in CallsOf(o) : call[d].status = "queued" => d \in CallsIn(u.todo)
  BY <1>1, InsideFacts DEF LoopOK, InsideOK, u
<1>9. Local(o) /\ own'[o] = t /\ NotYet(o)' /\ InsideOK(o)' /\ OpenOK(o)'
  <2>1. \A d \in Calls \ CallsIn(Batch(o)) : call'[d] = call[d] /\ thread'[d] = thread[d]
    BY <1>6, <1>7
  <2>2. \A d \in CallsIn(t.todo) : call'[d].status = "queued" /\ thread'[d] = "none"
    BY <1>5, <1>6, <1>7, <1>8
  <2>3. \A d \in CallsIn(Batch(o)) : call'[d].status = "queued" => d \in CallsIn(t.todo)
    BY <1>2, <1>3, <1>5, <1>7, <1>8 DEF Final
  <2>4. /\ CallsIn(t.todo) \subseteq CallsIn(Batch(o)) /\ \A i, j \in DOMAIN t.todo : t.todo[i] = t.todo[j] => i = j
        /\ t.pc \in InBatch /\ (t.pc = "serial" <=> own[o].pc = "serial") /\ t.turn = own[o].turn
    BY <1>1, <1>5, <1>8 DEF u
  <2> QED BY <1>1, <1>4, <1>5, <1>7, <2>1, <2>2, <2>3, <2>4, InsideStep
<1>10. own'[o].pc = "serial" /\ own'[o].unsure = unsure
  BY <1>1, <1>5, <1>9 DEF u
<1>11. \A d \in CallsOf(o) : call'[d].status # "running" /\ Runs(d)' = Runs(d)
  <2>1. \A d \in CallsOf(o) : call[d].status = "running" => d = c
    BY <1>1, <1>6 DEF LoopOK, SerialOK
  <2>2. \A d \in CallsOf(o) : call'[d].status # "running"
    BY <1>2, <1>3, <1>7, <2>1 DEF Final
  <2>3. \A d \in CallsOf(o) : Runs(d)' = Runs(d)
    <3>1. ~(th \in OnPermit)
      BY <1>3, <1>6 DEF Runs, OnPermit
    <3> QED BY <1>2, <1>6, <1>7, <3>1 DEF Runs
  <2> QED BY <2>2, <2>3
<1>12. ThreadsOK(o)' /\ SerialOK(o)' /\ GateOK(o)'
  <2>a. SerialOK(o)'
    BY <1>11 DEF SerialOK
  <2>b. ThreadsOK(o)'
    BY <1>2, <1>3, <1>6, <1>7, <1>11 DEF LoopOK, ThreadsOK, Runs, OnPermit, Results
  <2>c. GateOK(o)'
    BY <1>1, <1>2, <1>3, <1>6, <1>7, <1>10, <1>11 DEF LoopOK, GateOK, Runs, OnPermit
  <2> QED BY <2>a, <2>b, <2>c
<1>13. PermitsAlone(o)
  BY <1>1, <1>10, <1>11 DEF PermitsAlone
<1>ans. AnswersKept(o)
  BY <1>2, <1>6, <1>7 DEF AnswersKept, Final
<1> QED BY <1>9, <1>12, <1>13, <1>ans DEF Keeps, LoopOK

LEMMA LeaveStep ==
  ASSUME PermitsTyped, PermitsBalanced, LoopTyped, NEW o \in Owners, LoopOK(o), Leave(o)
  PROVE  Keeps(o) /\ PermitsBalanced' /\ PermitsTyped'
<1> DEFINE u == own[o]
           t == [u EXCEPT !.pc = "ended", !.todo = <<>>, !.stop = "no", !.lost = 0, !.asked = FALSE, !.unsure = FALSE]
<1>1. /\ u \in Loop /\ u.pc = "leaving" /\ own' = [own EXCEPT ![o] = t]
      /\ call' = Closed(o)
      /\ thread' = [c \in Calls |-> IF c \in CallsOf(o) /\ thread[c] \in Results THEN "none" ELSE thread[c]]
      /\ IF o = Main THEN UNCHANGED <<slots, refs>> ELSE GiveBack(o)
  BY DEF Leave, LetGo, At, LoopTyped
<1> HIDE DEF u
<1>2. t \in Loop /\ t.pc = "ended" /\ t.turn = u.turn
  <2>1. <<>> \in Seq(Calls)
    OBVIOUS
  <2> QED BY <1>1, <2>1 DEF Loop
<1> HIDE DEF t
<1>3. /\ own' \in [Owners -> Loop] /\ \A q \in Owners \ {o} : own'[q] = own[q]
      /\ own'[o].pc = "ended" /\ own'[o].turn = own[o].turn
  BY <1>1, <1>2, SetLoop DEF LoopTyped, u
<1>4. \A c \in Calls : /\ call'[c] \in CallRow
                       /\ c \notin CallsOf(o) => call'[c] = call[c]
                       /\ c \in CallsOf(o) =>
                            \/ call[c].status \in {"queued", "running"} /\ call'[c].status \in Final
                               /\ (call[c].status = "running" => call'[c].status = "uncertain")
                            \/ call[c].status \notin {"queued", "running"} /\ call'[c].status = call[c].status
  <2> SUFFICES ASSUME NEW c \in Calls
               PROVE  /\ call'[c] \in CallRow
                      /\ c \notin CallsOf(o) => call'[c] = call[c]
                      /\ c \in CallsOf(o) =>
                           \/ call[c].status \in {"queued", "running"} /\ call'[c].status \in Final
                              /\ (call[c].status = "running" => call'[c].status = "uncertain")
                           \/ call[c].status \notin {"queued", "running"} /\ call'[c].status = call[c].status
    OBVIOUS
  <2>1. /\ call[c] \in CallRow
        /\ Answered("cancelled") \in CallRow /\ Answered("cancelled").status = "cancelled"
        /\ Abandoned("uncertain") \in CallRow /\ Abandoned("uncertain").status = "uncertain"
    BY Rows DEF LoopTyped, Final
  <2>2. call'[c] = CASE c \in CallsOf(o) /\ call[c].status = "queued" -> Answered("cancelled")
                     [] c \in CallsOf(o) /\ call[c].status = "running" -> Abandoned("uncertain")
                     [] OTHER -> call[c]
    BY <1>1 DEF Closed
  <2>3. CASE c \in CallsOf(o) /\ call[c].status = "queued"
    <3>1. call'[c] = Answered("cancelled")
      BY <2>2, <2>3
    <3> QED BY <2>1, <2>3, <3>1 DEF Final
  <2>4. CASE c \in CallsOf(o) /\ call[c].status = "running"
    <3>1. call'[c] = Abandoned("uncertain")
      BY <2>2, <2>4
    <3> QED BY <2>1, <2>4, <3>1 DEF Final
  <2>5. CASE ~(c \in CallsOf(o) /\ call[c].status \in {"queued", "running"})
    <3>1. call'[c] = call[c]
      BY <2>2, <2>5
    <3> QED BY <2>1, <2>5, <3>1
  <2> QED BY <2>3, <2>4, <2>5
<1>5. /\ call' \in [Calls -> CallRow]
      /\ thread' \in [Calls -> {"none", "working"} \cup OnPermit \cup Results]
      /\ \A c \in Calls : thread'[c] = IF c \in CallsOf(o) /\ thread[c] \in Results THEN "none" ELSE thread[c]
  BY <1>1, <1>4 DEF LoopTyped, Closed
<1>6. Local(o) /\ CallsOf(o) \subseteq Calls
  BY <1>3, <1>4, <1>5, ScriptFacts DEF Local
<1>7. NotYet(o)'
  <2>1. \A c \in CallsOf(o) : Quiet(c) => Quiet(c)'
    BY <1>4, <1>5, <1>6 DEF Quiet, Results
  <2> QED BY <1>1, <1>3, <2>1, LaterStay DEF LoopOK, u
<1>8. InsideOK(o)' /\ SerialOK(o)' /\ GateOK(o)'
  BY <1>3 DEF InsideOK, SerialOK, GateOK, InBatch
<1>9. OpenOK(o)' /\ ThreadsOK(o)'
  BY <1>4, <1>5, <1>6 DEF LoopOK, OpenOK, ThreadsOK, Runs, OnPermit, Results, Final
<1>10. \A c \in Calls : Runs(c)' = Runs(c)
  BY <1>5 DEF Runs, OnPermit, Results
<1>11. HeldByMain' = HeldByMain /\ \A p \in Children : HeldBy(p)' = HeldBy(p)
  BY <1>10, ParallelOwned DEF HeldByMain, HeldBy
<1>12. \A p \in Children \ {o} : Holds(p)' = Holds(p)
  BY <1>3, ScriptFacts DEF Holds
<1>13. PermitsBalanced' /\ PermitsTyped'
  <2>1. CASE o = Main
    <3>1. UNCHANGED <<slots, refs>> /\ \A p \in Children : Holds(p)' = Holds(p)
      BY <1>1, <1>12, <2>1, ScriptFacts
    <3> QED BY <1>10, <3>1, ParallelOwned, PermitsStay DEF PermitsTyped
  <2>2. CASE o # Main
    <3>1. o \in Children
      BY <2>2 DEF Owners
    <3>2. /\ refs[o] = Cardinality(HeldBy(o)) + Holds(o) /\ refs[o] \in Nat
          /\ Cardinality(HeldBy(o)) \in Nat /\ Holds(o) = 1 /\ Holds(o)' = 0
      BY <1>1, <1>3, <3>1, Balanced, PermitSets DEF PermitsTyped, Holds, u
    <3> DEFINE n == refs[o] - 1
    <3>3. n \in Nat /\ n = Cardinality(HeldBy(o)') + Holds(o)'
      BY <1>11, <3>1, <3>2
    <3>4. refs' = [refs EXCEPT ![o] = n] /\ slots' = IF refs[o] = 1 THEN slots + 1 ELSE slots
      BY <1>1, <2>2 DEF GiveBack
    <3>5. slots' = slots + (IF refs[o] > 0 THEN 1 ELSE 0) - (IF n > 0 THEN 1 ELSE 0) /\ slots' >= 0
      BY <3>2, <3>4 DEF PermitsTyped
    <3> HIDE DEF n
    <3> QED BY <1>11, <1>12, <3>1, <3>3, <3>4, <3>5, LeaseMoves
  <2> QED BY <2>1, <2>2
<1>ans. AnswersKept(o)
  BY <1>4, <1>6 DEF AnswersKept, Final
<1> QED BY <1>6, <1>7, <1>8, <1>9, <1>13, <1>ans DEF Keeps, LoopOK

LEMMA LeaseStep ==
  ASSUME PermitsTyped, PermitsBalanced, LoopTyped, NEW o \in Owners, LoopOK(o),
         Spawn(o) \/ TakeLease(o) \/ GiveUpLease(o) \/ EndLoop(o)
  PROVE  Keeps(o) /\ PermitsBalanced' /\ PermitsTyped'
<1>1. UNCHANGED <<call, thread>>
  BY DEF Spawn, TakeLease, GiveUpLease, EndLoop
<1>2. Keeps(o)
  BY <1>1, GoOn
<1>3. CASE Spawn(o) \/ GiveUpLease(o) \/ EndLoop(o)
  <2>1. /\ UNCHANGED <<slots, refs>>
        /\ \/ own[o].pc = "new" /\ own'[o].pc = "waiting"
           \/ own[o].pc = "waiting" /\ own'[o].pc = "ended"
           \/ own[o].pc = "turn" /\ own'[o].pc = "leaving"
    BY <1>3, GotoPc DEF Spawn, GiveUpLease, EndLoop, At, LoopTyped
  <2>2. PermitsAlone(o)
    BY <1>1, <2>1 DEF PermitsAlone, Runs
  <2> QED BY <1>2, <2>2, AloneBalanced DEF Keeps
<1>4. CASE TakeLease(o)
  <2>1. own[o].pc = "waiting" /\ own'[o].pc = "turn" /\ slots > 0 /\ slots' = slots - 1 /\ refs' = [refs EXCEPT ![o] = 1]
    BY <1>4, GotoPc DEF TakeLease, At, LoopTyped
  <2>2. o \in Children /\ own[o].turn = 0
    BY <2>1 DEF LoopOK, NotYet, Owners
  <2>3. \A c \in CallsOf(o) : thread[c] = "none"
    <3>1. \A i \in DOMAIN Script[o] : i > own[o].turn + 1 \/ i = own[o].turn + 1
      <4>1. \A i \in DOMAIN Script[o] : i \in Nat \ {0}
        BY BatchAssumption
      <4> QED BY <2>2, <4>1
    <3> QED BY <2>1, <3>1 DEF LoopOK, NotYet, Quiet, CallsOf
  <2>4. HeldByMain' = HeldByMain /\ \A p \in Children : HeldBy(p)' = HeldBy(p)
    BY <1>1 DEF HeldByMain, HeldBy, Runs
  <2>5. HeldBy(o) = {}
    BY <2>3 DEF HeldBy, Runs, OnPermit
  <2>6. Cardinality(HeldBy(o)) = 0
    BY <2>5, FS_EmptySet
  <2>7. Holds(o) = 0 /\ Holds(o)' = 1 /\ \A p \in Children \ {o} : Holds(p)' = Holds(p)
    BY <1>2, <2>1, ScriptFacts DEF Holds, Keeps, Local
  <2>8. refs[o] = 0 /\ 1 = Cardinality(HeldBy(o)') + Holds(o)'
    BY <2>2, <2>4, <2>6, <2>7, Balanced
  <2>9. slots' = slots + (IF refs[o] > 0 THEN 1 ELSE 0) - (IF 1 > 0 THEN 1 ELSE 0) /\ slots' >= 0
    BY <2>1, <2>8 DEF PermitsTyped
  <2> DEFINE n == 1
  <2>10. /\ n \in Nat /\ refs' = [refs EXCEPT ![o] = n] /\ n = Cardinality(HeldBy(o)') + Holds(o)'
         /\ slots' = slots + (IF refs[o] > 0 THEN 1 ELSE 0) - (IF n > 0 THEN 1 ELSE 0)
    BY <2>1, <2>8, <2>9
  <2> HIDE DEF n
  <2>11. PermitsBalanced' /\ PermitsTyped'
    BY <2>2, <2>4, <2>7, <2>9, <2>10, LeaseMoves
  <2> QED BY <1>2, <2>11
<1> QED BY <1>2, <1>3, <1>4

\* The thread of a call moves, and never back onto a permit.
LEMMA ThreadMoves ==
  ASSUME LoopTyped, NEW o \in Owners, LoopOK(o), UNCHANGED <<own, call>>, NEW c \in CallsOf(o), thread[c] # "none",
         NEW th \in {"none"} \cup OnPermit \cup Results, thread' = [thread EXCEPT ![c] = th],
         th \in OnPermit => Runs(c), th \in Results => c \in Parallel /\ call[c].status = "running"
  PROVE  Keeps(o)
<1>1. CallsOf(o) \subseteq Calls /\ \A i \in DOMAIN Script[o] : CallsIn(Script[o][i]) \subseteq CallsOf(o)
  BY ScriptFacts
<1>2. /\ thread' \in [Calls -> {"none", "working"} \cup OnPermit \cup Results] /\ thread'[c] = th
      /\ \A d \in Calls \ {c} : thread'[d] = thread[d]
  BY <1>1 DEF LoopTyped
<1>3. Local(o)
  BY <1>1, <1>2 DEF Local, LoopTyped
<1>4. NotYet(o)'
  <2>1. \A d \in CallsOf(o) : Quiet(d) => Quiet(d)'
    BY <1>1, <1>2 DEF Quiet
  <2> QED BY <1>1, <2>1 DEF LoopOK, NotYet
<1>5. InsideOK(o)'
  <2> SUFFICES ASSUME own[o].pc \in InBatch PROVE InsideOK(o)'
    BY DEF InsideOK
  <2>1. CallsIn(own[o].todo) \subseteq CallsOf(o) /\ Batch(o)' = Batch(o)
    BY InsideFacts DEF Batch
  <2>2. \A d \in CallsIn(own[o].todo) : thread'[d] = "none"
    BY <1>1, <1>2, <2>1 DEF LoopOK, InsideOK
  <2> QED BY <2>1, <2>2 DEF LoopOK, InsideOK
<1>6. OpenOK(o)' /\ SerialOK(o)'
  BY DEF LoopOK, OpenOK, SerialOK
<1>7. ThreadsOK(o)' /\ GateOK(o)'
  BY <1>1, <1>2 DEF LoopOK, ThreadsOK, GateOK, Runs, OnPermit, Results
<1>ans. AnswersKept(o)
  BY DEF AnswersKept
<1> QED BY <1>3, <1>4, <1>5, <1>6, <1>7, <1>ans DEF Keeps, LoopOK

LEMMA ThreadStep ==
  ASSUME PermitsTyped, PermitsBalanced, LoopTyped, NeverMade, NEW c \in Calls, \A o \in Owners : LoopOK(o),
         Enter(c) \/ Return(c) \/ DetachedEnds(c)
  PROVE  \E o \in Owners : Keeps(o) /\ PermitsBalanced' /\ PermitsTyped'
<1>1. thread[c] \in {"submitted", "entered", "working"} /\ UNCHANGED <<own, call>>
  BY DEF Enter, Return, DetachedEnds
<1>2. PICK o \in Owners : c \in CallsOf(o)
  BY <1>1 DEF NeverMade, Quiet
<1>3. \A p \in Children : Holds(p)' = Holds(p)
  BY <1>1 DEF Holds
<1>4. Runs(c) => c \in Parallel
  BY <1>2 DEF LoopOK, ThreadsOK
<1>5. CASE DetachedEnds(c)
  <2>1. thread[c] = "working" /\ thread' = [thread EXCEPT ![c] = "none"] /\ UNCHANGED <<slots, refs>>
    BY <1>5 DEF DetachedEnds
  <2>2. \A d \in Parallel : Runs(d)' = Runs(d)
    BY <2>1, ParallelOwned DEF Runs, OnPermit, LoopTyped
  <2>3. PermitsBalanced' /\ PermitsTyped'
    BY <1>3, <2>1, <2>2, PermitsStay DEF PermitsTyped
  <2>4. Keeps(o)
    BY <1>1, <1>2, <2>1, ThreadMoves DEF OnPermit, Results
  <2> QED BY <2>3, <2>4
<1>6. ASSUME Runs(c), NEW result \in Results, Returns(c, result) PROVE Keeps(o) /\ PermitsBalanced' /\ PermitsTyped'
  <2> DEFINE th == IF call[c].status = "running" THEN result ELSE "none"
  <2>1. thread' = [thread EXCEPT ![c] = th] /\ GiveBack(OwnerOf[c])
    BY <1>6 DEF Returns
  <2>2. th \in {"none"} \cup OnPermit \cup Results /\ th \notin OnPermit /\ (th \in Results => call[c].status = "running")
    BY <1>6 DEF OnPermit, Results
  <2> HIDE DEF th
  <2>3. Keeps(o)
    BY <1>1, <1>2, <1>4, <1>6, <2>1, <2>2, ThreadMoves
  <2>4. ~Runs(c)' /\ \A d \in Parallel \ {c} : Runs(d)' = Runs(d)
    BY <2>1, <2>2, ParallelOwned DEF Runs, LoopTyped
  <2>5. PermitsBalanced' /\ PermitsTyped'
    BY <1>3, <1>4, <1>6, <2>1, <2>4, ReturnPermits
  <2> QED BY <2>3, <2>5
<1>7. CASE Enter(c)
  <2>1. Runs(c) /\ "done" \in Results
    BY <1>7 DEF Enter, Runs, OnPermit, Results
  <2>2. CASE call[c].token
    BY <1>6, <1>7, <2>1, <2>2 DEF Enter
  <2>3. CASE ~call[c].token
    <3>1. thread' = [thread EXCEPT ![c] = "entered"] /\ UNCHANGED <<slots, refs>>
      BY <1>7, <2>3 DEF Enter
    <3>2. \A d \in Parallel : Runs(d)' = Runs(d)
      BY <2>1, <3>1, ParallelOwned DEF Runs, OnPermit, LoopTyped
    <3>3. PermitsBalanced' /\ PermitsTyped'
      BY <1>3, <3>1, <3>2, PermitsStay DEF PermitsTyped
    <3>4. Keeps(o)
      BY <1>1, <1>2, <2>1, <3>1, ThreadMoves DEF OnPermit, Results
    <3> QED BY <3>3, <3>4
  <2> QED BY <2>2, <2>3
<1>8. CASE Return(c)
  <2>1. Runs(c) /\ \E result \in Results : Returns(c, result)
    BY <1>8 DEF Return, Runs, OnPermit
  <2> QED BY <1>6, <2>1
<1> QED BY <1>5, <1>7, <1>8

-----------------------------------------------------------------------------
(* The invariant *)

LEMMA InitBatch == BatchInit => BatchInv
<1> SUFFICES ASSUME BatchInit PROVE BatchInv
  OBVIOUS
<1>1. /\ slots = Capacity /\ refs = [o \in Children |-> 0]
      /\ own = [o \in Owners |->
                  [pc |-> IF o = Main THEN "turn" ELSE "new", turn |-> 0, todo |-> <<>>, stop |-> "no",
                   lost |-> 0, asked |-> FALSE, unsure |-> FALSE, token |-> FALSE, late |-> FALSE]]
      /\ call = [c \in Calls |-> [status |-> "none", token |-> FALSE, timeout |-> FALSE]]
      /\ thread = [c \in Calls |-> "none"]
  BY DEF BatchInit
<1>2. BatchTypeOK
  <2>1. Capacity \in Nat /\ <<>> \in Seq(Calls)
    BY BatchAssumption
  <2>2. PermitsTyped
    BY <1>1, <2>1 DEF PermitsTyped
  <2>3. own \in [Owners -> Loop]
    BY <1>1, <2>1 DEF Loop, InBatch
  <2>4. call \in [Calls -> CallRow] /\ thread \in [Calls -> {"none", "working"} \cup OnPermit \cup Results]
    BY <1>1 DEF CallRow
  <2> QED BY <2>2, <2>3, <2>4, Typed DEF LoopTyped
<1>3. \A c \in Calls : Quiet(c) /\ ~Runs(c)
  BY <1>1 DEF Quiet, Runs, OnPermit
<1>4. \A o \in Owners : own[o].pc \in {"new", "turn"} /\ own[o].turn = 0 /\ (own[o].pc = "new" => o # Main)
  BY <1>1
<1>5. ASSUME NEW o \in Owners PROVE LoopOK(o)
  <2>1. CallsOf(o) \subseteq Calls /\ \A i \in DOMAIN Script[o] : CallsIn(Script[o][i]) \subseteq CallsOf(o)
    BY ScriptFacts
  <2>2. NotYet(o)
    BY <1>3, <1>4, <2>1 DEF NotYet
  <2>3. InsideOK(o) /\ SerialOK(o)
    BY <1>4 DEF InsideOK, SerialOK, InBatch
  <2>4. OpenOK(o) /\ ThreadsOK(o) /\ GateOK(o)
    BY <1>3, <2>1 DEF OpenOK, ThreadsOK, GateOK, Quiet, Results
  <2> QED BY <2>2, <2>3, <2>4 DEF LoopOK
<1>6. PermitsBalanced
  <2>1. HeldByMain = {} /\ Leased = {} /\ \A o \in Children : HeldBy(o) = {}
    BY <1>1, <1>3, ParallelOwned DEF HeldByMain, Leased, HeldBy
  <2>2. \A o \in Children : o \in Owners /\ own[o].pc = "new"
    BY <1>1, ScriptFacts
  <2>3. \A o \in Children : refs[o] = 0 /\ Holds(o) = 0
    BY <1>1, <2>2 DEF Holds
  <2>4. Cardinality({}) = 0 /\ slots = Capacity /\ Capacity \in Nat
    BY <1>1, FS_EmptySet, BatchAssumption
  <2> QED BY <2>1, <2>3, <2>4, Balanced
<1> QED BY <1>2, <1>3, <1>5, <1>6 DEF BatchInv, NeverMade

Stand == \A c \in Calls : call[c].status \in Final => call'[c].status = call[c].status

\* What is enough for a step.
LEMMA Enough ==
  ASSUME BatchInv, NEW o \in Owners, Keeps(o), PermitsBalanced', PermitsTyped'
  PROVE  BatchInv' /\ Stand
<1>1. \A q \in Owners : LoopOK(q)'
  BY OneLoop DEF BatchInv, Keeps
<1>2. BatchTypeOK'
  BY DEF BatchTypeOK, Keeps, Local, PermitsTyped, CallRow
<1>3. NeverMade'
  BY DEF BatchInv, NeverMade, Quiet, Keeps, Local
<1>4. Stand
  BY DEF Stand, Keeps, AnswersKept, Local
<1> QED BY <1>1, <1>2, <1>3, <1>4 DEF BatchInv, Keeps

LEMMA StepBatch == BatchInv /\ [BatchNext]_vars => BatchInv' /\ Stand
<1> SUFFICES ASSUME BatchInv, [BatchNext]_vars PROVE BatchInv' /\ Stand
  OBVIOUS
<1>1. PermitsTyped /\ LoopTyped /\ PermitsBalanced /\ NeverMade /\ \A o \in Owners : LoopOK(o)
  BY Typed DEF BatchInv
<1>2. ASSUME NEW o \in Owners, Keeps(o), PermitsAlone(o) PROVE BatchInv' /\ Stand
  <2>1. PermitsBalanced' /\ PermitsTyped'
    BY <1>1, <1>2, AloneBalanced DEF Keeps
  <2> QED BY <1>2, <2>1, Enough
<1>3. ASSUME NEW o \in Owners, Spawn(o) \/ TakeLease(o) \/ GiveUpLease(o) \/ EndLoop(o) PROVE BatchInv' /\ Stand
  BY <1>1, <1>3, LeaseStep, Enough
<1>4. ASSUME NEW o \in Owners, BeginBatch(o) PROVE BatchInv' /\ Stand
  BY <1>1, <1>2, <1>4, BeginStep
<1>5. ASSUME NEW o \in Owners, Leave(o) PROVE BatchInv' /\ Stand
  BY <1>1, <1>5, LeaveStep, Enough
<1>6. ASSUME NEW o \in Owners, BatchStep(o) PROVE BatchInv' /\ Stand
  <2>1. CASE EndBatch(o)
    BY <1>1, <1>2, <2>1, EndStep
  <2>2. CASE Top(o)
    BY <1>1, <1>2, <2>2, TopStep
  <2>3. CASE Submit(o)
    BY <1>1, <2>3, SubmitStep, Enough
  <2>4. CASE Reject(o)
    BY <1>1, <1>2, <2>4, RejectStep
  <2>5. CASE Collect(o)
    BY <1>1, <1>2, <2>5, CollectStep
  <2>6. CASE SerialNext(o)
    BY <1>1, <1>2, <2>6, SerialNextStep
  <2>7. CASE SerialDetach(o)
    BY <1>1, <1>2, <2>7, SerialEndStep
  <2> QED BY <1>6, <2>1, <2>2, <2>3, <2>4, <2>5, <2>6, <2>7 DEF BatchStep
<1>7. ASSUME NEW o \in Owners, Raise(o) PROVE BatchInv' /\ Stand
  BY <1>1, <1>2, <1>7, RaiseStep
<1>8. ASSUME NEW o \in Owners, CleanupPasses(o) \/ Cancel(o) \/ Deadline(o) PROVE BatchInv' /\ Stand
  BY <1>1, <1>2, <1>8, ClockStep
<1>9. ASSUME NEW o \in Owners, SerialEnd(o) PROVE BatchInv' /\ Stand
  BY <1>1, <1>2, <1>9, SerialEndStep
<1>10. ASSUME NEW o \in Owners, CancelCalls(o) PROVE BatchInv' /\ Stand
  BY <1>1, <1>2, <1>10, CancelCallsStep
<1>11. ASSUME NEW c \in Calls, Enter(c) \/ Return(c) \/ DetachedEnds(c) PROVE BatchInv' /\ Stand
  BY <1>1, <1>11, ThreadStep, Enough
<1>12. CASE UNCHANGED vars
  <2>1. UNCHANGED <<slots, refs, own, call, thread>>
    BY <1>12 DEF vars
  <2>2. BatchTypeOK' /\ NeverMade'
    BY <2>1 DEF BatchInv, BatchTypeOK, NeverMade, Quiet
  <2>3. ASSUME NEW o \in Owners PROVE LoopOK(o)'
    <3>1. Batch(o)' = Batch(o)
      BY <2>1 DEF Batch
    <3> QED BY <1>1, <2>1, <3>1 DEF LoopOK, NotYet, Quiet, InsideOK, OpenOK, ThreadsOK, SerialOK, GateOK, Runs
  <2>4. PermitsBalanced'
    BY <1>1, <2>1, PermitsStay DEF Runs, Holds
  <2> QED BY <2>1, <2>2, <2>3, <2>4 DEF BatchInv, Stand
<1>13. CASE BatchNext
  BY <1>3, <1>4, <1>5, <1>6, <1>7, <1>8, <1>9, <1>10, <1>11, <1>13 DEF BatchNext
<1> QED BY <1>12, <1>13

LEMMA BatchInvariant == BatchSpec => []BatchInv
  BY InitBatch, StepBatch, PTL DEF BatchSpec

-----------------------------------------------------------------------------
(* Theorems *)

\* The variables keep their types (tool_batch.py, read_permits.py): the pool never gives out more permits than it
\* has, nor takes back more than it gave.
THEOREM BatchTypeCorrect == BatchSpec => []BatchTypeOK
<1>1. BatchInv => BatchTypeOK
  BY DEF BatchInv
<1> QED BY <1>1, BatchInvariant, PTL

\* The permits of the pool add up (read_permits.py), whatever threads outlive their calls and whenever
\* a child leaves: each is in the pool, with a thread of the loop of the run, or with a child that is
\* there or whose reads still run, and a child's references count exactly those.
THEOREM PermitsAreBalanced == BatchSpec => []PermitsBalanced
<1>1. BatchInv => PermitsBalanced
  BY DEF BatchInv
<1> QED BY <1>1, BatchInvariant, PTL

\* What a model is told of its calls (tool_batch.py) is true when its turn comes: every call it asked
\* for is answered, and one whose thread still holds a permit is "uncertain".
THEOREM AnsweredCallsHaveStopped == BatchSpec => []AnsweredMeansStopped
<1>1. BatchInv => AnsweredMeansStopped
  <2> SUFFICES ASSUME BatchInv, NEW o \in Owners, NEW c \in CallsOf(o)
               PROVE  /\ own[o].pc \in {"turn", "ended"} => call[c].status \in Final \cup {"none"}
                      /\ Runs(c) => call[c].status \in {"running", "uncertain"}
    BY DEF AnsweredMeansStopped
  <2>1. LoopOK(o) /\ call[c].status \in {"none", "queued", "running"} \cup Final
    BY ScriptFacts DEF BatchInv, BatchTypeOK
  <2> QED BY <2>1 DEF LoopOK, OpenOK, ThreadsOK, InBatch
<1> QED BY <1>1, BatchInvariant, PTL

\* A call that writes the workspace runs alone (tool_executor.py, the gate on unverified cleanups):
\* no read of its loop that was given up and no earlier write of it is still at work.
THEOREM EffectsRunAlone == BatchSpec => []EffectsAlone
<1>1. BatchInv => EffectsAlone
  <2> SUFFICES ASSUME BatchInv, NEW o \in Owners, NEW w \in Effects \cap CallsOf(o),
                      thread[w] = "working", call[w].status = "running", NEW c \in CallsOf(o) \ {w}
               PROVE  ~Runs(c) /\ ~(c \in Effects /\ thread[c] = "working")
    BY DEF EffectsAlone
  <2>1. LoopOK(o) /\ own[o].unsure \in BOOLEAN
    BY DEF BatchInv, BatchTypeOK, Loop
  <2>2. own[o].pc = "serial"
    BY <2>1 DEF LoopOK, ThreadsOK
  <2>3. ~own[o].unsure /\ call[c].status # "running"
    BY <2>1, <2>2 DEF LoopOK, SerialOK
  <2> QED BY <2>1, <2>2, <2>3 DEF LoopOK, ThreadsOK, GateOK
<1> QED BY <1>1, BatchInvariant, PTL

\* A call has one answer (ToolCallBatch.finish): a result that comes after it changes nothing.
THEOREM AnswersAreFinal == BatchSpec => AnswersStand
<1>1. BatchInv /\ [BatchNext]_vars
        => [\A c \in Calls : call[c].status \in Final => call'[c].status = call[c].status]_vars
  BY StepBatch DEF Stand
<1> QED BY <1>1, BatchInvariant, PTL DEF BatchSpec, AnswersStand
=============================================================================
