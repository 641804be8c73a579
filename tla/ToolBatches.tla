---------------------------- MODULE ToolBatches ----------------------------
(***************************************************************************)
(* The tool calls of agent loops that share the read permits of a run:     *)
(* agent_runtime/tool_batch.py with tool_batch_runtime.py, read_permits.py *)
(* and the gate of tool_executor.py that stops writes.                     *)
(*                                                                         *)
(* A loop asks for one batch of calls after the other.  A batch of reads   *)
(* runs on worker threads, each under a permit; any other batch runs call  *)
(* by call on the loop's own thread.  The loop of the run takes a permit   *)
(* for each read.  A child (an exploration) holds one permit from its      *)
(* first turn on, its reads borrow that permit, and the pool gets it back  *)
(* when the last borrower is gone.  A thread that does not end in time is  *)
(* abandoned: its call is answered and the thread goes on.                 *)
(*                                                                         *)
(* Calls that succeeded, failed, timed out with their thread back or were  *)
(* rejected are one status, "done".                                        *)
(***************************************************************************)
EXTENDS Naturals, Sequences, FiniteSets

CONSTANTS
    Main,       \* the agent loop of the run
    Children,   \* the agent loops of explorations, one permit each
    Calls,      \* tool calls
    Effects,    \* calls that write the workspace
    Timed,      \* calls with a time limit
    Asking,     \* calls that may need an approval
    Unclean,    \* calls whose backend may not verify its cleanup
    Script,     \* Script[o]: the batches the model of loop o asks for
    Capacity,   \* permits of the pool
    MaxBatch,   \* longest batch that may run on threads
    HasDeadline \* whether the policy sets a run deadline

Owners == Children \cup {Main}

ASSUME BatchAssumption ==
    /\ Main \notin Children
    /\ Effects \cup Timed \cup Asking \cup Unclean \subseteq Calls
    /\ Script \in [Owners -> Seq(Seq(Calls))]
    /\ Capacity \in 1..2 /\ MaxBatch \in Nat
    /\ HasDeadline \in BOOLEAN

\* Calls are occurrences, each asked for once (create refuses a batch that names a call twice).
ASSUME ScriptAssumption ==
    /\ IsFiniteSet(Calls) /\ IsFiniteSet(Children)
    /\ \A o, p \in Owners : \A i \in DOMAIN Script[o], j \in DOMAIN Script[p] :
        \A k \in DOMAIN Script[o][i], l \in DOMAIN Script[p][j] :
            Script[o][i][k] = Script[p][j][l] => o = p /\ i = j /\ k = l

VARIABLES
    slots,      \* permits left in the pool
    refs,       \* refs[o]: references to the permit of child o
    own,        \* own[o]: the thread of loop o
    call,       \* call[c]: status, cancel token and time limit of a call
    thread      \* thread[c]: where the thread of a call is, or what it returned

vars == <<slots, refs, own, call, thread>>

-----------------------------------------------------------------------------
(* Constants of a script                                                   *)

CallsIn(batch) == {batch[i] : i \in DOMAIN batch}

CallsOf(o) == UNION {CallsIn(Script[o][i]) : i \in DOMAIN Script[o]}

OwnerOf == [c \in Calls |-> CHOOSE o \in Owners : c \in CallsOf(o)]

\* ToolCallBatch.create: which batches run on threads.
IsParallel(batch) == Len(batch) <= MaxBatch /\ CallsIn(batch) \cap Effects = {}

Parallel == {c \in Calls : \E o \in Owners : \E i \in DOMAIN Script[o] :
                c \in CallsIn(Script[o][i]) /\ IsParallel(Script[o][i])}

-----------------------------------------------------------------------------
(* State                                                                   *)

Final == {"done", "cancelled", "uncertain"}

\* The places of a loop inside a batch.
InBatch == {"top", "dispatch", "serial"}

Loop == [pc : {"new", "waiting", "turn", "leaving", "ended"} \cup InBatch,
         turn : Nat,                        \* batches answered
         todo : Seq(Calls),                 \* pending
         stop : {"no", "seen", "over"},     \* cancelling_at, and cleanup_s after it
         lost : Nat,                        \* abandoned
         asked : BOOLEAN,                   \* a call waits for an approval
         unsure : BOOLEAN,                  \* execution_uncertain
         token : BOOLEAN,                   \* its cancel token is set
         late : BOOLEAN]                    \* its deadline is over

\* What a thread returns; a result that nobody waits for is dropped.
Results == {"done", "unclean", "ask"}

\* The places of a thread of a batch that holds a permit.
OnPermit == {"submitted", "entered"}

BatchTypeOK ==
    /\ slots \in 0..Capacity
    /\ refs \in [Children -> Nat]
    /\ own \in [Owners -> Loop]
    /\ call \in [Calls -> [status : {"none", "queued", "running"} \cup Final,
                           token : BOOLEAN, timeout : BOOLEAN]]
    /\ thread \in [Calls -> {"none", "working"} \cup OnPermit \cup Results]

BatchInit ==
    /\ slots = Capacity
    /\ refs = [o \in Children |-> 0]
    /\ own = [o \in Owners |->
                [pc |-> IF o = Main THEN "turn" ELSE "new", turn |-> 0, todo |-> <<>>, stop |-> "no",
                 lost |-> 0, asked |-> FALSE, unsure |-> FALSE, token |-> FALSE, late |-> FALSE]]
    /\ call = [c \in Calls |-> [status |-> "none", token |-> FALSE, timeout |-> FALSE]]
    /\ thread = [c \in Calls |-> "none"]

\* The token of an exploration is set by its own deadline, and with its parent's.
Cancelled(o) == own[o].token \/ own[Main].token

Width(o) == IF o = Main THEN 2 ELSE 1

Batch(o) == Script[o][own[o].turn + 1]

\* active: the futures of the batch that are not collected.
Active(o) == {c \in CallsIn(Batch(o)) : call[c].status = "running"}

Runs(c) == thread[c] \in OnPermit

At(o, pc) == own[o].pc = pc

Goto(o, pc) == own' = [own EXCEPT ![o].pc = pc]

\* finish: a call is answered, and its token and clock are of no more use.
Answered(status) == [status |-> status, token |-> FALSE, timeout |-> FALSE]

\* A call that is answered while its thread goes on.
Abandoned(status) == [status |-> status, token |-> TRUE, timeout |-> FALSE]

-----------------------------------------------------------------------------
(* Permits                                                                 *)

\* The release of a borrowed permit, or of one of the loop of the run.
GiveBack(o) ==
    IF o = Main THEN slots' = slots + 1 /\ UNCHANGED refs
    ELSE /\ refs' = [refs EXCEPT ![o] = @ - 1]
         /\ slots' = IF refs[o] = 1 THEN slots + 1 ELSE slots

\* lease: a child waits for a permit, ...
Spawn(o) ==
    /\ o \in Children /\ At(o, "new")
    /\ Goto(o, "waiting")
    /\ UNCHANGED <<slots, refs, call, thread>>

TakeLease(o) ==
    /\ At(o, "waiting") /\ slots > 0
    /\ slots' = slots - 1
    /\ refs' = [refs EXCEPT ![o] = 1]
    /\ Goto(o, "turn")
    /\ UNCHANGED <<call, thread>>

\* ... and looks at its token while it waits.
GiveUpLease(o) ==
    /\ At(o, "waiting") /\ slots = 0 /\ Cancelled(o)
    /\ Goto(o, "ended")
    /\ UNCHANGED <<slots, refs, call, thread>>

\* _close_turn_progress: the calls that a raised batch left behind are answered.
Closed(o) ==
    [c \in Calls |-> CASE c \in CallsOf(o) /\ call[c].status = "queued" -> Answered("cancelled")
                       [] c \in CallsOf(o) /\ call[c].status = "running" -> Abandoned("uncertain")
                       [] OTHER -> call[c]]

\* Deviation: the permit goes back with the child, whoever still borrows it.
LetGo_All(o) == slots' = slots + 1 /\ refs' = [refs EXCEPT ![o] = @ - 1]

\* The end of a lease.
LetGo(o) == GiveBack(o)

\* The loop ends; a child lets go of its permit.
Leave(o) ==
    /\ At(o, "leaving")
    /\ call' = Closed(o)
    /\ thread' = [c \in Calls |-> IF c \in CallsOf(o) /\ thread[c] \in Results THEN "none" ELSE thread[c]]
    /\ own' = [own EXCEPT ![o] = [@ EXCEPT !.pc = "ended", !.todo = <<>>, !.stop = "no", !.lost = 0,
                                           !.asked = FALSE, !.unsure = FALSE]]
    /\ IF o = Main THEN UNCHANGED <<slots, refs>> ELSE LetGo(o)

-----------------------------------------------------------------------------
(* The loop                                                                *)

\* A turn of the model asks for the next batch.
BeginBatch(o) ==
    /\ At(o, "turn") /\ own[o].turn < Len(Script[o])
    /\ ~Cancelled(o) /\ ~own[o].late
    /\ own' = [own EXCEPT ![o] = [@ EXCEPT !.pc = IF IsParallel(Batch(o)) THEN "top" ELSE "serial",
                                           !.todo = Batch(o), !.stop = "no", !.lost = 0]]
    /\ call' = [c \in Calls |-> IF c \in CallsIn(Batch(o)) THEN Answered("queued") ELSE call[c]]
    /\ UNCHANGED <<slots, refs, thread>>

\* It answers with a final text, or the loop stops for another reason.
EndLoop(o) ==
    /\ At(o, "turn")
    /\ Goto(o, "leaving")
    /\ UNCHANGED <<slots, refs, call, thread>>

\* The batch is settled in the order of its calls; the loop goes on unless a call
\* waits for an approval or the run is cancelled.
EndBatch(o) ==
    /\ own[o].todo = <<>>
    /\ own[o].pc \in {"serial", "top"} /\ Active(o) = {}
    /\ own' = [own EXCEPT ![o] = [@ EXCEPT !.pc = IF own[o].asked \/ Cancelled(o) THEN "leaving" ELSE "turn",
                                           !.turn = own[o].turn + 1, !.stop = "no", !.lost = 0]]
    /\ UNCHANGED <<slots, refs, call, thread>>

HasPermit(o) == o # Main \/ slots > 0

\* The next call of a batch on threads may be prepared.
MayStart(o) ==
    /\ own[o].todo # <<>> /\ own[o].stop = "no"
    /\ Cardinality(Active(o)) < Width(o)
    /\ HasPermit(o)

\* The preparation of a call raises: the active calls are cancelled and left alone.
Raise(o) ==
    /\ \/ At(o, "dispatch") /\ MayStart(o)
       \/ At(o, "serial") /\ own[o].todo # <<>> /\ Active(o) = {}
    /\ call' = [c \in Calls |-> CASE c \in Active(o) -> [call[c] EXCEPT !.token = TRUE]
                                  [] c = Head(own[o].todo) -> Answered("running")
                                  [] OTHER -> call[c]]
    /\ Goto(o, "leaving")
    /\ UNCHANGED <<slots, refs, thread>>

-----------------------------------------------------------------------------
(* A batch on threads: the rounds of the scheduler                         *)

\* Deviation: the loop looks at its token and not at the deadline.
Stops_OnCancel(o) == Cancelled(o)

Stops(o) == Cancelled(o) \/ own[o].late

\* A round begins: a pending approval or a stop answers what is not started.
Top(o) ==
    /\ At(o, "top")
    /\ own[o].todo # <<>> \/ Active(o) # {}
    /\ LET queued == CallsIn(own[o].todo)
           stops == Stops(o) /\ own[o].stop = "no"
       IN  /\ call' = [c \in Calls |->
                 CASE c \in queued /\ own[o].asked -> Answered("done")
                   [] c \in queued /\ ~own[o].asked /\ stops -> Answered("cancelled")
                   [] c \in Active(o) /\ stops -> [call[c] EXCEPT !.token = TRUE]
                   [] OTHER -> call[c]]
           /\ own' = [own EXCEPT ![o] = [@ EXCEPT !.pc = "dispatch",
                                                  !.stop = IF stops THEN "seen" ELSE own[o].stop,
                                                  !.todo = IF own[o].asked \/ stops THEN <<>> ELSE own[o].todo]]
    /\ UNCHANGED <<slots, refs, thread>>

\* The next call gets a permit and a thread.
Submit(o) ==
    /\ At(o, "dispatch") /\ MayStart(o)
    /\ LET c == Head(own[o].todo) IN
        /\ call' = [call EXCEPT ![c].status = "running"]
        /\ thread' = [thread EXCEPT ![c] = "submitted"]
    /\ own' = [own EXCEPT ![o].todo = Tail(@)]
    /\ IF o = Main THEN slots' = slots - 1 /\ UNCHANGED refs
       ELSE refs' = [refs EXCEPT ![o] = @ + 1] /\ UNCHANGED slots

\* It is refused by its preparation, and the permit goes back.
Reject(o) ==
    /\ At(o, "dispatch") /\ MayStart(o)
    /\ call' = [call EXCEPT ![Head(own[o].todo)] = Answered("done")]
    /\ own' = [own EXCEPT ![o].todo = Tail(@)]
    /\ UNCHANGED <<slots, refs, thread>>

\* What a returned thread makes of its call.
Verdict(o, c) ==
    CASE call[c].timeout -> "done"
      [] ~call[c].timeout /\ (own[o].stop # "no" \/ call[c].token \/ Cancelled(o)) ->
           IF thread[c] = "unclean" THEN "uncertain" ELSE "cancelled"
      [] OTHER -> IF thread[c] = "unclean" THEN "uncertain" ELSE "done"

\* The futures that are done.
Back(o) == {c \in Active(o) : thread[c] \in Results}

\* Deviation: a call whose thread goes on is reported as cancelled.
GivenUp_Cancelled == "cancelled"

\* What is said of a call whose thread goes on.
GivenUp == "uncertain"

\* The rest of a round.  The results that are back are collected.  Of the other active
\* calls, one whose limit is over is cancelled and one that was and is not back when
\* its cleanup time is over is abandoned; all are when the cleanup time of a stop is.
Collect(o) ==
    /\ At(o, "dispatch") /\ ~MayStart(o)
    /\ LET back == Back(o)
           rest == Active(o) \ back
       IN  \E fresh \in SUBSET {c \in rest \cap Timed : ~call[c].timeout},
             late \in SUBSET {c \in rest : call[c].timeout} :
            LET lost == own[o].lost + Cardinality(late)
                full == late # {} /\ lost >= Width(o)
                left == IF own[o].stop = "over" THEN rest ELSE late
            IN  /\ call' = [c \in Calls |->
                      CASE c \in back -> Answered(Verdict(o, c))
                        [] c \in left -> Abandoned(GivenUp)
                        [] c \in fresh \ left -> [call[c] EXCEPT !.timeout = TRUE, !.token = TRUE]
                        [] full /\ c \in CallsIn(own[o].todo) -> Answered("cancelled")
                        [] OTHER -> call[c]]
                /\ own' = [own EXCEPT ![o] = [@ EXCEPT
                      !.pc = "top", !.lost = lost, !.todo = IF full THEN <<>> ELSE own[o].todo,
                      !.asked = own[o].asked \/ \E c \in back :
                                    Verdict(o, c) = "done" /\ ~call[c].timeout /\ thread[c] = "ask",
                      !.unsure = own[o].unsure \/ \E c \in back \cup left : call'[c].status = "uncertain"]]
                /\ thread' = [c \in Calls |-> IF c \in back THEN "none" ELSE thread[c]]
    /\ UNCHANGED <<slots, refs>>

\* cleanup_s is over for a batch that stops.
CleanupPasses(o) ==
    /\ own[o].stop = "seen"
    /\ own' = [own EXCEPT ![o].stop = "over"]
    /\ UNCHANGED <<slots, refs, call, thread>>

-----------------------------------------------------------------------------
(* A batch on the loop's own thread                                        *)

\* Deviation: the gate forgets the calls that were abandoned.
MayRun_Unsure(o, c) == TRUE

\* The gate of the executor: no effect while a cleanup is unverified.
MayRun(o, c) == ~(own[o].unsure /\ c \in Effects)

SerialNext(o) ==
    /\ At(o, "serial") /\ own[o].todo # <<>> /\ Active(o) = {}
    /\ LET c == Head(own[o].todo) IN
        \/ /\ call' = [call EXCEPT ![c] = Answered(IF own[o].asked \/ ~Cancelled(o) THEN "done" ELSE "cancelled")]
           /\ UNCHANGED thread
        \/ /\ ~own[o].asked /\ ~Cancelled(o) /\ MayRun(o, c)
           /\ call' = [call EXCEPT ![c] = Answered("running")]
           /\ thread' = [thread EXCEPT ![c] = "working"]
    /\ own' = [own EXCEPT ![o].todo = Tail(@)]
    /\ UNCHANGED <<slots, refs>>

\* The tool ends, an approval is missing before it begins, or its cleanup is unverified.
SerialEnd(o) ==
    /\ At(o, "serial")
    /\ \E c \in Active(o), result \in {"done", "ask", "unclean"} :
        /\ result = "ask" => c \in Asking
        /\ result = "unclean" => c \in Unclean \cap Effects
        /\ thread' = [thread EXCEPT ![c] = "none"]
        /\ call' = [call EXCEPT ![c] = Answered(IF result = "unclean" THEN "uncertain" ELSE "done")]
        /\ own' = [own EXCEPT ![o].asked = @ \/ result = "ask", ![o].unsure = @ \/ result = "unclean"]
    /\ UNCHANGED <<slots, refs>>

\* run_with_timeout lets go of the thread of a tool: at its time limit, which the run
\* deadline bounds, or for a cancellation unless the tool writes.
SerialDetach(o) ==
    /\ At(o, "serial")
    /\ \E c \in Active(o) :
        /\ c \in Timed \/ own[o].late \/ (Cancelled(o) /\ c \notin Effects)
        /\ call' = [call EXCEPT ![c] = Abandoned("done")]
        /\ own' = [own EXCEPT ![o].unsure = @ \/ c \in Effects]
    /\ UNCHANGED <<slots, refs, thread>>

\* ... which ends some time later.
DetachedEnds(c) ==
    /\ thread[c] = "working" /\ call[c].status # "running"
    /\ thread' = [thread EXCEPT ![c] = "none"]
    /\ UNCHANGED <<slots, refs, own, call>>

-----------------------------------------------------------------------------
(* A worker thread of a batch                                              *)

\* The thread returns, and its permit is released.
Returns(c, result) ==
    /\ thread' = [thread EXCEPT ![c] = IF call[c].status = "running" THEN result ELSE "none"]
    /\ GiveBack(OwnerOf[c])

\* execute and execute_gated look at the token first.
Enter(c) ==
    /\ thread[c] = "submitted"
    /\ IF call[c].token THEN Returns(c, "done")
       ELSE thread' = [thread EXCEPT ![c] = "entered"] /\ UNCHANGED <<slots, refs>>
    /\ UNCHANGED <<own, call>>

\* A later gate refuses, or the tool ran; its backend may not have verified its cleanup.
Return(c) ==
    /\ thread[c] = "entered"
    /\ \E result \in Results :
        /\ result = "ask" => c \in Asking
        /\ result = "unclean" => c \in Unclean
        /\ Returns(c, result)
    /\ UNCHANGED <<own, call>>

-----------------------------------------------------------------------------
(* Cancellations and deadlines                                             *)

Cancel(o) ==
    /\ ~Cancelled(o) /\ ~At(o, "ended")
    /\ own' = [own EXCEPT ![o].token = TRUE]
    /\ UNCHANGED <<slots, refs, call, thread>>

\* cancel_calls, the callback of the token: every call of the batch.
CancelCalls(o) ==
    LET open == {c \in CallsIn(Batch(o)) : call[c].status \notin Final /\ ~call[c].token} IN
    /\ Cancelled(o) /\ own[o].pc \in InBatch /\ open # {}
    /\ call' = [c \in Calls |-> IF c \in open THEN [call[c] EXCEPT !.token = TRUE] ELSE call[c]]
    /\ UNCHANGED <<slots, refs, own, thread>>

\* A deadline ends the run, or cancels an exploration.
Deadline(o) ==
    /\ HasDeadline /\ ~own[o].late /\ ~At(o, "ended")
    /\ IF o = Main THEN own' = [own EXCEPT ![o].late = TRUE]
       ELSE ~Cancelled(o) /\ own' = [own EXCEPT ![o].token = TRUE]
    /\ UNCHANGED <<slots, refs, call, thread>>

-----------------------------------------------------------------------------
(* Specification                                                           *)

\* The steps a loop takes by itself inside a batch.
BatchStep(o) ==
    \/ EndBatch(o) \/ Top(o) \/ Submit(o) \/ Reject(o) \/ Collect(o)
    \/ SerialNext(o) \/ SerialDetach(o)

BatchNext ==
    \/ \E o \in Owners :
        \/ Spawn(o) \/ TakeLease(o) \/ GiveUpLease(o) \/ BeginBatch(o) \/ EndLoop(o) \/ Leave(o)
        \/ BatchStep(o) \/ Raise(o) \/ CleanupPasses(o) \/ SerialEnd(o)
        \/ Cancel(o) \/ CancelCalls(o) \/ Deadline(o)
    \/ \E c \in Calls : Enter(c) \/ Return(c) \/ DetachedEnds(c)

BatchSpec == BatchInit /\ [][BatchNext]_vars

\* A loop goes on, clocks go on, and a tool may hang: nothing is fair about a worker.
FairBatchSpec ==
    /\ BatchSpec
    /\ \A o \in Owners : WF_vars(BatchStep(o)) /\ WF_vars(CleanupPasses(o)) /\ WF_vars(Deadline(o))
    /\ \A o \in Children : WF_vars(TakeLease(o) \/ GiveUpLease(o))

-----------------------------------------------------------------------------
(* Properties                                                              *)

\* The permits add up: those in the pool, the running threads of the loop of the run,
\* and the children that are not gone or whose reads still run.
PermitsBalanced ==
    LET running == {c \in Parallel \cap CallsOf(Main) : Runs(c)}
        leased == {o \in Children : refs[o] > 0}
    IN  /\ slots + Cardinality(running) + Cardinality(leased) = Capacity
        /\ \A o \in Children :
            refs[o] = Cardinality({c \in CallsOf(o) \cap Parallel : Runs(c)})
                      + (IF own[o].pc \in {"new", "waiting", "ended"} THEN 0 ELSE 1)

\* What a model is told of its calls is true: outside a batch every call that was asked
\* for has a final status, and one whose thread holds a permit is "uncertain".
AnsweredMeansStopped ==
    \A o \in Owners : \A c \in CallsOf(o) :
        /\ own[o].pc \in {"turn", "ended"} => call[c].status \in Final \cup {"none"}
        /\ Runs(c) => call[c].status \in {"running", "uncertain"}

\* A call has one answer: a late result changes nothing.
AnswersStand ==
    [][\A c \in Calls : call[c].status \in Final => call'[c].status = call[c].status]_vars

\* A write runs alone: no read of the loop that was abandoned and no earlier write of
\* it is still running.
EffectsAlone ==
    \A o \in Owners : \A w \in Effects \cap CallsOf(o) :
        thread[w] = "working" /\ call[w].status = "running" =>
            \A c \in CallsOf(o) \ {w} : ~Runs(c) /\ ~(c \in Effects /\ thread[c] = "working")

\* Under a run deadline every batch and every wait for a permit comes to an end,
\* whatever the tools do: again and again no loop is in one.
BatchReturns == []<>(\A o \in Owners : own[o].pc \notin InBatch \cup {"waiting"})

\* An unverified cleanup that a thread reports reaches the gate of the loop.
UncleanIsKnown ==
    [][\A o \in Owners : \A c \in CallsOf(o) :
        thread[c] = "unclean" /\ call[c].status = "running" /\ call'[c].status # "running"
            => own'[o].unsure \/ own'[o].pc = "ended"]_vars

\* A child runs one call at a time.
OneCallAtATime == \A o \in Children : Cardinality({c \in CallsOf(o) : Runs(c)}) <= 1
=============================================================================
