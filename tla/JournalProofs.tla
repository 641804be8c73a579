---------------------------- MODULE JournalProofs ----------------------------
(***************************************************************************)
(* Theorems about the two journals from which another process goes on:     *)
(* that of a repair run (PlanExecution), for every set of explore nodes    *)
(* and every number of graphs, attempts, operations, processes and changes *)
(* by others; and that of a restoration (WorkbenchRestore), for every      *)
(* finite set of paths, every set of operations and values, and every      *)
(* number of faults and edits.                                             *)
(*                                                                         *)
(* PlanInv is the inductive invariant of the first: what its owner works   *)
(* on is all that is open unless it recovers (OwnerInv), a recovery goes   *)
(* through all that is open (RecoveryInv), only reads are side by side     *)
(* (ReadInv), nodes and attempts name each other (NodeInv, AttemptInv), a  *)
(* graph has sent one edit (EditInv), what still executes holds its node   *)
(* (LiveInv), and the tree is as the edit left it where that is relied on  *)
(* (PatchInv).  RestoreInv is that of the second.                          *)
(***************************************************************************)
EXTENDS PlanExecution, WorkbenchRestore, FiniteSetTheorems, SequenceTheorems, TLAPS

-----------------------------------------------------------------------------
(* The inductive invariant.                                                *)

NodeOf(a) == attempts[a].node
HolderOf(n) == plan.node[n].attempt

OwnerPlaces == {"idle", "mark", "dispatch", "prepare", "run", "settle", "reconcile", "row", "after", "rollback",
           "restored", "reopen", "replan", "replanned", "recover", "restarted", "closed"}
Outcomes == {"succeeded", "failed", "cancelled", "uncertain"}

OwnerState == [pc : OwnerPlaces, stage : {"patch", "verify", "undo", "end"}, a : Nat, queue : Seq(Explores \cup Nat),
               batch : Seq(Nat), before : Nat, then : {"idle", "adopt", "recover", "reopen"},
               status : {"none"} \cup Outcomes, bad : BOOLEAN]

Rollback == [version : Nat, completed : BOOLEAN, after : Nat, expected : Nat]

Graph == [version : Nat, inputs : Nat, node : [Nodes -> NodeRow]]

TypeInv ==
    /\ PlanTypeOK
    /\ top \in Nat /\ origin \in 1 .. top /\ life \in Nat /\ foreign \in Nat
    /\ rollback \in Rollback /\ request \in [version : Nat, status : {"none", "started", "rejected", "committed"}]
    /\ me \in OwnerState

\* The attempts the owner is working on.
InHand == ToSet(me.batch) \cup (IF me.pc \in {"mark", "dispatch", "settle", "reconcile"} THEN {me.a} ELSE {})

Starting == {"mark", "dispatch", "prepare"}
Settling == {"settle", "reconcile", "row", "after"}
Resting == {"idle", "rollback", "restored", "reopen", "replan", "replanned", "recover", "restarted", "closed"}

Holds(a) == Status(NodeOf(a)) = "running" /\ HolderOf(NodeOf(a)) = a

\* What the owner is working on is all that is open, except in a recovery.
OwnerInv ==
    /\ InHand \subseteq OpenAttempts
    /\ IsInjective(me.batch)
    /\ me.pc \in Resting => me.batch = <<>>
    /\ me.pc \in {"idle", "rollback", "restored", "replan", "replanned", "closed"} => me.then = "idle"
    /\ me.pc \in {"idle", "rollback", "restored"} => me.before = 0 /\ me.queue = <<>>
    /\ me.then # "recover" /\ me.pc # "closed" => OpenAttempts = InHand
    /\ me.pc \in {"mark", "dispatch", "settle", "reconcile"} => me.a \notin ToSet(me.batch)
    /\ me.pc = "mark" => attempts[me.a].phase = "prepared" /\ Status(NodeOf(me.a)) = "ready"
    /\ me.pc = "dispatch" => attempts[me.a].phase = "prepared" /\ Holds(me.a)
    /\ me.pc \in Starting => \A a \in ToSet(me.batch) : attempts[a].phase = "dispatched"
    /\ me.pc = "run" => me.batch # <<>> /\ \A a \in ToSet(me.batch) : attempts[a].phase \in {"dispatched", "result_recorded"}
    /\ me.pc \in Settling => \A a \in InHand : attempts[a].phase = "result_recorded"
    /\ \A a \in ToSet(me.batch) : Holds(a)
    /\ me.pc \in Starting \cup {"run"} => \A a \in InHand : attempts[a].life = life
    /\ me.pc = "settle" /\ me.then # "recover" => Holds(me.a)
    /\ me.pc = "reconcile" => Status(NodeOf(me.a)) = me.status /\ me.status \in Outcomes
    /\ me.pc \in {"row", "after"} => me.a \in Ids

\* A process that recovers goes through all that is open.
RecoveryInv ==
    /\ me.pc \in {"recover", "restarted"} => me.then = "recover"
    /\ me.then = "recover" =>
          /\ me.pc \in Settling \cup {"recover", "restarted"}
          /\ me.batch = <<>>
          /\ me.queue \in Seq(Nat) /\ IsInjective(me.queue)
          /\ ToSet(me.queue) \subseteq OpenAttempts \ InHand
          /\ ~me.bad => OpenAttempts \subseteq ToSet(me.queue) \cup InHand
    /\ me.pc = "restarted" =>
          /\ me.queue # <<>>
          /\ LET n == NodeOf(Head(me.queue)) IN Status(n) = "pending" /\ HolderOf(n) = 0

\* Reads are prepared two at a time, or one by one when they are done again; everything else is alone.
ReadInv ==
    /\ me.pc \in Starting \cup {"run"} =>
          IF me.before # 0
          THEN /\ \A a \in InHand : NodeOf(a) \in Explores
               /\ me.then # "reopen" /\ me.queue \in Seq(Explores)
               /\ me.pc = "prepare" => me.queue # <<>>
          ELSE /\ me.pc # "prepare"
               /\ IF me.pc = "run" THEN Len(me.batch) = 1 ELSE me.batch = <<>>
    /\ me.pc = "reopen" => me.then = "reopen" /\ me.before = 0
    /\ me.then = "reopen" =>
          /\ me.before = 0
          /\ me.queue \in Seq(Explores) /\ IsInjective(me.queue)
          /\ \A n \in ToSet(me.queue) : Status(n) \in {"stale", "succeeded", "ready"}
          /\ me.pc = "mark" => NodeOf(me.a) \notin ToSet(me.queue)

\* A node and the attempt it names.
NodeInv ==
    \A n \in Nodes :
        /\ n \notin Explores /\ Status(n) \in {"pending", "ready"} => HolderOf(n) = 0
        /\ HolderOf(n) # 0 => HolderOf(n) \in Ids /\ NodeOf(HolderOf(n)) = n
        /\ Status(n) = "running" => HolderOf(n) \in OpenAttempts

\* Attempts, and the graph they belong to.
AttemptInv ==
    /\ \A a \in Ids :
          /\ attempts[a].version <= plan.version
          /\ a \in OpenAttempts => attempts[a].version = plan.version
          /\ attempts[a].phase = "prepared" => attempts[a].ops = <<>>
          /\ attempts[a].phase = "reconciled" => attempts[a].terminal \in Outcomes
          /\ \A o \in OpsOf(a) : (o.tool = "write" => NodeOf(a) = "edit") /\ (o.stopped => o.phase = "result_recorded")
    /\ AttemptsMatchNodes

\* An edit that was dispatched, for all the journal tells.
Sent(a) == NodeOf(a) = "edit" /\ (attempts[a].phase \in {"dispatched", "result_recorded"} \/ attempts[a].ops # <<>>)

EditInv ==
    /\ \A a, b \in Ids : Sent(a) /\ Sent(b) /\ attempts[a].version = attempts[b].version => a = b
    /\ \A a \in Ids : Sent(a) /\ attempts[a].version = plan.version =>
          /\ Status("edit") \notin {"pending", "ready"}
          /\ \A b \in Ids : NodeOf(b) = "edit" => attempts[b].phase # "prepared"

\* What really executes.
LiveInv ==
    /\ \A a \in live :
          /\ attempts[a].version = plan.version
          /\ HolderOf(NodeOf(a)) = a /\ Status(NodeOf(a)) \in {"running", "uncertain"}
          /\ attempts[a].phase # "prepared"
          /\ IF NodeOf(a) = "verify"
             THEN attempts[a].phase = "dispatched" \/ attempts[a].result = "uncertain"
             ELSE /\ attempts[a].life = life
                  /\ attempts[a].ops # <<>> /\ ~Complete(Last(attempts[a].ops))
    /\ me.pc = "run" => live \subseteq ToSet(me.batch)
    /\ me.pc \in Starting => live = {}
    /\ NothingBesideAWrite

\* The edit succeeded, and the tree is as it left it.
PatchIsThere == Status("edit") = "succeeded" /\ plan.node["edit"].ref = disk

NobodyElse ==
    /\ me.pc = "idle" /\ me.stage = "verify" => PatchIsThere
    /\ \A a \in OpenAttempts : NodeOf(a) = "verify" => PatchIsThere /\ \A b \in OpenAttempts : NodeOf(b) # "edit"
    /\ \A a \in OpenAttempts : NodeOf(a) = "edit" /\ Status("edit") = "succeeded" => PatchIsThere
    /\ me.pc \in {"reconcile", "row", "after"} /\ NodeOf(me.a) = "edit" /\ me.status = "succeeded" => PatchIsThere
    /\ Status("verify") = "succeeded" =>
          /\ Status("edit") \in {"succeeded", "uncertain"}
          /\ \A a \in OpenAttempts : NodeOf(a) # "edit"
          /\ plan.node["verify"].ref = plan.node["edit"].ref
    /\ Status("edit") = "succeeded" /\ me.then # "recover" /\ me.pc \notin {"closed", "rollback", "restored"} =>
          RolledBack \/ PatchIsThere \/ (me.pc = "idle" /\ me.stage = "end")

PatchInv ==
    /\ me.pc \in {"rollback", "restored"} => rollback.version = plan.version /\ me.stage # "verify"
    /\ foreign = 0 => NobodyElse

PlanInv ==
    /\ TypeInv /\ OwnerInv /\ RecoveryInv /\ ReadInv /\ NodeInv /\ AttemptInv /\ EditInv /\ LiveInv /\ PatchInv

-----------------------------------------------------------------------------
(* Sequences.                                                              *)

LEMMA NothingInEmpty == ToSet(<<>>) = {}
  BY DEF ToSet

LEMMA MemberOf == ASSUME NEW S, NEW s \in Seq(S) PROVE ToSet(s) \subseteq S /\ (s # <<>> => Head(s) \in ToSet(s) /\ Head(s) = s[1])
  BY DEF ToSet

LEMMA AppendSet ==
  ASSUME NEW S, NEW s \in Seq(S), NEW x \in S
  PROVE  /\ ToSet(Append(s, x)) = ToSet(s) \cup {x}
         /\ IsInjective(s) /\ x \notin ToSet(s) => IsInjective(Append(s, x))
         /\ Append(s, x) \in Seq(S) /\ Append(s, x) # <<>>
         /\ Last(Append(s, x)) = x
<1> DEFINE t == Append(s, x)
<1>1. t \in Seq(S) /\ Len(t) = Len(s) + 1 /\ t[Len(s) + 1] = x /\ \A i \in 1..Len(s) : t[i] = s[i]
  OBVIOUS
<1>2. DOMAIN t = 1..(Len(s) + 1) /\ DOMAIN s = 1..Len(s)
  BY <1>1
<1> HIDE DEF t
<1>3. ToSet(t) = ToSet(s) \cup {x}
  <2>1. ToSet(t) \subseteq ToSet(s) \cup {x}
    BY <1>1, <1>2 DEF ToSet
  <2>2. x \in ToSet(t)
    BY <1>1, <1>2 DEF ToSet
  <2>3. ToSet(s) \subseteq ToSet(t)
    BY <1>1, <1>2 DEF ToSet
  <2> QED BY <2>1, <2>2, <2>3
<1>4. ASSUME IsInjective(s), x \notin ToSet(s) PROVE IsInjective(t)
  BY <1>1, <1>2, <1>4 DEF IsInjective, ToSet
<1>5. t # <<>> /\ Last(t) = x
  BY <1>1 DEF Last
<1> QED BY <1>1, <1>3, <1>4, <1>5 DEF t

LEMMA TailSet ==
  ASSUME NEW S, NEW s \in Seq(S), s # <<>>
  PROVE  /\ Tail(s) \in Seq(S) /\ ToSet(s) = {Head(s)} \cup ToSet(Tail(s))
         /\ IsInjective(s) => IsInjective(Tail(s)) /\ Head(s) \notin ToSet(Tail(s))
<1> DEFINE t == Tail(s)
<1>1. t \in Seq(S) /\ Len(t) = Len(s) - 1 /\ Len(s) \in Nat \ {0} /\ Head(s) = s[1] /\ \A i \in 1..Len(t) : t[i] = s[i + 1]
  OBVIOUS
<1>2. DOMAIN t = 1..(Len(s) - 1) /\ DOMAIN s = 1..Len(s)
  BY <1>1
<1> HIDE DEF t
<1>3. ToSet(s) = {Head(s)} \cup ToSet(t)
  <2>1. ToSet(t) \subseteq ToSet(s) /\ Head(s) \in ToSet(s)
    BY <1>1, <1>2 DEF ToSet
  <2>2. ASSUME NEW i \in DOMAIN s, s[i] # Head(s) PROVE s[i] \in ToSet(t)
    <3>1. i - 1 \in DOMAIN t /\ t[i - 1] = s[i]
      BY <1>1, <1>2, <2>2
    <3> QED BY <3>1 DEF ToSet
  <2> QED BY <2>1, <2>2 DEF ToSet
<1>4. ASSUME IsInjective(s) PROVE IsInjective(t) /\ Head(s) \notin ToSet(t)
  <2>1. \A i, j \in DOMAIN t : t[i] = t[j] => i = j
    <3> SUFFICES ASSUME NEW i \in DOMAIN t, NEW j \in DOMAIN t, t[i] = t[j] PROVE i = j
      OBVIOUS
    <3>1. i + 1 \in DOMAIN s /\ j + 1 \in DOMAIN s /\ s[i + 1] = s[j + 1] /\ i \in Nat /\ j \in Nat
      BY <1>1, <1>2
    <3>2. i + 1 = j + 1
      BY <1>4, <3>1 DEF IsInjective
    <3> QED BY <3>1, <3>2
  <2>2. ASSUME NEW i \in DOMAIN t, t[i] = Head(s) PROVE FALSE
    <3>1. i + 1 \in DOMAIN s /\ 1 \in DOMAIN s /\ s[i + 1] = s[1] /\ i \in Nat \ {0}
      BY <1>1, <1>2, <2>2
    <3>2. i + 1 = 1
      BY <1>4, <3>1 DEF IsInjective
    <3> QED BY <3>1, <3>2
  <2> QED BY <2>1, <2>2 DEF IsInjective, ToSet
<1> QED BY <1>1, <1>3, <1>4 DEF t

LEMMA NoElements == ASSUME NEW S, NEW s \in Seq(S), ToSet(s) = {} PROVE s = <<>>
<1>1. Len(s) \in Nat /\ DOMAIN s = 1..Len(s)
  OBVIOUS
<1>2. DOMAIN s = {}
  BY DEF ToSet
<1>3. Len(s) = 0
  BY <1>1, <1>2
<1> QED BY <1>3, EmptySeq

LEMMA AloneIsHead ==
  ASSUME NEW S, NEW s \in Seq(S), Len(s) = 1
  PROVE  ToSet(s) = {Head(s)} /\ Tail(s) = <<>> /\ s # <<>>
<1>1. DOMAIN s = {1} /\ Head(s) = s[1]
  OBVIOUS
<1>2. ToSet(s) = {Head(s)}
  BY <1>1 DEF ToSet
<1>3. Tail(s) \in Seq(S) /\ Len(Tail(s)) = 0
  OBVIOUS
<1>4. Tail(s) = <<>>
  BY <1>3, EmptySeq
<1> QED BY <1>2, <1>4

LEMMA AppendToEmpty == ASSUME NEW x PROVE Append(<<>>, x) = <<x>> /\ Len(<<x>>) = 1 /\ IsInjective(<<>>)
  BY DEF IsInjective

LEMMA SequenceOfSet ==
  ASSUME NEW S, IsFiniteSet(S)
  PROVE  SetToSeq(S) \in Seq(S) /\ IsInjective(SetToSeq(S)) /\ ToSet(SetToSeq(S)) \subseteq S
<1>1. ExistsBijection(1..Cardinality(S), S) /\ Cardinality(S) \in Nat
  BY FS_CardinalityType
<1>2. PICK f \in [1..Cardinality(S) -> S] : IsInjective(f)
  BY <1>1 DEF ExistsBijection, Bijection, Injection
<1>3. SetToSeq(S) \in [1..Cardinality(S) -> S] /\ IsInjective(SetToSeq(S))
  BY <1>1, <1>2 DEF SetToSeq
<1>4. SetToSeq(S) \in Seq(S)
  BY <1>1, <1>3
<1> QED BY <1>3, <1>4, MemberOf

-----------------------------------------------------------------------------
(* Graphs.                                                                 *)

LEMMA StatusNames ==
  DOMAIN Transitions = {"pending", "ready", "running", "uncertain", "succeeded", "blocked", "stale", "failed", "cancelled"}
  BY DEF Transitions

LEMMA NodeNames ==
  /\ Explores \subseteq Nodes /\ {"analyze", "edit", "verify"} \subseteq Nodes
  /\ \A n \in Explores : n \notin {"analyze", "edit", "verify"}
  /\ \A n \in Nodes : n \in Explores \/ n = "analyze" \/ n = "edit" \/ n = "verify"
  BY PlanAssumption DEF Nodes

LEMMA NodesFinite == IsFiniteSet(Nodes) /\ IsFiniteSet(Explores)
<1>1. IsFiniteSet({"analyze", "edit", "verify"})
  <2>1. IsFiniteSet({"verify"}) /\ IsFiniteSet({"verify"} \cup {"edit"})
    BY FS_Singleton, FS_AddElement, FS_EmptySet
  <2>2. IsFiniteSet(({"verify"} \cup {"edit"}) \cup {"analyze"})
    BY <2>1, FS_AddElement
  <2>3. ({"verify"} \cup {"edit"}) \cup {"analyze"} = {"analyze", "edit", "verify"}
    OBVIOUS
  <2> QED BY <2>2, <2>3
<1> QED BY <1>1, PlanAssumption, FS_Union DEF Nodes

\* One node of the reducer, given the statuses of what it depends on.
Reduced(p, new, n) ==
    IF p.node[n].status \notin {"pending", "ready"} THEN p.node[n].status
    ELSE IF {new[d] : d \in DependsOn(n)} \cap Bad # {} \/ (n = "analyze" /\ ~Valid(p.inputs)) THEN "blocked"
    ELSE IF {new[d] : d \in DependsOn(n)} \subseteq {"succeeded"} THEN "ready" ELSE p.node[n].status

LEMMA ReducedAgrees ==
  ASSUME NEW p, NEW f, NEW g, NEW n \in Nodes, \A d \in DependsOn(n) : f[d] = g[d]
  PROVE  Reduced(p, f, n) = Reduced(p, g, n)
<1>1. {f[d] : d \in DependsOn(n)} = {g[d] : d \in DependsOn(n)}
  OBVIOUS
<1> QED BY <1>1 DEF Reduced

\* The recursion behind refresh has a solution: the graph has four layers.
LEMMA NewStatusIs ==
  ASSUME NEW p
  PROVE  NewStatus(p) = [n \in Nodes |-> Reduced(p, NewStatus(p), n)]
<1> DEFINE Next(g) == [n \in Nodes |-> Reduced(p, g, n)]
           e1 == Next([n \in Nodes |-> "pending"])
           e2 == Next(e1)
           e3 == Next(e2)
           e4 == Next(e3)
<1>1. DependsOn("analyze") = Explores /\ DependsOn("edit") = {"analyze"} /\ DependsOn("verify") = {"edit"}
      /\ \A n \in Explores : DependsOn(n) = {}
  BY NodeNames DEF DependsOn
<1>2. \A g : \A n \in Nodes : Next(g)[n] = Reduced(p, g, n)
  OBVIOUS
<1> HIDE DEF Next
<1>3. \A g, h : \A n \in Explores : Next(g)[n] = Next(h)[n]
  <2> SUFFICES ASSUME NEW g, NEW h, NEW n \in Explores PROVE Next(g)[n] = Next(h)[n]
    OBVIOUS
  <2>1. n \in Nodes /\ \A d \in DependsOn(n) : g[d] = h[d]
    BY <1>1, NodeNames
  <2>2. Reduced(p, g, n) = Reduced(p, h, n)
    BY <2>1, ReducedAgrees
  <2> QED BY <1>2, <2>1, <2>2
<1>4. \A g, h : Next(Next(g))["analyze"] = Next(Next(h))["analyze"]
  <2> SUFFICES ASSUME NEW g, NEW h PROVE Next(Next(g))["analyze"] = Next(Next(h))["analyze"]
    OBVIOUS
  <2>1. "analyze" \in Nodes /\ \A d \in DependsOn("analyze") : Next(g)[d] = Next(h)[d]
    BY <1>1, <1>3, NodeNames
  <2>2. Reduced(p, Next(g), "analyze") = Reduced(p, Next(h), "analyze")
    BY <2>1, ReducedAgrees
  <2> QED BY <1>2, <2>1, <2>2
<1>5. \A g, h : Next(Next(Next(g)))["edit"] = Next(Next(Next(h)))["edit"]
  <2> SUFFICES ASSUME NEW g, NEW h PROVE Next(Next(Next(g)))["edit"] = Next(Next(Next(h)))["edit"]
    OBVIOUS
  <2>1. "edit" \in Nodes /\ \A d \in DependsOn("edit") : Next(Next(g))[d] = Next(Next(h))[d]
    BY <1>1, <1>4, NodeNames
  <2>2. Reduced(p, Next(Next(g)), "edit") = Reduced(p, Next(Next(h)), "edit")
    BY <2>1, ReducedAgrees
  <2> QED BY <1>2, <2>1, <2>2
<1>6. \A g, h : Next(Next(Next(Next(g))))["verify"] = Next(Next(Next(Next(h))))["verify"]
  <2> SUFFICES ASSUME NEW g, NEW h PROVE Next(Next(Next(Next(g))))["verify"] = Next(Next(Next(Next(h))))["verify"]
    OBVIOUS
  <2>1. "verify" \in Nodes /\ \A d \in DependsOn("verify") : Next(Next(Next(g)))[d] = Next(Next(Next(h)))[d]
    BY <1>1, <1>5, NodeNames
  <2>2. Reduced(p, Next(Next(Next(g))), "verify") = Reduced(p, Next(Next(Next(h))), "verify")
    BY <2>1, ReducedAgrees
  <2> QED BY <1>2, <2>1, <2>2
<1>7. \A n \in Nodes : e4[n] = Next(e4)[n]
  <2>1. \A n \in Explores : e4[n] = Next(e4)[n]
    BY <1>3
  <2>2. e4["analyze"] = Next(e4)["analyze"]
    BY <1>4
  <2>3. e4["edit"] = Next(e4)["edit"]
    BY <1>5
  <2>4. e4["verify"] = Next(e4)["verify"]
    BY <1>6
  <2> QED BY <2>1, <2>2, <2>3, <2>4, NodeNames
<1>8. e4 = [n \in Nodes |-> Reduced(p, e4, n)]
  <2>1. e4 = [n \in Nodes |-> e4[n]]
    BY DEF Next
  <2>2. \A n \in Nodes : e4[n] = Reduced(p, e4, n)
    BY <1>2, <1>7
  <2> HIDE DEF e4
  <2> QED BY <2>1, <2>2
<1>9. NewStatus(p) = CHOOSE new : new = [n \in Nodes |-> Reduced(p, new, n)]
  BY Zenon DEF NewStatus, Reduced
<1> HIDE DEF e4
<1> QED BY <1>8, <1>9, Zenon

\* What refresh does to a graph.
LEMMA RefreshFacts ==
  ASSUME NEW p \in Graph
  PROVE  /\ Refresh(p) \in Graph /\ Refresh(p).version = p.version /\ Refresh(p).inputs = p.inputs
         /\ \A n \in Nodes :
              /\ Refresh(p).node[n].attempt = p.node[n].attempt /\ Refresh(p).node[n].ref = p.node[n].ref
              /\ IF p.node[n].status \notin {"pending", "ready"} THEN Refresh(p).node[n].status = p.node[n].status
                 ELSE IF n \in Explores THEN Refresh(p).node[n].status = "ready"
                 ELSE Refresh(p).node[n].status \in {"pending", "ready", "blocked"}
<1> DEFINE s == NewStatus(p)
<1>1. \A n \in Nodes : s[n] = Reduced(p, s, n)
  BY NewStatusIs
<1>2. Refresh(p) = [p EXCEPT !.node = [n \in Nodes |-> [p.node[n] EXCEPT !.status = s[n]]]]
  BY Zenon DEF Refresh
<1> HIDE DEF s
<1>3. \A n \in Explores : DependsOn(n) = {}
  BY DEF DependsOn
<1>4. \A n \in Nodes : p.node[n] \in NodeRow /\ p.node[n].status \in DOMAIN Transitions
  BY DEF Graph, NodeRow
<1>5. \A n \in Nodes :
        IF p.node[n].status \notin {"pending", "ready"} THEN s[n] = p.node[n].status
        ELSE IF n \in Explores THEN s[n] = "ready" ELSE s[n] \in {"pending", "ready", "blocked"}
  <2> SUFFICES ASSUME NEW n \in Nodes
      PROVE IF p.node[n].status \notin {"pending", "ready"} THEN s[n] = p.node[n].status
            ELSE IF n \in Explores THEN s[n] = "ready" ELSE s[n] \in {"pending", "ready", "blocked"}
    OBVIOUS
  <2>1. n \in Explores => {s[d] : d \in DependsOn(n)} = {} /\ n # "analyze"
    BY <1>3, NodeNames
  <2> DEFINE ds == {s[d] : d \in DependsOn(n)}
             blocks == ds \cap Bad # {} \/ (n = "analyze" /\ ~Valid(p.inputs))
  <2>2. s[n] = IF p.node[n].status \notin {"pending", "ready"} THEN p.node[n].status
               ELSE IF blocks THEN "blocked" ELSE IF ds \subseteq {"succeeded"} THEN "ready" ELSE p.node[n].status
    BY <1>1, Zenon DEF Reduced
  <2>3. n \in Explores => ~blocks /\ ds \subseteq {"succeeded"}
    BY <2>1
  <2> HIDE DEF blocks, ds
  <2> QED BY <2>2, <2>3
<1>6. \A n \in Nodes : s[n] \in DOMAIN Transitions
  BY <1>4, <1>5, StatusNames
<1> DEFINE rows == [n \in Nodes |-> [p.node[n] EXCEPT !.status = s[n]]]
<1>7. \A n \in Nodes : /\ [p.node[n] EXCEPT !.status = s[n]] \in NodeRow
                       /\ [p.node[n] EXCEPT !.status = s[n]].status = s[n]
                       /\ [p.node[n] EXCEPT !.status = s[n]].attempt = p.node[n].attempt
                       /\ [p.node[n] EXCEPT !.status = s[n]].ref = p.node[n].ref
  BY <1>4, <1>6 DEF NodeRow
<1>8. rows \in [Nodes -> NodeRow] /\ \A n \in Nodes : rows[n].status = s[n] /\ rows[n].attempt = p.node[n].attempt /\ rows[n].ref = p.node[n].ref
  BY <1>7
<1> HIDE DEF rows
<1>9. [p EXCEPT !.node = rows] \in Graph /\ [p EXCEPT !.node = rows].node = rows
      /\ [p EXCEPT !.node = rows].version = p.version /\ [p EXCEPT !.node = rows].inputs = p.inputs
  BY <1>8 DEF Graph
<1>10. Refresh(p) = [p EXCEPT !.node = rows]
  BY <1>2 DEF rows
<1> QED BY <1>5, <1>8, <1>9, <1>10

LEMMA SetNodeFacts ==
  ASSUME NEW p \in Graph, NEW n \in Nodes, NEW s \in DOMAIN Transitions, NEW a \in Nat, NEW ref \in Nat
  PROVE  /\ SetNode(p, n, s, a, ref) \in Graph
         /\ SetNode(p, n, s, a, ref).version = p.version /\ SetNode(p, n, s, a, ref).inputs = p.inputs
         /\ SetNode(p, n, s, a, ref).node[n].status = s /\ SetNode(p, n, s, a, ref).node[n].attempt = a
         /\ SetNode(p, n, s, a, ref).node[n].ref = ref
         /\ \A m \in Nodes \ {n} : SetNode(p, n, s, a, ref).node[m] = p.node[m]
<1> DEFINE row == [status |-> s, attempt |-> a, ref |-> ref]
           rows == [p.node EXCEPT ![n] = row]
<1>1. row \in NodeRow /\ row.status = s /\ row.attempt = a /\ row.ref = ref
  BY DEF NodeRow
<1> HIDE DEF row
<1>2. rows \in [Nodes -> NodeRow] /\ rows[n] = row /\ \A m \in Nodes \ {n} : rows[m] = p.node[m]
  BY <1>1 DEF Graph
<1>3. SetNode(p, n, s, a, ref) = [p EXCEPT !.node = rows]
  BY DEF SetNode, row, Graph
<1> HIDE DEF rows
<1>4. [p EXCEPT !.node = rows] \in Graph /\ [p EXCEPT !.node = rows].node = rows
      /\ [p EXCEPT !.node = rows].version = p.version /\ [p EXCEPT !.node = rows].inputs = p.inputs
  BY <1>2 DEF Graph
<1> QED BY <1>1, <1>2, <1>3, <1>4

\* A map of the statuses alone: restale, and the comparison with the tree of a recovery.
LEMMA StatusesFacts ==
  ASSUME NEW p \in Graph, NEW f, \A n \in Nodes : f[n] \in NodeRow, f = [n \in Nodes |-> f[n]]
  PROVE  /\ [p EXCEPT !.node = f] \in Graph /\ [p EXCEPT !.node = f].node = f
         /\ [p EXCEPT !.node = f].version = p.version /\ [p EXCEPT !.node = f].inputs = p.inputs
<1>1. f \in [Nodes -> NodeRow]
  OBVIOUS
<1> QED BY <1>1 DEF Graph

LEMMA SetStatusFacts ==
  ASSUME NEW p \in Graph, NEW n \in Nodes, NEW s \in DOMAIN Transitions
  PROVE  /\ SetStatus(p, n, s) \in Graph
         /\ SetStatus(p, n, s).version = p.version /\ SetStatus(p, n, s).inputs = p.inputs
         /\ SetStatus(p, n, s).node[n].status = s /\ SetStatus(p, n, s).node[n].attempt = p.node[n].attempt
         /\ SetStatus(p, n, s).node[n].ref = p.node[n].ref
         /\ \A m \in Nodes \ {n} : SetStatus(p, n, s).node[m] = p.node[m]
<1> DEFINE row == [p.node[n] EXCEPT !.status = s]
           rows == [p.node EXCEPT ![n] = row]
<1>1. row \in NodeRow /\ row.status = s /\ row.attempt = p.node[n].attempt /\ row.ref = p.node[n].ref
  <2>1. p.node[n] \in NodeRow
    BY DEF Graph
  <2> QED BY <2>1 DEF NodeRow
<1> HIDE DEF row
<1>2. rows \in [Nodes -> NodeRow] /\ rows[n] = row /\ \A m \in Nodes \ {n} : rows[m] = p.node[m]
  BY <1>1 DEF Graph
<1>3. SetStatus(p, n, s) = [p EXCEPT !.node = rows]
  BY DEF SetStatus, row, Graph
<1> HIDE DEF rows
<1>4. [p EXCEPT !.node = rows] \in Graph /\ [p EXCEPT !.node = rows].node = rows
      /\ [p EXCEPT !.node = rows].version = p.version /\ [p EXCEPT !.node = rows].inputs = p.inputs
  BY <1>2 DEF Graph
<1> QED BY <1>1, <1>2, <1>3, <1>4

\* A graph some of whose succeeded nodes are no longer so.
Demoted(p, q) ==
    /\ q \in Graph /\ q.version = p.version /\ q.inputs = p.inputs
    /\ \A n \in Nodes :
        /\ q.node[n].attempt = p.node[n].attempt /\ q.node[n].ref = p.node[n].ref
        /\ q.node[n].status = p.node[n].status
           \/ (p.node[n].status = "succeeded" /\ q.node[n].status = IF n = "edit" THEN "uncertain" ELSE "stale")

LEMMA RowWithStatus ==
  ASSUME NEW r \in NodeRow, NEW s \in DOMAIN Transitions
  PROVE  /\ [r EXCEPT !.status = s] \in NodeRow /\ [r EXCEPT !.status = s].status = s
         /\ [r EXCEPT !.status = s].attempt = r.attempt /\ [r EXCEPT !.status = s].ref = r.ref
  BY DEF NodeRow

LEMMA RestaleFacts ==
  ASSUME NEW p \in Graph
  PROVE  Demoted(p, Restale(p)) /\ Restale(p).node["edit"] = p.node["edit"] /\ Restale(p).node["verify"] = p.node["verify"]
<1> DEFINE low(n) == n \in Explores \cup {"analyze"} /\ p.node[n].status = "succeeded" /\ ~Valid(p.node[n].ref)
           rows == [n \in Nodes |-> IF low(n) THEN [p.node[n] EXCEPT !.status = "stale"] ELSE p.node[n]]
<1>1. Restale(p) = [p EXCEPT !.node = rows]
  BY Zenon DEF Restale
<1>2. \A n \in Nodes : p.node[n] \in NodeRow
  BY DEF Graph
<1>3. \A n \in Nodes : rows[n] = IF low(n) THEN [p.node[n] EXCEPT !.status = "stale"] ELSE p.node[n]
  BY Zenon
<1>4. "stale" \in DOMAIN Transitions
  BY StatusNames
<1>5. \A n \in Nodes : low(n) => p.node[n].status = "succeeded" /\ n # "edit" /\ n # "verify"
  BY NodeNames
<1> HIDE DEF low
<1>6. \A n \in Nodes :
        /\ rows[n] \in NodeRow /\ rows[n].attempt = p.node[n].attempt /\ rows[n].ref = p.node[n].ref
        /\ rows[n].status = IF low(n) THEN "stale" ELSE p.node[n].status
  BY <1>2, <1>3, <1>4, RowWithStatus
<1>7. rows = [n \in Nodes |-> rows[n]]
  OBVIOUS
<1>8. rows["edit"] = p.node["edit"] /\ rows["verify"] = p.node["verify"]
  BY <1>3, <1>5, NodeNames
<1> HIDE DEF rows
<1>9. [p EXCEPT !.node = rows] \in Graph /\ [p EXCEPT !.node = rows].node = rows
      /\ [p EXCEPT !.node = rows].version = p.version /\ [p EXCEPT !.node = rows].inputs = p.inputs
  BY <1>6, <1>7, StatusesFacts
<1>10. \A n \in Nodes : rows[n].status = p.node[n].status
           \/ (p.node[n].status = "succeeded" /\ rows[n].status = IF n = "edit" THEN "uncertain" ELSE "stale")
  BY <1>5, <1>6
<1> QED BY <1>1, <1>6, <1>8, <1>9, <1>10 DEF Demoted

LEMMA OutdateFacts ==
  ASSUME NEW p \in Graph
  PROVE  /\ Demoted(p, Outdate(p))
         /\ Outdate(p).node["edit"].status = "succeeded" => p.node["edit"].ref = disk \/ Undone
         /\ p.node["edit"].ref = disk => Outdate(p).node["edit"].status = p.node["edit"].status
<1> DEFINE low(n) == p.node[n].status = "succeeded" /\ p.node[n].ref # disk /\ ~(n = "edit" /\ Undone)
           word(n) == IF n = "edit" THEN "uncertain" ELSE "stale"
           rows == [n \in Nodes |-> IF low(n) THEN [p.node[n] EXCEPT !.status = word(n)] ELSE p.node[n]]
<1>1. Outdate(p) = [p EXCEPT !.node = rows]
  BY Zenon DEF Outdate, Stale
<1>2. \A n \in Nodes : p.node[n] \in NodeRow
  BY DEF Graph
<1>3. \A n \in Nodes : rows[n] = IF low(n) THEN [p.node[n] EXCEPT !.status = word(n)] ELSE p.node[n]
  BY Zenon
<1>4. \A n \in Nodes : word(n) \in DOMAIN Transitions
  BY StatusNames
<1>5. /\ \A n \in Nodes : low(n) => p.node[n].status = "succeeded"
      /\ ~low("edit") /\ p.node["edit"].status = "succeeded" => p.node["edit"].ref = disk \/ Undone
      /\ word("edit") = "uncertain" /\ (low("edit") => p.node["edit"].ref # disk)
  OBVIOUS
<1>6. \A n \in Nodes : word(n) = IF n = "edit" THEN "uncertain" ELSE "stale"
  OBVIOUS
<1> HIDE DEF low, word
<1>7. \A n \in Nodes :
        /\ rows[n] \in NodeRow /\ rows[n].attempt = p.node[n].attempt /\ rows[n].ref = p.node[n].ref
        /\ rows[n].status = IF low(n) THEN word(n) ELSE p.node[n].status
  BY <1>2, <1>3, <1>4, RowWithStatus
<1>8. rows = [n \in Nodes |-> rows[n]]
  OBVIOUS
<1> HIDE DEF rows
<1>9. [p EXCEPT !.node = rows] \in Graph /\ [p EXCEPT !.node = rows].node = rows
      /\ [p EXCEPT !.node = rows].version = p.version /\ [p EXCEPT !.node = rows].inputs = p.inputs
  BY <1>7, <1>8, StatusesFacts
<1>10. \A n \in Nodes : rows[n].status = p.node[n].status
           \/ (p.node[n].status = "succeeded" /\ rows[n].status = IF n = "edit" THEN "uncertain" ELSE "stale")
  BY <1>5, <1>6, <1>7
<1>11. /\ rows["edit"].status = "succeeded" => p.node["edit"].ref = disk \/ Undone
       /\ p.node["edit"].ref = disk => rows["edit"].status = p.node["edit"].status
  BY <1>5, <1>7, NodeNames
<1> QED BY <1>1, <1>7, <1>9, <1>10, <1>11 DEF Demoted

-----------------------------------------------------------------------------
(* The journal.                                                            *)

LEMMA TypeFacts ==
  ASSUME TypeInv
  PROVE  /\ plan \in Graph /\ plan.version \in 1 .. MaxReplans + 1 /\ plan.inputs \in 1 .. top
         /\ attempts \in Seq(AttemptRow) /\ Len(attempts) <= MaxAttempts /\ Ids = 1 .. Len(attempts)
         /\ DOMAIN attempts = Ids /\ Len(attempts) \in Nat
         /\ live \subseteq Ids /\ disk \in 1 .. top /\ top \in Nat /\ origin \in 1 .. top
         /\ life \in Nat /\ foreign \in Nat /\ rollback \in Rollback /\ me \in OwnerState
         /\ request \in [version : Nat, status : {"none", "started", "rejected", "committed"}]
         /\ MaxReplans \in Nat /\ MaxAttempts \in Nat
<1>1. plan \in [version : 1 .. MaxReplans + 1, inputs : 1 .. top, node : [Nodes -> NodeRow]]
  BY DEF TypeInv, PlanTypeOK
<1>2. top \in Nat /\ MaxReplans \in Nat /\ MaxAttempts \in Nat
  BY PlanAssumption DEF TypeInv
<1>3. plan \in Graph /\ plan.version \in 1 .. MaxReplans + 1 /\ plan.inputs \in 1 .. top
  <2>1. 1 .. MaxReplans + 1 \subseteq Nat /\ 1 .. top \subseteq Nat
    BY <1>2
  <2> QED BY <1>1, <2>1 DEF Graph
<1>4. attempts \in Seq(AttemptRow)
  BY DEF TypeInv, PlanTypeOK
<1>5. Len(attempts) \in Nat /\ DOMAIN attempts = 1 .. Len(attempts)
  BY <1>4
<1> QED BY <1>2, <1>3, <1>4, <1>5 DEF TypeInv, PlanTypeOK, Ids

LEMMA RowFacts ==
  ASSUME TypeInv, NEW a \in Ids
  PROVE  /\ attempts[a] \in AttemptRow /\ NodeOf(a) \in Nodes /\ a \in Nat \ {0}
         /\ attempts[a].version \in Nat /\ attempts[a].ref \in Nat /\ attempts[a].phase \in Phases
         /\ attempts[a].ops \in Seq(Op) /\ attempts[a].life \in Nat /\ attempts[a].before \in Nat
         /\ attempts[a].result \in Results
<1>1. attempts[a] \in AttemptRow /\ a \in Nat \ {0}
  BY TypeFacts
<1> QED BY <1>1 DEF AttemptRow, NodeOf

LEMMA GraphFacts ==
  ASSUME TypeInv, NEW n \in Nodes
  PROVE  Status(n) \in DOMAIN Transitions /\ HolderOf(n) \in Nat /\ plan.node[n].ref \in Nat /\ plan.node[n].status = Status(n)
         /\ plan.node[n].attempt = HolderOf(n)
<1>1. plan.node[n] \in NodeRow
  BY TypeFacts DEF Graph
<1> QED BY <1>1 DEF NodeRow, Status, HolderOf

\* The row of one attempt is written.
RowWritten(a, row) ==
    /\ attempts' \in Seq(AttemptRow) /\ Len(attempts') = Len(attempts) /\ Ids' = Ids
    /\ attempts'[a] = row
    /\ \A b \in Ids \ {a} : attempts'[b] = attempts[b]
    /\ \A b \in Ids : attempts'[b] \in AttemptRow

LEMMA WriteRow ==
  ASSUME TypeInv, NEW a \in Ids, NEW row \in AttemptRow, attempts' = [attempts EXCEPT ![a] = row]
  PROVE  RowWritten(a, row)
<1>1. attempts \in Seq(AttemptRow) /\ a \in 1 .. Len(attempts)
  BY TypeFacts
<1>2. attempts' \in Seq(AttemptRow) /\ Len(attempts') = Len(attempts)
  BY <1>1
<1>3. attempts'[a] = row /\ \A b \in Ids \ {a} : attempts'[b] = attempts[b]
  BY <1>1 DEF Ids
<1>4. \A b \in Ids : attempts'[b] \in AttemptRow
  BY <1>1, <1>2 DEF Ids
<1> QED BY <1>2, <1>3, <1>4 DEF RowWritten, Ids

LEMMA OpenRule ==
  ASSUME TypeInv, NEW a \in Ids, NEW row \in AttemptRow, RowWritten(a, row)
  PROVE  OpenAttempts' = IF row.phase = "reconciled" THEN OpenAttempts \ {a} ELSE OpenAttempts \cup {a}
  BY DEF RowWritten, OpenAttempts

-----------------------------------------------------------------------------
(* Steps that leave the graph alone and move attempts on.                  *)

\* No attempt is begun or ended, and none goes back.
Advances ==
    /\ plan' = plan /\ Ids' = Ids
    /\ \A b \in Ids :
        /\ attempts'[b].node = attempts[b].node /\ attempts'[b].version = attempts[b].version
        /\ attempts'[b].terminal = attempts[b].terminal /\ attempts'[b].life = attempts[b].life
        /\ attempts'[b].phase = attempts[b].phase
           \/ (attempts[b].phase \in {"dispatched", "result_recorded"} /\ attempts'[b].phase = "result_recorded")
        /\ attempts'[b].ops = attempts[b].ops
           \/ /\ attempts[b].phase # "prepared"
              /\ attempts[b].ops # <<>> \/ attempts[b].phase \in {"dispatched", "result_recorded"}
              /\ \A o \in ToSet(attempts'[b].ops) : (o.tool = "write" => attempts[b].node = "edit") /\ (o.stopped => o.phase = "result_recorded")

LEMMA OpenKept == ASSUME PlanInv, Advances PROVE OpenAttempts' = OpenAttempts
  BY DEF Advances, OpenAttempts

LEMMA JournalKept ==
  ASSUME PlanInv, Advances
  PROVE  NodeInv' /\ AttemptInv' /\ EditInv'
<1>1. plan' = plan /\ Ids' = Ids /\ OpenAttempts' = OpenAttempts
  BY OpenKept DEF Advances
<1>2. \A b \in Ids :
        /\ attempts'[b].node = attempts[b].node /\ attempts'[b].version = attempts[b].version
        /\ attempts'[b].terminal = attempts[b].terminal
        /\ attempts'[b].phase = "reconciled" <=> attempts[b].phase = "reconciled"
        /\ attempts'[b].phase = "prepared" <=> attempts[b].phase = "prepared"
  BY DEF Advances
<1>3. NodeInv'
  BY <1>1, <1>2 DEF PlanInv, NodeInv, Status, HolderOf, NodeOf
<1>4. AttemptsMatchNodes'
  <2>1. \A a \in OpenAttempts :
          /\ Owned(a)' = Owned(a)
          /\ attempts'[a].node = attempts[a].node
          /\ attempts'[a].phase = "prepared" <=> attempts[a].phase = "prepared"
    BY <1>1, <1>2 DEF Owned, OpenAttempts
  <2>2. /\ \A a \in OpenAttempts' :
              /\ Owned(a)' \/ (attempts'[a].node \in Explores /\ attempts'[a].phase = "prepared")
              /\ \A b \in OpenAttempts' : attempts'[b].node = attempts'[a].node => b = a
    BY <1>1, <2>1 DEF PlanInv, AttemptInv, AttemptsMatchNodes
  <2>3. ASSUME NEW n \in Nodes, plan.node[n].attempt # 0, attempts'[plan.node[n].attempt].phase = "reconciled"
        PROVE  Status(n) \in CASE attempts'[plan.node[n].attempt].terminal = "succeeded" -> {"succeeded", "stale", "ready", "running", "uncertain"}
                              [] OTHER -> {attempts'[plan.node[n].attempt].terminal}
    <3> DEFINE a == plan.node[n].attempt
    <3>1. a \in Ids
      BY <2>3 DEF PlanInv, NodeInv, HolderOf
    <3>2. attempts[a].phase = "reconciled" /\ attempts'[a].terminal = attempts[a].terminal
      BY <1>2, <2>3, <3>1
    <3> QED BY <2>3, <3>2, Zenon DEF PlanInv, AttemptInv, AttemptsMatchNodes
  <2>4. \A n \in Nodes : Status(n)' = Status(n)
    BY <1>1 DEF Status
  <2> QED BY <1>1, <2>2, <2>3, <2>4, Zenon DEF AttemptsMatchNodes
<1>5. AttemptInv'
  <2>1. ASSUME NEW a \in Ids
        PROVE  /\ attempts'[a].version <= plan.version
               /\ a \in OpenAttempts => attempts'[a].version = plan.version
               /\ attempts'[a].phase = "prepared" => attempts'[a].ops = <<>>
               /\ attempts'[a].phase = "reconciled" => attempts'[a].terminal \in Outcomes
               /\ \A o \in ToSet(attempts'[a].ops) : (o.tool = "write" => attempts'[a].node = "edit") /\ (o.stopped => o.phase = "result_recorded")
    BY <1>2 DEF PlanInv, AttemptInv, Advances, OpsOf, NodeOf
  <2> QED BY <1>1, <1>4, <2>1 DEF AttemptInv, OpsOf, NodeOf
<1>6. EditInv'
  <2>1. \A a \in Ids : attempts'[a].node = "edit" /\ (attempts'[a].phase \in {"dispatched", "result_recorded"} \/ attempts'[a].ops # <<>>)
                => Sent(a)
    BY <1>2 DEF Advances, Sent, NodeOf
  <2> QED BY <1>1, <1>2, <2>1 DEF PlanInv, EditInv, Sent, NodeOf, Status
<1> QED BY <1>3, <1>5, <1>6

LEMMA OwnerKept ==
  ASSUME PlanInv, Advances, me' = me, life' = life,
         me.pc \in Starting => \A b \in Ids : attempts'[b].phase = attempts[b].phase
  PROVE  OwnerInv' /\ RecoveryInv' /\ ReadInv'
<1>1. plan' = plan /\ Ids' = Ids /\ OpenAttempts' = OpenAttempts /\ InHand' = InHand
  BY OpenKept DEF Advances, InHand
<1>2. \A b \in Ids :
        /\ attempts'[b].node = attempts[b].node /\ attempts'[b].life = attempts[b].life
        /\ attempts[b].phase = "result_recorded" => attempts'[b].phase = "result_recorded"
        /\ attempts[b].phase \in {"dispatched", "result_recorded"} => attempts'[b].phase \in {"dispatched", "result_recorded"}
  BY DEF Advances
<1>3. InHand \subseteq Ids /\ ToSet(me.batch) \subseteq InHand /\ ToSet(me.batch) \subseteq Ids
  BY DEF PlanInv, OwnerInv, OpenAttempts, InHand
<1>4. \A b \in Ids : Holds(b)' = Holds(b)
  BY <1>1, <1>2 DEF Holds, Status, HolderOf, NodeOf
<1>5. me.pc \in {"mark", "dispatch", "settle", "reconcile"} => me.a \in InHand
  BY DEF InHand
<1>6. OwnerInv'
  BY <1>1, <1>2, <1>3, <1>4, <1>5 DEF PlanInv, OwnerInv, Starting, NodeOf, Status
<1>7. RecoveryInv'
  <2>1. me.pc = "restarted" => Head(me.queue) \in Ids
    <3> SUFFICES ASSUME me.pc = "restarted" PROVE Head(me.queue) \in Ids
      OBVIOUS
    <3>1. me.queue \in Seq(Nat) /\ me.queue # <<>> /\ ToSet(me.queue) \subseteq OpenAttempts
      BY DEF PlanInv, RecoveryInv
    <3> QED BY <3>1, MemberOf DEF OpenAttempts
  <2> QED BY <1>1, <1>2, <2>1 DEF PlanInv, RecoveryInv, NodeOf, Status, HolderOf
<1>8. ReadInv'
  BY <1>1, <1>2, <1>3, <1>5 DEF PlanInv, ReadInv, NodeOf, Status, Starting
<1> QED BY <1>6, <1>7, <1>8

LEMMA PatchKept ==
  ASSUME PlanInv, Advances, UNCHANGED <<me, rollback, foreign>>,
         disk' = disk \/ Status("edit") # "succeeded"
  PROVE  PatchInv'
<1>1. plan' = plan /\ Ids' = Ids /\ OpenAttempts' = OpenAttempts
  BY OpenKept DEF Advances
<1>2. \A b \in Ids : attempts'[b].node = attempts[b].node
  BY DEF Advances
<1>3. OpenAttempts \subseteq Ids
  BY DEF OpenAttempts
<1>4. me.pc \in {"reconcile", "row", "after"} => me.a \in Ids
  BY <1>3 DEF PlanInv, OwnerInv, InHand
<1>5. PatchIsThere' = PatchIsThere /\ RolledBack' = RolledBack /\ \A n \in Nodes : Status(n)' = Status(n)
  BY <1>1 DEF PatchIsThere, RolledBack, Status
<1>6. {"edit", "verify"} \subseteq Nodes
  BY NodeNames
<1>7. NobodyElse => NobodyElse'
  BY <1>1, <1>2, <1>3, <1>4, <1>5, <1>6 DEF NobodyElse, NodeOf
<1> QED BY <1>1, <1>7 DEF PlanInv, PatchInv

LEMMA TypeMade ==
  ASSUME plan' \in Graph, plan'.version \in 1 .. MaxReplans + 1, plan'.inputs \in 1 .. top',
         attempts' \in Seq(AttemptRow), Len(attempts') <= MaxAttempts, live' \subseteq Ids',
         disk' \in 1 .. top', top' \in Nat, origin' \in 1 .. top', life' \in Nat, foreign' \in Nat,
         rollback' \in Rollback, request' \in [version : Nat, status : {"none", "started", "rejected", "committed"}],
         me' \in OwnerState
  PROVE  TypeInv'
<1>1. plan' \in [version : 1 .. MaxReplans + 1, inputs : 1 .. top', node : [Nodes -> NodeRow]]
  BY DEF Graph
<1>2. request'.status \in {"none", "started", "rejected", "committed"}
  OBVIOUS
<1> QED BY <1>1, <1>2 DEF TypeInv, PlanTypeOK

\* The operations of one attempt are written, and no more of it.
OpsWritten(a, ops) ==
    /\ RowWritten(a, attempts'[a]) /\ attempts'[a].ops = ops
    /\ attempts'[a].node = attempts[a].node /\ attempts'[a].version = attempts[a].version
    /\ attempts'[a].terminal = attempts[a].terminal /\ attempts'[a].phase = attempts[a].phase
    /\ attempts'[a].result = attempts[a].result /\ attempts'[a].life = attempts[a].life

LEMMA WriteOps ==
  ASSUME TypeInv, NEW a \in Ids, NEW ops \in Seq(Op),
         attempts' = [attempts EXCEPT ![a] = [attempts[a] EXCEPT !.ops = ops]]
  PROVE  OpsWritten(a, ops)
<1> DEFINE row == [attempts[a] EXCEPT !.ops = ops]
<1>1. attempts[a] \in AttemptRow
  BY RowFacts
<1>2. row \in AttemptRow /\ row.ops = ops /\ row.node = attempts[a].node /\ row.version = attempts[a].version
      /\ row.terminal = attempts[a].terminal /\ row.phase = attempts[a].phase
      /\ row.result = attempts[a].result /\ row.life = attempts[a].life
  BY <1>1 DEF AttemptRow
<1> HIDE DEF row
<1>3. RowWritten(a, row)
  BY <1>2, WriteRow DEF row
<1>4. attempts'[a] = row
  BY <1>3 DEF RowWritten
<1> QED BY <1>2, <1>3, <1>4 DEF OpsWritten

LEMMA WriteLastOp ==
  ASSUME TypeInv, NEW a \in Ids, attempts[a].ops # <<>>, NEW o \in Op, SetOp(a, o)
  PROVE  \E ops \in Seq(Op) :
            /\ OpsWritten(a, ops) /\ ops # <<>> /\ Last(ops) = o
            /\ \A x \in ToSet(ops) : x = o \/ x \in OpsOf(a)
<1> DEFINE old == attempts[a].ops
           ops == [old EXCEPT ![Len(old)] = o]
<1>1. old \in Seq(Op) /\ Len(old) \in Nat \ {0}
  BY RowFacts, EmptySeq
<1>2. ops \in Seq(Op) /\ Len(ops) = Len(old) /\ ops[Len(old)] = o /\ \A i \in 1 .. Len(old) : i # Len(old) => ops[i] = old[i]
  BY <1>1
<1>3. attempts' = [attempts EXCEPT ![a] = [attempts[a] EXCEPT !.ops = ops]]
  BY Zenon DEF SetOp
<1> HIDE DEF ops
<1>4. OpsWritten(a, ops)
  BY <1>2, <1>3, WriteOps
<1>5. ops # <<>> /\ Last(ops) = o
  BY <1>1, <1>2, EmptySeq DEF Last
<1>6. \A x \in ToSet(ops) : x = o \/ x \in OpsOf(a)
  BY <1>1, <1>2 DEF ToSet, OpsOf
<1> QED BY <1>2, <1>4, <1>5, <1>6

LEMMA LastOp ==
  ASSUME TypeInv, NEW a \in Ids, attempts[a].ops # <<>>
  PROVE  Last(attempts[a].ops) \in Op /\ Last(attempts[a].ops) \in OpsOf(a)
<1>1. attempts[a].ops \in Seq(Op) /\ Len(attempts[a].ops) \in Nat \ {0}
  BY RowFacts, EmptySeq
<1> QED BY <1>1 DEF Last, OpsOf, ToSet

LEMMA OpsAdvance ==
  ASSUME PlanInv, NEW a \in Ids, NEW ops, OpsWritten(a, ops), plan' = plan, attempts[a].phase # "prepared",
         attempts[a].ops # <<>> \/ attempts[a].phase \in {"dispatched", "result_recorded"},
         \A o \in ToSet(ops) : (o.tool = "write" => attempts[a].node = "edit") /\ (o.stopped => o.phase = "result_recorded")
  PROVE  Advances /\ \A b \in Ids : attempts'[b].phase = attempts[b].phase
  BY DEF OpsWritten, RowWritten, Advances

\* A callback is on the way: its attempt is in hand, and its node is running.
LEMMA ExecutingFacts ==
  ASSUME PlanInv, NEW a, Executing(a)
  PROVE  /\ a \in Ids /\ a \in OpenAttempts /\ me.pc = "run" /\ attempts[a].phase = "dispatched" /\ attempts[a].life = life
         /\ a \in ToSet(me.batch) /\ Holds(a) /\ attempts[a].version = plan.version
         /\ NodeOf(a) \notin Explores => ToSet(me.batch) = {a}
         /\ NodeOf(a) \in Explores => \A b \in ToSet(me.batch) : NodeOf(b) \in Explores
<1>1. me.pc = "run" /\ a \in ToSet(me.batch) /\ attempts[a].phase = "dispatched"
  BY DEF Executing
<1>2. a \in OpenAttempts /\ a \in Ids /\ Holds(a)
  BY <1>1 DEF PlanInv, OwnerInv, InHand, OpenAttempts
<1>3. attempts[a].version = plan.version /\ attempts[a].life = life
  BY <1>1, <1>2 DEF PlanInv, AttemptInv, OwnerInv, InHand
<1>4. me.batch \in Seq(Nat)
  BY TypeFacts DEF PlanInv, OwnerState
<1>5. CASE me.before # 0
  <2>1. \A b \in ToSet(me.batch) : NodeOf(b) \in Explores
    BY <1>1, <1>5 DEF PlanInv, ReadInv, InHand
  <2> QED BY <1>1, <1>2, <1>3, <2>1
<1>6. CASE me.before = 0
  <2>1. Len(me.batch) = 1
    BY <1>1, <1>6 DEF PlanInv, ReadInv
  <2>2. ToSet(me.batch) = {a}
    BY <1>1, <1>4, <2>1, AloneIsHead
  <2> QED BY <1>1, <1>2, <1>3, <2>2
<1> QED BY <1>5, <1>6

\* What an attempt that really executes is like, as the step leaves it.
LiveRow(a) ==
    /\ attempts'[a].phase # "prepared"
    /\ IF NodeOf(a) = "verify"
       THEN attempts'[a].phase = "dispatched" \/ attempts'[a].result = "uncertain"
       ELSE /\ attempts'[a].life = life
            /\ attempts'[a].ops # <<>> /\ ~Complete(Last(attempts'[a].ops))

LEMMA LiveKept ==
  ASSUME PlanInv, Advances, UNCHANGED <<me, life>>, NEW a \in Ids,
         \A b \in Ids \ {a} : attempts'[b] = attempts[b],
         live' \subseteq live \cup {a}, a \in live' => LiveRow(a), a \in live' \ live => Executing(a)
  PROVE  LiveInv'
<1>1. plan' = plan /\ \A b \in Ids : attempts'[b].node = attempts[b].node /\ attempts'[b].version = attempts[b].version
  BY DEF Advances
<1>2. live \subseteq Ids
  BY TypeFacts DEF PlanInv
<1>3. a \in live' \ live => a \in ToSet(me.batch) /\ me.pc = "run" /\ Holds(a) /\ attempts[a].version = plan.version
                             /\ (NodeOf(a) \notin Explores => ToSet(me.batch) = {a})
                             /\ (NodeOf(a) \in Explores => \A b \in ToSet(me.batch) : NodeOf(b) \in Explores)
  BY ExecutingFacts
<1>4. ASSUME NEW b \in live'
      PROVE  /\ attempts'[b].version = plan.version
             /\ plan.node[attempts'[b].node].attempt = b /\ plan.node[attempts'[b].node].status \in {"running", "uncertain"}
             /\ attempts'[b].phase # "prepared"
             /\ IF attempts'[b].node = "verify"
                THEN attempts'[b].phase = "dispatched" \/ attempts'[b].result = "uncertain"
                ELSE attempts'[b].life = life /\ attempts'[b].ops # <<>> /\ ~Complete(Last(attempts'[b].ops))
  <2>1. CASE b # a
    BY <1>1, <1>2, <1>4, <2>1 DEF PlanInv, LiveInv, NodeOf, HolderOf, Status
  <2>2. CASE b = a
    <3>1. LiveRow(a)
      BY <1>4, <2>2
    <3>2. attempts[a].version = plan.version /\ HolderOf(NodeOf(a)) = a /\ Status(NodeOf(a)) \in {"running", "uncertain"}
      <4>1. CASE a \in live
        BY <4>1 DEF PlanInv, LiveInv
      <4>2. CASE a \notin live
        BY <1>3, <1>4, <2>2, <4>2 DEF Holds
      <4> QED BY <4>1, <4>2
    <3> QED BY <1>1, <2>2, <3>1, <3>2 DEF LiveRow, NodeOf, HolderOf, Status
  <2> QED BY <2>1, <2>2
<1>5. /\ me.pc = "run" => live' \subseteq ToSet(me.batch)
      /\ me.pc \in Starting => live' = {}
  BY <1>3 DEF PlanInv, LiveInv, Starting
<1>6. \A b \in live' : attempts'[b].node \in {"edit", "verify"} => live' = {b}
  <2>1. CASE live' \subseteq live
    BY <1>1, <1>2, <2>1 DEF PlanInv, LiveInv, NothingBesideAWrite
  <2>2. CASE a \in live' \ live
    <3>1. live' \subseteq ToSet(me.batch) /\ a \in ToSet(me.batch)
      BY <1>3, <1>5, <2>2
    <3>2. CASE NodeOf(a) \notin Explores
      BY <1>3, <2>2, <3>1, <3>2
    <3>3. CASE NodeOf(a) \in Explores
      <4>1. \A b \in live' : attempts'[b].node \in Explores
        BY <1>1, <1>2, <1>3, <2>2, <3>1, <3>3 DEF NodeOf
      <4> QED BY <4>1, NodeNames
    <3> QED BY <3>2, <3>3
  <2> QED BY <2>1, <2>2
<1>7. me' = me /\ life' = life
  OBVIOUS
<1> QED BY <1>1, <1>4, <1>5, <1>6, <1>7 DEF LiveInv, NothingBesideAWrite, NodeOf, HolderOf, Status

\* What the three kinds of invariants need of a step of a callback.
LEMMA CallbackKeeps ==
  ASSUME PlanInv, Advances, UNCHANGED <<me, life, rollback, request, foreign, origin>>, NEW a \in Ids,
         \A b \in Ids \ {a} : attempts'[b] = attempts[b],
         attempts' \in Seq(AttemptRow), Len(attempts') = Len(attempts),
         me.pc \in Starting => \A b \in Ids : attempts'[b].phase = attempts[b].phase,
         live' \subseteq live \cup {a}, a \in live' => LiveRow(a), a \in live' \ live => Executing(a),
         (disk' = disk /\ top' = top) \/ (disk' = top + 1 /\ top' = top + 1 /\ Status("edit") # "succeeded")
  PROVE  PlanInv'
<1>1. NodeInv' /\ AttemptInv' /\ EditInv' /\ OwnerInv' /\ RecoveryInv' /\ ReadInv'
  BY JournalKept, OwnerKept
<1>2. PatchInv'
  BY PatchKept
<1>3. LiveInv'
  BY LiveKept
<1>4. TypeInv'
  <2>1. /\ plan \in Graph /\ plan.version \in 1 .. MaxReplans + 1 /\ plan.inputs \in 1 .. top /\ Len(attempts) <= MaxAttempts
        /\ live \subseteq Ids /\ disk \in 1 .. top /\ top \in Nat /\ origin \in 1 .. top
        /\ life \in Nat /\ foreign \in Nat /\ rollback \in Rollback /\ me \in OwnerState
        /\ request \in [version : Nat, status : {"none", "started", "rejected", "committed"}]
    BY TypeFacts DEF PlanInv
  <2>2. disk' \in 1 .. top' /\ top' \in Nat /\ plan'.inputs \in 1 .. top' /\ origin' \in 1 .. top' /\ plan' = plan /\ Ids' = Ids
    BY <2>1 DEF Advances
  <2>3. live' \subseteq Ids'
    BY <2>1, <2>2
  <2> QED BY <2>1, <2>2, <2>3, TypeMade
<1> QED BY <1>1, <1>2, <1>3, <1>4 DEF PlanInv

LEMMA OpPrepareKeeps == ASSUME PlanInv, NEW a \in Ids, NEW tool, OpPrepare(a, tool) PROVE PlanInv'
<1> DEFINE o == [tool |-> tool, phase |-> "prepared", before |-> disk,
                 after |-> 0, ok |-> FALSE, stopped |-> FALSE, wrote |-> FALSE]
           ops == Append(attempts[a].ops, o)
<1>1. Executing(a) /\ tool \in Tools(a) /\ (\A x \in OpsOf(a) : ~Unknown(x))
      /\ UNCHANGED <<plan, live, disk, top, origin, rollback, request, life, foreign, me>>
  BY DEF OpPrepare, world
<1>2. attempts' = [attempts EXCEPT ![a] = [attempts[a] EXCEPT !.ops = ops]]
  BY Zenon DEF OpPrepare
<1>3. tool \in {"read", "write"} /\ (tool = "write" => NodeOf(a) = "edit") /\ NodeOf(a) \in Explores \cup {"edit"}
  BY <1>1, NodeNames DEF Tools, NodeOf
<1>4. o \in Op /\ o.tool = tool /\ o.stopped = FALSE
  <2>1. disk \in Nat
    BY TypeFacts DEF PlanInv
  <2> QED BY <1>3, <2>1 DEF Op
<1> HIDE DEF o
<1>5. ops \in Seq(Op) /\ ToSet(ops) = OpsOf(a) \cup {o}
  BY <1>4, AppendSet, RowFacts DEF PlanInv, OpsOf
<1> HIDE DEF ops
<1>6. OpsWritten(a, ops)
  BY <1>2, <1>5, WriteOps DEF PlanInv
<1>7. \A x \in ToSet(ops) : (x.tool = "write" => attempts[a].node = "edit") /\ (x.stopped => x.phase = "result_recorded")
  BY <1>3, <1>4, <1>5 DEF PlanInv, AttemptInv, NodeOf
<1>8. attempts[a].phase = "dispatched"
  BY <1>1 DEF Executing
<1>9. Advances /\ \A b \in Ids : attempts'[b].phase = attempts[b].phase
  BY <1>1, <1>6, <1>7, <1>8, OpsAdvance
<1>10. a \notin live
  <2> SUFFICES ASSUME a \in live PROVE FALSE
    OBVIOUS
  <2>1. NodeOf(a) # "verify"
    BY <1>3, NodeNames
  <2>2. attempts[a].ops # <<>> /\ ~Complete(Last(attempts[a].ops))
    BY <2>1 DEF PlanInv, LiveInv
  <2>3. Last(attempts[a].ops) \in OpsOf(a)
    BY <2>2, LastOp DEF PlanInv
  <2> QED BY <1>1, <2>2, <2>3 DEF Unknown
<1>11. attempts' \in Seq(AttemptRow) /\ Len(attempts') = Len(attempts) /\ \A b \in Ids \ {a} : attempts'[b] = attempts[b]
  BY <1>6 DEF OpsWritten, RowWritten
<1> QED BY <1>1, <1>9, <1>10, <1>11, CallbackKeeps

LEMMA LastOpWritten ==
  ASSUME PlanInv, plan' = plan, NEW a \in Ids, attempts[a].ops # <<>>, NEW o \in Op, SetOp(a, o),
         o.tool = Last(attempts[a].ops).tool, o.stopped => o.phase = "result_recorded"
  PROVE  /\ Advances /\ \A b \in Ids : attempts'[b].phase = attempts[b].phase
         /\ attempts' \in Seq(AttemptRow) /\ Len(attempts') = Len(attempts) /\ \A b \in Ids \ {a} : attempts'[b] = attempts[b]
         /\ attempts'[a].ops # <<>> /\ Last(attempts'[a].ops) = o
         /\ attempts'[a].life = attempts[a].life /\ attempts'[a].result = attempts[a].result
<1>1. PICK ops \in Seq(Op) : /\ OpsWritten(a, ops) /\ ops # <<>> /\ Last(ops) = o
                             /\ \A x \in ToSet(ops) : x = o \/ x \in OpsOf(a)
  BY WriteLastOp DEF PlanInv
<1>2. attempts[a].phase # "prepared"
  BY DEF PlanInv, AttemptInv
<1>3. Last(attempts[a].ops) \in OpsOf(a)
  BY LastOp DEF PlanInv
<1>4. \A x \in ToSet(ops) : (x.tool = "write" => attempts[a].node = "edit") /\ (x.stopped => x.phase = "result_recorded")
  BY <1>1, <1>3 DEF PlanInv, AttemptInv, NodeOf
<1>5. Advances /\ \A b \in Ids : attempts'[b].phase = attempts[b].phase
  BY <1>1, <1>2, <1>4, OpsAdvance
<1> QED BY <1>1, <1>5 DEF OpsWritten, RowWritten

LEMMA OpDispatchKeeps == ASSUME PlanInv, NEW a \in Ids, OpDispatch(a) PROVE PlanInv'
<1> DEFINE last == Last(attempts[a].ops)
           o == [last EXCEPT !.phase = "dispatched"]
<1>1. Executing(a) /\ InFlight(a) /\ SetOp(a, o) /\ live' = live \cup {a} /\ last.phase = "prepared"
      /\ UNCHANGED <<plan, disk, top, origin, rollback, request, life, foreign, me>>
  BY DEF OpDispatch, world
<1>2. attempts[a].ops # <<>>
  BY <1>1 DEF InFlight
<1>3. last \in Op /\ last \in OpsOf(a)
  BY <1>2, LastOp DEF PlanInv
<1>4. ~last.stopped
  BY <1>1, <1>3 DEF PlanInv, AttemptInv
<1>5. o \in Op /\ o.tool = last.tool /\ o.stopped = last.stopped /\ o.phase = "dispatched"
  BY <1>3 DEF Op
<1> HIDE DEF o
<1>6. /\ Advances /\ \A b \in Ids : attempts'[b].phase = attempts[b].phase
      /\ attempts' \in Seq(AttemptRow) /\ Len(attempts') = Len(attempts) /\ \A b \in Ids \ {a} : attempts'[b] = attempts[b]
      /\ attempts'[a].ops # <<>> /\ Last(attempts'[a].ops) = o /\ attempts'[a].life = attempts[a].life
  BY <1>1, <1>2, <1>4, <1>5, LastOpWritten
<1>7. attempts[a].phase = "dispatched"
  BY <1>1 DEF Executing
<1>8. a \in live' \ live => Executing(a)
  BY <1>1
<1>9. LiveRow(a)
  <2>1. attempts'[a].phase = "dispatched"
    BY <1>6, <1>7
  <2>2. ~Complete(o)
    BY <1>5 DEF Complete
  <2>3. attempts[a].life = life
    BY <1>1, ExecutingFacts
  <2> QED BY <1>6, <2>1, <2>2, <2>3 DEF LiveRow
<1> QED BY <1>1, <1>6, <1>8, <1>9, CallbackKeeps

LEMMA ToolWritesKeeps == ASSUME PlanInv, NEW a \in Ids, ToolWrites(a) PROVE PlanInv'
<1> DEFINE last == Last(attempts[a].ops)
           o == [last EXCEPT !.wrote = TRUE]
<1>1. a \in live /\ NodeOf(a) = "edit" /\ SetOp(a, o) /\ disk' = top + 1 /\ top' = top + 1
      /\ UNCHANGED <<plan, live, origin, rollback, request, life, foreign, me>>
  BY DEF ToolWrites, NodeOf
<1>2. attempts[a].ops # <<>> /\ ~Complete(last) /\ attempts[a].life = life /\ attempts[a].phase # "prepared"
      /\ Status("edit") \in {"running", "uncertain"}
  BY <1>1 DEF PlanInv, LiveInv
<1>3. last \in Op /\ last \in OpsOf(a)
  BY <1>2, LastOp DEF PlanInv
<1>4. o \in Op /\ o.tool = last.tool /\ o.stopped = last.stopped /\ o.phase = last.phase
  BY <1>3 DEF Op
<1>5. last.stopped => last.phase = "result_recorded"
  BY <1>3 DEF PlanInv, AttemptInv
<1> HIDE DEF o
<1>6. /\ Advances /\ \A b \in Ids : attempts'[b].phase = attempts[b].phase
      /\ attempts' \in Seq(AttemptRow) /\ Len(attempts') = Len(attempts) /\ \A b \in Ids \ {a} : attempts'[b] = attempts[b]
      /\ attempts'[a].ops # <<>> /\ Last(attempts'[a].ops) = o /\ attempts'[a].life = attempts[a].life
  BY <1>1, <1>2, <1>4, <1>5, LastOpWritten
<1>7. LiveRow(a)
  <2>1. ~Complete(o)
    BY <1>2, <1>4 DEF Complete
  <2> QED BY <1>1, <1>2, <1>6, <2>1 DEF LiveRow
<1> QED BY <1>1, <1>2, <1>6, <1>7, CallbackKeeps

LEMMA OpRecordKeeps == ASSUME PlanInv, NEW a \in Ids, OpRecord(a) PROVE PlanInv'
<1> DEFINE last == Last(attempts[a].ops)
           o(ok) == [last EXCEPT !.phase = "result_recorded", !.after = disk, !.ok = ok, !.stopped = Stopped(last)]
<1>1. Executing(a) /\ InFlight(a) /\ live' = live \ {a}
      /\ UNCHANGED <<plan, disk, top, origin, rollback, request, life, foreign, me>>
  BY DEF OpRecord, world
<1>2. PICK ok \in BOOLEAN : SetOp(a, o(ok))
  BY DEF OpRecord
<1>3. attempts[a].ops # <<>>
  BY <1>1 DEF InFlight
<1>4. last \in Op /\ last \in OpsOf(a)
  BY <1>3, LastOp DEF PlanInv
<1>5. disk \in Nat /\ Stopped(last) \in BOOLEAN
  BY TypeFacts DEF PlanInv, Stopped
<1>6. o(ok) \in Op /\ o(ok).tool = last.tool /\ o(ok).phase = "result_recorded"
  <2> DEFINE stopped == Stopped(last)
  <2>1. stopped \in BOOLEAN
    BY <1>5
  <2> HIDE DEF stopped
  <2>2. LET x == [last EXCEPT !.phase = "result_recorded", !.after = disk, !.ok = ok, !.stopped = stopped]
        IN  x \in Op /\ x.tool = last.tool /\ x.phase = "result_recorded"
    BY <1>4, <1>5, <2>1 DEF Op
  <2> QED BY <2>2 DEF stopped
<1> HIDE DEF o
<1>7. /\ Advances /\ \A b \in Ids : attempts'[b].phase = attempts[b].phase
      /\ attempts' \in Seq(AttemptRow) /\ Len(attempts') = Len(attempts) /\ \A b \in Ids \ {a} : attempts'[b] = attempts[b]
  BY <1>1, <1>2, <1>3, <1>6, LastOpWritten
<1> QED BY <1>1, <1>7, CallbackKeeps

LEMMA OpTimeoutKeeps == ASSUME PlanInv, NEW a \in Ids, OpTimeout(a) PROVE PlanInv'
<1> DEFINE last == Last(attempts[a].ops)
           o == [last EXCEPT !.phase = "result_recorded", !.after = disk]
<1>1. Executing(a) /\ InFlight(a) /\ a \in live /\ SetOp(a, o)
      /\ UNCHANGED <<plan, live, disk, top, origin, rollback, request, life, foreign, me>>
  BY DEF OpTimeout, world
<1>2. attempts[a].ops # <<>> /\ last.phase # "result_recorded"
  BY <1>1 DEF InFlight
<1>3. last \in Op /\ last \in OpsOf(a) /\ disk \in Nat
  BY <1>2, LastOp, TypeFacts DEF PlanInv
<1>4. o \in Op /\ o.tool = last.tool /\ o.phase = "result_recorded" /\ o.stopped = last.stopped
  BY <1>3 DEF Op
<1>5. ~last.stopped
  BY <1>2, <1>3 DEF PlanInv, AttemptInv
<1> HIDE DEF o
<1>6. /\ Advances /\ \A b \in Ids : attempts'[b].phase = attempts[b].phase
      /\ attempts' \in Seq(AttemptRow) /\ Len(attempts') = Len(attempts) /\ \A b \in Ids \ {a} : attempts'[b] = attempts[b]
      /\ attempts'[a].ops # <<>> /\ Last(attempts'[a].ops) = o /\ attempts'[a].life = attempts[a].life
  BY <1>1, <1>2, <1>4, LastOpWritten
<1>7. LiveRow(a)
  <2>1. attempts'[a].phase = "dispatched"
    BY <1>1, <1>6 DEF Executing
  <2>2. NodeOf(a) # "verify" => attempts[a].life = life
    BY <1>1 DEF PlanInv, LiveInv
  <2>3. ~Complete(o)
    BY <1>4, <1>5 DEF Complete
  <2> QED BY <1>6, <2>1, <2>2, <2>3 DEF LiveRow
<1> QED BY <1>1, <1>6, <1>7, CallbackKeeps

LEMMA LateEndKeeps == ASSUME PlanInv, NEW a \in Ids, LateEnd(a) PROVE PlanInv'
<1>1. a \in live /\ live' = live \ {a} /\ attempts' = attempts
      /\ UNCHANGED <<plan, disk, top, origin, rollback, request, life, foreign, me>>
  BY DEF LateEnd, world
<1>2. Advances /\ \A b \in Ids : attempts'[b].phase = attempts[b].phase
  BY <1>1 DEF Advances, Ids
<1>3. attempts' \in Seq(AttemptRow) /\ Len(attempts') = Len(attempts)
  BY <1>1, TypeFacts DEF PlanInv
<1> QED BY <1>1, <1>2, <1>3, CallbackKeeps

\* The result of an attempt is recorded, and no more of it.
LEMMA ResultWritten ==
  ASSUME PlanInv, plan' = plan, NEW a \in Ids, NEW result \in Results, NEW ref \in Nat, Record(a, result, ref),
         attempts[a].phase \in {"dispatched", "result_recorded"}
  PROVE  /\ Advances
         /\ attempts' \in Seq(AttemptRow) /\ Len(attempts') = Len(attempts) /\ \A b \in Ids \ {a} : attempts'[b] = attempts[b]
         /\ attempts'[a].phase = "result_recorded" /\ attempts'[a].result = result
         /\ attempts'[a].ops = attempts[a].ops /\ attempts'[a].life = attempts[a].life
<1> DEFINE row == [attempts[a] EXCEPT !.phase = "result_recorded", !.result = result, !.ref = ref]
<1>1. attempts[a] \in AttemptRow /\ attempts \in Seq(AttemptRow) /\ a \in 1 .. Len(attempts)
  BY RowFacts, TypeFacts DEF PlanInv
<1>2. row \in AttemptRow /\ row.phase = "result_recorded" /\ row.result = result /\ row.ops = attempts[a].ops
      /\ row.node = attempts[a].node /\ row.version = attempts[a].version
      /\ row.terminal = attempts[a].terminal /\ row.life = attempts[a].life
  BY <1>1 DEF AttemptRow, Phases
<1>3. attempts' = [attempts EXCEPT ![a] = row]
  <2>1. attempts' = [attempts EXCEPT ![a].phase = "result_recorded", ![a].result = result, ![a].ref = ref]
    BY DEF Record
  <2> QED BY <1>1, <2>1
<1> HIDE DEF row
<1>4. RowWritten(a, row)
  BY <1>2, <1>3, WriteRow DEF PlanInv
<1>5. attempts'[a] = row /\ \A b \in Ids \ {a} : attempts'[b] = attempts[b]
  BY <1>4 DEF RowWritten
<1>6. \A o \in ToSet(row.ops) : (o.tool = "write" => attempts[a].node = "edit") /\ (o.stopped => o.phase = "result_recorded")
  BY <1>2 DEF PlanInv, AttemptInv, OpsOf, NodeOf
<1>7. Advances
  BY <1>2, <1>4, <1>5 DEF RowWritten, Advances
<1> QED BY <1>2, <1>4, <1>5, <1>7 DEF RowWritten

LEMMA CallbackRaisesKeeps == ASSUME PlanInv, NEW a \in Ids, CallbackRaises(a) PROVE PlanInv'
<1>1. Executing(a) /\ Record(a, "uncertain", 0) /\ (a \in live => NodeOf(a) # "verify")
      /\ UNCHANGED <<plan, live, disk, top, origin, rollback, request, life, foreign, me>>
  BY DEF CallbackRaises, world, NodeOf
<1>2. "uncertain" \in Results /\ attempts[a].phase = "dispatched" /\ me.pc = "run"
  BY <1>1 DEF Results, Executing
<1>3. /\ Advances
      /\ attempts' \in Seq(AttemptRow) /\ Len(attempts') = Len(attempts) /\ \A b \in Ids \ {a} : attempts'[b] = attempts[b]
      /\ attempts'[a].phase = "result_recorded" /\ attempts'[a].ops = attempts[a].ops /\ attempts'[a].life = attempts[a].life
  BY <1>1, <1>2, ResultWritten
<1>4. a \in live => LiveRow(a)
  BY <1>1, <1>3 DEF PlanInv, LiveInv, LiveRow
<1>5. me.pc \notin Starting
  BY <1>2 DEF Starting
<1> QED BY <1>1, <1>3, <1>4, <1>5, CallbackKeeps

LEMMA ToolResultIsContent == ASSUME PlanInv, NEW a PROVE ToolResult(a) \in Nat /\ disk \in Nat
  BY TypeFacts DEF PlanInv, ToolResult

LEMMA ReturnsKeeps == ASSUME PlanInv, NEW a \in Ids, Returns(a) PROVE PlanInv'
<1>1. Executing(a) /\ NodeOf(a) # "verify"
      /\ UNCHANGED <<plan, live, disk, top, origin, rollback, request, life, foreign, me>>
  BY DEF Returns, world, NodeOf
<1>2. PICK result \in Results, ref \in Nat : Record(a, result, ref)
  <2>1. "success" \in Results /\ "failed" \in Results /\ attempts[a].before \in Nat /\ 0 \in Nat
    BY RowFacts DEF PlanInv, Results
  <2>2. ToolResult(a) \in Nat /\ disk \in Nat
    BY ToolResultIsContent
  <2>3. CASE attempts[a].node = "analyze"
    <3> DEFINE ref == IF \E x \in Explores : Valid(plan.node[x].ref) THEN disk ELSE 0
    <3>1. ref \in Nat
      BY <2>2
    <3>2. ~Adopts(a) /\ attempts[a].node # "edit"
      BY <2>3, NodeNames DEF Adopts
    <3>3. Record(a, "success", ref)
      BY <2>3, <3>2 DEF Returns
    <3> QED BY <2>1, <3>1, <3>3
  <2>4. CASE attempts[a].node = "edit"
    <3>1. ~Adopts(a) /\ attempts[a].node # "analyze"
      BY <2>4, NodeNames DEF Adopts
    <3>2. Record(a, "success", ToolResult(a))
      BY <2>4, <3>1 DEF Returns
    <3> QED BY <2>1, <2>2, <3>2
  <2>5. CASE attempts[a].node # "analyze" /\ attempts[a].node # "edit"
    <3>1. \/ Record(a, "success", attempts[a].before)
          \/ Record(a, IF Last(attempts[a].ops).ok THEN "success" ELSE "failed", ToolResult(a))
      BY <2>5 DEF Returns
    <3>2. (IF Last(attempts[a].ops).ok THEN "success" ELSE "failed") \in Results
      BY <2>1
    <3> QED BY <2>1, <2>2, <3>1, <3>2
  <2> QED BY <2>3, <2>4, <2>5
<1>3. attempts[a].phase = "dispatched" /\ me.pc = "run"
  BY <1>1 DEF Executing
<1>4. /\ Advances
      /\ attempts' \in Seq(AttemptRow) /\ Len(attempts') = Len(attempts) /\ \A b \in Ids \ {a} : attempts'[b] = attempts[b]
      /\ attempts'[a].phase = "result_recorded" /\ attempts'[a].ops = attempts[a].ops /\ attempts'[a].life = attempts[a].life
  BY <1>1, <1>2, <1>3, ResultWritten
<1>5. a \in live => LiveRow(a)
  BY <1>1, <1>4 DEF PlanInv, LiveInv, LiveRow
<1>6. me.pc \notin Starting
  BY <1>3 DEF Starting
<1> QED BY <1>1, <1>4, <1>5, <1>6, CallbackKeeps

LEMMA VerifyEndsKeeps == ASSUME PlanInv, NEW a \in Ids, VerifyEnds(a) PROVE PlanInv'
<1>1. Executing(a) /\ NodeOf(a) = "verify"
      /\ UNCHANGED <<plan, disk, top, origin, rollback, request, life, foreign, me>>
  BY DEF VerifyEnds, world, NodeOf
<1>2. PICK r \in {"success", "failed", "cancelled", "interrupted", "uncertain"} :
        /\ Record(a, IF r = "interrupted" THEN "failed" ELSE r, IF r \in {"success", "failed"} THEN disk ELSE 0)
        /\ live' = IF r = "uncertain" THEN live ELSE live \ {a}
  BY DEF VerifyEnds
<1> DEFINE result == IF r = "interrupted" THEN "failed" ELSE r
           ref == IF r \in {"success", "failed"} THEN disk ELSE 0
<1>3. result \in Results /\ ref \in Nat /\ (r = "uncertain" => result = "uncertain")
  BY ToolResultIsContent DEF Results
<1>4. Record(a, result, ref)
  BY <1>2
<1> HIDE DEF result, ref
<1>5. attempts[a].phase = "dispatched" /\ me.pc = "run"
  BY <1>1 DEF Executing
<1>6. /\ Advances
      /\ attempts' \in Seq(AttemptRow) /\ Len(attempts') = Len(attempts) /\ \A b \in Ids \ {a} : attempts'[b] = attempts[b]
      /\ attempts'[a].phase = "result_recorded" /\ attempts'[a].result = result
  BY <1>1, <1>3, <1>4, <1>5, ResultWritten
<1>7. a \in live' => LiveRow(a)
  BY <1>1, <1>2, <1>3, <1>6 DEF LiveRow
<1>8. me.pc \notin Starting /\ live' \subseteq live
  BY <1>2, <1>5 DEF Starting
<1> QED BY <1>1, <1>6, <1>7, <1>8, CallbackKeeps

LEMMA AdoptWritesKeeps == ASSUME PlanInv, NEW a \in Ids, AdoptWrites(a) PROVE PlanInv'
<1>1. Recovering(a) /\ Finished(a) /\ Record(a, "success", ToolResult(a))
      /\ UNCHANGED <<plan, live, disk, top, origin, rollback, request, life, foreign, me>>
  BY DEF AdoptWrites, world
<1>2. me.pc = "recover" /\ NodeOf(a) = "edit" /\ attempts[a].ops # <<>> /\ CompleteOps(a) /\ a = Head(me.queue) /\ me.queue # <<>>
  BY <1>1 DEF Recovering, Finished, NodeOf
<1>3. a \in OpenAttempts
  <2>1. me.queue \in Seq(Nat) /\ ToSet(me.queue) \subseteq OpenAttempts
    BY <1>2 DEF PlanInv, RecoveryInv
  <2> QED BY <1>2, <2>1, MemberOf
<1>4. attempts[a].phase \in {"dispatched", "result_recorded"}
  <2>1. attempts[a].phase \in Phases
    BY RowFacts DEF PlanInv
  <2> QED BY <1>2, <1>3, <2>1 DEF PlanInv, AttemptInv, OpenAttempts, Phases
<1>5. "success" \in Results /\ ToolResult(a) \in Nat
  BY ToolResultIsContent DEF Results
<1>6. /\ Advances
      /\ attempts' \in Seq(AttemptRow) /\ Len(attempts') = Len(attempts) /\ \A b \in Ids \ {a} : attempts'[b] = attempts[b]
  BY <1>1, <1>4, <1>5, ResultWritten
<1>7. a \notin live
  <2> SUFFICES ASSUME a \in live PROVE FALSE
    OBVIOUS
  <2>1. ~Complete(Last(attempts[a].ops))
    BY <1>2 DEF PlanInv, LiveInv
  <2>2. Last(attempts[a].ops) \in OpsOf(a)
    BY <1>2, LastOp DEF PlanInv
  <2> QED BY <1>2, <2>1, <2>2 DEF CompleteOps
<1>8. me.pc \notin Starting
  BY <1>2 DEF Starting
<1> QED BY <1>1, <1>6, <1>7, <1>8, CallbackKeeps

-----------------------------------------------------------------------------
(* Steps of the owner that leave the graph and the journal alone.          *)

LEMMA OwnerTypes ==
  ASSUME PlanInv
  PROVE  /\ me \in OwnerState /\ me.batch \in Seq(Nat) /\ me.queue \in Seq(Explores \cup Nat) /\ me.a \in Nat
         /\ me.pc \in OwnerPlaces /\ me.before \in Nat /\ IdleOwner \in OwnerState /\ Closed \in OwnerState
         /\ Closed.pc = "closed" /\ Closed.batch = <<>> /\ Closed.then = "idle" /\ Closed.queue = <<>> /\ Closed.before = 0
<1>1. me \in OwnerState
  BY TypeFacts DEF PlanInv
<1>2. <<>> \in Seq(Explores \cup Nat) /\ <<>> \in Seq(Nat)
  OBVIOUS
<1>3. IdleOwner \in OwnerState
  BY <1>2 DEF OwnerState, IdleOwner, OwnerPlaces
<1>4. /\ Closed \in OwnerState /\ Closed.pc = "closed" /\ Closed.batch = <<>> /\ Closed.then = "idle"
      /\ Closed.queue = <<>> /\ Closed.before = 0
  BY <1>2 DEF OwnerState, IdleOwner, Closed, OwnerPlaces
<1> QED BY <1>1, <1>3, <1>4 DEF OwnerState

\* An owner with nothing in hand.
LEMMA AtRest ==
  ASSUME PlanInv, me.pc \in {"idle", "rollback", "restored", "reopen", "replan", "replanned"}
  PROVE  /\ me.batch = <<>> /\ InHand = {} /\ OpenAttempts = {} /\ me.then \in {"idle", "reopen"}
         /\ me.then = "reopen" <=> me.pc = "reopen"
         /\ \A n \in Nodes : Status(n) # "running"
<1>1. me.batch = <<>>
  BY DEF PlanInv, OwnerInv, Resting
<1>2. InHand = {}
  BY <1>1, NothingInEmpty DEF InHand
<1>3. me.then # "recover"
  BY DEF PlanInv, RecoveryInv, Settling
<1>4. OpenAttempts = {}
  BY <1>2, <1>3 DEF PlanInv, OwnerInv
<1>5. me.pc # "reopen" => me.then = "idle"
  BY DEF PlanInv, OwnerInv
<1>6. me.pc = "reopen" => me.then = "reopen"
  BY DEF PlanInv, ReadInv
<1>7. \A n \in Nodes : Status(n) # "running"
  BY <1>4 DEF PlanInv, NodeInv
<1> QED BY <1>1, <1>2, <1>4, <1>5, <1>6, <1>7

LEMMA NothingChanges == ASSUME PlanInv, UNCHANGED <<plan, attempts>> PROVE Advances
  BY DEF Advances, Ids

\* From rest to rest.
LEMMA RestKeeps ==
  ASSUME PlanInv, UNCHANGED <<plan, attempts, live, life, foreign>>,
         me.pc \in {"idle", "rollback", "restored", "reopen", "replan", "replanned"},
         me' \in OwnerState, me'.pc \in {"idle", "rollback", "restored", "reopen", "replan", "replanned"}, me'.batch = <<>>,
         me'.pc # "reopen" => me'.then = "idle",
         me'.pc \in {"idle", "rollback", "restored"} => me'.before = 0 /\ me'.queue = <<>>,
         me'.pc = "reopen" =>
            /\ me'.then = "reopen" /\ me'.before = 0 /\ me'.queue \in Seq(Explores) /\ IsInjective(me'.queue)
            /\ \A n \in ToSet(me'.queue) : Status(n) \in {"stale", "succeeded", "ready"},
         disk' \in 1 .. top', top' \in Nat, top <= top', origin' = origin,
         rollback' \in Rollback, request' \in [version : Nat, status : {"none", "started", "rejected", "committed"}],
         me'.pc \in {"rollback", "restored"} => rollback'.version = plan.version /\ me'.stage # "verify",
         foreign = 0 => /\ me'.pc = "idle" /\ me'.stage = "verify" => PatchIsThere'
                        /\ Status("edit") = "succeeded" /\ me'.pc \notin {"rollback", "restored"} =>
                              RolledBack' \/ PatchIsThere' \/ (me'.pc = "idle" /\ me'.stage = "end")
  PROVE  PlanInv'
<1>1. NodeInv' /\ AttemptInv' /\ EditInv' /\ OpenAttempts' = OpenAttempts
  BY NothingChanges, JournalKept, OpenKept
<1>2. InHand' = {} /\ OpenAttempts' = {} /\ OpenAttempts = {}
  BY <1>1, AtRest, NothingInEmpty DEF InHand
<1>3. ToSet(me'.batch) = {} /\ IsInjective(me'.batch)
  BY NothingInEmpty, AppendToEmpty
<1>4. OwnerInv'
  BY <1>2, <1>3 DEF OwnerInv, Resting, Starting, Settling
<1>5. RecoveryInv'
  BY DEF RecoveryInv
<1>6. ReadInv'
  BY DEF ReadInv, Starting, Status
<1>7. LiveInv'
  BY DEF PlanInv, LiveInv, NothingBesideAWrite, Starting, NodeOf, HolderOf, Status
<1>8. PatchInv'
  <2>1. foreign = 0 => NobodyElse
    BY DEF PlanInv, PatchInv
  <2>2. NobodyElse => (Status("verify") = "succeeded" =>
              Status("edit") \in {"succeeded", "uncertain"} /\ plan.node["verify"].ref = plan.node["edit"].ref)
    BY DEF NobodyElse
  <2>3. \A n : Status(n)' = Status(n)
    BY DEF Status
  <2>4. foreign' = 0 => NobodyElse'
    BY <1>2, <2>1, <2>2, <2>3 DEF NobodyElse
  <2> QED BY <2>4 DEF PatchInv
<1>9. TypeInv'
  <2>1. /\ plan \in Graph /\ plan.version \in 1 .. MaxReplans + 1 /\ plan.inputs \in 1 .. top /\ Len(attempts) <= MaxAttempts
        /\ attempts \in Seq(AttemptRow)
        /\ live \subseteq Ids /\ top \in Nat /\ origin \in 1 .. top /\ life \in Nat /\ foreign \in Nat
    BY TypeFacts DEF PlanInv
  <2>2. plan'.inputs \in 1 .. top' /\ origin' \in 1 .. top' /\ live' \subseteq Ids'
    BY <2>1 DEF Ids
  <2> QED BY <2>1, <2>2, TypeMade
<1> QED BY <1>1, <1>4, <1>5, <1>6, <1>7, <1>8, <1>9 DEF PlanInv

\* The owner ends, and leaves what it had in hand.
LEMMA ClosesKeeps ==
  ASSUME PlanInv, UNCHANGED <<plan, attempts, disk, top, origin, rollback, request, foreign>>, me' = Closed,
         \/ life' = life /\ live' = live
         \/ life' \in Nat /\ live' = {a \in live : NodeOf(a) = "verify"}
  PROVE  PlanInv'
<1>1. NodeInv' /\ AttemptInv' /\ EditInv' /\ OpenAttempts' = OpenAttempts /\ Ids' = Ids
  BY NothingChanges, JournalKept, OpenKept DEF Ids
<1>2. me' \in OwnerState /\ me'.pc = "closed" /\ me'.batch = <<>> /\ me'.then = "idle"
  BY OwnerTypes
<1>3. ToSet(me'.batch) = {} /\ IsInjective(me'.batch)
  BY <1>2, NothingInEmpty, AppendToEmpty
<1>4. InHand' = {}
  BY <1>2, <1>3 DEF InHand
<1>5. OwnerInv'
  BY <1>2, <1>3, <1>4 DEF OwnerInv, Resting, Starting, Settling
<1>6. RecoveryInv' /\ ReadInv'
  BY <1>2 DEF RecoveryInv, ReadInv, Starting
<1>7. LiveInv'
  BY <1>2 DEF PlanInv, LiveInv, NothingBesideAWrite, Starting, NodeOf, HolderOf, Status
<1>8. PatchInv'
  <2>1. PatchIsThere' = PatchIsThere /\ \A n : Status(n)' = Status(n)
    BY DEF PatchIsThere, Status
  <2>2. NobodyElse => NobodyElse'
    BY <1>1, <1>2, <2>1 DEF NobodyElse, NodeOf
  <2> QED BY <1>2, <2>2 DEF PlanInv, PatchInv
<1>9. TypeInv'
  <2>1. /\ plan \in Graph /\ plan.version \in 1 .. MaxReplans + 1 /\ plan.inputs \in 1 .. top /\ Len(attempts) <= MaxAttempts
        /\ attempts \in Seq(AttemptRow) /\ live \subseteq Ids /\ disk \in 1 .. top /\ top \in Nat
        /\ origin \in 1 .. top /\ life \in Nat /\ foreign \in Nat /\ rollback \in Rollback
        /\ request \in [version : Nat, status : {"none", "started", "rejected", "committed"}]
    BY TypeFacts DEF PlanInv
  <2>2. live' \subseteq Ids' /\ life' \in Nat
    BY <1>1, <2>1
  <2> QED BY <1>2, <2>1, <2>2, TypeMade
<1> QED BY <1>1, <1>5, <1>6, <1>7, <1>8, <1>9 DEF PlanInv

LEMMA DieKeeps == ASSUME PlanInv, Die PROVE PlanInv'
<1>1. life' = life + 1 /\ me' = Closed /\ live' = {a \in live : NodeOf(a) = "verify"}
      /\ UNCHANGED <<plan, attempts, disk, top, origin, rollback, request, foreign>>
  BY DEF Die, NodeOf
<1>2. life' \in Nat
  BY <1>1, TypeFacts DEF PlanInv
<1> QED BY <1>1, <1>2, ClosesKeeps

LEMMA AbortKeeps == ASSUME PlanInv, Abort PROVE PlanInv'
  BY ClosesKeeps DEF Abort, world

LEMMA ForeignKeeps == ASSUME PlanInv, Foreign PROVE PlanInv'
<1>1. foreign' = foreign + 1 /\ disk' = top + 1 /\ top' = top + 1
      /\ UNCHANGED <<plan, attempts, live, origin, rollback, request, life, me>>
  BY DEF Foreign
<1>2. Advances /\ \A b \in Ids : attempts'[b].phase = attempts[b].phase
  BY <1>1, NothingChanges
<1>3. NodeInv' /\ AttemptInv' /\ EditInv' /\ OwnerInv' /\ RecoveryInv' /\ ReadInv'
  BY <1>1, <1>2, JournalKept, OwnerKept
<1>4. /\ plan \in Graph /\ plan.version \in 1 .. MaxReplans + 1 /\ plan.inputs \in 1 .. top /\ Len(attempts) <= MaxAttempts
      /\ attempts \in Seq(AttemptRow) /\ live \subseteq Ids /\ disk \in 1 .. top /\ top \in Nat
      /\ origin \in 1 .. top /\ life \in Nat /\ foreign \in Nat /\ rollback \in Rollback /\ me \in OwnerState
      /\ request \in [version : Nat, status : {"none", "started", "rejected", "committed"}]
  BY TypeFacts DEF PlanInv
<1>5. foreign' # 0 /\ foreign' \in Nat /\ top' \in Nat /\ disk' \in 1 .. top' /\ origin' \in 1 .. top' /\ plan'.inputs \in 1 .. top'
  BY <1>1, <1>4
<1>6. PatchInv'
  BY <1>1, <1>5 DEF PlanInv, PatchInv
<1>7. LiveInv'
  BY <1>1 DEF PlanInv, LiveInv, NothingBesideAWrite, NodeOf, HolderOf, Status
<1>8. TypeInv'
  <2>1. live' \subseteq Ids' /\ Len(attempts') <= MaxAttempts
    BY <1>1, <1>4 DEF Ids
  <2> QED BY <1>1, <1>4, <1>5, <2>1, TypeMade
<1> QED BY <1>3, <1>6, <1>7, <1>8 DEF PlanInv

LEMMA Contents ==
  ASSUME PlanInv
  PROVE  /\ disk \in 1 .. top /\ top \in Nat /\ origin \in 1 .. top /\ rollback \in Rollback /\ disk # 0
         /\ request \in [version : Nat, status : {"none", "started", "rejected", "committed"}]
         /\ plan.version \in Nat
<1>1. /\ disk \in 1 .. top /\ top \in Nat /\ origin \in 1 .. top /\ rollback \in Rollback
      /\ request \in [version : Nat, status : {"none", "started", "rejected", "committed"}]
      /\ plan \in Graph
  BY TypeFacts DEF PlanInv
<1> QED BY <1>1 DEF Graph

LEMMA AtStageFacts ==
  ASSUME PlanInv, NEW s, AtStage(s)
  PROVE  me.pc = "idle" /\ me.stage = s /\ me.then = "idle" /\ me.batch = <<>> /\ me.before = 0 /\ me.queue = <<>> /\ OpenAttempts = {}
  BY AtRest DEF AtStage, PlanInv, OwnerInv

LEMMA AdoptPatchKeeps == ASSUME PlanInv, AdoptPatch PROVE PlanInv'
<1>1. AtStage("patch") /\ Status("edit") = "succeeded" /\ ~MustRetry /\ me' = [me EXCEPT !.stage = "verify"]
      /\ UNCHANGED <<plan, attempts, live, disk, top, origin, rollback, request, life, foreign>>
  BY DEF AdoptPatch, world
<1>2. me.pc = "idle" /\ me.stage = "patch" /\ me.then = "idle" /\ me.batch = <<>> /\ me.before = 0 /\ me.queue = <<>>
  BY <1>1, AtStageFacts
<1>3. me' \in OwnerState /\ me'.pc = "idle" /\ me'.then = "idle" /\ me'.batch = <<>> /\ me'.before = 0 /\ me'.queue = <<>> /\ me'.stage = "verify"
  BY <1>1, <1>2, OwnerTypes DEF OwnerState
<1>4. ~RolledBack
  BY <1>1 DEF MustRetry
<1>5. foreign = 0 => PatchIsThere
  BY <1>1, <1>2, <1>4 DEF PlanInv, PatchInv, NobodyElse
<1>6. PatchIsThere' = PatchIsThere
  BY <1>1 DEF PatchIsThere, Status
<1> QED BY <1>1, <1>2, <1>3, <1>5, <1>6, Contents, RestKeeps

LEMMA AdoptVerificationKeeps == ASSUME PlanInv, AdoptVerification PROVE PlanInv'
<1>1. AtStage("verify") /\ me' = [me EXCEPT !.stage = "end"]
      /\ UNCHANGED <<plan, attempts, live, disk, top, origin, rollback, request, life, foreign>>
  BY DEF AdoptVerification, world
<1>2. me.pc = "idle" /\ me.then = "idle" /\ me.batch = <<>> /\ me.before = 0 /\ me.queue = <<>>
  BY <1>1, AtStageFacts
<1>3. me' \in OwnerState /\ me'.pc = "idle" /\ me'.then = "idle" /\ me'.batch = <<>> /\ me'.before = 0 /\ me'.queue = <<>> /\ me'.stage = "end"
  BY <1>1, <1>2, OwnerTypes DEF OwnerState
<1> QED BY <1>1, <1>2, <1>3, Contents, RestKeeps

LEMMA BeginRollbackKeeps == ASSUME PlanInv, BeginRollback PROVE PlanInv'
<1>1. /\ AtStage("undo") \/ AtStage("verify")
      /\ rollback' = [version |-> plan.version, completed |-> FALSE, after |-> 0, expected |-> origin]
      /\ me' = [IdleOwner EXCEPT !.pc = "rollback"]
      /\ UNCHANGED <<plan, attempts, live, disk, top, origin, request, life, foreign>>
  BY DEF BeginRollback
<1>2. me.pc = "idle"
  BY <1>1 DEF AtStage
<1>3. me' \in OwnerState /\ me'.pc = "rollback" /\ me'.then = "idle" /\ me'.batch = <<>>
      /\ me'.before = 0 /\ me'.queue = <<>> /\ me'.stage = "patch"
  BY <1>1, OwnerTypes DEF OwnerState, IdleOwner, OwnerPlaces
<1>4. rollback' \in Rollback /\ rollback'.version = plan.version
  BY <1>1, Contents DEF Rollback
<1> QED BY <1>1, <1>2, <1>3, <1>4, Contents, RestKeeps

LEMMA RestoreFilesKeeps == ASSUME PlanInv, RestoreFiles PROVE PlanInv'
<1>1. /\ me.pc = "rollback"
      /\ \/ disk' = origin /\ top' = top /\ me' = [me EXCEPT !.pc = "restored"]
         \/ disk' = top + 1 /\ top' = top + 1 /\ me' = [IdleOwner EXCEPT !.stage = "end"]
      /\ UNCHANGED <<plan, attempts, live, origin, rollback, request, life, foreign>>
  BY DEF RestoreFiles
<1>2. me.batch = <<>> /\ me.then = "idle" /\ rollback.version = plan.version /\ me.stage # "verify"
      /\ me.before = 0 /\ me.queue = <<>>
  BY <1>1, AtRest DEF PlanInv, OwnerInv, PatchInv
<1>3. disk' \in 1 .. top' /\ top' \in Nat /\ top <= top'
  BY <1>1, Contents
<1>4. CASE me' = [me EXCEPT !.pc = "restored"]
  <2>1. me' \in OwnerState /\ me'.pc = "restored" /\ me'.then = "idle" /\ me'.batch = <<>>
        /\ me'.before = 0 /\ me'.queue = <<>> /\ me'.stage = me.stage
    BY <1>2, <1>4, OwnerTypes DEF OwnerState, OwnerPlaces
  <2> QED BY <1>1, <1>2, <1>3, <2>1, Contents, RestKeeps
<1>5. CASE me' = [IdleOwner EXCEPT !.stage = "end"]
  <2>1. me' \in OwnerState /\ me'.pc = "idle" /\ me'.then = "idle" /\ me'.batch = <<>> /\ me'.before = 0 /\ me'.queue = <<>> /\ me'.stage = "end"
    BY <1>5, OwnerTypes DEF OwnerState, IdleOwner
  <2> QED BY <1>1, <1>3, <2>1, Contents, RestKeeps
<1> QED BY <1>1, <1>4, <1>5


LEMMA EndRollbackKeeps == ASSUME PlanInv, EndRollback PROVE PlanInv'
<1> DEFINE done == disk = rollback.expected
           next == IF done THEN me.stage ELSE "end"
<1>1. /\ me.pc = "restored"
      /\ rollback' = [rollback EXCEPT !.after = disk, !.completed = done]
      /\ me' = [me EXCEPT !.pc = "idle", !.stage = next]
      /\ UNCHANGED <<plan, attempts, live, disk, top, origin, request, life, foreign>>
  BY DEF EndRollback
<1>2. me.batch = <<>> /\ me.then = "idle" /\ rollback.version = plan.version /\ me.before = 0 /\ me.queue = <<>>
      /\ me.stage # "verify"
  BY <1>1, AtRest DEF PlanInv, OwnerInv, PatchInv
<1>3. next \in {"patch", "verify", "undo", "end"} /\ next # "verify" /\ (~done => next = "end")
  BY <1>2, OwnerTypes DEF OwnerState
<1>4. done \in BOOLEAN
  OBVIOUS
<1> HIDE DEF next, done
<1>5. /\ me' \in OwnerState /\ me'.pc = "idle" /\ me'.then = "idle" /\ me'.batch = <<>> /\ me'.before = 0 /\ me'.queue = <<>>
      /\ me'.stage = next
  BY <1>1, <1>2, <1>3, OwnerTypes DEF OwnerState, OwnerPlaces
<1>6. rollback' \in Rollback /\ rollback'.version = plan.version /\ (done => rollback'.completed)
  <2>1. rollback \in Rollback /\ disk \in Nat
    BY Contents
  <2>2. CASE done
    <3>1. rollback' = [rollback EXCEPT !.after = disk, !.completed = TRUE]
      BY <1>1, <1>4, <2>2, Zenon
    <3> QED BY <1>2, <2>1, <3>1 DEF Rollback
  <2>3. CASE ~done
    <3>1. rollback' = [rollback EXCEPT !.after = disk, !.completed = FALSE]
      <4>1. done = FALSE
        BY <1>4, <2>3
      <4> QED BY <1>1, <4>1, Zenon
    <3> QED BY <1>2, <2>1, <2>3, <3>1 DEF Rollback
  <2> QED BY <2>2, <2>3
<1>7. done => RolledBack'
  BY <1>1, <1>6 DEF RolledBack
<1> QED BY <1>1, <1>3, <1>5, <1>6, <1>7, Contents, RestKeeps

\* A new graph is asked for at rest, and an edit that succeeded has been rolled back.
LEMMA SafeFacts ==
  ASSUME PlanInv, Safe
  PROVE  OpenAttempts = {} /\ (Status("edit") = "succeeded" => RolledBack) /\ plan.version <= MaxReplans
         /\ (\A n \in Nodes : Status(n) \notin {"running", "uncertain"})
  BY DEF Safe, CheckReplan, StatusIs

LEMMA RefreshEvidenceKeeps == ASSUME PlanInv, RefreshEvidence PROVE PlanInv'
<1> DEFINE again == Explores \cap StatusIs({"stale", "succeeded", "ready"})
           queue == SetToSeq(again)
<1>1. /\ AtStage("patch") /\ Safe
      /\ me' = [me EXCEPT !.pc = "reopen", !.then = "reopen", !.queue = queue]
      /\ UNCHANGED <<plan, attempts, live, disk, top, origin, rollback, request, life, foreign>>
  BY DEF RefreshEvidence, world
<1>2. me.pc = "idle" /\ me.batch = <<>> /\ me.before = 0
  BY <1>1, AtStageFacts
<1>3. IsFiniteSet(again)
  BY NodesFinite, FS_Subset
<1>4. queue \in Seq(again) /\ IsInjective(queue) /\ ToSet(queue) \subseteq again
  BY <1>3, SequenceOfSet
<1>5. again \subseteq Explores /\ \A n \in again : Status(n) \in {"stale", "succeeded", "ready"}
  BY DEF StatusIs
<1> HIDE DEF queue, again
<1>6. queue \in Seq(Explores) /\ queue \in Seq(Explores \cup Nat) /\ \A n \in ToSet(queue) : Status(n) \in {"stale", "succeeded", "ready"}
  BY <1>4, <1>5
<1>7. /\ me' \in OwnerState /\ me'.pc = "reopen" /\ me'.then = "reopen" /\ me'.batch = <<>> /\ me'.before = 0
      /\ me'.queue = queue
  BY <1>1, <1>2, <1>6, OwnerTypes DEF OwnerState, OwnerPlaces
<1>8. Status("edit") = "succeeded" => RolledBack'
  BY <1>1, SafeFacts DEF RolledBack
<1> QED BY <1>1, <1>2, <1>4, <1>6, <1>7, <1>8, Contents, RestKeeps

LEMMA ToIdleKeeps ==
  ASSUME PlanInv, UNCHANGED <<plan, attempts, live, disk, top, origin, rollback, life, foreign>>,
         me.pc \in {"reopen", "replan", "replanned"}, me' = IdleOwner,
         request' \in [version : Nat, status : {"none", "started", "rejected", "committed"}]
  PROVE  PlanInv'
<1>1. /\ me' \in OwnerState /\ me'.pc = "idle" /\ me'.then = "idle" /\ me'.batch = <<>> /\ me'.before = 0 /\ me'.queue = <<>>
      /\ me'.stage = "patch"
  BY OwnerTypes DEF IdleOwner
<1>2. me.then # "recover"
  BY AtRest
<1>3. foreign = 0 /\ Status("edit") = "succeeded" => RolledBack \/ PatchIsThere
  BY <1>2 DEF PlanInv, PatchInv, NobodyElse
<1>4. RolledBack' = RolledBack /\ PatchIsThere' = PatchIsThere
  BY DEF RolledBack, PatchIsThere, Status
<1> QED BY <1>1, <1>3, <1>4, Contents, RestKeeps

LEMMA EndReopenKeeps == ASSUME PlanInv, EndReopen PROVE PlanInv'
  BY ToIdleKeeps, Contents DEF EndReopen, world

LEMMA RequestWritten ==
  ASSUME PlanInv, NEW s \in {"none", "started", "rejected", "committed"}
  PROVE  /\ [request EXCEPT !.status = s] \in [version : Nat, status : {"none", "started", "rejected", "committed"}]
         /\ [version |-> plan.version, status |-> s] \in [version : Nat, status : {"none", "started", "rejected", "committed"}]
  BY Contents

LEMMA RejectReplanKeeps == ASSUME PlanInv, RejectReplan PROVE PlanInv'
  BY ToIdleKeeps, RequestWritten DEF RejectReplan

LEMMA EndReplanKeeps == ASSUME PlanInv, EndReplan PROVE PlanInv'
  BY ToIdleKeeps, RequestWritten DEF EndReplan

LEMMA RequestReplanKeeps == ASSUME PlanInv, RequestReplan PROVE PlanInv'
<1>1. /\ AtStage("patch") /\ Safe
      /\ request' = [version |-> plan.version, status |-> "started"]
      /\ me' = [me EXCEPT !.pc = "replan", !.before = disk]
      /\ UNCHANGED <<plan, attempts, live, disk, top, origin, rollback, life, foreign>>
  BY DEF RequestReplan
<1>2. me.pc = "idle" /\ me.batch = <<>> /\ me.then = "idle"
  BY <1>1, AtStageFacts
<1>3. disk \in Nat
  BY Contents
<1>4. me' \in OwnerState /\ me'.pc = "replan" /\ me'.then = "idle" /\ me'.batch = <<>>
  BY <1>1, <1>2, <1>3, OwnerTypes DEF OwnerState, OwnerPlaces
<1>5. Status("edit") = "succeeded" => RolledBack'
  BY <1>1, SafeFacts DEF RolledBack
<1>6. request' \in [version : Nat, status : {"none", "started", "rejected", "committed"}]
  BY <1>1, RequestWritten
<1> QED BY <1>1, <1>2, <1>4, <1>5, <1>6, Contents, RestKeeps

-----------------------------------------------------------------------------
(* Steps that change the graph.                                            *)

\* Statuses move as refresh, restale and the comparison with the tree move them; nobody's attempt changes.
Moves ==
    /\ plan' \in Graph /\ plan'.version = plan.version /\ plan'.inputs = plan.inputs
    /\ \A n \in Nodes :
        /\ plan'.node[n].attempt = HolderOf(n) /\ plan'.node[n].ref = plan.node[n].ref
        /\ \/ plan'.node[n].status = Status(n) /\ (n \in Explores => Status(n) # "pending")
           \/ /\ Status(n) \in {"pending", "ready"}
              /\ IF n \in Explores THEN plan'.node[n].status = "ready" ELSE plan'.node[n].status \in {"pending", "ready", "blocked"}
           \/ Status(n) = "succeeded" /\ plan'.node[n].status = IF n = "edit" THEN "uncertain" ELSE "stale"

LEMMA RefreshMoves ==
  ASSUME TypeInv, NEW q, Demoted(plan, q), plan' = Refresh(q)
  PROVE  Moves /\ (plan'.node["edit"].status = "succeeded" <=> q.node["edit"].status = "succeeded")
<1>1. q \in Graph /\ q.version = plan.version /\ q.inputs = plan.inputs
  BY DEF Demoted
<1>2. /\ Refresh(q) \in Graph /\ Refresh(q).version = q.version /\ Refresh(q).inputs = q.inputs
      /\ \A n \in Nodes :
          /\ Refresh(q).node[n].attempt = q.node[n].attempt /\ Refresh(q).node[n].ref = q.node[n].ref
          /\ IF q.node[n].status \notin {"pending", "ready"} THEN Refresh(q).node[n].status = q.node[n].status
             ELSE IF n \in Explores THEN Refresh(q).node[n].status = "ready"
             ELSE Refresh(q).node[n].status \in {"pending", "ready", "blocked"}
  BY <1>1, RefreshFacts
<1>3. \A n \in Nodes :
        /\ q.node[n].attempt = HolderOf(n) /\ q.node[n].ref = plan.node[n].ref
        /\ q.node[n].status = Status(n)
           \/ (Status(n) = "succeeded" /\ q.node[n].status = IF n = "edit" THEN "uncertain" ELSE "stale")
  BY DEF Demoted, HolderOf, Status
<1>4. "edit" \in Nodes /\ "edit" \notin Explores
  BY NodeNames
<1> QED BY <1>1, <1>2, <1>3, <1>4 DEF Moves

LEMMA NotDemoted == ASSUME TypeInv PROVE Demoted(plan, plan)
  BY TypeFacts DEF Demoted

\* The statuses an attempt or a node depends on do not move.
LEMMA MovesFacts ==
  ASSUME PlanInv, Moves
  PROVE  \A n \in Nodes :
            /\ HolderOf(n)' = HolderOf(n) /\ plan'.node[n].ref = plan.node[n].ref
            /\ Status(n)' = "running" <=> Status(n) = "running"
            /\ Status(n) = "uncertain" => Status(n)' = "uncertain"
            /\ Status(n) \in {"stale", "succeeded", "ready"} /\ n \in Explores => Status(n)' \in {"stale", "succeeded", "ready"}
            /\ Status(n)' = "succeeded" => Status(n) = "succeeded"
            /\ Status(n)' \in {"pending", "ready"} => Status(n) \in {"pending", "ready"}
            /\ Status(n) \in Outcomes \ {"succeeded"} => Status(n)' = Status(n)
  BY NodeNames DEF Moves, HolderOf, Status, Outcomes

\* A closed attempt and the node that still names it.
LEMMA NodeOutcome ==
  ASSUME PlanInv, NEW n \in Nodes, NEW a, a = HolderOf(n), a # 0, attempts[a].phase = "reconciled"
  PROVE  /\ attempts[a].terminal \in Outcomes /\ a \in Ids /\ NodeOf(a) = n
         /\ IF attempts[a].terminal = "succeeded" THEN Status(n) \in {"succeeded", "stale", "ready", "running", "uncertain"}
            ELSE Status(n) = attempts[a].terminal
<1>1. a = plan.node[n].attempt /\ plan.node[n].attempt # 0 /\ attempts[plan.node[n].attempt].phase = "reconciled"
  BY DEF HolderOf
<1>2. \A m \in Nodes : LET b == plan.node[m].attempt IN
          b # 0 /\ attempts[b].phase = "reconciled" =>
              Status(m) \in CASE attempts[b].terminal = "succeeded" -> {"succeeded", "stale", "ready", "running", "uncertain"}
                              [] OTHER -> {attempts[b].terminal}
  BY DEF PlanInv, AttemptInv, AttemptsMatchNodes
<1>3. Status(n) \in CASE attempts[plan.node[n].attempt].terminal = "succeeded" -> {"succeeded", "stale", "ready", "running", "uncertain"}
                        [] OTHER -> {attempts[plan.node[n].attempt].terminal}
  BY <1>1, <1>2, Zenon
<1>4. a \in Ids /\ NodeOf(a) = n
  BY DEF PlanInv, NodeInv
<1>5. attempts[a].terminal \in Outcomes
  BY <1>4 DEF PlanInv, AttemptInv
<1>6. CASE attempts[a].terminal = "succeeded"
  BY <1>1, <1>3, <1>4, <1>5, <1>6
<1>7. CASE attempts[a].terminal # "succeeded"
  BY <1>1, <1>3, <1>4, <1>5, <1>7
<1> QED BY <1>6, <1>7

LEMMA MatchMade ==
  ASSUME \A a \in OpenAttempts' :
            /\ \/ attempts'[a].version = plan'.version /\ plan'.node[attempts'[a].node].attempt \in {0, a}
               \/ attempts'[a].node \in Explores /\ attempts'[a].phase = "prepared"
            /\ \A b \in OpenAttempts' : attempts'[b].node = attempts'[a].node => b = a,
         \A n \in Nodes : \A a : a = plan'.node[n].attempt /\ a # 0 /\ attempts'[a].phase = "reconciled" =>
            IF attempts'[a].terminal = "succeeded" THEN plan'.node[n].status \in {"succeeded", "stale", "ready", "running", "uncertain"}
            ELSE plan'.node[n].status = attempts'[a].terminal
  PROVE  AttemptsMatchNodes'
<1>1. \A a \in OpenAttempts' :
          /\ Owned(a)' \/ (attempts'[a].node \in Explores /\ attempts'[a].phase = "prepared")
          /\ \A b \in OpenAttempts' : attempts'[b].node = attempts'[a].node => b = a
  BY DEF Owned
<1>2. ASSUME NEW n \in Nodes, NEW a, a = plan'.node[n].attempt, a # 0, attempts'[a].phase = "reconciled"
      PROVE  plan'.node[n].status \in CASE attempts'[a].terminal = "succeeded" -> {"succeeded", "stale", "ready", "running", "uncertain"}
                              [] OTHER -> {attempts'[a].terminal}
  <2>1. IF attempts'[a].terminal = "succeeded" THEN plan'.node[n].status \in {"succeeded", "stale", "ready", "running", "uncertain"}
        ELSE plan'.node[n].status = attempts'[a].terminal
    BY <1>2
  <2>2. CASE attempts'[a].terminal = "succeeded"
    BY <2>1, <2>2
  <2>3. CASE attempts'[a].terminal # "succeeded"
    BY <2>1, <2>3
  <2> QED BY <2>2, <2>3
<1> QED BY <1>1, <1>2 DEF AttemptsMatchNodes, Status

LEMMA JournalMoves ==
  ASSUME PlanInv, Moves, attempts' = attempts
  PROVE  NodeInv' /\ AttemptInv' /\ EditInv' /\ OpenAttempts' = OpenAttempts
<1>1. OpenAttempts' = OpenAttempts /\ Ids' = Ids /\ plan'.version = plan.version
  BY DEF OpenAttempts, Ids, Moves
<1>2. \A n \in Nodes :
            /\ HolderOf(n)' = HolderOf(n) /\ plan'.node[n].ref = plan.node[n].ref
            /\ Status(n)' = "running" <=> Status(n) = "running"
            /\ Status(n)' \in {"pending", "ready"} => Status(n) \in {"pending", "ready"}
            /\ Status(n) \in Outcomes \ {"succeeded"} => Status(n)' = Status(n)
  BY MovesFacts
<1>3. \A a \in Ids : NodeOf(a)' = NodeOf(a) /\ NodeOf(a) \in Nodes
  BY RowFacts DEF PlanInv, NodeOf
<1>4. NodeInv'
  BY <1>1, <1>2, <1>3 DEF PlanInv, NodeInv
<1>5. AttemptsMatchNodes'
  <2>1. \A a \in OpenAttempts :
          /\ \/ attempts[a].version = plan.version /\ plan.node[attempts[a].node].attempt \in {0, a}
             \/ attempts[a].node \in Explores /\ attempts[a].phase = "prepared"
          /\ attempts[a].node \in Nodes
          /\ \A b \in OpenAttempts : attempts[b].node = attempts[a].node => b = a
    BY <1>3 DEF PlanInv, AttemptInv, AttemptsMatchNodes, Owned, OpenAttempts, NodeOf
  <2>2. ASSUME NEW n \in Nodes, NEW a, a = plan'.node[n].attempt, a # 0, attempts'[a].phase = "reconciled"
        PROVE  IF attempts'[a].terminal = "succeeded" THEN plan'.node[n].status \in {"succeeded", "stale", "ready", "running", "uncertain"}
               ELSE plan'.node[n].status = attempts'[a].terminal
    <3>1. a = HolderOf(n)
      BY <1>2, <2>2 DEF HolderOf
    <3>2. /\ attempts[a].terminal \in Outcomes
          /\ IF attempts[a].terminal = "succeeded" THEN Status(n) \in {"succeeded", "stale", "ready", "running", "uncertain"}
             ELSE Status(n) = attempts[a].terminal
      BY <2>2, <3>1, NodeOutcome
    <3>3. Status(n) = "ready" => n \in Explores
      BY <2>2, <3>1 DEF PlanInv, NodeInv
    <3>4. Status(n) \in {"succeeded", "stale", "ready", "running", "uncertain"}
            => plan'.node[n].status \in {"succeeded", "stale", "ready", "running", "uncertain"}
      BY <3>3, NodeNames DEF Moves, Status
    <3>5. Status(n) \in Outcomes \ {"succeeded"} => plan'.node[n].status = Status(n)
      BY <1>2 DEF Status
    <3> QED BY <3>2, <3>4, <3>5
  <2>3. \A n \in Nodes : plan'.node[n].attempt = plan.node[n].attempt
    BY <1>2 DEF HolderOf
  <2> QED BY <1>1, <2>1, <2>2, <2>3, MatchMade
<1>6. AttemptInv'
  <2>1. \A a \in Ids :
          /\ attempts'[a].version <= plan'.version
          /\ a \in OpenAttempts => attempts'[a].version = plan'.version
          /\ attempts'[a].phase = "prepared" => attempts'[a].ops = <<>>
          /\ attempts'[a].phase = "reconciled" => attempts'[a].terminal \in Outcomes
          /\ \A o \in ToSet(attempts'[a].ops) : (o.tool = "write" => attempts'[a].node = "edit") /\ (o.stopped => o.phase = "result_recorded")
    BY <1>1 DEF PlanInv, AttemptInv, OpsOf, NodeOf
  <2> QED BY <1>1, <1>5, <2>1 DEF AttemptInv, OpsOf, NodeOf
<1>7. EditInv'
  <2>1. \A a \in Ids : Sent(a)' = Sent(a)
    BY DEF Sent, NodeOf
  <2>2. "edit" \in Nodes
    BY NodeNames
  <2> QED BY <1>1, <1>2, <1>3, <2>1, <2>2 DEF PlanInv, EditInv
<1> QED BY <1>1, <1>4, <1>6, <1>7

\* What the owner holds does not move either.
LEMMA LiveMoves ==
  ASSUME PlanInv, Moves, attempts' = attempts, live' = live, life' = life
  PROVE  /\ me'.pc \notin Starting \cup {"run"} => LiveInv'
         /\ \A a \in OpenAttempts : Holds(a)' = Holds(a)
<1>1. \A n \in Nodes :
            /\ HolderOf(n)' = HolderOf(n)
            /\ Status(n)' = "running" <=> Status(n) = "running"
            /\ Status(n) = "uncertain" => Status(n)' = "uncertain"
  BY MovesFacts
<1>2. \A a \in Ids : NodeOf(a)' = NodeOf(a) /\ NodeOf(a) \in Nodes
  BY RowFacts DEF PlanInv, NodeOf
<1>3. live \subseteq Ids /\ OpenAttempts \subseteq Ids /\ plan'.version = plan.version
  BY TypeFacts DEF PlanInv, OpenAttempts, Moves
<1>4. \A a \in live :
          /\ attempts'[a].version = plan'.version
          /\ HolderOf(NodeOf(a))' = a /\ Status(NodeOf(a))' \in {"running", "uncertain"}
          /\ attempts'[a].phase # "prepared"
          /\ IF NodeOf(a)' = "verify"
             THEN attempts'[a].phase = "dispatched" \/ attempts'[a].result = "uncertain"
             ELSE /\ attempts'[a].life = life'
                  /\ attempts'[a].ops # <<>> /\ ~Complete(Last(attempts'[a].ops))
  <2> SUFFICES ASSUME NEW a \in live
      PROVE  /\ attempts'[a].version = plan'.version
             /\ HolderOf(NodeOf(a))' = a /\ Status(NodeOf(a))' \in {"running", "uncertain"}
             /\ attempts'[a].phase # "prepared"
             /\ IF NodeOf(a)' = "verify"
                THEN attempts'[a].phase = "dispatched" \/ attempts'[a].result = "uncertain"
                ELSE /\ attempts'[a].life = life'
                     /\ attempts'[a].ops # <<>> /\ ~Complete(Last(attempts'[a].ops))
    OBVIOUS
  <2>1. NodeOf(a)' = NodeOf(a) /\ NodeOf(a) \in Nodes
    BY <1>2, <1>3
  <2>2. HolderOf(NodeOf(a))' = a /\ Status(NodeOf(a))' \in {"running", "uncertain"}
    <3> DEFINE n == NodeOf(a)
    <3>1. HolderOf(n) = a /\ Status(n) \in {"running", "uncertain"}
      BY DEF PlanInv, LiveInv
    <3>2. attempts'[a].node = n /\ n \in Nodes
      BY <2>1 DEF NodeOf
    <3> HIDE DEF n
    <3>3. plan'.node[n].attempt = a /\ plan'.node[n].status \in {"running", "uncertain"}
      BY <1>1, <3>1, <3>2 DEF HolderOf, Status
    <3> QED BY <3>2, <3>3 DEF HolderOf, Status, NodeOf
  <2> QED BY <1>3, <2>1, <2>2 DEF PlanInv, LiveInv
<1>5. NothingBesideAWrite'
  BY DEF PlanInv, LiveInv, NothingBesideAWrite
<1>6. me'.pc \notin Starting \cup {"run"} => LiveInv'
  BY <1>4, <1>5 DEF LiveInv
<1>7. ASSUME NEW a \in OpenAttempts PROVE Holds(a)' = Holds(a)
  <2> DEFINE n == NodeOf(a)
  <2>1. attempts'[a].node = n /\ n \in Nodes
    BY <1>2, <1>3 DEF NodeOf
  <2> HIDE DEF n
  <2>2. (plan'.node[n].status = "running" /\ plan'.node[n].attempt = a) <=> (Status(n) = "running" /\ HolderOf(n) = a)
    BY <1>1, <2>1 DEF HolderOf, Status
  <2> QED BY <2>1, <2>2 DEF Holds, HolderOf, Status, NodeOf, n
<1> QED BY <1>6, <1>7

\* What the tree and the evidence of the edit tell about one another moves with the graph.
LEMMA PatchMoves ==
  ASSUME PlanInv, Moves, attempts' = attempts, disk' = disk, foreign = 0,
         PatchIsThere => Status("edit")' = "succeeded"
  PROVE  /\ PatchIsThere' <=> PatchIsThere
         /\ \A a \in OpenAttempts' : NodeOf(a)' = "verify" => PatchIsThere' /\ \A b \in OpenAttempts' : NodeOf(b)' # "edit"
         /\ \A a \in OpenAttempts' : NodeOf(a)' = "edit" /\ Status("edit")' = "succeeded" => PatchIsThere'
         /\ Status("verify")' = "succeeded" =>
               /\ Status("edit")' \in {"succeeded", "uncertain"}
               /\ \A a \in OpenAttempts' : NodeOf(a)' # "edit"
               /\ plan'.node["verify"].ref = plan'.node["edit"].ref
<1>1. NobodyElse
  BY DEF PlanInv, PatchInv
<1>2. "edit" \in Nodes /\ "verify" \in Nodes /\ "edit" \notin Explores
  BY NodeNames
<1>3. OpenAttempts' = OpenAttempts /\ \A a : NodeOf(a)' = NodeOf(a)
  BY DEF OpenAttempts, Ids, NodeOf
<1>4. /\ \A n \in Nodes : plan'.node[n].ref = plan.node[n].ref
      /\ \A n \in Nodes : Status(n)' = "succeeded" => Status(n) = "succeeded"
      /\ Status("edit") = "uncertain" => Status("edit")' = "uncertain"
  BY <1>2, MovesFacts
<1>5. PatchIsThere' <=> PatchIsThere
  BY <1>2, <1>4 DEF PatchIsThere
<1>6. Status("edit") = "succeeded" => Status("edit")' \in {"succeeded", "uncertain"}
  BY <1>2 DEF Moves, Status
<1> QED BY <1>1, <1>2, <1>3, <1>4, <1>5, <1>6 DEF NobodyElse

LEMMA TypeMoves ==
  ASSUME PlanInv, Moves, attempts' = attempts, UNCHANGED <<live, disk, top, origin, rollback, life, foreign>>,
         me' \in OwnerState, request' \in [version : Nat, status : {"none", "started", "rejected", "committed"}]
  PROVE  TypeInv'
<1>1. /\ plan \in Graph /\ plan.version \in 1 .. MaxReplans + 1 /\ plan.inputs \in 1 .. top /\ Len(attempts) <= MaxAttempts
      /\ attempts \in Seq(AttemptRow) /\ live \subseteq Ids /\ disk \in 1 .. top /\ top \in Nat
      /\ origin \in 1 .. top /\ life \in Nat /\ foreign \in Nat /\ rollback \in Rollback
  BY TypeFacts DEF PlanInv
<1>2. plan' \in Graph /\ plan'.version \in 1 .. MaxReplans + 1 /\ plan'.inputs \in 1 .. top' /\ Ids' = Ids
  BY <1>1 DEF Moves, Ids
<1> QED BY <1>1, <1>2, TypeMade

LEMMA RefreshPlanKeeps == ASSUME PlanInv, RefreshPlan PROVE PlanInv'
<1>1. Patching /\ plan' = Refresh(plan)
      /\ UNCHANGED <<attempts, live, disk, top, origin, rollback, request, life, foreign, me>>
  BY DEF RefreshPlan, world
<1>2. me.pc = "idle" /\ me.stage = "patch" /\ me.then = "idle" /\ me.batch = <<>> /\ OpenAttempts = {} /\ Status("edit") # "succeeded"
  BY <1>1, AtStageFacts DEF Patching
<1>3. Moves
  BY <1>1, NotDemoted, RefreshMoves DEF PlanInv
<1>4. NodeInv' /\ AttemptInv' /\ EditInv' /\ OpenAttempts' = {} /\ LiveInv'
  BY <1>1, <1>2, <1>3, JournalMoves, LiveMoves DEF Starting
<1>5. InHand' = {} /\ ToSet(me.batch) = {}
  BY <1>1, <1>2, NothingInEmpty DEF InHand
<1>6. OwnerInv'
  BY <1>1, <1>2, <1>4, <1>5 DEF PlanInv, OwnerInv, Starting, Settling, Resting
<1>7. RecoveryInv' /\ ReadInv'
  BY <1>1, <1>2 DEF RecoveryInv, ReadInv, Starting
<1>8. PatchInv'
  <2> SUFFICES ASSUME foreign = 0 PROVE NobodyElse'
    BY <1>1, <1>2 DEF PatchInv
  <2>1. Status("edit")' # "succeeded" /\ ~PatchIsThere
    BY <1>2, <1>3, MovesFacts, NodeNames DEF PatchIsThere
  <2> QED BY <1>1, <1>2, <1>3, <2>1, PatchMoves DEF NobodyElse
<1>9. TypeInv'
  BY <1>1, <1>3, TypeMoves, TypeFacts DEF PlanInv
<1> QED BY <1>4, <1>6, <1>7, <1>8, <1>9 DEF PlanInv

LEMMA SettleAfterKeeps == ASSUME PlanInv, SettleAfter PROVE PlanInv'
<1> DEFINE done == NodeOf(me.a) = "edit" /\ me.status = "succeeded"
           q == IF done THEN Restale(plan) ELSE plan
<1>1. me.pc = "after" /\ plan' = Refresh(q) /\ me' = After
      /\ UNCHANGED <<attempts, live, disk, top, origin, rollback, request, life, foreign>>
  BY DEF SettleAfter, world, NodeOf
<1>2. Demoted(plan, q) /\ q.node["edit"] = plan.node["edit"]
  BY NotDemoted, RestaleFacts, TypeFacts DEF PlanInv
<1> HIDE DEF q
<1>3. Moves /\ (Status("edit")' = "succeeded" <=> Status("edit") = "succeeded")
  BY <1>1, <1>2, RefreshMoves DEF PlanInv, Status
<1>4. NodeInv' /\ AttemptInv' /\ EditInv' /\ OpenAttempts' = OpenAttempts /\ \A a \in OpenAttempts : Holds(a)' = Holds(a)
  BY <1>1, <1>3, JournalMoves, LiveMoves
<1>5. InHand = ToSet(me.batch) /\ me.a \in Ids /\ me.a \in Nat
  BY <1>1, RowFacts DEF PlanInv, OwnerInv, InHand
<1>6. /\ ToSet(me.batch) \subseteq OpenAttempts /\ IsInjective(me.batch)
      /\ \A a \in ToSet(me.batch) : attempts[a].phase = "result_recorded" /\ Holds(a)
      /\ me.then # "recover" => OpenAttempts = ToSet(me.batch)
      /\ me.batch \in Seq(Nat)
  BY <1>1, <1>5, OwnerTypes DEF PlanInv, OwnerInv, Settling
<1>7. /\ \A n \in Explores : Status(n) \in {"stale", "succeeded", "ready"} => Status(n)' \in {"stale", "succeeded", "ready"}
      /\ \A n \in Nodes : plan'.node[n].ref = plan.node[n].ref
  BY <1>3, MovesFacts, NodeNames
<1>8. CASE me.batch # <<>>
  <2>1. me' = [me EXCEPT !.pc = "settle", !.a = Head(me.batch), !.batch = Tail(me.batch)]
    BY <1>1, <1>8 DEF After
  <2>2. /\ Tail(me.batch) \in Seq(Nat) /\ ToSet(me.batch) = {Head(me.batch)} \cup ToSet(Tail(me.batch)) /\ Head(me.batch) \in Nat
        /\ IsInjective(Tail(me.batch)) /\ Head(me.batch) \notin ToSet(Tail(me.batch))
    BY <1>6, <1>8, TailSet
  <2>3. /\ me' \in OwnerState /\ me'.pc = "settle" /\ me'.a = Head(me.batch) /\ me'.batch = Tail(me.batch)
        /\ me'.then = me.then /\ me'.queue = me.queue /\ me'.before = me.before /\ me'.bad = me.bad
    BY <2>1, <2>2, OwnerTypes DEF OwnerState, OwnerPlaces
  <2>4. me.then # "recover"
    BY <1>8 DEF PlanInv, RecoveryInv
  <2>5. InHand' = ToSet(me.batch)
    BY <2>2, <2>3 DEF InHand
  <2>6. OwnerInv'
    BY <1>1, <1>4, <1>6, <2>2, <2>3, <2>4, <2>5 DEF OwnerInv, Starting, Settling, Resting
  <2>7. RecoveryInv'
    BY <2>3, <2>4 DEF RecoveryInv
  <2>8. ReadInv'
    BY <1>7, <2>3, MemberOf DEF PlanInv, ReadInv, Starting
  <2>9. LiveInv'
    BY <1>1, <1>3, <2>3, LiveMoves DEF Starting
  <2>10. PatchInv'
    <3> SUFFICES ASSUME foreign = 0 PROVE NobodyElse'
      BY <1>1, <2>3 DEF PatchInv
    <3>1. PatchIsThere => Status("edit")' = "succeeded"
      BY <1>3 DEF PatchIsThere
    <3>2. Status("edit") = "succeeded" /\ me.then # "recover" => RolledBack \/ PatchIsThere
      BY <1>1 DEF PlanInv, PatchInv, NobodyElse
    <3>3. RolledBack' = RolledBack
      BY <1>1, <1>3 DEF RolledBack, Moves
    <3> QED BY <1>1, <1>3, <2>3, <2>4, <3>1, <3>2, <3>3, PatchMoves DEF NobodyElse
  <2>11. TypeInv'
    BY <1>1, <1>3, <2>3, TypeMoves, TypeFacts DEF PlanInv
  <2> QED BY <1>4, <2>6, <2>7, <2>8, <2>9, <2>10, <2>11 DEF PlanInv
<1>9. CASE me.batch = <<>> /\ me.then \in {"recover", "reopen"}
  <2>1. me' = [me EXCEPT !.pc = me.then, !.a = 0]
    BY <1>1, <1>9 DEF After
  <2>2. /\ me' \in OwnerState /\ me'.pc = me.then /\ me'.a = 0 /\ me'.batch = <<>>
        /\ me'.then = me.then /\ me'.queue = me.queue /\ me'.before = me.before /\ me'.bad = me.bad
    BY <1>9, <2>1, OwnerTypes DEF OwnerState, OwnerPlaces
  <2>3. InHand' = {} /\ InHand = {} /\ ToSet(me'.batch) = {}
    BY <1>5, <1>9, <2>2, NothingInEmpty DEF InHand
  <2>4. OwnerInv'
    BY <1>1, <1>4, <1>5, <1>6, <1>9, <2>2, <2>3 DEF OwnerInv, Starting, Settling, Resting
  <2>5. RecoveryInv'
    BY <1>4, <1>9, <2>2, <2>3 DEF PlanInv, RecoveryInv
  <2>6. ReadInv'
    BY <1>7, <1>9, <2>2, MemberOf DEF PlanInv, ReadInv, Starting
  <2>7. LiveInv'
    BY <1>1, <1>3, <1>9, <2>2, LiveMoves DEF Starting
  <2>8. PatchInv'
    <3> SUFFICES ASSUME foreign = 0 PROVE NobodyElse'
      BY <1>1, <1>9, <2>2 DEF PatchInv
    <3>1. PatchIsThere => Status("edit")' = "succeeded"
      BY <1>3 DEF PatchIsThere
    <3>2. Status("edit") = "succeeded" /\ me.then # "recover" => RolledBack \/ PatchIsThere
      BY <1>1 DEF PlanInv, PatchInv, NobodyElse
    <3>3. RolledBack' = RolledBack
      BY <1>1, <1>3 DEF RolledBack, Moves
    <3> QED BY <1>1, <1>3, <1>9, <2>2, <3>1, <3>2, <3>3, PatchMoves DEF NobodyElse
  <2>9. TypeInv'
    BY <1>1, <1>3, <2>2, TypeMoves, TypeFacts DEF PlanInv
  <2> QED BY <1>4, <2>4, <2>5, <2>6, <2>7, <2>8, <2>9 DEF PlanInv
<1>10. CASE me.batch = <<>> /\ me.then \notin {"recover", "reopen"}
  <2> DEFINE stage == CASE NodeOf(me.a) = "edit" /\ me.status = "succeeded" -> "verify"
               [] NodeOf(me.a) = "verify" -> IF me.status = "failed" /\ attempts[me.a].ref # 0 THEN "undo" ELSE "end"
               [] OTHER -> "patch"
  <2>1. me' = [IdleOwner EXCEPT !.stage = stage]
    BY <1>1, <1>10, Zenon DEF After, NodeOf
  <2>2. stage \in {"patch", "verify", "undo", "end"} /\ (stage = "verify" => NodeOf(me.a) = "edit" /\ me.status = "succeeded")
    <3>1. CASE NodeOf(me.a) = "edit" /\ me.status = "succeeded"
      BY <3>1
    <3>2. CASE ~(NodeOf(me.a) = "edit" /\ me.status = "succeeded") /\ NodeOf(me.a) = "verify"
      BY <3>2
    <3>3. CASE ~(NodeOf(me.a) = "edit" /\ me.status = "succeeded") /\ NodeOf(me.a) # "verify"
      BY <3>3
    <3> QED BY <3>1, <3>2, <3>3
  <2> HIDE DEF stage
  <2>3. /\ me' \in OwnerState /\ me'.pc = "idle" /\ me'.stage = stage /\ me'.batch = <<>>
        /\ me'.then = "idle" /\ me'.queue = <<>> /\ me'.before = 0
    BY <2>1, <2>2, OwnerTypes DEF OwnerState, IdleOwner
  <2>4. InHand' = {} /\ OpenAttempts = {} /\ ToSet(me'.batch) = {} /\ IsInjective(me'.batch)
    BY <1>6, <1>10, <2>3, NothingInEmpty, AppendToEmpty DEF InHand
  <2>5. OwnerInv'
    BY <1>4, <2>3, <2>4 DEF OwnerInv, Starting, Settling, Resting
  <2>6. RecoveryInv' /\ ReadInv'
    BY <2>3 DEF RecoveryInv, ReadInv, Starting
  <2>7. LiveInv'
    BY <1>1, <1>3, <2>3, LiveMoves DEF Starting
  <2>8. PatchInv'
    <3> SUFFICES ASSUME foreign = 0 PROVE NobodyElse'
      BY <1>1, <2>3 DEF PatchInv
    <3>1. PatchIsThere => Status("edit")' = "succeeded"
      BY <1>3 DEF PatchIsThere
    <3>2. Status("edit") = "succeeded" => RolledBack \/ PatchIsThere
      BY <1>1, <1>10 DEF PlanInv, PatchInv, NobodyElse
    <3>3. RolledBack' = RolledBack
      BY <1>1, <1>3 DEF RolledBack, Moves
    <3>4. stage = "verify" => PatchIsThere
      BY <1>1, <2>2 DEF PlanInv, PatchInv, NobodyElse
    <3> QED BY <1>1, <1>3, <2>3, <3>1, <3>2, <3>3, <3>4, PatchMoves DEF NobodyElse
  <2>9. TypeInv'
    BY <1>1, <1>3, <2>3, TypeMoves, TypeFacts DEF PlanInv
  <2> QED BY <1>4, <2>5, <2>6, <2>7, <2>8, <2>9 DEF PlanInv
<1> QED BY <1>8, <1>9, <1>10

LEMMA EndRecoveryKeeps == ASSUME PlanInv, EndRecovery PROVE PlanInv'
<1>1. /\ me.pc = "recover" /\ me.queue = <<>> /\ plan' = Refresh(Outdate(plan))
      /\ \/ me' = Closed
         \/ me' = IdleOwner /\ ~me.bad
      /\ \/ request' = [request EXCEPT !.status = "committed"]
         \/ request' = request
      /\ UNCHANGED <<attempts, live, disk, top, origin, rollback, life, foreign>>
  BY DEF EndRecovery
<1>2. /\ Demoted(plan, Outdate(plan))
      /\ Outdate(plan).node["edit"].status = "succeeded" => plan.node["edit"].ref = disk \/ Undone
      /\ plan.node["edit"].ref = disk => Outdate(plan).node["edit"].status = plan.node["edit"].status
  BY OutdateFacts, TypeFacts DEF PlanInv
<1>3. /\ Moves
      /\ Status("edit")' = "succeeded" => plan.node["edit"].ref = disk \/ Undone
      /\ PatchIsThere => Status("edit")' = "succeeded"
  BY <1>1, <1>2, RefreshMoves DEF PlanInv, Status, PatchIsThere
<1>4. NodeInv' /\ AttemptInv' /\ EditInv' /\ OpenAttempts' = OpenAttempts
  BY <1>1, <1>3, JournalMoves
<1>5. /\ me' \in OwnerState /\ me'.pc \in {"idle", "closed"} /\ me'.batch = <<>> /\ me'.then = "idle"
      /\ me'.queue = <<>> /\ me'.before = 0 /\ (me'.pc = "idle" => ~me.bad /\ me'.stage = "patch")
  <2>1. CASE me' = Closed
    BY <2>1, OwnerTypes
  <2>2. CASE me' = IdleOwner /\ ~me.bad
    <3>1. /\ IdleOwner \in OwnerState /\ IdleOwner.pc = "idle" /\ IdleOwner.batch = <<>> /\ IdleOwner.then = "idle"
          /\ IdleOwner.queue = <<>> /\ IdleOwner.before = 0 /\ IdleOwner.stage = "patch"
      BY OwnerTypes DEF IdleOwner
    <3> QED BY <2>2, <3>1, Zenon
  <2> QED BY <1>1, <2>1, <2>2
<1>6. me'.pc = "idle" => OpenAttempts = {}
  <2>1. me.batch = <<>> /\ me.then = "recover"
    BY <1>1 DEF PlanInv, RecoveryInv
  <2>2. InHand = {} /\ ToSet(me.queue) = {}
    BY <1>1, <2>1, NothingInEmpty DEF InHand
  <2> QED BY <1>5, <2>1, <2>2 DEF PlanInv, RecoveryInv
<1>7. InHand' = {} /\ ToSet(me'.batch) = {} /\ IsInjective(me'.batch)
  BY <1>5, NothingInEmpty, AppendToEmpty DEF InHand
<1>8. OwnerInv'
  BY <1>4, <1>5, <1>6, <1>7 DEF OwnerInv, Starting, Settling, Resting
<1>9. RecoveryInv' /\ ReadInv'
  BY <1>5 DEF RecoveryInv, ReadInv, Starting
<1>10. LiveInv'
  BY <1>1, <1>3, <1>5, LiveMoves DEF Starting
<1>11. PatchInv'
  <2> SUFFICES ASSUME foreign = 0 PROVE NobodyElse'
    BY <1>1, <1>5 DEF PatchInv
  <2>1. RolledBack' = RolledBack /\ (Undone => RolledBack)
    BY <1>1, <1>3 DEF RolledBack, Moves, Undone
  <2>2. Status("edit")' = "succeeded" => RolledBack \/ PatchIsThere
    <3>1. Status("edit")' = "succeeded" => Status("edit") = "succeeded"
      BY <1>3, MovesFacts, NodeNames
    <3> QED BY <1>3, <2>1, <3>1 DEF PatchIsThere
  <2> QED BY <1>1, <1>3, <1>5, <2>1, <2>2, PatchMoves DEF NobodyElse
<1>12. TypeInv'
  BY <1>1, <1>3, <1>5, TypeMoves, RequestWritten, Contents
<1> QED BY <1>4, <1>8, <1>9, <1>10, <1>11, <1>12 DEF PlanInv

-----------------------------------------------------------------------------
(* An attempt begins.                                                      *)

NewRow(n) == [node |-> n, version |-> plan.version, before |-> disk, phase |-> "prepared",
              result |-> "none", ref |-> 0, terminal |-> "none", life |-> life, ops |-> <<>>, closed |-> FALSE]

\* The journal has one more attempt, the last.
Begun(n) ==
    /\ attempts' \in Seq(AttemptRow) /\ Len(attempts') <= MaxAttempts
    /\ Ids' = Ids \cup {Len(attempts) + 1} /\ Len(attempts) + 1 \notin Ids /\ Len(attempts) + 1 \in Nat \ {0}
    /\ \A b \in Ids : attempts'[b] = attempts[b]
    /\ attempts'[Len(attempts) + 1] = NewRow(n)
    /\ OpenAttempts' = OpenAttempts \cup {Len(attempts) + 1}

LEMMA BeginRow ==
  ASSUME PlanInv, NEW n \in Nodes, Len(attempts) < MaxAttempts, attempts' = Append(attempts, NewRow(n))
  PROVE  Begun(n)
<1>1. attempts \in Seq(AttemptRow) /\ Len(attempts) \in Nat /\ Ids = 1 .. Len(attempts) /\ MaxAttempts \in Nat
  BY TypeFacts DEF PlanInv
<1>2. NewRow(n) \in AttemptRow /\ NewRow(n).phase = "prepared"
  <2>1. plan.version \in Nat /\ disk \in Nat /\ life \in Nat /\ <<>> \in Seq(Op)
    BY Contents, TypeFacts DEF PlanInv
  <2> QED BY <2>1 DEF NewRow, AttemptRow, Phases, Results
<1> HIDE DEF NewRow
<1>3. /\ attempts' \in Seq(AttemptRow) /\ Len(attempts') = Len(attempts) + 1 /\ attempts'[Len(attempts) + 1] = NewRow(n)
      /\ \A b \in 1 .. Len(attempts) : attempts'[b] = attempts[b]
  BY <1>1, <1>2
<1>4. Ids' = Ids \cup {Len(attempts) + 1} /\ Len(attempts) + 1 \notin Ids
  BY <1>1, <1>3 DEF Ids
<1>5. OpenAttempts' = OpenAttempts \cup {Len(attempts) + 1}
  BY <1>1, <1>2, <1>3, <1>4 DEF OpenAttempts
<1> QED BY <1>1, <1>3, <1>4, <1>5 DEF Begun

\* The journal and the graph when a ready node is given an attempt and had no open one.
LEMMA JournalBegins ==
  ASSUME PlanInv, Moves, NEW n \in Nodes, Begun(n), Status(n)' = "ready",
         \A b \in OpenAttempts : NodeOf(b) # n
  PROVE  NodeInv' /\ AttemptInv' /\ EditInv'
<1> DEFINE new == Len(attempts) + 1
<1>1. /\ OpenAttempts' = OpenAttempts \cup {new} /\ Ids' = Ids \cup {new} /\ new \notin Ids /\ new \in Nat \ {0}
      /\ plan'.version = plan.version /\ OpenAttempts \subseteq Ids /\ \A b \in Ids : attempts'[b] = attempts[b]
  BY DEF Begun, OpenAttempts, Moves
<1>2. /\ attempts'[new].node = n /\ attempts'[new].version = plan.version /\ attempts'[new].phase = "prepared"
      /\ attempts'[new].ops = <<>>
  BY DEF Begun, NewRow
<1> HIDE DEF new
<1>3. \A x \in Nodes :
            /\ plan'.node[x].attempt = HolderOf(x) /\ plan'.node[x].ref = plan.node[x].ref
            /\ plan'.node[x].status = "running" <=> Status(x) = "running"
            /\ plan'.node[x].status \in {"pending", "ready"} => Status(x) \in {"pending", "ready"}
            /\ Status(x) \in Outcomes \ {"succeeded"} => plan'.node[x].status = Status(x)
  BY MovesFacts DEF HolderOf, Status
<1>4. \/ Status(n) \in {"pending", "ready"} /\ (n \notin Explores => HolderOf(n) = 0)
      \/ n \in Explores /\ Status(n) = "ready"
  BY <1>3 DEF PlanInv, NodeInv, Status
<1>5. ASSUME NEW x \in Nodes
      PROVE  /\ x \notin Explores /\ plan'.node[x].status \in {"pending", "ready"} => plan'.node[x].attempt = 0
             /\ plan'.node[x].attempt # 0 => plan'.node[x].attempt \in Ids' /\ attempts'[plan'.node[x].attempt].node = x
             /\ plan'.node[x].status = "running" => plan'.node[x].attempt \in OpenAttempts'
  BY <1>1, <1>3 DEF PlanInv, NodeInv, NodeOf
<1>6. NodeInv'
  BY <1>5 DEF NodeInv, HolderOf, Status, NodeOf
<1>7. AttemptsMatchNodes'
  <2>1. ASSUME NEW a \in OpenAttempts'
        PROVE  /\ \/ attempts'[a].version = plan'.version /\ plan'.node[attempts'[a].node].attempt \in {0, a}
                  \/ attempts'[a].node \in Explores /\ attempts'[a].phase = "prepared"
               /\ \A b \in OpenAttempts' : attempts'[b].node = attempts'[a].node => b = a
    <3>1. CASE a = new
      <4>1. \A b \in OpenAttempts' : attempts'[b].node = n => b = new
        BY <1>1, <1>2 DEF NodeOf
      <4>2. n \in Explores \/ plan'.node[n].attempt = 0
        BY <1>3, <1>4
      <4> QED BY <1>1, <1>2, <3>1, <4>1, <4>2
    <3>2. CASE a # new
      <4>1. a \in OpenAttempts /\ a \in Ids /\ attempts'[a] = attempts[a] /\ attempts[a].node # n /\ attempts[a].node \in Nodes
        BY <1>1, <2>1, <3>2, RowFacts DEF NodeOf, PlanInv
      <4>2. \/ attempts[a].version = plan.version /\ plan.node[attempts[a].node].attempt \in {0, a}
            \/ attempts[a].node \in Explores /\ attempts[a].phase = "prepared"
        BY <4>1 DEF PlanInv, AttemptInv, AttemptsMatchNodes, Owned
      <4>3. plan'.node[attempts[a].node].attempt = plan.node[attempts[a].node].attempt
        BY <1>3, <4>1 DEF HolderOf
      <4>4. \A b \in OpenAttempts : attempts[b].node = attempts[a].node => b = a
        BY <4>1 DEF PlanInv, AttemptInv, AttemptsMatchNodes
      <4>5. \A b \in OpenAttempts' : attempts'[b].node = attempts'[a].node => b = a
        BY <1>1, <1>2, <4>1, <4>4
      <4> QED BY <1>1, <4>1, <4>2, <4>3, <4>5
    <3> QED BY <3>1, <3>2
  <2>2. ASSUME NEW x \in Nodes, NEW a, a = plan'.node[x].attempt, a # 0, attempts'[a].phase = "reconciled"
        PROVE  IF attempts'[a].terminal = "succeeded" THEN plan'.node[x].status \in {"succeeded", "stale", "ready", "running", "uncertain"}
               ELSE plan'.node[x].status = attempts'[a].terminal
    <3>1. a = HolderOf(x)
      BY <1>3, <2>2
    <3>2. a \in Ids /\ attempts'[a] = attempts[a]
      BY <1>1, <2>2, <3>1 DEF PlanInv, NodeInv
    <3>3. /\ attempts[a].terminal \in Outcomes
          /\ IF attempts[a].terminal = "succeeded" THEN Status(x) \in {"succeeded", "stale", "ready", "running", "uncertain"}
             ELSE Status(x) = attempts[a].terminal
      BY <2>2, <3>1, <3>2, NodeOutcome
    <3>4. Status(x) = "ready" => x \in Explores
      BY <2>2, <3>1 DEF PlanInv, NodeInv
    <3>5. Status(x) \in {"succeeded", "stale", "ready", "running", "uncertain"}
            => plan'.node[x].status \in {"succeeded", "stale", "ready", "running", "uncertain"}
      BY <3>4, NodeNames DEF Moves, Status
    <3>6. Status(x) \in Outcomes \ {"succeeded"} => plan'.node[x].status = Status(x)
      BY <1>3
    <3> QED BY <3>2, <3>3, <3>5, <3>6
  <2> QED BY <2>1, <2>2, MatchMade
<1>8. AttemptInv'
  <2>1. \A a \in Ids :
          /\ attempts[a].version <= plan.version
          /\ a \in OpenAttempts => attempts[a].version = plan.version
          /\ attempts[a].phase = "prepared" => attempts[a].ops = <<>>
          /\ attempts[a].phase = "reconciled" => attempts[a].terminal \in Outcomes
          /\ \A o \in ToSet(attempts[a].ops) : (o.tool = "write" => attempts[a].node = "edit") /\ (o.stopped => o.phase = "result_recorded")
    BY DEF PlanInv, AttemptInv, OpsOf, NodeOf
  <2>2. plan.version <= plan.version
    BY Contents
  <2>3. \A a \in Ids' :
          /\ attempts'[a].version <= plan'.version
          /\ a \in OpenAttempts' => attempts'[a].version = plan'.version
          /\ attempts'[a].phase = "prepared" => attempts'[a].ops = <<>>
          /\ attempts'[a].phase = "reconciled" => attempts'[a].terminal \in Outcomes
          /\ \A o \in ToSet(attempts'[a].ops) : (o.tool = "write" => attempts'[a].node = "edit") /\ (o.stopped => o.phase = "result_recorded")
    BY <1>1, <1>2, <2>1, <2>2, NothingInEmpty
  <2> QED BY <1>7, <2>3 DEF AttemptInv, OpsOf, NodeOf
<1>9. EditInv'
  <2>1. \A a \in Ids' : Sent(a)' => a \in Ids /\ Sent(a)
    BY <1>1, <1>2 DEF Sent, NodeOf
  <2>2. "edit" \in Nodes
    BY NodeNames
  <2>3. \A a \in Ids' : Sent(a)' /\ attempts'[a].version = plan'.version =>
          /\ plan'.node["edit"].status \notin {"pending", "ready"}
          /\ n # "edit"
    BY <1>1, <1>3, <2>1, <2>2 DEF PlanInv, EditInv, Status
  <2>4. \A a \in Ids' : Sent(a)' /\ attempts'[a].version = plan'.version =>
          \A b \in Ids' : attempts'[b].node = "edit" => attempts'[b].phase # "prepared"
    BY <1>1, <1>2, <2>1, <2>3 DEF PlanInv, EditInv, NodeOf
  <2>5. \A a, b \in Ids' : Sent(a)' /\ Sent(b)' /\ attempts'[a].version = attempts'[b].version => a = b
    BY <1>1, <2>1 DEF PlanInv, EditInv
  <2> QED BY <2>3, <2>4, <2>5 DEF EditInv, Status, NodeOf
<1> QED BY <1>6, <1>8, <1>9

\* Where an attempt may begin, and how the owner goes on.
LEMMA PrepareKeeps ==
  ASSUME PlanInv, NEW n \in Nodes, NEW m \in OwnerState, Prepare(n, m),
         me.pc \in {"idle", "reopen", "prepare"}, m.batch = me.batch, m.then # "recover",
         me.pc = "idle" => me.stage \in {"patch", "verify"},
         n = "verify" => me.pc = "idle" /\ me.stage = "verify",
         m.before # 0 => n \in Explores /\ m.then # "reopen" /\ m.queue \in Seq(Explores),
         m.before = 0 => me.pc # "prepare",
         me.pc = "prepare" => me.before # 0,
         m.then = "reopen" =>
            /\ m.before = 0 /\ m.queue \in Seq(Explores) /\ IsInjective(m.queue) /\ n \notin ToSet(m.queue)
            /\ \A x \in ToSet(m.queue) : Status(x) \in {"stale", "succeeded", "ready"}
  PROVE  PlanInv'
<1> DEFINE new == Len(attempts) + 1
<1>1. /\ Len(attempts) < MaxAttempts /\ plan' = Refresh(plan) /\ attempts' = Append(attempts, NewRow(n))
      /\ me' = [m EXCEPT !.pc = "mark", !.a = new]
      /\ UNCHANGED <<live, disk, top, origin, rollback, request, life, foreign>>
  BY DEF Prepare, NewRow, world
<1>2. /\ Refresh(plan).node[n].status = "ready"
      /\ \A x \in Nodes : Refresh(plan).node[x].status # "uncertain"
  BY DEF Prepare, MayRun
<1>3. Moves /\ (Status("edit")' = "succeeded" <=> Status("edit") = "succeeded")
  BY <1>1, NotDemoted, RefreshMoves DEF PlanInv, Status
<1>4. Begun(n)
  BY <1>1, BeginRow
<1>5. /\ OpenAttempts' = OpenAttempts \cup {new} /\ Ids' = Ids \cup {new} /\ new \notin Ids /\ new \in Nat \ {0}
      /\ plan'.version = plan.version /\ OpenAttempts \subseteq Ids /\ \A b \in Ids : attempts'[b] = attempts[b]
      /\ attempts'[new].node = n /\ attempts'[new].phase = "prepared" /\ attempts'[new].life = life
      /\ attempts' \in Seq(AttemptRow) /\ Len(attempts') <= MaxAttempts
  BY <1>3, <1>4 DEF Begun, OpenAttempts, Moves, NewRow
<1>6. /\ m.batch \in Seq(Nat) /\ m.queue \in Seq(Explores \cup Nat) /\ new \in Nat
      /\ me' \in OwnerState /\ me'.pc = "mark" /\ me'.a = new /\ me'.batch = me.batch /\ me'.then = m.then
      /\ me'.queue = m.queue /\ me'.before = m.before
  BY <1>1, <1>5 DEF OwnerState, OwnerPlaces
<1> HIDE DEF new
<1>7. \A x \in Nodes :
            /\ plan'.node[x].attempt = HolderOf(x) /\ plan'.node[x].ref = plan.node[x].ref
            /\ plan'.node[x].status = "running" <=> Status(x) = "running"
            /\ Status(x) = "uncertain" => plan'.node[x].status = "uncertain"
            /\ Status(x) \in {"stale", "succeeded", "ready"} /\ x \in Explores => plan'.node[x].status \in {"stale", "succeeded", "ready"}
            /\ plan'.node[x].status = "succeeded" => Status(x) = "succeeded"
  BY <1>3, MovesFacts DEF HolderOf, Status
<1>8. plan'.node[n].status = "ready" /\ \A x \in Nodes : Status(x) # "uncertain"
  BY <1>1, <1>2, <1>7
<1>9. InHand = ToSet(me.batch) /\ OpenAttempts = ToSet(me.batch)
      /\ (me.pc # "prepare" => me.batch = <<>> /\ OpenAttempts = {})
  <2>1. InHand = ToSet(me.batch)
    BY DEF InHand
  <2>2. CASE me.pc # "prepare"
    BY <2>1, <2>2, AtRest
  <2>3. CASE me.pc = "prepare"
    <3>1. me.then # "recover"
      BY <2>3 DEF PlanInv, RecoveryInv, Settling
    <3> QED BY <2>1, <2>3, <3>1 DEF PlanInv, OwnerInv
  <2> QED BY <2>1, <2>2, <2>3
<1>10. \A b \in OpenAttempts : Holds(b) /\ NodeOf(b) \in Nodes /\ NodeOf(b) # n /\ b \in Ids
  <2>1. \A b \in OpenAttempts : Holds(b) /\ NodeOf(b) \in Nodes /\ b \in Ids
    BY <1>5, <1>9, RowFacts DEF PlanInv, OwnerInv
  <2> QED BY <1>7, <1>8, <2>1 DEF Holds
<1>11. live = {}
  <2>1. CASE me.pc = "prepare"
    BY <2>1 DEF PlanInv, LiveInv, Starting
  <2>2. CASE me.pc # "prepare"
    <3>1. \A x \in Nodes : Status(x) # "running"
      BY <1>9, <2>2 DEF PlanInv, NodeInv
    <3>2. \A a \in live : NodeOf(a) \in Nodes /\ Status(NodeOf(a)) \in {"running", "uncertain"}
      BY RowFacts, TypeFacts DEF PlanInv, LiveInv
    <3> QED BY <1>8, <3>1, <3>2
  <2> QED BY <2>1, <2>2
<1>12. NodeInv' /\ AttemptInv' /\ EditInv'
  BY <1>3, <1>4, <1>8, <1>10, JournalBegins DEF Status
<1>13. InHand' = ToSet(me.batch) \cup {new} /\ new \notin ToSet(me.batch)
  BY <1>5, <1>6, <1>9 DEF InHand
<1>14. \A b \in ToSet(me.batch) :
          /\ attempts'[b].phase = "dispatched" /\ attempts'[b].life = life
          /\ plan'.node[attempts'[b].node].status = "running" /\ plan'.node[attempts'[b].node].attempt = b
          /\ me.pc = "prepare"
  <2>1. \A b \in ToSet(me.batch) : me.pc = "prepare" /\ attempts[b].phase = "dispatched" /\ attempts[b].life = life
    <3>1. ToSet(me.batch) # {} => me.pc = "prepare"
      BY <1>9
    <3> QED BY <1>9, <3>1 DEF PlanInv, OwnerInv, Starting
  <2> QED BY <1>5, <1>7, <1>9, <1>10, <2>1 DEF Holds, NodeOf
<1>15. OwnerInv'
  <2>1. /\ InHand' \subseteq OpenAttempts' /\ IsInjective(me'.batch)
        /\ OpenAttempts' = InHand' /\ me'.a \notin ToSet(me'.batch)
        /\ attempts'[me'.a].phase = "prepared" /\ plan'.node[attempts'[me'.a].node].status = "ready"
    BY <1>5, <1>6, <1>8, <1>9, <1>13 DEF PlanInv, OwnerInv
  <2>2. \A a \in ToSet(me'.batch) : attempts'[a].phase = "dispatched" /\ Holds(a)'
    <3>1. \A a : Holds(a)' <=> (plan'.node[attempts'[a].node].status = "running" /\ plan'.node[attempts'[a].node].attempt = a)
      BY DEF Holds, Status, HolderOf, NodeOf
    <3> QED BY <1>6, <1>14, <3>1
  <2>3. \A a \in InHand' : attempts'[a].life = life'
    <3>1. life' = life
      BY <1>1
    <3>2. (\A a \in ToSet(me.batch) : attempts'[a].life = life) /\ attempts'[new].life = life
      BY <1>5, <1>14
    <3> QED BY <1>13, <3>1, <3>2
  <2> QED BY <1>6, <2>1, <2>2, <2>3 DEF OwnerInv, Starting, Settling, Resting, Status, NodeOf
<1>16. RecoveryInv'
  BY <1>6 DEF RecoveryInv
<1>17. ReadInv'
  <2>1. m.before # 0 => \A a \in InHand' : attempts'[a].node \in Explores
    <3> SUFFICES ASSUME m.before # 0, NEW a \in ToSet(me.batch) PROVE attempts'[a].node \in Explores
      BY <1>5, <1>13
    <3>1. me.pc = "prepare" /\ me.before # 0
      BY <1>14
    <3>2. NodeOf(a) \in Explores
      BY <1>9, <3>1 DEF PlanInv, ReadInv, Starting
    <3> QED BY <1>5, <1>9, <3>2 DEF NodeOf
  <2>2. m.before = 0 => me.batch = <<>>
    BY <1>9
  <2>3. m.then = "reopen" =>
            /\ m.before = 0 /\ m.queue \in Seq(Explores) /\ IsInjective(m.queue) /\ attempts'[new].node \notin ToSet(m.queue)
            /\ \A x \in ToSet(m.queue) : plan'.node[x].status \in {"stale", "succeeded", "ready"}
    <3> SUFFICES ASSUME m.then = "reopen", NEW x \in ToSet(m.queue) PROVE plan'.node[x].status \in {"stale", "succeeded", "ready"}
      BY <1>5
    <3>1. x \in Explores /\ x \in Nodes
      BY MemberOf, NodeNames
    <3> QED BY <1>7, <3>1
  <2> QED BY <1>6, <2>1, <2>2, <2>3 DEF ReadInv, Starting, Status, NodeOf
<1>18. LiveInv'
  BY <1>1, <1>6, <1>11 DEF LiveInv, NothingBesideAWrite
<1>19. PatchInv'
  <2> SUFFICES ASSUME foreign = 0 PROVE NobodyElse'
    BY <1>1, <1>6 DEF PatchInv
  <2>1. NobodyElse
    BY DEF PlanInv, PatchInv
  <2>2. "edit" \in Nodes /\ "verify" \in Nodes /\ "edit" \notin Explores /\ "verify" \notin Explores
    BY NodeNames
  <2>3. PatchIsThere' <=> PatchIsThere
    BY <1>1, <1>3, <1>7, <2>2 DEF PatchIsThere
  <2>4. \A b \in ToSet(me.batch) : attempts'[b].node \in Explores
    <3> SUFFICES ASSUME NEW a \in ToSet(me.batch) PROVE attempts'[a].node \in Explores
      OBVIOUS
    <3>1. me.pc = "prepare" /\ me.before # 0
      BY <1>14
    <3>2. NodeOf(a) \in Explores
      BY <1>9, <3>1 DEF PlanInv, ReadInv, Starting
    <3> QED BY <1>5, <1>9, <3>2 DEF NodeOf
  <2>5. n = "verify" => PatchIsThere /\ me.batch = <<>>
    BY <1>9, <2>1 DEF NobodyElse
  <2>6. \A a \in OpenAttempts' : attempts'[a].node = "verify" => PatchIsThere /\ \A b \in OpenAttempts' : attempts'[b].node # "edit"
    <3>1. \A a \in OpenAttempts' : attempts'[a].node = "verify" => a = new /\ n = "verify"
      BY <1>5, <1>9, <2>2, <2>4
    <3>2. n = "verify" => OpenAttempts' = {new}
      BY <1>5, <1>9, <2>5, NothingInEmpty
    <3> QED BY <1>5, <2>5, <3>1, <3>2
  <2>7. \A a \in OpenAttempts' : attempts'[a].node = "edit" => a = new /\ n = "edit"
    BY <1>5, <1>9, <2>2, <2>4
  <2>8. n = "edit" => Status("edit") \in {"pending", "ready"} /\ Status("edit")' # "succeeded"
    BY <1>3, <1>8, <2>2, MovesFacts DEF Status
  <2>9. Status("verify")' = "succeeded" =>
               /\ Status("edit")' \in {"succeeded", "uncertain"}
               /\ n # "edit"
               /\ plan'.node["verify"].ref = plan'.node["edit"].ref
    <3>1. Status("verify")' = "succeeded" => Status("verify") = "succeeded"
      BY <1>7, <2>2 DEF Status
    <3>2. Status("edit") \in {"succeeded", "uncertain"} => Status("edit")' \in {"succeeded", "uncertain"}
      BY <1>3, <1>7, <2>2 DEF Status
    <3> QED BY <1>7, <2>1, <2>2, <2>8, <3>1, <3>2 DEF NobodyElse
  <2>10. Status("edit")' = "succeeded" => RolledBack \/ PatchIsThere
    <3>1. me.then # "recover"
      BY DEF PlanInv, OwnerInv, RecoveryInv, Settling
    <3> QED BY <1>3, <2>1, <3>1 DEF NobodyElse
  <2>11. RolledBack' = RolledBack
    BY <1>1, <1>5 DEF RolledBack
  <2> QED BY <1>6, <2>3, <2>6, <2>7, <2>8, <2>9, <2>10, <2>11 DEF NobodyElse, NodeOf
<1>20. TypeInv'
  <2>1. /\ plan \in Graph /\ plan.version \in 1 .. MaxReplans + 1 /\ plan.inputs \in 1 .. top
        /\ disk \in 1 .. top /\ top \in Nat
        /\ origin \in 1 .. top /\ life \in Nat /\ foreign \in Nat /\ rollback \in Rollback
        /\ request \in [version : Nat, status : {"none", "started", "rejected", "committed"}]
    BY TypeFacts DEF PlanInv
  <2>2. plan' \in Graph /\ plan'.version \in 1 .. MaxReplans + 1 /\ plan'.inputs \in 1 .. top' /\ live' \subseteq Ids'
    BY <1>1, <1>3, <1>11, <2>1 DEF Moves
  <2> QED BY <1>1, <1>5, <1>6, <2>1, <2>2, TypeMade
<1> QED BY <1>12, <1>15, <1>16, <1>17, <1>18, <1>19, <1>20 DEF PlanInv

LEMMA AdoptObservationKeeps == ASSUME PlanInv, NEW n \in Explores, AdoptObservation(n) PROVE PlanInv'
<1> DEFINE m == [me EXCEPT !.then = "adopt"]
<1>1. AtStage("patch") /\ Prepare(n, m)
  BY DEF AdoptObservation, Patching
<1>2. me.pc = "idle" /\ me.stage = "patch" /\ me.batch = <<>> /\ me.before = 0
  BY <1>1, AtStageFacts
<1>3. m \in OwnerState /\ m.batch = me.batch /\ m.then = "adopt" /\ m.before = 0
  BY <1>2, OwnerTypes DEF OwnerState
<1> HIDE DEF m
<1>4. n \in Nodes /\ n # "verify"
  BY NodeNames
<1> QED BY <1>1, <1>2, <1>3, <1>4, PrepareKeeps

LEMMA StartReadsKeeps == ASSUME PlanInv, StartReads PROVE PlanInv'
<1> DEFINE ready == SetToSeq(ReadyExplores)
           queue == SubSeq(ready, 2, IF Len(ready) = 1 THEN 1 ELSE 2)
           m == [me EXCEPT !.before = disk, !.queue = queue]
           n == Head(ready)
<1>1. AtStage("patch") /\ ready # <<>> /\ Prepare(n, m)
  BY DEF StartReads, Patching
<1>2. me.pc = "idle" /\ me.stage = "patch" /\ me.batch = <<>> /\ me.then = "idle"
  BY <1>1, AtStageFacts
<1>3. ready \in Seq(Explores)
  <2>1. IsFiniteSet(ReadyExplores)
    BY NodesFinite, FS_Subset DEF ReadyExplores
  <2>2. ready \in Seq(ReadyExplores) /\ ReadyExplores \subseteq Explores
    BY <2>1, SequenceOfSet DEF ReadyExplores
  <2> HIDE DEF ready
  <2> QED BY <2>2
<1> HIDE DEF ready
<1>4. Len(ready) \in Nat \ {0} /\ n \in Explores
  BY <1>1, <1>3
<1>5. queue \in Seq(Explores)
  <2> DEFINE last == IF Len(ready) = 1 THEN 1 ELSE 2
  <2>1. last \in 1 .. Len(ready)
    <3>1. CASE Len(ready) = 1
      BY <3>1
    <3>2. CASE Len(ready) # 1
      BY <1>4, <3>2
    <3> QED BY <3>1, <3>2
  <2> HIDE DEF last
  <2>2. SubSeq(ready, 2, last) \in Seq(Explores)
    BY <1>3, <2>1, SubSeqProperties
  <2> QED BY <2>2 DEF last
<1> HIDE DEF queue, n
<1>6. queue \in Seq(Explores \cup Nat) /\ disk \in Nat /\ disk # 0
  BY <1>5, Contents
<1>7. m \in OwnerState /\ m.batch = me.batch /\ m.then = "idle" /\ m.before = disk /\ m.queue = queue
  BY <1>2, <1>6, OwnerTypes DEF OwnerState
<1> HIDE DEF m
<1>8. n \in Nodes /\ n # "verify"
  BY <1>4, NodeNames
<1> QED BY <1>1, <1>2, <1>4, <1>5, <1>6, <1>7, <1>8, PrepareKeeps

LEMMA NextReadKeeps == ASSUME PlanInv, NextRead PROVE PlanInv'
<1> DEFINE m == [me EXCEPT !.queue = Tail(@)]
           n == Head(me.queue)
<1>1. me.pc = "prepare" /\ Prepare(n, m)
  BY DEF NextRead
<1>2. me.before # 0 /\ me.then # "reopen" /\ me.queue \in Seq(Explores) /\ me.queue # <<>> /\ me.then # "recover"
  BY <1>1 DEF PlanInv, ReadInv, RecoveryInv, Starting, Settling
<1>3. n \in Explores /\ Tail(me.queue) \in Seq(Explores)
  BY <1>2
<1>4. Tail(me.queue) \in Seq(Explores \cup Nat)
  BY <1>3
<1>5. m \in OwnerState /\ m.batch = me.batch /\ m.then = me.then /\ m.before = me.before /\ m.queue = Tail(me.queue)
  BY <1>4, OwnerTypes DEF OwnerState
<1> HIDE DEF m, n
<1>6. n \in Nodes /\ n # "verify"
  BY <1>3, NodeNames
<1> QED BY <1>1, <1>2, <1>3, <1>5, <1>6, PrepareKeeps

LEMMA StartsAloneKeeps ==
  ASSUME PlanInv, NEW n \in Nodes, NEW s \in {"patch", "verify"}, AtStage(s), Prepare(n, me), n = "verify" => s = "verify"
  PROVE  PlanInv'
<1>1. me.pc = "idle" /\ me.stage = s /\ me.then = "idle" /\ me.before = 0
  BY AtStageFacts
<1> QED BY <1>1, OwnerTypes, PrepareKeeps

LEMMA StartAnalysisKeeps == ASSUME PlanInv, StartAnalysis PROVE PlanInv'
  BY StartsAloneKeeps, NodeNames DEF StartAnalysis, Patching

LEMMA StartEditKeeps == ASSUME PlanInv, StartEdit PROVE PlanInv'
  BY StartsAloneKeeps, NodeNames DEF StartEdit, Patching

LEMMA StartVerifyKeeps == ASSUME PlanInv, StartVerify PROVE PlanInv'
  BY StartsAloneKeeps, NodeNames DEF StartVerify

LEMMA ReadAgainKeeps == ASSUME PlanInv, ReadAgain PROVE PlanInv'
<1> DEFINE m == [me EXCEPT !.queue = Tail(@)]
           n == Head(me.queue)
<1>1. me.pc = "reopen" /\ me.queue # <<>> /\ Prepare(n, m)
  BY DEF ReadAgain
<1>2. /\ me.then = "reopen" /\ me.before = 0 /\ me.queue \in Seq(Explores) /\ IsInjective(me.queue)
      /\ \A x \in ToSet(me.queue) : Status(x) \in {"stale", "succeeded", "ready"}
  BY <1>1 DEF PlanInv, ReadInv
<1>3. /\ n \in Explores /\ Tail(me.queue) \in Seq(Explores) /\ IsInjective(Tail(me.queue)) /\ n \notin ToSet(Tail(me.queue))
      /\ ToSet(Tail(me.queue)) \subseteq ToSet(me.queue)
  BY <1>1, <1>2, TailSet, MemberOf
<1>4. Tail(me.queue) \in Seq(Explores \cup Nat)
  BY <1>3
<1>5. m \in OwnerState /\ m.batch = me.batch /\ m.then = me.then /\ m.before = me.before /\ m.queue = Tail(me.queue)
  BY <1>4, OwnerTypes DEF OwnerState
<1> HIDE DEF m, n
<1>6. n \in Nodes /\ n # "verify"
  BY <1>3, NodeNames
<1> QED BY <1>1, <1>2, <1>3, <1>5, <1>6, PrepareKeeps

-----------------------------------------------------------------------------
(* The row of one node is written, for its open attempt.                   *)

LEMMA JournalSets ==
  ASSUME PlanInv, NEW a \in OpenAttempts, NEW s \in DOMAIN Transitions, NEW x \in {0, a}, NEW ref \in Nat,
         plan' = SetNode(plan, NodeOf(a), s, x, ref), attempts' = attempts,
         s = "running" => x = a,
         s \in {"pending", "ready"} =>
            x = 0 /\ (NodeOf(a) = "edit" => \A b \in Ids : ~(Sent(b) /\ attempts[b].version = plan.version))
  PROVE  /\ NodeInv' /\ AttemptInv' /\ EditInv' /\ OpenAttempts' = OpenAttempts
         /\ plan' \in Graph /\ plan'.version = plan.version /\ plan'.inputs = plan.inputs
         /\ plan'.node[NodeOf(a)].status = s /\ plan'.node[NodeOf(a)].attempt = x /\ plan'.node[NodeOf(a)].ref = ref
         /\ \A m \in Nodes \ {NodeOf(a)} : plan'.node[m] = plan.node[m]
         /\ \A b \in OpenAttempts : NodeOf(b) = NodeOf(a) => b = a
<1> DEFINE n == NodeOf(a)
<1>1. a \in Ids /\ n \in Nodes /\ attempts[a].phase # "reconciled" /\ a \in Nat \ {0} /\ x \in Nat
  BY RowFacts DEF OpenAttempts, PlanInv
<1>2. /\ plan' \in Graph /\ plan'.version = plan.version /\ plan'.inputs = plan.inputs
      /\ plan'.node[n].status = s /\ plan'.node[n].attempt = x /\ plan'.node[n].ref = ref
      /\ \A m \in Nodes \ {n} : plan'.node[m] = plan.node[m]
  <2>1. plan \in Graph
    BY TypeFacts DEF PlanInv
  <2> HIDE DEF n
  <2> QED BY <1>1, <2>1, SetNodeFacts DEF n
<1>3. OpenAttempts' = OpenAttempts /\ Ids' = Ids
  BY DEF OpenAttempts, Ids
<1>4. \A b \in OpenAttempts : attempts[b].node = n => b = a
  BY DEF PlanInv, AttemptInv, AttemptsMatchNodes, NodeOf
<1>5. attempts[a].node = n
  BY DEF NodeOf
<1> HIDE DEF n
<1>6. NodeInv'
  <2>1. ASSUME NEW m \in Nodes
        PROVE  /\ m \notin Explores /\ plan'.node[m].status \in {"pending", "ready"} => plan'.node[m].attempt = 0
               /\ plan'.node[m].attempt # 0 => plan'.node[m].attempt \in Ids /\ attempts[plan'.node[m].attempt].node = m
               /\ plan'.node[m].status = "running" => plan'.node[m].attempt \in OpenAttempts
    <3>1. CASE m = n
      BY <1>1, <1>2, <1>5, <3>1
    <3>2. CASE m # n
      BY <1>2, <3>2 DEF PlanInv, NodeInv, Status, HolderOf, NodeOf
    <3> QED BY <3>1, <3>2
  <2> QED BY <1>3, <2>1 DEF NodeInv, Status, HolderOf, NodeOf
<1>7. AttemptsMatchNodes'
  <2>1. ASSUME NEW b \in OpenAttempts
        PROVE  /\ \/ attempts[b].version = plan'.version /\ plan'.node[attempts[b].node].attempt \in {0, b}
                  \/ attempts[b].node \in Explores /\ attempts[b].phase = "prepared"
               /\ \A c \in OpenAttempts : attempts[c].node = attempts[b].node => c = b
    <3>1. /\ \/ attempts[b].version = plan.version /\ plan.node[attempts[b].node].attempt \in {0, b}
             \/ attempts[b].node \in Explores /\ attempts[b].phase = "prepared"
          /\ \A c \in OpenAttempts : attempts[c].node = attempts[b].node => c = b
          /\ attempts[b].node \in Nodes
      BY RowFacts DEF PlanInv, AttemptInv, AttemptsMatchNodes, Owned, OpenAttempts, NodeOf
    <3>2. attempts[b].version = plan.version
      BY DEF PlanInv, AttemptInv, OpenAttempts
    <3>3. CASE attempts[b].node = n
      BY <1>2, <1>4, <3>1, <3>2, <3>3
    <3>4. CASE attempts[b].node # n
      BY <1>2, <3>1, <3>4
    <3> QED BY <3>3, <3>4
  <2>2. ASSUME NEW m \in Nodes, NEW b, b = plan'.node[m].attempt, b # 0, attempts[b].phase = "reconciled"
        PROVE  IF attempts[b].terminal = "succeeded" THEN plan'.node[m].status \in {"succeeded", "stale", "ready", "running", "uncertain"}
               ELSE plan'.node[m].status = attempts[b].terminal
    <3>1. m # n
      BY <1>1, <1>2, <2>2
    <3>2. b = HolderOf(m) /\ plan'.node[m].status = Status(m)
      BY <1>2, <2>2, <3>1 DEF HolderOf, Status
    <3> QED BY <2>2, <3>2, NodeOutcome
  <2> QED BY <1>3, <2>1, <2>2, MatchMade
<1>8. AttemptInv'
  <2>1. \A b \in Ids :
          /\ attempts'[b].version <= plan'.version
          /\ b \in OpenAttempts => attempts'[b].version = plan'.version
          /\ attempts'[b].phase = "prepared" => attempts'[b].ops = <<>>
          /\ attempts'[b].phase = "reconciled" => attempts'[b].terminal \in Outcomes
          /\ \A o \in ToSet(attempts'[b].ops) : (o.tool = "write" => attempts'[b].node = "edit") /\ (o.stopped => o.phase = "result_recorded")
    BY <1>2 DEF PlanInv, AttemptInv, OpsOf, NodeOf
  <2> QED BY <1>3, <1>7, <2>1 DEF AttemptInv, OpsOf, NodeOf
<1>9. EditInv'
  <2>1. \A b \in Ids : Sent(b)' = Sent(b)
    BY DEF Sent, NodeOf
  <2>2. "edit" \in Nodes
    BY NodeNames
  <2>3. \A b \in Ids : Sent(b) /\ attempts[b].version = plan.version => plan'.node["edit"].status \notin {"pending", "ready"}
    <3>1. CASE n = "edit"
      BY <1>2, <3>1 DEF n
    <3>2. CASE n # "edit"
      BY <1>2, <2>2, <3>2 DEF PlanInv, EditInv, Status
    <3> QED BY <3>1, <3>2
  <2> QED BY <1>2, <1>3, <2>1, <2>3 DEF PlanInv, EditInv, Status, NodeOf
<1> QED BY <1>2, <1>3, <1>4, <1>6, <1>8, <1>9 DEF n, NodeOf

\* The other attempts in hand are not touched.
LEMMA HoldsApart ==
  ASSUME PlanInv, NEW a \in OpenAttempts, attempts' = attempts,
         \A m \in Nodes \ {NodeOf(a)} : plan'.node[m] = plan.node[m],
         NEW b \in OpenAttempts, b # a, Holds(b)
  PROVE  Holds(b)'
<1>1. NodeOf(b) \in Nodes /\ NodeOf(b) # NodeOf(a)
  BY RowFacts DEF PlanInv, AttemptInv, AttemptsMatchNodes, OpenAttempts, NodeOf
<1>2. plan'.node[attempts[b].node] = plan.node[attempts[b].node]
  BY <1>1 DEF NodeOf
<1> QED BY <1>2 DEF Holds, Status, HolderOf, NodeOf

LEMMA SetsTypes ==
  ASSUME PlanInv, plan' \in Graph, plan'.version = plan.version, plan'.inputs = plan.inputs, attempts' = attempts,
         UNCHANGED <<live, disk, top, origin, rollback, request, life, foreign>>, me' \in OwnerState
  PROVE  TypeInv'
<1>1. /\ plan \in Graph /\ plan.version \in 1 .. MaxReplans + 1 /\ plan.inputs \in 1 .. top /\ Len(attempts) <= MaxAttempts
      /\ attempts \in Seq(AttemptRow) /\ live \subseteq Ids /\ disk \in 1 .. top /\ top \in Nat
      /\ origin \in 1 .. top /\ life \in Nat /\ foreign \in Nat /\ rollback \in Rollback
      /\ request \in [version : Nat, status : {"none", "started", "rejected", "committed"}]
  BY TypeFacts DEF PlanInv
<1>2. plan'.version \in 1 .. MaxReplans + 1 /\ plan'.inputs \in 1 .. top' /\ Ids' = Ids
  BY <1>1 DEF Ids
<1> QED BY <1>1, <1>2, TypeMade

LEMMA MarkRunningKeeps == ASSUME PlanInv, MarkRunning PROVE PlanInv'
<1> DEFINE a == me.a
           n == NodeOf(a)
<1>1. /\ me.pc = "mark" /\ plan' = SetNode(plan, n, "running", a, 0) /\ me' = [me EXCEPT !.pc = "dispatch"]
      /\ UNCHANGED <<attempts, live, disk, top, origin, rollback, request, life, foreign>>
  BY DEF MarkRunning, world, NodeOf
<1>2. a \in InHand /\ InHand = ToSet(me.batch) \cup {a} /\ a \in OpenAttempts /\ a \notin ToSet(me.batch)
      /\ attempts[a].phase = "prepared" /\ Status(n) = "ready" /\ me.then # "recover" /\ OpenAttempts = InHand
  <2>1. InHand = ToSet(me.batch) \cup {a} /\ me.then # "recover"
    BY <1>1 DEF InHand, PlanInv, RecoveryInv, Settling
  <2> QED BY <1>1, <2>1 DEF PlanInv, OwnerInv
<1>3. /\ NodeInv' /\ AttemptInv' /\ EditInv' /\ OpenAttempts' = OpenAttempts
      /\ plan' \in Graph /\ plan'.version = plan.version /\ plan'.inputs = plan.inputs
      /\ plan'.node[n].status = "running" /\ plan'.node[n].attempt = a
      /\ \A m \in Nodes \ {n} : plan'.node[m] = plan.node[m]
  BY <1>1, <1>2, StatusNames, JournalSets
<1>4. /\ me' \in OwnerState /\ me'.pc = "dispatch" /\ me'.a = a /\ me'.batch = me.batch /\ me'.then = me.then
      /\ me'.queue = me.queue /\ me'.before = me.before
  BY <1>1, OwnerTypes DEF OwnerState, OwnerPlaces
<1>5. attempts'[a].node = n /\ n \in Nodes
  BY <1>1, <1>2, RowFacts DEF NodeOf, PlanInv, OpenAttempts
<1>6. plan'.node[attempts'[a].node].status = "running" /\ plan'.node[attempts'[a].node].attempt = a
  BY <1>3, <1>5
<1>7. \A b \in ToSet(me.batch) : Holds(b)'
  <2>1. \A b \in ToSet(me.batch) : Holds(b) /\ b \in OpenAttempts /\ b # a
    BY <1>2 DEF PlanInv, OwnerInv
  <2> QED BY <1>1, <1>2, <1>3, <2>1, HoldsApart
<1>8. \A b : Holds(b)' <=> (plan'.node[attempts'[b].node].status = "running" /\ plan'.node[attempts'[b].node].attempt = b)
  BY DEF Holds, Status, HolderOf, NodeOf
<1> HIDE DEF a, n
<1>9. InHand' = InHand
  BY <1>1, <1>2, <1>4 DEF InHand
<1>10. OwnerInv'
  <2>1. /\ InHand' \subseteq OpenAttempts' /\ IsInjective(me'.batch) /\ OpenAttempts' = InHand'
        /\ me'.a \notin ToSet(me'.batch) /\ attempts'[me'.a].phase = "prepared"
        /\ \A b \in ToSet(me'.batch) : attempts'[b].phase = "dispatched"
        /\ \A b \in InHand' : attempts'[b].life = life'
    BY <1>1, <1>2, <1>3, <1>4, <1>9 DEF PlanInv, OwnerInv, Starting
  <2>2. /\ \A b \in ToSet(me'.batch) : plan'.node[attempts'[b].node].status = "running" /\ plan'.node[attempts'[b].node].attempt = b
        /\ plan'.node[attempts'[me'.a].node].status = "running" /\ plan'.node[attempts'[me'.a].node].attempt = me'.a
    BY <1>4, <1>6, <1>7, <1>8
  <2> QED BY <1>4, <2>1, <2>2 DEF OwnerInv, Starting, Settling, Resting, Holds, Status, HolderOf, NodeOf
<1>11. RecoveryInv'
  BY <1>2, <1>4 DEF RecoveryInv
<1>12. ReadInv'
  <2>1. me.then = "reopen" => \A x \in ToSet(me.queue) : plan'.node[x].status \in {"stale", "succeeded", "ready"}
    <3> SUFFICES ASSUME me.then = "reopen", NEW x \in ToSet(me.queue) PROVE plan'.node[x].status \in {"stale", "succeeded", "ready"}
      OBVIOUS
    <3>1. x # n /\ x \in Nodes /\ Status(x) \in {"stale", "succeeded", "ready"}
      BY <1>1, MemberOf, NodeNames DEF PlanInv, ReadInv, a, n
    <3> QED BY <1>3, <3>1 DEF Status
  <2> QED BY <1>1, <1>4, <1>9, <2>1 DEF PlanInv, ReadInv, Starting, Status, NodeOf
<1>13. LiveInv'
  <2>1. live' = {}
    BY <1>1 DEF PlanInv, LiveInv, Starting
  <2> QED BY <1>4, <2>1 DEF LiveInv, NothingBesideAWrite
<1>14. PatchInv'
  <2> SUFFICES ASSUME foreign = 0 PROVE NobodyElse'
    BY <1>1, <1>4 DEF PatchInv
  <2>1. NobodyElse
    BY DEF PlanInv, PatchInv
  <2>2. "edit" \in Nodes /\ "verify" \in Nodes
    BY NodeNames
  <2>3. Status("edit")' = "succeeded" <=> n # "edit" /\ Status("edit") = "succeeded"
    BY <1>3, <2>2 DEF Status
  <2>4. n # "edit" => plan'.node["edit"] = plan.node["edit"]
    BY <1>3, <2>2
  <2>5. Status("verify")' = "succeeded" => n # "verify" /\ Status("verify") = "succeeded" /\ plan'.node["verify"] = plan.node["verify"]
    BY <1>3, <2>2 DEF Status
  <2>6. n = "edit" => Status("edit") = "ready" /\ ~PatchIsThere
    BY <1>2 DEF n, PatchIsThere
  <2>7. PatchIsThere' <=> PatchIsThere
    BY <1>1, <2>3, <2>4, <2>6 DEF PatchIsThere
  <2>8. RolledBack' = RolledBack
    BY <1>1, <1>3 DEF RolledBack
  <2>9. \A b : NodeOf(b)' = NodeOf(b)
    BY <1>1 DEF NodeOf
  <2>10. Status("verify")' = "succeeded" => /\ Status("edit")' \in {"succeeded", "uncertain"} /\ (\A b \in OpenAttempts : NodeOf(b) # "edit")
                                           /\ plan'.node["verify"].ref = plan'.node["edit"].ref
    BY <2>1, <2>4, <2>5, <2>6 DEF NobodyElse, Status
  <2> QED BY <1>1, <1>2, <1>3, <1>4, <2>1, <2>3, <2>7, <2>8, <2>9, <2>10 DEF NobodyElse
<1>15. TypeInv'
  BY <1>1, <1>3, <1>4, SetsTypes
<1> QED BY <1>3, <1>10, <1>11, <1>12, <1>13, <1>14, <1>15 DEF PlanInv

-----------------------------------------------------------------------------
(* An attempt is dispatched, and ends.                                     *)

\* An attempt moves to another phase, and no more of it but its outcome.
PhaseWritten(a, phase, terminal) ==
    /\ attempts' \in Seq(AttemptRow) /\ Len(attempts') = Len(attempts) /\ Ids' = Ids
    /\ \A b \in Ids \ {a} : attempts'[b] = attempts[b]
    /\ attempts'[a].phase = phase /\ attempts'[a].terminal = terminal
    /\ attempts'[a].node = attempts[a].node /\ attempts'[a].version = attempts[a].version
    /\ attempts'[a].ops = attempts[a].ops /\ attempts'[a].life = attempts[a].life /\ attempts'[a].result = attempts[a].result
    /\ OpenAttempts' = IF phase = "reconciled" THEN OpenAttempts \ {a} ELSE OpenAttempts \cup {a}

LEMMA WritePhase ==
  ASSUME PlanInv, NEW a \in Ids, NEW phase \in Phases, NEW terminal \in {"none", "succeeded", "failed", "cancelled", "uncertain"},
         attempts' = [attempts EXCEPT ![a].phase = phase, ![a].terminal = terminal]
  PROVE  PhaseWritten(a, phase, terminal)
<1> DEFINE row == [attempts[a] EXCEPT !.phase = phase, !.terminal = terminal]
<1>1. attempts[a] \in AttemptRow /\ attempts \in Seq(AttemptRow) /\ a \in 1 .. Len(attempts)
  BY RowFacts, TypeFacts DEF PlanInv
<1>2. row \in AttemptRow /\ row.phase = phase /\ row.terminal = terminal /\ row.ops = attempts[a].ops
      /\ row.node = attempts[a].node /\ row.version = attempts[a].version
      /\ row.result = attempts[a].result /\ row.life = attempts[a].life
  BY <1>1 DEF AttemptRow
<1>3. attempts' = [attempts EXCEPT ![a] = row]
  BY <1>1
<1> HIDE DEF row
<1>4. RowWritten(a, row)
  BY <1>2, <1>3, WriteRow DEF PlanInv
<1>5. OpenAttempts' = IF phase = "reconciled" THEN OpenAttempts \ {a} ELSE OpenAttempts \cup {a}
  BY <1>2, <1>4, OpenRule DEF PlanInv
<1> QED BY <1>2, <1>4, <1>5 DEF RowWritten, PhaseWritten

LEMMA WriteOnlyPhase ==
  ASSUME PlanInv, NEW a \in Ids, NEW phase \in Phases, attempts' = [attempts EXCEPT ![a].phase = phase]
  PROVE  PhaseWritten(a, phase, attempts[a].terminal)
<1> DEFINE row == [attempts[a] EXCEPT !.phase = phase]
<1>1. attempts[a] \in AttemptRow /\ attempts \in Seq(AttemptRow) /\ a \in 1 .. Len(attempts)
  BY RowFacts, TypeFacts DEF PlanInv
<1>2. row \in AttemptRow /\ row.phase = phase /\ row.terminal = attempts[a].terminal /\ row.ops = attempts[a].ops
      /\ row.node = attempts[a].node /\ row.version = attempts[a].version
      /\ row.result = attempts[a].result /\ row.life = attempts[a].life
  BY <1>1 DEF AttemptRow
<1>3. attempts' = [attempts EXCEPT ![a] = row]
  BY <1>1
<1> HIDE DEF row
<1>4. RowWritten(a, row)
  BY <1>2, <1>3, WriteRow DEF PlanInv
<1>5. OpenAttempts' = IF phase = "reconciled" THEN OpenAttempts \ {a} ELSE OpenAttempts \cup {a}
  BY <1>2, <1>4, OpenRule DEF PlanInv
<1> QED BY <1>2, <1>4, <1>5 DEF RowWritten, PhaseWritten

LEMMA DispatchKeeps == ASSUME PlanInv, Dispatch PROVE PlanInv'
<1> DEFINE a == me.a
           n == NodeOf(a)
           batch == Append(me.batch, a)
           pc == IF me.before = 0 \/ me.queue = <<>> THEN "run" ELSE "prepare"
<1>1. /\ me.pc = "dispatch" /\ attempts' = [attempts EXCEPT ![a].phase = "dispatched"]
      /\ me' = [me EXCEPT !.batch = batch, !.pc = pc]
      /\ live' = IF n = "verify" THEN live \cup {a} ELSE live
      /\ UNCHANGED <<plan, disk, top, origin, rollback, request, life, foreign>>
  BY DEF Dispatch, world, NodeOf
<1>2. /\ InHand = ToSet(me.batch) \cup {a} /\ a \in OpenAttempts /\ a \in Ids /\ a \notin ToSet(me.batch)
      /\ attempts[a].phase = "prepared" /\ Holds(a) /\ me.then # "recover" /\ OpenAttempts = InHand
      /\ attempts[a].life = life /\ live = {} /\ attempts[a].version = plan.version /\ attempts[a].ops = <<>>
      /\ IsInjective(me.batch) /\ \A b \in ToSet(me.batch) : Holds(b) /\ attempts[b].phase = "dispatched" /\ attempts[b].life = life
  <2>1. InHand = ToSet(me.batch) \cup {a} /\ me.then # "recover"
    BY <1>1 DEF InHand, PlanInv, RecoveryInv, Settling
  <2>2. a \in OpenAttempts /\ a \in Ids
    BY <2>1 DEF PlanInv, OwnerInv, OpenAttempts
  <2> QED BY <1>1, <2>1, <2>2 DEF PlanInv, OwnerInv, LiveInv, AttemptInv, Starting
<1>3. "dispatched" \in Phases /\ n \in Nodes
  BY <1>2, RowFacts DEF Phases, PlanInv
<1>4. PhaseWritten(a, "dispatched", attempts[a].terminal)
  BY <1>1, <1>2, <1>3, WriteOnlyPhase
<1>5. /\ attempts' \in Seq(AttemptRow) /\ Len(attempts') = Len(attempts) /\ Ids' = Ids
      /\ \A b \in Ids \ {a} : attempts'[b] = attempts[b]
      /\ attempts'[a].phase = "dispatched" /\ attempts'[a].terminal = attempts[a].terminal
      /\ attempts'[a].node = n /\ attempts'[a].version = plan.version
      /\ attempts'[a].ops = <<>> /\ attempts'[a].life = life
      /\ OpenAttempts' = OpenAttempts
      /\ \A b \in Ids : attempts'[b].node = attempts[b].node /\ attempts'[b].version = attempts[b].version
                        /\ attempts'[b].ops = attempts[b].ops /\ attempts'[b].terminal = attempts[b].terminal
      /\ \A b \in Ids : attempts'[b].phase = "reconciled" <=> attempts[b].phase = "reconciled"
  BY <1>2, <1>4 DEF PhaseWritten, NodeOf
<1>6. /\ ToSet(batch) = ToSet(me.batch) \cup {a} /\ IsInjective(batch) /\ batch \in Seq(Nat) /\ batch # <<>>
  BY <1>2, AppendSet, OwnerTypes
<1>7. /\ me' \in OwnerState /\ me'.pc = pc /\ me'.batch = batch /\ me'.then = me.then /\ me'.queue = me.queue
      /\ me'.before = me.before /\ me'.a = a /\ pc \in {"run", "prepare"}
  <2>1. pc \in {"run", "prepare"}
    OBVIOUS
  <2> HIDE DEF pc, batch
  <2> QED BY <1>1, <1>6, <2>1, OwnerTypes DEF OwnerState, OwnerPlaces
<1>8. pc = "prepare" => me.before # 0 /\ me.queue # <<>>
  OBVIOUS
<1>9. me.before = 0 => me.batch = <<>> /\ pc = "run"
  BY <1>1 DEF PlanInv, ReadInv, Starting
<1>10. me.before # 0 => (\A b \in InHand : NodeOf(b) \in Explores) /\ me.then # "reopen" /\ me.queue \in Seq(Explores)
  BY <1>1 DEF PlanInv, ReadInv, Starting
<1>11. Status(n) = "running" /\ HolderOf(n) = a
  BY <1>2 DEF Holds
<1>12. me.before = 0 => Len(batch) = 1
  BY <1>9, AppendToEmpty
<1> HIDE DEF a, n, batch, pc
<1>13. InHand' = InHand
  BY <1>2, <1>6, <1>7 DEF InHand
<1>14. NodeInv'
  BY <1>1, <1>5 DEF PlanInv, NodeInv, Status, HolderOf, NodeOf
<1>15. AttemptInv'
  <2>1. AttemptsMatchNodes'
    <3>1. ASSUME NEW b \in OpenAttempts
          PROVE  /\ \/ attempts'[b].version = plan'.version /\ plan'.node[attempts'[b].node].attempt \in {0, b}
                    \/ attempts'[b].node \in Explores /\ attempts'[b].phase = "prepared"
                 /\ \A c \in OpenAttempts : attempts'[c].node = attempts'[b].node => c = b
      <4>1. b \in Ids /\ OpenAttempts \subseteq Ids
        BY DEF OpenAttempts
      <4>2. \A c \in OpenAttempts : attempts'[c].node = attempts'[b].node => c = b
        BY <1>5, <4>1 DEF PlanInv, AttemptInv, AttemptsMatchNodes
      <4>3. CASE b = a
        BY <1>1, <1>5, <1>11, <4>2, <4>3 DEF HolderOf
      <4>4. CASE b # a
        <5>1. attempts'[b] = attempts[b]
          BY <1>5, <4>1, <4>4
        <5> QED BY <1>1, <4>2, <5>1 DEF PlanInv, AttemptInv, AttemptsMatchNodes, Owned
      <4> QED BY <4>3, <4>4
    <3>2. ASSUME NEW m \in Nodes, NEW b, b = plan'.node[m].attempt, b # 0, attempts'[b].phase = "reconciled"
          PROVE  IF attempts'[b].terminal = "succeeded" THEN plan'.node[m].status \in {"succeeded", "stale", "ready", "running", "uncertain"}
                 ELSE plan'.node[m].status = attempts'[b].terminal
      <4>1. b = HolderOf(m) /\ plan'.node[m].status = Status(m) /\ b \in Ids
        BY <1>1, <3>2 DEF HolderOf, Status, PlanInv, NodeInv
      <4>2. attempts[b].phase = "reconciled" /\ attempts'[b].terminal = attempts[b].terminal
        BY <1>5, <3>2, <4>1
      <4> QED BY <3>2, <4>1, <4>2, NodeOutcome
    <3> QED BY <1>5, <3>1, <3>2, MatchMade
  <2>2. \A b \in Ids :
          /\ attempts'[b].version <= plan'.version
          /\ b \in OpenAttempts => attempts'[b].version = plan'.version
          /\ attempts'[b].phase = "prepared" => attempts'[b].ops = <<>>
          /\ attempts'[b].phase = "reconciled" => attempts'[b].terminal \in Outcomes
          /\ \A o \in ToSet(attempts'[b].ops) : (o.tool = "write" => attempts'[b].node = "edit") /\ (o.stopped => o.phase = "result_recorded")
    BY <1>1, <1>5 DEF PlanInv, AttemptInv, OpsOf, NodeOf
  <2> QED BY <1>5, <2>1, <2>2 DEF AttemptInv, OpsOf, NodeOf
<1>16. EditInv'
  <2>1. \A b \in Ids : Sent(b)' => Sent(b) \/ (b = a /\ n = "edit")
    BY <1>5 DEF Sent, NodeOf
  <2>2. n = "edit" => /\ \A b \in Ids : ~(Sent(b) /\ attempts[b].version = plan.version)
                      /\ \A b \in Ids : attempts'[b].node = "edit" => attempts'[b].phase # "prepared"
    <3> SUFFICES ASSUME n = "edit"
        PROVE  /\ \A b \in Ids : ~(Sent(b) /\ attempts[b].version = plan.version)
               /\ \A b \in Ids : attempts'[b].node = "edit" => attempts'[b].phase # "prepared"
      OBVIOUS
    <3>1. NodeOf(a) = "edit" /\ attempts[a].phase = "prepared"
      BY <1>2 DEF n
    <3>2. \A b \in Ids : ~(Sent(b) /\ attempts[b].version = plan.version)
      BY <1>2, <3>1 DEF PlanInv, EditInv
    <3>3. ASSUME NEW b \in Ids, attempts'[b].node = "edit" PROVE attempts'[b].phase # "prepared"
      <4>1. CASE b = a
        BY <1>5, <4>1
      <4>2. CASE b # a
        <5>1. attempts[b].phase # "prepared"
          BY <1>2, <1>5, <3>1, <3>3, <4>2 DEF PlanInv, AttemptInv, AttemptsMatchNodes, OpenAttempts, NodeOf
        <5> QED BY <1>5, <4>2, <5>1
      <4> QED BY <4>1, <4>2
    <3> QED BY <3>2, <3>3
  <2>3. \A b, c \in Ids : Sent(b)' /\ Sent(c)' /\ attempts'[b].version = attempts'[c].version => b = c
    <3>1. \A b \in Ids : attempts'[b].version = attempts[b].version
      BY <1>5
    <3>2. \A b, c \in Ids : Sent(b) /\ Sent(c) /\ attempts[b].version = attempts[c].version => b = c
      BY DEF PlanInv, EditInv
    <3> QED BY <1>2, <2>1, <2>2, <3>1, <3>2
  <2>4. \A b \in Ids : Sent(b)' /\ attempts'[b].version = plan'.version =>
          /\ Status("edit")' \notin {"pending", "ready"}
          /\ \A c \in Ids : attempts'[c].node = "edit" => attempts'[c].phase # "prepared"
    <3>1. \A b \in Ids : Sent(b) /\ attempts[b].version = plan.version =>
          /\ Status("edit") \notin {"pending", "ready"}
          /\ \A c \in Ids : attempts[c].node = "edit" => attempts[c].phase # "prepared"
      BY DEF PlanInv, EditInv, NodeOf
    <3>2. \A c \in Ids : attempts'[c].phase = "prepared" => attempts[c].phase = "prepared"
      BY <1>5
    <3>3. Status("edit")' = Status("edit")
      BY <1>1 DEF Status
    <3> QED BY <1>1, <1>5, <1>11, <2>1, <2>2, <3>1, <3>2, <3>3
  <2> QED BY <1>5, <2>3, <2>4 DEF EditInv, NodeOf
<1>17. \A b \in InHand : attempts'[b].phase = "dispatched" /\ attempts'[b].life = life
                         /\ plan.node[attempts'[b].node].status = "running" /\ plan.node[attempts'[b].node].attempt = b
  <2>1. \A b \in InHand : Holds(b)
    BY <1>2
  <2>2. ASSUME NEW b \in InHand PROVE attempts'[b].phase = "dispatched" /\ attempts'[b].life = life
    <3>1. CASE b = a
      BY <1>5, <3>1
    <3>2. CASE b # a
      <4>1. b \in ToSet(me.batch) /\ b \in Ids
        BY <1>2, <3>2 DEF OpenAttempts
      <4> QED BY <1>2, <1>5, <3>2, <4>1
    <3> QED BY <3>1, <3>2
  <2>3. \A b \in InHand : attempts'[b].node = attempts[b].node
    BY <1>2, <1>5 DEF OpenAttempts
  <2> QED BY <2>1, <2>2, <2>3 DEF Holds, Status, HolderOf, NodeOf
<1>18. OwnerInv'
  BY <1>1, <1>2, <1>5, <1>6, <1>7, <1>13, <1>17 DEF OwnerInv, Starting, Settling, Resting, Holds, Status, HolderOf, NodeOf
<1>19. RecoveryInv'
  BY <1>2, <1>7 DEF RecoveryInv
<1>20. ReadInv'
  <2>1. me.before # 0 => \A b \in InHand : attempts'[b].node \in Explores
    BY <1>2, <1>5, <1>10 DEF NodeOf, OpenAttempts
  <2>2. me.then = "reopen" => /\ me.before = 0 /\ me.queue \in Seq(Explores) /\ IsInjective(me.queue)
                              /\ \A x \in ToSet(me.queue) : Status(x)' \in {"stale", "succeeded", "ready"}
    BY <1>1 DEF PlanInv, ReadInv, Status
  <2> QED BY <1>7, <1>8, <1>9, <1>10, <1>12, <1>13, <2>1, <2>2 DEF ReadInv, Starting, NodeOf
<1>21. LiveInv'
  <2>1. live' \subseteq {a} /\ (live' # {} => n = "verify") /\ a \in ToSet(batch)
    BY <1>1, <1>2, <1>6
  <2>2. n = "verify" => pc = "run"
    <3>1. n = "verify" => me.before = 0
      BY <1>2, <1>10, NodeNames DEF n
    <3> QED BY <1>9, <3>1
  <2>3. \A b \in live' :
          /\ attempts'[b].version = plan'.version
          /\ plan'.node[attempts'[b].node].attempt = b /\ plan'.node[attempts'[b].node].status \in {"running", "uncertain"}
          /\ attempts'[b].phase # "prepared" /\ attempts'[b].node = "verify" /\ attempts'[b].phase = "dispatched"
    BY <1>1, <1>5, <1>11, <2>1 DEF Status, HolderOf
  <2>4. NothingBesideAWrite'
    BY <2>1 DEF NothingBesideAWrite
  <2>5. live' # {} => me'.pc \notin Starting
    BY <1>7, <2>1, <2>2 DEF Starting
  <2>6. live' \subseteq ToSet(me'.batch)
    BY <1>7, <2>1
  <2> QED BY <2>3, <2>4, <2>5, <2>6 DEF LiveInv, NodeOf, HolderOf, Status
<1>22. PatchInv'
  <2> SUFFICES ASSUME foreign = 0 PROVE NobodyElse'
    BY <1>1, <1>7 DEF PatchInv
  <2>1. NobodyElse
    BY DEF PlanInv, PatchInv
  <2>2. PatchIsThere' = PatchIsThere /\ RolledBack' = RolledBack /\ \A m : Status(m)' = Status(m)
    BY <1>1 DEF PatchIsThere, RolledBack, Status
  <2>3. \A b \in OpenAttempts : attempts'[b].node = attempts[b].node
    BY <1>5 DEF OpenAttempts
  <2> QED BY <1>1, <1>5, <1>7, <2>1, <2>2, <2>3 DEF NobodyElse, NodeOf
<1>23. TypeInv'
  <2>1. /\ plan \in Graph /\ plan.version \in 1 .. MaxReplans + 1 /\ plan.inputs \in 1 .. top /\ Len(attempts) <= MaxAttempts
        /\ disk \in 1 .. top /\ top \in Nat /\ origin \in 1 .. top /\ life \in Nat /\ foreign \in Nat /\ rollback \in Rollback
        /\ request \in [version : Nat, status : {"none", "started", "rejected", "committed"}]
    BY TypeFacts DEF PlanInv
  <2>2. live' \subseteq Ids'
    BY <1>1, <1>2, <1>5
  <2> QED BY <1>1, <1>5, <1>7, <2>1, <2>2, TypeMade
<1> QED BY <1>14, <1>15, <1>16, <1>18, <1>19, <1>20, <1>21, <1>22, <1>23 DEF PlanInv

LEMMA EndRunKeeps == ASSUME PlanInv, EndRun PROVE PlanInv'
<1> DEFINE batch == ToSet(me.batch)
           lost(a) == [attempts[a] EXCEPT !.result = "uncertain", !.ref = 0]
<1>1. /\ me.pc = "run" /\ \A a \in batch : attempts[a].phase = "result_recorded"
      /\ \/ attempts' = attempts
         \/ attempts' = [a \in Ids |-> IF a \in batch THEN lost(a) ELSE attempts[a]]
      /\ me' = [me EXCEPT !.pc = "settle", !.a = Head(me.batch), !.batch = Tail(me.batch), !.before = 0]
      /\ UNCHANGED <<plan, live, disk, top, origin, rollback, request, life, foreign>>
  BY DEF EndRun, world
<1>2. /\ me.batch \in Seq(Nat) /\ me.batch # <<>> /\ InHand = batch /\ batch \subseteq OpenAttempts /\ IsInjective(me.batch)
      /\ me.then # "recover" /\ OpenAttempts = batch /\ \A a \in batch : Holds(a)
  BY <1>1, OwnerTypes DEF PlanInv, OwnerInv, RecoveryInv, Settling, InHand
<1>3. /\ Tail(me.batch) \in Seq(Nat) /\ batch = {Head(me.batch)} \cup ToSet(Tail(me.batch)) /\ Head(me.batch) \in Nat
      /\ IsInjective(Tail(me.batch)) /\ Head(me.batch) \notin ToSet(Tail(me.batch))
  BY <1>2, TailSet
<1>4. /\ me' \in OwnerState /\ me'.pc = "settle" /\ me'.a = Head(me.batch) /\ me'.batch = Tail(me.batch)
      /\ me'.then = me.then /\ me'.queue = me.queue /\ me'.before = 0
  BY <1>1, <1>3, OwnerTypes DEF OwnerState, OwnerPlaces
<1>5. InHand' = batch
  BY <1>3, <1>4 DEF InHand
<1>6. \A a \in Ids : lost(a) \in AttemptRow /\ lost(a).node = attempts[a].node /\ lost(a).version = attempts[a].version
        /\ lost(a).terminal = attempts[a].terminal /\ lost(a).life = attempts[a].life /\ lost(a).phase = attempts[a].phase
        /\ lost(a).ops = attempts[a].ops /\ lost(a).result = "uncertain"
  <2> SUFFICES ASSUME NEW a \in Ids
      PROVE lost(a) \in AttemptRow /\ lost(a).node = attempts[a].node /\ lost(a).version = attempts[a].version
        /\ lost(a).terminal = attempts[a].terminal /\ lost(a).life = attempts[a].life /\ lost(a).phase = attempts[a].phase
        /\ lost(a).ops = attempts[a].ops /\ lost(a).result = "uncertain"
    OBVIOUS
  <2>1. attempts[a] \in AttemptRow
    BY RowFacts DEF PlanInv
  <2> QED BY <2>1 DEF AttemptRow, Results
<1> HIDE DEF batch, lost
<1>7. /\ attempts' \in Seq(AttemptRow) /\ Len(attempts') = Len(attempts) /\ Ids' = Ids
      /\ \A a \in Ids : attempts'[a] = attempts[a] \/ attempts'[a] = lost(a)
  <2>1. attempts \in Seq(AttemptRow) /\ Ids = 1 .. Len(attempts) /\ Len(attempts) \in Nat /\ \A a \in Ids : attempts[a] \in AttemptRow
    BY TypeFacts, RowFacts DEF PlanInv
  <2>2. CASE attempts' = attempts
    BY <2>1, <2>2 DEF Ids
  <2>3. CASE attempts' = [a \in Ids |-> IF a \in batch THEN lost(a) ELSE attempts[a]]
    <3>1. \A a \in Ids : attempts'[a] = IF a \in batch THEN lost(a) ELSE attempts[a]
      BY <2>3
    <3>2. attempts' \in [1 .. Len(attempts) -> AttemptRow]
      BY <1>6, <2>1, <2>3
    <3>3. attempts' \in Seq(AttemptRow) /\ Len(attempts') = Len(attempts)
      BY <2>1, <3>2
    <3> QED BY <2>1, <3>1, <3>3 DEF Ids
  <2> QED BY <1>1, <2>2, <2>3
<1>8. \A a \in Ids : /\ attempts'[a].node = attempts[a].node /\ attempts'[a].version = attempts[a].version
                     /\ attempts'[a].terminal = attempts[a].terminal /\ attempts'[a].life = attempts[a].life
                     /\ attempts'[a].phase = attempts[a].phase /\ attempts'[a].ops = attempts[a].ops
                     /\ attempts'[a].result = attempts[a].result \/ attempts'[a].result = "uncertain"
  BY <1>6, <1>7
<1>9. Advances
  BY <1>1, <1>7, <1>8 DEF Advances
<1>10. NodeInv' /\ AttemptInv' /\ EditInv' /\ OpenAttempts' = OpenAttempts
  BY <1>9, JournalKept, OpenKept
<1>11. batch \subseteq Ids
  BY <1>2 DEF OpenAttempts
<1>12. \A a \in Ids : Holds(a)' = Holds(a)
  BY <1>1, <1>8 DEF Holds, Status, HolderOf, NodeOf
<1>13. OwnerInv'
  <2>1. /\ InHand' \subseteq OpenAttempts' /\ IsInjective(me'.batch) /\ OpenAttempts' = InHand' /\ me'.a \notin ToSet(me'.batch)
        /\ \A a \in InHand' : attempts'[a].phase = "result_recorded"
    BY <1>1, <1>2, <1>3, <1>4, <1>5, <1>8, <1>10, <1>11
  <2>2. \A a \in InHand' : plan'.node[attempts'[a].node].status = "running" /\ plan'.node[attempts'[a].node].attempt = a
    BY <1>1, <1>2, <1>5, <1>8, <1>11 DEF Holds, Status, HolderOf, NodeOf
  <2>3. ToSet(me'.batch) \subseteq InHand' /\ me'.a \in InHand'
    BY <1>3, <1>4, <1>5
  <2> QED BY <1>2, <1>4, <2>1, <2>2, <2>3 DEF OwnerInv, Starting, Settling, Resting, Holds, Status, HolderOf, NodeOf
<1>14. RecoveryInv'
  BY <1>2, <1>4 DEF RecoveryInv
<1>15. ReadInv'
  BY <1>1, <1>4 DEF PlanInv, ReadInv, Starting, Status
<1>16. LiveInv'
  <2>1. live \subseteq Ids
    BY TypeFacts DEF PlanInv
  <2>2. \A a \in live :
          /\ attempts'[a].version = plan'.version
          /\ plan'.node[attempts'[a].node].attempt = a /\ plan'.node[attempts'[a].node].status \in {"running", "uncertain"}
          /\ attempts'[a].phase # "prepared"
          /\ IF attempts'[a].node = "verify"
             THEN attempts'[a].phase = "dispatched" \/ attempts'[a].result = "uncertain"
             ELSE attempts'[a].life = life /\ attempts'[a].ops # <<>> /\ ~Complete(Last(attempts'[a].ops))
    BY <1>1, <1>8, <2>1 DEF PlanInv, LiveInv, NodeOf, HolderOf, Status
  <2>3. NothingBesideAWrite'
    BY <1>1, <1>8, <2>1 DEF PlanInv, LiveInv, NothingBesideAWrite
  <2> QED BY <1>1, <1>4, <2>2, <2>3 DEF LiveInv, Starting, NodeOf, HolderOf, Status
<1>17. PatchInv'
  <2> SUFFICES ASSUME foreign = 0 PROVE NobodyElse'
    BY <1>1, <1>4 DEF PatchInv
  <2>1. NobodyElse
    BY DEF PlanInv, PatchInv
  <2>2. PatchIsThere' = PatchIsThere /\ RolledBack' = RolledBack /\ \A m : Status(m)' = Status(m)
    BY <1>1 DEF PatchIsThere, RolledBack, Status
  <2>3. \A b \in OpenAttempts : attempts'[b].node = attempts[b].node
    BY <1>8 DEF OpenAttempts
  <2> QED BY <1>1, <1>2, <1>4, <1>10, <2>1, <2>2, <2>3 DEF NobodyElse, NodeOf
<1>18. TypeInv'
  <2>1. /\ plan \in Graph /\ plan.version \in 1 .. MaxReplans + 1 /\ plan.inputs \in 1 .. top /\ Len(attempts) <= MaxAttempts
        /\ disk \in 1 .. top /\ top \in Nat /\ origin \in 1 .. top /\ life \in Nat /\ foreign \in Nat /\ rollback \in Rollback
        /\ request \in [version : Nat, status : {"none", "started", "rejected", "committed"}] /\ live \subseteq Ids
    BY TypeFacts DEF PlanInv
  <2> QED BY <1>1, <1>4, <1>7, <2>1, TypeMade
<1> QED BY <1>10, <1>13, <1>14, <1>15, <1>16, <1>17, <1>18 DEF PlanInv

LEMMA SettleRowKeeps == ASSUME PlanInv, SettleRow PROVE PlanInv'
<1> DEFINE a == me.a
           closed == me.status # "uncertain"
           row == [attempts[a] EXCEPT !.closed = closed]
<1>1. /\ me.pc = "row" /\ attempts' = [attempts EXCEPT ![a] = row] /\ me' = [me EXCEPT !.pc = "after"]
      /\ UNCHANGED <<plan, live, disk, top, origin, rollback, request, life, foreign>>
  BY Zenon DEF SettleRow, world
<1>2. a \in Ids
  BY <1>1 DEF PlanInv, OwnerInv
<1>3. closed \in BOOLEAN
  OBVIOUS
<1> HIDE DEF closed
<1>4. /\ row \in AttemptRow /\ row.node = attempts[a].node /\ row.version = attempts[a].version
      /\ row.terminal = attempts[a].terminal /\ row.life = attempts[a].life /\ row.phase = attempts[a].phase
      /\ row.ops = attempts[a].ops /\ row.result = attempts[a].result
  <2>1. attempts[a] \in AttemptRow
    BY <1>2, RowFacts DEF PlanInv
  <2> QED BY <1>3, <2>1 DEF AttemptRow
<1> HIDE DEF row, a
<1>5. RowWritten(a, row)
  BY <1>1, <1>2, <1>4, WriteRow DEF PlanInv
<1>6. /\ attempts' \in Seq(AttemptRow) /\ Len(attempts') = Len(attempts) /\ Ids' = Ids
      /\ \A b \in Ids : /\ attempts'[b].node = attempts[b].node /\ attempts'[b].version = attempts[b].version
                     /\ attempts'[b].terminal = attempts[b].terminal /\ attempts'[b].life = attempts[b].life
                     /\ attempts'[b].phase = attempts[b].phase /\ attempts'[b].ops = attempts[b].ops
                     /\ attempts'[b].result = attempts[b].result
  BY <1>2, <1>4, <1>5 DEF RowWritten
<1>7. Advances
  BY <1>1, <1>6 DEF Advances
<1>8. NodeInv' /\ AttemptInv' /\ EditInv' /\ OpenAttempts' = OpenAttempts
  BY <1>7, JournalKept, OpenKept
<1>9. /\ me' \in OwnerState /\ me'.pc = "after" /\ me'.batch = me.batch /\ me'.then = me.then /\ me'.queue = me.queue
      /\ me'.before = me.before /\ me'.a = me.a /\ me'.bad = me.bad /\ me'.status = me.status
  BY <1>1, OwnerTypes DEF OwnerState, OwnerPlaces
<1>10. InHand' = ToSet(me.batch) /\ InHand = ToSet(me.batch) /\ ToSet(me.batch) \subseteq Ids
  <2>1. InHand' = ToSet(me.batch) /\ InHand = ToSet(me.batch)
    BY <1>1, <1>9 DEF InHand
  <2> QED BY <2>1 DEF PlanInv, OwnerInv, OpenAttempts
<1>11. OwnerInv'
  <2>1. \A b \in ToSet(me.batch) : Holds(b)'
    BY <1>1, <1>6, <1>10 DEF PlanInv, OwnerInv, Holds, Status, HolderOf, NodeOf
  <2> QED BY <1>1, <1>2, <1>6, <1>8, <1>9, <1>10, <2>1 DEF PlanInv, OwnerInv, Starting, Settling, Resting, a
<1>12. RecoveryInv'
  BY <1>1, <1>8, <1>9, <1>10 DEF PlanInv, RecoveryInv, Settling
<1>13. ReadInv'
  BY <1>1, <1>9 DEF PlanInv, ReadInv, Starting, Status
<1>14. LiveInv'
  <2>1. live \subseteq Ids
    BY TypeFacts DEF PlanInv
  <2>2. \A b \in live :
          /\ attempts'[b].version = plan'.version
          /\ plan'.node[attempts'[b].node].attempt = b /\ plan'.node[attempts'[b].node].status \in {"running", "uncertain"}
          /\ attempts'[b].phase # "prepared"
          /\ IF attempts'[b].node = "verify"
             THEN attempts'[b].phase = "dispatched" \/ attempts'[b].result = "uncertain"
             ELSE attempts'[b].life = life /\ attempts'[b].ops # <<>> /\ ~Complete(Last(attempts'[b].ops))
    BY <1>1, <1>6, <2>1 DEF PlanInv, LiveInv, NodeOf, HolderOf, Status
  <2>3. NothingBesideAWrite'
    BY <1>1, <1>6, <2>1 DEF PlanInv, LiveInv, NothingBesideAWrite
  <2> QED BY <1>1, <1>9, <2>2, <2>3 DEF LiveInv, Starting, NodeOf, HolderOf, Status
<1>15. PatchInv'
  <2> SUFFICES ASSUME foreign = 0 PROVE NobodyElse'
    BY <1>1, <1>9 DEF PatchInv
  <2>1. NobodyElse
    BY DEF PlanInv, PatchInv
  <2>2. PatchIsThere' = PatchIsThere /\ RolledBack' = RolledBack /\ \A m : Status(m)' = Status(m)
    BY <1>1 DEF PatchIsThere, RolledBack, Status
  <2>3. (\A b \in OpenAttempts : attempts'[b].node = attempts[b].node) /\ attempts'[me'.a].node = attempts[me.a].node
    BY <1>2, <1>6, <1>9 DEF OpenAttempts, a
  <2> QED BY <1>1, <1>8, <1>9, <2>1, <2>2, <2>3 DEF NobodyElse, NodeOf
<1>16. TypeInv'
  <2>1. /\ plan \in Graph /\ plan.version \in 1 .. MaxReplans + 1 /\ plan.inputs \in 1 .. top /\ Len(attempts) <= MaxAttempts
        /\ disk \in 1 .. top /\ top \in Nat /\ origin \in 1 .. top /\ life \in Nat /\ foreign \in Nat /\ rollback \in Rollback
        /\ request \in [version : Nat, status : {"none", "started", "rejected", "committed"}] /\ live \subseteq Ids
    BY TypeFacts DEF PlanInv
  <2> QED BY <1>1, <1>6, <1>9, <2>1, TypeMade
<1> QED BY <1>8, <1>11, <1>12, <1>13, <1>14, <1>15, <1>16 DEF PlanInv

LEMMA VerdictFacts ==
  ASSUME PlanInv, NEW a \in Ids
  PROVE  /\ Verdict(a) \in Outcomes
         /\ attempts[a].result = "uncertain" \/ (\E o \in OpsOf(a) : Unknown(o)) => Verdict(a) = "uncertain"
         /\ Verdict(a) = "succeeded" => attempts[a].ref = disk
  BY DEF Verdict, Outcomes, Valid

\* An attempt that still executes cannot be settled but as uncertain.
LEMMA LiveIsUncertain == ASSUME PlanInv, NEW a \in live, attempts[a].phase = "result_recorded" PROVE Verdict(a) = "uncertain"
<1>1. a \in Ids
  BY TypeFacts DEF PlanInv
<1>2. CASE NodeOf(a) = "verify"
  <2>1. attempts[a].result = "uncertain"
    BY <1>2 DEF PlanInv, LiveInv
  <2> QED BY <1>1, <2>1, VerdictFacts
<1>3. CASE NodeOf(a) # "verify"
  <2>1. attempts[a].ops # <<>> /\ ~Complete(Last(attempts[a].ops))
    BY <1>3 DEF PlanInv, LiveInv
  <2>2. Last(attempts[a].ops) \in OpsOf(a) /\ Unknown(Last(attempts[a].ops))
    BY <1>1, <2>1, LastOp DEF PlanInv, Unknown
  <2> QED BY <1>1, <2>2, VerdictFacts
<1> QED BY <1>2, <1>3

\* The attempt that is being settled, and what else is open.
LEMMA SettleFacts ==
  ASSUME PlanInv, me.pc \in {"settle", "reconcile"}
  PROVE  /\ me.a \in OpenAttempts /\ me.a \in Ids /\ me.a # 0 /\ NodeOf(me.a) \in Nodes /\ attempts[me.a].phase = "result_recorded"
         /\ InHand = ToSet(me.batch) \cup {me.a} /\ me.a \notin ToSet(me.batch) /\ ToSet(me.batch) \subseteq OpenAttempts
         /\ HolderOf(NodeOf(me.a)) \in {0, me.a}
         /\ \A b \in live : NodeOf(b) = NodeOf(me.a) => b = me.a
<1>1. InHand = ToSet(me.batch) \cup {me.a}
  BY DEF InHand
<1>2. me.a \in OpenAttempts /\ me.a \in Ids /\ attempts[me.a].phase = "result_recorded" /\ me.a \notin ToSet(me.batch)
      /\ ToSet(me.batch) \subseteq OpenAttempts
  BY <1>1 DEF PlanInv, OwnerInv, Settling, OpenAttempts
<1>3. NodeOf(me.a) \in Nodes /\ me.a # 0
  BY <1>2, RowFacts DEF PlanInv
<1>4. HolderOf(NodeOf(me.a)) \in {0, me.a}
  BY <1>2 DEF PlanInv, AttemptInv, AttemptsMatchNodes, Owned, HolderOf, NodeOf
<1>5. \A b \in live : NodeOf(b) = NodeOf(me.a) => b = me.a
  <2>1. \A b \in live : HolderOf(NodeOf(b)) = b /\ b # 0
    BY TypeFacts DEF PlanInv, LiveInv
  <2> QED BY <1>4, <2>1
<1> QED BY <1>1, <1>2, <1>3, <1>4, <1>5

LEMMA SettleReduceKeeps == ASSUME PlanInv, SettleReduce PROVE PlanInv'
<1> DEFINE a == me.a
           n == NodeOf(a)
           verdict == Verdict(a)
<1>1. /\ me.pc = "settle"
      /\ \/ plan' = plan /\ me' = Closed
         \/ /\ plan' = IF Status(n) = verdict THEN plan ELSE SetNode(plan, n, verdict, a, attempts[a].ref)
            /\ me' = [me EXCEPT !.pc = "reconcile", !.status = verdict]
      /\ UNCHANGED <<attempts, live, disk, top, origin, rollback, request, life, foreign>>
  BY DEF SettleReduce, world, NodeOf
<1>2. CASE plan' = plan /\ me' = Closed
  BY <1>1, <1>2, ClosesKeeps
<1>3. ASSUME plan' = IF Status(n) = verdict THEN plan ELSE SetNode(plan, n, verdict, a, attempts[a].ref),
             me' = [me EXCEPT !.pc = "reconcile", !.status = verdict]
      PROVE  PlanInv'
  <2>1. /\ a \in OpenAttempts /\ a \in Ids /\ a # 0 /\ n \in Nodes /\ attempts[a].phase = "result_recorded"
        /\ InHand = ToSet(me.batch) \cup {a} /\ a \notin ToSet(me.batch) /\ ToSet(me.batch) \subseteq OpenAttempts
        /\ HolderOf(n) \in {0, a} /\ \A b \in live : NodeOf(b) = n => b = a
    BY <1>1, SettleFacts
  <2>2. /\ verdict \in Outcomes /\ (verdict = "succeeded" => attempts[a].ref = disk)
        /\ a \in live => verdict = "uncertain"
    BY <2>1, VerdictFacts, LiveIsUncertain
  <2>3. /\ me' \in OwnerState /\ me'.pc = "reconcile" /\ me'.a = a /\ me'.batch = me.batch /\ me'.then = me.then
        /\ me'.queue = me.queue /\ me'.before = me.before /\ me'.bad = me.bad /\ me'.status = verdict
    <3> HIDE DEF verdict
    <3> QED BY <1>3, <2>2, OwnerTypes DEF OwnerState, OwnerPlaces
  <2>4. attempts[a].ref \in Nat /\ verdict \in DOMAIN Transitions
    BY <2>1, <2>2, RowFacts, StatusNames DEF PlanInv, Outcomes
  <2>5. verdict # "pending" /\ verdict # "ready" /\ verdict # "running"
    BY <2>2 DEF Outcomes
  <2> HIDE DEF verdict, n, a
  <2>6. /\ NodeInv' /\ AttemptInv' /\ EditInv' /\ OpenAttempts' = OpenAttempts
        /\ plan' \in Graph /\ plan'.version = plan.version /\ plan'.inputs = plan.inputs
        /\ plan'.node[n].status = verdict
        /\ \/ plan' = plan
           \/ plan'.node[n].attempt = a /\ plan'.node[n].ref = attempts[a].ref
        /\ \A m \in Nodes \ {n} : plan'.node[m] = plan.node[m]
    <3>1. CASE Status(n) = verdict
      <4>1. plan' = plan
        BY <1>3, <3>1
      <4>2. NodeInv' /\ AttemptInv' /\ EditInv' /\ OpenAttempts' = OpenAttempts
        BY <1>1, <4>1, NothingChanges, JournalKept, OpenKept
      <4>3. plan \in Graph
        BY TypeFacts DEF PlanInv
      <4> QED BY <3>1, <4>1, <4>2, <4>3 DEF Status
    <3>2. CASE Status(n) # verdict
      <4>1. plan' = SetNode(plan, n, verdict, a, attempts[a].ref)
        BY <1>3, <3>2
      <4> QED BY <1>1, <2>1, <2>4, <2>5, <4>1, JournalSets DEF n
    <3> QED BY <3>1, <3>2
  <2>7. \A b \in ToSet(me.batch) : Holds(b)'
    <3>1. \A b \in ToSet(me.batch) : Holds(b) /\ b \in OpenAttempts /\ b # a
      BY <2>1 DEF PlanInv, OwnerInv
    <3> QED BY <1>1, <2>1, <2>6, <3>1, HoldsApart DEF n
  <2>8. InHand' = InHand
    BY <2>1, <2>3 DEF InHand
  <2>9. \A b : NodeOf(b)' = NodeOf(b)
    BY <1>1 DEF NodeOf
  <2>10. attempts'[a].node = n
    BY <1>1 DEF NodeOf, n
  <2>11. OwnerInv'
    <3>1. \A b \in InHand' : attempts'[b].phase = "result_recorded"
      BY <1>1, <2>8 DEF PlanInv, OwnerInv, Settling
    <3>2. /\ InHand' \subseteq OpenAttempts' /\ IsInjective(me'.batch) /\ me'.a \notin ToSet(me'.batch)
          /\ me'.then # "recover" => OpenAttempts' = InHand'
      BY <1>1, <2>1, <2>3, <2>6, <2>8 DEF PlanInv, OwnerInv
    <3>3. plan'.node[attempts'[me'.a].node].status = me'.status /\ me'.status \in Outcomes
      BY <2>2, <2>3, <2>6, <2>10
    <3> QED BY <2>3, <2>7, <3>1, <3>2, <3>3 DEF OwnerInv, Starting, Settling, Resting, Status, NodeOf
  <2>12. RecoveryInv'
    BY <1>1, <2>3, <2>6, <2>8 DEF PlanInv, RecoveryInv, Settling
  <2>13. ReadInv'
    <3>1. me.then = "reopen" => \A x \in ToSet(me.queue) : plan'.node[x].status \in {"stale", "succeeded", "ready"}
      <4> SUFFICES ASSUME me.then = "reopen", NEW x \in ToSet(me.queue) PROVE plan'.node[x].status \in {"stale", "succeeded", "ready"}
        OBVIOUS
      <4>1. x \in Nodes /\ Status(x) \in {"stale", "succeeded", "ready"}
        BY MemberOf, NodeNames DEF PlanInv, ReadInv
      <4>2. x # n
        <5>1. Holds(a)
          BY <1>1 DEF PlanInv, OwnerInv, a
        <5> QED BY <4>1, <5>1 DEF Holds, n
      <4> QED BY <2>6, <4>1, <4>2 DEF Status
    <3> QED BY <2>3, <3>1 DEF PlanInv, ReadInv, Starting, Status
  <2>14. LiveInv'
    <3>1. live \subseteq Ids
      BY TypeFacts DEF PlanInv
    <3>2. \A b \in live :
            /\ attempts'[b].version = plan'.version
            /\ plan'.node[attempts'[b].node].attempt = b /\ plan'.node[attempts'[b].node].status \in {"running", "uncertain"}
            /\ attempts'[b].phase # "prepared"
            /\ IF attempts'[b].node = "verify"
               THEN attempts'[b].phase = "dispatched" \/ attempts'[b].result = "uncertain"
               ELSE attempts'[b].life = life /\ attempts'[b].ops # <<>> /\ ~Complete(Last(attempts'[b].ops))
      <4> SUFFICES ASSUME NEW b \in live
          PROVE /\ attempts'[b].version = plan'.version
                /\ plan'.node[attempts'[b].node].attempt = b /\ plan'.node[attempts'[b].node].status \in {"running", "uncertain"}
                /\ attempts'[b].phase # "prepared"
                /\ IF attempts'[b].node = "verify"
                   THEN attempts'[b].phase = "dispatched" \/ attempts'[b].result = "uncertain"
                   ELSE attempts'[b].life = life /\ attempts'[b].ops # <<>> /\ ~Complete(Last(attempts'[b].ops))
        OBVIOUS
      <4>1. /\ attempts[b].version = plan.version
            /\ plan.node[attempts[b].node].attempt = b /\ plan.node[attempts[b].node].status \in {"running", "uncertain"}
            /\ attempts[b].phase # "prepared"
            /\ IF attempts[b].node = "verify"
               THEN attempts[b].phase = "dispatched" \/ attempts[b].result = "uncertain"
               ELSE attempts[b].life = life /\ attempts[b].ops # <<>> /\ ~Complete(Last(attempts[b].ops))
        BY DEF PlanInv, LiveInv, NodeOf, HolderOf, Status
      <4>2. attempts[b].node \in Nodes
        BY <3>1, RowFacts DEF PlanInv, NodeOf
      <4>3. CASE attempts[b].node = n
        <5>1. b = a /\ verdict = "uncertain"
          BY <2>1, <2>2, <4>3 DEF NodeOf
        <5>2. plan'.node[n].attempt = a
          BY <2>6, <4>1, <4>3, <5>1
        <5> QED BY <1>1, <2>6, <4>1, <4>3, <5>1, <5>2
      <4>4. CASE attempts[b].node # n
        BY <1>1, <2>6, <4>1, <4>2, <4>4
      <4> QED BY <4>3, <4>4
    <3>3. NothingBesideAWrite'
      BY <1>1 DEF PlanInv, LiveInv, NothingBesideAWrite
    <3> QED BY <1>1, <2>3, <3>2, <3>3 DEF LiveInv, Starting, NodeOf, HolderOf, Status
  <2>15. PatchInv'
    <3> SUFFICES ASSUME foreign = 0 PROVE NobodyElse'
      BY <1>1, <2>3 DEF PatchInv
    <3>1. NobodyElse
      BY DEF PlanInv, PatchInv
    <3>2. "edit" \in Nodes /\ "verify" \in Nodes
      BY NodeNames
    <3>3. NodeOf(a) = n
      BY DEF n
    <3>4. n # "edit" => PatchIsThere' = PatchIsThere /\ plan'.node["edit"] = plan.node["edit"] /\ Status("edit")' = Status("edit")
      BY <1>1, <2>6, <3>2 DEF PatchIsThere, Status
    <3>5. n = "edit" => (Status("edit")' = "succeeded" => PatchIsThere') /\ Status("verify") # "succeeded"
                        /\ (\A b \in OpenAttempts : NodeOf(b) # "verify") /\ (Status("edit")' = "succeeded" <=> verdict = "succeeded")
      <4> SUFFICES ASSUME n = "edit"
          PROVE (Status("edit")' = "succeeded" => PatchIsThere') /\ Status("verify") # "succeeded"
                        /\ (\A b \in OpenAttempts : NodeOf(b) # "verify") /\ (Status("edit")' = "succeeded" <=> verdict = "succeeded")
        OBVIOUS
      <4>1. Status("edit")' = verdict
        BY <2>6 DEF Status
      <4>2. Status("verify") # "succeeded" /\ \A b \in OpenAttempts : NodeOf(b) # "verify"
        BY <2>1, <3>1, <3>3 DEF NobodyElse
      <4>3. ASSUME verdict = "succeeded" PROVE PatchIsThere'
        <5>1. CASE plan' = plan
          <6>1. PatchIsThere
            BY <2>1, <3>1, <3>3, <4>1, <4>3, <5>1 DEF NobodyElse, Status
          <6> QED BY <1>1, <5>1, <6>1 DEF PatchIsThere, Status
        <5>2. CASE plan'.node[n].attempt = a /\ plan'.node[n].ref = attempts[a].ref
          BY <1>1, <2>2, <4>1, <4>3, <5>2 DEF PatchIsThere
        <5> QED BY <2>6, <5>1, <5>2
      <4> QED BY <4>1, <4>2, <4>3
    <3>6. ASSUME NEW b \in OpenAttempts, NodeOf(b) = "verify"
          PROVE  PatchIsThere' /\ \A c \in OpenAttempts : NodeOf(c) # "edit"
      <4>1. n # "edit"
        BY <3>5, <3>6
      <4>2. PatchIsThere /\ \A c \in OpenAttempts : NodeOf(c) # "edit"
        BY <3>1, <3>6 DEF NobodyElse
      <4> QED BY <3>4, <4>1, <4>2
    <3>7. ASSUME NEW b \in OpenAttempts, NodeOf(b) = "edit", Status("edit")' = "succeeded" PROVE PatchIsThere'
      BY <3>1, <3>4, <3>5, <3>7 DEF NobodyElse
    <3>8. n = "edit" /\ verdict = "succeeded" => PatchIsThere'
      BY <3>5
    <3>9. ASSUME Status("verify")' = "succeeded"
          PROVE  /\ Status("edit")' \in {"succeeded", "uncertain"} /\ \A b \in OpenAttempts : NodeOf(b) # "edit"
                 /\ plan'.node["verify"].ref = plan'.node["edit"].ref
      <4>1. CASE n # "verify"
        <5>1. Status("verify") = "succeeded" /\ plan'.node["verify"] = plan.node["verify"]
          BY <2>6, <3>2, <3>9, <4>1 DEF Status
        <5>2. n # "edit"
          BY <3>5, <5>1
        <5> QED BY <3>1, <3>4, <5>1, <5>2 DEF NobodyElse
      <4>2. CASE n = "verify"
        <5>1. PatchIsThere /\ \A b \in OpenAttempts : NodeOf(b) # "edit"
          BY <2>1, <3>1, <3>3, <4>2 DEF NobodyElse
        <5>2. CASE plan' = plan
          BY <3>1, <3>9, <5>1, <5>2 DEF NobodyElse, Status
        <5>3. CASE plan'.node[n].attempt = a /\ plan'.node[n].ref = attempts[a].ref
          <6>1. verdict = "succeeded"
            BY <2>6, <3>9, <4>2 DEF Status
          <6> QED BY <2>2, <3>4, <4>2, <5>1, <5>3, <6>1 DEF PatchIsThere
        <5> QED BY <2>6, <5>2, <5>3
      <4> QED BY <4>1, <4>2
    <3>10. ASSUME Status("edit")' = "succeeded", me.then # "recover" PROVE RolledBack \/ PatchIsThere'
      BY <1>1, <3>1, <3>4, <3>5, <3>10 DEF NobodyElse
    <3>11. RolledBack' = RolledBack
      BY <1>1, <2>6 DEF RolledBack
    <3> QED BY <2>3, <2>6, <2>9, <2>10, <3>6, <3>7, <3>8, <3>9, <3>10, <3>11 DEF NobodyElse, NodeOf
  <2>16. TypeInv'
    BY <1>1, <2>3, <2>6, SetsTypes
  <2> QED BY <2>6, <2>11, <2>12, <2>13, <2>14, <2>15, <2>16 DEF PlanInv
<1> QED BY <1>1, <1>2, <1>3

-----------------------------------------------------------------------------
(* An attempt is closed.                                                   *)

LEMMA JournalCloses ==
  ASSUME PlanInv, NEW a \in OpenAttempts, NEW terminal \in Outcomes, PhaseWritten(a, "reconciled", terminal),
         plan' = plan, live' = live, life' = life, disk' = disk, rollback' = rollback,
         Status(NodeOf(a)) # "running", HolderOf(NodeOf(a)) = a => Status(NodeOf(a)) = terminal,
         a \in live => attempts[a].phase = "result_recorded"
  PROVE  /\ NodeInv' /\ AttemptInv' /\ EditInv' /\ OpenAttempts' = OpenAttempts \ {a} /\ Ids' = Ids
         /\ \A b : Status(b)' = Status(b)
         /\ \A b \in Ids : NodeOf(b)' = NodeOf(b)
         /\ me'.pc \notin Starting \cup {"run"} => LiveInv'
<1>1. a \in Ids /\ attempts[a].phase # "reconciled" /\ OpenAttempts \subseteq Ids /\ a # 0
  <2>1. a \in Ids /\ attempts[a].phase # "reconciled" /\ OpenAttempts \subseteq Ids
    BY DEF OpenAttempts
  <2> QED BY <2>1, RowFacts DEF PlanInv
<1>2. /\ attempts' \in Seq(AttemptRow) /\ Ids' = Ids
      /\ \A b \in Ids \ {a} : attempts'[b] = attempts[b]
      /\ attempts'[a].phase = "reconciled" /\ attempts'[a].terminal = terminal
      /\ OpenAttempts' = OpenAttempts \ {a}
      /\ attempts'[a].ops = attempts[a].ops /\ attempts'[a].result = attempts[a].result /\ attempts'[a].life = attempts[a].life
      /\ \A b \in Ids : attempts'[b].node = attempts[b].node /\ attempts'[b].version = attempts[b].version
                        /\ attempts'[b].ops = attempts[b].ops
  BY DEF PhaseWritten
<1>3. NodeInv'
  <2> SUFFICES ASSUME NEW n \in Nodes
      PROVE /\ n \notin Explores /\ plan.node[n].status \in {"pending", "ready"} => plan.node[n].attempt = 0
            /\ plan.node[n].attempt # 0 => plan.node[n].attempt \in Ids' /\ attempts'[plan.node[n].attempt].node = n
            /\ plan.node[n].status = "running" => plan.node[n].attempt \in OpenAttempts'
    BY <1>2 DEF NodeInv, Status, HolderOf, NodeOf
  <2>1. /\ n \notin Explores /\ plan.node[n].status \in {"pending", "ready"} => plan.node[n].attempt = 0
        /\ plan.node[n].attempt # 0 => plan.node[n].attempt \in Ids /\ attempts[plan.node[n].attempt].node = n
        /\ plan.node[n].status = "running" => plan.node[n].attempt \in OpenAttempts
    BY DEF PlanInv, NodeInv, Status, HolderOf, NodeOf
  <2>2. ASSUME plan.node[n].status = "running", plan.node[n].attempt = a PROVE FALSE
    BY <1>1, <2>1, <2>2 DEF Status, NodeOf
  <2> QED BY <1>2, <2>1, <2>2
<1>4. AttemptsMatchNodes'
  <2>1. ASSUME NEW b \in OpenAttempts'
        PROVE  /\ \/ attempts'[b].version = plan'.version /\ plan'.node[attempts'[b].node].attempt \in {0, b}
                  \/ attempts'[b].node \in Explores /\ attempts'[b].phase = "prepared"
               /\ \A c \in OpenAttempts' : attempts'[c].node = attempts'[b].node => c = b
    <3>1. b \in OpenAttempts /\ b \in Ids /\ b # a
      BY <1>1, <1>2
    <3>2. \A c \in OpenAttempts' : c \in OpenAttempts /\ c \in Ids
      BY <1>1, <1>2
    <3>3. attempts'[b] = attempts[b]
      BY <1>2, <3>1
    <3> QED BY <1>2, <3>1, <3>2, <3>3 DEF PlanInv, AttemptInv, AttemptsMatchNodes, Owned
  <2>2. ASSUME NEW n \in Nodes, NEW b, b = plan'.node[n].attempt, b # 0, attempts'[b].phase = "reconciled"
        PROVE  IF attempts'[b].terminal = "succeeded" THEN plan'.node[n].status \in {"succeeded", "stale", "ready", "running", "uncertain"}
               ELSE plan'.node[n].status = attempts'[b].terminal
    <3>1. b = HolderOf(n) /\ b \in Ids /\ NodeOf(b) = n /\ plan'.node[n].status = Status(n)
      BY <2>2 DEF PlanInv, NodeInv, HolderOf, Status
    <3>2. CASE b = a
      <4>1. Status(n) = terminal
        BY <3>1, <3>2
      <4> QED BY <1>2, <3>1, <3>2, <4>1
    <3>3. CASE b # a
      BY <1>2, <2>2, <3>1, <3>3, NodeOutcome
    <3> QED BY <3>2, <3>3
  <2> HIDE DEF AttemptsMatchNodes
  <2> QED BY <2>1, <2>2, MatchMade
<1>5. AttemptInv'
  <2> SUFFICES ASSUME NEW b \in Ids
      PROVE /\ attempts'[b].version <= plan'.version
            /\ b \in OpenAttempts' => attempts'[b].version = plan'.version
            /\ attempts'[b].phase = "prepared" => attempts'[b].ops = <<>>
            /\ attempts'[b].phase = "reconciled" => attempts'[b].terminal \in Outcomes
            /\ \A o \in ToSet(attempts'[b].ops) : (o.tool = "write" => attempts'[b].node = "edit") /\ (o.stopped => o.phase = "result_recorded")
    BY <1>2, <1>4 DEF AttemptInv, OpsOf, NodeOf
  <2>1. /\ attempts[b].version <= plan.version
        /\ b \in OpenAttempts => attempts[b].version = plan.version
        /\ attempts[b].phase = "prepared" => attempts[b].ops = <<>>
        /\ attempts[b].phase = "reconciled" => attempts[b].terminal \in Outcomes
        /\ \A o \in ToSet(attempts[b].ops) : (o.tool = "write" => attempts[b].node = "edit") /\ (o.stopped => o.phase = "result_recorded")
    BY DEF PlanInv, AttemptInv, OpsOf, NodeOf
  <2>2. CASE b = a
    BY <1>2, <2>1, <2>2
  <2>3. CASE b # a
    BY <1>2, <2>1, <2>3
  <2> QED BY <2>2, <2>3
<1>6. EditInv'
  <2>1. \A b \in Ids : Sent(b)' => Sent(b)
    BY <1>1, <1>2 DEF Sent, NodeOf
  <2>2. \A b \in Ids : attempts'[b].phase = "prepared" => attempts[b].phase = "prepared"
    BY <1>2
  <2>3. \A b : Status(b)' = Status(b)
    BY DEF Status
  <2>4. \A b \in Ids : NodeOf(b)' = NodeOf(b) /\ attempts'[b].version = attempts[b].version
    BY <1>2 DEF NodeOf
  <2> QED BY <1>2, <2>1, <2>2, <2>3, <2>4 DEF PlanInv, EditInv
<1>7. ASSUME me'.pc \notin Starting \cup {"run"} PROVE LiveInv'
  <2>1. live \subseteq Ids
    BY TypeFacts DEF PlanInv
  <2>2. ASSUME NEW b \in live
        PROVE  /\ attempts'[b].version = plan'.version
               /\ plan'.node[attempts'[b].node].attempt = b /\ plan'.node[attempts'[b].node].status \in {"running", "uncertain"}
               /\ attempts'[b].phase # "prepared"
               /\ IF attempts'[b].node = "verify"
                  THEN attempts'[b].phase = "dispatched" \/ attempts'[b].result = "uncertain"
                  ELSE attempts'[b].life = life' /\ attempts'[b].ops # <<>> /\ ~Complete(Last(attempts'[b].ops))
    <3>1. /\ attempts[b].version = plan.version
          /\ plan.node[attempts[b].node].attempt = b /\ plan.node[attempts[b].node].status \in {"running", "uncertain"}
          /\ attempts[b].phase # "prepared"
          /\ IF attempts[b].node = "verify"
             THEN attempts[b].phase = "dispatched" \/ attempts[b].result = "uncertain"
             ELSE attempts[b].life = life /\ attempts[b].ops # <<>> /\ ~Complete(Last(attempts[b].ops))
      BY DEF PlanInv, LiveInv, NodeOf, HolderOf, Status
    <3>2. CASE b = a
      BY <1>2, <2>1, <3>1, <3>2
    <3>3. CASE b # a
      BY <1>2, <2>1, <3>1, <3>3
    <3> QED BY <3>2, <3>3
  <2>3. NothingBesideAWrite'
    BY <1>2, <2>1 DEF PlanInv, LiveInv, NothingBesideAWrite
  <2> QED BY <1>7, <2>2, <2>3 DEF LiveInv, NodeOf, HolderOf, Status
<1> QED BY <1>2, <1>3, <1>5, <1>6, <1>7 DEF Status, NodeOf

LEMMA ClosesPatch ==
  ASSUME PlanInv, plan' = plan, disk' = disk, rollback' = rollback, foreign' = foreign, foreign = 0,
         OpenAttempts' \subseteq OpenAttempts, OpenAttempts \subseteq Ids, \A b \in Ids : NodeOf(b)' = NodeOf(b),
         me'.pc \notin {"idle", "rollback", "restored", "closed"} /\ me.pc \notin {"idle", "rollback", "restored", "closed"},
         me'.then = me.then,
         me'.pc \in {"reconcile", "row", "after"} => me.pc = "reconcile" /\ me'.a = me.a /\ me'.status = me.status /\ me.a \in Ids
  PROVE  NobodyElse'
<1>1. NobodyElse
  BY DEF PlanInv, PatchInv
<1>2. PatchIsThere' = PatchIsThere /\ RolledBack' = RolledBack /\ \A m : Status(m)' = Status(m)
  BY DEF PatchIsThere, RolledBack, Status
<1>3. \A b \in OpenAttempts' : b \in OpenAttempts /\ NodeOf(b)' = NodeOf(b)
  OBVIOUS
<1>5. ASSUME NEW b \in OpenAttempts', NodeOf(b)' = "verify" PROVE PatchIsThere' /\ \A c \in OpenAttempts' : NodeOf(c)' # "edit"
  BY <1>1, <1>2, <1>3, <1>5 DEF NobodyElse
<1>6. ASSUME NEW b \in OpenAttempts', NodeOf(b)' = "edit", Status("edit")' = "succeeded" PROVE PatchIsThere'
  BY <1>1, <1>2, <1>3, <1>6 DEF NobodyElse
<1>7. ASSUME me'.pc \in {"reconcile", "row", "after"}, attempts'[me'.a].node = "edit", me'.status = "succeeded" PROVE PatchIsThere'
  <2>1. me.pc = "reconcile" /\ NodeOf(me.a) = "edit" /\ me.status = "succeeded"
    BY <1>7 DEF NodeOf
  <2> QED BY <1>1, <1>2, <2>1 DEF NobodyElse
<1>8. ASSUME Status("verify")' = "succeeded"
      PROVE  /\ Status("edit")' \in {"succeeded", "uncertain"} /\ \A b \in OpenAttempts' : NodeOf(b)' # "edit"
             /\ plan'.node["verify"].ref = plan'.node["edit"].ref
  BY <1>1, <1>2, <1>3, <1>8 DEF NobodyElse
<1>9. ASSUME Status("edit")' = "succeeded", me'.then # "recover" PROVE RolledBack' \/ PatchIsThere'
  BY <1>1, <1>2, <1>9 DEF NobodyElse
<1> QED BY <1>5, <1>6, <1>7, <1>8, <1>9 DEF NobodyElse, NodeOf

LEMMA SettleReconcileKeeps == ASSUME PlanInv, SettleReconcile PROVE PlanInv'
<1> DEFINE a == me.a
           n == NodeOf(a)
<1>1. /\ me.pc = "reconcile" /\ attempts' = [attempts EXCEPT ![a].phase = "reconciled", ![a].terminal = me.status]
      /\ me' = [me EXCEPT !.pc = "row"]
      /\ UNCHANGED <<plan, live, disk, top, origin, rollback, request, life, foreign>>
  BY DEF SettleReconcile, world
<1>2. /\ a \in OpenAttempts /\ a \in Ids /\ a # 0 /\ n \in Nodes /\ attempts[a].phase = "result_recorded"
      /\ InHand = ToSet(me.batch) \cup {a} /\ a \notin ToSet(me.batch) /\ ToSet(me.batch) \subseteq OpenAttempts
      /\ Status(n) = me.status /\ me.status \in Outcomes
  BY <1>1, SettleFacts DEF PlanInv, OwnerInv
<1>3. /\ me' \in OwnerState /\ me'.pc = "row" /\ me'.a = a /\ me'.batch = me.batch /\ me'.then = me.then
      /\ me'.queue = me.queue /\ me'.before = me.before /\ me'.bad = me.bad /\ me'.status = me.status
  BY <1>1, OwnerTypes DEF OwnerState, OwnerPlaces
<1> HIDE DEF n, a
<1>4. "reconciled" \in Phases /\ me.status \in {"none", "succeeded", "failed", "cancelled", "uncertain"} /\ Status(n) # "running"
  BY <1>2 DEF Phases, Outcomes
<1>5. PhaseWritten(a, "reconciled", me.status)
  BY <1>1, <1>2, <1>4, WritePhase
<1>6. /\ NodeInv' /\ AttemptInv' /\ EditInv' /\ OpenAttempts' = OpenAttempts \ {a} /\ Ids' = Ids
      /\ \A b : Status(b)' = Status(b)
      /\ \A b \in Ids : NodeOf(b)' = NodeOf(b)
      /\ me'.pc \notin Starting \cup {"run"} => LiveInv'
  BY <1>1, <1>2, <1>4, <1>5, JournalCloses DEF n
<1>7. InHand' = ToSet(me.batch) /\ OpenAttempts \subseteq Ids
  BY <1>3 DEF InHand, OpenAttempts
<1>8. \A b \in ToSet(me.batch) : b \in Ids /\ b # a /\ attempts'[b] = attempts[b]
  BY <1>2, <1>5, <1>7 DEF PhaseWritten
<1>9. OwnerInv'
  <2>1. \A b \in ToSet(me'.batch) : Holds(b)'
    <3> SUFFICES ASSUME NEW b \in ToSet(me.batch) PROVE plan'.node[attempts'[b].node].status = "running" /\ plan'.node[attempts'[b].node].attempt = b
      BY <1>3 DEF Holds, Status, HolderOf, NodeOf
    <3>1. Holds(b)
      BY DEF PlanInv, OwnerInv
    <3> QED BY <1>1, <1>8, <3>1 DEF Holds, Status, HolderOf, NodeOf
  <2>2. \A b \in InHand' : attempts'[b].phase = "result_recorded"
    BY <1>1, <1>2, <1>7, <1>8 DEF PlanInv, OwnerInv, Settling
  <2>3. InHand' \subseteq OpenAttempts' /\ IsInjective(me'.batch)
    BY <1>2, <1>3, <1>6, <1>7, <1>8 DEF PlanInv, OwnerInv
  <2>4. me'.then # "recover" => OpenAttempts' = InHand'
    BY <1>1, <1>2, <1>3, <1>6, <1>7, <1>8 DEF PlanInv, OwnerInv
  <2>5. me'.a \in Ids'
    BY <1>2, <1>3, <1>6
  <2> QED BY <1>3, <2>1, <2>2, <2>3, <2>4, <2>5 DEF OwnerInv, Starting, Settling, Resting
<1>10. RecoveryInv'
  <2>1. me.then = "recover" =>
          /\ me.pc \in Settling \cup {"recover", "restarted"}
          /\ me.batch = <<>> /\ me.queue \in Seq(Nat) /\ IsInjective(me.queue)
          /\ ToSet(me.queue) \subseteq OpenAttempts \ InHand
          /\ ~me.bad => OpenAttempts \subseteq ToSet(me.queue) \cup InHand
    BY DEF PlanInv, RecoveryInv
  <2>2. me.then = "recover" => ToSet(me.queue) \subseteq OpenAttempts' \ InHand' /\ (~me.bad => OpenAttempts' \subseteq ToSet(me.queue) \cup InHand')
    BY <1>2, <1>6, <1>7, <2>1
  <2> QED BY <1>3, <2>1, <2>2 DEF RecoveryInv, Settling
<1>11. ReadInv'
  BY <1>3, <1>6 DEF PlanInv, ReadInv, Starting
<1>12. LiveInv'
  BY <1>3, <1>6 DEF Starting
<1>13. PatchInv'
  <2> SUFFICES ASSUME foreign = 0 PROVE NobodyElse'
    BY <1>1, <1>3 DEF PatchInv
  <2> QED BY <1>1, <1>2, <1>3, <1>6, <1>7, ClosesPatch DEF a
<1>14. TypeInv'
  <2>1. attempts' \in Seq(AttemptRow) /\ Len(attempts') = Len(attempts)
    BY <1>5 DEF PhaseWritten
  <2> QED BY <1>1, <1>3, <1>6, <2>1, TypeFacts, TypeMade DEF PlanInv
<1> QED BY <1>6, <1>9, <1>10, <1>11, <1>12, <1>13, <1>14 DEF PlanInv

LEMMA EndRestartKeeps == ASSUME PlanInv, EndRestart PROVE PlanInv'
<1> DEFINE a == Head(me.queue)
           n == NodeOf(a)
<1>1. /\ me.pc = "restarted" /\ attempts' = [attempts EXCEPT ![a].phase = "reconciled", ![a].terminal = "cancelled"]
      /\ me' = [me EXCEPT !.queue = Tail(me.queue), !.pc = "recover"]
      /\ UNCHANGED <<plan, live, disk, top, origin, rollback, request, life, foreign>>
  <2>1. me' = [[me EXCEPT !.queue = Tail(me.queue)] EXCEPT !.pc = "recover"]
    BY DEF EndRestart, Recovered
  <2>2. me' = [me EXCEPT !.queue = Tail(me.queue), !.pc = "recover"]
    BY <2>1, OwnerTypes DEF OwnerState
  <2> QED BY <2>2 DEF EndRestart, world
<1>2. /\ me.then = "recover" /\ me.batch = <<>> /\ me.queue # <<>> /\ me.queue \in Seq(Nat) /\ IsInjective(me.queue)
      /\ ToSet(me.queue) \subseteq OpenAttempts /\ (~me.bad => OpenAttempts \subseteq ToSet(me.queue))
      /\ Status(n) = "pending" /\ HolderOf(n) = 0 /\ InHand = {}
  <2>1. ToSet(me.batch) = {} /\ me.then = "recover" /\ me.batch = <<>>
    BY <1>1, NothingInEmpty DEF PlanInv, RecoveryInv
  <2>2. InHand = {}
    BY <1>1, <2>1 DEF InHand
  <2> QED BY <1>1, <2>1, <2>2 DEF PlanInv, RecoveryInv
<1>3. Tail(me.queue) \in Seq(Nat) /\ ToSet(me.queue) = {a} \cup ToSet(Tail(me.queue)) /\ IsInjective(Tail(me.queue)) /\ a \notin ToSet(Tail(me.queue))
  BY <1>2, TailSet
<1>4. a \in OpenAttempts /\ a \in Ids /\ a # 0 /\ a \notin live /\ OpenAttempts \subseteq Ids /\ n \in Nodes
  <2>1. a \in OpenAttempts /\ OpenAttempts \subseteq Ids
    BY <1>2, <1>3 DEF OpenAttempts
  <2>2. a # 0 /\ n \in Nodes
    BY <2>1, RowFacts DEF PlanInv
  <2>3. a \in live => HolderOf(NodeOf(a)) = a
    BY DEF PlanInv, LiveInv
  <2> QED BY <1>2, <2>1, <2>2, <2>3
<1>5. /\ me' \in OwnerState /\ me'.pc = "recover" /\ me'.batch = <<>> /\ me'.then = "recover"
      /\ me'.queue = Tail(me.queue) /\ me'.bad = me.bad /\ me'.status = me.status /\ me'.before = me.before
  <2>1. Tail(me.queue) \in Seq(Explores \cup Nat)
    BY <1>2, OwnerTypes, TailSet
  <2> DEFINE tail == Tail(me.queue)
  <2>2. me' = [me EXCEPT !.queue = tail, !.pc = "recover"] /\ tail \in Seq(Explores \cup Nat)
    BY <1>1, <2>1
  <2> HIDE DEF tail
  <2>3. /\ me' \in OwnerState /\ me'.pc = "recover" /\ me'.batch = me.batch /\ me'.then = me.then
        /\ me'.queue = tail /\ me'.bad = me.bad /\ me'.status = me.status /\ me'.before = me.before
    BY <2>2, OwnerTypes DEF OwnerState, OwnerPlaces
  <2> QED BY <1>2, <2>3 DEF tail
<1> HIDE DEF n, a
<1>6. "reconciled" \in Phases /\ "cancelled" \in Outcomes
  BY DEF Phases, Outcomes
<1>7. PhaseWritten(a, "reconciled", "cancelled")
  BY <1>1, <1>4, <1>6, WritePhase
<1>8. /\ NodeInv' /\ AttemptInv' /\ EditInv' /\ OpenAttempts' = OpenAttempts \ {a} /\ Ids' = Ids
      /\ \A b : Status(b)' = Status(b)
      /\ \A b \in Ids : NodeOf(b)' = NodeOf(b)
      /\ me'.pc \notin Starting \cup {"run"} => LiveInv'
  BY <1>1, <1>2, <1>4, <1>6, <1>7, JournalCloses DEF n
<1>9. InHand' = {}
  BY <1>5, NothingInEmpty DEF InHand
<1>10. OwnerInv'
  BY <1>5, <1>9, NothingInEmpty, AppendToEmpty DEF OwnerInv, Starting, Settling, Resting
<1>11. RecoveryInv'
  BY <1>2, <1>3, <1>5, <1>8, <1>9 DEF RecoveryInv, Settling
<1>12. ReadInv'
  BY <1>5 DEF ReadInv, Starting
<1>13. LiveInv'
  BY <1>5, <1>8 DEF Starting
<1>14. PatchInv'
  <2> SUFFICES ASSUME foreign = 0 PROVE NobodyElse'
    BY <1>1, <1>5 DEF PatchInv
  <2>1. OpenAttempts' \subseteq OpenAttempts
    BY <1>8
  <2> QED BY <1>1, <1>2, <1>4, <1>5, <1>8, <2>1, ClosesPatch
<1>15. TypeInv'
  <2>1. attempts' \in Seq(AttemptRow) /\ Len(attempts') = Len(attempts)
    BY <1>7 DEF PhaseWritten
  <2> QED BY <1>1, <1>5, <1>8, <2>1, TypeFacts, TypeMade DEF PlanInv
<1> QED BY <1>8, <1>10, <1>11, <1>12, <1>13, <1>14, <1>15 DEF PlanInv

-----------------------------------------------------------------------------
(* The graph is written again.                                             *)

LEMMA ReopenKeeps == ASSUME PlanInv, Reopen PROVE PlanInv'
<1> DEFINE h == Head(me.queue)
           s == IF Status(h) = "succeeded" THEN "stale" ELSE "ready"
<1>1. /\ me.pc = "reopen" /\ me.queue # <<>> /\ Status(h) # "ready" /\ plan' = SetStatus(plan, h, s)
      /\ UNCHANGED <<attempts, live, disk, top, origin, rollback, request, life, foreign, me>>
  BY DEF Reopen, world
<1>2. /\ me.batch = <<>> /\ InHand = {} /\ OpenAttempts = {} /\ me.then = "reopen"
      /\ me.queue \in Seq(Explores) /\ IsInjective(me.queue) /\ me.before = 0
      /\ \A n \in ToSet(me.queue) : Status(n) \in {"stale", "succeeded", "ready"}
  BY <1>1, AtRest DEF PlanInv, ReadInv
<1>3. ToSet(me.queue) \subseteq Explores /\ h \in Explores /\ Status(h) \in {"stale", "succeeded"}
  <2>1. ToSet(me.queue) \subseteq Explores /\ h \in ToSet(me.queue)
    BY <1>1, <1>2, MemberOf
  <2> HIDE DEF h
  <2> QED BY <1>1, <1>2, <2>1
<1>4. h \in Nodes /\ h # "edit" /\ h # "verify" /\ {"edit", "verify"} \subseteq Nodes
  BY <1>3, NodeNames
<1>5. s \in DOMAIN Transitions /\ s \in {"stale", "ready"} /\ (Status(h) = "stale" => s = "ready")
  BY StatusNames
<1> HIDE DEF h, s
<1>6. /\ plan' \in Graph /\ plan'.version = plan.version /\ plan'.inputs = plan.inputs
      /\ plan'.node[h].status = s /\ plan'.node[h].attempt = plan.node[h].attempt /\ plan'.node[h].ref = plan.node[h].ref
      /\ \A m \in Nodes \ {h} : plan'.node[m] = plan.node[m]
  <2>1. plan \in Graph
    BY TypeFacts DEF PlanInv
  <2> QED BY <1>1, <1>4, <1>5, <2>1, SetStatusFacts
<1>7. OpenAttempts' = {} /\ Ids' = Ids /\ InHand' = InHand
  BY <1>1, <1>2 DEF OpenAttempts, Ids, InHand
<1>8. \A n \in Nodes : plan'.node[n].attempt = plan.node[n].attempt /\ (n # h => plan'.node[n].status = plan.node[n].status)
  BY <1>6
<1>9. NodeInv'
  <2> SUFFICES ASSUME NEW n \in Nodes
      PROVE /\ n \notin Explores /\ plan'.node[n].status \in {"pending", "ready"} => plan'.node[n].attempt = 0
            /\ plan'.node[n].attempt # 0 => plan'.node[n].attempt \in Ids /\ attempts[plan'.node[n].attempt].node = n
            /\ plan'.node[n].status # "running"
    BY <1>1, <1>7 DEF NodeInv, Status, HolderOf, NodeOf
  <2>1. /\ n \notin Explores /\ plan.node[n].status \in {"pending", "ready"} => plan.node[n].attempt = 0
        /\ plan.node[n].attempt # 0 => plan.node[n].attempt \in Ids /\ attempts[plan.node[n].attempt].node = n
    BY DEF PlanInv, NodeInv, Status, HolderOf, NodeOf
  <2>2. plan.node[n].status # "running"
    BY <1>1, AtRest DEF Status
  <2> QED BY <1>3, <1>5, <1>6, <1>8, <2>1, <2>2
<1>10. AttemptInv'
  <2>1. ASSUME NEW n \in Nodes, NEW b, b = plan'.node[n].attempt, b # 0, attempts[b].phase = "reconciled"
        PROVE  IF attempts[b].terminal = "succeeded" THEN plan'.node[n].status \in {"succeeded", "stale", "ready", "running", "uncertain"}
               ELSE plan'.node[n].status = attempts[b].terminal
    <3>1. b = HolderOf(n)
      BY <1>8, <2>1 DEF HolderOf
    <3>2. /\ attempts[b].terminal \in Outcomes
          /\ IF attempts[b].terminal = "succeeded" THEN Status(n) \in {"succeeded", "stale", "ready", "running", "uncertain"}
             ELSE Status(n) = attempts[b].terminal
      BY <2>1, <3>1, NodeOutcome
    <3>3. CASE n = h
      <4>1. attempts[b].terminal = "succeeded"
        BY <1>3, <3>2, <3>3 DEF Outcomes
      <4> QED BY <1>5, <1>6, <3>3, <4>1
    <3>4. CASE n # h
      BY <1>8, <3>2, <3>4 DEF Status
    <3> QED BY <3>3, <3>4
  <2>2. AttemptsMatchNodes'
    BY <1>1, <1>7, <2>1, MatchMade
  <2>3. \A b \in Ids :
          /\ attempts'[b].version <= plan'.version
          /\ attempts'[b].phase = "prepared" => attempts'[b].ops = <<>>
          /\ attempts'[b].phase = "reconciled" => attempts'[b].terminal \in Outcomes
          /\ \A o \in ToSet(attempts'[b].ops) : (o.tool = "write" => attempts'[b].node = "edit") /\ (o.stopped => o.phase = "result_recorded")
    BY <1>1, <1>6 DEF PlanInv, AttemptInv, OpsOf, NodeOf
  <2> QED BY <1>7, <2>2, <2>3 DEF AttemptInv, OpsOf, NodeOf
<1>11. EditInv'
  <2>1. \A b \in Ids : Sent(b)' = Sent(b)
    BY <1>1 DEF Sent, NodeOf
  <2>2. Status("edit")' = Status("edit")
    BY <1>4, <1>8 DEF Status
  <2> QED BY <1>1, <1>6, <1>7, <2>1, <2>2 DEF PlanInv, EditInv, NodeOf
<1>12. OwnerInv'
  <2>1. Ids' = Ids /\ ToSet(me.batch) = {}
    BY <1>2, <1>7, NothingInEmpty
  <2> QED BY <1>1, <1>2, <1>7, <2>1, AppendToEmpty DEF OwnerInv, Starting, Settling, Resting
<1>13. RecoveryInv'
  BY <1>1, <1>2 DEF RecoveryInv
<1>14. ReadInv'
  <2>1. \A x \in ToSet(me.queue) : plan'.node[x].status \in {"stale", "succeeded", "ready"}
    <3> SUFFICES ASSUME NEW x \in ToSet(me.queue) PROVE plan'.node[x].status \in {"stale", "succeeded", "ready"}
      OBVIOUS
    <3>1. x \in Nodes /\ Status(x) \in {"stale", "succeeded", "ready"}
      BY <1>2, <1>3, NodeNames
    <3> QED BY <1>5, <1>6, <1>8, <3>1 DEF Status
  <2> QED BY <1>1, <1>2, <2>1 DEF ReadInv, Starting, Status
<1>15. LiveInv'
  <2>1. ASSUME NEW b \in live
        PROVE  plan'.node[attempts[b].node] = plan.node[attempts[b].node]
    <3>1. Status(NodeOf(b)) \in {"running", "uncertain"} /\ NodeOf(b) \in Nodes
      BY TypeFacts, RowFacts DEF PlanInv, LiveInv
    <3> QED BY <1>3, <1>6, <3>1 DEF NodeOf
  <2>2. \A b \in live :
          /\ attempts'[b].version = plan'.version
          /\ plan'.node[attempts'[b].node].attempt = b /\ plan'.node[attempts'[b].node].status \in {"running", "uncertain"}
          /\ attempts'[b].phase # "prepared"
          /\ IF attempts'[b].node = "verify"
             THEN attempts'[b].phase = "dispatched" \/ attempts'[b].result = "uncertain"
             ELSE attempts'[b].life = life /\ attempts'[b].ops # <<>> /\ ~Complete(Last(attempts'[b].ops))
    BY <1>1, <1>6, <2>1 DEF PlanInv, LiveInv, NodeOf, HolderOf, Status
  <2>3. NothingBesideAWrite'
    BY <1>1 DEF PlanInv, LiveInv, NothingBesideAWrite
  <2> QED BY <1>1, <2>2, <2>3 DEF LiveInv, Starting, NodeOf, HolderOf, Status
<1>16. PatchInv'
  <2> SUFFICES ASSUME foreign = 0 PROVE NobodyElse'
    BY <1>1 DEF PatchInv
  <2>1. plan'.node["edit"] = plan.node["edit"] /\ plan'.node["verify"] = plan.node["verify"]
    BY <1>4, <1>6
  <2>2. PatchIsThere' = PatchIsThere /\ RolledBack' = RolledBack /\ Status("edit")' = Status("edit") /\ Status("verify")' = Status("verify")
    BY <1>1, <1>6, <2>1 DEF PatchIsThere, RolledBack, Status
  <2>3. NobodyElse
    BY DEF PlanInv, PatchInv
  <2> QED BY <1>1, <1>2, <1>7, <2>1, <2>2, <2>3 DEF NobodyElse
<1>17. TypeInv'
  BY <1>1, <1>6, OwnerTypes, SetsTypes
<1> QED BY <1>9, <1>10, <1>11, <1>12, <1>13, <1>14, <1>15, <1>16, <1>17 DEF PlanInv

LEMMA CommitReplanKeeps == ASSUME PlanInv, CommitReplan PROVE PlanInv'
<1> DEFINE fresh == [version |-> plan.version + 1, inputs |-> disk, node |-> [n \in Nodes |-> FreshNode]]
<1>1. /\ me.pc = "replan" /\ Safe /\ plan' = Refresh(fresh) /\ me' = [me EXCEPT !.pc = "replanned"]
      /\ UNCHANGED <<attempts, live, disk, top, origin, rollback, request, life, foreign>>
  BY DEF CommitReplan, world
<1>2. /\ OpenAttempts = {} /\ plan.version <= MaxReplans /\ me.batch = <<>> /\ me.then = "idle" /\ InHand = {}
      /\ \A n \in Nodes : Status(n) \notin {"running", "uncertain"}
  BY <1>1, AtRest, SafeFacts DEF PlanInv, OwnerInv
<1>3. live = {}
  <2>1. \A b \in live : Status(NodeOf(b)) \in {"running", "uncertain"} /\ NodeOf(b) \in Nodes
    BY TypeFacts, RowFacts DEF PlanInv, LiveInv
  <2> QED BY <1>2, <2>1
<1>4. /\ plan.version \in 1 .. MaxReplans + 1 /\ MaxReplans \in Nat /\ disk \in 1 .. top /\ top \in Nat /\ plan.version \in Nat
  BY TypeFacts, Contents DEF PlanInv
<1>5. fresh \in Graph /\ fresh.version = plan.version + 1 /\ fresh.inputs = disk
      /\ \A n \in Nodes : fresh.node[n].attempt = 0 /\ fresh.node[n].status = "pending"
  <2>1. FreshNode \in NodeRow /\ FreshNode.attempt = 0 /\ FreshNode.status = "pending"
    BY StatusNames DEF FreshNode, NodeRow
  <2>2. [n \in Nodes |-> FreshNode] \in [Nodes -> NodeRow]
    BY <2>1
  <2>3. plan.version + 1 \in Nat /\ disk \in Nat
    BY <1>4
  <2> QED BY <2>1, <2>2, <2>3 DEF Graph
<1> HIDE DEF fresh
<1>6. /\ plan' \in Graph /\ plan'.version = plan.version + 1 /\ plan'.inputs = disk
      /\ \A n \in Nodes : plan'.node[n].attempt = 0 /\ plan'.node[n].status \in {"pending", "ready", "blocked"}
  <2>1. /\ Refresh(fresh) \in Graph /\ Refresh(fresh).version = plan.version + 1 /\ Refresh(fresh).inputs = disk
        /\ \A n \in Nodes : Refresh(fresh).node[n].attempt = 0
    BY <1>5, RefreshFacts
  <2>2. \A n \in Nodes : IF n \in Explores THEN Refresh(fresh).node[n].status = "ready"
                         ELSE Refresh(fresh).node[n].status \in {"pending", "ready", "blocked"}
    BY <1>5, RefreshFacts
  <2> QED BY <1>1, <2>1, <2>2
<1>7. OpenAttempts' = {} /\ Ids' = Ids
  BY <1>1, <1>2 DEF OpenAttempts, Ids
<1>8. me' \in OwnerState /\ me'.pc = "replanned" /\ me'.batch = <<>> /\ me'.then = "idle"
  BY <1>1, <1>2, OwnerTypes DEF OwnerState, OwnerPlaces
<1>9. NodeInv'
  BY <1>6 DEF NodeInv, Status, HolderOf
<1>10. AttemptInv'
  <2>1. AttemptsMatchNodes'
    BY <1>6, <1>7, MatchMade
  <2>2. \A b \in Ids :
          /\ attempts'[b].version <= plan'.version
          /\ attempts'[b].phase = "prepared" => attempts'[b].ops = <<>>
          /\ attempts'[b].phase = "reconciled" => attempts'[b].terminal \in Outcomes
          /\ \A o \in ToSet(attempts'[b].ops) : (o.tool = "write" => attempts'[b].node = "edit") /\ (o.stopped => o.phase = "result_recorded")
    <3> SUFFICES ASSUME NEW b \in Ids
        PROVE /\ attempts[b].version <= plan'.version
              /\ attempts[b].phase = "prepared" => attempts[b].ops = <<>>
              /\ attempts[b].phase = "reconciled" => attempts[b].terminal \in Outcomes
              /\ \A o \in ToSet(attempts[b].ops) : (o.tool = "write" => attempts[b].node = "edit") /\ (o.stopped => o.phase = "result_recorded")
      BY <1>1
    <3>1. attempts[b].version \in Nat /\ attempts[b].version <= plan.version
      BY RowFacts DEF PlanInv, AttemptInv
    <3>2. attempts[b].version <= plan'.version
      BY <1>4, <1>6, <3>1
    <3> QED BY <3>2 DEF PlanInv, AttemptInv, OpsOf, NodeOf
  <2> QED BY <1>7, <2>1, <2>2 DEF AttemptInv, OpsOf, NodeOf
<1>11. EditInv'
  <2>1. \A b \in Ids : Sent(b)' = Sent(b) /\ attempts'[b].version # plan'.version
    <3> SUFFICES ASSUME NEW b \in Ids PROVE Sent(b)' = Sent(b) /\ attempts[b].version # plan'.version
      BY <1>1
    <3>1. attempts[b].version \in Nat /\ attempts[b].version <= plan.version
      BY RowFacts DEF PlanInv, AttemptInv
    <3> QED BY <1>1, <1>4, <1>6, <3>1 DEF Sent, NodeOf
  <2> QED BY <1>1, <1>7, <2>1 DEF PlanInv, EditInv
<1>12. InHand' = {}
  BY <1>8, NothingInEmpty DEF InHand
<1>13. OwnerInv'
  BY <1>7, <1>8, <1>12, NothingInEmpty, AppendToEmpty DEF OwnerInv, Starting, Settling, Resting
<1>14. RecoveryInv' /\ ReadInv'
  BY <1>8 DEF RecoveryInv, ReadInv, Starting
<1>15. LiveInv'
  BY <1>1, <1>3, <1>8 DEF LiveInv, Starting, NothingBesideAWrite
<1>16. PatchInv'
  <2>1. {"edit", "verify"} \subseteq Nodes
    BY NodeNames
  <2>2. plan'.node["edit"].status # "succeeded" /\ plan'.node["verify"].status # "succeeded"
    BY <1>6, <2>1
  <2> QED BY <1>7, <1>8, <2>2 DEF PatchInv, NobodyElse, Status
<1>17. TypeInv'
  <2>1. plan'.version \in 1 .. MaxReplans + 1 /\ plan'.inputs \in 1 .. top
    BY <1>2, <1>4, <1>6
  <2>2. live' \subseteq Ids'
    BY <1>1, <1>3
  <2> QED BY <1>1, <1>6, <1>7, <1>8, <2>1, <2>2, TypeFacts, TypeMade DEF PlanInv
<1> QED BY <1>9, <1>10, <1>11, <1>13, <1>14, <1>15, <1>16, <1>17 DEF PlanInv

\* In a finite set with a strict total order, every place is one element's.
LEMMA PlaceIsTaken ==
  ASSUME NEW S, IsFiniteSet(S), NEW R,
         \A p \in S : <<p, p>> \notin R,
         \A p, q \in S : p # q => <<p, q>> \in R \/ <<q, p>> \in R,
         \A p, q, r \in S : <<p, q>> \in R /\ <<q, r>> \in R => <<p, r>> \in R
  PROVE  /\ \A i \in 1..Cardinality(S) : \E p \in S : Cardinality({q \in S : <<q, p>> \in R}) = i - 1
         /\ \A p \in S : Cardinality({q \in S : <<q, p>> \in R}) + 1 \in 1..Cardinality(S)
         /\ \A p, r \in S : Cardinality({q \in S : <<q, p>> \in R}) = Cardinality({q \in S : <<q, r>> \in R}) => p = r
<1> DEFINE n == Cardinality(S)
           under(p) == {q \in S : <<q, p>> \in R}
           rank == [p \in S |-> Cardinality(under(p))]
<1>1. n \in Nat
  BY FS_CardinalityType
<1>2. ASSUME NEW p \in S PROVE IsFiniteSet(under(p)) /\ rank[p] \in 0..(n - 1)
  <2>1. under(p) \subseteq S /\ p \notin under(p)
    OBVIOUS
  <2>2. IsFiniteSet(under(p)) /\ Cardinality(under(p)) \in Nat
    BY <2>1, FS_Subset, FS_CardinalityType
  <2>3. Cardinality(under(p)) <= n /\ Cardinality(under(p)) # n
    <3> HIDE DEF under
    <3> QED BY <2>1, FS_Subset
  <2>4. Cardinality(under(p)) < n
    BY <1>1, <2>2, <2>3
  <2> QED BY <1>1, <2>2, <2>4
<1>3. ASSUME NEW p \in S, NEW q \in S, <<p, q>> \in R PROVE rank[p] < rank[q]
  <2>1. under(p) \subseteq under(q) /\ p \in under(q) /\ p \notin under(p)
    BY <1>3
  <2>2. Cardinality(under(p)) < Cardinality(under(q))
    <3> HIDE DEF under
    <3>1. IsFiniteSet(under(p)) /\ IsFiniteSet(under(q))
      BY <1>2
    <3>2. Cardinality(under(p)) <= Cardinality(under(q)) /\ Cardinality(under(p)) # Cardinality(under(q))
      BY <2>1, <3>1, FS_Subset
    <3>3. Cardinality(under(p)) \in Nat /\ Cardinality(under(q)) \in Nat
      BY <3>1, FS_CardinalityType
    <3> QED BY <3>2, <3>3
  <2> QED BY <2>2
<1>4. \A p, q \in S : rank[p] = rank[q] => p = q
  <2> SUFFICES ASSUME NEW p \in S, NEW q \in S, rank[p] = rank[q], p # q PROVE FALSE
    OBVIOUS
  <2>1. rank[p] < rank[q] \/ rank[q] < rank[p]
    BY <1>3
  <2>2. rank[p] \in Int /\ rank[q] \in Int
    BY <1>1, <1>2
  <2> QED BY <2>1, <2>2
<1>5. rank \in [S -> 0..(n - 1)]
  BY <1>2
<1>6. rank \in Injection(S, 0..(n - 1))
  <2> HIDE DEF rank
  <2> QED BY <1>4, <1>5 DEF Injection, IsInjective
<1>7. IsFiniteSet(0..(n - 1)) /\ Cardinality(0..(n - 1)) = n
  <2>1. 0 \in Int /\ n - 1 \in Int /\ (n - 1) - 0 + 1 = n /\ (0 > n - 1 => n = 0)
    BY <1>1
  <2> HIDE DEF n
  <2> QED BY <2>1, FS_Interval
<1>8. rank \in Surjection(S, 0..(n - 1))
  <2> HIDE DEF rank, n
  <2> QED BY <1>6, <1>7, FS_Injection DEF n
<1>9. ASSUME NEW i \in 1..Cardinality(S) PROVE \E p \in S : rank[p] = i - 1
  <2>1. i - 1 \in 0..(n - 1)
    BY <1>1
  <2> HIDE DEF rank, n
  <2> QED BY <1>8, <2>1 DEF Surjection
<1>10. ASSUME NEW p \in S PROVE rank[p] + 1 \in 1..Cardinality(S)
  <2>1. rank[p] \in 0..(n - 1)
    BY <1>2
  <2> HIDE DEF rank
  <2> QED BY <1>1, <2>1
<1>11. \A p \in S : rank[p] = Cardinality({q \in S : <<q, p>> \in R})
  OBVIOUS
<1> HIDE DEF rank
<1> QED BY <1>4, <1>9, <1>10, <1>11

\* What _open hands to the recovery: the attempts of a finite set in the order of their numbers.
LEMMA SortedFacts ==
  ASSUME NEW S \in SUBSET Nat, IsFiniteSet(S)
  PROVE  Sorted(S) \in Seq(Nat) /\ ToSet(Sorted(S)) = S /\ IsInjective(Sorted(S))
<1> DEFINE R == {pair \in S \X S : pair[1] < pair[2]}
           rank(p) == Cardinality({b \in S : b < p})
           name(i) == CHOOSE a \in S : rank(a) = i - 1
           n == Cardinality(S)
<1>1. n \in Nat
  BY FS_CardinalityType
<1>2. \A p, q \in S : <<p, q>> \in R <=> p < q
  OBVIOUS
<1>3. \A p \in S : {q \in S : <<q, p>> \in R} = {b \in S : b < p}
  OBVIOUS
<1>4. /\ \A p \in S : <<p, p>> \notin R
      /\ \A p, q \in S : p # q => <<p, q>> \in R \/ <<q, p>> \in R
      /\ \A p, q, r \in S : <<p, q>> \in R /\ <<q, r>> \in R => <<p, r>> \in R
  <2> HIDE DEF R
  <2> QED BY <1>2
<1>5. /\ \A i \in 1 .. n : \E p \in S : rank(p) = i - 1
      /\ \A p \in S : rank(p) + 1 \in 1 .. n
      /\ \A p, r \in S : rank(p) = rank(r) => p = r
  <2>1. /\ \A i \in 1..Cardinality(S) : \E p \in S : Cardinality({q \in S : <<q, p>> \in R}) = i - 1
        /\ \A p \in S : Cardinality({q \in S : <<q, p>> \in R}) + 1 \in 1..Cardinality(S)
        /\ \A p, r \in S : Cardinality({q \in S : <<q, p>> \in R}) = Cardinality({q \in S : <<q, r>> \in R}) => p = r
    <3> HIDE DEF R
    <3> QED BY <1>4, PlaceIsTaken
  <2> HIDE DEF R
  <2> QED BY <1>3, <2>1
<1>6. Sorted(S) = [i \in 1 .. n |-> name(i)]
  BY DEF Sorted
<1>7. \A p \in S : rank(p) \in Nat
  <2> SUFFICES ASSUME NEW p \in S PROVE rank(p) \in Nat
    OBVIOUS
  <2>1. IsFiniteSet({b \in S : b < p})
    BY FS_Subset
  <2> QED BY <2>1, FS_CardinalityType
<1> HIDE DEF rank
<1>8. \A i \in 1 .. n : name(i) \in S /\ rank(name(i)) = i - 1
  BY <1>5
<1>9. \A p \in S : p = name(rank(p) + 1)
  <2> SUFFICES ASSUME NEW p \in S PROVE p = name(rank(p) + 1)
    OBVIOUS
  <2>1. rank(p) + 1 \in 1 .. n /\ rank(p) \in Nat /\ rank(p) + 1 - 1 = rank(p)
    BY <1>5, <1>7
  <2>2. name(rank(p) + 1) \in S /\ rank(name(rank(p) + 1)) = rank(p)
    <3> HIDE DEF name, n
    <3> QED BY <1>8, <2>1
  <2> HIDE DEF name, n
  <2> QED BY <1>5, <2>2
<1>10. Sorted(S) \in Seq(Nat) /\ Len(Sorted(S)) = n
  <2>1. \A i \in 1 .. n : name(i) \in Nat
    BY <1>8
  <2>2. n \in Nat
    BY <1>1
  <2> HIDE DEF name, n
  <2> QED BY <1>6, <2>1, <2>2
<1>11. ToSet(Sorted(S)) = S
  <2>1. DOMAIN Sorted(S) = 1 .. n
    BY <1>6
  <2>2. ToSet(Sorted(S)) = {name(i) : i \in 1 .. n}
    BY <1>6, <2>1 DEF ToSet
  <2>3. \A p \in S : rank(p) + 1 \in 1 .. n
    BY <1>5
  <2> HIDE DEF name, n
  <2> QED BY <1>8, <1>9, <2>2, <2>3
<1>12. IsInjective(Sorted(S))
  <2>1. \A i, j \in 1 .. n : name(i) = name(j) => i = j
    <3> SUFFICES ASSUME NEW i \in 1 .. n, NEW j \in 1 .. n, name(i) = name(j) PROVE i = j
      OBVIOUS
    <3>1. i - 1 = j - 1
      BY <1>8
    <3> QED BY <1>1, <3>1
  <2>2. DOMAIN Sorted(S) = 1 .. n /\ \A i \in 1 .. n : Sorted(S)[i] = name(i)
    BY <1>6
  <2> QED BY <2>1, <2>2 DEF IsInjective
<1> QED BY <1>10, <1>11, <1>12

-----------------------------------------------------------------------------
(* Another process recovers what is open.                                  *)

LEMMA RecoverFacts ==
  ASSUME PlanInv, NEW a, Recovering(a)
  PROVE  /\ me.pc = "recover" /\ me.then = "recover" /\ me.batch = <<>> /\ InHand = {}
         /\ me.queue # <<>> /\ me.queue \in Seq(Nat) /\ IsInjective(me.queue) /\ ToSet(me.queue) \subseteq OpenAttempts
         /\ ~me.bad => OpenAttempts \subseteq ToSet(me.queue)
         /\ Tail(me.queue) \in Seq(Nat) /\ Tail(me.queue) \in Seq(Explores \cup Nat) /\ IsInjective(Tail(me.queue))
         /\ ToSet(me.queue) = {a} \cup ToSet(Tail(me.queue)) /\ a \notin ToSet(Tail(me.queue))
         /\ a \in OpenAttempts /\ a \in Ids /\ a # 0 /\ NodeOf(a) \in Nodes /\ HolderOf(NodeOf(a)) \in {0, a}
         /\ attempts[a].version = plan.version
         /\ \A b \in live : NodeOf(b) = NodeOf(a) => b = a
<1>1. me.pc = "recover" /\ me.queue # <<>> /\ a = Head(me.queue) /\ Owned(a)
  BY DEF Recovering
<1>2. me.then = "recover" /\ me.batch = <<>>
  BY <1>1 DEF PlanInv, RecoveryInv
<1>3. InHand = {}
  BY <1>1, <1>2, NothingInEmpty DEF InHand
<1>4. /\ me.queue \in Seq(Nat) /\ IsInjective(me.queue) /\ ToSet(me.queue) \subseteq OpenAttempts
      /\ ~me.bad => OpenAttempts \subseteq ToSet(me.queue)
  BY <1>2, <1>3 DEF PlanInv, RecoveryInv
<1>5. /\ Tail(me.queue) \in Seq(Nat) /\ IsInjective(Tail(me.queue))
      /\ ToSet(me.queue) = {a} \cup ToSet(Tail(me.queue)) /\ a \notin ToSet(Tail(me.queue))
  BY <1>1, <1>4, TailSet
<1>6. Tail(me.queue) \in Seq(Explores \cup Nat)
  BY <1>1, OwnerTypes, TailSet
<1>7. a \in OpenAttempts /\ a \in Ids
  BY <1>4, <1>5 DEF OpenAttempts
<1>8. a # 0 /\ NodeOf(a) \in Nodes
  BY <1>7, RowFacts DEF PlanInv
<1>9. HolderOf(NodeOf(a)) \in {0, a} /\ attempts[a].version = plan.version
  BY <1>1 DEF Owned, HolderOf, NodeOf
<1>10. \A b \in live : NodeOf(b) = NodeOf(a) => b = a
  <2>1. \A b \in live : HolderOf(NodeOf(b)) = b /\ b # 0
    BY TypeFacts DEF PlanInv, LiveInv
  <2> QED BY <1>9, <2>1
<1> QED BY <1>1, <1>2, <1>3, <1>4, <1>5, <1>6, <1>7, <1>8, <1>9, <1>10

\* The recovery decides about one attempt and goes on.
LEMMA RecoverKeeps ==
  ASSUME PlanInv, NEW a \in Ids, Recovering(a), NEW s \in {"pending", "running", "uncertain"}, NEW x \in {0, a},
         plan' = plan \/ plan' = SetNode(plan, NodeOf(a), s, x, 0),
         UNCHANGED <<attempts, live, disk, top, origin, rollback, request, life, foreign>>,
         s = "pending" => /\ x = 0 /\ a \notin live
                          /\ (NodeOf(a) = "edit" => \A b \in Ids : ~(Sent(b) /\ attempts[b].version = plan.version)),
         s # "pending" => x = a,
         me' \in OwnerState, me'.pc \in {"settle", "recover", "restarted"}, me'.then = "recover", me'.batch = <<>>,
         me'.queue \in Seq(Nat), IsInjective(me'.queue),
         ToSet(me'.queue) \subseteq OpenAttempts,
         me'.pc = "settle" => me'.a = a /\ a \notin ToSet(me'.queue) /\ attempts[a].phase = "result_recorded",
         ~me'.bad => OpenAttempts \subseteq ToSet(me'.queue) \cup (IF me'.pc = "settle" THEN {a} ELSE {}),
         me'.pc = "restarted" =>
            plan' = SetNode(plan, NodeOf(a), "pending", 0, 0) /\ s = "pending" /\ me'.queue # <<>> /\ Head(me'.queue) = a
  PROVE  PlanInv'
<1> DEFINE n == NodeOf(a)
<1>1. /\ me.pc = "recover" /\ me.then = "recover"
      /\ a \in OpenAttempts /\ a \in Ids /\ a # 0 /\ n \in Nodes
      /\ \A b \in live : NodeOf(b) = n => b = a
  BY RecoverFacts
<1>2. s \in DOMAIN Transitions /\ 0 \in Nat /\ s # "ready" /\ s # "succeeded"
  BY StatusNames
<1>3. plan \in Graph
  BY TypeFacts DEF PlanInv
<1>4. /\ NodeInv' /\ AttemptInv' /\ EditInv' /\ OpenAttempts' = OpenAttempts
      /\ plan' \in Graph /\ plan'.version = plan.version /\ plan'.inputs = plan.inputs
      /\ \A m \in Nodes \ {n} : plan'.node[m] = plan.node[m]
      /\ \/ plan' = plan
         \/ plan'.node[n].status = s /\ plan'.node[n].attempt = x
  <2>1. CASE plan' = plan
    <3>1. NodeInv' /\ AttemptInv' /\ EditInv' /\ OpenAttempts' = OpenAttempts
      BY <2>1, NothingChanges, JournalKept, OpenKept
    <3> QED BY <1>3, <2>1, <3>1
  <2>2. CASE plan' = SetNode(plan, n, s, x, 0)
    BY <1>1, <1>2, <2>2, JournalSets DEF n
  <2> QED BY <2>1, <2>2
<1>5. me'.pc = "restarted" => plan'.node[n].status = "pending" /\ plan'.node[n].attempt = 0
  BY <1>1, <1>2, <1>3, SetNodeFacts
<1>6. attempts'[a].node = n
  BY DEF NodeOf
<1> HIDE DEF n
<1>7. InHand' = (IF me'.pc = "settle" THEN {a} ELSE {})
  <2>1. ToSet(me'.batch) = {}
    BY NothingInEmpty
  <2> QED BY <2>1 DEF InHand
<1>8. OwnerInv'
  <2>1. me'.pc = "settle" => attempts'[a].phase = "result_recorded" /\ a \notin {}
    OBVIOUS
  <2> QED BY <1>1, <1>4, <1>7, <2>1, NothingInEmpty, AppendToEmpty DEF OwnerInv, Starting, Settling, Resting
<1>9. RecoveryInv'
  <2>1. me'.pc = "restarted" => plan'.node[attempts'[Head(me'.queue)].node].status = "pending" /\ plan'.node[attempts'[Head(me'.queue)].node].attempt = 0
    BY <1>5, <1>6
  <2> QED BY <1>4, <1>7, <2>1 DEF RecoveryInv, Settling, Status, HolderOf, NodeOf
<1>10. ReadInv'
  BY DEF ReadInv, Starting
<1>11. LiveInv'
  <2>1. live \subseteq Ids
    BY TypeFacts DEF PlanInv
  <2>2. ASSUME NEW b \in live
        PROVE  /\ attempts'[b].version = plan'.version
               /\ plan'.node[attempts'[b].node].attempt = b /\ plan'.node[attempts'[b].node].status \in {"running", "uncertain"}
               /\ attempts'[b].phase # "prepared"
               /\ IF attempts'[b].node = "verify"
                  THEN attempts'[b].phase = "dispatched" \/ attempts'[b].result = "uncertain"
                  ELSE attempts'[b].life = life /\ attempts'[b].ops # <<>> /\ ~Complete(Last(attempts'[b].ops))
    <3>1. /\ attempts[b].version = plan.version
          /\ plan.node[attempts[b].node].attempt = b /\ plan.node[attempts[b].node].status \in {"running", "uncertain"}
          /\ attempts[b].phase # "prepared"
          /\ IF attempts[b].node = "verify"
             THEN attempts[b].phase = "dispatched" \/ attempts[b].result = "uncertain"
             ELSE attempts[b].life = life /\ attempts[b].ops # <<>> /\ ~Complete(Last(attempts[b].ops))
      BY DEF PlanInv, LiveInv, NodeOf, HolderOf, Status
    <3>2. attempts[b].node \in Nodes
      BY <2>1, RowFacts DEF PlanInv, NodeOf
    <3>3. CASE attempts[b].node = n
      <4>1. b = a
        BY <1>1, <3>3 DEF NodeOf
      <4>2. s # "pending" /\ x = a
        BY <4>1
      <4> QED BY <1>4, <3>1, <3>3, <4>1, <4>2
    <3>4. CASE attempts[b].node # n
      BY <1>4, <3>1, <3>2, <3>4
    <3> QED BY <3>3, <3>4
  <2>3. NothingBesideAWrite'
    BY DEF PlanInv, LiveInv, NothingBesideAWrite
  <2> QED BY <2>2, <2>3 DEF LiveInv, Starting, NodeOf, HolderOf, Status
<1>12. PatchInv'
  <2> SUFFICES ASSUME foreign = 0 PROVE NobodyElse'
    BY DEF PatchInv
  <2>1. NobodyElse
    BY DEF PlanInv, PatchInv
  <2>2. "edit" \in Nodes /\ "verify" \in Nodes /\ NodeOf(a) = n
    BY NodeNames DEF n
  <2>3. n # "edit" => PatchIsThere' = PatchIsThere /\ plan'.node["edit"] = plan.node["edit"] /\ Status("edit")' = Status("edit")
    BY <1>4, <2>2 DEF PatchIsThere, Status
  <2>4. n = "edit" => /\ Status("verify") # "succeeded" /\ (\A b \in OpenAttempts : NodeOf(b) # "verify")
                      /\ (Status("edit")' = "succeeded" => plan' = plan)
    <3>1. plan'.node["edit"].status = "succeeded" /\ n = "edit" => plan' = plan
      BY <1>2, <1>4
    <3> QED BY <1>1, <2>1, <2>2, <3>1 DEF NobodyElse, Status
  <2>5. plan' = plan => PatchIsThere' = PatchIsThere /\ Status("edit")' = Status("edit")
    BY DEF PatchIsThere, Status
  <2>6. ASSUME NEW b \in OpenAttempts, NodeOf(b) = "verify"
        PROVE  PatchIsThere' /\ \A c \in OpenAttempts : NodeOf(c) # "edit"
    BY <2>1, <2>3, <2>4, <2>6 DEF NobodyElse
  <2>7. ASSUME NEW b \in OpenAttempts, NodeOf(b) = "edit", Status("edit")' = "succeeded" PROVE PatchIsThere'
    <3>1. CASE n = "edit"
      <4>1. Status("edit") = "succeeded" /\ PatchIsThere' = PatchIsThere
        BY <2>4, <2>5, <2>7, <3>1
      <4> QED BY <2>1, <2>7, <4>1 DEF NobodyElse
    <3>2. CASE n # "edit"
      BY <2>1, <2>3, <2>7, <3>2 DEF NobodyElse
    <3> QED BY <3>1, <3>2
  <2>8. ASSUME Status("verify")' = "succeeded"
        PROVE  /\ Status("edit")' \in {"succeeded", "uncertain"} /\ \A b \in OpenAttempts : NodeOf(b) # "edit"
               /\ plan'.node["verify"].ref = plan'.node["edit"].ref
    <3>1. CASE plan' = plan
      BY <2>1, <2>8, <3>1 DEF NobodyElse, Status
    <3>2. CASE n = "verify" /\ plan'.node[n].status = s
      BY <1>2, <2>8, <3>2 DEF Status
    <3>3. CASE n # "verify"
      <4>1. Status("verify") = "succeeded" /\ plan'.node["verify"] = plan.node["verify"]
        BY <1>4, <2>2, <2>8, <3>3 DEF Status
      <4> QED BY <2>1, <2>3, <2>4, <4>1 DEF NobodyElse
    <3> QED BY <1>4, <3>1, <3>2, <3>3
  <2> QED BY <1>4, <2>6, <2>7, <2>8 DEF NobodyElse, NodeOf
<1>13. TypeInv'
  BY <1>4, SetsTypes
<1> QED BY <1>4, <1>8, <1>9, <1>10, <1>11, <1>12, <1>13 DEF PlanInv

\* What is run again, and what a recorded result is adopted of, has ended.
LEMMA StoppedIsNotLive == ASSUME PlanInv, NEW a \in Ids, HasStopped(a) \/ attempts[a].phase = "prepared" PROVE a \notin live
<1> SUFFICES ASSUME a \in live PROVE FALSE
  OBVIOUS
<1>1. /\ attempts[a].phase # "prepared"
      /\ IF NodeOf(a) = "verify"
         THEN attempts[a].phase = "dispatched" \/ attempts[a].result = "uncertain"
         ELSE attempts[a].life = life /\ attempts[a].ops # <<>> /\ ~Complete(Last(attempts[a].ops))
  BY DEF PlanInv, LiveInv
<1>2. HasStopped(a)
  BY <1>1
<1>3. CASE NodeOf(a) = "verify"
  BY <1>1, <1>2, <1>3 DEF HasStopped, NodeOf
<1>4. CASE NodeOf(a) # "verify"
  <2>1. attempts[a].life = life /\ attempts[a].ops # <<>> /\ ~Complete(Last(attempts[a].ops))
    BY <1>1, <1>4
  <2>2. Last(attempts[a].ops) \in OpsOf(a)
    BY <2>1, LastOp DEF PlanInv
  <2> QED BY <1>2, <2>1, <2>2 DEF HasStopped, CompleteOps, Exited
<1> QED BY <1>3, <1>4

LEMMA RestartSafeKeeps == ASSUME PlanInv, NEW a \in Ids, RestartSafe(a) PROVE PlanInv'
<1>1. /\ Recovering(a) /\ Restartable(a) /\ plan' = SetNode(plan, NodeOf(a), "pending", 0, 0)
      /\ me' = [me EXCEPT !.pc = "restarted"]
      /\ UNCHANGED <<attempts, live, disk, top, origin, rollback, request, life, foreign>>
  BY DEF RestartSafe, world, NodeOf
<1>2. /\ me.pc = "recover" /\ me.then = "recover" /\ me.batch = <<>> /\ me.queue # <<>> /\ me.queue \in Seq(Nat) /\ IsInjective(me.queue)
      /\ ToSet(me.queue) \subseteq OpenAttempts /\ (~me.bad => OpenAttempts \subseteq ToSet(me.queue)) /\ a = Head(me.queue)
  BY <1>1, RecoverFacts DEF Recovering
<1>3. a \notin live
  BY <1>1, StoppedIsNotLive DEF Restartable
<1>4. NodeOf(a) = "edit" => \A b \in Ids : ~(Sent(b) /\ attempts[b].version = plan.version)
  BY <1>1 DEF Restartable, PlanInv, EditInv, NodeOf
<1>5. /\ me' \in OwnerState /\ me'.pc = "restarted" /\ me'.then = "recover" /\ me'.batch = <<>> /\ me'.queue = me.queue /\ me'.bad = me.bad
  BY <1>1, <1>2, OwnerTypes DEF OwnerState, OwnerPlaces
<1> QED BY <1>1, <1>2, <1>3, <1>4, <1>5, RecoverKeeps

LEMMA AdoptKeeps == ASSUME PlanInv, NEW a \in Ids, Adopt(a) PROVE PlanInv'
<1> DEFINE tail == Tail(me.queue)
<1>1. /\ Recovering(a) /\ Adoptable(a)
      /\ plan' = plan \/ plan' = SetNode(plan, NodeOf(a), "running", a, 0)
      /\ me' = [[me EXCEPT !.queue = tail] EXCEPT !.pc = "settle", !.a = a]
      /\ UNCHANGED <<attempts, live, disk, top, origin, rollback, request, life, foreign>>
  BY DEF Adopt, Recovered, world, NodeOf
<1>2. /\ me.pc = "recover" /\ me.then = "recover" /\ me.batch = <<>>
      /\ tail \in Seq(Nat) /\ tail \in Seq(Explores \cup Nat) /\ IsInjective(tail)
      /\ ToSet(me.queue) = {a} \cup ToSet(tail) /\ a \notin ToSet(tail)
      /\ ToSet(me.queue) \subseteq OpenAttempts /\ (~me.bad => OpenAttempts \subseteq ToSet(me.queue)) /\ a \in Nat
  BY <1>1, RecoverFacts, RowFacts DEF PlanInv
<1> HIDE DEF tail
<1>3. /\ me' \in OwnerState /\ me'.pc = "settle" /\ me'.a = a /\ me'.then = "recover" /\ me'.batch = <<>>
      /\ me'.queue = tail /\ me'.bad = me.bad
  BY <1>1, <1>2, OwnerTypes DEF OwnerState, OwnerPlaces
<1>4. attempts[a].phase = "result_recorded"
  BY <1>1 DEF Adoptable
<1>5. ToSet(me'.queue) \subseteq OpenAttempts /\ (~me'.bad => OpenAttempts \subseteq ToSet(me'.queue) \cup {a})
  BY <1>2, <1>3
<1> QED BY <1>1, <1>2, <1>3, <1>4, <1>5, RecoverKeeps

LEMMA MarkUncertainKeeps == ASSUME PlanInv, NEW a \in Ids, MarkUncertain(a) PROVE PlanInv'
<1> DEFINE tail == Tail(me.queue)
<1>1. /\ Recovering(a)
      /\ plan' = plan \/ plan' = SetNode(plan, NodeOf(a), "uncertain", a, 0)
      /\ me' = [[me EXCEPT !.queue = tail] EXCEPT !.bad = TRUE]
      /\ UNCHANGED <<attempts, live, disk, top, origin, rollback, request, life, foreign>>
  BY DEF MarkUncertain, Recovered, world, NodeOf
<1>2. /\ me.pc = "recover" /\ me.then = "recover" /\ me.batch = <<>>
      /\ tail \in Seq(Nat) /\ tail \in Seq(Explores \cup Nat) /\ IsInjective(tail)
      /\ ToSet(me.queue) = {a} \cup ToSet(tail) /\ ToSet(me.queue) \subseteq OpenAttempts
  BY <1>1, RecoverFacts
<1> HIDE DEF tail
<1>3. /\ me' \in OwnerState /\ me'.pc = "recover" /\ me'.then = "recover" /\ me'.batch = <<>>
      /\ me'.queue = tail /\ me'.bad = TRUE
  <2> DEFINE m == [me EXCEPT !.queue = tail]
  <2>1. /\ m \in OwnerState /\ m.pc = "recover" /\ m.then = "recover" /\ m.batch = <<>> /\ m.queue = tail
        /\ me' = [m EXCEPT !.bad = TRUE]
    BY <1>1, <1>2, OwnerTypes DEF OwnerState
  <2> HIDE DEF m
  <2> QED BY <2>1 DEF OwnerState
<1>4. ToSet(me'.queue) \subseteq OpenAttempts
  <2>1. ToSet(tail) \subseteq OpenAttempts
    BY <1>2, Zenon
  <2> QED BY <1>3, <2>1, Zenon
<1> QED BY <1>1, <1>2, <1>3, <1>4, RecoverKeeps

\* The registry rows that are confirmed are closed, and nothing else of the journal changes.
LEMMA RowsClosed ==
  ASSUME PlanInv, attempts' = [a \in Ids |-> [attempts[a] EXCEPT !.closed = attempts[a].closed \/ Answered(a)]], plan' = plan
  PROVE  /\ attempts' \in Seq(AttemptRow) /\ Len(attempts') = Len(attempts) /\ Ids' = Ids
         /\ \A b \in Ids : /\ attempts'[b].node = attempts[b].node /\ attempts'[b].version = attempts[b].version
                           /\ attempts'[b].phase = attempts[b].phase /\ attempts'[b].terminal = attempts[b].terminal
                           /\ attempts'[b].ops = attempts[b].ops /\ attempts'[b].life = attempts[b].life
                           /\ attempts'[b].result = attempts[b].result
<1> DEFINE done(a) == attempts[a].closed \/ Answered(a)
           row(a) == [attempts[a] EXCEPT !.closed = done(a)]
<1>1. attempts' = [a \in Ids |-> row(a)]
  OBVIOUS
<1>2. \A a \in Ids : done(a) \in BOOLEAN
  OBVIOUS
<1> HIDE DEF done
<1>3. ASSUME NEW a \in Ids
      PROVE  /\ row(a) \in AttemptRow /\ row(a).node = attempts[a].node /\ row(a).version = attempts[a].version
             /\ row(a).phase = attempts[a].phase /\ row(a).terminal = attempts[a].terminal
             /\ row(a).ops = attempts[a].ops /\ row(a).life = attempts[a].life /\ row(a).result = attempts[a].result
  <2>1. attempts[a] \in AttemptRow
    BY RowFacts DEF PlanInv
  <2>2. CASE done(a) = TRUE
    <3>1. row(a) = [attempts[a] EXCEPT !.closed = TRUE]
      BY <2>2, Zenon
    <3> HIDE DEF row
    <3> QED BY <2>1, <3>1 DEF AttemptRow
  <2>3. CASE done(a) = FALSE
    <3>1. row(a) = [attempts[a] EXCEPT !.closed = FALSE]
      BY <2>3, Zenon
    <3> HIDE DEF row
    <3> QED BY <2>1, <3>1 DEF AttemptRow
  <2> HIDE DEF row
  <2> QED BY <1>2, <2>2, <2>3
<1> HIDE DEF row
<1>4. Ids = 1 .. Len(attempts) /\ Len(attempts) \in Nat
  BY TypeFacts DEF PlanInv
<1>5. attempts' \in Seq(AttemptRow) /\ Len(attempts') = Len(attempts)
  BY <1>1, <1>3, <1>4
<1>6. Ids' = Ids
  BY <1>5 DEF Ids
<1>7. \A b \in Ids : attempts'[b] = row(b)
  BY <1>1
<1>8. \A b \in Ids : /\ attempts'[b].node = attempts[b].node /\ attempts'[b].version = attempts[b].version
                     /\ attempts'[b].phase = attempts[b].phase /\ attempts'[b].terminal = attempts[b].terminal
                     /\ attempts'[b].ops = attempts[b].ops /\ attempts'[b].life = attempts[b].life
                     /\ attempts'[b].result = attempts[b].result
  BY <1>3, <1>7
<1> QED BY <1>5, <1>6, <1>8, Zenon

LEMMA OpenKeeps == ASSUME PlanInv, Open PROVE PlanInv'
<1> DEFINE queue == Sorted(OpenAttempts)
<1>1. /\ me.pc = "closed" /\ attempts' = [a \in Ids |-> [attempts[a] EXCEPT !.closed = attempts[a].closed \/ Answered(a)]]
      /\ me' = [IdleOwner EXCEPT !.pc = "recover", !.then = "recover", !.queue = queue] \/ me' = me
      /\ origin' = disk
      /\ UNCHANGED <<plan, live, disk, top, rollback, request, life, foreign>>
  BY DEF Open
<1>2. /\ attempts' \in Seq(AttemptRow) /\ Len(attempts') = Len(attempts) /\ Ids' = Ids
      /\ \A b \in Ids : /\ attempts'[b].node = attempts[b].node /\ attempts'[b].version = attempts[b].version
                        /\ attempts'[b].phase = attempts[b].phase /\ attempts'[b].terminal = attempts[b].terminal
                        /\ attempts'[b].ops = attempts[b].ops /\ attempts'[b].life = attempts[b].life
                        /\ attempts'[b].result = attempts[b].result
  BY <1>1, RowsClosed, Zenon
<1>3. Advances
  BY <1>1, <1>2, Zenon DEF Advances
<1>4. NodeInv' /\ AttemptInv' /\ EditInv' /\ OpenAttempts' = OpenAttempts
  BY <1>3, JournalKept, OpenKept
<1>5. me.batch = <<>> /\ me.then = "idle"
  BY <1>1 DEF PlanInv, OwnerInv, Resting
<1>6. queue \in Seq(Nat) /\ ToSet(queue) = OpenAttempts /\ IsInjective(queue) /\ queue \in Seq(Explores \cup Nat)
  <2>1. OpenAttempts \subseteq Ids /\ Ids = 1 .. Len(attempts) /\ Len(attempts) \in Nat
    BY TypeFacts DEF PlanInv, OpenAttempts
  <2>2. IsFiniteSet(Ids) /\ Ids \subseteq Nat
    BY <2>1, FS_Interval
  <2>3. IsFiniteSet(OpenAttempts) /\ OpenAttempts \in SUBSET Nat
    BY <2>1, <2>2, FS_Subset
  <2>4. queue \in Seq(Nat) /\ ToSet(queue) = OpenAttempts /\ IsInjective(queue)
    BY <2>3, SortedFacts
  <2> HIDE DEF queue
  <2> QED BY <2>4
<1> HIDE DEF queue
<1>7. /\ me' \in OwnerState /\ me'.batch = <<>> /\ me'.pc \in {"recover", "closed"}
      /\ me'.pc = "closed" => me'.then = "idle"
      /\ me'.pc = "recover" => me'.then = "recover" /\ me'.queue = queue
  <2>1. CASE me' = me
    BY <1>1, <1>5, <2>1, OwnerTypes
  <2>2. CASE me' = [IdleOwner EXCEPT !.pc = "recover", !.then = "recover", !.queue = queue]
    <3>1. IdleOwner \in OwnerState /\ IdleOwner.batch = <<>>
      BY OwnerTypes DEF IdleOwner
    <3> QED BY <1>6, <2>2, <3>1 DEF OwnerState, OwnerPlaces
  <2> QED BY <1>1, <2>1, <2>2
<1>8. InHand' = {} /\ ToSet(me'.batch) = {} /\ IsInjective(me'.batch)
  BY <1>7, NothingInEmpty, AppendToEmpty DEF InHand
<1>9. OwnerInv'
  BY <1>7, <1>8 DEF OwnerInv, Starting, Settling, Resting
<1>10. RecoveryInv'
  BY <1>4, <1>6, <1>7, <1>8 DEF RecoveryInv, Settling
<1>11. ReadInv'
  BY <1>7 DEF ReadInv, Starting
<1>12. LiveInv'
  <2>1. live \subseteq Ids
    BY TypeFacts DEF PlanInv
  <2>2. \A b \in live :
          /\ attempts'[b].version = plan'.version
          /\ plan'.node[attempts'[b].node].attempt = b /\ plan'.node[attempts'[b].node].status \in {"running", "uncertain"}
          /\ attempts'[b].phase # "prepared"
          /\ IF attempts'[b].node = "verify"
             THEN attempts'[b].phase = "dispatched" \/ attempts'[b].result = "uncertain"
             ELSE attempts'[b].life = life /\ attempts'[b].ops # <<>> /\ ~Complete(Last(attempts'[b].ops))
    <3> SUFFICES ASSUME NEW b \in live
        PROVE /\ attempts'[b].version = plan'.version
              /\ plan'.node[attempts'[b].node].attempt = b /\ plan'.node[attempts'[b].node].status \in {"running", "uncertain"}
              /\ attempts'[b].phase # "prepared"
              /\ IF attempts'[b].node = "verify"
                 THEN attempts'[b].phase = "dispatched" \/ attempts'[b].result = "uncertain"
                 ELSE attempts'[b].life = life /\ attempts'[b].ops # <<>> /\ ~Complete(Last(attempts'[b].ops))
      OBVIOUS
    <3>1. /\ attempts[b].version = plan.version
          /\ plan.node[attempts[b].node].attempt = b /\ plan.node[attempts[b].node].status \in {"running", "uncertain"}
          /\ attempts[b].phase # "prepared"
          /\ IF attempts[b].node = "verify"
             THEN attempts[b].phase = "dispatched" \/ attempts[b].result = "uncertain"
             ELSE attempts[b].life = life /\ attempts[b].ops # <<>> /\ ~Complete(Last(attempts[b].ops))
      BY DEF PlanInv, LiveInv, NodeOf, HolderOf, Status
    <3>2. /\ attempts'[b].node = attempts[b].node /\ attempts'[b].version = attempts[b].version
          /\ attempts'[b].phase = attempts[b].phase /\ attempts'[b].ops = attempts[b].ops
          /\ attempts'[b].life = attempts[b].life /\ attempts'[b].result = attempts[b].result
      <4>1. b \in Ids
        BY <2>1
      <4> QED BY <1>2, <4>1, Zenon
    <3> QED BY <1>1, <3>1, <3>2
  <2>3. NothingBesideAWrite'
    <3>1. /\ live' = live
          /\ \A b \in live : attempts'[b].node = attempts[b].node
      BY <1>1, <1>2, <2>1, Zenon
    <3>2. NothingBesideAWrite
      BY DEF PlanInv, LiveInv
    <3> QED BY <3>1, <3>2, Zenon DEF NothingBesideAWrite
  <2> QED BY <1>1, <1>7, <2>2, <2>3 DEF LiveInv, Starting, NodeOf, HolderOf, Status
<1>13. PatchInv'
  <2> SUFFICES ASSUME foreign = 0 PROVE NobodyElse'
    BY <1>1, <1>7 DEF PatchInv
  <2>1. NobodyElse
    BY DEF PlanInv, PatchInv
  <2>2. PatchIsThere' = PatchIsThere /\ \A n : Status(n)' = Status(n)
    BY <1>1 DEF PatchIsThere, Status
  <2>3. \A b \in OpenAttempts : attempts'[b].node = attempts[b].node
    BY <1>2 DEF OpenAttempts
  <2> QED BY <1>1, <1>4, <1>7, <2>1, <2>2, <2>3 DEF NobodyElse, NodeOf
<1>14. TypeInv'
  <2>1. disk \in 1 .. top
    BY TypeFacts DEF PlanInv
  <2>2. live' \subseteq Ids'
    BY <1>1, <1>2, TypeFacts DEF PlanInv
  <2> QED BY <1>1, <1>2, <1>7, <2>1, <2>2, TypeFacts, TypeMade DEF PlanInv
<1> QED BY <1>4, <1>9, <1>10, <1>11, <1>12, <1>13, <1>14 DEF PlanInv

-----------------------------------------------------------------------------
(* The theorems.                                                           *)

LEMMA PlanBegins == PlanInit => PlanInv
<1> SUFFICES ASSUME PlanInit PROVE PlanInv
  OBVIOUS
<1>1. /\ plan = [version |-> 1, inputs |-> 1, node |-> [n \in Nodes |-> FreshNode]]
      /\ attempts = <<>> /\ live = {} /\ disk = 1 /\ top = 1 /\ origin = 1
      /\ rollback = [version |-> 0, completed |-> FALSE, after |-> 0, expected |-> 0]
      /\ request = [version |-> 0, status |-> "none"] /\ life = 1 /\ foreign = 0 /\ me = IdleOwner
  BY DEF PlanInit
<1>2. FreshNode \in NodeRow /\ FreshNode.attempt = 0 /\ FreshNode.status = "pending"
  BY StatusNames DEF FreshNode, NodeRow
<1>3. /\ plan.version = 1 /\ plan.inputs = 1 /\ plan.node \in [Nodes -> NodeRow]
      /\ \A n \in Nodes : Status(n) = "pending" /\ HolderOf(n) = 0
  BY <1>1, <1>2 DEF Status, HolderOf
<1>4. attempts \in Seq(AttemptRow) /\ Len(attempts) = 0 /\ Ids = {} /\ OpenAttempts = {}
  BY <1>1 DEF Ids, OpenAttempts
<1>5. IdleOwner \in OwnerState
  <2>1. <<>> \in Seq(Explores \cup Nat) /\ <<>> \in Seq(Nat)
    OBVIOUS
  <2> QED BY <2>1 DEF IdleOwner, OwnerState, OwnerPlaces
<1>6. /\ me.pc = "idle" /\ me.batch = <<>> /\ me.then = "idle" /\ me.before = 0 /\ me.queue = <<>> /\ me.stage = "patch"
  BY <1>1 DEF IdleOwner
<1>7. InHand = {} /\ ToSet(me.batch) = {} /\ IsInjective(me.batch)
  BY <1>6, NothingInEmpty, AppendToEmpty DEF InHand
<1>8. TypeInv
  <2>1. MaxReplans \in Nat /\ MaxAttempts \in Nat
    BY PlanAssumption
  <2>2. plan \in [version : 1 .. MaxReplans + 1, inputs : 1 .. top, node : [Nodes -> NodeRow]]
    BY <1>1, <1>3, <2>1
  <2>3. PlanTypeOK
    BY <1>1, <1>4, <2>1, <2>2 DEF PlanTypeOK
  <2> QED BY <1>1, <1>5, <2>3 DEF TypeInv, Rollback
<1>9. OwnerInv
  BY <1>4, <1>6, <1>7 DEF OwnerInv, Starting, Settling, Resting
<1>10. RecoveryInv /\ ReadInv
  BY <1>6 DEF RecoveryInv, ReadInv, Starting
<1>11. NodeInv
  BY <1>3 DEF NodeInv
<1>12. AttemptInv
  BY <1>3, <1>4 DEF AttemptInv, AttemptsMatchNodes, HolderOf
<1>13. EditInv
  BY <1>4 DEF EditInv
<1>14. LiveInv
  BY <1>1, <1>6 DEF LiveInv, NothingBesideAWrite, Starting
<1>15. PatchInv
  BY <1>3, <1>4, <1>6, NodeNames DEF PatchInv, NobodyElse
<1> QED BY <1>8, <1>9, <1>10, <1>11, <1>12, <1>13, <1>14, <1>15 DEF PlanInv

LEMMA StutterKeeps == ASSUME PlanInv, UNCHANGED planVars PROVE PlanInv'
<1>1. UNCHANGED <<plan, attempts, live, disk, top, origin, rollback, request, life, foreign, me>>
  BY DEF planVars
<1>2. NodeInv' /\ AttemptInv' /\ EditInv'
  BY <1>1, NothingChanges, JournalKept
<1>3. OwnerInv' /\ RecoveryInv' /\ ReadInv'
  BY <1>1, NothingChanges, OwnerKept
<1>4. LiveInv'
  BY <1>1 DEF PlanInv, LiveInv, NothingBesideAWrite, NodeOf, HolderOf, Status
<1>5. PatchInv'
  BY <1>1, NothingChanges, PatchKept
<1>6. TypeInv'
  BY <1>1, TypeFacts, TypeMade DEF PlanInv, Ids
<1> QED BY <1>2, <1>3, <1>4, <1>5, <1>6 DEF PlanInv

LEMMA PlanStepKeeps == PlanInv /\ [PlanNext]_planVars => PlanInv'
<1> SUFFICES ASSUME PlanInv, [PlanNext]_planVars PROVE PlanInv'
  OBVIOUS
<1>1. CASE Owner
  <2>1. CASE MarkRunning \/ Dispatch \/ EndRun
    BY <2>1, MarkRunningKeeps, DispatchKeeps, EndRunKeeps
  <2>2. CASE SettleReduce \/ SettleReconcile \/ SettleRow \/ SettleAfter
    BY <2>2, SettleReduceKeeps, SettleReconcileKeeps, SettleRowKeeps, SettleAfterKeeps
  <2>3. CASE AdoptPatch \/ StartReads \/ NextRead \/ StartAnalysis \/ StartEdit \/ StartVerify \/ AdoptVerification \/ RefreshPlan
    BY <2>3, AdoptPatchKeeps, StartReadsKeeps, NextReadKeeps, StartAnalysisKeeps, StartEditKeeps, StartVerifyKeeps,
       AdoptVerificationKeeps, RefreshPlanKeeps
  <2>4. ASSUME NEW n \in Explores, AdoptObservation(n) PROVE PlanInv'
    BY <2>4, AdoptObservationKeeps
  <2>5. CASE BeginRollback \/ RestoreFiles \/ EndRollback
    BY <2>5, BeginRollbackKeeps, RestoreFilesKeeps, EndRollbackKeeps
  <2>6. CASE RefreshEvidence \/ Reopen \/ ReadAgain \/ EndReopen
    BY <2>6, RefreshEvidenceKeeps, ReopenKeeps, ReadAgainKeeps, EndReopenKeeps
  <2>7. CASE RequestReplan \/ CommitReplan \/ RejectReplan \/ EndReplan
    BY <2>7, RequestReplanKeeps, CommitReplanKeeps, RejectReplanKeeps, EndReplanKeeps
  <2> QED BY <1>1, <2>1, <2>2, <2>3, <2>4, <2>5, <2>6, <2>7 DEF Owner
<1>2. CASE Recovery
  <2>1. CASE Open \/ EndRestart \/ EndRecovery
    BY <2>1, OpenKeeps, EndRestartKeeps, EndRecoveryKeeps
  <2>2. ASSUME NEW a \in Ids, RestartSafe(a) \/ AdoptWrites(a) \/ Adopt(a) \/ MarkUncertain(a) PROVE PlanInv'
    BY <2>2, RestartSafeKeeps, AdoptWritesKeeps, AdoptKeeps, MarkUncertainKeeps
  <2> QED BY <1>2, <2>1, <2>2 DEF Recovery
<1>3. CASE Die \/ Abort \/ Foreign
  BY <1>3, DieKeeps, AbortKeeps, ForeignKeeps
<1>4. ASSUME NEW a \in Ids, Attempt(a) PROVE PlanInv'
  <2>1. ASSUME NEW tool \in {"read", "write"}, OpPrepare(a, tool) PROVE PlanInv'
    BY <2>1, OpPrepareKeeps
  <2>2. CASE OpDispatch(a) \/ ToolWrites(a) \/ OpRecord(a) \/ OpTimeout(a) \/ LateEnd(a)
    BY <2>2, OpDispatchKeeps, ToolWritesKeeps, OpRecordKeeps, OpTimeoutKeeps, LateEndKeeps
  <2>3. CASE CallbackRaises(a) \/ Returns(a) \/ VerifyEnds(a)
    BY <2>3, CallbackRaisesKeeps, ReturnsKeeps, VerifyEndsKeeps
  <2> QED BY <1>4, <2>1, <2>2, <2>3 DEF Attempt
<1>5. CASE UNCHANGED planVars
  BY <1>5, StutterKeeps
<1> QED BY <1>1, <1>2, <1>3, <1>4, <1>5 DEF PlanNext

\* The journal of a run, its graph, its owner and what really executes fit together, whatever crashes, late ends
\* and recoveries there were (PlanRuntime and the recovery of RepairPlanBinding).
THEOREM PlanInvariant == PlanSpec => []PlanInv
<1>1. PlanInit => PlanInv
  BY PlanBegins
<1>2. PlanInv /\ [PlanNext]_planVars => PlanInv'
  BY PlanStepKeeps
<1> QED BY <1>1, <1>2, PTL DEF PlanSpec

\* The graph, the attempts and the tree keep their types, and no run has more graphs than MAX_REPLANS allows.
THEOREM PlanTypes == PlanSpec => []PlanTypeOK
<1>1. PlanInv => PlanTypeOK
  BY DEF PlanInv, TypeInv
<1> QED BY <1>1, PlanInvariant, PTL

\* Of one graph only one attempt ever dispatches a write, because no recovery runs an edit again that was sent
\* (restart_safe and its write_replay_forbidden).
THEOREM OneAttemptWrites == PlanSpec => []WriteOnce
<1>1. PlanInv => WriteOnce
  <2> SUFFICES ASSUME PlanInv, NEW a \in Ids, NEW b \in Ids, Wrote(a), Wrote(b), attempts[a].version = attempts[b].version
      PROVE a = b
    BY DEF WriteOnce
  <2>1. ASSUME NEW c \in Ids, Wrote(c) PROVE Sent(c)
    <3>1. PICK o \in OpsOf(c) : o.tool = "write"
      BY <2>1 DEF Wrote
    <3>2. NodeOf(c) = "edit"
      BY <3>1 DEF PlanInv, AttemptInv
    <3>3. attempts[c].ops # <<>>
      BY <3>1, NothingInEmpty DEF OpsOf
    <3> QED BY <3>2, <3>3 DEF Sent
  <2> QED BY <2>1 DEF PlanInv, EditInv
<1> QED BY <1>1, PlanInvariant, PTL

\* While an edit or a test run executes, also one that was given up or outlived its process, nothing else does
\* (prepare, settle and the recovery together).
THEOREM WritesAlone == PlanSpec => []NothingBesideAWrite
<1>1. PlanInv => NothingBesideAWrite
  BY DEF PlanInv, LiveInv
<1> QED BY <1>1, PlanInvariant, PTL

\* Unless others changed the tree, what the verification passed on is what the edit left (settle, refresh and the
\* evidence they compare).
THEOREM VerifiedAsEdited == PlanSpec => []CompletedIsVerified
<1>1. PlanInv => CompletedIsVerified
  BY DEF PlanInv, PatchInv, NobodyElse, CompletedIsVerified
<1> QED BY <1>1, PlanInvariant, PTL

\* A node has one open attempt, of the current graph, and holds it; a closed one is the node's outcome (prepare,
\* the reducer, reconcile and restart_safe, each a separate append).
THEOREM JournalAgrees == PlanSpec => []AttemptsMatchNodes
<1>1. PlanInv => AttemptsMatchNodes
  BY DEF PlanInv, AttemptInv
<1> QED BY <1>1, PlanInvariant, PTL

-----------------------------------------------------------------------------
(* The inductive invariant of the restoration.                             *)

\* A step of a plan, as StepsOf lists them.
StepNumbers(planned) == 1..Len(StepsOf(planned))

\* How far a plan is: the steps done and the step started last are steps of the plan.
Progress(planned) == planned.done \in {0} \cup StepNumbers(planned) /\ planned.started \in {0} \cup StepNumbers(planned)

\* What a plan puts back is in the history, and so is what it takes away, unless the commit is to save it.
Sourced(planned) ==
    /\ planned.target \in history.snapshots
    /\ planned.manual \/ planned.before \in history.snapshots

HistoryInv ==
    /\ history.head \in history.snapshots
    /\ history.candidate.status = "ready" =>
          history.candidate.input \in history.snapshots /\ history.candidate.output \in history.snapshots

PreviewInv ==
    \A o \in Ops : plans[o] # NoPlan =>
        /\ journal[o] = NoPlan
        /\ Sourced(plans[o]) /\ Progress(plans[o]) /\ plans[o].decision = "none"

JournalInv ==
    \A o \in Ops : journal[o] # NoPlan =>
        /\ Sourced(journal[o]) /\ Progress(journal[o])
        /\ journal[o].decision = "none" /\ journal[o].status # "preview"

\* A recovery starts from files that are as before the operation or as its target.
ChildInv ==
    \A o \in Ops : children[o] # NoPlan =>
        /\ journal[o] # NoPlan /\ Progress(children[o])
        /\ children[o].decision \in {"complete", "rollback"} /\ children[o].status # "preview"
        /\ children[o].target = IF children[o].decision = "complete" THEN journal[o].target ELSE journal[o].before
        /\ \A p \in Paths : Kind(children[o].before[p]) = "file" =>
              children[o].before[p] \in {journal[o].before[p], journal[o].target[p]}
        /\ IsOpen(journal[o]) /\ ~HasReceipt(o) => IsOpen(children[o])

\* A backup is the source of the step whose name it has, and its operation is not over.
BackupInv ==
    \A b \in backups :
        /\ IsOpen(journal[b.op]) /\ PlanOf(b) # NoPlan
        /\ b.step \in StepNumbers(PlanOf(b)) /\ b.path = StepsOf(PlanOf(b))[b.step].path

\* One operation at a time, and the last one.
PendingInv == \A o \in Ops : IsOpen(journal[o]) => o = user.last

\* An operation in the history took nothing from the user that the history does not have.
ReceiptInv ==
    \A o \in Ops : HasReceipt(o) =>
        /\ journal[o] # NoPlan /\ history.receipts[o] = 1
        /\ journal[o].before \in history.snapshots
        /\ journal[o].action = "candidate" => history.candidate.status = "applied"
        /\ children[o] # NoPlan => children[o].decision = "complete"

EndedInv ==
    \A o \in Ops : journal[o] # NoPlan =>
        /\ journal[o].status = "committed" => HasReceipt(o)
        /\ journal[o].status = "rolled_back" =>
              ~HasReceipt(o) /\ children[o] # NoPlan /\ children[o].decision = "rollback"

Stepping == {"skip", "start", "read", "move", "publish", "chmod", "mark"}

RollsBack == call.mode = "child" /\ children[call.op].decision = "rollback"

CallInv ==
    call # Idle =>
        /\ call.op \in Ops /\ IsOpen(journal[call.op])
        /\ call.mode \in {"apply", "child", "reconcile", "receipt"} /\ call.pc # "idle"
        /\ call.mode = "apply" => children[call.op] = NoPlan
        /\ call.mode = "child" => IsOpen(children[call.op])
        /\ call.mode = "reconcile" => ~IsOpen(children[call.op]) /\ call.pc \in {"commit", "rescan"}
        /\ call.mode = "receipt" => HasReceipt(call.op) /\ call.pc = "clean"
        /\ call.pc \in Stepping => call.mode \in {"apply", "child"} /\ ~HasReceipt(call.op)
        /\ call.pc \in Stepping \ {"skip", "start"} => Running.started \in StepNumbers(Running)
        /\ call.pc = "commit" => ~HasReceipt(call.op) /\ ~RollsBack
        /\ call.pc = "rescan" => call.mode = "reconcile" /\ HasReceipt(call.op)
        /\ call.pc = "clean" => HasReceipt(call.op) \/ RollsBack

\* What the files were found to be, and still are where nobody edited them.
Settled(t) == \A p \in Paths \ user.dirty : tree[p] = t[p]

FoundInv ==
    /\ \A o \in Ops : journal[o] # NoPlan /\ o = user.last /\ (journal[o].status # "open" \/ HasReceipt(o)) =>
          Settled(Goal(o))
    /\ call.pc = "commit" => Settled(journal[call.op].target)
    /\ call.pc = "clean" /\ RollsBack =>
          /\ Settled(journal[call.op].before)
          /\ \A p \in Paths : user.latest[p] = journal[call.op].before[p] /\ Kind(user.latest[p]) = "file" =>
                tree[p] = user.latest[p]

RestoreInv ==
    /\ RestoreTypeOK
    /\ HistoryInv /\ PreviewInv /\ JournalInv /\ ChildInv /\ BackupInv /\ PendingInv
    /\ ReceiptInv /\ EndedInv /\ CallInv /\ FoundInv
    /\ EditsSurvive

-----------------------------------------------------------------------------
(* The steps of a plan.                                                    *)

Step == [path : Paths, before : Entries, after : Entries]

\* Steps of the paths of S, each from what the path is in one tree to what it is in another.
IsMoveOf(steps, S, from, to) ==
    /\ steps \in Seq(Step)
    /\ \A i \in 1..Len(steps) :
          /\ steps[i].path \in S
          /\ steps[i].before = from[steps[i].path] /\ steps[i].after = to[steps[i].path]

LEMMA MoveOfNames ==
  ASSUME NEW S \in SUBSET Paths, NEW from \in Trees, NEW to \in Trees, NEW n \in Nat,
         NEW name, \A i \in 1..n : name[i] \in S,
         NEW steps, steps = [i \in 1..n |-> [path |-> name[i], before |-> from[name[i]], after |-> to[name[i]]]]
  PROVE  IsMoveOf(steps, S, from, to)
<1>1. ASSUME NEW i \in 1..n
      PROVE  steps[i] \in Step /\ steps[i].path = name[i] /\ steps[i].before = from[name[i]] /\ steps[i].after = to[name[i]]
  BY DEF Step, Trees
<1>2. steps \in Seq(Step) /\ Len(steps) = n
  BY <1>1
<1> QED BY <1>1, <1>2 DEF IsMoveOf

LEMMA InnerFirstMove ==
  ASSUME NEW S \in SUBSET Paths, NEW from \in Trees, NEW to \in Trees
  PROVE  IsMoveOf(InOrder(S, InnerFirst, from, to), S, from, to)
<1> DEFINE R == {pair \in S \X S : InnerFirst(pair[1], pair[2])}
           name(i) == CHOOSE p \in S : Cardinality({q \in S : InnerFirst(q, p)}) = i - 1
           names == [i \in 1..Cardinality(S) |-> name(i)]
<1>1. IsFiniteSet(S) /\ Cardinality(S) \in Nat
  BY RestoreAssumption, FS_Subset, FS_CardinalityType
<1>2. \A p, q \in S : <<p, q>> \in R <=> InnerFirst(p, q)
  OBVIOUS
<1>3. /\ \A p \in S : <<p, p>> \notin R
      /\ \A p, q \in S : p # q => <<p, q>> \in R \/ <<q, p>> \in R
      /\ \A p, q, r \in S : <<p, q>> \in R /\ <<q, r>> \in R => <<p, r>> \in R
  <2> HIDE DEF R
  <2> QED BY <1>2, RestoreAssumption DEF InnerFirst
<1>4. ASSUME NEW i \in 1..Cardinality(S) PROVE name(i) \in S
  <2>1. /\ \A k \in 1..Cardinality(S) : \E p \in S : Cardinality({q \in S : <<q, p>> \in R}) = k - 1
        /\ \A p \in S : Cardinality({q \in S : <<q, p>> \in R}) + 1 \in 1..Cardinality(S)
        /\ \A p, r \in S : Cardinality({q \in S : <<q, p>> \in R}) = Cardinality({q \in S : <<q, r>> \in R}) => p = r
    <3> HIDE DEF R
    <3> QED BY <1>1, <1>3, PlaceIsTaken
  <2>2. PICK p \in S : Cardinality({q \in S : <<q, p>> \in R}) = i - 1
    BY <2>1
  <2>3. {q \in S : <<q, p>> \in R} = {q \in S : InnerFirst(q, p)}
    OBVIOUS
  <2> QED BY <2>2, <2>3
<1>5. InOrder(S, InnerFirst, from, to) =
        [i \in 1..Cardinality(S) |-> [path |-> names[i], before |-> from[names[i]], after |-> to[names[i]]]]
  BY DEF InOrder
<1>6. \A i \in 1..Cardinality(S) : names[i] \in S
  BY <1>4
<1> HIDE DEF names
<1> QED BY <1>1, <1>5, <1>6, MoveOfNames

LEMMA OuterFirstMove ==
  ASSUME NEW S \in SUBSET Paths, NEW from \in Trees, NEW to \in Trees
  PROVE  IsMoveOf(InOrder(S, OuterFirst, from, to), S, from, to)
<1> DEFINE R == {pair \in S \X S : OuterFirst(pair[1], pair[2])}
           name(i) == CHOOSE p \in S : Cardinality({q \in S : OuterFirst(q, p)}) = i - 1
           names == [i \in 1..Cardinality(S) |-> name(i)]
<1>1. IsFiniteSet(S) /\ Cardinality(S) \in Nat
  BY RestoreAssumption, FS_Subset, FS_CardinalityType
<1>2. \A p, q \in S : <<p, q>> \in R <=> OuterFirst(p, q)
  OBVIOUS
<1>3. /\ \A p \in S : <<p, p>> \notin R
      /\ \A p, q \in S : p # q => <<p, q>> \in R \/ <<q, p>> \in R
      /\ \A p, q, r \in S : <<p, q>> \in R /\ <<q, r>> \in R => <<p, r>> \in R
  <2> HIDE DEF R
  <2> QED BY <1>2, RestoreAssumption DEF OuterFirst
<1>4. ASSUME NEW i \in 1..Cardinality(S) PROVE name(i) \in S
  <2>1. /\ \A k \in 1..Cardinality(S) : \E p \in S : Cardinality({q \in S : <<q, p>> \in R}) = k - 1
        /\ \A p \in S : Cardinality({q \in S : <<q, p>> \in R}) + 1 \in 1..Cardinality(S)
        /\ \A p, r \in S : Cardinality({q \in S : <<q, p>> \in R}) = Cardinality({q \in S : <<q, r>> \in R}) => p = r
    <3> HIDE DEF R
    <3> QED BY <1>1, <1>3, PlaceIsTaken
  <2>2. PICK p \in S : Cardinality({q \in S : <<q, p>> \in R}) = i - 1
    BY <2>1
  <2>3. {q \in S : <<q, p>> \in R} = {q \in S : OuterFirst(q, p)}
    OBVIOUS
  <2> QED BY <2>2, <2>3
<1>5. InOrder(S, OuterFirst, from, to) =
        [i \in 1..Cardinality(S) |-> [path |-> names[i], before |-> from[names[i]], after |-> to[names[i]]]]
  BY DEF InOrder
<1>6. \A i \in 1..Cardinality(S) : names[i] \in S
  BY <1>4
<1> HIDE DEF names
<1> QED BY <1>1, <1>5, <1>6, MoveOfNames

LEMMA ByNameMove ==
  ASSUME NEW S \in SUBSET Paths, NEW from \in Trees, NEW to \in Trees
  PROVE  IsMoveOf(InOrder(S, ByName, from, to), S, from, to)
<1> DEFINE R == {pair \in S \X S : ByName(pair[1], pair[2])}
           name(i) == CHOOSE p \in S : Cardinality({q \in S : ByName(q, p)}) = i - 1
           names == [i \in 1..Cardinality(S) |-> name(i)]
<1>1. IsFiniteSet(S) /\ Cardinality(S) \in Nat
  BY RestoreAssumption, FS_Subset, FS_CardinalityType
<1>2. \A p, q \in S : <<p, q>> \in R <=> ByName(p, q)
  OBVIOUS
<1>3. /\ \A p \in S : <<p, p>> \notin R
      /\ \A p, q \in S : p # q => <<p, q>> \in R \/ <<q, p>> \in R
      /\ \A p, q, r \in S : <<p, q>> \in R /\ <<q, r>> \in R => <<p, r>> \in R
  <2> HIDE DEF R
  <2> QED BY <1>2, RestoreAssumption DEF ByName
<1>4. ASSUME NEW i \in 1..Cardinality(S) PROVE name(i) \in S
  <2>1. /\ \A k \in 1..Cardinality(S) : \E p \in S : Cardinality({q \in S : <<q, p>> \in R}) = k - 1
        /\ \A p \in S : Cardinality({q \in S : <<q, p>> \in R}) + 1 \in 1..Cardinality(S)
        /\ \A p, r \in S : Cardinality({q \in S : <<q, p>> \in R}) = Cardinality({q \in S : <<q, r>> \in R}) => p = r
    <3> HIDE DEF R
    <3> QED BY <1>1, <1>3, PlaceIsTaken
  <2>2. PICK p \in S : Cardinality({q \in S : <<q, p>> \in R}) = i - 1
    BY <2>1
  <2>3. {q \in S : <<q, p>> \in R} = {q \in S : ByName(q, p)}
    OBVIOUS
  <2> QED BY <2>2, <2>3
<1>5. InOrder(S, ByName, from, to) =
        [i \in 1..Cardinality(S) |-> [path |-> names[i], before |-> from[names[i]], after |-> to[names[i]]]]
  BY DEF InOrder
<1>6. \A i \in 1..Cardinality(S) : names[i] \in S
  BY <1>4
<1> HIDE DEF names
<1> QED BY <1>1, <1>5, <1>6, MoveOfNames

\* Every step is of a managed path, and takes away what was there before and brings what is in the target.
IsPlanOf(steps, before, target) ==
    /\ steps \in Seq(Step)
    /\ \A i \in 1..Len(steps) :
          /\ steps[i].before \in {before[steps[i].path], Absent}
          /\ steps[i].after \in {target[steps[i].path], Absent}

LEMMA JoinedMoves ==
  ASSUME NEW before, NEW target, NEW s, NEW t, IsPlanOf(s, before, target), IsPlanOf(t, before, target)
  PROVE  IsPlanOf(s \o t, before, target)
<1>1. s \o t \in Seq(Step) /\ Len(s \o t) = Len(s) + Len(t)
  BY DEF IsPlanOf
<1>2. ASSUME NEW i \in 1..Len(s \o t)
      PROVE  /\ (s \o t)[i].before \in {before[(s \o t)[i].path], Absent}
             /\ (s \o t)[i].after \in {target[(s \o t)[i].path], Absent}
  <2>1. \/ i \in 1..Len(s) /\ (s \o t)[i] = s[i]
        \/ i - Len(s) \in 1..Len(t) /\ (s \o t)[i] = t[i - Len(s)]
    BY <1>1 DEF IsPlanOf
  <2> QED BY <2>1 DEF IsPlanOf
<1> QED BY <1>1, <1>2 DEF IsPlanOf

LEMMA MoveIsPlan ==
  ASSUME NEW before, NEW target, NEW S \in SUBSET Paths, NEW from, NEW to,
         \A p \in S : from[p] \in {before[p], Absent} /\ to[p] \in {target[p], Absent},
         NEW steps, IsMoveOf(steps, S, from, to)
  PROVE  IsPlanOf(steps, before, target)
  BY DEF IsMoveOf, IsPlanOf

LEMMA StepsArePlan ==
  ASSUME NEW before \in Trees, NEW target \in Trees
  PROVE  IsPlanOf(Steps(before, target), before, target)
<1> DEFINE changed == {p \in Paths : before[p] # target[p]}
           removed == {p \in changed : before[p] # Absent /\ Kind(before[p]) # Kind(target[p])}
           left == [p \in Paths |-> IF p \in removed THEN Absent ELSE before[p]]
           isDir == {p \in changed : Kind(target[p]) = "directory"}
           isNew == {p \in isDir : left[p] = Absent}
           isFile == {p \in changed : Kind(target[p]) = "file"}
           s1 == InOrder(removed, InnerFirst, before, left)
           s2 == InOrder(isNew, OuterFirst, left, target)
           s3 == InOrder(isFile, ByName, left, target)
           s4 == InOrder(isDir \ isNew, InnerFirst, left, target)
<1>1. Steps(before, target) = s1 \o s2 \o s3 \o s4
  BY DEF Steps
<1>2. /\ removed \subseteq Paths /\ isNew \subseteq Paths /\ isFile \subseteq Paths /\ (isDir \ isNew) \subseteq Paths
      /\ \A p \in Paths : left[p] \in {before[p], Absent}
      /\ \A p \in removed : left[p] = Absent
  OBVIOUS
<1>3. left \in Trees
  BY DEF Trees, Entries
<1> HIDE DEF removed, left, isNew, isFile, isDir
<1>4. IsMoveOf(s1, removed, before, left)
  BY <1>2, <1>3, InnerFirstMove
<1>5. IsMoveOf(s2, isNew, left, target)
  BY <1>2, <1>3, OuterFirstMove
<1>6. IsMoveOf(s3, isFile, left, target)
  BY <1>2, <1>3, ByNameMove
<1>7. IsMoveOf(s4, isDir \ isNew, left, target)
  BY <1>2, <1>3, InnerFirstMove
<1> HIDE DEF s1, s2, s3, s4
<1>8. IsPlanOf(s1, before, target) /\ IsPlanOf(s2, before, target) /\ IsPlanOf(s3, before, target)
      /\ IsPlanOf(s4, before, target)
  <2>1. IsPlanOf(s1, before, target)
    BY <1>2, <1>4, MoveIsPlan
  <2>2. IsPlanOf(s2, before, target)
    BY <1>2, <1>5, MoveIsPlan
  <2>3. IsPlanOf(s3, before, target)
    BY <1>2, <1>6, MoveIsPlan
  <2>4. IsPlanOf(s4, before, target)
    BY <1>2, <1>7, MoveIsPlan
  <2> QED BY <2>1, <2>2, <2>3, <2>4
<1>9. IsPlanOf(s1 \o s2 \o s3 \o s4, before, target)
  BY <1>8, JoinedMoves
<1> QED BY <1>1, <1>9

\* What a plan of the journal or of memory says of its steps.
LEMMA StepFacts ==
  ASSUME NEW planned \in Plan
  PROVE  /\ Len(StepsOf(planned)) \in Nat
         /\ \A i \in StepNumbers(planned) :
               /\ StepsOf(planned)[i] \in Step
               /\ StepsOf(planned)[i].before \in {planned.before[StepsOf(planned)[i].path], Absent}
               /\ StepsOf(planned)[i].after \in {planned.target[StepsOf(planned)[i].path], Absent}
<1>1. planned.before \in Trees /\ planned.target \in Trees
  BY DEF Plan
<1>2. IsPlanOf(StepsOf(planned), planned.before, planned.target)
  BY <1>1, StepsArePlan DEF StepsOf
<1> QED BY <1>2 DEF IsPlanOf, StepNumbers

-----------------------------------------------------------------------------
(* The invariant at the start.                                             *)

LEMMA RestoreInvHolds == RestoreInit => RestoreInv
<1> SUFFICES ASSUME RestoreInit PROVE RestoreInv
  OBVIOUS
<1>1. PICK t \in Projects, baseline \in Projects :
        /\ tree = t /\ backups = {}
        /\ history = [revision |-> 0, project |-> 0, head |-> baseline, snapshots |-> {baseline},
                      receipts |-> [o \in Ops |-> 0],
                      candidate |-> [status |-> "none", input |-> baseline, output |-> baseline, project |-> 0]]
        /\ user = [latest |-> t, dirty |-> {}, edited |-> FALSE, last |-> NoOp, edits |-> 0]
  BY DEF RestoreInit
<1>2. /\ plans = [o \in Ops |-> NoPlan] /\ journal = [o \in Ops |-> NoPlan] /\ children = [o \in Ops |-> NoPlan]
      /\ call = Idle /\ up = TRUE /\ faults = 0
  BY DEF RestoreInit
<1>3. t \in Trees /\ baseline \in Trees
  BY DEF Projects, Trees, Entries
<1>4. RestoreTypeOK
  <2>1. history \in History
    BY <1>1, <1>3 DEF History, Candidate
  <2>2. user \in UserState
    BY <1>1, <1>3 DEF UserState
  <2>3. call \in Call
    BY <1>2 DEF Call, Idle, Places, Entries
  <2> QED BY <1>1, <1>2, <1>3, <2>1, <2>2, <2>3 DEF RestoreTypeOK
<1>5. HistoryInv
  BY <1>1 DEF HistoryInv
<1>6. PreviewInv /\ JournalInv /\ ChildInv /\ PendingInv /\ EndedInv
  BY <1>2 DEF PreviewInv, JournalInv, ChildInv, PendingInv, EndedInv, IsOpen
<1>7. BackupInv
  BY <1>1 DEF BackupInv
<1>8. ReceiptInv
  BY <1>1 DEF ReceiptInv, HasReceipt
<1>9. CallInv
  BY <1>2 DEF CallInv
<1>10. FoundInv
  BY <1>2 DEF FoundInv, Idle
<1>11. EditsSurvive
  BY <1>1 DEF EditsSurvive
<1> QED BY <1>4, <1>5, <1>6, <1>7, <1>8, <1>9, <1>10, <1>11 DEF RestoreInv

-----------------------------------------------------------------------------
(* What the parts of the invariant rest on.                                *)

LEMMA RestoreFacts ==
  ASSUME RestoreInv
  PROVE  /\ tree \in Trees /\ backups \subseteq Backup
         /\ plans \in [Ops -> Plan \cup {NoPlan}] /\ journal \in [Ops -> Plan \cup {NoPlan}]
         /\ children \in [Ops -> Plan \cup {NoPlan}]
         /\ history \in History /\ call \in Call /\ up \in BOOLEAN /\ faults \in Nat /\ user \in UserState
BY DEF RestoreInv, RestoreTypeOK

\* A call that does something has an open operation, the last one, and a plan to execute.
LEMMA CallFacts ==
  ASSUME RestoreInv, call # Idle
  PROVE  /\ call \in Call /\ call.op \in Ops /\ call.op = user.last /\ call.op # NoOp
         /\ journal[call.op] \in Plan /\ journal[call.op] # NoPlan /\ journal[call.op].status = "open"
         /\ call.mode = "child" => children[call.op] \in Plan /\ children[call.op] # NoPlan /\ children[call.op].status = "open"
         /\ Running \in Plan /\ Running # NoPlan /\ Running.status = "open"
         /\ Running = IF call.mode = "child" THEN children[call.op] ELSE journal[call.op]
<1>1. CallInv /\ PendingInv /\ call \in Call
  BY DEF RestoreInv, RestoreTypeOK
<1>2. journal \in [Ops -> Plan \cup {NoPlan}] /\ children \in [Ops -> Plan \cup {NoPlan}]
  BY RestoreFacts
<1>3. call.op \in Ops /\ IsOpen(journal[call.op]) /\ (call.mode = "child" => IsOpen(children[call.op]))
  BY <1>1 DEF CallInv
<1>4. journal[call.op] \in Plan /\ journal[call.op] # NoPlan /\ journal[call.op].status = "open"
  BY <1>2, <1>3 DEF IsOpen
<1>5. call.mode = "child" => children[call.op] \in Plan /\ children[call.op] # NoPlan /\ children[call.op].status = "open"
  BY <1>2, <1>3 DEF IsOpen
<1>6. Running = IF call.mode = "child" THEN children[call.op] ELSE journal[call.op]
  BY DEF Running, Who
<1>7. call.op = user.last
  BY <1>1, <1>3 DEF PendingInv
<1> QED BY <1>1, <1>3, <1>4, <1>5, <1>6, <1>7, ValueAssumption

LEMMA WorkIsNotIdle ==
  ASSUME call.pc # "idle"
  PROVE  call # Idle
BY DEF Idle

\* The parts that only read the plans, the journals, the history and the last operation.
Static == HistoryInv /\ PreviewInv /\ JournalInv /\ ChildInv /\ PendingInv /\ ReceiptInv /\ EndedInv

LEMMA StaticUnchanged ==
  ASSUME RestoreInv, UNCHANGED <<plans, journal, children, history>>, user'.last = user.last
  PROVE  Static'
<1>1. Static
  BY DEF RestoreInv, Static
<1>2. HistoryInv'
  BY <1>1 DEF Static, HistoryInv
<1>3. PreviewInv'
  BY <1>1 DEF Static, PreviewInv, Sourced
<1>4. JournalInv'
  BY <1>1 DEF Static, JournalInv, Sourced
<1>5. ChildInv'
  BY <1>1 DEF Static, ChildInv, IsOpen, HasReceipt
<1>6. PendingInv'
  BY <1>1 DEF Static, PendingInv, IsOpen
<1>7. ReceiptInv'
  BY <1>1 DEF Static, ReceiptInv, HasReceipt
<1>8. EndedInv'
  BY <1>1 DEF Static, EndedInv, HasReceipt
<1> QED BY <1>2, <1>3, <1>4, <1>5, <1>6, <1>7, <1>8 DEF Static

LEMMA BackupsUnchanged ==
  ASSUME RestoreInv, UNCHANGED <<journal, children>>, backups' \subseteq backups
  PROVE  BackupInv'
BY DEF RestoreInv, BackupInv, PlanOf, IsOpen

\* An operation in progress has no end yet, nor a place in the history: of the files, nothing is claimed.
LEMMA NothingFound ==
  ASSUME RestoreInv, call.pc \in Stepping, UNCHANGED <<journal, history>>, user'.last = user.last,
         call'.pc \notin {"commit", "clean"}
  PROVE  FoundInv'
<1>1. call # Idle /\ CallInv
  BY WorkIsNotIdle DEF Stepping, RestoreInv
<1>2. ~HasReceipt(call.op) /\ journal[call.op].status = "open" /\ call.op = user.last
  BY <1>1, CallFacts DEF CallInv
<1>3. \A o \in Ops : o = user.last => journal[o].status = "open" /\ ~HasReceipt(o)
  BY <1>2
<1> QED BY <1>3 DEF FoundInv, HasReceipt

\* A call that goes on with its step, or gives up.
LEMMA CallGoesOn ==
  ASSUME RestoreInv, call.pc \in Stepping \ {"skip", "start"}, UNCHANGED <<journal, children, history>>,
         NEW pc \in Stepping, call' = Idle \/ call' = [call EXCEPT !.pc = pc]
  PROVE  CallInv' /\ call' \in Call /\ call'.pc \notin {"commit", "clean"}
<1>1. call # Idle /\ CallInv /\ call \in Call
  BY WorkIsNotIdle DEF Stepping, RestoreInv, RestoreTypeOK
<1>2. Idle \in Call
  BY DEF Call, Idle, Places, Entries
<1>3. CASE call' = Idle
  BY <1>2, <1>3 DEF CallInv, Idle
<1>4. CASE call' = [call EXCEPT !.pc = pc]
  <2>1. call' \in Call /\ call'.op = call.op /\ call'.mode = call.mode /\ call'.pc = pc
    BY <1>1, <1>4 DEF Call, Places, Stepping
  <2>2. call'.pc \notin {"commit", "clean", "rescan", "idle"} /\ call'.mode \in {"apply", "child"}
    BY <1>1, <2>1 DEF CallInv, Stepping
  <2>3. Running' = Running
    BY <2>1 DEF Running, Who
  <2>4. Running.started \in StepNumbers(Running)
    BY <1>1 DEF CallInv
  <2>5. CallInv'
    BY <1>1, <2>1, <2>2, <2>3, <2>4 DEF CallInv, IsOpen, HasReceipt, RollsBack, StepNumbers
  <2> QED BY <2>1, <2>2, <2>5
<1> QED BY <1>3, <1>4

\* A step of a call changes files and backups, and nothing is lost.
LEMMA FilesMove ==
  ASSUME RestoreInv, call.pc \in Stepping \ {"skip", "start"},
         UNCHANGED <<plans, journal, children, history, up, faults, user>>,
         NEW pc \in Stepping, call' = Idle \/ call' = [call EXCEPT !.pc = pc],
         tree' \in Trees, backups' \subseteq Backup, BackupInv', EditsSurvive'
  PROVE  RestoreInv'
<1>1. CallInv' /\ call' \in Call /\ call'.pc \notin {"commit", "clean"}
  BY CallGoesOn
<1>2. FoundInv'
  BY <1>1, NothingFound
<1>3. Static'
  BY StaticUnchanged
<1>4. RestoreTypeOK'
  BY <1>1, RestoreFacts DEF RestoreTypeOK
<1> QED BY <1>1, <1>2, <1>3, <1>4 DEF Static, RestoreInv

-----------------------------------------------------------------------------
(* The steps of a plan.                                                    *)

\* The step a call is at.
LEMMA CurrentFacts ==
  ASSUME RestoreInv, call.pc \in Stepping \ {"skip", "start"}
  PROVE  /\ Running \in Plan /\ Running.started \in StepNumbers(Running) /\ Current = StepsOf(Running)[Running.started]
         /\ Current \in Step /\ Current.path \in Paths /\ Current.before \in Entries /\ Current.after \in Entries
<1>1. call # Idle /\ CallInv
  BY WorkIsNotIdle DEF Stepping, RestoreInv
<1>2. Running \in Plan
  BY <1>1, CallFacts
<1>3. Running.started \in StepNumbers(Running)
  BY <1>1 DEF CallInv
<1>4. Current = StepsOf(Running)[Running.started]
  BY DEF Current
<1>5. Current \in Step
  BY <1>2, <1>3, <1>4, StepFacts
<1> QED BY <1>2, <1>3, <1>4, <1>5 DEF Step

\* The written plan differs in its progress only.
Advanced(planned, new) ==
    /\ new \in Plan /\ new # NoPlan /\ Progress(new)
    /\ new.before = planned.before /\ new.target = planned.target /\ new.manual = planned.manual /\ new.action = planned.action
    /\ new.status = planned.status /\ new.decision = planned.decision

LEMMA AdvancedPlan ==
  ASSUME NEW planned \in Plan, NEW i \in StepNumbers(planned), Progress(planned)
  PROVE  /\ Advanced(planned, [planned EXCEPT !.started = i]) /\ [planned EXCEPT !.started = i].started = i
         /\ StepsOf([planned EXCEPT !.started = i]) = StepsOf(planned)
         /\ Advanced(planned, [planned EXCEPT !.done = i]) /\ [planned EXCEPT !.done = i].started = planned.started
         /\ StepsOf([planned EXCEPT !.done = i]) = StepsOf(planned)
<1> DEFINE s == [planned EXCEPT !.started = i]
           d == [planned EXCEPT !.done = i]
<1>1. i \in Nat
  BY StepFacts DEF StepNumbers
<1>2. /\ s \in Plan /\ s.started = i /\ s.done = planned.done /\ s.before = planned.before /\ s.target = planned.target
      /\ s.manual = planned.manual /\ s.action = planned.action /\ s.status = planned.status /\ s.decision = planned.decision
  BY <1>1 DEF Plan
<1>3. /\ d \in Plan /\ d.done = i /\ d.started = planned.started /\ d.before = planned.before /\ d.target = planned.target
      /\ d.manual = planned.manual /\ d.action = planned.action /\ d.status = planned.status /\ d.decision = planned.decision
  BY <1>1 DEF Plan
<1> HIDE DEF s, d
<1>4. StepsOf(s) = StepsOf(planned) /\ StepsOf(d) = StepsOf(planned)
  BY <1>2, <1>3 DEF StepsOf
<1>5. Advanced(planned, s) /\ Advanced(planned, d)
  BY <1>2, <1>3, <1>4, ValueAssumption DEF Advanced, Progress, StepNumbers
<1>6. Advanced(planned, s) /\ s.started = i /\ StepsOf(s) = StepsOf(planned) /\ Advanced(planned, d) /\ d.started = planned.started
      /\ StepsOf(d) = StepsOf(planned)
  BY <1>2, <1>3, <1>4, <1>5
<1> QED BY <1>6 DEF s, d

\* The journal is written, in a step that leaves history, files and previews alone.
LEMMA JournalWritten ==
  ASSUME RestoreInv, call.pc \in Stepping, NEW planned, Advanced(Running, planned), Write(planned),
         UNCHANGED <<tree, backups, plans, history, up, faults, user>>,
         NEW pc \in Stepping, NEW e \in Entries, call' = [call EXCEPT !.pc = pc, !.expected = e],
         pc = "start" \/ planned.started \in StepNumbers(planned)
  PROVE  RestoreInv'
<1>1. call # Idle /\ CallInv /\ call \in Call
  BY WorkIsNotIdle DEF Stepping, RestoreInv, RestoreTypeOK
<1> DEFINE o == call.op
<1>2. PICK c : c = call
  OBVIOUS
<1>3. /\ c.op \in Ops /\ c.op = user.last /\ journal[c.op] \in Plan /\ journal[c.op] # NoPlan
      /\ journal[c.op].status = "open" /\ ~HasReceipt(c.op)
      /\ c.mode = "child" => children[c.op] \in Plan /\ children[c.op] # NoPlan /\ children[c.op].status = "open"
      /\ c.mode \in {"apply", "child"} /\ Running = (IF c.mode = "child" THEN children[c.op] ELSE journal[c.op])
  BY <1>1, <1>2, CallFacts DEF CallInv
<1>4. journal \in [Ops -> Plan \cup {NoPlan}] /\ children \in [Ops -> Plan \cup {NoPlan}]
  BY RestoreFacts
<1>5. /\ c.mode = "child" => children' = [children EXCEPT ![c.op] = planned] /\ journal' = journal
      /\ c.mode # "child" => journal' = [journal EXCEPT ![c.op] = planned] /\ children' = children
  BY <1>2 DEF Write, Who
<1>6. /\ \A q \in Ops : journal'[q] = journal[q] \/ (journal[q] # NoPlan /\ Advanced(journal[q], journal'[q]))
      /\ \A q \in Ops : children'[q] = children[q] \/ (children[q] # NoPlan /\ Advanced(children[q], children'[q]))
      /\ journal' \in [Ops -> Plan \cup {NoPlan}] /\ children' \in [Ops -> Plan \cup {NoPlan}]
  <2>1. planned \in Plan
    BY DEF Advanced
  <2>2. CASE c.mode = "child"
    BY <1>3, <1>4, <1>5, <2>1, <2>2
  <2>3. CASE c.mode # "child"
    BY <1>3, <1>4, <1>5, <2>1, <2>3
  <2> QED BY <2>2, <2>3
<1>7. call' \in Call /\ call'.op = c.op /\ call'.mode = c.mode /\ call'.pc = pc
  BY <1>1, <1>2 DEF Call, Places, Stepping
<1>8. Running' = planned
  <2>1. Running' = IF c.mode = "child" THEN children'[c.op] ELSE journal'[c.op]
    BY <1>7 DEF Running, Who
  <2> QED BY <1>3, <1>4, <1>5, <2>1
<1>9. \A q \in Ops : /\ journal'[q] = NoPlan <=> journal[q] = NoPlan
                     /\ children'[q] = NoPlan <=> children[q] = NoPlan
                     /\ IsOpen(journal'[q]) <=> IsOpen(journal[q])
                     /\ IsOpen(children'[q]) <=> IsOpen(children[q])
  BY <1>6 DEF Advanced, IsOpen
<1>10. RestoreTypeOK'
  BY <1>6, <1>7, RestoreFacts DEF RestoreTypeOK
<1>11. HistoryInv'
  BY DEF RestoreInv, HistoryInv
<1>12. PreviewInv'
  BY <1>9 DEF RestoreInv, PreviewInv, Sourced
<1>13. JournalInv'
  BY <1>6, <1>9 DEF RestoreInv, JournalInv, Sourced, Advanced
<1>14. ChildInv'
  <2>1. ASSUME NEW q \in Ops, children'[q] # NoPlan
        PROVE  /\ journal'[q] # NoPlan /\ Progress(children'[q])
               /\ children'[q].decision = children[q].decision /\ children'[q].status = children[q].status
               /\ children'[q].target = children[q].target /\ children'[q].before = children[q].before
               /\ journal'[q].target = journal[q].target /\ journal'[q].before = journal[q].before
    BY <1>6, <1>9, <2>1 DEF RestoreInv, ChildInv, Advanced
  <2>2. \A q \in Ops : HasReceipt(q)' = HasReceipt(q)
    BY DEF HasReceipt
  <2>3. ASSUME NEW q \in Ops, children'[q] # NoPlan
        PROVE  IsOpen(journal'[q]) /\ ~HasReceipt(q)' => IsOpen(children'[q])
    BY <1>9, <2>2, <2>3 DEF RestoreInv, ChildInv
  <2>4. ASSUME NEW q \in Ops, children'[q] # NoPlan
        PROVE  /\ children'[q].decision \in {"complete", "rollback"} /\ children'[q].status # "preview"
               /\ children'[q].target = IF children'[q].decision = "complete" THEN journal'[q].target ELSE journal'[q].before
               /\ \A p \in Paths : Kind(children'[q].before[p]) = "file" =>
                     children'[q].before[p] \in {journal'[q].before[p], journal'[q].target[p]}
    BY <1>9, <2>1, <2>4 DEF RestoreInv, ChildInv
  <2> QED BY <2>1, <2>3, <2>4 DEF ChildInv
<1>15. BackupInv'
  <2>1. \A b \in backups : b.op \in Ops
    BY RestoreFacts DEF Backup
  <2>2. ASSUME NEW b \in backups
        PROVE  /\ IsOpen(journal'[b.op]) /\ PlanOf(b)' # NoPlan /\ StepsOf(PlanOf(b)') = StepsOf(PlanOf(b))
    <3>1. IsOpen(journal[b.op]) /\ PlanOf(b) # NoPlan
      BY DEF RestoreInv, BackupInv
    <3>2. PlanOf(b)' = PlanOf(b) \/ Advanced(PlanOf(b), PlanOf(b)')
      BY <1>6, <2>1 DEF PlanOf
    <3> QED BY <1>9, <2>1, <3>1, <3>2 DEF Advanced, StepsOf
  <2>3. ASSUME NEW b \in backups
        PROVE  b.step \in StepNumbers(PlanOf(b)') /\ b.path = StepsOf(PlanOf(b)')[b.step].path
    BY <2>2 DEF RestoreInv, BackupInv, StepNumbers
  <2> QED BY <2>2, <2>3 DEF BackupInv, StepNumbers
<1>16. PendingInv'
  BY <1>9 DEF RestoreInv, PendingInv
<1>17. ReceiptInv'
  BY <1>6, <1>9 DEF RestoreInv, ReceiptInv, HasReceipt, Advanced
<1>18. EndedInv'
  BY <1>6, <1>9 DEF RestoreInv, EndedInv, HasReceipt, Advanced
<1>19. CallInv'
  <2>1. call' # Idle /\ call'.pc \in Stepping /\ call'.mode \in {"apply", "child"}
    BY <1>3, <1>7 DEF Idle, Stepping
  <2>2. IsOpen(journal'[c.op]) /\ ~HasReceipt(c.op)' /\ (c.mode = "child" => IsOpen(children'[c.op]))
        /\ (c.mode = "apply" => children'[c.op] = NoPlan)
    BY <1>1, <1>2, <1>3, <1>9 DEF HasReceipt, CallInv
  <2>3. pc # "start" => Running'.started \in StepNumbers(Running')
    BY <1>8
  <2> QED BY <1>3, <1>7, <2>1, <2>2, <2>3 DEF CallInv, Stepping, StepNumbers
<1>20. FoundInv'
  <2>1. \A q \in Ops : q = user.last => journal'[q].status = "open" /\ ~HasReceipt(q)'
    BY <1>3, <1>9 DEF IsOpen, HasReceipt
  <2> QED BY <1>7, <2>1 DEF FoundInv, Stepping
<1>21. EditsSurvive'
  BY DEF RestoreInv, EditsSurvive
<1> QED BY <1>10, <1>11, <1>12, <1>13, <1>14, <1>15, <1>16, <1>17, <1>18, <1>19, <1>20, <1>21 DEF RestoreInv

LEMMA SkipDoneKeeps == ASSUME RestoreInv, SkipDone PROVE RestoreInv'
<1>1. /\ call.pc = "skip" /\ UNCHANGED <<tree, backups, plans, journal, children, history, up, faults, user>>
      /\ call' = Idle \/ call' = [call EXCEPT !.pc = "start"]
  BY DEF SkipDone, Raise, Goto
<1>2. call # Idle /\ CallInv /\ call \in Call /\ call.pc \in Stepping
  BY <1>1, WorkIsNotIdle DEF Stepping, RestoreInv, RestoreTypeOK
<1>3. CallInv' /\ call' \in Call /\ call'.pc \notin {"commit", "clean"}
  <2>1. CASE call' = Idle
    BY <2>1 DEF CallInv, Call, Idle, Places, Entries
  <2>2. CASE call' = [call EXCEPT !.pc = "start"]
    <3>1. call' \in Call /\ call'.op = call.op /\ call'.mode = call.mode /\ call'.pc = "start"
      BY <1>2, <2>2 DEF Call, Places
    <3>2. call.mode \in {"apply", "child"} /\ ~HasReceipt(call.op)
      BY <1>2 DEF CallInv
    <3> QED BY <1>1, <1>2, <3>1, <3>2 DEF CallInv, Stepping, IsOpen, HasReceipt
  <2> QED BY <1>1, <2>1, <2>2
<1>4. Static'
  BY <1>1, StaticUnchanged
<1>5. FoundInv'
  BY <1>1, <1>2, <1>3, NothingFound
<1>6. RestoreTypeOK'
  BY <1>1, <1>3, RestoreFacts DEF RestoreTypeOK
<1>7. BackupInv'
  BY <1>1, BackupsUnchanged
<1>8. EditsSurvive'
  <2>1. EditsSurvive
    BY Zenon DEF RestoreInv
  <2> QED BY <1>1, <2>1, Zenon DEF EditsSurvive
<1> QED BY <1>3, <1>4, <1>5, <1>6, <1>7, <1>8 DEF Static, RestoreInv

LEMMA StartStepKeeps == ASSUME RestoreInv, StartStep PROVE RestoreInv'
<1>1. call.pc = "start" /\ ~AllDone /\ UNCHANGED <<tree, backups, plans, history, up, faults, user>>
  BY DEF StartStep
<1>2. call # Idle /\ CallInv /\ call \in Call /\ call.pc \in Stepping
  BY <1>1, WorkIsNotIdle DEF Stepping, RestoreInv, RestoreTypeOK
<1>3. Running \in Plan /\ Progress(Running)
  BY <1>2, CallFacts DEF RestoreInv, JournalInv, ChildInv
<1> DEFINE i == Running.done + 1
           s == StepsOf(Running)[i]
<1>4. i \in StepNumbers(Running)
  <2>1. Len(StepsOf(Running)) \in Nat
    BY <1>3, StepFacts
  <2> QED BY <1>1, <1>3, <2>1 DEF AllDone, Progress, StepNumbers
<1>5. s \in Step /\ s.before \in Entries /\ s.path \in Paths
  BY <1>3, <1>4, StepFacts DEF Step
<1>6. tree[s.path] \in Entries
  BY <1>5, RestoreFacts DEF Trees
<1> HIDE DEF i
<1>7. CASE Write([Running EXCEPT !.started = i])
           /\ \E e \in Entries : call' = [call EXCEPT !.pc = "read", !.expected = e]
  <2>1. /\ Advanced(Running, [Running EXCEPT !.started = i]) /\ [Running EXCEPT !.started = i].started = i
        /\ StepsOf([Running EXCEPT !.started = i]) = StepsOf(Running)
    BY <1>3, <1>4, AdvancedPlan
  <2>2. [Running EXCEPT !.started = i].started \in StepNumbers([Running EXCEPT !.started = i])
    BY <1>4, <2>1 DEF StepNumbers
  <2>3. "read" \in Stepping
    BY DEF Stepping
  <2> QED BY <1>1, <1>2, <1>7, <2>1, <2>2, <2>3, JournalWritten
<1>8. CASE Write([Running EXCEPT !.done = i]) /\ UNCHANGED call
  <2>1. Advanced(Running, [Running EXCEPT !.done = i])
    BY <1>3, <1>4, AdvancedPlan
  <2>2. call' = [call EXCEPT !.pc = "start", !.expected = call.expected] /\ call.expected \in Entries
    BY <1>1, <1>2, <1>8 DEF Call
  <2>3. "start" \in Stepping
    BY DEF Stepping
  <2> QED BY <1>1, <1>2, <1>8, <2>1, <2>2, <2>3, JournalWritten
<1>9. CASE Raise /\ UNCHANGED <<journal, children>>
  <2>1. Static'
    BY <1>1, <1>9, StaticUnchanged
  <2>2. call' = Idle /\ CallInv' /\ call' \in Call /\ call'.pc \notin {"commit", "clean"}
    BY <1>9 DEF Raise, CallInv, Call, Idle, Places, Entries
  <2>3. FoundInv'
    BY <1>1, <1>2, <1>9, <2>2, NothingFound
  <2>4. RestoreTypeOK'
    BY <1>1, <1>9, <2>2, RestoreFacts DEF RestoreTypeOK
  <2>5. BackupInv'
    BY <1>1, <1>9, BackupsUnchanged
  <2>6. EditsSurvive'
    <3>1. EditsSurvive
      BY Zenon DEF RestoreInv
    <3> QED BY <1>1, <3>1, Zenon DEF EditsSurvive
  <2> QED BY <2>1, <2>2, <2>3, <2>4, <2>5, <2>6 DEF Static, RestoreInv
<1>10. \/ Write([Running EXCEPT !.started = i]) /\ \E e \in Entries : call' = [call EXCEPT !.pc = "read", !.expected = e]
       \/ Write([Running EXCEPT !.done = i]) /\ UNCHANGED call
       \/ Raise /\ UNCHANGED <<journal, children>>
  BY <1>5, <1>6 DEF StartStep, i
<1> QED BY <1>7, <1>8, <1>9, <1>10

LEMMA MarkStepKeeps == ASSUME RestoreInv, MarkStep PROVE RestoreInv'
<1>1. /\ call.pc = "mark" /\ Write([Running EXCEPT !.done = Running.started])
      /\ call' = [call EXCEPT !.pc = "start"] /\ UNCHANGED <<tree, backups, plans, history, up, faults, user>>
  BY DEF MarkStep, Goto
<1>2. call.pc \in Stepping \ {"skip", "start"} /\ call # Idle /\ call \in Call
  BY <1>1, WorkIsNotIdle DEF Stepping, RestoreInv, RestoreTypeOK
<1>3. Running \in Plan /\ Running.started \in StepNumbers(Running)
  BY <1>2, CurrentFacts
<1>4. Progress(Running)
  BY <1>2, CallFacts DEF RestoreInv, JournalInv, ChildInv
<1>5. Advanced(Running, [Running EXCEPT !.done = Running.started])
  BY <1>3, <1>4, AdvancedPlan
<1>6. call' = [call EXCEPT !.pc = "start", !.expected = call.expected] /\ call.expected \in Entries /\ "start" \in Stepping
  BY <1>1, <1>2 DEF Call, Stepping
<1> QED BY <1>1, <1>2, <1>5, <1>6, JournalWritten

-----------------------------------------------------------------------------
(* The files.                                                              *)

LEMMA FilesStay ==
  ASSUME RestoreInv, call.pc \in Stepping \ {"skip", "start"},
         UNCHANGED <<tree, backups, plans, journal, children, history, up, faults, user>>,
         NEW pc \in Stepping, call' = Idle \/ call' = [call EXCEPT !.pc = pc]
  PROVE  RestoreInv'
<1>1. BackupInv'
  BY BackupsUnchanged
<1>2. EditsSurvive'
  BY DEF RestoreInv, EditsSurvive
<1>3. tree' \in Trees /\ backups' \subseteq Backup
  BY RestoreFacts
<1> QED BY <1>1, <1>2, <1>3, FilesMove

LEMMA ReadStepKeeps == ASSUME RestoreInv, ReadStep PROVE RestoreInv'
<1>1. call.pc \in Stepping \ {"skip", "start"} /\ {"publish", "move"} \subseteq Stepping
  BY DEF ReadStep, Stepping
<1>2. call' = Idle \/ call' = [call EXCEPT !.pc = "publish"] \/ call' = [call EXCEPT !.pc = "move"]
  BY DEF ReadStep, Raise, Goto
<1>3. UNCHANGED <<tree, backups, plans, journal, children, history, up, faults, user>>
  BY DEF ReadStep
<1> QED BY <1>1, <1>2, <1>3, FilesStay

\* A path is changed that is no file: nothing of a user is there.
LEMMA NoFileIsReplaced ==
  ASSUME RestoreInv, call.pc \in Stepping \ {"skip", "start"},
         UNCHANGED <<backups, plans, journal, children, history, up, faults, user>>,
         NEW pc \in Stepping, call' = Idle \/ call' = [call EXCEPT !.pc = pc],
         NEW e \in Entries, tree' = [tree EXCEPT ![Current.path] = e], Kind(tree[Current.path]) # "file"
  PROVE  RestoreInv'
<1>1. BackupInv'
  BY BackupsUnchanged
<1>2. Current.path \in Paths /\ tree \in Trees
  BY CurrentFacts, RestoreFacts
<1>3. tree' \in Trees
  BY <1>2 DEF Trees
<1>4. \A p \in Paths : tree'[p] = tree[p] \/ Kind(tree[p]) # "file"
  BY <1>2 DEF Trees
<1>5. EditsSurvive'
  BY <1>4 DEF RestoreInv, EditsSurvive
<1>6. backups' \subseteq Backup
  BY RestoreFacts
<1> QED BY <1>1, <1>3, <1>5, <1>6, FilesMove

LEMMA MoveFileKeeps == ASSUME RestoreInv, MoveFile PROVE RestoreInv'
<1>1. call.pc \in Stepping \ {"skip", "start"} /\ {"mark", "publish"} \subseteq Stepping
  BY DEF MoveFile, Stepping
<1>2. UNCHANGED <<plans, journal, children, history, up, faults, user>>
  BY DEF MoveFile
<1>3. CASE tree[Current.path] = Absent \/ NameTaken
  BY <1>1, <1>2, <1>3, FilesStay DEF MoveFile, Raise
<1>4. CASE ~(tree[Current.path] = Absent \/ NameTaken)
  <2>1. backups' = backups \cup {Moved} /\ tree' = [tree EXCEPT ![Current.path] = Absent]
    BY <1>4 DEF MoveFile, At
  <2>2. call' = Idle \/ call' = [call EXCEPT !.pc = "mark"] \/ call' = [call EXCEPT !.pc = "publish"]
    BY <1>4 DEF MoveFile, Raise, Goto, AfterMove
  <2>3. PICK m : m = Moved
    OBVIOUS
  <2>4. Current.path \in Paths /\ tree \in Trees /\ backups \subseteq Backup
    BY <1>1, CurrentFacts, RestoreFacts
  <2>5. Running \in Plan /\ Running.started \in StepNumbers(Running) /\ Current = StepsOf(Running)[Running.started]
    BY <1>1, CurrentFacts
  <2>6. call # Idle /\ call.op \in Ops
    BY <1>1, WorkIsNotIdle, CallFacts DEF Stepping
  <2>7. /\ m.op = call.op /\ m.who = Who /\ m.step = Running.started /\ m.path = Current.path
        /\ m.file = tree[Current.path]
    BY <2>3 DEF Moved
  <2>8. m \in Backup
    <3>1. Running.started \in Nat /\ Who \in {"main", "child"} /\ tree[Current.path] \in Entries
      BY <2>4, <2>5 DEF Plan, Who, Trees
    <3> QED BY <2>3, <2>4, <2>6, <3>1 DEF Backup, Moved
  <2>9. PlanOf(m) = Running /\ IsOpen(journal[m.op]) /\ PlanOf(m) # NoPlan
    <3>1. PlanOf(m) = Running
      BY <2>7 DEF PlanOf, Running, Who
    <3> QED BY <2>6, <2>7, <3>1, CallFacts DEF IsOpen
  <2>10. BackupInv'
    <3>1. \A b \in backups \cup {m} :
             /\ IsOpen(journal[b.op]) /\ PlanOf(b) # NoPlan
             /\ b.step \in StepNumbers(PlanOf(b)) /\ b.path = StepsOf(PlanOf(b))[b.step].path
      BY <2>5, <2>7, <2>9 DEF RestoreInv, BackupInv
    <3>2. backups' = backups \cup {m}
      BY <2>1, <2>3
    <3> QED BY <1>2, <3>1, <3>2 DEF BackupInv, PlanOf, IsOpen
  <2>11. EditsSurvive'
    <3>1. \A p \in Paths : tree'[p] = tree[p] \/ (p = m.path /\ tree[p] = m.file)
      BY <2>1, <2>4, <2>7 DEF Trees
    <3>2. m \in backups'
      BY <2>1, <2>3
    <3> QED BY <1>2, <2>1, <3>1, <3>2 DEF RestoreInv, EditsSurvive
  <2>12. tree' \in Trees /\ backups' \subseteq Backup
    BY <2>1, <2>3, <2>4, <2>8 DEF Trees, Entries
  <2> QED BY <1>1, <1>2, <2>2, <2>10, <2>11, <2>12, FilesMove
<1> QED BY <1>3, <1>4

LEMMA MoveDirKeeps == ASSUME RestoreInv, MoveDir PROVE RestoreInv'
<1>1. call.pc \in Stepping \ {"skip", "start"} /\ "mark" \in Stepping
  BY DEF MoveDir, Stepping
<1>2. UNCHANGED <<backups, plans, journal, children, history, up, faults, user>>
  BY DEF MoveDir
<1>3. \/ call' = Idle /\ UNCHANGED tree
      \/ /\ Kind(tree[Current.path]) = "directory" /\ call' = [call EXCEPT !.pc = "mark"]
         /\ tree' = [tree EXCEPT ![Current.path] = Current.after]
  BY DEF MoveDir, Raise, Goto, At
<1>4. Current.after \in Entries
  BY <1>1, CurrentFacts
<1>5. CASE call' = Idle /\ UNCHANGED tree
  BY <1>1, <1>2, <1>5, FilesStay
<1>6. CASE /\ Kind(tree[Current.path]) = "directory" /\ call' = [call EXCEPT !.pc = "mark"]
           /\ tree' = [tree EXCEPT ![Current.path] = Current.after]
  <2>1. Kind(tree[Current.path]) # "file"
    BY <1>6
  <2> QED BY <1>1, <1>2, <1>4, <1>6, <2>1, NoFileIsReplaced
<1> QED BY <1>3, <1>5, <1>6

LEMMA PublishKeeps == ASSUME RestoreInv, Publish PROVE RestoreInv'
<1>1. call.pc \in Stepping \ {"skip", "start"} /\ {"mark", "chmod"} \subseteq Stepping
  BY DEF Publish, Stepping
<1>2. UNCHANGED <<backups, plans, journal, children, history, up, faults, user>>
  BY DEF Publish
<1>3. \/ call' = Idle /\ UNCHANGED tree
      \/ /\ tree[Current.path] = Absent /\ call' = [call EXCEPT !.pc = "mark"]
         /\ tree' = [tree EXCEPT ![Current.path] = Current.after]
      \/ /\ tree[Current.path] = Absent /\ call' = [call EXCEPT !.pc = "chmod"]
         /\ tree' = [tree EXCEPT ![Current.path] = Private]
  BY DEF Publish, Raise, Goto, At
<1>4. Current.after \in Entries /\ Private \in Entries
  BY <1>1, CurrentFacts DEF Entries
<1>5. tree[Current.path] = Absent => Kind(tree[Current.path]) # "file"
  BY DEF Kind
<1>6. CASE call' = Idle /\ UNCHANGED tree
  BY <1>1, <1>2, <1>6, FilesStay
<1>7. CASE /\ tree[Current.path] = Absent /\ call' = [call EXCEPT !.pc = "mark"]
           /\ tree' = [tree EXCEPT ![Current.path] = Current.after]
  BY <1>1, <1>2, <1>4, <1>5, <1>7, NoFileIsReplaced
<1>8. CASE /\ tree[Current.path] = Absent /\ call' = [call EXCEPT !.pc = "chmod"]
           /\ tree' = [tree EXCEPT ![Current.path] = Private]
  BY <1>1, <1>2, <1>4, <1>5, <1>8, NoFileIsReplaced
<1> QED BY <1>3, <1>6, <1>7, <1>8

LEMMA ChmodKeeps == ASSUME RestoreInv, Chmod PROVE RestoreInv'
<1>1. call.pc \in Stepping \ {"skip", "start"} /\ "mark" \in Stepping
  BY DEF Chmod, Stepping
<1>2. UNCHANGED <<backups, plans, journal, children, history, up, faults, user>>
  BY DEF Chmod
<1>3. \/ call' = Idle /\ UNCHANGED tree
      \/ /\ Kind(tree[Current.path]) = "directory" /\ call' = [call EXCEPT !.pc = "mark"]
         /\ tree' = [tree EXCEPT ![Current.path] = Current.after]
  BY DEF Chmod, Raise, Goto, At
<1>4. Current.after \in Entries
  BY <1>1, CurrentFacts
<1>5. CASE call' = Idle /\ UNCHANGED tree
  BY <1>1, <1>2, <1>5, FilesStay
<1>6. CASE /\ Kind(tree[Current.path]) = "directory" /\ call' = [call EXCEPT !.pc = "mark"]
           /\ tree' = [tree EXCEPT ![Current.path] = Current.after]
  <2>1. Kind(tree[Current.path]) # "file"
    BY <1>6
  <2> QED BY <1>1, <1>2, <1>4, <1>6, <2>1, NoFileIsReplaced
<1> QED BY <1>3, <1>5, <1>6

-----------------------------------------------------------------------------
(* The end of a plan.                                                      *)

LEMMA ScanKeeps == ASSUME RestoreInv, Scan PROVE RestoreInv'
<1>1. /\ call.pc = "start" /\ UNCHANGED <<tree, backups, plans, journal, children, history, up, faults>>
      /\ \/ call' = Idle /\ UNCHANGED user
         \/ /\ tree = Running.target /\ call' = [call EXCEPT !.pc = AfterScan]
            /\ user' = [user EXCEPT !.dirty = {}]
  BY DEF Scan, Goto, Raise, Scanned
<1>2. call # Idle /\ CallInv /\ call \in Call /\ user \in UserState /\ call.pc \in Stepping
  BY <1>1, WorkIsNotIdle DEF Stepping, RestoreInv, RestoreTypeOK
<1>3. user' \in UserState /\ user'.last = user.last /\ user'.latest = user.latest
  BY <1>1, <1>2 DEF UserState
<1>4. Static'
  BY <1>1, <1>3, StaticUnchanged
<1>5. BackupInv'
  BY <1>1, BackupsUnchanged
<1>6. EditsSurvive'
  BY <1>1, <1>3 DEF RestoreInv, EditsSurvive
<1>7. Idle \in Call
  BY DEF Call, Idle, Places, Entries
<1>8. CASE call' = Idle
  <2>1. FoundInv'
    BY <1>1, <1>2, <1>3, <1>8, NothingFound DEF Idle
  <2>2. CallInv'
    BY <1>8 DEF CallInv
  <2>3. RestoreTypeOK'
    BY <1>1, <1>3, <1>7, <1>8, RestoreFacts DEF RestoreTypeOK
  <2> QED BY <1>4, <1>5, <1>6, <2>1, <2>2, <2>3 DEF Static, RestoreInv
<1>9. CASE /\ tree = Running.target /\ call' = [call EXCEPT !.pc = AfterScan]
           /\ user' = [user EXCEPT !.dirty = {}]
  <2>1. /\ call.op \in Ops /\ journal[call.op].status = "open" /\ ~HasReceipt(call.op) /\ call.op = user.last
        /\ journal[call.op].decision = "none" /\ call.mode \in {"apply", "child"}
        /\ Running = IF call.mode = "child" THEN children[call.op] ELSE journal[call.op]
    BY <1>2, CallFacts DEF CallInv, RestoreInv, JournalInv
  <2>2. /\ Running.decision = "rollback" <=> RollsBack
        /\ AfterScan = IF RollsBack THEN "clean" ELSE "commit"
    BY <2>1 DEF AfterScan, RollsBack
  <2>3. call.mode = "child" => children[call.op] # NoPlan
    BY <1>2, CallFacts
  <2>4. Running.target = IF RollsBack THEN journal[call.op].before ELSE journal[call.op].target
    BY <2>1, <2>3 DEF RestoreInv, ChildInv, RollsBack
  <2>5. call' \in Call /\ call'.op = call.op /\ call'.mode = call.mode /\ call'.pc = AfterScan
    BY <1>2, <1>9, <2>2 DEF Call, Places
  <2>6. RollsBack' <=> RollsBack
    BY <1>1, <2>5 DEF RollsBack
  <2>7. CallInv'
    BY <1>1, <1>2, <2>1, <2>2, <2>5, <2>6 DEF CallInv, Stepping, HasReceipt, IsOpen
  <2>8. FoundInv'
    <3>1. \A q \in Ops : q = user.last => journal[q].status = "open" /\ ~HasReceipt(q)
      BY <2>1
    <3>2. \A p \in Paths : tree'[p] = Running.target[p]
      BY <1>1, <1>9
    <3>3. user'.dirty = {}
      BY <1>2, <1>9 DEF UserState
    <3>4. \A q \in Ops : ~(journal'[q] # NoPlan /\ q = user'.last /\ (journal'[q].status # "open" \/ HasReceipt(q)'))
      BY <1>1, <1>3, <3>1 DEF HasReceipt
    <3>5. call'.pc = "commit" => Settled(journal[call.op].target)'
      BY <1>1, <2>2, <2>4, <2>5, <3>2 DEF Settled
    <3>6. RollsBack' => /\ Settled(journal[call.op].before)'
                        /\ \A p \in Paths : tree'[p] = journal[call.op].before[p]
      BY <1>1, <2>4, <2>5, <2>6, <3>2 DEF Settled
    <3> QED BY <1>1, <2>5, <3>4, <3>5, <3>6 DEF FoundInv, Settled, HasReceipt
  <2>9. RestoreTypeOK'
    BY <1>1, <1>3, <2>5, RestoreFacts DEF RestoreTypeOK
  <2> QED BY <1>4, <1>5, <1>6, <2>7, <2>8, <2>9 DEF Static, RestoreInv
<1> QED BY <1>1, <1>8, <1>9

\* Nothing but the call changes, and it is given up.
LEMMA GiveUp ==
  ASSUME RestoreInv, call' = Idle,
         UNCHANGED <<tree, backups, plans, journal, children, history, up, user>>, faults' \in Nat
  PROVE  RestoreInv'
<1>1. Static'
  BY StaticUnchanged
<1>2. BackupInv'
  BY BackupsUnchanged
<1>3. EditsSurvive'
  BY DEF RestoreInv, EditsSurvive
<1>4. call' \in Call /\ CallInv'
  BY DEF Call, Idle, Places, Entries, CallInv
<1>5. FoundInv'
  <2>1. FoundInv /\ call'.pc = "idle"
    BY DEF RestoreInv, Idle
  <2> QED BY <2>1 DEF FoundInv, Settled, Goal, HasReceipt
<1>6. RestoreTypeOK'
  BY <1>4, RestoreFacts DEF RestoreTypeOK
<1> QED BY <1>1, <1>2, <1>3, <1>4, <1>5, <1>6 DEF Static, RestoreInv

LEMMA CommitKeeps == ASSUME RestoreInv, Commit PROVE RestoreInv'
<1>1. call.pc = "commit" /\ UNCHANGED <<tree, backups, plans, journal, children, up, faults, user>>
  BY DEF Commit
<1>2. CASE ~MayCommit(journal[call.op])
  BY <1>1, <1>2, GiveUp, RestoreFacts DEF Commit, Raise
<1>3. CASE MayCommit(journal[call.op])
  <2>1. PICK c : c = call
    OBVIOUS
  <2>2. CallInv /\ c # Idle /\ c \in Call /\ FoundInv /\ history \in History
    BY <1>1, <2>1, WorkIsNotIdle DEF RestoreInv, RestoreTypeOK
  <2> DEFINE o == c.op
             planned == journal[o]
             next == IF c.mode = "reconcile" THEN "rescan" ELSE "clean"
  <2>3. /\ o \in Ops /\ o = user.last /\ planned \in Plan /\ planned # NoPlan /\ planned.status = "open"
        /\ ~HasReceipt(o) /\ ~RollsBack /\ Settled(planned.target)
        /\ c.mode \in {"apply", "child", "reconcile"}
        /\ c.mode = "apply" => children[o] = NoPlan
        /\ c.mode = "child" => IsOpen(children[o])
        /\ c.mode = "reconcile" => ~IsOpen(children[o])
    BY <1>1, <2>1, <2>2, CallFacts DEF CallInv, FoundInv
  <2>4. history' = Committed(o) /\ call' = [c EXCEPT !.pc = next]
    BY <1>3, <2>1 DEF Commit, Goto
  <2>5. planned.before \in Trees /\ planned.target \in Trees
    BY <2>3 DEF Plan
  <2>6. /\ history' \in History
        /\ history'.head = planned.target
        /\ history'.snapshots = history.snapshots \cup {planned.target} \cup (IF planned.manual THEN {planned.before} ELSE {})
        /\ history'.receipts = [history.receipts EXCEPT ![o] = @ + 1]
        /\ history'.candidate = [history.candidate EXCEPT !.status = IF planned.action = "candidate" THEN "applied" ELSE @]
    <3>1. history'.candidate \in Candidate
      BY <2>2, <2>4, <2>5 DEF Committed, History, Candidate
    <3>2. history'.receipts \in [Ops -> Nat]
      BY <2>2, <2>3, <2>4 DEF Committed, History
    <3>3. history'.candidate = [history.candidate EXCEPT !.status = IF planned.action = "candidate" THEN "applied" ELSE @]
      BY <2>2, <2>4 DEF Committed, History
    <3>4. /\ history'.head = planned.target
          /\ history'.snapshots = history.snapshots \cup {planned.target} \cup (IF planned.manual THEN {planned.before} ELSE {})
          /\ history'.receipts = [history.receipts EXCEPT ![o] = @ + 1]
      BY <2>2, <2>4 DEF Committed, History
    <3>5. history' \in History
      <4> DEFINE r == history.revision + 1
                 v == history.project + 1
                 h == planned.target
                 s == history.snapshots \cup {planned.target} \cup (IF planned.manual THEN {planned.before} ELSE {})
                 t == history'.receipts
                 u == history'.candidate
      <4>1. history' = [history EXCEPT !.revision = r, !.project = v, !.head = h, !.snapshots = s, !.receipts = t, !.candidate = u]
        BY <2>2, <2>4, <3>3, <3>4 DEF Committed, History
      <4>2. r \in Nat /\ v \in Nat /\ h \in Trees /\ s \in SUBSET Trees /\ t \in [Ops -> Nat] /\ u \in Candidate
        BY <2>2, <2>5, <3>1, <3>2 DEF History
      <4> HIDE DEF r, v, h, s, t, u
      <4> QED BY <2>2, <4>1, <4>2 DEF History
    <3> QED BY <3>3, <3>4, <3>5
  <2>7. /\ history'.candidate.input = history.candidate.input /\ history'.candidate.output = history.candidate.output
        /\ history'.candidate.status = IF planned.action = "candidate" THEN "applied" ELSE history.candidate.status
    BY <2>2, <2>6 DEF History, Candidate
  <2>8. history.receipts[o] = 0 /\ history'.receipts[o] = 1 /\ \A q \in Ops : q # o => history'.receipts[q] = history.receipts[q]
    BY <2>2, <2>3, <2>6 DEF History, HasReceipt
  <2>9. HasReceipt(o)' /\ \A q \in Ops : q # o => (HasReceipt(q)' <=> HasReceipt(q))
    BY <2>8 DEF HasReceipt
  <2>10. call' \in Call /\ call'.op = o /\ call'.mode = c.mode /\ call'.pc = next
    BY <2>2, <2>4 DEF Call, Places
  <2>11. \A q \in Ops : q = user.last => q = o
    BY <2>3
  <2> HIDE DEF next
  <2>12. HistoryInv'
    BY <2>6, <2>7 DEF HistoryInv, RestoreInv
  <2>13. PreviewInv'
    BY <1>1, <2>6 DEF PreviewInv, RestoreInv, Sourced
  <2>14. JournalInv'
    BY <1>1, <2>6 DEF JournalInv, RestoreInv, Sourced
  <2>15. ChildInv'
    BY <1>1, <2>9 DEF ChildInv, RestoreInv, IsOpen
  <2>16. PendingInv'
    BY <1>1 DEF PendingInv, RestoreInv, IsOpen
  <2>17. ReceiptInv'
    <3>1. planned.before \in history'.snapshots
      BY <2>3, <2>6 DEF RestoreInv, JournalInv, Sourced
    <3>2. children[o] # NoPlan => children[o].decision = "complete"
      <4>1. CASE c.mode = "child"
        BY <2>1, <2>3, <4>1 DEF RollsBack, RestoreInv, ChildInv
      <4>2. CASE c.mode = "reconcile"
        BY <2>3, <4>2 DEF RestoreInv, ChildInv, IsOpen
      <4> QED BY <2>3, <4>1, <4>2
    <3>3. planned.action = "candidate" => history'.candidate.status = "applied"
      BY <2>7
    <3>4. ASSUME NEW q \in Ops, HasReceipt(q)', q # o
          PROVE  /\ journal[q] # NoPlan /\ history'.receipts[q] = 1 /\ journal[q].before \in history'.snapshots
                 /\ journal[q].action = "candidate" => history'.candidate.status = "applied"
                 /\ children[q] # NoPlan => children[q].decision = "complete"
      <4>1. HasReceipt(q)
        BY <2>9, <3>4
      <4> QED BY <2>6, <2>7, <2>8, <3>4, <4>1 DEF RestoreInv, ReceiptInv
    <3>5. ASSUME NEW q \in Ops, HasReceipt(q)'
          PROVE  /\ journal[q] # NoPlan /\ history'.receipts[q] = 1 /\ journal[q].before \in history'.snapshots
                 /\ journal[q].action = "candidate" => history'.candidate.status = "applied"
                 /\ children[q] # NoPlan => children[q].decision = "complete"
      BY <2>3, <2>8, <3>1, <3>2, <3>3, <3>4, <3>5
    <3> QED BY <1>1, <3>5 DEF ReceiptInv
  <2>18. EndedInv'
    BY <1>1, <2>3, <2>9 DEF EndedInv, RestoreInv
  <2>19. BackupInv'
    BY <1>1, BackupsUnchanged
  <2>20. CallInv'
    <3>1. call' # Idle /\ call'.pc \in {"rescan", "clean"} /\ (call'.pc = "rescan" <=> c.mode = "reconcile")
      BY <2>10 DEF Idle, next
    <3> QED BY <1>1, <2>3, <2>9, <2>10, <3>1 DEF CallInv, Stepping, IsOpen
  <2>21. FoundInv'
    <3>1. Settled(planned.target)'
      BY <1>1, <2>3 DEF Settled
    <3>2. ~RollsBack' /\ call'.pc # "commit"
      BY <1>1, <2>1, <2>3, <2>10 DEF RollsBack, next
    <3>3. Goal(o) = planned.target /\ Goal(o)' = planned.target /\ planned' = planned
      BY <1>1, <2>3 DEF Goal
    <3>4. \A q \in Ops : q = user'.last => q = o
      BY <1>1, <2>11
    <3>5. Settled(Goal(o))'
      BY <3>1, <3>3 DEF Settled
    <3> QED BY <3>2, <3>4, <3>5 DEF FoundInv
  <2>22. EditsSurvive'
    BY <1>1, <2>6 DEF RestoreInv, EditsSurvive
  <2>23. RestoreTypeOK'
    BY <1>1, <2>6, <2>10, RestoreFacts DEF RestoreTypeOK
  <2> QED BY <2>12, <2>13, <2>14, <2>15, <2>16, <2>17, <2>18, <2>19, <2>20, <2>21, <2>22, <2>23 DEF RestoreInv
<1> QED BY <1>2, <1>3

LEMMA RescanKeeps == ASSUME RestoreInv, Rescan PROVE RestoreInv'
<1>1. call.pc = "rescan" /\ UNCHANGED <<tree, backups, plans, journal, children, history, up, faults>>
  BY DEF Rescan
<1>2. call # Idle /\ CallInv /\ call \in Call /\ user \in UserState
  BY <1>1, WorkIsNotIdle DEF RestoreInv, RestoreTypeOK
<1>3. CASE call' = Idle /\ UNCHANGED user
  BY <1>1, <1>3, GiveUp, RestoreFacts
<1>4. CASE /\ tree = journal[call.op].target /\ call' = [call EXCEPT !.mode = "receipt", !.pc = "clean"]
           /\ user' = [user EXCEPT !.dirty = {}]
  <2>1. user' \in UserState /\ user'.last = user.last /\ user'.latest = user.latest /\ user'.dirty = {}
    BY <1>2, <1>4 DEF UserState
  <2>2. call' \in Call /\ call'.op = call.op /\ call'.mode = "receipt" /\ call'.pc = "clean" /\ call' # Idle
    BY <1>2, <1>4 DEF Call, Places, Idle
  <2>3. call.op \in Ops /\ IsOpen(journal[call.op]) /\ HasReceipt(call.op)
        /\ call.op = user.last /\ journal[call.op].status = "open"
    BY <1>1, <1>2, CallFacts DEF CallInv
  <2>4. CallInv'
    BY <1>1, <2>2, <2>3 DEF CallInv, Stepping, HasReceipt, IsOpen
  <2>5. FoundInv'
    <3>1. Goal(call.op) = journal[call.op].target
      BY <2>3 DEF Goal
    <3>2. \A q \in Ops : q = user'.last => \A p \in Paths : tree'[p] = Goal(q)[p] /\ Goal(q)' = Goal(q)
      BY <1>1, <1>4, <2>1, <2>3, <3>1 DEF Goal
    <3>3. \A q \in Ops : q = user'.last => Settled(Goal(q))'
      BY <3>2 DEF Settled
    <3> QED BY <2>2, <3>3 DEF FoundInv, RollsBack
  <2>6. Static'
    BY <1>1, <2>1, StaticUnchanged
  <2>7. BackupInv'
    BY <1>1, BackupsUnchanged
  <2>8. EditsSurvive'
    BY <1>1, <2>1 DEF RestoreInv, EditsSurvive
  <2>9. RestoreTypeOK'
    BY <1>1, <2>1, <2>2, RestoreFacts DEF RestoreTypeOK
  <2> QED BY <2>4, <2>5, <2>6, <2>7, <2>8, <2>9 DEF Static, RestoreInv
<1>5. \/ call' = Idle /\ UNCHANGED user
      \/ /\ tree = journal[call.op].target /\ call' = [call EXCEPT !.mode = "receipt", !.pc = "clean"]
         /\ user' = [user EXCEPT !.dirty = {}]
  BY DEF Rescan, Raise, Scanned
<1> QED BY <1>3, <1>4, <1>5

\* What a backup keeps, if it is what was planned, is in the files or in the history when the backups are cleaned.
LEMMA CleanedIsKept ==
  ASSUME RestoreInv, call.pc = "clean", NEW b \in backups, AsPlanned(b),
         Kind(b.file) = "file", user.latest[b.path] = b.file
  PROVE  tree[b.path] = b.file \/ \E s \in history.snapshots : s[b.path] = b.file
<1>1. call # Idle /\ CallInv /\ FoundInv
  BY WorkIsNotIdle DEF RestoreInv
<1>2. PICK c : c = call
  OBVIOUS
<1>3. b.op \in Ops /\ b.path \in Paths /\ b \in Backup
  BY RestoreFacts DEF Backup
<1>4. /\ IsOpen(journal[b.op]) /\ PlanOf(b) # NoPlan
      /\ b.step \in StepNumbers(PlanOf(b)) /\ b.path = StepsOf(PlanOf(b))[b.step].path
  BY DEF RestoreInv, BackupInv
<1>5. b.op = c.op
  BY <1>1, <1>2, <1>3, <1>4, CallFacts DEF RestoreInv, PendingInv
<1>6. PlanOf(b) \in Plan
  BY <1>3, <1>4, RestoreFacts DEF PlanOf
<1>7. b.file = PlanOf(b).before[b.path]
  <2>1. b.file = StepsOf(PlanOf(b))[b.step].before
    BY DEF AsPlanned
  <2>2. b.file \in {PlanOf(b).before[b.path], Absent}
    BY <1>4, <1>6, <2>1, StepFacts
  <2> QED BY <2>2 DEF Kind
<1>8. b.file \in {journal[c.op].before[b.path], journal[c.op].target[b.path]}
  <2>1. CASE b.who = "child"
    <3>1. PlanOf(b) = children[c.op]
      BY <1>5, <2>1 DEF PlanOf
    <3>2. children[c.op] # NoPlan /\ c.op \in Ops /\ b.path \in Paths
      BY <1>3, <1>4, <1>5, <3>1
    <3>3. \A p \in Paths : Kind(children[c.op].before[p]) = "file" =>
              children[c.op].before[p] \in {journal[c.op].before[p], journal[c.op].target[p]}
      BY <3>2 DEF RestoreInv, ChildInv
    <3>4. b.file = children[c.op].before[b.path]
      BY <1>7, <3>1
    <3> QED BY <3>2, <3>3, <3>4
  <2>2. CASE b.who # "child"
    BY <1>5, <1>7, <2>2 DEF PlanOf
  <2> QED BY <2>1, <2>2, Zenon
<1>9. c.op \in Ops /\ journal[c.op] # NoPlan /\ journal[c.op].target \in history.snapshots
  BY <1>1, <1>2, CallFacts DEF RestoreInv, JournalInv, Sourced
<1>10. CASE b.file = journal[c.op].target[b.path]
  BY <1>9, <1>10
<1>11. CASE b.file = journal[c.op].before[b.path]
  <2>1. CASE HasReceipt(c.op)
    BY <1>9, <1>11, <2>1 DEF RestoreInv, ReceiptInv
  <2>2. CASE RollsBack
    BY <1>1, <1>2, <1>3, <1>11, <2>2 DEF FoundInv
  <2> QED BY <1>1, <1>2, <2>1, <2>2 DEF CallInv
<1> QED BY <1>8, <1>10, <1>11

LEMMA CleanKeeps == ASSUME RestoreInv, Clean PROVE RestoreInv'
<1>1. call.pc = "clean" /\ UNCHANGED <<tree, plans, journal, children, history, up, faults, user>>
  BY DEF Clean
<1>2. CASE call' = Idle /\ UNCHANGED backups
  BY <1>1, <1>2, GiveUp, RestoreFacts
<1>3. CASE AsPlanned(NextBackup) /\ backups' = backups \ {NextBackup} /\ UNCHANGED call
  <2>1. Static'
    BY <1>1, StaticUnchanged
  <2>2. BackupInv'
    BY <1>1, <1>3, BackupsUnchanged
  <2>3. CallInv'
    BY <1>1, <1>3 DEF RestoreInv, CallInv, HasReceipt, IsOpen, RollsBack, Running, Who, StepNumbers
  <2>4. FoundInv'
    BY <1>1, <1>3 DEF RestoreInv, FoundInv, Settled, Goal, HasReceipt, RollsBack
  <2>5. RestoreTypeOK'
    BY <1>1, <1>3, RestoreFacts DEF RestoreTypeOK
  <2>6. EditsSurvive'
    <3> SUFFICES ASSUME NEW p \in Paths, Kind(user.latest[p]) = "file", tree[p] # user.latest[p],
                        \A s \in history.snapshots : s[p] # user.latest[p]
                 PROVE  \E b \in backups \ {NextBackup} : b.path = p /\ b.file = user.latest[p]
      BY <1>1, <1>3 DEF EditsSurvive
    <3>1. PICK b \in backups : b.path = p /\ b.file = user.latest[p]
      BY DEF RestoreInv, EditsSurvive
    <3>2. b # NextBackup
      BY <1>1, <1>3, <3>1, CleanedIsKept
    <3> QED BY <3>1, <3>2
  <2> QED BY <2>1, <2>2, <2>3, <2>4, <2>5, <2>6 DEF Static, RestoreInv
<1> QED BY <1>2, <1>3 DEF Clean, Raise

\* The end of an operation changes its status, in the journal and in that of its recovery.
LEMMA EndCallKeeps == ASSUME RestoreInv, EndCall PROVE RestoreInv'
<1>1. call.pc = "clean" /\ ToClean = {} /\ UNCHANGED <<tree, backups, plans, history, up, faults, user>>
  BY DEF EndCall
<1>2. PICK c : c = call
  OBVIOUS
<1> DEFINE o == c.op
           status == IF RollsBack THEN "rolled_back" ELSE "committed"
           child == children[o]
           planned == journal[o]
<1>3. CallInv /\ c # Idle /\ c \in Call /\ FoundInv
  BY <1>1, <1>2, WorkIsNotIdle DEF RestoreInv, RestoreTypeOK
<1>4. /\ o \in Ops /\ o = user.last /\ planned \in Plan /\ planned # NoPlan /\ planned.status = "open" /\ planned.decision = "none"
      /\ c.mode = "child" => child \in Plan /\ child # NoPlan /\ child.status = "open"
      /\ Running = IF c.mode = "child" THEN child ELSE planned
  BY <1>2, <1>3, CallFacts DEF RestoreInv, JournalInv
<1>5. journal \in [Ops -> Plan \cup {NoPlan}] /\ children \in [Ops -> Plan \cup {NoPlan}]
  BY RestoreFacts
<1>6. /\ c.mode \in {"apply", "child", "receipt"}
      /\ c.mode = "apply" => child = NoPlan
      /\ c.mode = "receipt" => HasReceipt(o)
      /\ HasReceipt(o) \/ RollsBack
      /\ RollsBack => c.mode = "child" /\ child.decision = "rollback"
  BY <1>1, <1>2, <1>3 DEF CallInv, RollsBack
<1>7. RollsBack => ~HasReceipt(o)
  BY <1>4, <1>6 DEF RestoreInv, ReceiptInv
<1>8. (Running.decision = "rollback") <=> RollsBack
  BY <1>2, <1>4 DEF RollsBack
<1> DEFINE closes == c.mode # "apply" /\ IsOpen(child)
           stays == c.mode = "receipt" /\ closes
<1>9. /\ children' = IF closes THEN [children EXCEPT ![o] = Ended(@, status)] ELSE children
      /\ IF stays THEN UNCHANGED <<journal, call>>
         ELSE journal' = [journal EXCEPT ![o] = Ended(@, status)] /\ call' = Idle
  BY <1>2, <1>8 DEF EndCall, Raise
<1> DEFINE endedChild == [child EXCEPT !.status = status]
           endedPlan == [planned EXCEPT !.status = status]
<1>10. /\ closes => child \in Plan /\ child # NoPlan
       /\ closes => children' = [children EXCEPT ![o] = endedChild]
       /\ ~stays => journal' = [journal EXCEPT ![o] = endedPlan]
  BY <1>4, <1>5, <1>9 DEF IsOpen, Ended
<1>11. status \in {"committed", "rolled_back"} /\ status \in Statuses
  BY DEF Statuses
<1> HIDE DEF status
<1>12. /\ endedPlan \in Plan /\ endedPlan.status = status /\ endedPlan.before = planned.before
       /\ endedPlan.target = planned.target /\ endedPlan.manual = planned.manual /\ endedPlan.action = planned.action
       /\ endedPlan.started = planned.started /\ endedPlan.done = planned.done /\ endedPlan.decision = planned.decision
  BY <1>4, <1>11 DEF Plan
<1>13. child \in Plan =>
       /\ endedChild \in Plan /\ endedChild.status = status /\ endedChild.before = child.before
       /\ endedChild.target = child.target /\ endedChild.started = child.started /\ endedChild.done = child.done
       /\ endedChild.decision = child.decision
  BY <1>11 DEF Plan
<1> HIDE DEF endedPlan, endedChild
<1>14. /\ \A q \in Ops : q # o => journal'[q] = journal[q] /\ children'[q] = children[q]
       /\ ~stays => journal'[o] = endedPlan
       /\ stays => journal'[o] = planned
       /\ closes => children'[o] = endedChild
       /\ ~closes => children'[o] = child
       /\ journal' \in [Ops -> Plan \cup {NoPlan}] /\ children' \in [Ops -> Plan \cup {NoPlan}]
  <2>1. journal' \in [Ops -> Plan \cup {NoPlan}] /\ (~stays => journal'[o] = endedPlan) /\ (stays => journal'[o] = planned)
        /\ \A q \in Ops : q # o => journal'[q] = journal[q]
    BY <1>4, <1>5, <1>9, <1>10, <1>12
  <2>2. children' \in [Ops -> Plan \cup {NoPlan}] /\ (closes => children'[o] = endedChild)
        /\ (~closes => children'[o] = child) /\ \A q \in Ops : q # o => children'[q] = children[q]
    BY <1>4, <1>5, <1>9, <1>10, <1>13
  <2> QED BY <2>1, <2>2
<1>15. /\ journal'[o] # NoPlan /\ journal'[o].before = planned.before /\ journal'[o].target = planned.target
       /\ journal'[o].manual = planned.manual /\ journal'[o].action = planned.action /\ journal'[o].decision = "none"
       /\ journal'[o].started = planned.started /\ journal'[o].done = planned.done
       /\ journal'[o].status = IF stays THEN "open" ELSE status
  BY <1>4, <1>12, <1>14, ValueAssumption
<1>16. /\ children'[o] = NoPlan <=> child = NoPlan
       /\ child # NoPlan =>
            /\ children'[o].before = child.before /\ children'[o].target = child.target
            /\ children'[o].decision = child.decision /\ children'[o].started = child.started
            /\ children'[o].done = child.done /\ children'[o].status = IF closes THEN status ELSE child.status
  BY <1>10, <1>13, <1>14, ValueAssumption
<1> HIDE DEF closes, stays
<1>17. \A q \in Ops : HasReceipt(q)' <=> HasReceipt(q)
  BY <1>1 DEF HasReceipt
<1>18. /\ StepsOf(journal'[o]) = StepsOf(planned)
       /\ Progress(planned) => Progress(journal'[o])
       /\ child # NoPlan => (Progress(child) => Progress(children'[o]))
  BY <1>15, <1>16 DEF StepsOf, Progress, StepNumbers
<1>19. HistoryInv'
  BY <1>1 DEF RestoreInv, HistoryInv
<1>20. PreviewInv'
  <2>1. \A q \in Ops : journal[q] = NoPlan => journal'[q] = NoPlan
    BY <1>4, <1>14
  <2> QED BY <1>1, <2>1 DEF RestoreInv, PreviewInv, Sourced
<1>21. JournalInv'
  <2> DEFINE SourcedIn(p) == p.target \in history.snapshots /\ (p.manual \/ p.before \in history.snapshots)
  <2>1. Sourced(planned) /\ Progress(planned)
    BY <1>4 DEF RestoreInv, JournalInv
  <2>2. SourcedIn(journal'[o]) /\ Progress(journal'[o]) /\ journal'[o].decision = "none" /\ journal'[o].status # "preview"
    BY <1>1, <1>11, <1>15, <1>18, <2>1 DEF Sourced
  <2>3. ASSUME NEW q \in Ops, q # o, journal'[q] # NoPlan
        PROVE  SourcedIn(journal'[q]) /\ Progress(journal'[q]) /\ journal'[q].decision = "none" /\ journal'[q].status # "preview"
    BY <1>1, <1>14, <2>3 DEF RestoreInv, JournalInv, Sourced
  <2> QED BY <1>1, <2>2, <2>3 DEF JournalInv, Sourced
<1>22. ChildInv'
  <2>1. ASSUME NEW q \in Ops, q # o, children'[q] # NoPlan
        PROVE  /\ journal'[q] # NoPlan /\ Progress(children'[q])
               /\ children'[q].decision \in {"complete", "rollback"} /\ children'[q].status # "preview"
               /\ children'[q].target = IF children'[q].decision = "complete" THEN journal'[q].target ELSE journal'[q].before
               /\ \A p \in Paths : Kind(children'[q].before[p]) = "file" =>
                     children'[q].before[p] \in {journal'[q].before[p], journal'[q].target[p]}
               /\ IsOpen(journal'[q]) /\ ~HasReceipt(q)' => IsOpen(children'[q])
    BY <1>14, <1>17, <2>1 DEF RestoreInv, ChildInv
  <2>2. ASSUME children'[o] # NoPlan
        PROVE  /\ journal'[o] # NoPlan /\ Progress(children'[o])
               /\ children'[o].decision \in {"complete", "rollback"} /\ children'[o].status # "preview"
               /\ children'[o].target = IF children'[o].decision = "complete" THEN journal'[o].target ELSE journal'[o].before
               /\ \A p \in Paths : Kind(children'[o].before[p]) = "file" =>
                     children'[o].before[p] \in {journal'[o].before[p], journal'[o].target[p]}
    BY <1>4, <1>11, <1>15, <1>16, <1>18, <2>2 DEF RestoreInv, ChildInv
  <2>3. IsOpen(journal'[o]) => HasReceipt(o)'
    BY <1>4, <1>6, <1>11, <1>15, <1>17 DEF IsOpen, stays
  <2> QED BY <2>1, <2>2, <2>3 DEF ChildInv
<1>23. BackupInv'
  <2>1. ASSUME NEW b \in backups
        PROVE  b.op \in Ops /\ b.op # o
    BY <1>1, <1>2, RestoreFacts DEF ToClean, Backup
  <2>2. ASSUME NEW b \in backups
        PROVE  journal'[b.op] = journal[b.op] /\ PlanOf(b)' = PlanOf(b)
    BY <1>14, <2>1 DEF PlanOf
  <2>3. ASSUME NEW b \in backups
        PROVE  /\ IsOpen(journal'[b.op]) /\ PlanOf(b)' # NoPlan
               /\ b.step \in StepNumbers(PlanOf(b)') /\ b.path = StepsOf(PlanOf(b)')[b.step].path
    BY <2>2 DEF RestoreInv, BackupInv
  <2> QED BY <1>1, <2>3 DEF BackupInv, StepNumbers
<1>24. PendingInv'
  <2>1. \A q \in Ops : IsOpen(journal'[q]) => IsOpen(journal[q])
    BY <1>4, <1>14 DEF IsOpen
  <2> QED BY <1>1, <2>1 DEF RestoreInv, PendingInv
<1>25. ReceiptInv'
  <2>1. ASSUME NEW q \in Ops, HasReceipt(q)'
        PROVE  /\ journal'[q] # NoPlan /\ history'.receipts[q] = 1 /\ journal'[q].before \in history'.snapshots
               /\ journal'[q].action = "candidate" => history'.candidate.status = "applied"
               /\ children'[q] # NoPlan => children'[q].decision = "complete"
    <3>1. HasReceipt(q)
      BY <1>17, <2>1
    <3>2. CASE q = o
      BY <1>1, <1>4, <1>15, <1>16, <3>1, <3>2 DEF RestoreInv, ReceiptInv
    <3>3. CASE q # o
      BY <1>1, <1>14, <3>1, <3>3 DEF RestoreInv, ReceiptInv
    <3> QED BY <3>2, <3>3
  <2> QED BY <2>1 DEF ReceiptInv
<1>26. EndedInv'
  <2>1. status = "committed" => HasReceipt(o)
    BY <1>6 DEF status
  <2>2. status = "rolled_back" => ~HasReceipt(o) /\ child # NoPlan /\ child.decision = "rollback"
    BY <1>4, <1>6, <1>7 DEF status
  <2>3. /\ journal'[o].status = "committed" => HasReceipt(o)'
        /\ journal'[o].status = "rolled_back" => ~HasReceipt(o)' /\ children'[o] # NoPlan /\ children'[o].decision = "rollback"
    BY <1>4, <1>15, <1>16, <1>17, <2>1, <2>2
  <2>4. ASSUME NEW q \in Ops, q # o, journal'[q] # NoPlan
        PROVE  /\ journal'[q].status = "committed" => HasReceipt(q)'
               /\ journal'[q].status = "rolled_back" =>
                     ~HasReceipt(q)' /\ children'[q] # NoPlan /\ children'[q].decision = "rollback"
    BY <1>14, <1>17, <2>4 DEF RestoreInv, EndedInv
  <2> QED BY <2>3, <2>4 DEF EndedInv
<1>27. CallInv' /\ call' \in Call
  <2>1. CASE ~stays
    BY <1>9, <2>1 DEF CallInv, Call, Idle, Places, Entries
  <2>2. CASE stays
    <3>1. call' = c /\ c.mode = "receipt" /\ journal' = journal /\ call = c
      BY <1>2, <1>9, <2>2 DEF stays
    <3> QED BY <1>1, <1>3, <1>17, <3>1 DEF CallInv, RollsBack, Stepping, IsOpen
  <2> QED BY <2>1, <2>2
<1>28. FoundInv'
  <2>1. \A q \in Ops : q = user'.last => q = o
    BY <1>1, <1>4
  <2>2. Settled(Goal(o)') /\ (stays => call'.mode # "child" /\ call'.pc = "clean")
    <3>1. CASE RollsBack
      <4>1. ~stays /\ status = "rolled_back" /\ Goal(o)' = planned.before
        BY <1>6, <1>15, <3>1 DEF stays, status, Goal
      <4> QED BY <1>1, <1>2, <1>3, <3>1, <4>1 DEF FoundInv
    <3>2. CASE ~RollsBack
      <4>1. HasReceipt(o) /\ Goal(o)' = planned.target /\ Goal(o) = planned.target
        BY <1>4, <1>6, <1>11, <1>15, <3>2 DEF status, Goal
      <4>2. Settled(Goal(o))
        BY <1>3, <1>4, <4>1 DEF FoundInv
      <4>3. stays => call'.mode # "child" /\ call'.pc = "clean"
        BY <1>1, <1>2, <1>9 DEF stays
      <4> QED BY <4>1, <4>2, <4>3
    <3> QED BY <3>1, <3>2
  <2>3. Settled(Goal(o))'
    BY <1>1, <2>2 DEF Settled
  <2>4. call'.pc # "commit" /\ ~(call'.pc = "clean" /\ RollsBack')
    BY <1>9, <2>2 DEF Idle, RollsBack
  <2> QED BY <2>1, <2>3, <2>4 DEF FoundInv
<1>29. EditsSurvive'
  BY <1>1 DEF RestoreInv, EditsSurvive
<1>30. RestoreTypeOK'
  BY <1>1, <1>14, <1>27, RestoreFacts DEF RestoreTypeOK
<1> QED BY <1>19, <1>20, <1>21, <1>22, <1>23, <1>24, <1>25, <1>26, <1>27, <1>28, <1>29, <1>30 DEF RestoreInv

-----------------------------------------------------------------------------
(* The user, and the calls that start no restore.                          *)

LEMMA EditKeeps ==
  ASSUME RestoreInv, NEW p \in Paths, NEW e \in Files \cup Dirs \cup {Absent}, Edit(p, e)
  PROVE  RestoreInv'
<1> DEFINE inside == IF Kind(e) = "directory" THEN {} ELSE {q \in Paths : Parent[q] = p}
           after(t) == [q \in Paths |-> IF q = p THEN e ELSE IF q \in inside THEN Absent ELSE t[q]]
<1>1. /\ tree' = after(tree) /\ UNCHANGED <<backups, plans, journal, children, history, call, up, faults>>
      /\ user' = [user EXCEPT !.latest = after(user.latest), !.dirty = user.dirty \cup inside \cup {p},
                              !.edited = TRUE, !.edits = user.edits + 1]
  BY DEF Edit
<1>2. user \in UserState /\ tree \in Trees /\ user.latest \in Trees /\ e \in Entries
  BY RestoreFacts DEF UserState, Entries
<1>3. after(tree) \in Trees /\ after(user.latest) \in Trees
  BY <1>2 DEF Trees, Entries
<1>4. /\ tree' \in Trees /\ tree'[p] = e /\ \A q \in inside : q # p => tree'[q] = Absent
      /\ \A q \in Paths : q # p /\ q \notin inside => tree'[q] = tree[q]
  BY <1>1, <1>3
<1>5. /\ after(user.latest)[p] = e /\ \A q \in inside : q # p => after(user.latest)[q] = Absent
      /\ \A q \in Paths : q # p /\ q \notin inside => after(user.latest)[q] = user.latest[q]
  OBVIOUS
<1>6. inside \subseteq Paths
  OBVIOUS
<1> HIDE DEF inside, after
<1>7. /\ user' \in UserState /\ user'.last = user.last /\ user'.dirty = user.dirty \cup inside \cup {p}
      /\ user'.latest = after(user.latest)
  <2> DEFINE l == after(user.latest)
             d == user.dirty \cup inside \cup {p}
             n == user.edits + 1
  <2>1. user' = [user EXCEPT !.latest = l, !.dirty = d, !.edited = TRUE, !.edits = n]
    BY <1>1
  <2>2. l \in Trees /\ d \in SUBSET Paths /\ n \in Nat
    BY <1>2, <1>3, <1>6 DEF UserState
  <2>3. user' \in UserState /\ user'.last = user.last /\ user'.dirty = d /\ user'.latest = l
    <3> HIDE DEF l, d, n
    <3> QED BY <1>2, <2>1, <2>2 DEF UserState
  <2> QED BY <2>3
<1>8. \A q \in Paths : \/ q \in user'.dirty /\ (user'.latest[q] = tree'[q] \/ Kind(user'.latest[q]) # "file")
                       \/ tree'[q] = tree[q] /\ user'.latest[q] = user.latest[q]
  BY <1>4, <1>5, <1>6, <1>7 DEF Kind
<1>9. Static'
  BY <1>1, <1>7, StaticUnchanged
<1>10. BackupInv'
  BY <1>1, BackupsUnchanged
<1>11. CallInv'
  BY <1>1 DEF RestoreInv, CallInv, HasReceipt, IsOpen, RollsBack, Running, Who, StepNumbers
<1>12. FoundInv'
  <2>1. ASSUME NEW t, Settled(t) PROVE \A q \in Paths \ user'.dirty : tree'[q] = t[q]
    BY <1>4, <1>7, <2>1 DEF Settled
  <2>2. ASSUME NEW t, \A q \in Paths : user.latest[q] = t[q] /\ Kind(user.latest[q]) = "file" => tree[q] = user.latest[q]
        PROVE  \A q \in Paths : user'.latest[q] = t[q] /\ Kind(user'.latest[q]) = "file" => tree'[q] = user'.latest[q]
    BY <1>8, <2>2
  <2>3. \A q \in Ops : Goal(q)' = Goal(q) /\ HasReceipt(q)' = HasReceipt(q)
    BY <1>1 DEF Goal, HasReceipt
  <2>4. RollsBack' = RollsBack
    BY <1>1 DEF RollsBack
  <2>5. \A q \in Ops : journal'[q] # NoPlan /\ q = user'.last /\ (journal'[q].status # "open" \/ HasReceipt(q)') =>
           Settled(Goal(q))'
    <3>1. \A q \in Ops : journal'[q] # NoPlan /\ q = user'.last /\ (journal'[q].status # "open" \/ HasReceipt(q)') =>
            Settled(Goal(q))
      BY <1>1, <1>7, <2>3 DEF RestoreInv, FoundInv
    <3> QED BY <2>1, <2>3, <3>1 DEF Settled
  <2>6. call'.pc = "commit" => Settled(journal[call.op].target)'
    BY <1>1, <2>1 DEF RestoreInv, FoundInv, Settled
  <2>7. call'.pc = "clean" /\ RollsBack' =>
          /\ Settled(journal[call.op].before)'
          /\ \A q \in Paths : user'.latest[q] = journal'[call'.op].before[q] /\ Kind(user'.latest[q]) = "file" =>
                tree'[q] = user'.latest[q]
    <3>1. call'.pc = "clean" /\ RollsBack' =>
            /\ Settled(journal[call.op].before)
            /\ \A q \in Paths : user.latest[q] = journal[call.op].before[q] /\ Kind(user.latest[q]) = "file" =>
                  tree[q] = user.latest[q]
      BY <1>1, <2>4 DEF RestoreInv, FoundInv
    <3> QED BY <1>1, <2>1, <2>2, <3>1 DEF Settled
  <2> QED BY <2>5, <2>6, <2>7 DEF FoundInv
<1>13. EditsSurvive'
  BY <1>1, <1>8 DEF RestoreInv, EditsSurvive
<1>14. RestoreTypeOK'
  BY <1>1, <1>4, <1>7, RestoreFacts DEF RestoreTypeOK
<1> QED BY <1>9, <1>10, <1>11, <1>12, <1>13, <1>14 DEF Static, RestoreInv

\* The history grows between two calls, and forgets nothing.
LEMMA HistoryGrows ==
  ASSUME RestoreInv, call = Idle, UNCHANGED <<tree, backups, plans, journal, children, call, up, faults, user>>,
         history' \in History, history'.receipts = history.receipts,
         history.snapshots \subseteq history'.snapshots, HistoryInv',
         history.candidate.status = "applied" => history'.candidate.status = "applied"
  PROVE  RestoreInv'
<1>1. \A o \in Ops : HasReceipt(o)' = HasReceipt(o)
  BY DEF HasReceipt
<1>2. PreviewInv'
  BY DEF RestoreInv, PreviewInv, Sourced
<1>3. JournalInv'
  BY DEF RestoreInv, JournalInv, Sourced
<1>4. ChildInv'
  BY <1>1 DEF RestoreInv, ChildInv, IsOpen
<1>5. PendingInv'
  BY DEF RestoreInv, PendingInv, IsOpen
<1>6. ReceiptInv'
  BY <1>1 DEF RestoreInv, ReceiptInv
<1>7. EndedInv'
  BY <1>1 DEF RestoreInv, EndedInv
<1>8. BackupInv'
  BY BackupsUnchanged
<1>9. CallInv'
  BY DEF CallInv
<1>10. FoundInv'
  BY <1>1 DEF RestoreInv, FoundInv, Settled, Goal, Idle
<1>11. EditsSurvive'
  BY DEF RestoreInv, EditsSurvive
<1>12. RestoreTypeOK'
  BY RestoreFacts DEF RestoreTypeOK
<1> QED BY <1>2, <1>3, <1>4, <1>5, <1>6, <1>7, <1>8, <1>9, <1>10, <1>11, <1>12 DEF RestoreInv

LEMMA CheckpointKeeps == ASSUME RestoreInv, Checkpoint PROVE RestoreInv'
<1>1. /\ call = Idle /\ UNCHANGED <<tree, backups, plans, journal, children, call, up, faults, user>>
      /\ history' = [history EXCEPT !.revision = history.revision + 1, !.project = history.project + 1,
                                    !.head = tree, !.snapshots = history.snapshots \cup {tree}]
  BY DEF Checkpoint, Ready
<1>2. history \in History /\ tree \in Trees
  BY RestoreFacts
<1>3. /\ history' \in History /\ history'.receipts = history.receipts /\ history'.candidate = history.candidate
      /\ history'.snapshots = history.snapshots \cup {tree} /\ history'.head = tree
  <2> DEFINE r == history.revision + 1
             v == history.project + 1
             s == history.snapshots \cup {tree}
  <2>1. r \in Nat /\ v \in Nat /\ s \in SUBSET Trees
    BY <1>2 DEF History
  <2>2. history' = [history EXCEPT !.revision = r, !.project = v, !.head = tree, !.snapshots = s]
    BY <1>1
  <2>3. /\ history' \in History /\ history'.receipts = history.receipts /\ history'.candidate = history.candidate
        /\ history'.snapshots = s /\ history'.head = tree
    <3> HIDE DEF r, v, s
    <3> QED BY <1>2, <2>1, <2>2 DEF History
  <2> QED BY <2>3
<1>4. HistoryInv'
  BY <1>3 DEF RestoreInv, HistoryInv
<1> QED BY <1>1, <1>3, <1>4, HistoryGrows

LEMMA TouchKeeps == ASSUME RestoreInv, Touch PROVE RestoreInv'
<1>1. /\ call = Idle /\ UNCHANGED <<tree, backups, plans, journal, children, call, up, faults, user>>
      /\ history' = [history EXCEPT !.revision = history.revision + 1]
  BY DEF Touch, Ready
<1>2. history \in History
  BY RestoreFacts
<1>3. /\ history' \in History /\ history'.receipts = history.receipts /\ history'.candidate = history.candidate
      /\ history'.snapshots = history.snapshots /\ history'.head = history.head
  BY <1>1, <1>2 DEF History
<1>4. HistoryInv'
  BY <1>3 DEF RestoreInv, HistoryInv
<1> QED BY <1>1, <1>3, <1>4, HistoryGrows

LEMMA RunTurnKeeps ==
  ASSUME RestoreInv, NEW output \in Outputs, RunTurn(output)
  PROVE  RestoreInv'
<1> DEFINE c == [status |-> "ready", input |-> tree, output |-> output, project |-> history.project]
<1>1. /\ call = Idle /\ UNCHANGED <<tree, backups, plans, journal, children, call, up, faults, user>>
      /\ history' = [history EXCEPT !.revision = history.revision + 1, !.head = tree,
                                    !.snapshots = history.snapshots \cup {tree, output}, !.candidate = c]
      /\ history.candidate.status = "none"
  BY DEF RunTurn, Ready
<1>2. history \in History /\ tree \in Trees /\ output \in Trees
  BY RestoreFacts, ValueAssumption
<1>3. c \in Candidate /\ c.status = "ready" /\ c.input = tree /\ c.output = output
  BY <1>2 DEF Candidate, History
<1> HIDE DEF c
<1>4. /\ history' \in History /\ history'.receipts = history.receipts /\ history'.candidate = c
      /\ history'.snapshots = history.snapshots \cup {tree, output} /\ history'.head = tree
  <2> DEFINE r == history.revision + 1
             s == history.snapshots \cup {tree, output}
  <2>1. r \in Nat /\ s \in SUBSET Trees
    BY <1>2 DEF History
  <2>2. history' = [history EXCEPT !.revision = r, !.head = tree, !.snapshots = s, !.candidate = c]
    BY <1>1
  <2>3. /\ history' \in History /\ history'.receipts = history.receipts /\ history'.candidate = c
        /\ history'.snapshots = s /\ history'.head = tree
    <3> HIDE DEF r, s
    <3> QED BY <1>2, <1>3, <2>1, <2>2 DEF History
  <2> QED BY <2>3
<1>5. HistoryInv'
  BY <1>3, <1>4 DEF HistoryInv
<1> QED BY <1>1, <1>4, <1>5, HistoryGrows

LEMMA DiscardKeeps == ASSUME RestoreInv, Discard PROVE RestoreInv'
<1> DEFINE c == [history.candidate EXCEPT !.status = "discarded"]
<1>1. /\ call = Idle /\ UNCHANGED <<tree, backups, plans, journal, children, call, up, faults, user>>
      /\ history.candidate.status = "ready"
  BY DEF Discard, Ready
<1>2. history \in History /\ history.candidate \in Candidate
  BY RestoreFacts DEF History
<1>3. history' = [history EXCEPT !.revision = history.revision + 1, !.candidate = c]
  BY <1>2 DEF Discard, History
<1>4. c \in Candidate /\ c.status = "discarded"
  BY <1>2 DEF Candidate
<1> HIDE DEF c
<1>5. /\ history' \in History /\ history'.receipts = history.receipts /\ history'.candidate = c
      /\ history'.snapshots = history.snapshots /\ history'.head = history.head
  <2> DEFINE r == history.revision + 1
  <2>1. r \in Nat
    BY <1>2 DEF History
  <2>2. history' = [history EXCEPT !.revision = r, !.candidate = c]
    BY <1>3
  <2> HIDE DEF r
  <2> QED BY <1>2, <1>4, <2>1, <2>2 DEF History
<1>6. HistoryInv'
  BY <1>4, <1>5 DEF RestoreInv, HistoryInv
<1> QED BY <1>1, <1>5, <1>6, HistoryGrows

LEMMA NewPlanFacts ==
  ASSUME RestoreInv, NEW action \in {"restore", "candidate"}, NEW target \in history.snapshots,
         action = "candidate" => tree \in history.snapshots
  PROVE  /\ NewPlan(action, target) \in Plan /\ Sourced(NewPlan(action, target)) /\ Progress(NewPlan(action, target))
         /\ NewPlan(action, target).decision = "none"
<1> DEFINE planned == NewPlan(action, target)
<1>1. history \in History /\ tree \in Trees /\ target \in Trees
  BY RestoreFacts DEF History
<1>2. planned \in Plan
  BY <1>1 DEF NewPlan, Plan, History, Statuses
<1>3. planned.started = 0 /\ planned.done = 0 /\ planned.decision = "none" /\ planned.before = tree /\ planned.target = target
      /\ planned.manual = (action = "restore" /\ tree # history.head)
  BY DEF NewPlan
<1>4. Sourced(planned)
  BY <1>3 DEF Sourced, RestoreInv, HistoryInv
<1> QED BY <1>2, <1>3, <1>4 DEF Progress

LEMMA RememberKeeps ==
  ASSUME RestoreInv, NEW o \in Ops, NEW planned \in Plan, Sourced(planned), Progress(planned), planned.decision = "none",
         Remember(o, planned)
  PROVE  RestoreInv'
<1>1. /\ plans[o] = NoPlan /\ journal[o] = NoPlan /\ plans' = [plans EXCEPT ![o] = planned]
      /\ UNCHANGED <<tree, backups, journal, children, history, call, up, faults, user>>
  BY DEF Remember
<1>2. plans \in [Ops -> Plan \cup {NoPlan}]
  BY RestoreFacts
<1>3. plans' \in [Ops -> Plan \cup {NoPlan}] /\ plans'[o] = planned /\ \A q \in Ops : q # o => plans'[q] = plans[q]
  BY <1>1, <1>2
<1>4. PreviewInv'
  <2>1. \A q \in Ops : plans'[q] # NoPlan =>
           journal[q] = NoPlan /\ Sourced(plans'[q]) /\ Progress(plans'[q]) /\ plans'[q].decision = "none"
    BY <1>1, <1>3 DEF RestoreInv, PreviewInv
  <2> QED BY <1>1, <2>1 DEF PreviewInv, Sourced
<1>5. HistoryInv' /\ JournalInv' /\ ChildInv' /\ PendingInv' /\ ReceiptInv' /\ EndedInv'
  BY <1>1 DEF RestoreInv, HistoryInv, JournalInv, ChildInv, PendingInv, ReceiptInv, EndedInv, Sourced, IsOpen, HasReceipt
<1>6. BackupInv'
  BY <1>1, BackupsUnchanged
<1>7. CallInv'
  BY <1>1 DEF RestoreInv, CallInv, HasReceipt, IsOpen, RollsBack, Running, Who, StepNumbers
<1>8. FoundInv'
  BY <1>1 DEF RestoreInv, FoundInv, Settled, Goal, HasReceipt, RollsBack
<1>9. EditsSurvive'
  BY <1>1 DEF RestoreInv, EditsSurvive
<1>10. RestoreTypeOK'
  BY <1>1, <1>3, RestoreFacts DEF RestoreTypeOK
<1> QED BY <1>4, <1>5, <1>6, <1>7, <1>8, <1>9, <1>10 DEF RestoreInv

LEMMA PreviewKeeps == ASSUME RestoreInv, NEW o \in Ops, Preview(o) PROVE RestoreInv'
<1>1. PICK target \in history.snapshots : Remember(o, NewPlan("restore", target))
  BY DEF Preview
<1> QED BY <1>1, NewPlanFacts, RememberKeeps

LEMMA PreviewCandidateKeeps == ASSUME RestoreInv, NEW o \in Ops, PreviewCandidate(o) PROVE RestoreInv'
<1>1. history.candidate.status = "ready" /\ history.candidate.input = tree
      /\ Remember(o, NewPlan("candidate", history.candidate.output))
  BY DEF PreviewCandidate, Applicable
<1>2. history.candidate.output \in history.snapshots /\ tree \in history.snapshots
  BY <1>1 DEF RestoreInv, HistoryInv
<1> QED BY <1>1, <1>2, NewPlanFacts, RememberKeeps

LEMMA ApplyKeeps == ASSUME RestoreInv, NEW o \in Ops, Apply(o) PROVE RestoreInv'
<1> DEFINE planned == plans[o]
           opened == [planned EXCEPT !.status = "open"]
           c == [op |-> o, mode |-> "apply", pc |-> "start", expected |-> Absent]
<1>1. /\ Pending = {} /\ planned # NoPlan /\ call = Idle
      /\ journal' = [journal EXCEPT ![o] = opened] /\ plans' = [plans EXCEPT ![o] = NoPlan] /\ call' = c
      /\ user' = [user EXCEPT !.edited = FALSE, !.last = o]
      /\ UNCHANGED <<tree, backups, children, history, up, faults>>
  BY DEF Apply, Ready
<1>2. /\ plans \in [Ops -> Plan \cup {NoPlan}] /\ journal \in [Ops -> Plan \cup {NoPlan}]
      /\ user \in UserState /\ planned \in Plan
  BY <1>1, RestoreFacts
<1>3. /\ opened \in Plan /\ opened.status = "open" /\ opened.before = planned.before /\ opened.target = planned.target
      /\ opened.manual = planned.manual /\ opened.started = planned.started /\ opened.done = planned.done
      /\ opened.decision = planned.decision
  BY <1>2 DEF Plan, Statuses
<1>4. c \in Call /\ c.op = o /\ c.mode = "apply" /\ c.pc = "start" /\ c # Idle
  BY DEF Call, Places, Entries, Idle
<1> HIDE DEF opened, c
<1>5. journal[o] = NoPlan /\ Sourced(planned) /\ Progress(planned) /\ planned.decision = "none"
  BY <1>1 DEF RestoreInv, PreviewInv
<1>6. /\ journal' \in [Ops -> Plan \cup {NoPlan}] /\ journal'[o] = opened
      /\ \A q \in Ops : q # o => journal'[q] = journal[q]
      /\ plans' \in [Ops -> Plan \cup {NoPlan}] /\ plans'[o] = NoPlan
      /\ \A q \in Ops : q # o => plans'[q] = plans[q]
  BY <1>1, <1>2, <1>3
<1>7. /\ user' \in UserState /\ user'.last = o /\ user'.dirty = user.dirty /\ user'.latest = user.latest
  BY <1>1, <1>2 DEF UserState
<1>8. opened # NoPlan /\ children[o] = NoPlan /\ ~HasReceipt(o) /\ \A q \in Ops : ~IsOpen(journal[q])
  <2>1. opened # NoPlan
    BY <1>3, ValueAssumption
  <2>2. children[o] = NoPlan /\ ~HasReceipt(o)
    BY <1>5 DEF RestoreInv, ChildInv, ReceiptInv
  <2> QED BY <1>1, <2>1, <2>2 DEF Pending
<1>9. \A q \in Ops : HasReceipt(q)' = HasReceipt(q)
  BY <1>1 DEF HasReceipt
<1>10. HistoryInv'
  BY <1>1 DEF RestoreInv, HistoryInv
<1>11. PreviewInv'
  BY <1>1, <1>6 DEF RestoreInv, PreviewInv, Sourced
<1>12. JournalInv'
  <2>1. Progress(opened) /\ Sourced(opened) /\ opened.decision = "none"
    BY <1>3, <1>5 DEF Progress, Sourced, StepNumbers, StepsOf
  <2>2. \A q \in Ops : journal'[q] # NoPlan =>
           /\ Sourced(journal'[q]) /\ Progress(journal'[q])
           /\ journal'[q].decision = "none" /\ journal'[q].status # "preview"
    BY <1>3, <1>6, <2>1 DEF RestoreInv, JournalInv
  <2> QED BY <1>1, <2>2 DEF JournalInv, Sourced
<1>13. ChildInv'
  BY <1>1, <1>6, <1>8, <1>9 DEF RestoreInv, ChildInv
<1>14. BackupInv'
  <2>1. backups = {}
    BY <1>8, RestoreFacts DEF RestoreInv, BackupInv, Backup
  <2> QED BY <1>1, <2>1 DEF BackupInv
<1>15. PendingInv'
  BY <1>6, <1>7, <1>8 DEF PendingInv
<1>16. ReceiptInv'
  BY <1>1, <1>6, <1>8, <1>9 DEF RestoreInv, ReceiptInv
<1>17. EndedInv'
  BY <1>1, <1>3, <1>6, <1>9 DEF RestoreInv, EndedInv
<1>18. CallInv'
  <2>1. IsOpen(journal'[o])
    BY <1>3, <1>6, <1>8 DEF IsOpen
  <2> QED BY <1>1, <1>4, <1>8, <1>9, <2>1 DEF CallInv, Stepping
<1>19. FoundInv'
  BY <1>1, <1>3, <1>4, <1>6, <1>7, <1>8, <1>9 DEF FoundInv
<1>20. EditsSurvive'
  BY <1>1, <1>7 DEF RestoreInv, EditsSurvive
<1>21. RestoreTypeOK'
  BY <1>1, <1>4, <1>6, <1>7, RestoreFacts DEF RestoreTypeOK
<1> QED BY <1>10, <1>11, <1>12, <1>13, <1>14, <1>15, <1>16, <1>17, <1>18, <1>19, <1>20, <1>21 DEF RestoreInv

-----------------------------------------------------------------------------
(* Recovery.                                                               *)

\* A file that recovery finds as known is the file from before the operation or its target.
LEMMA KnownFiles ==
  ASSUME RestoreInv, NEW o \in Ops, journal[o] # NoPlan, Known(journal[o]), NEW p \in Paths, Kind(tree[p]) = "file"
  PROVE  tree[p] \in {journal[o].before[p], journal[o].target[p]}
<1>1. journal[o] \in Plan /\ Progress(journal[o])
  BY RestoreFacts DEF RestoreInv, JournalInv
<1>2. tree[p] # Absent
  BY DEF Kind
<1>3. CASE tree[p] = journal[o].before[p]
  BY <1>3
<1>4. CASE \E i \in 1..journal[o].started :
             StepsOf(journal[o])[i].path = p /\ tree[p] \in {StepsOf(journal[o])[i].before, StepsOf(journal[o])[i].after, Absent}
  <2>1. PICK i \in 1..journal[o].started :
           StepsOf(journal[o])[i].path = p /\ tree[p] \in {StepsOf(journal[o])[i].before, StepsOf(journal[o])[i].after, Absent}
    BY <1>4
  <2>2. Len(StepsOf(journal[o])) \in Nat
    BY <1>1, StepFacts
  <2>3. i \in StepNumbers(journal[o])
    BY <1>1, <2>2 DEF Progress, StepNumbers
  <2>4. /\ StepsOf(journal[o])[i].before \in {journal[o].before[p], Absent}
        /\ StepsOf(journal[o])[i].after \in {journal[o].target[p], Absent}
    BY <1>1, <2>1, <2>3, StepFacts
  <2> QED BY <1>2, <2>1, <2>4
<1> QED BY <1>3, <1>4 DEF Known

LEMMA RecoverCallKeeps ==
  ASSUME RestoreInv, NEW o \in Ops, NEW d \in {"complete", "rollback"}, Recover(o, d)
  PROVE  RestoreInv'
<1>1. /\ call = Idle /\ CanRecover(o, d)
      /\ UNCHANGED <<tree, backups, plans, journal, history, up, faults>>
  BY DEF Recover, Ready
<1>2. IsOpen(journal[o]) /\ o = user.last /\ journal[o] # NoPlan /\ journal[o].status = "open" /\ journal[o] \in Plan
  BY <1>1, RestoreFacts DEF CanRecover, Pending, IsOpen, RestoreInv, PendingInv
<1>3. user \in UserState
  BY RestoreFacts
<1>4. \A q \in Ops : HasReceipt(q)' = HasReceipt(q)
  BY <1>1 DEF HasReceipt
<1>5. CASE HasReceipt(o)
  <2> DEFINE c == [op |-> o, mode |-> "receipt", pc |-> "clean", expected |-> Absent]
  <2>1. call' = c /\ user' = [user EXCEPT !.dirty = {}] /\ UNCHANGED children /\ tree = journal[o].target
    BY <1>1, <1>5 DEF Recover, Scanned, CanRecover
  <2>2. c \in Call /\ c.op = o /\ c.mode = "receipt" /\ c.pc = "clean" /\ c # Idle
    BY DEF Call, Places, Entries, Idle
  <2> HIDE DEF c
  <2>3. user' \in UserState /\ user'.last = user.last /\ user'.latest = user.latest
    BY <1>3, <2>1 DEF UserState
  <2>4. Static'
    BY <1>1, <2>1, <2>3, StaticUnchanged
  <2>5. BackupInv'
    BY <1>1, <2>1, BackupsUnchanged
  <2>6. CallInv'
    BY <1>1, <1>2, <1>4, <1>5, <2>1, <2>2 DEF CallInv, Stepping, IsOpen
  <2>7. FoundInv'
    <3>1. Goal(o)' = journal[o].target
      BY <1>1, <1>2 DEF Goal
    <3>2. Settled(Goal(o))'
      BY <1>1, <2>1, <3>1 DEF Settled
    <3>3. ~RollsBack' /\ call'.pc # "commit"
      BY <2>1, <2>2 DEF RollsBack
    <3> QED BY <1>2, <2>3, <3>2, <3>3 DEF FoundInv
  <2>8. EditsSurvive'
    BY <1>1, <2>3 DEF RestoreInv, EditsSurvive
  <2>9. RestoreTypeOK'
    BY <1>1, <2>1, <2>2, <2>3, RestoreFacts DEF RestoreTypeOK
  <2> QED BY <2>4, <2>5, <2>6, <2>7, <2>8, <2>9 DEF Static, RestoreInv
<1>6. CASE ~HasReceipt(o)
  <2> DEFINE c == [op |-> o, mode |-> "child", pc |-> "skip", expected |-> Absent]
             new == NewChild(o, d)
  <2>1. /\ call' = c /\ UNCHANGED user
        /\ children' = IF children[o] = NoPlan THEN [children EXCEPT ![o] = new] ELSE children
        /\ children[o] = NoPlan => Known(journal[o])
    BY <1>1, <1>6 DEF Recover, CanRecover
  <2>2. c \in Call /\ c.op = o /\ c.mode = "child" /\ c.pc = "skip" /\ c # Idle
    BY DEF Call, Places, Entries, Idle
  <2>3. /\ new \in Plan /\ new.before = tree /\ new.started = 0 /\ new.done = 0 /\ new.decision = d
        /\ new.target = (IF d = "complete" THEN journal[o].target ELSE journal[o].before)
        /\ new.status = "open"
    <3>1. tree \in Trees /\ journal[o].target \in Trees /\ journal[o].before \in Trees
      BY <1>2, RestoreFacts DEF Plan
    <3> DEFINE t == IF d = "complete" THEN journal[o].target ELSE journal[o].before
    <3>2. new = [journal[o] EXCEPT !.before = tree, !.started = 0, !.done = 0, !.decision = d, !.target = t]
      BY <1>2 DEF NewChild, Plan
    <3>3. t \in Trees
      BY <3>1
    <3>4. /\ new \in Plan /\ new.before = tree /\ new.started = 0 /\ new.done = 0 /\ new.decision = d
          /\ new.target = t /\ new.status = "open"
      <4> HIDE DEF t, new
      <4> QED BY <1>2, <3>1, <3>2, <3>3 DEF Plan
    <3> QED BY <3>4
  <2>4. new # NoPlan /\ Progress(new)
    BY <2>3, ValueAssumption DEF Progress
  <2> HIDE DEF c, new
  <2>5. children \in [Ops -> Plan \cup {NoPlan}]
    BY RestoreFacts
  <2>6. /\ children' \in [Ops -> Plan \cup {NoPlan}]
        /\ \A q \in Ops : children[q] # NoPlan \/ q # o => children'[q] = children[q]
        /\ children[o] = NoPlan => children'[o] = new
    BY <2>1, <2>3, <2>5
  <2>7. IsOpen(children'[o])
    <3>1. children[o] # NoPlan => IsOpen(children[o])
      BY <1>2, <1>6 DEF RestoreInv, ChildInv
    <3> QED BY <2>3, <2>4, <2>6, <3>1 DEF IsOpen
  <2>8. ChildInv'
    <3>1. ASSUME NEW q \in Ops, children[q] # NoPlan
          PROVE  /\ journal[q] # NoPlan /\ Progress(children'[q])
                 /\ children'[q].decision \in {"complete", "rollback"} /\ children'[q].status # "preview"
                 /\ children'[q].target = IF children'[q].decision = "complete" THEN journal[q].target ELSE journal[q].before
                 /\ \A p \in Paths : Kind(children'[q].before[p]) = "file" =>
                       children'[q].before[p] \in {journal[q].before[p], journal[q].target[p]}
                 /\ IsOpen(journal[q]) /\ ~HasReceipt(q) => IsOpen(children'[q])
      BY <2>6, <3>1 DEF RestoreInv, ChildInv
    <3>2. ASSUME children[o] = NoPlan
          PROVE  /\ journal[o] # NoPlan /\ Progress(new)
                 /\ new.decision \in {"complete", "rollback"} /\ new.status # "preview"
                 /\ new.target = IF new.decision = "complete" THEN journal[o].target ELSE journal[o].before
                 /\ \A p \in Paths : Kind(new.before[p]) = "file" =>
                       new.before[p] \in {journal[o].before[p], journal[o].target[p]}
      BY <1>2, <2>1, <2>3, <2>4, <3>2, KnownFiles
    <3>3. \A q \in Ops : children'[q] # NoPlan => children[q] # NoPlan \/ (q = o /\ children'[q] = new)
      BY <2>6
    <3>4. ASSUME NEW q \in Ops, children'[q] # NoPlan
          PROVE  /\ journal[q] # NoPlan /\ Progress(children'[q])
                 /\ children'[q].decision \in {"complete", "rollback"} /\ children'[q].status # "preview"
                 /\ children'[q].target = IF children'[q].decision = "complete" THEN journal[q].target ELSE journal[q].before
                 /\ \A p \in Paths : Kind(children'[q].before[p]) = "file" =>
                       children'[q].before[p] \in {journal[q].before[p], journal[q].target[p]}
                 /\ IsOpen(journal[q]) /\ ~HasReceipt(q) => IsOpen(children'[q])
      <4>1. CASE children[q] # NoPlan
        BY <3>1, <4>1
      <4>2. CASE children[q] = NoPlan
        BY <2>7, <3>2, <3>3, <3>4, <4>2
      <4> QED BY <4>1, <4>2
    <3> QED BY <1>1, <1>4, <3>4 DEF ChildInv
  <2>9. HistoryInv' /\ PreviewInv' /\ JournalInv' /\ PendingInv'
    BY <1>1, <2>1 DEF RestoreInv, HistoryInv, PreviewInv, JournalInv, PendingInv, Sourced, IsOpen
  <2>10. ReceiptInv'
    <3>1. \A q \in Ops : HasReceipt(q) => children'[q] = children[q]
      BY <1>6, <2>6
    <3> QED BY <1>1, <1>4, <3>1 DEF RestoreInv, ReceiptInv
  <2>11. EndedInv'
    <3>1. \A q \in Ops : journal[q] # NoPlan /\ journal[q].status = "rolled_back" => children'[q] = children[q]
      BY <1>2, <2>6
    <3> QED BY <1>1, <1>4, <3>1 DEF RestoreInv, EndedInv
  <2>12. BackupInv'
    <3>1. \A b \in backups : b.op \in Ops /\ PlanOf(b)' = PlanOf(b)
      <4>1. \A b \in backups : b.op \in Ops /\ PlanOf(b) # NoPlan
        BY RestoreFacts DEF Backup, RestoreInv, BackupInv
      <4> QED BY <1>1, <2>6, <4>1 DEF PlanOf
    <3> QED BY <1>1, <3>1 DEF RestoreInv, BackupInv, StepNumbers, IsOpen
  <2>13. CallInv'
    BY <1>1, <1>2, <1>4, <1>6, <2>1, <2>2, <2>7 DEF CallInv, Stepping, IsOpen
  <2>14. FoundInv'
    <3>1. \A q \in Ops : q = user'.last => journal'[q].status = "open" /\ ~HasReceipt(q)'
      BY <1>1, <1>2, <1>4, <1>6, <2>1
    <3> QED BY <2>1, <2>2, <3>1 DEF FoundInv
  <2>15. EditsSurvive'
    BY <1>1, <2>1 DEF RestoreInv, EditsSurvive
  <2>16. RestoreTypeOK'
    BY <1>1, <2>1, <2>2, <2>6, RestoreFacts DEF RestoreTypeOK
  <2> QED BY <2>8, <2>9, <2>10, <2>11, <2>12, <2>13, <2>14, <2>15, <2>16 DEF RestoreInv
<1> QED BY <1>5, <1>6

LEMMA FaultKeeps == ASSUME RestoreInv, Fault PROVE RestoreInv'
  BY GiveUp, RestoreFacts DEF Fault, Raise

LEMMA CrashKeeps == ASSUME RestoreInv, Crash PROVE RestoreInv'
<1>1. /\ call' = Idle /\ up' = FALSE /\ faults' = faults + 1 /\ plans' = [o \in Ops |-> NoPlan]
      /\ UNCHANGED <<tree, backups, journal, children, history, user>>
  BY DEF Crash
<1>2. HistoryInv' /\ JournalInv' /\ ChildInv' /\ PendingInv' /\ ReceiptInv' /\ EndedInv'
  BY <1>1 DEF RestoreInv, HistoryInv, JournalInv, ChildInv, PendingInv, ReceiptInv, EndedInv, Sourced, IsOpen, HasReceipt
<1>3. PreviewInv'
  BY <1>1 DEF PreviewInv
<1>4. BackupInv'
  BY <1>1, BackupsUnchanged
<1>5. call' \in Call /\ CallInv'
  BY <1>1 DEF Call, Idle, Places, Entries, CallInv
<1>6. FoundInv'
  <2>1. FoundInv /\ call'.pc = "idle"
    BY <1>1 DEF RestoreInv, Idle
  <2> QED BY <1>1, <2>1 DEF FoundInv, Settled, Goal, HasReceipt
<1>7. EditsSurvive'
  BY <1>1 DEF RestoreInv, EditsSurvive
<1>8. RestoreTypeOK'
  <2>1. plans' \in [Ops -> Plan \cup {NoPlan}]
    BY <1>1
  <2>2. faults' \in Nat /\ up' \in BOOLEAN
    <3>1. faults \in Nat
      BY RestoreFacts
    <3>2. up' \in BOOLEAN
      BY <1>1, Zenon
    <3> QED BY <1>1, <3>1, <3>2
  <2>3. /\ tree' \in Trees /\ backups' \subseteq Backup
        /\ journal' \in [Ops -> Plan \cup {NoPlan}] /\ children' \in [Ops -> Plan \cup {NoPlan}]
        /\ history' \in History /\ user' \in UserState
    BY <1>1, RestoreFacts
  <2> QED BY <1>5, <2>1, <2>2, <2>3 DEF RestoreTypeOK
<1> QED BY <1>2, <1>3, <1>4, <1>5, <1>6, <1>7, <1>8 DEF RestoreInv

LEMMA RestartKeeps == ASSUME RestoreInv, Restart PROVE RestoreInv'
<1>1. up' = TRUE /\ UNCHANGED <<tree, backups, plans, journal, children, history, faults>>
  BY DEF Restart
<1>2. user \in UserState
  BY RestoreFacts
<1>3. BackupInv'
  BY <1>1, BackupsUnchanged
<1>4. CASE Proven = {}
  <2>1. UNCHANGED <<call, user>>
    BY <1>4 DEF Restart
  <2>2. Static'
    BY <1>1, <2>1, StaticUnchanged
  <2>3. CallInv'
    BY <1>1, <2>1 DEF RestoreInv, CallInv, HasReceipt, IsOpen, RollsBack, Running, Who, StepNumbers
  <2>4. FoundInv'
    BY <1>1, <2>1 DEF RestoreInv, FoundInv, Settled, Goal, HasReceipt, RollsBack
  <2>5. EditsSurvive'
    BY <1>1, <2>1 DEF RestoreInv, EditsSurvive
  <2>6. RestoreTypeOK'
    BY <1>1, <2>1, RestoreFacts DEF RestoreTypeOK
  <2> QED BY <1>3, <2>2, <2>3, <2>4, <2>5, <2>6 DEF Static, RestoreInv
<1>5. CASE Proven # {}
  <2>1. PICK o \in Proven :
          /\ call' = [op |-> o, mode |-> "reconcile", expected |-> Absent, pc |-> IF HasReceipt(o) THEN "rescan" ELSE "commit"]
          /\ user' = [user EXCEPT !.dirty = {}]
    <3>1. (CHOOSE o \in Proven : TRUE) \in Proven
      BY <1>5
    <3> QED BY <1>5, <3>1 DEF Restart, Scanned
  <2>2. o \in Ops /\ IsOpen(journal[o]) /\ ~IsOpen(children[o]) /\ tree = journal[o].target
    BY DEF Proven, Pending
  <2>3. call' \in Call /\ call'.op = o /\ call'.mode = "reconcile" /\ call' # Idle
        /\ call'.pc = IF HasReceipt(o) THEN "rescan" ELSE "commit"
    BY <2>1, <2>2 DEF Call, Places, Entries, Idle
  <2>4. user' \in UserState /\ user'.last = user.last /\ user'.latest = user.latest
    BY <1>2, <2>1 DEF UserState
  <2>5. journal[o] # NoPlan /\ journal[o].status = "open" /\ o = user.last
    BY <2>2 DEF IsOpen, RestoreInv, PendingInv
  <2>6. \A q \in Ops : HasReceipt(q)' = HasReceipt(q)
    BY <1>1 DEF HasReceipt
  <2>7. Static'
    BY <1>1, <2>4, StaticUnchanged
  <2>8. CallInv'
    BY <1>1, <2>2, <2>3, <2>6 DEF CallInv, Stepping, IsOpen, RollsBack
  <2>9. FoundInv'
    <3>1. Goal(o)' = journal[o].target
      BY <1>1, <2>5 DEF Goal
    <3>2. Settled(Goal(o))' /\ Settled(journal[call.op].target)'
      BY <1>1, <2>2, <2>3, <3>1 DEF Settled
    <3>3. call'.pc # "clean"
      BY <2>3
    <3> QED BY <2>4, <2>5, <3>2, <3>3 DEF FoundInv
  <2>10. EditsSurvive'
    BY <1>1, <2>4 DEF RestoreInv, EditsSurvive
  <2>11. RestoreTypeOK'
    BY <1>1, <2>3, <2>4, RestoreFacts DEF RestoreTypeOK
  <2> QED BY <1>3, <2>7, <2>8, <2>9, <2>10, <2>11 DEF Static, RestoreInv
<1> QED BY <1>4, <1>5

-----------------------------------------------------------------------------
(* The theorems.                                                           *)

LEMMA RestoreInvKept == RestoreInv /\ [RestoreNext]_vars => RestoreInv'
<1> SUFFICES ASSUME RestoreInv, [RestoreNext]_vars PROVE RestoreInv'
  OBVIOUS
<1>1. CASE UNCHANGED vars
  <2>1. Static' /\ BackupInv'
    BY <1>1, StaticUnchanged, BackupsUnchanged DEF vars
  <2>2. CallInv'
    BY <1>1 DEF vars, RestoreInv, CallInv, HasReceipt, IsOpen, RollsBack, Running, Who, StepNumbers
  <2>3. FoundInv'
    BY <1>1 DEF vars, RestoreInv, FoundInv, Settled, Goal, HasReceipt, RollsBack
  <2>4. EditsSurvive' /\ RestoreTypeOK'
    BY <1>1 DEF vars, RestoreInv, EditsSurvive, RestoreTypeOK
  <2> QED BY <2>1, <2>2, <2>3, <2>4 DEF Static, RestoreInv
<1>2. CASE \E p \in Paths, e \in Files \cup Dirs \cup {Absent} : Edit(p, e)
  BY <1>2, EditKeeps
<1>3. CASE Checkpoint \/ Touch \/ Discard \/ \E output \in Outputs : RunTurn(output)
  BY <1>3, CheckpointKeeps, TouchKeeps, DiscardKeeps, RunTurnKeeps
<1>4. CASE \E o \in Ops : Preview(o) \/ PreviewCandidate(o) \/ Apply(o) \/ \E d \in {"complete", "rollback"} : Recover(o, d)
  BY <1>4, PreviewKeeps, PreviewCandidateKeeps, ApplyKeeps, RecoverCallKeeps
<1>5. CASE CallStep
  <2>1. CASE SkipDone \/ StartStep \/ ReadStep \/ MarkStep
    BY <2>1, SkipDoneKeeps, StartStepKeeps, ReadStepKeeps, MarkStepKeeps
  <2>2. CASE MoveFile \/ MoveDir \/ Publish \/ Chmod
    BY <2>2, MoveFileKeeps, MoveDirKeeps, PublishKeeps, ChmodKeeps
  <2>3. CASE Scan \/ Commit \/ Rescan \/ Clean \/ EndCall
    BY <2>3, ScanKeeps, CommitKeeps, RescanKeeps, CleanKeeps, EndCallKeeps
  <2> QED BY <1>5, <2>1, <2>2, <2>3 DEF CallStep
<1>6. CASE Fault \/ Crash \/ Restart
  BY <1>6, FaultKeeps, CrashKeeps, RestartKeeps
<1> QED BY <1>1, <1>2, <1>3, <1>4, <1>5, <1>6 DEF RestoreNext

\* The inductive invariant of the restoration: plan, journal, backups, history and tree fit together after every
\* step, crash and recovery (restore.py).
THEOREM RestoreInvariant == RestoreSpec => []RestoreInv
<1> QED BY RestoreInvHolds, RestoreInvKept, PTL DEF RestoreSpec

\* The tree, the plans, the journal, the backups and the history keep their types (restore.py).
THEOREM RestoreTypes == RestoreSpec => []RestoreTypeOK
<1>1. RestoreInv => RestoreTypeOK
  BY DEF RestoreInv
<1> QED BY <1>1, RestoreInvariant, PTL

\* What a person wrote into a file after the preview is never overwritten or removed by a restoration, its undoing
\* or its recovery (the checks of restore.py before every step).
THEOREM NoEditIsLost == RestoreSpec => []EditsSurvive
<1>1. RestoreInv => EditsSurvive
  BY DEF RestoreInv
<1> QED BY <1>1, RestoreInvariant, PTL

\* An operation has one receipt at most, ends as it was decided, and then the tree is what its plan says except
\* where a person wrote since (the commit and recovery of restore.py).
THEOREM OperationsEndAsDecided == RestoreSpec => []EndsAsDecided
<1>1. ASSUME RestoreInv PROVE EndsAsDecided
  <2> SUFFICES ASSUME NEW o \in Ops, journal[o] # NoPlan
      PROVE LET status == journal[o].status
                decided == IF children[o] = NoPlan THEN "none" ELSE children[o].decision
            IN  /\ history.receipts[o] <= 1
                /\ HasReceipt(o) /\ journal[o].action = "candidate" => history.candidate.status = "applied"
                /\ status = "committed" => HasReceipt(o) /\ decided # "rollback"
                /\ status = "rolled_back" => ~HasReceipt(o) /\ decided = "rollback"
                /\ status # "open" => \A b \in backups : b.op # o
                /\ (status # "open" \/ HasReceipt(o)) /\ o = user.last =>
                      \A p \in Paths \ user.dirty : tree[p] = Goal(o)[p]
    BY DEF EndsAsDecided
  <2>1. history.receipts[o] \in Nat
    BY <1>1, RestoreFacts DEF History
  <2>2. history.receipts[o] <= 1
    BY <1>1, <2>1 DEF RestoreInv, ReceiptInv, HasReceipt
  <2>3. HasReceipt(o) =>
          /\ journal[o].action = "candidate" => history.candidate.status = "applied"
          /\ children[o] # NoPlan => children[o].decision = "complete"
    BY <1>1 DEF RestoreInv, ReceiptInv
  <2>4. /\ journal[o].status = "committed" => HasReceipt(o)
        /\ journal[o].status = "rolled_back" =>
              ~HasReceipt(o) /\ children[o] # NoPlan /\ children[o].decision = "rollback"
    BY <1>1 DEF RestoreInv, EndedInv
  <2>5. journal[o].status # "open" => \A b \in backups : b.op # o
    BY <1>1 DEF RestoreInv, BackupInv, IsOpen
  <2>6. (journal[o].status # "open" \/ HasReceipt(o)) /\ o = user.last => Settled(Goal(o))
    BY <1>1 DEF RestoreInv, FoundInv
  <2> QED BY <2>2, <2>3, <2>4, <2>5, <2>6 DEF Settled
<1> QED BY <1>1, RestoreInvariant, PTL

=============================================================================
