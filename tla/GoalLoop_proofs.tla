--------------------------- MODULE GoalLoop_proofs ---------------------------
(***************************************************************************)
(* Proofs about the cycle of a process, for every set of conditions, every *)
(* goal, agents of any actions and every value of the bounds.              *)
(***************************************************************************)
EXTENDS GoalLoop, FiniteSetTheorems, WellFoundedInduction, TLAPS

-----------------------------------------------------------------------------
(* Worlds, actions and costs.                                               *)

LEMMA WorldsAre == \A w \in Worlds : /\ IsWorld(w)
                                     /\ w \in [DOMAIN w -> BOOLEAN]
BY DEF Worlds, IsWorld

LEMMA MadeWorld == ASSUME NEW S \in SUBSET Conditions, NEW w \in [S -> BOOLEAN] PROVE w \in Worlds
BY DEF Worlds

\* An action leads from a world to a world.
LEMMA ApplyWorld == ASSUME NEW w \in Worlds, NEW e \in Worlds PROVE Apply(w, e) \in Worlds
<1>. DEFINE S == DOMAIN w \union DOMAIN e
<1>1. S \in SUBSET Conditions
  BY WorldsAre DEF IsWorld
<1>2. Apply(w, e) \in [S -> BOOLEAN]
  BY WorldsAre DEF Apply, IsWorld
<1>. QED BY <1>1, <1>2, MadeWorld

LEMMA AssumeWorld ==
  ASSUME NEW w \in Worlds, NEW lits \in SUBSET (Conditions \X BOOLEAN)
  PROVE  Assume(w, lits) \in Worlds
<1>. DEFINE S == {x[1] : x \in lits}
            e == [k \in S |-> <<k, TRUE>> \in lits]
<1>1. S \in SUBSET Conditions
  OBVIOUS
<1>2. e \in [S -> BOOLEAN]
  OBVIOUS
<1>3. e \in Worlds
  <2>. HIDE DEF S, e
  <2>. QED BY <1>1, <1>2, MadeWorld
<1>. QED BY <1>3, ApplyWorld DEF Assume

\* There are finitely many worlds: each is told by the conditions it knows and those that are true in it.
LEMMA WorldsFinite == IsFiniteSet(Worlds)
<1>. DEFINE P == (SUBSET Conditions) \X (SUBSET Conditions)
            f == [w \in Worlds |-> <<DOMAIN w, {k \in DOMAIN w : w[k]}>>]
<1>1. IsFiniteSet(P)
  <2>1. IsFiniteSet(SUBSET Conditions)
    BY ConditionsAssumption, FS_SUBSET
  <2>. QED BY <2>1, FS_Product
<1>2. f \in [Worlds -> P]
  BY WorldsAre DEF IsWorld
<1>3. ASSUME NEW v \in Worlds, NEW w \in Worlds, f[v] = f[w] PROVE v = w
  <2>1. DOMAIN v = DOMAIN w /\ {k \in DOMAIN v : v[k]} = {k \in DOMAIN w : w[k]}
    BY <1>3
  <2>2. \A k \in DOMAIN v : v[k] <=> w[k]
    BY <2>1
  <2>3. \A k \in DOMAIN v : v[k] = w[k]
    BY <2>1, <2>2, WorldsAre DEF IsWorld
  <2>. QED BY <2>1, <2>3, WorldsAre
<1>4. f \in Injection(Worlds, P)
  <2>. HIDE DEF f, P
  <2>. QED BY <1>2, <1>3 DEF Injection, IsInjective
<1>. HIDE DEF f, P
<1>. QED BY <1>1, <1>4, FS_Injection

LEMMA CostPositive == \A a \in Actions : Cost(a) \in Nat /\ Cost(a) >= 1
BY DEF Actions, Cost

\* A set of numbers has a least one.
LEMMA LeastOf ==
  ASSUME NEW S \in SUBSET Nat, S # {}
  PROVE  Min(S) \in S /\ \A y \in S : Min(S) <= y
<1>1. PICK x \in S : \A y \in S : <<y, x>> \notin OpToRel(<, Nat)
  BY NatLessThanWellFounded, WFMin
<1>2. \A y \in S : x <= y
  <2>. SUFFICES ASSUME NEW y \in S, y < x PROVE FALSE
    OBVIOUS
  <2>1. <<y, x>> \in OpToRel(<, Nat)
    BY DEF OpToRel
  <2>. QED BY <1>1, <2>1
<1>. QED BY <1>2 DEF Min

\* MinCost bounds the cost of each action from below.
LEMMA MinCostBound ==
  ASSUME NEW as \in SUBSET Actions
  PROVE  MinCost(as) \in Nat /\ \A a \in as : MinCost(as) <= Cost(a)
<1>. DEFINE C == {Cost(a) : a \in as}
<1>1. C \in SUBSET Nat
  BY CostPositive
<1>2. CASE as = {}
  BY <1>2 DEF MinCost
<1>3. CASE as # {}
  <2>1. C # {} /\ \A a \in as : Cost(a) \in C
    BY <1>3
  <2>2. Min(C) \in Nat /\ \A y \in C : Min(C) <= y
    <3>. HIDE DEF C
    <3>. QED BY <1>1, <2>1, LeastOf
  <2>3. MinCost(as) = Min(C)
    BY <1>3 DEF MinCost
  <2>. QED BY <2>1, <2>2, <2>3
<1>. QED BY <1>2, <1>3

\* The estimate of A*: a cost that one more action has at least, and nothing at the goal.
LEMMA EstimateBound ==
  ASSUME NEW as \in SUBSET Actions, NEW w
  PROVE  /\ Estimate(as, Goal, w) \in Nat
         /\ ~Satisfies(w, Goal) => Estimate(as, Goal, w) = MinCost(as)
         /\ \A a \in as : Estimate(as, Goal, w) <= Cost(a)
<1>1. MinCost(as) \in Nat /\ \A a \in as : MinCost(as) <= Cost(a)
  BY MinCostBound
<1>2. \A a \in as : Cost(a) \in Nat /\ Cost(a) >= 1
  BY CostPositive
<1>3. CASE Satisfies(w, Goal)
  <2>1. Estimate(as, Goal, w) = 0
    BY <1>3 DEF Estimate
  <2>2. \A a \in as : 0 <= Cost(a)
    <3>. TAKE a \in as
    <3>1. Cost(a) \in Nat
      BY <1>2
    <3>. QED BY <3>1
  <2>3. 0 \in Nat
    OBVIOUS
  <2>. QED BY <1>3, <2>1, <2>2, <2>3, Zenon
<1>4. CASE ~Satisfies(w, Goal)
  BY <1>1, <1>4 DEF Estimate
<1>. QED BY <1>3, <1>4

\* No two actions of a name.
Told(as) == \A a, b \in as : a.name = b.name => a = b

\* The planner weighs the actions by their utility, and keeps their names.
LEMMA ReweightedActions ==
  ASSUME NEW as \in SUBSET Actions, Told(as)
  PROVE  /\ Reweighted(as) \in SUBSET Actions /\ Told(Reweighted(as))
         /\ \A b \in Reweighted(as) : \E a \in as : a.name = b.name
<1>. DEFINE w(a) == [a EXCEPT !.cost = (2 * Cost(a)) \div a.utility]
            useful == {b \in as : b.utility > 0}
<1>1. \A a \in useful : w(a) \in Actions /\ w(a).name = a.name
  <2>. TAKE a \in useful
  <2>1. (2 * Cost(a)) \div a.utility \in Int
    <3>1. \A c \in Nat, u \in Nat \ {0} : (2 * c) \div u \in Int
      OBVIOUS
    <3>2. a \in Actions /\ a.utility > 0
      OBVIOUS
    <3>3. Cost(a) \in Nat
      BY <3>2, CostPositive
    <3>4. a.utility \in Nat \ {0}
      BY <3>2 DEF Actions
    <3>. QED BY <3>1, <3>3, <3>4
  <2>. QED BY <2>1 DEF Actions
<1>2. Reweighted(as) = {w(a) : a \in useful}
  BY DEF Reweighted
<1>3. useful \subseteq as
  OBVIOUS
<1>. HIDE DEF w, useful
<1>4. \A b \in Reweighted(as) : \E a \in useful : b = w(a)
  BY <1>2
<1>5. \A b \in Reweighted(as) : b \in Actions /\ \E a \in useful : b = w(a) /\ a.name = b.name
  BY <1>1, <1>4
<1>6. Told(Reweighted(as))
  <2>. SUFFICES ASSUME NEW b \in Reweighted(as), NEW c \in Reweighted(as), b.name = c.name PROVE b = c
    BY DEF Told
  <2>1. PICK x \in useful : b = w(x) /\ x.name = b.name
    BY <1>5
  <2>2. PICK y \in useful : c = w(y) /\ y.name = c.name
    BY <1>5
  <2>. QED BY <1>3, <2>1, <2>2 DEF Told
<1>. QED BY <1>3, <1>5, <1>6

-----------------------------------------------------------------------------
(* What the search and the waits are made of.                               *)

\* An agent plans with its own actions, weighed or not.
LEMMA AgentActions ==
  ASSUME agent \in Agents
  PROVE  /\ agent.planner \in Planners
         /\ agent.actions \in SUBSET Actions /\ Told(agent.actions)
         /\ Admissible \in SUBSET agent.actions
         /\ Operators \in SUBSET Actions /\ Told(Operators)
         /\ \A b \in Operators : \E a \in agent.actions : a.name = b.name
<1>1. agent.planner \in Planners /\ agent.actions \in SUBSET Actions /\ Told(agent.actions)
  BY AgentsAssumption DEF Told
<1>2. Admissible \in SUBSET agent.actions /\ Admissible \in SUBSET Actions /\ Told(Admissible)
  BY <1>1 DEF Admissible, Told
<1>3. CASE Operators = Admissible
  BY <1>1, <1>2, <1>3
<1>4. CASE Operators = Reweighted(Admissible)
  <2>1. \A b \in Operators : \E a \in Admissible : a.name = b.name
    BY <1>2, <1>4, ReweightedActions
  <2>2. Operators \in SUBSET Actions /\ Told(Operators)
    BY <1>2, <1>4, ReweightedActions
  <2>. QED BY <1>1, <1>2, <2>1, <2>2
<1>. QED BY <1>3, <1>4 DEF Operators

\* What others have to establish is a set of conditions with a value.
LEMMA ExternalConditions ==
  ASSUME agent \in Agents
  PROVE  EstablishedElsewhere \in SUBSET (Conditions \X BOOLEAN)
<1>1. \A all, req : req \in Worlds => Wanted(all, p.world, req) \subseteq Conditions \X BOOLEAN
  BY WorldsAre DEF Wanted, IsWorld
<1>2. \A a \in Admissible : a.pre \in Worlds
  BY AgentActions DEF Actions
<1>3. Goal \in Worlds
  BY ConditionsAssumption
<1>4. EstablishedElsewhere \subseteq Wanted(AllActions, p.world, Goal) \union UNION {Wanted(AllActions, p.world, a.pre) : a \in Admissible}
  BY DEF EstablishedElsewhere, External
<1>5. UNION {Wanted(AllActions, p.world, a.pre) : a \in Admissible} \subseteq Conditions \X BOOLEAN
  BY <1>1, <1>2
<1>. QED BY <1>1, <1>3, <1>4, <1>5

Nodes == [world : Worlds, g : Nat, f : Nat, plan : Seq(Actions)]
Bests == UNION {[known -> Nat] : known \in SUBSET Worlds}
Searches == [mode : {"none", "goal", "relaxed"}, open : SUBSET Nodes, best : Bests, expansions : 0..MaxExpansions]

\* The actions of a plan of the search are those of the agent, by their names.
Known(n) == \A i \in 1..Len(n.plan) : \E a \in agent.actions : a.name = n.plan[i].name

LEMMA NamedPlan ==
  ASSUME agent \in Agents, NEW n \in Nodes, Known(n)
  PROVE  Named(n.plan) \in Seq(agent.actions) /\ (n.plan # <<>> => Named(n.plan) # <<>>)
<1>. DEFINE seq == Named(n.plan)
            named(i) == CHOOSE a \in agent.actions : a.name = n.plan[i].name
<1>1. n.plan \in Seq(Actions) /\ Len(n.plan) \in Nat
  BY DEF Nodes
<1>2. \A i \in 1..Len(n.plan) : named(i) \in agent.actions
  BY DEF Known
<1>3. seq = [i \in 1..Len(n.plan) |-> named(i)]
  BY DEF Named
<1>4. seq \in [1..Len(n.plan) -> agent.actions]
  <2>. HIDE DEF named
  <2>. QED BY <1>2, <1>3
<1>5. seq \in Seq(agent.actions) /\ Len(seq) = Len(n.plan)
  <2>. HIDE DEF named, seq
  <2>. QED BY <1>1, <1>4
<1>6. n.plan # <<>> => Len(n.plan) # 0
  BY <1>1
<1>. HIDE DEF seq
<1>7. n.plan # <<>> => seq # <<>>
  BY <1>5, <1>6
<1>. QED BY <1>5, <1>7 DEF seq

\* What an expansion pushes: a node one action further, in a world reached at a lower cost than before.
LEMMA KidOf ==
  ASSUME agent \in Agents, NEW n \in Nodes, Known(n), NEW k \in Kids(n)
  PROVE  /\ k \in Nodes /\ Known(k) /\ k.plan # <<>>
         /\ k.f = k.g + Estimate(Operators, Goal, k.world)
         /\ k.world \in DOMAIN search.best => k.g < search.best[k.world]
         /\ \E a \in Operators : /\ k.world = Apply(n.world, a.effects) /\ k.g = n.g + Cost(a)
                                 /\ \A b \in Operators : Satisfies(n.world, b.pre) /\ Apply(n.world, b.effects) = k.world =>
                                      Cost(a) < Cost(b) \/ (Cost(a) = Cost(b) /\ a.name <= b.name)
                                 /\ Satisfies(n.world, a.pre) /\ k.plan = Append(n.plan, a)
<1>1. PICK a \in Operators :
        /\ Satisfies(n.world, a.pre)
        /\ \A b \in Operators : Satisfies(n.world, b.pre) /\ Apply(n.world, b.effects) = Apply(n.world, a.effects) =>
             Cost(a) < Cost(b) \/ (Cost(a) = Cost(b) /\ a.name <= b.name)
        /\ Improves(n.g + Cost(a), Apply(n.world, a.effects))
        /\ k = [world |-> Apply(n.world, a.effects), g |-> n.g + Cost(a),
                f |-> n.g + Cost(a) + Estimate(Operators, Goal, Apply(n.world, a.effects)), plan |-> Append(n.plan, a)]
  BY DEF Kids, Applicable
<1>2. a \in Actions /\ a.effects \in Worlds /\ n.world \in Worlds /\ n.g \in Nat /\ n.plan \in Seq(Actions)
  BY AgentActions DEF Nodes, Actions
<1>3. /\ k.world = Apply(n.world, a.effects) /\ k.g = n.g + Cost(a)
      /\ k.f = k.g + Estimate(Operators, Goal, k.world) /\ k.plan = Append(n.plan, a)
  BY <1>1
<1>4. k.world \in Worlds
  BY <1>2, <1>3, ApplyWorld
<1>5. Cost(a) \in Nat /\ Estimate(Operators, Goal, k.world) \in Nat
  BY <1>2, AgentActions, CostPositive, EstimateBound
<1>6. k.g \in Nat /\ k.f \in Nat
  BY <1>2, <1>3, <1>5
<1>7. k.plan \in Seq(Actions) /\ Len(k.plan) = Len(n.plan) + 1 /\ k.plan # <<>>
  BY <1>2, <1>3
<1>8. k \in Nodes
  <2>1. k = [world |-> k.world, g |-> k.g, f |-> k.f, plan |-> k.plan]
    BY <1>1
  <2>. QED BY <2>1, <1>4, <1>6, <1>7 DEF Nodes
<1>9. Known(k)
  <2>. SUFFICES ASSUME NEW i \in 1..Len(k.plan) PROVE \E b \in agent.actions : b.name = k.plan[i].name
    BY DEF Known
  <2>1. CASE i = Len(n.plan) + 1
    <3>1. k.plan[i] = a
      BY <1>2, <1>3, <2>1
    <3>. QED BY <3>1, AgentActions
  <2>2. CASE i \in 1..Len(n.plan)
    <3>1. k.plan[i] = n.plan[i]
      BY <1>2, <1>3, <2>2
    <3>. QED BY <2>2, <3>1 DEF Known
  <2>3. Len(n.plan) \in Nat
    BY <1>2
  <2>. QED BY <1>7, <2>1, <2>2, <2>3
<1>10. k.world \in DOMAIN search.best => k.g < search.best[k.world]
  BY <1>1, <1>3 DEF Improves
<1>. QED BY <1>1, <1>3, <1>7, <1>8, <1>9, <1>10

-----------------------------------------------------------------------------
(* Types.  TypeOK is not inductive: what a run may do next is told by what  *)
(* it did, by the plan it holds and by the nodes of its search.             *)

Statuses == {"running", "waiting", "stuck", "completed", "failed"}
Processes == [status : Statuses, world : Worlds, plan : Seq(agent.actions),
              waits : SUBSET (Conditions \X BOOLEAN), disabled : SUBSET agent.actions,
              failures : [agent.actions -> Nat], steps : 0..MaxSteps, wrote : BOOLEAN]

Types ==
  /\ agent \in Agents /\ change \in Worlds
  /\ row \in Processes /\ p \in Processes
  /\ search \in Searches
  /\ pc \in {"idle", "observe", "plan", "search", "act", "finish", "save"}
  /\ events \in 0..MaxEvents /\ listed \in BOOLEAN /\ missed \in BOOLEAN
  /\ used \in [moves : 0..MaxMoves, items : 0..MaxItems, unblocks : 0..MaxUnblocks, faults : 0..MaxFaults]

WaitsFor(q) == q.waits # {} <=> q.status = "waiting"

\* Where its run is, and what is then true of the row and of the copy.
Stages ==
  /\ WaitsFor(row) /\ WaitsFor(p)
  /\ pc # "idle" => row.status = "running"
  /\ pc \notin {"idle", "save"} => p.status = "running"
  /\ pc \in {"plan", "search"} => ~Satisfies(p.world, Goal)
  /\ pc \in {"plan", "search", "act"} => p.steps < MaxSteps
  /\ pc \in {"act", "finish"} => p.plan # <<>>

\* A node of the search for the goal without a plan is the world the search began in.
Rooted(mode, n) == mode = "goal" /\ n.plan = <<>> => n.world = p.world

Nodal ==
  /\ pc # "search" => search = NoSearch
  /\ pc = "search" => search.mode \in {"goal", "relaxed"}
  /\ \A n \in search.open : Known(n) /\ Rooted(search.mode, n)

TypeInv == Types /\ Stages /\ Nodal

\* What is set of a process leaves a process.
LEMMA ProcessFields ==
  ASSUME NEW q \in Processes
  PROVE  /\ q.status \in Statuses /\ q.world \in Worlds /\ q.plan \in Seq(agent.actions)
         /\ q.waits \in SUBSET (Conditions \X BOOLEAN) /\ q.disabled \in SUBSET agent.actions
         /\ q.failures \in [agent.actions -> Nat] /\ q.steps \in 0..MaxSteps /\ q.wrote \in BOOLEAN
BY DEF Processes

LEMMA StepCounted ==
  ASSUME NEW q \in Processes, q.steps < MaxSteps, NEW wrote \in BOOLEAN
  PROVE  LET r == [q EXCEPT !.steps = @ + 1, !.wrote = wrote]
         IN  r \in Processes /\ r.status = q.status /\ r.waits = q.waits /\ r.plan = q.plan /\ r.world = q.world
<1>1. q.steps + 1 \in 0..MaxSteps
  BY ProcessFields, BoundsAssumption
<1>. QED BY <1>1 DEF Processes

LEMMA FailureCounted ==
  ASSUME NEW q \in Processes, NEW a \in agent.actions
  PROVE  Failed(a, q) \in Processes /\ Failed(a, q).status = q.status /\ Failed(a, q).waits = q.waits
         /\ Failed(a, q).world = q.world
<1>. DEFINE fails == [q.failures EXCEPT ![a] = q.failures[a] + 1]
            off == IF q.failures[a] + 1 >= MaxFailures THEN q.disabled \union {a} ELSE q.disabled
<1>1. q.failures[a] + 1 \in Nat /\ q.failures \in [agent.actions -> Nat]
  BY ProcessFields
<1>2. fails \in [agent.actions -> Nat]
  BY <1>1
<1>3. off \in SUBSET agent.actions
  BY ProcessFields
<1>4. \A fs \in [agent.actions -> Nat], d \in SUBSET agent.actions :
        LET r == [q EXCEPT !.failures = fs, !.disabled = d]
        IN  r \in Processes /\ r.status = q.status /\ r.waits = q.waits /\ r.world = q.world
  BY DEF Processes
<1>5. Failed(a, q) = [q EXCEPT !.failures = fails, !.disabled = off]
  BY DEF Failed, Processes
<1>6. LET r == [q EXCEPT !.failures = fails, !.disabled = off]
      IN  r \in Processes /\ r.status = q.status /\ r.waits = q.waits /\ r.world = q.world
  <2>. HIDE DEF fails, off
  <2>. QED BY <1>2, <1>3, <1>4
<1>. QED BY <1>5, <1>6

LEMMA NothingSearched == NoSearch \in Searches /\ NoSearch.open = {} /\ NoSearch.mode = "none" /\ NoSearch.expansions = 0
                         /\ DOMAIN NoSearch.best = {}
<1>1. NoWorld \in Bests /\ DOMAIN NoWorld = {}
  <2>1. NoWorld \in [{} -> Nat]
    BY DEF NoWorld
  <2>. QED BY <2>1 DEF Bests, NoWorld
<1>. QED BY <1>1, BoundsAssumption DEF NoSearch, Searches

\* Beyond the bound the events count as one.
LEMMA Raised == events \in 0..MaxEvents => Raise \in 0..MaxEvents /\ Raise > 0
<1>. SUFFICES ASSUME events \in 0..MaxEvents PROVE Raise \in 0..MaxEvents /\ Raise > 0
  OBVIOUS
<1>1. {events + 1, MaxEvents} \in SUBSET Nat
  BY BoundsAssumption
<1>2. Raise \in {events + 1, MaxEvents} /\ \A y \in {events + 1, MaxEvents} : Raise <= y
  BY <1>1, LeastOf DEF Raise
<1>. QED BY <1>1, <1>2, BoundsAssumption

\* The types of a run that is just started.
LEMMA TypeInit == Init => TypeInv
<1>. SUFFICES ASSUME Init PROVE TypeInv
  OBVIOUS
<1>1. agent \in Agents /\ change \in Worlds
  BY ConditionsAssumption DEF Init
<1>2. NoWorld \in Worlds
  <2>1. NoWorld \in [{} -> BOOLEAN] /\ {} \in SUBSET Conditions
    BY DEF NoWorld
  <2>. QED BY <2>1, MadeWorld
<1>3. row \in Processes /\ row.status = "running" /\ row.waits = {}
  BY <1>2, BoundsAssumption DEF Init, Processes, Statuses
<1>4. Types
  <2>1. used \in [moves : 0..MaxMoves, items : 0..MaxItems, unblocks : 0..MaxUnblocks, faults : 0..MaxFaults]
    BY BoundsAssumption DEF Init
  <2>2. search \in Searches /\ p \in Processes /\ events \in 0..MaxEvents
    BY <1>3, NothingSearched, BoundsAssumption DEF Init
  <2>. QED BY <1>1, <1>3, <2>1, <2>2 DEF Init, Types
<1>5. Stages
  BY <1>3 DEF Init, Stages, WaitsFor
<1>6. Nodal
  BY NothingSearched DEF Init, Nodal
<1>. QED BY <1>4, <1>5, <1>6 DEF TypeInv

Rest == UNCHANGED <<agent, events, listed, change, row, missed, used>>

\* A search, or a plan without one, that ends: its run acts or saves.
LEMMA PlanningEnds ==
  ASSUME TypeInv, pc \in {"plan", "search"}, Rest,
         NEW q \in Processes, WaitsFor(q), p' = q, search' = NoSearch, pc' \in {"act", "save"},
         pc' = "act" => q.status = "running" /\ q.steps < MaxSteps /\ q.plan # <<>>
  PROVE  TypeInv'
<1>1. Types'
  BY NothingSearched DEF TypeInv, Types, Rest, Processes
<1>2. Stages'
  BY DEF TypeInv, Stages, Rest, WaitsFor
<1>3. Nodal'
  BY NothingSearched DEF Nodal
<1>. QED BY <1>1, <1>2, <1>3 DEF TypeInv

\* A search that begins or goes on.
LEMMA PlanningGoesOn ==
  ASSUME TypeInv, pc \in {"plan", "search"}, Rest, p' = p, pc' = "search",
         search' \in Searches, search'.mode \in {"goal", "relaxed"},
         \A n \in search'.open : Known(n) /\ Rooted(search'.mode, n)
  PROVE  TypeInv'
<1>1. Types'
  BY DEF TypeInv, Types, Rest, Processes
<1>2. Stages'
  BY DEF TypeInv, Stages, Rest, WaitsFor
<1>3. Nodal'
  BY DEF Nodal, Known, Rooted, Rest
<1>. QED BY <1>1, <1>2, <1>3 DEF TypeInv

LEMMA SearchBegins ==
  ASSUME NEW mode \in {"goal", "relaxed"}, NEW w \in Worlds, mode = "goal" => w = p.world
  PROVE  LET s == SearchFrom(mode, w)
         IN  s \in Searches /\ s.mode = mode /\ s.expansions = 0
             /\ s.open = {[world |-> w, g |-> 0, f |-> 0, plan |-> <<>>]} /\ s.best = [x \in {w} |-> 0]
             /\ \A n \in s.open : Known(n) /\ Rooted(mode, n)
<1>. DEFINE root == [world |-> w, g |-> 0, f |-> 0, plan |-> <<>>]
<1>1. root \in Nodes /\ Known(root) /\ Rooted(mode, root)
  BY DEF Nodes, Known, Rooted
<1>2. [x \in {w} |-> 0] \in Bests
  <2>1. [x \in {w} |-> 0] \in [{w} -> Nat]
    OBVIOUS
  <2>. QED BY <2>1 DEF Bests
<1>. QED BY <1>1, <1>2, BoundsAssumption DEF SearchFrom, Searches

\* What settles a cycle without a plan.
LEMMA NoPlanTypes ==
  ASSUME TypeInv, pc \in {"plan", "search"}, Rest
  PROVE  /\ Stuck => TypeInv'
         /\ NoPlan => TypeInv'
         /\ \A lits \in SUBSET (Conditions \X BOOLEAN) : lits # {} /\ Waits(lits) => TypeInv'
         /\ \A plan \in Seq(agent.actions) : plan # <<>> /\ Chosen(plan) => TypeInv'
<1>0. agent \in Agents /\ p \in Processes /\ p.status = "running" /\ p.waits = {} /\ p.steps < MaxSteps /\ p.world \in Worlds
  <2>1. agent \in Agents /\ p \in Processes /\ p.status = "running" /\ p.steps < MaxSteps
    BY DEF TypeInv, Types, Stages
  <2>2. p.waits = {}
    BY <2>1 DEF TypeInv, Stages, WaitsFor
  <2>. QED BY <2>1, <2>2, ProcessFields
<1>00. <<>> \in Seq(agent.actions) /\ {} \in SUBSET (Conditions \X BOOLEAN) /\ {"stuck", "waiting"} \subseteq Statuses
  BY DEF Statuses
<1>1. ASSUME Stuck PROVE TypeInv'
  <2>. DEFINE q == [p EXCEPT !.status = "stuck", !.plan = <<>>, !.waits = {}]
  <2>1. q \in Processes /\ q.status = "stuck" /\ q.waits = {}
    BY <1>0, <1>00 DEF Processes
  <2>2. p' = q /\ pc' = "save" /\ search' = NoSearch
    BY <1>1 DEF Stuck
  <2>. HIDE DEF q
  <2>. QED BY <2>1, <2>2, PlanningEnds DEF WaitsFor
<1>2. ASSUME NEW lits \in SUBSET (Conditions \X BOOLEAN), lits # {}, Waits(lits) PROVE TypeInv'
  <2>. DEFINE q == [p EXCEPT !.status = "waiting", !.plan = <<>>, !.waits = lits]
  <2>1. q \in Processes /\ q.status = "waiting" /\ q.waits = lits
    BY <1>0, <1>00 DEF Processes
  <2>2. p' = q /\ pc' = "save" /\ search' = NoSearch
    BY <1>2 DEF Waits
  <2>. HIDE DEF q
  <2>. QED BY <1>2, <2>1, <2>2, PlanningEnds DEF WaitsFor
<1>3. ASSUME NEW plan \in Seq(agent.actions), plan # <<>>, Chosen(plan) PROVE TypeInv'
  <2>. DEFINE q == [p EXCEPT !.plan = plan]
  <2>1. q \in Processes /\ q.status = "running" /\ q.waits = {} /\ q.plan = plan /\ q.steps < MaxSteps
    BY <1>0 DEF Processes
  <2>2. p' = q /\ pc' = "act" /\ search' = NoSearch
    BY <1>3 DEF Chosen
  <2>. HIDE DEF q
  <2>. QED BY <1>3, <2>1, <2>2, PlanningEnds DEF WaitsFor
<1>4. ASSUME NoPlan PROVE TypeInv'
  <2>1. CASE Stuck
    BY <1>1, <2>1
  <2>2. CASE pc' = "search" /\ search' = SearchFrom("relaxed", Assume(p.world, EstablishedElsewhere)) /\ p' = p
    <3>1. Assume(p.world, EstablishedElsewhere) \in Worlds
      BY <1>0, ExternalConditions, AssumeWorld
    <3>. QED BY <2>2, <3>1, SearchBegins, PlanningGoesOn
  <2>. QED BY <1>4, <2>1, <2>2 DEF NoPlan
<1>. QED BY <1>1, <1>2, <1>3, <1>4

LEMMA SingleStep == ASSUME NEW S, NEW x \in S PROVE <<x>> \in Seq(S) /\ <<x>> # <<>>
<1>1. <<x>> \in Seq(S)
  OBVIOUS
<1>2. Len(<<x>>) = 1 /\ Len(<<>>) = 0
  OBVIOUS
<1>. QED BY <1>1, <1>2

\* Planning: it chooses an action of the agent, begins a search, or settles without a plan.
LEMMA PlanTypes == TypeInv /\ Plan => TypeInv'
<1>. SUFFICES ASSUME TypeInv, Plan PROVE TypeInv'
  OBVIOUS
<1>0. /\ agent \in Agents /\ p \in Processes /\ p.world \in Worlds /\ p.waits = {} /\ pc = "plan" /\ search = NoSearch
      /\ Rest
  <2>1. agent \in Agents /\ p \in Processes /\ pc = "plan" /\ search = NoSearch /\ p.waits = {}
    BY DEF Plan, TypeInv, Types, Stages, WaitsFor, Nodal
  <2>2. Rest
    BY DEF Plan, Rest, aside
  <2>. QED BY <2>1, <2>2, ProcessFields
<1>1. ASSUME search' = SearchFrom("goal", p.world), pc' = "search", p' = p PROVE TypeInv'
  BY <1>0, <1>1, SearchBegins, PlanningGoesOn
<1>2. ASSUME NEW a \in Admissible, Chosen(<<a>>) PROVE TypeInv'
  <2>1. <<a>> \in Seq(agent.actions) /\ <<a>> # <<>>
    <3>1. a \in agent.actions
      BY <1>0, AgentActions
    <3>. QED BY <3>1, SingleStep
  <2>. QED BY <1>0, <1>2, <2>1, NoPlanTypes
<1>3. ASSUME p' = [p EXCEPT !.status = "failed"], pc' = "save", search' = search PROVE TypeInv'
  <2>. DEFINE q == [p EXCEPT !.status = "failed"]
  <2>1. q \in Processes /\ q.status = "failed" /\ q.waits = {}
    BY <1>0 DEF Processes, Statuses
  <2>2. p' = q
    BY <1>3
  <2>. HIDE DEF q
  <2>. QED BY <1>0, <1>3, <2>1, <2>2, PlanningEnds DEF WaitsFor
<1>4. ASSUME NoPlan PROVE TypeInv'
  BY <1>0, <1>4, NoPlanTypes
<1>5. \A w : Preferred(Useful(Admissible, w)) \subseteq Admissible /\ Applicable(Admissible, w) \subseteq Admissible
  BY DEF Preferred, Useful, Applicable
<1>6. CASE search' = SearchFrom("goal", p.world) /\ pc' = "search" /\ UNCHANGED p
  BY <1>1, <1>6
<1>7. CASE LET as == Useful(Admissible, p.world)
           IN  IF as = {} THEN NoPlan ELSE \E a \in Preferred(as) : Chosen(<<a>>)
  BY <1>2, <1>4, <1>5, <1>7
<1>8. CASE \/ \E a \in Applicable(Admissible, p.world) : Chosen(<<a>>)
           \/ NoPlan
           \/ p' = [p EXCEPT !.status = "failed"] /\ pc' = "save" /\ UNCHANGED search
  BY <1>2, <1>3, <1>4, <1>5, <1>8
<1>. QED BY <1>6, <1>7, <1>8 DEF Plan

\* An expansion keeps the search one of nodes, of costs and of the agent's actions.
LEMMA ExpandTypes ==
  ASSUME TypeInv, pc = "search", Rest, NEW n \in search.open, search.expansions # MaxExpansions, Expand(n)
  PROVE  TypeInv'
<1>. DEFINE kids == Kids(n)
            known == DOMAIN search.best \union {k.world : k \in kids}
            best == [w \in known |-> IF \E k \in kids : k.world = w THEN (CHOOSE k \in kids : k.world = w).g
                                     ELSE search.best[w]]
            open == (search.open \ {n}) \union kids
<1>0. /\ agent \in Agents /\ search \in Searches /\ n \in Nodes /\ Known(n) /\ search.mode \in {"goal", "relaxed"}
      /\ search.open \in SUBSET Nodes /\ search.best \in Bests /\ search.expansions \in 0..MaxExpansions
      /\ \A m \in search.open : Known(m) /\ Rooted(search.mode, m)
  BY DEF TypeInv, Types, Nodal, Searches
<1>1. \A k \in kids : k \in Nodes /\ k.world \in Worlds /\ k.g \in Nat /\ Known(k) /\ k.plan # <<>>
  <2>. TAKE k \in kids
  <2>1. k \in Nodes /\ Known(k) /\ k.plan # <<>>
    BY <1>0, KidOf
  <2>. QED BY <2>1 DEF Nodes
<1>2. known \in SUBSET Worlds
  BY <1>0, <1>1 DEF Bests
<1>3. best \in Bests
  <2>1. \A w \in known : best[w] \in Nat
    <3>. TAKE w \in known
    <3>1. CASE \E k \in kids : k.world = w
      <4>1. (CHOOSE k \in kids : k.world = w) \in kids
        BY <3>1
      <4>. QED BY <1>1, <3>1, <4>1
    <3>2. CASE ~\E k \in kids : k.world = w
      <4>1. w \in DOMAIN search.best
        BY <3>2
      <4>. QED BY <1>0, <3>2, <4>1 DEF Bests
    <3>. QED BY <3>1, <3>2
  <2>2. best \in [known -> Nat]
    BY <2>1
  <2>. HIDE DEF best, known
  <2>. QED BY <1>2, <2>2 DEF Bests
<1>4. open \in SUBSET Nodes /\ search.expansions + 1 \in 0..MaxExpansions
  BY <1>0, <1>1, BoundsAssumption
<1>5. search' = [search EXCEPT !.open = open, !.best = best, !.expansions = search.expansions + 1] /\ p' = p /\ pc' = pc
  BY DEF Expand
<1>6. search' \in Searches /\ search'.mode = search.mode /\ search'.open = open
  <2>. HIDE DEF open, best
  <2>. QED BY <1>0, <1>3, <1>4, <1>5 DEF Searches
<1>7. \A m \in search'.open : Known(m) /\ Rooted(search.mode, m)
  BY <1>0, <1>1, <1>6 DEF Rooted
<1>. HIDE DEF open, best
<1>. QED BY <1>0, <1>5, <1>6, <1>7, PlanningGoesOn

LEMMA SearchTypes == TypeInv /\ Search => TypeInv'
<1>. SUFFICES ASSUME TypeInv, Search PROVE TypeInv'
  OBVIOUS
<1>0. /\ agent \in Agents /\ p \in Processes /\ pc = "search" /\ Rest /\ search \in Searches
      /\ search.mode \in {"goal", "relaxed"} /\ search.open \in SUBSET Nodes /\ ~Satisfies(p.world, Goal)
      /\ \A n \in search.open : Known(n) /\ Rooted(search.mode, n)
  <2>1. agent \in Agents /\ p \in Processes /\ pc = "search" /\ search \in Searches /\ search.mode \in {"goal", "relaxed"}
        /\ ~Satisfies(p.world, Goal) /\ \A n \in search.open : Known(n) /\ Rooted(search.mode, n)
    BY DEF Search, TypeInv, Types, Stages, Nodal
  <2>2. Rest
    BY DEF Search, Rest, aside
  <2>. QED BY <2>1, <2>2 DEF Searches
<1>1. ASSUME Exhausted PROVE TypeInv'
  BY <1>0, <1>1, NoPlanTypes DEF Exhausted
<1>2. ASSUME NEW n \in search.open, Satisfies(n.world, Goal), Finish(n) PROVE TypeInv'
  <2>1. CASE search.mode = "goal" /\ Chosen(Named(n.plan))
    <3>1. n.plan # <<>>
      BY <1>0, <1>2, <2>1 DEF Rooted
    <3>2. Named(n.plan) \in Seq(agent.actions) /\ Named(n.plan) # <<>>
      BY <1>0, <3>1, NamedPlan
    <3>. QED BY <1>0, <2>1, <3>2, NoPlanTypes
  <2>2. CASE search.mode = "relaxed"
    <3>. DEFINE out == ReliedOn(EstablishedElsewhere, Goal, {n.plan[i] : i \in 1..Len(n.plan)})
    <3>1. out \in SUBSET (Conditions \X BOOLEAN)
      BY <1>0, ExternalConditions DEF ReliedOn
    <3>2. IF out = {} THEN Stuck ELSE Waits(out)
      BY <1>2, <2>2 DEF Finish
    <3>. HIDE DEF out
    <3>. QED BY <1>0, <3>1, <3>2, NoPlanTypes
  <2>. QED BY <1>2, <2>1, <2>2 DEF Finish
<1>3. ASSUME NEW n \in search.open, search' = [search EXCEPT !.open = @ \ {n}], p' = p, pc' = pc PROVE TypeInv'
  <2>1. search' \in Searches /\ search'.mode = search.mode /\ search'.open = search.open \ {n}
    BY <1>0, <1>3 DEF Searches
  <2>. QED BY <1>0, <1>3, <2>1, PlanningGoesOn
<1>4. ASSUME NEW n \in search.open, IF search.expansions = MaxExpansions THEN Exhausted ELSE Expand(n) PROVE TypeInv'
  BY <1>0, <1>1, <1>4, ExpandTypes
<1>. QED BY <1>1, <1>2, <1>3, <1>4 DEF Search

\* The run of a process from its lock to the save, planning aside.
LEMMA RunTypes == TypeInv /\ (Take \/ GiveUp \/ Observe \/ Act \/ FinishStep \/ Save) => TypeInv'
<1>. SUFFICES ASSUME TypeInv, Take \/ GiveUp \/ Observe \/ Act \/ FinishStep \/ Save PROVE TypeInv'
  OBVIOUS
<1>0. Types /\ Stages /\ Nodal /\ agent \in Agents /\ row \in Processes /\ p \in Processes /\ change \in Worlds
  BY DEF TypeInv, Types
<1>1. ASSUME agent' = agent, search' = search, pc # "search", pc' # "search" PROVE Nodal'
  BY <1>0, <1>1, NothingSearched DEF Nodal
<1>2. ASSUME Take PROVE TypeInv'
  <2>1. Types'
    BY <1>0, <1>2 DEF Take, aside, Types, Processes
  <2>2. Stages'
    BY <1>0, <1>2 DEF Take, aside, Stages, WaitsFor
  <2>. QED BY <1>1, <1>2, <2>1, <2>2 DEF Take, aside, TypeInv
<1>3. ASSUME GiveUp PROVE TypeInv'
  <2>1. Types'
    BY <1>0, <1>3 DEF GiveUp, aside, Types, Processes
  <2>2. Stages'
    BY <1>0, <1>3 DEF GiveUp, aside, Stages, WaitsFor
  <2>. QED BY <1>1, <1>3, <2>1, <2>2 DEF GiveUp, aside, TypeInv
<1>4. ASSUME Observe PROVE TypeInv'
  <2>0. p.status = "running" /\ p.waits = {} /\ pc = "observe" /\ p.steps < MaxSteps /\ row.status = "running" /\ WaitsFor(row)
    BY <1>0, <1>4 DEF Observe, Stages, WaitsFor
  <2>1. p' \in Processes /\ p'.waits = {} /\ p'.steps = p.steps /\ pc' \in {"plan", "save"}
        /\ p'.status \in {"running", "completed", "failed"}
        /\ (pc' = "plan" => p'.status = "running" /\ ~Satisfies(p'.world, Goal))
    <3>1. CASE /\ p' = [p EXCEPT !.world = change, !.status = "completed", !.plan = <<>>]
               /\ pc' = "save"
      <4>1. <<>> \in Seq(agent.actions) /\ "completed" \in Statuses
        BY DEF Statuses
      <4>. QED BY <1>0, <2>0, <3>1, <4>1 DEF Processes
    <3>2. CASE ~Satisfies(change, Goal) /\ p' = [p EXCEPT !.world = change] /\ pc' = "plan"
      BY <1>0, <2>0, <3>2 DEF Processes
    <3>3. CASE p' = [p EXCEPT !.status = "failed"] /\ pc' = "save"
      BY <1>0, <2>0, <3>3 DEF Processes, Statuses
    <3>. QED BY <1>4, <3>1, <3>2, <3>3 DEF Observe
  <2>2. Types'
    BY <1>0, <1>4, <2>1 DEF Observe, aside, Types, Processes
  <2>3. Stages'
    BY <1>4, <2>0, <2>1 DEF Observe, aside, Stages, WaitsFor
  <2>. QED BY <1>1, <1>4, <2>0, <2>1, <2>2, <2>3 DEF Observe, aside, TypeInv
<1>5. ASSUME Act PROVE TypeInv'
  <2>0. /\ p.status = "running" /\ p.waits = {} /\ pc = "act" /\ p.steps < MaxSteps /\ p.plan # <<>>
        /\ row.status = "running" /\ WaitsFor(row)
    BY <1>0, <1>5 DEF Act, Stages, WaitsFor
  <2>1. p' \in Processes /\ p'.waits = {} /\ p'.status = "running" /\ p'.plan # <<>>
    <3>1. PICK wrote \in BOOLEAN : p' = [p EXCEPT !.steps = @ + 1, !.wrote = wrote]
      BY <1>5 DEF Act
    <3>. QED BY <1>0, <2>0, <3>1, StepCounted
  <2>2. change' \in Worlds
    <3>1. Head(p.plan) \in Actions
      BY <1>0, <2>0, ProcessFields, AgentActions
    <3>2. Head(p.plan).effects \in Worlds
      BY <3>1 DEF Actions
    <3>. QED BY <1>0, <1>5, <3>2, ApplyWorld DEF Act
  <2>3. events' \in 0..MaxEvents
    BY <1>0, <1>5, Raised DEF Act, Types
  <2>4. used' \in [moves : 0..MaxMoves, items : 0..MaxItems, unblocks : 0..MaxUnblocks, faults : 0..MaxFaults]
    <3>1. CASE used' = used
      BY <1>0, <3>1 DEF Types
    <3>2. CASE Use("items", MaxItems)
      BY <1>0, <3>2, BoundsAssumption DEF Use, Types
    <3>. QED BY <1>5, <3>1, <3>2 DEF Act
  <2>5. Types'
    BY <1>0, <1>5, <2>1, <2>2, <2>3, <2>4 DEF Act, Types, Processes
  <2>6. Stages'
    BY <1>5, <2>0, <2>1 DEF Act, Stages, WaitsFor
  <2>. QED BY <1>1, <1>5, <2>0, <2>5, <2>6 DEF Act, TypeInv
<1>6. ASSUME FinishStep PROVE TypeInv'
  <2>0. p.status = "running" /\ p.waits = {} /\ pc = "finish" /\ p.plan # <<>> /\ row.status = "running" /\ WaitsFor(row)
    BY <1>0, <1>6 DEF FinishStep, Stages, WaitsFor
  <2>. DEFINE q == [p EXCEPT !.world = change, !.wrote = FALSE]
              a == Head(p.plan)
              unanswered == [p EXCEPT !.status = "failed", !.wrote = FALSE]
              refused == [q EXCEPT !.status = "failed"]
  <2>1. q \in Processes /\ q.status = "running" /\ q.waits = {}
    BY <1>0, <2>0 DEF Processes
  <2>2. a \in agent.actions
    BY <1>0, <2>0, ProcessFields
  <2>3. p' = q \/ p' = Failed(a, q) \/ p' = unanswered \/ p' = refused
    BY <1>6 DEF FinishStep
  <2>30. \A x \in {unanswered, refused} : x \in Processes /\ x.status = "failed" /\ x.waits = {}
    BY <1>0, <2>0 DEF Processes, Statuses
  <2>4. p' \in Processes /\ p'.status \in {"running", "failed"} /\ p'.waits = {}
    <3>. HIDE DEF q, a, unanswered, refused
    <3>. QED BY <2>1, <2>2, <2>3, <2>30, FailureCounted
  <2>5. Types'
    BY <1>0, <1>6, <2>4 DEF FinishStep, aside, Types, Processes
  <2>6. Stages'
    BY <1>6, <2>0, <2>4 DEF FinishStep, aside, Stages, WaitsFor
  <2>. QED BY <1>1, <1>6, <2>0, <2>5, <2>6 DEF FinishStep, aside, TypeInv
<1>7. ASSUME Save PROVE TypeInv'
  <2>1. Types'
    BY <1>0, <1>7 DEF Save, aside, Types, Processes
  <2>2. Stages'
    BY <1>0, <1>7 DEF Save, aside, Stages, WaitsFor
  <2>. QED BY <1>1, <1>7, <2>1, <2>2 DEF Save, aside, TypeInv
<1>. QED BY <1>2, <1>3, <1>4, <1>5, <1>6, <1>7

\* What happens beside the run.
LEMMA AroundTypes == TypeInv /\ (Others \/ Accompany \/ Rerun \/ Unblock \/ UNCHANGED vars) => TypeInv'
<1>. SUFFICES ASSUME TypeInv, Others \/ Accompany \/ Rerun \/ Unblock \/ UNCHANGED vars PROVE TypeInv'
  OBVIOUS
<1>0. Types /\ Stages /\ Nodal /\ agent \in Agents /\ row \in Processes /\ p \in Processes
  BY DEF TypeInv, Types
<1>1. ASSUME agent' = agent, search' = search, pc' = pc, p' = p PROVE Nodal'
  BY <1>0, <1>1 DEF Nodal, Known, Rooted
<1>2. ASSUME Others PROVE TypeInv'
  <2>1. change' \in Worlds /\ events' \in 0..MaxEvents
    BY <1>0, <1>2, Raised DEF Others, Types
  <2>2. used' \in [moves : 0..MaxMoves, items : 0..MaxItems, unblocks : 0..MaxUnblocks, faults : 0..MaxFaults]
    BY <1>0, <1>2, BoundsAssumption DEF Others, Use, Types
  <2>3. Types'
    BY <1>0, <1>2, <2>1, <2>2 DEF Others, Types, Processes
  <2>4. Stages'
    BY <1>0, <1>2 DEF Others, Stages, WaitsFor
  <2>. QED BY <1>1, <1>2, <2>3, <2>4 DEF Others, TypeInv
<1>3. ASSUME Accompany PROVE TypeInv'
  <2>0. used' \in [moves : 0..MaxMoves, items : 0..MaxItems, unblocks : 0..MaxUnblocks, faults : 0..MaxFaults]
    <3>1. used' = used \/ Use("faults", MaxFaults)
      BY <1>3 DEF Accompany
    <3>2. CASE Use("faults", MaxFaults)
      BY <1>0, <3>2, BoundsAssumption DEF Use, Types
    <3>. QED BY <1>0, <3>1, <3>2 DEF Types
  <2>1. events' \in 0..MaxEvents /\ listed' \in BOOLEAN /\ missed' \in BOOLEAN
    <3>1. events' = events - 1 /\ events > 0 /\ events \in 0..MaxEvents
      BY <1>0, <1>3 DEF Accompany, Types
    <3>2. listed' \in BOOLEAN /\ missed' \in BOOLEAN
      <4>1. listed' \in {listed, Retried(row.status)} /\ missed' \in {missed \/ row.status = "running", TRUE}
        BY <1>3, Zenon DEF Accompany
      <4>2. listed \in BOOLEAN /\ missed \in BOOLEAN
        BY <1>0 DEF Types
      <4>3. Retried(row.status) \in BOOLEAN
        BY DEF Retried, Blocked
      <4>4. (missed \/ row.status = "running") \in BOOLEAN
        BY <4>2
      <4>. QED BY <4>1, <4>2, <4>3, <4>4, Zenon
    <3>. QED BY <3>1, <3>2, BoundsAssumption
  <2>2. Types'
    BY <1>0, <1>3, <2>0, <2>1 DEF Accompany, Types, Processes
  <2>3. Stages'
    BY <1>0, <1>3 DEF Accompany, Stages, WaitsFor
  <2>. QED BY <1>1, <1>3, <2>2, <2>3 DEF Accompany, TypeInv
<1>4. Again(row) \in Processes /\ Again(row).status = "running" /\ Again(row).waits = {}
  <2>1. <<>> \in Seq(agent.actions) /\ "running" \in Statuses
    BY DEF Statuses
  <2>. QED BY <1>0, <2>1 DEF Again, Processes
<1>5. ASSUME row' \in Processes, WaitsFor(row'), agent' = agent, change' = change, p' = p, pc' = pc, search' = search,
             events' = events, missed' \in BOOLEAN, listed' \in BOOLEAN, pc = "idle",
             used' \in [moves : 0..MaxMoves, items : 0..MaxItems, unblocks : 0..MaxUnblocks, faults : 0..MaxFaults]
      PROVE  TypeInv'
  <2>1. Types'
    BY <1>0, <1>5 DEF Types, Processes
  <2>2. Stages'
    BY <1>0, <1>5 DEF Stages, WaitsFor
  <2>. QED BY <1>1, <1>5, <2>1, <2>2 DEF TypeInv
<1>6. ASSUME Rerun PROVE TypeInv'
  <2>1. row' \in Processes /\ WaitsFor(row')
    BY <1>0, <1>4, <1>6 DEF Rerun, Stages, WaitsFor
  <2>2. used' \in [moves : 0..MaxMoves, items : 0..MaxItems, unblocks : 0..MaxUnblocks, faults : 0..MaxFaults]
    <3>1. used' = used \/ Use("faults", MaxFaults)
      BY <1>6 DEF Rerun
    <3>2. CASE Use("faults", MaxFaults)
      BY <1>0, <3>2, BoundsAssumption DEF Use, Types
    <3>. QED BY <1>0, <3>1, <3>2 DEF Types
  <2>. QED BY <1>0, <1>5, <1>6, <2>1, <2>2 DEF Rerun, Types
<1>7. ASSUME Unblock PROVE TypeInv'
  <2>. DEFINE q == [row EXCEPT !.status = "failed", !.plan = <<>>, !.waits = {}]
  <2>1. q \in Processes /\ q.status = "failed" /\ q.waits = {}
    <3>1. <<>> \in Seq(agent.actions) /\ "failed" \in Statuses
      BY DEF Statuses
    <3>. QED BY <1>0, <3>1 DEF Processes
  <2>2. row' = Again(row) \/ row' = q
    BY <1>7 DEF Unblock
  <2>3. row' \in Processes /\ WaitsFor(row')
    <3>. HIDE DEF q
    <3>. QED BY <1>4, <2>1, <2>2 DEF WaitsFor
  <2>4. used' \in [moves : 0..MaxMoves, items : 0..MaxItems, unblocks : 0..MaxUnblocks, faults : 0..MaxFaults]
    BY <1>0, <1>7, BoundsAssumption DEF Unblock, Use, Types
  <2>. QED BY <1>0, <1>5, <1>7, <2>3, <2>4 DEF Unblock, Types
<1>8. CASE UNCHANGED vars
  <2>1. Types' /\ Stages'
    BY <1>0, <1>8 DEF vars, Types, Stages, Processes, WaitsFor
  <2>. QED BY <1>1, <1>8, <2>1 DEF vars, TypeInv
<1>. QED BY <1>2, <1>3, <1>6, <1>7, <1>8

LEMMA TypeStep == TypeInv /\ [Next]_vars => TypeInv'
BY PlanTypes, SearchTypes, RunTypes, AroundTypes DEF Next

LEMMA TypeInvariant == Spec => []TypeInv
BY TypeInit, TypeStep, PTL DEF Spec

\* The variables of the cycle keep their types, for any agents, conditions and bounds.
THEOREM GoalLoopTypes == Spec => []TypeOK
<1>1. TypeInv => TypeOK
  <2>. SUFFICES ASSUME TypeInv PROVE TypeOK
    OBVIOUS
  <2>1. agent.planner \in Planners
    BY AgentActions DEF TypeInv, Types
  <2>2. \A x \in {row, p} :
          /\ IsWorld(x.world) /\ x.waits \subseteq Conditions \X BOOLEAN /\ x.disabled \subseteq agent.actions
          /\ x.failures \in [agent.actions -> Nat] /\ x.steps \in 0..MaxSteps /\ x.wrote \in BOOLEAN
          /\ x.waits # {} <=> x.status = "waiting"
    BY ProcessFields, WorldsAre DEF TypeInv, Types, Stages, WaitsFor
  <2>3. {row.status, p.status} \subseteq {"running", "waiting", "stuck", "completed", "failed"}
    BY ProcessFields DEF TypeInv, Types, Statuses
  <2>4. search.mode \in {"none", "goal", "relaxed"} /\ search.expansions \in 0..MaxExpansions /\ search.best \in Bests
    BY DEF TypeInv, Types, Searches
  <2>5. \A w \in DOMAIN search.best : IsWorld(w)
    BY <2>4, WorldsAre DEF Bests
  <2>6. IsWorld(change)
    BY WorldsAre DEF TypeInv, Types
  <2>. QED BY <2>1, <2>2, <2>3, <2>4, <2>5, <2>6 DEF TypeInv, Types, TypeOK
<1>. QED BY <1>1, TypeInvariant, PTL

-----------------------------------------------------------------------------
(* Nobody forgets a blocked process.  NotForgotten is about a process at    *)
(* rest; before, its run works on a world it observed, and what moved since *)
(* has an event on its way or one that came and found the process at work.  *)

Aware ==
  /\ pc \in {"plan", "search"} \/ (pc = "save" /\ p.status # "failed") => p.world = change \/ events > 0 \/ missed
  /\ NotForgotten

\* Planning leaves the observed world.
LEMMA PlanningKeepsWorld ==
  ASSUME TypeInv, Plan \/ Search
  PROVE  p'.world = p.world /\ pc' # "idle" /\ pc \in {"plan", "search"} /\ Rest
<1>. DEFINE Kept == p'.world = p.world /\ pc' # "idle"
<1>0. p \in Processes
  BY DEF TypeInv, Types
<1>1. pc \in {"plan", "search"} /\ Rest
  BY DEF Plan, Search, Rest, aside
<1>2. Stuck => Kept
  BY <1>0 DEF Stuck, Processes
<1>3. \A lits : Waits(lits) => Kept
  BY <1>0 DEF Waits, Processes
<1>4. \A plan : Chosen(plan) => Kept
  BY <1>0 DEF Chosen, Processes
<1>5. NoPlan => Kept
  BY <1>2 DEF NoPlan
<1>6. p' = [p EXCEPT !.status = "failed"] /\ pc' = "save" => Kept
  BY <1>0 DEF Processes
<1>7. ASSUME Plan PROVE Kept
  <2>. HIDE DEF Kept
  <2>1. (search' = SearchFrom("goal", p.world) /\ pc' = "search" /\ UNCHANGED p) => Kept
    BY DEF Kept
  <2>. QED BY <1>4, <1>5, <1>6, <1>7, <2>1 DEF Plan
<1>8. ASSUME Search PROVE Kept
  <2>1. (UNCHANGED <<p, pc>>) => Kept
    BY <1>1
  <2>2. \A n : Finish(n) => Kept
    <3>. HIDE DEF Kept
    <3>. QED BY <1>2, <1>3, <1>4 DEF Finish
  <2>3. Exhausted => Kept
    BY <1>2, <1>5 DEF Exhausted
  <2>4. \A n : Expand(n) => Kept
    BY <2>1 DEF Expand
  <2>. HIDE DEF Kept
  <2>. QED BY <1>8, <2>1, <2>2, <2>3, <2>4 DEF Search
<1>. QED BY <1>1, <1>7, <1>8

LEMMA AwareStep == TypeInv /\ Aware /\ [Next]_vars => Aware'
<1>. SUFFICES ASSUME TypeInv, Aware, [Next]_vars PROVE Aware'
  OBVIOUS
<1>0. /\ p \in Processes /\ row \in Processes /\ events \in 0..MaxEvents
      /\ pc # "idle" => row.status = "running"
  BY DEF TypeInv, Types, Stages
<1>1. ASSUME Plan \/ Search PROVE Aware'
  <2>1. p'.world = p.world /\ pc' # "idle" /\ pc \in {"plan", "search"} /\ Rest
    BY <1>1, PlanningKeepsWorld
  <2>2. p.world = change \/ events > 0 \/ missed
    BY <2>1 DEF Aware
  <2>. QED BY <2>1, <2>2 DEF Aware, NotForgotten, Rest
<1>2. ASSUME Observe PROVE Aware'
  <2>1. pc' \in {"plan", "save"} /\ (p'.world = change' \/ (pc' = "save" /\ p'.status = "failed"))
    <3>1. [p EXCEPT !.status = "failed"].status = "failed" /\ [p EXCEPT !.world = change].world = change
          /\ [p EXCEPT !.world = change, !.status = "completed", !.plan = <<>>].world = change
      BY <1>0 DEF Processes
    <3>. QED BY <1>2, <3>1 DEF Observe
  <2>. QED BY <2>1 DEF Aware, NotForgotten
<1>3. ASSUME FinishStep PROVE Aware'
  <2>. DEFINE q == [p EXCEPT !.world = change, !.wrote = FALSE]
  <2>1. q \in Processes /\ q.world = change /\ [q EXCEPT !.status = "failed"].world = change
        /\ [p EXCEPT !.status = "failed", !.wrote = FALSE].status = "failed"
    BY <1>0 DEF Processes, TypeInv, Types
  <2>2. \A a \in agent.actions : Failed(a, q).world = change
    <3>. HIDE DEF q
    <3>. QED BY <2>1, FailureCounted
  <2>3. Head(p.plan) \in agent.actions
    BY <1>0, <1>3, ProcessFields DEF FinishStep, TypeInv, Stages
  <2>4. (p'.world = change \/ p'.status = "failed") /\ pc' = "save" /\ change' = change
    BY <1>3, <2>1, <2>2, <2>3 DEF FinishStep
  <2>. QED BY <2>4 DEF Aware, NotForgotten
<1>4. ASSUME Save PROVE Aware'
  BY <1>4 DEF Save, aside, Aware, NotForgotten, Blocked
<1>5. ASSUME Take \/ GiveUp \/ Act PROVE Aware'
  BY <1>0, <1>5 DEF Take, GiveUp, Act, aside, Aware, NotForgotten, Blocked
<1>6. ASSUME Others PROVE Aware'
  BY <1>0, <1>6, Raised DEF Others, Aware, NotForgotten
<1>7. ASSUME Accompany PROVE Aware'
  BY <1>0, <1>7 DEF Accompany, Searching, Retried, Aware, NotForgotten
<1>10. ASSUME Rerun, missed' = TRUE PROVE Aware'
  BY <1>10 DEF Rerun, Aware, NotForgotten
<1>8. ASSUME (Rerun /\ row' = IF row.status = "running" THEN row ELSE Again(row)) \/ Unblock PROVE Aware'
  <2>1. Again(row).status = "running" /\ [row EXCEPT !.status = "failed", !.plan = <<>>, !.waits = {}].status = "failed"
    BY <1>0 DEF Again, Processes
  <2>2. ~Blocked(row'.status) /\ pc = "idle" /\ pc' = "idle"
    BY <1>8, <2>1 DEF Rerun, Unblock, Blocked
  <2>. QED BY <2>2 DEF Aware, NotForgotten
<1>9. CASE UNCHANGED vars
  BY <1>9 DEF vars, Aware, NotForgotten
<1>11. CASE Rerun
  BY <1>8, <1>10, <1>11 DEF Rerun
<1>. QED BY <1>1, <1>2, <1>3, <1>4, <1>5, <1>6, <1>7, <1>8, <1>9, <1>11 DEF Next

\* A blocked process that saw another world than the change's is tried again: an event or a rerun is
\* on its way, unless the event found the process still at work, or an error of the store, in the list or in the
\* rerun, dropped it.
THEOREM NoneForgotten == Spec => []NotForgotten
<1>1. Init => TypeInv /\ Aware
  <2>1. Init => Aware
    BY DEF Init, Aware, NotForgotten, Blocked
  <2>. QED BY <2>1, TypeInit
<1>2. TypeInv /\ Aware /\ [Next]_vars => (TypeInv /\ Aware)'
  BY TypeStep, AwareStep
<1>3. Aware => NotForgotten
  BY DEF Aware
<1>. QED BY <1>1, <1>2, <1>3, PTL DEF Spec

-----------------------------------------------------------------------------
(* No world is expanded twice.  The worlds expanded are those of the table  *)
(* of best costs that no open node has at its best cost.  The estimate is   *)
(* consistent: no node is nearer than the worlds already expanded, so none  *)
(* of them is reached at a lower cost again.                                *)

h(w) == Estimate(Operators, Goal, w)

Expanded == {w \in DOMAIN search.best : /\ ~Satisfies(w, Goal)
                                        /\ \A n \in search.open : n.world = w => n.g # search.best[w]}

OpenNodes ==
  /\ \A n \in search.open : /\ n.world \in DOMAIN search.best /\ search.best[n.world] <= n.g
                            /\ n.f <= n.g + h(n.world)
                            /\ n.f = n.g + h(n.world) \/ search.open = {n}
  /\ \A n, m \in search.open : n.world = m.world /\ n.g = m.g => n = m

BehindOpen == \A w \in Expanded, n \in search.open : search.best[w] + h(w) <= n.f

Once == pc = "search" => /\ OpenNodes /\ BehindOpen
                         /\ search.expansions <= Cardinality(Expanded)

\* The operators of a search are those of its mode and of the copy.
LEMMA SameEstimate ==
  ASSUME agent' = agent, p' = p, search'.mode = search.mode
  PROVE  \A w : h(w)' = h(w)
<1>1. Operators' = Operators
  BY DEF Operators, Admissible
<1>. QED BY <1>1 DEF h

LEMMA EstimateIs ==
  ASSUME agent \in Agents
  PROVE  /\ \A w : h(w) \in Nat
         /\ \A v, w : ~Satisfies(v, Goal) /\ ~Satisfies(w, Goal) => h(v) = h(w)
         /\ \A w : \A a \in Operators : h(w) <= Cost(a) /\ Cost(a) \in Nat /\ Cost(a) >= 1
<1>1. Operators \in SUBSET Actions
  BY AgentActions
<1>2. \A w : h(w) \in Nat /\ (~Satisfies(w, Goal) => h(w) = MinCost(Operators)) /\ \A a \in Operators : h(w) <= Cost(a)
  BY <1>1, EstimateBound DEF h
<1>3. \A a \in Operators : Cost(a) \in Nat /\ Cost(a) >= 1
  BY <1>1, CostPositive
<1>4. \A v, w : ~Satisfies(v, Goal) /\ ~Satisfies(w, Goal) => h(v) = h(w)
  <2>. TAKE v, w
  <2>. HAVE ~Satisfies(v, Goal) /\ ~Satisfies(w, Goal)
  <2>1. h(v) = MinCost(Operators) /\ h(w) = MinCost(Operators)
    BY <1>2
  <2>. QED BY <2>1
<1>. QED BY <1>2, <1>3, <1>4

\* An expansion pushes one node for a world.
LEMMA OneKidPerWorld ==
  ASSUME agent \in Agents, NEW n \in Nodes, Known(n), NEW j \in Kids(n), NEW k \in Kids(n), j.world = k.world
  PROVE  j = k
<1>1. PICK a \in Operators :
        /\ j.world = Apply(n.world, a.effects) /\ j.g = n.g + Cost(a)
        /\ \A b \in Operators : Satisfies(n.world, b.pre) /\ Apply(n.world, b.effects) = j.world =>
             Cost(a) < Cost(b) \/ (Cost(a) = Cost(b) /\ a.name <= b.name)
        /\ Satisfies(n.world, a.pre) /\ j.plan = Append(n.plan, a)
  BY KidOf
<1>2. PICK c \in Operators :
        /\ k.world = Apply(n.world, c.effects) /\ k.g = n.g + Cost(c)
        /\ \A b \in Operators : Satisfies(n.world, b.pre) /\ Apply(n.world, b.effects) = k.world =>
             Cost(c) < Cost(b) \/ (Cost(c) = Cost(b) /\ c.name <= b.name)
        /\ Satisfies(n.world, c.pre) /\ k.plan = Append(n.plan, c)
  BY KidOf
<1>3. /\ Cost(a) < Cost(c) \/ (Cost(a) = Cost(c) /\ a.name <= c.name)
      /\ Cost(c) < Cost(a) \/ (Cost(c) = Cost(a) /\ c.name <= a.name)
  BY <1>1, <1>2
<1>4. Cost(a) \in Nat /\ Cost(c) \in Nat
  BY EstimateIs
<1>5. a.name \in Nat /\ c.name \in Nat
  BY AgentActions DEF Actions
<1>6. a.name = c.name
  BY <1>3, <1>4, <1>5
<1>7. a = c
  BY <1>6, AgentActions DEF Told
<1>8. j.g = k.g /\ j.plan = k.plan
  BY <1>1, <1>2, <1>7
<1>9. j.f = k.f /\ j \in Nodes /\ k \in Nodes
  BY <1>8, KidOf
<1>. QED BY <1>8, <1>9 DEF Nodes

LEMMA FiniteExpanded == TypeInv => IsFiniteSet(Expanded) /\ Cardinality(Expanded) \in Nat
<1>. SUFFICES ASSUME TypeInv PROVE IsFiniteSet(Expanded) /\ Cardinality(Expanded) \in Nat
  OBVIOUS
<1>1. Expanded \in SUBSET Worlds
  BY DEF TypeInv, Types, Searches, Bests, Expanded
<1>2. IsFiniteSet(Expanded)
  BY <1>1, WorldsFinite, FS_Subset
<1>. QED BY <1>2, FS_CardinalityType

\* What an expansion of n changes: its kids are open, each in a world reached at a lower cost than before and
\* not expanded yet, and the world of n is one more of those expanded.
Expansion(n) ==
  /\ search'.open = (search.open \ {n}) \union Kids(n)
  /\ search'.expansions = search.expansions + 1 /\ search'.mode = search.mode
  /\ DOMAIN search'.best = DOMAIN search.best \union {k.world : k \in Kids(n)}
  /\ \A k \in Kids(n) : /\ k.g \in Nat /\ k.f = k.g + h(k.world) /\ k.g > n.g /\ n.g + h(n.world) <= k.f
                        /\ k.world \in DOMAIN search.best => k.g < search.best[k.world]
                        /\ k.world \in DOMAIN search'.best /\ search'.best[k.world] = k.g
                        /\ k.world \notin Expanded /\ k.world # n.world
  /\ \A j, k \in Kids(n) : j.world = k.world => j = k
  /\ \A w \in DOMAIN search.best :
       w \in DOMAIN search'.best /\ ((\A k \in Kids(n) : k.world # w) => search'.best[w] = search.best[w])
  /\ n.world \in DOMAIN search.best /\ search.best[n.world] = n.g /\ n.world \notin Expanded
  /\ n.f <= n.g + h(n.world)
  /\ Expanded' = Expanded \union {n.world}

LEMMA ExpandMoves ==
  ASSUME TypeInv, Rest, pc = "search", OpenNodes, BehindOpen,
         NEW n \in search.open, ~Satisfies(n.world, Goal), search.best[n.world] >= n.g,
         search.expansions # MaxExpansions, Expand(n)
  PROVE  Expansion(n)
<1>. DEFINE best == search.best
            kids == Kids(n)
            new == search'.best
<1>0. /\ agent \in Agents /\ search \in Searches /\ n \in Nodes /\ Known(n) /\ search.open \in SUBSET Nodes
      /\ best \in Bests /\ search.expansions \in Nat
  BY BoundsAssumption DEF TypeInv, Types, Nodal, Searches
<1>1. /\ search'.open = (search.open \ {n}) \union kids
      /\ search'.expansions = search.expansions + 1
      /\ search'.mode = search.mode
      /\ DOMAIN new = DOMAIN best \union {k.world : k \in kids}
      /\ \A w \in DOMAIN new : new[w] = IF \E k \in kids : k.world = w THEN (CHOOSE k \in kids : k.world = w).g ELSE best[w]
  BY <1>0 DEF Expand, Searches
<1>2. \A w : h(w)' = h(w)
  BY <1>1, SameEstimate DEF Rest, Expand
<1>3. \A w : h(w) \in Nat
  BY <1>0, EstimateIs
<1>4. \A m \in search.open : m.g \in Nat /\ m.f \in Nat /\ m.world \in DOMAIN best
  BY <1>0 DEF Nodes, OpenNodes
<1>5. \A w \in DOMAIN best : best[w] \in Nat
  BY <1>0 DEF Bests
<1>6. best[n.world] = n.g /\ n.f <= n.g + h(n.world)
  <2>1. best[n.world] <= n.g /\ best[n.world] \in Nat /\ n.g \in Nat
    BY <1>4, <1>5 DEF OpenNodes
  <2>. QED BY <2>1 DEF OpenNodes
<1>7. ASSUME NEW k \in kids
      PROVE  /\ k.g \in Nat /\ k.f = k.g + h(k.world) /\ k.g > n.g /\ n.g + h(n.world) <= k.f
             /\ k.world \in DOMAIN best => k.g < best[k.world]
  <2>1. k \in Nodes /\ k.f = k.g + h(k.world) /\ (k.world \in DOMAIN best => k.g < best[k.world])
    BY <1>0, KidOf DEF h
  <2>2. PICK a \in Operators : k.g = n.g + Cost(a)
    BY <1>0, KidOf
  <2>3. h(n.world) <= Cost(a) /\ Cost(a) \in Nat /\ Cost(a) >= 1
    BY <1>0, EstimateIs
  <2>4. k.g \in Nat
    BY <2>1 DEF Nodes
  <2>. HIDE DEF kids, best
  <2>. QED BY <1>3, <1>4, <2>1, <2>2, <2>3, <2>4
<1>8. \A j, k \in kids : j.world = k.world => j = k
  BY <1>0, OneKidPerWorld
<1>9. /\ \A k \in kids : k.world \in DOMAIN new /\ new[k.world] = k.g
      /\ \A w \in DOMAIN best : w \in DOMAIN new /\ ((\A k \in kids : k.world # w) => new[w] = best[w])
  <2>. HIDE DEF kids, best, new
  <2>1. ASSUME NEW k \in kids PROVE k.world \in DOMAIN new /\ new[k.world] = k.g
    <3>1. k.world \in DOMAIN new
      BY <1>1
    <3>2. (CHOOSE j \in kids : j.world = k.world) = k
      BY <1>8
    <3>. QED BY <1>1, <3>1, <3>2
  <2>2. ASSUME NEW w \in DOMAIN best PROVE w \in DOMAIN new /\ ((\A k \in kids : k.world # w) => new[w] = best[w])
    BY <1>1
  <2>. QED BY <2>1, <2>2
<1>. HIDE DEF kids, best, new
<1>10. ASSUME NEW w \in Expanded, NEW k \in kids PROVE k.world # w
  <2>. SUFFICES ASSUME k.world = w PROVE FALSE
    OBVIOUS
  <2>1. w \in DOMAIN best /\ ~Satisfies(w, Goal) /\ best[w] + h(w) <= n.f
    BY DEF Expanded, BehindOpen, best
  <2>2. k.g < best[w] /\ k.f = k.g + h(w) /\ n.g + h(n.world) <= k.f /\ k.g \in Nat
    BY <1>7, <2>1
  <2>3. best[w] \in Nat /\ h(w) \in Nat /\ n.f \in Nat /\ n.g \in Nat /\ h(n.world) \in Nat
    BY <1>3, <1>4, <1>5, <2>1
  <2>. QED BY <1>6, <2>1, <2>2, <2>3
<1>11. \A k \in kids : k.world # n.world
  <2>. SUFFICES ASSUME NEW k \in kids, k.world = n.world PROVE FALSE
    OBVIOUS
  <2>1. k.g < n.g /\ k.g > n.g /\ k.g \in Nat /\ n.g \in Nat
    BY <1>4, <1>6, <1>7
  <2>. QED BY <2>1
<1>12. n.world \in DOMAIN best /\ n.world \notin Expanded
  BY <1>4, <1>6 DEF Expanded, best
<1>13. Expanded' = Expanded \union {n.world}
  <2>1. ASSUME NEW w \in Expanded PROVE w \in Expanded'
    <3>1. w \in DOMAIN new /\ new[w] = best[w] /\ ~Satisfies(w, Goal)
      BY <1>9, <1>10 DEF Expanded, best
    <3>2. \A m \in search'.open : m.world = w => m.g # new[w]
      BY <1>1, <1>10, <3>1 DEF Expanded, best
    <3>. QED BY <3>1, <3>2 DEF Expanded, new
  <2>2. n.world \in Expanded'
    <3>1. n.world \in DOMAIN new /\ new[n.world] = n.g
      BY <1>6, <1>9, <1>11, <1>12
    <3>2. \A m \in search'.open : m.world = n.world => m.g # new[n.world]
      BY <1>1, <1>11, <3>1 DEF OpenNodes
    <3>. QED BY <3>1, <3>2 DEF Expanded, new
  <2>3. ASSUME NEW w \in Expanded', w # n.world PROVE w \in Expanded
    <3>1. w \in DOMAIN new /\ ~Satisfies(w, Goal) /\ \A m \in search'.open : m.world = w => m.g # new[w]
      BY DEF Expanded, new
    <3>2. \A k \in kids : k.world # w
      BY <1>1, <1>9, <3>1
    <3>3. w \in DOMAIN best /\ new[w] = best[w]
      BY <1>1, <1>9, <3>1, <3>2
    <3>4. \A m \in search.open : m.world = w => m.g # best[w]
      BY <1>1, <2>3, <3>1, <3>3
    <3>. QED BY <3>1, <3>3, <3>4 DEF Expanded, best
  <2>. QED BY <2>1, <2>2, <2>3
<1>14. \A k \in kids : k.world \notin Expanded
  BY <1>10
<1>. HIDE DEF kids, best, new
<1>. QED BY <1>1, <1>6, <1>7, <1>8, <1>9, <1>11, <1>12, <1>13, <1>14 DEF Expansion, kids, best, new

\* The nearest open node is expanded: its world is one more of those expanded.
LEMMA ExpandOnce ==
  ASSUME TypeInv, Rest, pc = "search", OpenNodes, BehindOpen, search.expansions <= Cardinality(Expanded),
         NEW n \in search.open, Nearest(n), ~Satisfies(n.world, Goal), search.best[n.world] >= n.g,
         search.expansions # MaxExpansions, Expand(n)
  PROVE  OpenNodes' /\ BehindOpen' /\ search'.expansions <= Cardinality(Expanded')
<1>. DEFINE best == search.best
            kids == Kids(n)
            new == search'.best
<1>0. /\ agent \in Agents /\ search \in Searches /\ search.open \in SUBSET Nodes
      /\ best \in Bests /\ search.expansions \in Nat
  BY BoundsAssumption DEF TypeInv, Types, Searches
<1>moves. Expansion(n)
  BY ExpandMoves
<1>1. /\ search'.open = (search.open \ {n}) \union kids
      /\ search'.expansions = search.expansions + 1
      /\ search'.mode = search.mode
  BY <1>moves DEF Expansion
<1>2. \A w : h(w)' = h(w)
  BY <1>1, SameEstimate DEF Rest, Expand
<1>3. \A w : h(w) \in Nat
  BY <1>0, EstimateIs
<1>4. \A m \in search.open : m.g \in Nat /\ m.f \in Nat /\ m.world \in DOMAIN best
  BY <1>0 DEF Nodes, OpenNodes
<1>5. \A w \in DOMAIN best : best[w] \in Nat
  BY <1>0 DEF Bests
<1>6. best[n.world] = n.g /\ n.f <= n.g + h(n.world)
  BY <1>moves DEF Expansion
<1>7. \A k \in kids : /\ k.g \in Nat /\ k.f = k.g + h(k.world) /\ n.g + h(n.world) <= k.f
                      /\ k.world \in DOMAIN best => k.g < best[k.world]
  BY <1>moves DEF Expansion
<1>8. \A j, k \in kids : j.world = k.world => j = k
  BY <1>moves DEF Expansion
<1>9. /\ \A k \in kids : k.world \in DOMAIN new /\ new[k.world] = k.g
      /\ \A w \in DOMAIN best : w \in DOMAIN new /\ ((\A k \in kids : k.world # w) => new[w] = best[w])
  BY <1>moves DEF Expansion
<1>10. \A w \in Expanded, k \in kids : k.world # w
  BY <1>moves DEF Expansion
<1>11. \A k \in kids : k.world # n.world
  BY <1>moves DEF Expansion
<1>12. n.world \in DOMAIN best /\ n.world \notin Expanded
  BY <1>moves DEF Expansion
<1>13. Expanded' = Expanded \union {n.world}
  BY <1>moves DEF Expansion
<1>. HIDE DEF kids, best, new
<1>14. ASSUME NEW m \in search.open, m # n PROVE new[m.world] <= m.g /\ m.world \in DOMAIN new
  <2>1. best[m.world] <= m.g /\ m.world \in DOMAIN best /\ best[m.world] \in Nat /\ m.g \in Nat
    BY <1>4, <1>5 DEF OpenNodes, best
  <2>2. CASE \E k \in kids : k.world = m.world
    <3>1. PICK k \in kids : k.world = m.world
      BY <2>2
    <3>2. k.g < best[m.world] /\ new[m.world] = k.g /\ k.g \in Nat
      BY <1>7, <1>9, <2>1, <3>1
    <3>. QED BY <1>9, <2>1, <3>2
  <2>3. CASE \A k \in kids : k.world # m.world
    BY <1>9, <2>1, <2>3
  <2>. QED BY <2>2, <2>3
<1>15. search'.expansions <= Cardinality(Expanded')
  <2>1. IsFiniteSet(Expanded) /\ Cardinality(Expanded) \in Nat
    BY FiniteExpanded
  <2>2. Cardinality(Expanded \union {n.world}) = Cardinality(Expanded) + 1
    BY <1>12, <2>1, FS_AddElement
  <2>. QED BY <1>0, <1>1, <1>13, <2>1, <2>2
<1>16. OpenNodes'
  <2>1. ASSUME NEW m \in search'.open
        PROVE  /\ m.world \in DOMAIN new /\ new[m.world] <= m.g
               /\ m.f <= m.g + h(m.world) /\ m.f = m.g + h(m.world)
    <3>1. CASE m \in kids
      <4>1. m.world \in DOMAIN new /\ new[m.world] = m.g /\ m.g \in Nat /\ m.f = m.g + h(m.world) /\ h(m.world) \in Nat
        BY <1>3, <1>7, <1>9, <3>1
      <4>. QED BY <4>1
    <3>2. CASE m \in search.open /\ m # n
      <4>1. m.world \in DOMAIN new /\ new[m.world] <= m.g
        BY <1>14, <3>2
      <4>2. m.f <= m.g + h(m.world) /\ m.f = m.g + h(m.world)
        BY <3>2 DEF OpenNodes
      <4>. QED BY <4>1, <4>2
    <3>. QED BY <1>1, <3>1, <3>2
  <2>2. ASSUME NEW j \in kids, NEW m \in search.open, m # n, j.world = m.world PROVE j.g # m.g
    <3>1. j.g < best[m.world] /\ best[m.world] <= m.g /\ j.g \in Nat /\ m.g \in Nat /\ best[m.world] \in Nat
      BY <1>4, <1>5, <1>7, <2>2 DEF OpenNodes, best
    <3>. QED BY <3>1
  <2>3. \A j, m \in search'.open : j.world = m.world /\ j.g = m.g => j = m
    BY <1>1, <1>8, <2>2 DEF OpenNodes
  <2>. QED BY <1>2, <2>1, <2>3 DEF OpenNodes, new
<1>17. BehindOpen'
  <2>1. ASSUME NEW m \in search'.open PROVE n.f <= m.f /\ m.f \in Nat /\ (m.f >= n.g + h(n.world))
    <3>1. CASE m \in kids
      <4>1. m.f = m.g + h(m.world) /\ m.g \in Nat /\ h(m.world) \in Nat /\ n.g + h(n.world) <= m.f
        BY <1>3, <1>7, <3>1
      <4>2. n.f \in Nat /\ n.g \in Nat /\ h(n.world) \in Nat
        BY <1>3, <1>4
      <4>. QED BY <1>6, <4>1, <4>2
    <3>2. CASE m \in search.open /\ m # n
      <4>1. n.f = n.g + h(n.world)
        BY <3>2 DEF OpenNodes
      <4>2. n.f <= m.f /\ n.f \in Nat /\ m.f \in Nat
        BY <1>4, <3>2 DEF Nearest
      <4>. QED BY <4>1, <4>2
    <3>. QED BY <1>1, <3>1, <3>2
  <2>2. ASSUME NEW w \in Expanded, NEW m \in search'.open PROVE new[w] + h(w) <= m.f
    <3>1. w \in DOMAIN best /\ new[w] = best[w] /\ best[w] + h(w) <= n.f
      BY <1>9, <1>10 DEF Expanded, BehindOpen, best
    <3>2. n.f \in Nat /\ best[w] \in Nat /\ h(w) \in Nat
      BY <1>3, <1>4, <1>5, <3>1
    <3>. QED BY <2>1, <3>1, <3>2
  <2>3. ASSUME NEW m \in search'.open PROVE new[n.world] + h(n.world) <= m.f
    <3>1. new[n.world] = n.g
      BY <1>6, <1>9, <1>11, <1>12
    <3>. QED BY <2>1, <3>1
  <2>4. \A w \in Expanded', m \in search'.open : new[w] + h(w) <= m.f
    BY <1>13, <2>2, <2>3
  <2>. QED BY <1>2, <2>4 DEF BehindOpen, new
<1>. QED BY <1>15, <1>16, <1>17

\* A node reached at a lower cost meanwhile is left out: nothing else changes.
LEMMA LeaveOutOnce ==
  ASSUME TypeInv, Rest, p' = p, OpenNodes, BehindOpen, search.expansions <= Cardinality(Expanded),
         NEW n \in search.open, search.best[n.world] < n.g, search' = [search EXCEPT !.open = @ \ {n}]
  PROVE  OpenNodes' /\ BehindOpen' /\ search'.expansions <= Cardinality(Expanded')
<1>1. /\ search'.open = search.open \ {n} /\ search'.best = search.best /\ search'.mode = search.mode
      /\ search'.expansions = search.expansions
  BY DEF TypeInv, Types, Searches
<1>2. \A w : h(w)' = h(w)
  BY <1>1, SameEstimate DEF Rest
<1>3. n.g # search.best[n.world]
  <2>1. n.g \in Nat /\ search.best[n.world] \in Nat
    BY DEF TypeInv, Types, Searches, Bests, Nodes, OpenNodes
  <2>. QED BY <2>1
<1>4. Expanded' = Expanded
  BY <1>1, <1>3 DEF Expanded
<1>5. OpenNodes'
  BY <1>1, <1>2 DEF OpenNodes
<1>6. BehindOpen'
  BY <1>1, <1>2, <1>4 DEF BehindOpen
<1>. QED BY <1>1, <1>4, <1>5, <1>6

\* A search that begins has expanded nothing.
LEMMA BeginOnce ==
  ASSUME TypeInv', NEW mode \in {"goal", "relaxed"}, NEW w \in Worlds, mode = "goal" => w = p.world,
         search' = SearchFrom(mode, w)
  PROVE  OpenNodes' /\ BehindOpen' /\ search'.expansions <= Cardinality(Expanded')
<1>. DEFINE root == [world |-> w, g |-> 0, f |-> 0, plan |-> <<>>]
<1>1. search'.open = {root} /\ search'.best = [x \in {w} |-> 0] /\ search'.expansions = 0
  BY SearchBegins
<1>2. root.world = w /\ root.g = 0 /\ root.f = 0
  OBVIOUS
<1>. HIDE DEF root
<1>3. Expanded' = {}
  BY <1>1, <1>2 DEF Expanded
<1>4. h(w)' \in Nat
  <2>1. Operators' \in SUBSET Actions
    <3>1. agent' \in Agents
      BY DEF TypeInv, Types
    <3>2. \A g \in Agents : \A off : g.actions \ off \in SUBSET Actions /\ Told(g.actions \ off)
      BY AgentsAssumption DEF Told
    <3>3. \A g \in Agents : \A off : Reweighted(g.actions \ off) \in SUBSET Actions
      BY <3>2, ReweightedActions
    <3>. QED BY <3>1, <3>2, <3>3 DEF Operators, Admissible
  <2>. QED BY <2>1, EstimateBound DEF h
<1>5. OpenNodes'
  BY <1>1, <1>2, <1>4 DEF OpenNodes
<1>6. BehindOpen'
  BY <1>3 DEF BehindOpen
<1>7. Cardinality(Expanded') = 0
  BY <1>3, FS_EmptySet
<1>. QED BY <1>1, <1>5, <1>6, <1>7

LEMMA OnceStep == TypeInv /\ TypeInv' /\ Once /\ [Next]_vars => Once'
<1>. SUFFICES ASSUME TypeInv, TypeInv', Once, [Next]_vars, pc' = "search"
              PROVE  OpenNodes' /\ BehindOpen' /\ search'.expansions <= Cardinality(Expanded')
  BY DEF Once
<1>. DEFINE Kept == OpenNodes' /\ BehindOpen' /\ search'.expansions <= Cardinality(Expanded')
<1>0. agent \in Agents /\ p \in Processes /\ p.world \in Worlds
  <2>1. agent \in Agents /\ p \in Processes
    BY DEF TypeInv, Types
  <2>. QED BY <2>1, ProcessFields
<1>1. NoPlan => Kept
  <2>1. Assume(p.world, EstablishedElsewhere) \in Worlds
    BY <1>0, ExternalConditions, AssumeWorld
  <2>2. ~Stuck
    BY DEF Stuck
  <2>. QED BY <2>1, <2>2, BeginOnce DEF NoPlan
<1>2. Exhausted => Kept
  BY <1>1 DEF Exhausted, Stuck
<1>3. \A plan : ~Chosen(plan)
  BY DEF Chosen
<1>4. ASSUME Plan PROVE Kept
  <2>1. search' = SearchFrom("goal", p.world) => Kept
    BY <1>0, BeginOnce
  <2>. HIDE DEF Kept
  <2>. QED BY <1>1, <1>3, <1>4, <2>1 DEF Plan
<1>5. ASSUME Search PROVE Kept
  <2>0. pc = "search" /\ OpenNodes /\ BehindOpen /\ search.expansions <= Cardinality(Expanded) /\ Rest
    BY <1>5 DEF Search, Once, Rest, aside
  <2>1. \A n : ~Finish(n)
    BY <1>3 DEF Finish, Stuck, Waits
  <2>2. ASSUME NEW n \in search.open, search.best[n.world] < n.g, search' = [search EXCEPT !.open = @ \ {n}], UNCHANGED <<p, pc>>
        PROVE  Kept
    BY <2>0, <2>2, LeaveOutOnce
  <2>3. ASSUME NEW n \in search.open, Nearest(n), ~Satisfies(n.world, Goal), search.best[n.world] >= n.g,
               IF search.expansions = MaxExpansions THEN Exhausted ELSE Expand(n)
        PROVE  Kept
    BY <1>2, <2>0, <2>3, ExpandOnce
  <2>. HIDE DEF Kept
  <2>. QED BY <1>2, <1>5, <2>1, <2>2, <2>3 DEF Search
<1>6. CASE UNCHANGED vars
  <2>1. OpenNodes /\ BehindOpen /\ search.expansions <= Cardinality(Expanded)
    BY <1>6 DEF vars, Once
  <2>2. search' = search /\ p' = p /\ agent' = agent
    BY <1>6 DEF vars
  <2>3. \A w : h(w)' = h(w)
    BY <2>2, SameEstimate
  <2>4. Expanded' = Expanded
    BY <2>2 DEF Expanded
  <2>. QED BY <2>1, <2>2, <2>3, <2>4 DEF OpenNodes, BehindOpen
<1>7. ~(Take \/ GiveUp \/ Observe \/ Act \/ FinishStep \/ Save \/ Others \/ Accompany \/ Rerun \/ Unblock)
  BY DEF Take, GiveUp, Observe, Act, FinishStep, Save, Others, Accompany, Rerun, Unblock, Searching
<1>. QED BY <1>4, <1>5, <1>6, <1>7 DEF Next

\* The search never expands a world twice: its expansions are bounded by the worlds it met.
THEOREM NoneExpandedTwice == Spec => []ExpandedOnce
<1>1. Init => TypeInv /\ Once
  <2>1. Init => Once
    BY DEF Init, Once
  <2>. QED BY <2>1, TypeInit
<1>2. TypeInv /\ Once /\ [Next]_vars => (TypeInv /\ Once)'
  BY TypeStep, OnceStep
<1>3. TypeInv /\ Once => ExpandedOnce
  <2>. SUFFICES ASSUME TypeInv, Once PROVE ExpandedOnce
    OBVIOUS
  <2>. DEFINE Met == {w \in DOMAIN search.best : ~Satisfies(w, Goal)}
  <2>1. IsFiniteSet(Met)
    <3>1. Met \in SUBSET Worlds
      BY DEF TypeInv, Types, Searches, Bests
    <3>. QED BY <3>1, WorldsFinite, FS_Subset
  <2>2. Cardinality(Met) \in Nat
    BY <2>1, FS_CardinalityType
  <2>3. CASE pc = "search"
    <3>1. Expanded \in SUBSET Met
      BY DEF Expanded
    <3>2. Cardinality(Expanded) <= Cardinality(Met)
      <4>. HIDE DEF Met
      <4>. QED BY <2>1, <3>1, FS_Subset
    <3>3. search.expansions \in Nat /\ Cardinality(Expanded) \in Nat
      BY FiniteExpanded, BoundsAssumption DEF TypeInv, Types, Searches
    <3>. QED BY <2>2, <2>3, <3>2, <3>3 DEF Once, ExpandedOnce
  <2>4. CASE pc # "search"
    <3>1. search.expansions = 0
      BY <2>4, NothingSearched DEF TypeInv, Nodal
    <3>. QED BY <2>2, <3>1 DEF ExpandedOnce
  <2>. QED BY <2>3, <2>4
<1>. QED BY <1>1, <1>2, <1>3, PTL DEF Spec
=============================================================================
