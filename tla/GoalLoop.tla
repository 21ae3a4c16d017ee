------------------------------ MODULE GoalLoop ------------------------------
(***************************************************************************)
(* The cycle of a process (engine/engine/cycle.go): observe the change,    *)
(* plan with A* (goap/planner.go), run the first action, check what it     *)
(* promised, give up on it after its failures; wait for what others        *)
(* establish or be stuck when no plan reaches the goal (awaiting.go); and  *)
(* be tried again when the change moves (companion.go, retryBlocked) or    *)
(* when a person decides (unblock.go).                                     *)
(*                                                                         *)
(* One process, whose run holds its lock from Take to the save that leaves *)
(* it (EngineReplicas has the replicas); the change moves meanwhile.       *)
(***************************************************************************)
EXTENDS Planner, Sequences

CONSTANTS
  Agents,        \* the agents: their actions (records of name, pre, effects, cost, utility), which of them are
                 \* incremental, and their planner
  Goal,          \* Goal.Pre
  Starts,        \* the worlds a change may start in
  MaxFailures,   \* Engine.MaxFailures
  MaxSteps,      \* Engine.MaxSteps
  MaxExpansions, \* Planner.MaxExpansions
  MaxEvents,     \* bound: events on their way
  MaxMoves,      \* bound: moves of the change by others
  MaxItems,      \* bound: actions that write items without reaching their effects
  MaxUnblocks,   \* bound: decisions of a person
  MaxFaults      \* bound: errors of the store met in retrying a blocked process

Planners == {"goap", "hybrid", "utility", "llm"}

ASSUME ConditionsAssumption == IsFiniteSet(Conditions) /\ Goal \in Worlds /\ Starts \subseteq Worlds
\* The compiler of methodologies refuses two actions of a name.
ASSUME AgentsAssumption == \A g \in Agents :
  /\ g.planner \in Planners /\ g.actions \subseteq Actions /\ g.incremental \subseteq g.actions
  /\ \A a, b \in g.actions : a.name = b.name => a = b
ASSUME BoundsAssumption ==
  /\ MaxFailures \in Nat \ {0} /\ MaxSteps \in Nat \ {0} /\ MaxExpansions \in Nat \ {0}
  /\ MaxEvents \in Nat \ {0} /\ MaxMoves \in Nat /\ MaxItems \in Nat /\ MaxUnblocks \in Nat
  /\ MaxFaults \in Nat

VARIABLES
  agent,     \* its actions and its planner
  change,    \* the world as the change makes it
  row,       \* the process as saved
  p,         \* the copy its run works on
  pc,        \* where that run is; idle: nobody holds the lock
  search,    \* the search under way
  events,    \* change.item_added events on their way to Accompany
  listed,    \* retryBlocked found the process blocked in its list and is about to rerun it
  missed,    \* history: an event came and went since the process observed, and found it at work, or an error dropped it
  used       \* bounds used up

vars == <<agent, change, row, p, pc, search, events, listed, missed, used>>
aside == <<agent, events, listed>>     \* what the run of the process leaves alone, its action aside

NoWorld == [k \in {} |-> FALSE]
NoSearch == [mode |-> "none", open |-> {}, best |-> NoWorld, expansions |-> 0]
Blocked(s) == s \in {"stuck", "waiting"}
TypeOK ==
  /\ agent.planner \in Planners
  /\ IsWorld(change)
  /\ {row.status, p.status} \subseteq {"running", "waiting", "stuck", "completed", "failed"}
  /\ \A x \in {row, p} :
       /\ IsWorld(x.world) /\ x.waits \subseteq Conditions \X BOOLEAN /\ x.disabled \subseteq agent.actions
       /\ x.failures \in [agent.actions -> Nat] /\ x.steps \in 0..MaxSteps /\ x.wrote \in BOOLEAN
       /\ x.waits # {} <=> x.status = "waiting"
  /\ pc \in {"idle", "observe", "plan", "search", "act", "finish", "save"}
  /\ search.mode \in {"none", "goal", "relaxed"} /\ \A w \in DOMAIN search.best : IsWorld(w)
  /\ search.expansions \in 0..MaxExpansions
  /\ events \in 0..MaxEvents /\ listed \in BOOLEAN /\ missed \in BOOLEAN
  /\ used \in [moves : 0..MaxMoves, items : 0..MaxItems, unblocks : 0..MaxUnblocks, faults : 0..MaxFaults]

Init ==
  /\ agent \in Agents
  /\ change \in Starts
  /\ row = [status |-> "running", world |-> NoWorld, plan |-> <<>>, waits |-> {}, disabled |-> {},
            failures |-> [a \in agent.actions |-> 0], steps |-> 0, wrote |-> FALSE]
  /\ p = row /\ pc = "idle" /\ search = NoSearch
  /\ events = 0 /\ listed = FALSE /\ missed = FALSE
  /\ used = [moves |-> 0, items |-> 0, unblocks |-> 0, faults |-> 0]

\* Beyond MaxEvents the events on their way count as one.
Raise == Min({events + 1, MaxEvents})

Use(what, bound) == used[what] < bound /\ used' = [used EXCEPT ![what] = @ + 1]

-----------------------------------------------------------------------------
(* The run: Run, cycle.                                                     *)

\* A process at its step limit is taken as well, and let go of at once (GiveUp).
Take ==
  /\ pc = "idle" /\ row.status = "running" /\ row.steps < MaxSteps
  /\ p' = row /\ pc' = "observe"
  /\ UNCHANGED <<aside, change, row, search, missed, used>>

\* The step limit: the run fails its copy and leaves without a save.
GiveUp ==
  /\ pc = "observe" /\ p.steps >= MaxSteps
  /\ pc' = "idle" /\ p' = row
  /\ UNCHANGED <<aside, change, row, search, missed, used>>

\* observeGoal.
Observe ==
  /\ pc = "observe" /\ p.steps < MaxSteps
  /\ \/ /\ Satisfies(change, Goal)
        /\ p' = [p EXCEPT !.world = change, !.status = "completed", !.plan = <<>>]
        /\ pc' = "save"
     \/ /\ ~Satisfies(change, Goal)
        /\ p' = [p EXCEPT !.world = change]
        /\ pc' = "plan"
     \/ p' = [p EXCEPT !.status = "failed"] /\ pc' = "save"         \* the graph does not answer
  /\ missed' = FALSE
  /\ UNCHANGED <<aside, change, row, search, used>>

AllActions == agent.actions
Admissible == agent.actions \ p.disabled

\* The actions A* plans with, for the goal; the relaxed search of awaited has the plain ones.
Operators == IF search.mode = "goal" /\ agent.planner = "hybrid" THEN Reweighted(Admissible) ELSE Admissible

SearchFrom(mode, w) == [mode |-> mode, open |-> {[world |-> w, g |-> 0, f |-> 0, plan |-> <<>>]},
                        best |-> [x \in {w} |-> 0], expansions |-> 0]

Chosen(plan) == p' = [p EXCEPT !.plan = plan] /\ pc' = "act" /\ search' = NoSearch

\* settleNoPlan, when nothing external would do; or with the conditions it waits for.
Stuck == p' = [p EXCEPT !.status = "stuck", !.plan = <<>>, !.waits = {}] /\ pc' = "save" /\ search' = NoSearch
Waits(lits) == p' = [p EXCEPT !.status = "waiting", !.plan = <<>>, !.waits = lits] /\ pc' = "save" /\ search' = NoSearch

EstablishedElsewhere == External(AllActions, Admissible, p.world, Goal)

NoPlan ==
  IF EstablishedElsewhere = {} THEN Stuck
  ELSE pc' = "search" /\ search' = SearchFrom("relaxed", Assume(p.world, EstablishedElsewhere)) /\ UNCHANGED p

\* Engine.plan.
Plan ==
  /\ pc = "plan"
  /\ \/ /\ agent.planner \in {"goap", "hybrid"}
        /\ search' = SearchFrom("goal", p.world)
        /\ pc' = "search" /\ UNCHANGED p
     \/ /\ agent.planner = "utility"
        /\ LET as == Useful(Admissible, p.world)
           IN  IF as = {} THEN NoPlan ELSE \E a \in Preferred(as) : Chosen(<<a>>)
     \/ /\ agent.planner = "llm"
        /\ \/ \E a \in Applicable(Admissible, p.world) : Chosen(<<a>>)
           \/ NoPlan                                                 \* the model names none
           \/ p' = [p EXCEPT !.status = "failed"] /\ pc' = "save" /\ UNCHANGED search
  /\ UNCHANGED <<aside, change, row, missed, used>>

-----------------------------------------------------------------------------
(* Planner.Plan.                                                            *)

NotWorse(g, w) == w \in DOMAIN search.best => g <= search.best[w]
Improves(g, w) == w \in DOMAIN search.best => g < search.best[w]

\* The nodes an expansion pushes: per world reached, the cheapest action (the first of the list), where it improves.
Kids(n) ==
  LET to(a) == Apply(n.world, a.effects)
      able == Applicable(Operators, n.world)
      rank(a, b) == Cost(a) < Cost(b) \/ (Cost(a) = Cost(b) /\ a.name <= b.name)
      kept == {a \in able : /\ \A b \in able : to(b) = to(a) => rank(a, b)
                            /\ Improves(n.g + Cost(a), to(a))}
  IN  {[world |-> to(a), g |-> n.g + Cost(a), f |-> n.g + Cost(a) + Estimate(Operators, Goal, to(a)),
        plan |-> Append(n.plan, a)] : a \in kept}

Greedy(n) == \A m \in search.open : n.f - n.g <= m.f - m.g
Nearest(n) == \A m \in search.open : n.f <= m.f

\* The plan of the search, in terms of the actions of the agent.
Named(plan) == [i \in 1..Len(plan) |-> CHOOSE a \in agent.actions : a.name = plan[i].name]

Finish(n) ==
  \/ search.mode = "goal" /\ Chosen(Named(n.plan))
  \/ /\ search.mode = "relaxed"
     /\ LET out == ReliedOn(EstablishedElsewhere, Goal, {n.plan[i] : i \in 1..Len(n.plan)})
        IN  IF out = {} THEN Stuck ELSE Waits(out)

Exhausted == IF search.mode = "goal" THEN NoPlan ELSE Stuck

Expand(n) ==
  LET kids == Kids(n) best == search.best IN
  /\ search' = [search EXCEPT
       !.open = (@ \ {n}) \union kids,
       !.best = [w \in DOMAIN best \union {k.world : k \in kids} |->
                  IF \E k \in kids : k.world = w THEN (CHOOSE k \in kids : k.world = w).g ELSE best[w]],
       !.expansions = @ + 1]
  /\ UNCHANGED <<p, pc>>

Search ==
  /\ pc = "search"
  /\ \/ search.open = {} /\ Exhausted
     \/ \E n \in search.open :
          /\ Nearest(n)
          /\ \/ Satisfies(n.world, Goal) /\ Finish(n)
             \/ /\ ~Satisfies(n.world, Goal) /\ search.best[n.world] < n.g
                /\ search' = [search EXCEPT !.open = @ \ {n}] /\ UNCHANGED <<p, pc>>
             \/ /\ ~Satisfies(n.world, Goal) /\ search.best[n.world] >= n.g
                /\ IF search.expansions = MaxExpansions THEN Exhausted ELSE Expand(n)
  /\ UNCHANGED <<aside, change, row, missed, used>>

-----------------------------------------------------------------------------
(* The action, what it did, and the save.                                   *)

\* execute: the action establishes its effects on the change, writes items and does not, or does nothing.
Act ==
  /\ pc = "act"
  /\ \E wrote \in BOOLEAN :
       /\ \/ wrote /\ change' = Apply(change, Head(p.plan).effects) /\ events' = Raise /\ UNCHANGED used
          \/ wrote /\ Use("items", MaxItems) /\ events' = Raise /\ UNCHANGED change
          \/ ~wrote /\ UNCHANGED <<change, events, used>>
       /\ p' = [p EXCEPT !.steps = @ + 1, !.wrote = wrote]
  /\ pc' = "finish"
  /\ UNCHANGED <<agent, listed, row, search, missed>>

\* recordFailure: the failed steps of the process, however often it was run again.
Failed(a, q) == LET n == q.failures[a] + 1 IN
  [q EXCEPT !.failures[a] = n, !.disabled = IF n >= MaxFailures THEN @ \union {a} ELSE @]

IncrementalAnyway(a) == a \in agent.incremental

\* An incremental action that wrote something runs again: no failure.
Progress(a) == a \in agent.incremental /\ p.wrote

\* finishStep.
FinishStep ==
  LET a == Head(p.plan) q == [p EXCEPT !.world = change, !.wrote = FALSE] met == Satisfies(change, a.effects) IN
  /\ pc = "finish"
  /\ \/ (met \/ Progress(a)) /\ p' = q
     \/ ~met /\ ~Progress(a) /\ p' = Failed(a, q)
     \/ p' = [p EXCEPT !.status = "failed", !.wrote = FALSE]       \* the graph does not answer
     \/ met /\ p' = [q EXCEPT !.status = "failed"]                 \* or refuses what the action emits
  /\ pc' = "save"
  /\ UNCHANGED <<aside, change, row, search, missed, used>>

Save ==
  /\ pc = "save"
  /\ row' = p
  /\ pc' = IF p.status = "running" THEN "observe" ELSE "idle"
  /\ UNCHANGED <<aside, change, p, search, missed, used>>

-----------------------------------------------------------------------------
(* The change moves, and a person decides.                                  *)

\* The search works on the copy alone: what happens during it happens as well before or after.
Searching == pc \in {"plan", "search"}

Others ==
  /\ ~Searching /\ Use("moves", MaxMoves)
  /\ change' \in {w \in Worlds : \E k \in Conditions : w # change /\ Restrict(w, DOMAIN w \ {k}) = Restrict(change, DOMAIN change \ {k})}
  /\ events' = Raise
  /\ UNCHANGED <<agent, row, p, pc, search, listed, missed>>

\* retryBlocked for an event: the list, without a lock.
OnlyStuck(s) == s = "stuck"
Retried(s) == Blocked(s)

Accompany ==
  /\ ~Searching /\ events > 0 /\ ~listed
  /\ events' = events - 1
  /\ \/ /\ listed' = Retried(row.status)
        /\ missed' = (missed \/ row.status = "running")
        /\ UNCHANGED used
     \/ Use("faults", MaxFaults) /\ missed' = TRUE /\ UNCHANGED listed            \* no list
  /\ UNCHANGED <<agent, change, row, p, pc, search>>

StillWaiting(q) == [q EXCEPT !.status = "running", !.plan = <<>>, !.disabled = {}]

\* It runs again on the change as it is now, with all its actions.
Again(q) == [q EXCEPT !.status = "running", !.plan = <<>>, !.waits = {}, !.disabled = {}]

\* rerun, for each process of the list, under its lock: ended ones too.  An error leaves the row as it was.
Rerun ==
  /\ listed /\ pc = "idle"
  /\ listed' = FALSE
  /\ \/ row' = (IF row.status = "running" THEN row ELSE Again(row)) /\ UNCHANGED <<missed, used>>
     \/ Use("faults", MaxFaults) /\ missed' = TRUE /\ UNCHANGED row
  /\ UNCHANGED <<agent, change, p, pc, search, events>>

\* Unblock: retry, or abandon.
Unblock ==
  /\ pc = "idle" /\ Blocked(row.status) /\ Use("unblocks", MaxUnblocks)
  /\ row' \in {Again(row), [row EXCEPT !.status = "failed", !.plan = <<>>, !.waits = {}]}
  /\ UNCHANGED <<agent, change, p, pc, search, events, listed, missed>>

-----------------------------------------------------------------------------
Next ==
  \/ Take \/ GiveUp \/ Observe \/ Plan \/ Search \/ Act \/ FinishStep \/ Save
  \/ Others \/ Accompany \/ Rerun \/ Unblock

Spec == Init /\ [][Next]_vars

-----------------------------------------------------------------------------
(* Properties.                                                              *)

Astar == agent.planner \in {"goap", "hybrid"}
Weighted(as) == IF agent.planner = "hybrid" THEN Reweighted(as) ELSE as
Weight(a) == MinCost(Weighted({a}))

\* The worlds a plan leads through from w, and what it costs.
Along(w, plan) ==
  LET at[i \in 0..Len(plan)] == IF i = 0 THEN w ELSE Apply(at[i - 1], plan[i].effects) IN at
Spent(plan) ==
  LET upTo[i \in 0..Len(plan)] == IF i = 0 THEN 0 ELSE upTo[i - 1] + Weight(plan[i]) IN upTo[Len(plan)]

\* The action a process runs opens a plan that the world it observed allows to the end, that reaches the goal, and
\* that no plan of its admissible actions undercuts (Planner.Plan, reweightPlan): the reference looks at every world
\* the actions reach.
CheapestPlan ==
  pc = "act" /\ Astar =>
    LET at == Along(p.world, p.plan) IN
    /\ \A i \in 1..Len(p.plan) : p.plan[i] \in Admissible /\ Satisfies(at[i - 1], p.plan[i].pre)
    /\ Satisfies(at[Len(p.plan)], Goal)
    /\ Spent(p.plan) = LeastCost(Weighted(Admissible), Goal, p.world)

\* The search never expands a world twice: its estimate is consistent, so the bound on expansions is one on worlds.
ExpandedOnce == search.expansions <= Cardinality({w \in DOMAIN search.best : ~Satisfies(w, Goal)})

\* A process stops for want of a plan only when its admissible actions reach the goal from no world it observed; and
\* one that waits has a plan once the conditions it names are established, and those alone.
BlockedForGood ==
  pc = "save" /\ Blocked(p.status) =>
    /\ Astar => LeastCost(Weighted(Admissible), Goal, p.world) = -1
    /\ p.status = "waiting" => LeastCost(Admissible, Goal, Assume(p.world, p.waits)) >= 0

\* A run that nobody disturbs ends or stops before its step limit, however its own items have it retried: each of its
\* steps brings the goal nearer, counts towards giving up on an action (finishStep, recordFailure), or is one of the
\* MaxItems writes that reach no effects.  It takes that bound (an incremental action that keeps writing goes on to the
\* limit) and actions that do not undo one another in a circle.
LimitNotReached ==
  Astar /\ used.moves = 0 /\ used.unblocks = 0 => p.steps < MaxSteps

\* A blocked process that saw another world than the change's has an event on its way or a rerun coming, unless the
\* event found it still at work (retryBlocked lists the processes without their lock), or an error of the store, in the
\* list or in the rerun, dropped it with a log at most.
NotForgotten ==
  Blocked(row.status) /\ pc = "idle" /\ row.world # change => events > 0 \/ listed \/ missed
=============================================================================
