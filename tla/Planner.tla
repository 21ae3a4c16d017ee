------------------------------- MODULE Planner -------------------------------
(***************************************************************************)
(* What the planners of the engine compute from a world, the actions and a *)
(* goal: engine/goap/planner.go, engine/engine/planners.go and             *)
(* awaiting.go.  The search itself is the A* of GoalLoop; this module has  *)
(* its operators and the reference it is checked against.                  *)
(*                                                                         *)
(* A requirement and the effects of an action are functions from some of   *)
(* the conditions to TRUE or FALSE; a world maps the conditions known in   *)
(* it, so a condition out of its domain is unknown and satisfies nothing.  *)
(***************************************************************************)
EXTENDS Integers, FiniteSets, Functions, FiniteSetsExt

CONSTANT Conditions

Worlds == UNION {[known -> BOOLEAN] : known \in SUBSET Conditions}

IsWorld(w) == DOMAIN w \subseteq Conditions /\ \A k \in DOMAIN w : w[k] \in BOOLEAN

\* Names are told apart and ordered, no more; the cost and the utility are those of reweightPlan.
Actions == [name : Nat, pre : Worlds, effects : Worlds, cost : Int, utility : Int]

Holds(w, k, v) == k \in DOMAIN w /\ w[k] = v
Satisfies(w, req) == \A k \in DOMAIN req : Holds(w, k, req[k])
Apply(w, effects) == [k \in DOMAIN w \union DOMAIN effects |-> IF k \in DOMAIN effects THEN effects[k] ELSE w[k]]

Cost(a) == IF a.cost <= 0 THEN 1 ELSE a.cost

\* The least cost of an action: what one more action costs at least (0 without actions).
MinCost(as) == IF as = {} THEN 0 ELSE Min({Cost(a) : a \in as})

\* The estimate h of A*.
Estimate(as, goal, w) == IF Satisfies(w, goal) THEN 0 ELSE MinCost(as)

-----------------------------------------------------------------------------
(* The other planners.                                                      *)

\* utilityPlan: the applicable action of highest utility that changes something, then the cheapest (the name last).
Useful(as, w) == {a \in as : Satisfies(w, a.pre) /\ a.utility > 0 /\ ~Satisfies(w, a.effects)}
Preferred(as) == {a \in as : \A b \in as : a.utility > b.utility \/ (a.utility = b.utility /\ a.cost <= b.cost)}

\* reweightPlan: the costs divided by the utility (in halves: utilities are 1 or 2), useless actions left out.
Reweighted(as) == {[a EXCEPT !.cost = (2 * Cost(a)) \div a.utility] : a \in {b \in as : b.utility > 0}}

\* llmPlan: any action whose preconditions hold.
Applicable(as, w) == {a \in as : Satisfies(w, a.pre)}

-----------------------------------------------------------------------------
(* awaited: the conditions no action of the agent establishes.              *)

Establishes(as, k, v) == \E a \in as : Holds(a.effects, k, v)

\* Required by req, neither holding nor established by an action.
Wanted(all, w, req) == {<<k, req[k]>> : k \in {c \in DOMAIN req : ~Holds(w, c, req[c]) /\ ~Establishes(all, c, req[c])}}

External(all, admissible, w, goal) ==
  LET wanted == Wanted(all, w, goal) \union UNION {Wanted(all, w, a.pre) : a \in admissible}
  IN  {x \in wanted : <<x[1], ~x[2]>> \notin wanted}         \* required both ways: nothing to assume

Assume(w, lits) == Apply(w, [k \in {x[1] : x \in lits} |-> <<k, TRUE>> \in lits])

OfTheGoal(external, goal, plan) == {x \in external : Holds(goal, x[1], x[2])}

\* Those of the assumed conditions that the goal or an action of the plan requires.
ReliedOn(external, goal, plan) ==
  {x \in external : Holds(goal, x[1], x[2]) \/ \E a \in plan : Holds(a.pre, x[1], x[2])}

-----------------------------------------------------------------------------
(* The reference: every world the actions reach, each at its least cost,    *)
(* and from them the least cost of the goal (-1: out of reach).             *)

Cheapest(reached) == {x \in reached : \A y \in reached : y[1] = x[1] => x[2] <= y[2]}

\* One action further from the worlds reached, each at its least cost.
Further(as, S) ==
  Cheapest(S \union UNION {{<<Apply(x[1], a.effects), x[2] + Cost(a)>> : a \in Applicable(as, x[1])} : x \in S})

Reached(as, start) ==
  LET closure[S \in SUBSET (Worlds \X Nat)] ==
        LET next == Further(as, S) IN IF next = S THEN S ELSE closure[next]
  IN  closure[{<<start, 0>>}]

LeastCost(as, goal, start) ==
  LET reached == {x \in Reached(as, start) : Satisfies(x[1], goal)}
  IN  IF reached = {} THEN -1 ELSE Min({x[2] : x \in reached})
=============================================================================
