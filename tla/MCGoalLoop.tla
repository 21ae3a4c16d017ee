----------------------------- MODULE MCGoalLoop -----------------------------
(* Instances of GoalLoop for TLC: agents of up to three actions over two   *)
(* conditions of the goal, x and y, and one others establish, e.           *)
EXTENDS GoalLoop

MCConditions == {"x", "y", "e"}
MCGoal == [k \in {"x", "y"} |-> TRUE]
None == [k \in {} |-> TRUE]
Is(k, v) == [c \in {k} |-> v]
And(r, k, v) == [c \in DOMAIN r \union {k} |-> IF c = k THEN v ELSE r[c]]

Pres == <<None, Is("x", TRUE), Is("e", TRUE)>>
Effects == <<Is("x", TRUE), Is("y", TRUE), And(Is("y", TRUE), "x", FALSE), And(Is("x", TRUE), "y", TRUE)>>
Costs == <<0, 2, 1, 4>>

\* The cost goes with the effects, the utility is 0, 1 or 2.
Pool == {[name |-> 10 * i + j, pre |-> Pres[i], effects |-> Effects[j], cost |-> Costs[j], utility |-> (i + j) % 3] : i \in 1..3, j \in 1..4}
With(k, ass) == {[actions |-> as, incremental |-> {}, planner |-> k] : as \in ass}
Incremental(agents) == {[g EXCEPT !.incremental = g.actions] : g \in agents}
Of(ass, names) == {as \in ass : {a.name : a \in as} \in names}
Pairs == {{a, b} : a, b \in Pool}
Triples == {{a, b, c} : a, b, c \in Pool}

\* Every pair of actions, one of which establishes x, and some threes, incremental or not; the planners that do
\* not look ahead have one each.  No action undoes y, so none are undone in a circle.
Able(as) == \E a \in as : Holds(a.effects, "x", TRUE)
MCAgents ==
  UNION {With(k, {as \in Pairs : Able(as)}) : k \in {"goap", "hybrid"}}
  \union With("goap", Of(Triples, {{11, 12, 14}, {11, 12, 23}, {11, 13, 32}, {21, 13, 32}}))
  \union With("utility", Of(Pairs, {{11, 12}})) \union With("llm", Of(Pairs, {{12, 34}}))
  \union Incremental(With("goap", Of(Pairs, {{11, 22}, {14, 31}}) \union Of(Triples, {{11, 12, 23}})))
MCStarts == {[k \in {"x", "e"} |-> FALSE]}
=============================================================================
