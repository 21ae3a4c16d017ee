-------------------------- MODULE GoalPlans_proofs --------------------------
(***************************************************************************)
(* Proofs about the plans of the cycle of a process: the A* of the planner *)
(* finds a cheapest one, it finds one wherever there is one, and what a    *)
(* process waits for is enough.  They hold for every set of conditions,    *)
(* every goal and every actions, of any costs.                             *)
(*                                                                         *)
(* The routes come first: what the actions reach from a world, in how many *)
(* steps and at what cost.  Both the search and the reference of Planner   *)
(* are compared with them.                                                 *)
(***************************************************************************)
EXTENDS GoalLoop_proofs

-----------------------------------------------------------------------------
(* Induction, on sets of numbers.                                           *)

LEMMA InductionOnNumbers ==
  ASSUME NEW S, 0 \in S, \A n \in Nat : n \in S => n + 1 \in S
  PROVE  \A n \in Nat : n \in S
<1>. SUFFICES ASSUME Nat \ S # {} PROVE FALSE
  OBVIOUS
<1>. DEFINE m == Min(Nat \ S)
<1>1. m \in Nat \ S /\ \A y \in Nat \ S : m <= y
  BY LeastOf
<1>. HIDE DEF m
<1>2. m \in Nat /\ m \notin S /\ m # 0
  BY <1>1
<1>3. m - 1 \in Nat
  BY <1>2
<1>4. m - 1 \in S
  BY <1>1, <1>2, <1>3
<1>5. (m - 1) + 1 = m
  BY <1>2
<1>. QED BY <1>2, <1>3, <1>4, <1>5

\* A finite set of numbers has a bound.
LEMMA BoundOf ==
  ASSUME NEW S \in SUBSET Nat, IsFiniteSet(S)
  PROVE  \E b \in Nat : \A x \in S : x <= b
<1>. DEFINE Bounded(T) == \E b \in Nat : \A x \in T : x <= b
            N == {n \in Nat : \A T \in SUBSET Nat : IsFiniteSet(T) /\ Cardinality(T) = n => Bounded(T)}
<1>1. 0 \in N
  BY FS_EmptySet
<1>2. ASSUME NEW n \in Nat, n \in N PROVE n + 1 \in N
  <2>0. n + 1 \in Nat
    OBVIOUS
  <2>. SUFFICES ASSUME NEW T \in SUBSET Nat, IsFiniteSet(T), Cardinality(T) = n + 1 PROVE Bounded(T)
    BY <2>0
  <2>1. PICK x \in T : TRUE
    <3>1. T # {}
      BY FS_EmptySet
    <3>. QED BY <3>1
  <2>2. IsFiniteSet(T \ {x}) /\ Cardinality(T \ {x}) = n
    <3>1. IsFiniteSet(T \ {x}) /\ Cardinality(T \ {x}) = Cardinality(T) - 1
      BY FS_RemoveElement
    <3>2. Cardinality(T) - 1 = n
      OBVIOUS
    <3>. QED BY <3>1, <3>2
  <2>3. PICK b \in Nat : \A y \in T \ {x} : y <= b
    BY <1>2, <2>2
  <2>4. x \in Nat
    OBVIOUS
  <2>5. CASE x <= b
    BY <2>3, <2>5
  <2>6. CASE b <= x
    <3>1. \A y \in T : y <= x
      BY <2>3, <2>6
    <3>. QED BY <2>4, <3>1
  <2>. QED BY <2>4, <2>5, <2>6
<1>. HIDE DEF N
<1>3. \A n \in Nat : n \in N
  BY <1>1, <1>2, InductionOnNumbers
<1>4. Cardinality(S) \in Nat
  BY FS_CardinalityType
<1>. QED BY <1>3, <1>4 DEF N

-----------------------------------------------------------------------------
(* Routes: worlds one action apart, each at the cost of the actions so far. *)

Route(as, n, ws, cs) ==
  /\ cs[0] = 0
  /\ \A i \in 1..n : \E a \in as : /\ Satisfies(ws[i - 1], a.pre) /\ ws[i] = Apply(ws[i - 1], a.effects)
                                   /\ cs[i] = cs[i - 1] + Cost(a)

\* In n steps from v to w, at cost c.
ReachesIn(as, n, v, w, c) ==
  \E ws \in [0..n -> Worlds], cs \in [0..n -> Nat] : Route(as, n, ws, cs) /\ ws[0] = v /\ ws[n] = w /\ cs[n] = c

Reaches(as, v, w, c) == \E n \in Nat : ReachesIn(as, n, v, w, c)

LEMMA RouteTypes ==
  ASSUME NEW as, NEW n \in Nat, NEW v, NEW w, NEW c, ReachesIn(as, n, v, w, c)
  PROVE  v \in Worlds /\ w \in Worlds /\ c \in Nat
BY DEF ReachesIn

LEMMA RouteStart == ASSUME NEW as, NEW v \in Worlds PROVE ReachesIn(as, 0, v, v, 0)
<1>. DEFINE ws == [i \in 0..0 |-> v]
            cs == [i \in 0..0 |-> 0]
<1>1. ws \in [0..0 -> Worlds] /\ cs \in [0..0 -> Nat] /\ ws[0] = v /\ cs[0] = 0
  OBVIOUS
<1>2. Route(as, 0, ws, cs)
  BY <1>1 DEF Route
<1>. HIDE DEF ws, cs
<1>. QED BY <1>1, <1>2 DEF ReachesIn

\* A route of no step stays.
LEMMA RouteStays ==
  ASSUME NEW as, NEW v \in Worlds, NEW w \in Worlds, NEW c \in Nat, ReachesIn(as, 0, v, w, c)
  PROVE  w = v /\ c = 0
BY DEF ReachesIn, Route

\* One action more.
LEMMA RouteStep ==
  ASSUME NEW as \in SUBSET Actions, NEW n \in Nat, NEW v, NEW w, NEW c, ReachesIn(as, n, v, w, c),
         NEW a \in as, Satisfies(w, a.pre)
  PROVE  ReachesIn(as, n + 1, v, Apply(w, a.effects), c + Cost(a))
<1>1. PICK ws \in [0..n -> Worlds], cs \in [0..n -> Nat] : Route(as, n, ws, cs) /\ ws[0] = v /\ ws[n] = w /\ cs[n] = c
  BY DEF ReachesIn
<1>. DEFINE t == Apply(w, a.effects)
            d == c + Cost(a)
            us == [i \in 0..(n + 1) |-> IF i = n + 1 THEN t ELSE ws[i]]
            ds == [i \in 0..(n + 1) |-> IF i = n + 1 THEN d ELSE cs[i]]
<1>2. t \in Worlds
  <2>1. w \in Worlds /\ a.effects \in Worlds
    BY RouteTypes DEF Actions
  <2>. QED BY <2>1, ApplyWorld
<1>3. d \in Nat
  <2>1. c \in Nat /\ Cost(a) \in Nat
    BY RouteTypes, CostPositive
  <2>. QED BY <2>1
<1>4. /\ us \in [0..(n + 1) -> Worlds] /\ us[n + 1] = t /\ \A i \in 0..n : us[i] = ws[i]
      /\ ds \in [0..(n + 1) -> Nat] /\ ds[n + 1] = d /\ \A i \in 0..n : ds[i] = cs[i]
  <2>. HIDE DEF t, d
  <2>. QED BY <1>1, <1>2, <1>3
<1>5. t = Apply(us[n], a.effects) /\ d = ds[n] + Cost(a) /\ Satisfies(us[n], a.pre)
  <2>1. us[n] = w /\ ds[n] = c
    <3>. HIDE DEF us, ds
    <3>. QED BY <1>1, <1>4
  <2>. HIDE DEF us, ds
  <2>. QED BY <2>1
<1>. HIDE DEF us, ds, t, d
<1>6. Route(as, n + 1, us, ds)
  <2>1. ASSUME NEW i \in 1..(n + 1)
        PROVE  \E b \in as : Satisfies(us[i - 1], b.pre) /\ us[i] = Apply(us[i - 1], b.effects) /\ ds[i] = ds[i - 1] + Cost(b)
    <3>1. CASE i = n + 1
      <4>1. i - 1 = n
        BY <3>1
      <4>. QED BY <1>4, <1>5, <3>1, <4>1
    <3>2. CASE i \in 1..n
      <4>1. i \in 0..n /\ i - 1 \in 0..n
        BY <3>2
      <4>2. us[i] = ws[i] /\ us[i - 1] = ws[i - 1] /\ ds[i] = cs[i] /\ ds[i - 1] = cs[i - 1]
        BY <1>4, <4>1
      <4>. QED BY <1>1, <3>2, <4>2 DEF Route
    <3>3. i = n + 1 \/ i \in 1..n
      OBVIOUS
    <3>. QED BY <3>1, <3>2, <3>3
  <2>2. ds[0] = 0
    BY <1>1, <1>4 DEF Route
  <2>. QED BY <2>1, <2>2 DEF Route
<1>7. us[0] = v
  BY <1>1, <1>4
<1>8. ReachesIn(as, n + 1, v, t, d)
  BY <1>4, <1>6, <1>7 DEF ReachesIn
<1>. QED BY <1>8 DEF t, d

\* The last action of a route.
Continues(as, n, v, w, c) ==
  \E u \in Worlds, d \in Nat, a \in as :
    ReachesIn(as, n, v, u, d) /\ Satisfies(u, a.pre) /\ w = Apply(u, a.effects) /\ c = d + Cost(a)

LEMMA RouteLast ==
  ASSUME NEW as, NEW m \in Nat \ {0}, NEW v \in Worlds, NEW w \in Worlds, NEW c \in Nat, ReachesIn(as, m, v, w, c)
  PROVE  Continues(as, m - 1, v, w, c)
<1>. DEFINE n == m - 1
<1>0. n \in Nat /\ m = n + 1
  OBVIOUS
<1>. HIDE DEF n
<1>1. PICK ws \in [0..(n + 1) -> Worlds], cs \in [0..(n + 1) -> Nat] :
        Route(as, n + 1, ws, cs) /\ ws[0] = v /\ ws[n + 1] = w /\ cs[n + 1] = c
  BY <1>0 DEF ReachesIn
<1>. DEFINE us == [i \in 0..n |-> ws[i]]
            ds == [i \in 0..n |-> cs[i]]
<1>2. us \in [0..n -> Worlds] /\ ds \in [0..n -> Nat] /\ \A i \in 0..n : us[i] = ws[i] /\ ds[i] = cs[i]
  BY <1>0, <1>1
<1>. HIDE DEF us, ds
<1>3. Route(as, n, us, ds)
  <2>1. ASSUME NEW i \in 1..n
        PROVE  \E a \in as : Satisfies(us[i - 1], a.pre) /\ us[i] = Apply(us[i - 1], a.effects) /\ ds[i] = ds[i - 1] + Cost(a)
    <3>1. i \in 1..(n + 1) /\ i \in 0..n /\ i - 1 \in 0..n
      BY <1>0
    <3>2. us[i] = ws[i] /\ us[i - 1] = ws[i - 1] /\ ds[i] = cs[i] /\ ds[i - 1] = cs[i - 1]
      BY <1>2, <3>1
    <3>. QED BY <1>1, <3>1, <3>2 DEF Route
  <2>2. ds[0] = 0
    BY <1>0, <1>1, <1>2 DEF Route
  <2>. QED BY <2>1, <2>2 DEF Route
<1>4. ReachesIn(as, n, v, us[n], ds[n])
  <2>1. us[0] = v
    BY <1>0, <1>1, <1>2
  <2>. QED BY <1>2, <1>3, <2>1 DEF ReachesIn
<1>5. PICK a \in as : Satisfies(ws[n], a.pre) /\ ws[n + 1] = Apply(ws[n], a.effects) /\ cs[n + 1] = cs[n] + Cost(a)
  <2>1. n + 1 \in 1..(n + 1) /\ (n + 1) - 1 = n
    BY <1>0
  <2>. QED BY <1>1, <2>1 DEF Route
<1>6. us[n] = ws[n] /\ ds[n] = cs[n]
  BY <1>0, <1>2
<1>7. ReachesIn(as, n, v, ws[n], cs[n]) /\ w = Apply(ws[n], a.effects) /\ c = cs[n] + Cost(a)
  BY <1>1, <1>4, <1>5, <1>6
<1>8. ws[n] \in Worlds /\ cs[n] \in Nat
  BY <1>0, <1>1
<1>9. Continues(as, n, v, w, c)
  BY <1>5, <1>7, <1>8 DEF Continues
<1>. QED BY <1>9 DEF n

-----------------------------------------------------------------------------
(* The reference of Planner, Reached, has the least cost of each world a    *)
(* route leads to.  It goes on from the set of the start until nothing      *)
(* changes: it does come to an end, because there are finitely many worlds. *)

Costed == Worlds \X Nat

LEMMA CheapestKeeps ==
  ASSUME NEW S \in SUBSET Costed
  PROVE  /\ Cheapest(S) \in SUBSET Costed /\ Cheapest(S) \subseteq S
         /\ \A x \in S : \E y \in Cheapest(S) : y[1] = x[1] /\ y[2] <= x[2]
         /\ \A x, y \in Cheapest(S) : x[1] = y[1] => x = y
<1>1. Cheapest(S) \subseteq S
  BY DEF Cheapest
<1>2. ASSUME NEW x \in S PROVE \E y \in Cheapest(S) : y[1] = x[1] /\ y[2] <= x[2]
  <2>. DEFINE C == {y[2] : y \in {z \in S : z[1] = x[1]}}
  <2>1. C \in SUBSET Nat /\ x[2] \in C
    BY DEF Costed
  <2>2. Min(C) \in C /\ \A c \in C : Min(C) <= c
    <3>. HIDE DEF C
    <3>. QED BY <2>1, LeastOf
  <2>3. PICK y \in S : y[1] = x[1] /\ y[2] = Min(C)
    BY <2>2
  <2>4. \A z \in S : z[1] = y[1] => z[2] \in C
    BY <2>3
  <2>. HIDE DEF C
  <2>5. \A z \in S : z[1] = y[1] => y[2] <= z[2]
    BY <2>2, <2>3, <2>4
  <2>6. y \in Cheapest(S)
    BY <2>5 DEF Cheapest
  <2>. QED BY <2>1, <2>2, <2>3, <2>6
<1>3. ASSUME NEW x \in Cheapest(S), NEW y \in Cheapest(S), x[1] = y[1] PROVE x = y
  <2>1. x[2] <= y[2] /\ y[2] <= x[2] /\ x \in Costed /\ y \in Costed
    BY <1>1, <1>3 DEF Cheapest
  <2>2. x[2] \in Nat /\ y[2] \in Nat
    BY <2>1 DEF Costed
  <2>3. x[2] = y[2]
    BY <2>1, <2>2
  <2>. QED BY <1>3, <2>1, <2>3 DEF Costed
<1>. QED BY <1>1, <1>2, <1>3

LEMMA FurtherIs ==
  ASSUME NEW as \in SUBSET Actions, NEW S \in SUBSET Costed
  PROVE  /\ Further(as, S) \in SUBSET Costed
         /\ \A x \in Further(as, S) :
              \/ x \in S
              \/ \E y \in S : \E a \in as : Satisfies(y[1], a.pre) /\ x = <<Apply(y[1], a.effects), y[2] + Cost(a)>>
         /\ \A y \in S : \E x \in Further(as, S) : x[1] = y[1] /\ x[2] <= y[2]
         /\ \A y \in S : \A a \in as : Satisfies(y[1], a.pre) =>
              \E x \in Further(as, S) : x[1] = Apply(y[1], a.effects) /\ x[2] <= y[2] + Cost(a)
         /\ \A x, y \in Further(as, S) : x[1] = y[1] => x = y
<1>. DEFINE from(x) == {<<Apply(x[1], a.effects), x[2] + Cost(a)>> : a \in Applicable(as, x[1])}
            All == S \union UNION {from(x) : x \in S}
<1>1. \A y \in S : \A a \in as : <<Apply(y[1], a.effects), y[2] + Cost(a)>> \in Costed
  <2>. TAKE y \in S
  <2>. TAKE a \in as
  <2>1. y[1] \in Worlds /\ y[2] \in Nat
    BY DEF Costed
  <2>2. a.effects \in Worlds /\ Cost(a) \in Nat
    BY CostPositive DEF Actions
  <2>3. Apply(y[1], a.effects) \in Worlds /\ y[2] + Cost(a) \in Nat
    BY <2>1, <2>2, ApplyWorld
  <2>. QED BY <2>3 DEF Costed
<1>2. \A x \in All : \/ x \in S
                     \/ \E y \in S : \E a \in as : Satisfies(y[1], a.pre) /\ x = <<Apply(y[1], a.effects), y[2] + Cost(a)>>
  BY DEF Applicable
<1>3. \A y \in S : y \in All
  OBVIOUS
<1>4. \A y \in S : \A a \in as : Satisfies(y[1], a.pre) => <<Apply(y[1], a.effects), y[2] + Cost(a)>> \in All
  <2>1. \A y \in S : \A a \in as : Satisfies(y[1], a.pre) => <<Apply(y[1], a.effects), y[2] + Cost(a)>> \in from(y)
    BY DEF Applicable
  <2>2. \A y \in S : from(y) \subseteq All
    <3>. HIDE DEF from
    <3>. QED OBVIOUS
  <2>. HIDE DEF from, All
  <2>. QED BY <2>1, <2>2
<1>. DEFINE F == Further(as, S)
<1>5. F = Cheapest(All)
  BY DEF Further
<1>. HIDE DEF All, from, F
<1>6. All \in SUBSET Costed
  <2>. SUFFICES ASSUME NEW x \in All PROVE x \in Costed
    OBVIOUS
  <2>1. CASE x \in S
    BY <2>1
  <2>2. ASSUME NEW y \in S, NEW a \in as, x = <<Apply(y[1], a.effects), y[2] + Cost(a)>> PROVE x \in Costed
    BY <1>1, <2>2
  <2>. QED BY <1>2, <2>1, <2>2
<1>7. /\ F \in SUBSET Costed /\ F \subseteq All
      /\ \A x \in All : \E y \in F : y[1] = x[1] /\ y[2] <= x[2]
      /\ \A x, y \in F : x[1] = y[1] => x = y
  BY <1>5, <1>6, CheapestKeeps
<1>8. ASSUME NEW y \in S, NEW a \in as, Satisfies(y[1], a.pre)
      PROVE  \E x \in F : x[1] = Apply(y[1], a.effects) /\ x[2] <= y[2] + Cost(a)
  <2>1. <<Apply(y[1], a.effects), y[2] + Cost(a)>> \in All
    BY <1>4, <1>8
  <2>. DEFINE z == <<Apply(y[1], a.effects), y[2] + Cost(a)>>
  <2>2. z[1] = Apply(y[1], a.effects) /\ z[2] = y[2] + Cost(a)
    OBVIOUS
  <2>. HIDE DEF z
  <2>3. z \in All
    BY <2>1 DEF z
  <2>. QED BY <1>7, <2>2, <2>3
<1>9. \A y \in S : \E x \in F : x[1] = y[1] /\ x[2] <= y[2]
  BY <1>3, <1>7
<1>10. \A x \in F :
         \/ x \in S
         \/ \E y \in S : \E a \in as : Satisfies(y[1], a.pre) /\ x = <<Apply(y[1], a.effects), y[2] + Cost(a)>>
  <2>. TAKE x \in F
  <2>1. x \in All
    BY <1>7
  <2>. QED BY <1>2, <2>1
<1>. QED BY <1>7, <1>8, <1>9, <1>10 DEF F

\* What the reference has after n rounds: for each world its least cost in n steps at most, and no cost of no route.
Rounds(as, v, n, S) ==
  /\ S \in SUBSET Costed
  /\ \A x, y \in S : x[1] = y[1] => x = y
  /\ \A x \in S : Reaches(as, v, x[1], x[2])
  /\ \A k \in 0..n, w \in Worlds, c \in Nat : ReachesIn(as, k, v, w, c) => \E x \in S : x[1] = w /\ x[2] <= c

LEMMA NoRound ==
  ASSUME NEW as, NEW v \in Worlds
  PROVE  Rounds(as, v, 0, {<<v, 0>>})
<1>1. ReachesIn(as, 0, v, v, 0)
  BY RouteStart
<1>2. Reaches(as, v, v, 0)
  BY <1>1 DEF Reaches
<1>3. {<<v, 0>>} \in SUBSET Costed
  BY DEF Costed
<1>4. \A k \in 0..0, w \in Worlds, c \in Nat : ReachesIn(as, k, v, w, c) => w = v /\ c = 0
  <2>. SUFFICES ASSUME NEW k \in 0..0, NEW w \in Worlds, NEW c \in Nat, ReachesIn(as, k, v, w, c) PROVE w = v /\ c = 0
    OBVIOUS
  <2>1. k = 0
    OBVIOUS
  <2>2. ReachesIn(as, 0, v, w, c)
    BY <2>1
  <2>. QED BY <2>2, RouteStays, Zenon
<1>. DEFINE x == <<v, 0>>
            S == {x}
<1>5. x[1] = v /\ x[2] = 0 /\ S = {x}
  OBVIOUS
<1>6. S \in SUBSET Costed
  BY <1>3
<1>. HIDE DEF x, S
<1>7. \A y, z \in S : y[1] = z[1] => y = z
  BY <1>5
<1>8. \A y \in S : Reaches(as, v, y[1], y[2])
  BY <1>2, <1>5
<1>9. \A k \in 0..0, w \in Worlds, c \in Nat : ReachesIn(as, k, v, w, c) => \E y \in S : y[1] = w /\ y[2] <= c
  <2>1. x \in S /\ x[2] <= 0
    BY <1>5
  <2>. QED BY <1>4, <1>5, <2>1
<1>10. Rounds(as, v, 0, S)
  BY <1>6, <1>7, <1>8, <1>9 DEF Rounds
<1>. QED BY <1>10 DEF S, x

LEMMA OneRound ==
  ASSUME NEW as \in SUBSET Actions, NEW v \in Worlds, NEW n \in Nat, NEW S, Rounds(as, v, n, S)
  PROVE  Rounds(as, v, n + 1, Further(as, S))
<1>. DEFINE T == Further(as, S)
<1>0. S \in SUBSET Costed
  BY DEF Rounds
<1>1. /\ T \in SUBSET Costed
      /\ \A x \in T : \/ x \in S
                      \/ \E y \in S : \E a \in as : Satisfies(y[1], a.pre) /\ x = <<Apply(y[1], a.effects), y[2] + Cost(a)>>
      /\ \A y \in S : \E x \in T : x[1] = y[1] /\ x[2] <= y[2]
      /\ \A y \in S : \A a \in as : Satisfies(y[1], a.pre) =>
           \E x \in T : x[1] = Apply(y[1], a.effects) /\ x[2] <= y[2] + Cost(a)
      /\ \A x, y \in T : x[1] = y[1] => x = y
  BY <1>0, FurtherIs
<1>. HIDE DEF T
<1>2. ASSUME NEW x \in T PROVE Reaches(as, v, x[1], x[2])
  <2>1. CASE x \in S
    BY <2>1 DEF Rounds
  <2>2. ASSUME NEW y \in S, NEW a \in as, Satisfies(y[1], a.pre), x = <<Apply(y[1], a.effects), y[2] + Cost(a)>>
        PROVE  Reaches(as, v, x[1], x[2])
    <3>1. PICK k \in Nat : ReachesIn(as, k, v, y[1], y[2])
      BY DEF Rounds, Reaches
    <3>2. ReachesIn(as, k + 1, v, Apply(y[1], a.effects), y[2] + Cost(a))
      BY <2>2, <3>1, RouteStep
    <3>3. x[1] = Apply(y[1], a.effects) /\ x[2] = y[2] + Cost(a) /\ k + 1 \in Nat
      BY <2>2
    <3>. QED BY <3>2, <3>3 DEF Reaches
  <2>. QED BY <1>1, <2>1, <2>2
<1>3. ASSUME NEW k \in 0..(n + 1), NEW w \in Worlds, NEW c \in Nat, ReachesIn(as, k, v, w, c)
      PROVE  \E x \in T : x[1] = w /\ x[2] <= c
  <2>1. CASE k \in 0..n
    <3>1. PICK y \in S : y[1] = w /\ y[2] <= c
      BY <1>3, <2>1 DEF Rounds
    <3>2. PICK x \in T : x[1] = y[1] /\ x[2] <= y[2]
      BY <1>1
    <3>3. x[2] \in Nat /\ y[2] \in Nat
      BY <1>0, <1>1 DEF Costed
    <3>4. x[2] <= c
      BY <3>1, <3>2, <3>3
    <3>. QED BY <3>1, <3>2, <3>4
  <2>2. CASE k = n + 1
    <3>1. k \in Nat \ {0} /\ k - 1 = n
      BY <2>2
    <3>2. Continues(as, n, v, w, c)
      BY <1>3, <3>1, RouteLast
    <3>3. PICK u \in Worlds, d \in Nat, a \in as :
            ReachesIn(as, n, v, u, d) /\ Satisfies(u, a.pre) /\ w = Apply(u, a.effects) /\ c = d + Cost(a)
      BY <3>2 DEF Continues
    <3>4. u \in Worlds /\ d \in Nat
      OBVIOUS
    <3>5. n \in 0..n
      OBVIOUS
    <3>6. PICK y \in S : y[1] = u /\ y[2] <= d
      BY <3>3, <3>4, <3>5 DEF Rounds
    <3>7. PICK x \in T : x[1] = w /\ x[2] <= y[2] + Cost(a)
      BY <1>1, <3>3, <3>6
    <3>8. x[2] \in Nat /\ y[2] \in Nat /\ Cost(a) \in Nat
      BY <1>0, <1>1, CostPositive DEF Costed
    <3>9. x[2] <= c
      BY <3>3, <3>4, <3>6, <3>7, <3>8
    <3>. QED BY <3>7, <3>9
  <2>3. k \in 0..n \/ k = n + 1
    OBVIOUS
  <2>. QED BY <2>1, <2>2, <2>3
<1>4. Rounds(as, v, n + 1, T)
  BY <1>1, <1>2, <1>3 DEF Rounds
<1>. QED BY <1>4 DEF T

\* In n rounds from S to T.
Chain(as, n, S, T) ==
  \E f \in [0..n -> SUBSET Costed] : f[0] = S /\ f[n] = T /\ \A i \in 1..n : f[i] = Further(as, f[i - 1])

LEMMA ChainStart == ASSUME NEW as, NEW S \in SUBSET Costed PROVE Chain(as, 0, S, S)
<1>. DEFINE f == [i \in 0..0 |-> S]
<1>1. f \in [0..0 -> SUBSET Costed] /\ f[0] = S /\ \A i \in 1..0 : f[i] = Further(as, f[i - 1])
  OBVIOUS
<1>. HIDE DEF f
<1>. QED BY <1>1 DEF Chain

LEMMA ChainEnds ==
  ASSUME NEW as, NEW n \in Nat, NEW S, NEW T, Chain(as, n, S, T)
  PROVE  S \in SUBSET Costed /\ T \in SUBSET Costed /\ (n = 0 => S = T)
BY DEF Chain

LEMMA ChainOn ==
  ASSUME NEW as \in SUBSET Actions, NEW n \in Nat, NEW S \in SUBSET Costed, NEW T \in SUBSET Costed, Chain(as, n, S, T)
  PROVE  Chain(as, n + 1, S, Further(as, T))
<1>1. PICK f \in [0..n -> SUBSET Costed] : f[0] = S /\ f[n] = T /\ \A i \in 1..n : f[i] = Further(as, f[i - 1])
  BY DEF Chain
<1>. DEFINE U == Further(as, T)
            g == [i \in 0..(n + 1) |-> IF i = n + 1 THEN U ELSE f[i]]
<1>2. U \in SUBSET Costed
  BY FurtherIs
<1>3. g \in [0..(n + 1) -> SUBSET Costed] /\ g[n + 1] = U /\ \A i \in 0..n : g[i] = f[i]
  <2>. HIDE DEF U
  <2>. QED BY <1>2
<1>4. U = Further(as, f[n])
  BY <1>1
<1>. HIDE DEF U, g
<1>5. ASSUME NEW i \in 1..(n + 1) PROVE g[i] = Further(as, g[i - 1])
  <2>1. CASE i = n + 1
    <3>1. i - 1 = n /\ n \in 0..n
      BY <2>1
    <3>. QED BY <1>3, <1>4, <2>1, <3>1
  <2>2. CASE i \in 1..n
    <3>1. i \in 0..n /\ i - 1 \in 0..n
      BY <2>2
    <3>. QED BY <1>1, <1>3, <2>2, <3>1
  <2>3. i = n + 1 \/ i \in 1..n
    OBVIOUS
  <2>. QED BY <2>1, <2>2, <2>3
<1>6. g[0] = S
  BY <1>1, <1>3
<1>7. Chain(as, n + 1, S, U)
  BY <1>3, <1>5, <1>6 DEF Chain
<1>. QED BY <1>7 DEF U

\* The first round of a chain, taken off or put before.
LEMMA ChainFirst ==
  ASSUME NEW as \in SUBSET Actions, NEW n \in Nat, NEW S \in SUBSET Costed, NEW T \in SUBSET Costed
  PROVE  /\ Chain(as, n + 1, S, T) => Chain(as, n, Further(as, S), T)
         /\ Chain(as, n, Further(as, S), T) => Chain(as, n + 1, S, T)
<1>. DEFINE U == Further(as, S)
<1>0. U \in SUBSET Costed
  BY FurtherIs
<1>1. ASSUME Chain(as, n + 1, S, T) PROVE Chain(as, n, U, T)
  <2>1. PICK f \in [0..(n + 1) -> SUBSET Costed] :
          f[0] = S /\ f[n + 1] = T /\ \A i \in 1..(n + 1) : f[i] = Further(as, f[i - 1])
    BY <1>1 DEF Chain
  <2>. DEFINE g == [i \in 0..n |-> f[i + 1]]
  <2>2. g \in [0..n -> SUBSET Costed] /\ \A i \in 0..n : g[i] = f[i + 1]
    BY <2>1
  <2>3. f[1] = U
    <3>1. 1 \in 1..(n + 1) /\ 1 - 1 = 0
      OBVIOUS
    <3>. QED BY <2>1, <3>1
  <2>. HIDE DEF g, U
  <2>4. g[0] = U /\ g[n] = T
    <3>1. 0 \in 0..n /\ n \in 0..n /\ 0 + 1 = 1
      OBVIOUS
    <3>. QED BY <2>1, <2>2, <2>3, <3>1
  <2>5. ASSUME NEW i \in 1..n PROVE g[i] = Further(as, g[i - 1])
    <3>1. i + 1 \in 1..(n + 1) /\ (i + 1) - 1 = i /\ i \in 0..n /\ i - 1 \in 0..n /\ (i - 1) + 1 = i
      OBVIOUS
    <3>. QED BY <2>1, <2>2, <3>1
  <2>. QED BY <2>2, <2>4, <2>5 DEF Chain
<1>2. ASSUME Chain(as, n, U, T) PROVE Chain(as, n + 1, S, T)
  <2>1. PICK f \in [0..n -> SUBSET Costed] : f[0] = U /\ f[n] = T /\ \A i \in 1..n : f[i] = Further(as, f[i - 1])
    BY <1>2 DEF Chain
  <2>. DEFINE g == [i \in 0..(n + 1) |-> IF i = 0 THEN S ELSE f[i - 1]]
  <2>2. g \in [0..(n + 1) -> SUBSET Costed] /\ g[0] = S /\ \A i \in 1..(n + 1) : g[i] = f[i - 1]
    <3>1. \A i \in 1..(n + 1) : i - 1 \in 0..n
      OBVIOUS
    <3>2. \A i \in 0..(n + 1) : i # 0 => i \in 1..(n + 1)
      OBVIOUS
    <3>. QED BY <2>1, <3>1, <3>2
  <2>. HIDE DEF g
  <2>3. g[n + 1] = T
    <3>1. n + 1 \in 1..(n + 1) /\ (n + 1) - 1 = n
      OBVIOUS
    <3>. QED BY <2>1, <2>2, <3>1
  <2>4. ASSUME NEW i \in 1..(n + 1) PROVE g[i] = Further(as, g[i - 1])
    <3>1. CASE i = 1
      <4>1. g[i] = f[0] /\ g[i - 1] = S
        BY <2>2, <3>1
      <4>. QED BY <2>1, <4>1
    <3>2. CASE i - 1 \in 1..n
      <4>1. g[i] = f[i - 1] /\ g[i - 1] = f[(i - 1) - 1]
        <5>1. i - 1 \in 1..(n + 1)
          BY <3>2
        <5>. QED BY <2>2, <5>1
      <4>. QED BY <2>1, <3>2, <4>1
    <3>3. i = 1 \/ i - 1 \in 1..n
      OBVIOUS
    <3>. QED BY <3>1, <3>2, <3>3
  <2>. QED BY <2>2, <2>3, <2>4 DEF Chain
<1>. QED BY <1>1, <1>2

\* What does not change any more stays.
LEMMA ChainSettled ==
  ASSUME NEW as \in SUBSET Actions, NEW n \in Nat, NEW S \in SUBSET Costed, Further(as, S) = S,
         NEW T \in SUBSET Costed, Chain(as, n, S, T)
  PROVE  T = S
<1>. DEFINE N == {i \in Nat : \A R \in SUBSET Costed : Chain(as, i, S, R) => R = S}
<1>1. 0 \in N
  <2>1. \A R \in SUBSET Costed : Chain(as, 0, S, R) => R = S
    BY DEF Chain
  <2>. QED BY <2>1
<1>2. ASSUME NEW i \in Nat, i \in N PROVE i + 1 \in N
  <2>0. i + 1 \in Nat
    OBVIOUS
  <2>. SUFFICES ASSUME NEW R \in SUBSET Costed, Chain(as, i + 1, S, R) PROVE R = S
    BY <2>0
  <2>1. Chain(as, i, Further(as, S), R)
    BY ChainFirst
  <2>2. Chain(as, i, S, R)
    BY <2>1
  <2>. QED BY <1>2, <2>2
<1>. HIDE DEF N
<1>3. n \in N
  BY <1>1, <1>2, InductionOnNumbers
<1>. QED BY <1>3 DEF N

\* What the chains from S come to.
Ends(as, S) == {T \in SUBSET Costed : Further(as, T) = T /\ \E n \in Nat : Chain(as, n, S, T)}

LEMMA EndsAre ==
  ASSUME NEW as \in SUBSET Actions, NEW S \in SUBSET Costed
  PROVE  /\ Further(as, S) = S => Ends(as, S) = {S}
         /\ Further(as, S) # S => Ends(as, S) = Ends(as, Further(as, S))
<1>0. Further(as, S) \in SUBSET Costed
  BY FurtherIs
<1>1. ASSUME Further(as, S) = S PROVE Ends(as, S) = {S}
  <2>1. S \in Ends(as, S)
    <3>1. Chain(as, 0, S, S)
      BY ChainStart
    <3>. QED BY <1>1, <3>1 DEF Ends
  <2>2. \A T \in Ends(as, S) : T = S
    BY <1>1, ChainSettled DEF Ends
  <2>. QED BY <2>1, <2>2
<1>2. ASSUME Further(as, S) # S PROVE Ends(as, S) = Ends(as, Further(as, S))
  <2>1. ASSUME NEW T \in Ends(as, S) PROVE T \in Ends(as, Further(as, S))
    <3>1. PICK n \in Nat : Chain(as, n, S, T)
      BY DEF Ends
    <3>2. T \in SUBSET Costed /\ Further(as, T) = T
      BY DEF Ends
    <3>3. n # 0
      BY <1>2, <3>1, <3>2, ChainEnds
    <3>. DEFINE m == n - 1
    <3>4. m \in Nat /\ n = m + 1
      BY <3>3
    <3>. HIDE DEF m
    <3>5. Chain(as, m + 1, S, T)
      BY <3>1, <3>4
    <3>6. Chain(as, m, Further(as, S), T)
      BY <3>2, <3>4, <3>5, ChainFirst
    <3>. QED BY <3>2, <3>4, <3>6 DEF Ends
  <2>2. ASSUME NEW T \in Ends(as, Further(as, S)) PROVE T \in Ends(as, S)
    <3>1. PICK n \in Nat : Chain(as, n, Further(as, S), T)
      BY DEF Ends
    <3>2. T \in SUBSET Costed /\ Further(as, T) = T
      BY DEF Ends
    <3>3. Chain(as, n + 1, S, T)
      BY <3>1, <3>2, ChainFirst
    <3>4. n + 1 \in Nat
      OBVIOUS
    <3>. QED BY <3>2, <3>3, <3>4 DEF Ends
  <2>. QED BY <2>1, <2>2
<1>. QED BY <1>1, <1>2

\* The chain from the start of a route settles: beyond the lengths of the cheapest routes, one to each world, no
\* round changes anything.
LEMMA Settles ==
  ASSUME NEW as \in SUBSET Actions, NEW v \in Worlds
  PROVE  \E T \in Ends(as, {<<v, 0>>}) : \A n \in Nat : Rounds(as, v, n, T)
<1>. DEFINE start == {<<v, 0>>}
            known == {w \in Worlds : \E c \in Nat : Reaches(as, v, w, c)}
            least == [w \in known |-> Min({c \in Nat : Reaches(as, v, w, c)})]
            length == [w \in known |-> Min({k \in Nat : ReachesIn(as, k, v, w, least[w])})]
<1>0. start \in SUBSET Costed
  BY DEF Costed
<1>. HIDE DEF start
<1>1. ASSUME NEW w \in known
      PROVE  least[w] \in Nat /\ Reaches(as, v, w, least[w]) /\ \A c \in Nat : Reaches(as, v, w, c) => least[w] <= c
  <2>. DEFINE C == {c \in Nat : Reaches(as, v, w, c)}
  <2>1. C \in SUBSET Nat /\ C # {}
    OBVIOUS
  <2>2. Min(C) \in C /\ \A c \in C : Min(C) <= c
    <3>. HIDE DEF C
    <3>. QED BY <2>1, LeastOf
  <2>3. least[w] = Min(C)
    OBVIOUS
  <2>. HIDE DEF least
  <2>. QED BY <2>2, <2>3
<1>. HIDE DEF least
<1>2. ASSUME NEW w \in known PROVE length[w] \in Nat /\ ReachesIn(as, length[w], v, w, least[w])
  <2>. DEFINE K == {k \in Nat : ReachesIn(as, k, v, w, least[w])}
  <2>1. K \in SUBSET Nat /\ K # {}
    BY <1>1 DEF Reaches
  <2>2. Min(K) \in K
    <3>. HIDE DEF K
    <3>. QED BY <2>1, LeastOf
  <2>3. length[w] = Min(K)
    OBVIOUS
  <2>. HIDE DEF length
  <2>. QED BY <2>2, <2>3
<1>3. PICK b \in Nat : \A w \in known : length[w] <= b
  <2>. DEFINE lengths == {length[w] : w \in known}
  <2>1. IsFiniteSet(known)
    BY WorldsFinite, FS_Subset
  <2>2. length \in Surjection(known, lengths)
    BY DEF Surjection
  <2>. HIDE DEF known
  <2>3. lengths \in SUBSET Nat
    BY <1>2
  <2>4. \A w \in known : length[w] \in lengths
    OBVIOUS
  <2>. HIDE DEF lengths
  <2>5. IsFiniteSet(lengths)
    BY <2>1, <2>2, FS_Surjection
  <2>. QED BY <2>3, <2>4, <2>5, BoundOf
<1>. HIDE DEF length
<1>4. ASSUME NEW n \in Nat, n >= b, NEW S, Rounds(as, v, n, S)
      PROVE  \A x \in Costed : x \in S <=> x[1] \in known /\ x[2] = least[x[1]]
  <2>0. S \in SUBSET Costed
    BY <1>4 DEF Rounds
  <2>1. ASSUME NEW w \in known PROVE \E y \in S : y[1] = w /\ y[2] = least[w]
    <3>1. length[w] \in 0..n
      <4>1. length[w] \in Nat /\ length[w] <= b
        BY <1>2, <1>3
      <4>. QED BY <1>4, <4>1
    <3>2. ReachesIn(as, length[w], v, w, least[w]) /\ w \in Worlds /\ least[w] \in Nat
      BY <1>1, <1>2
    <3>3. PICK y \in S : y[1] = w /\ y[2] <= least[w]
      BY <1>4, <3>1, <3>2 DEF Rounds
    <3>4. Reaches(as, v, w, y[2]) /\ y[2] \in Nat
      BY <1>4, <2>0, <3>3 DEF Rounds, Costed
    <3>5. least[w] <= y[2]
      BY <1>1, <3>4
    <3>6. y[2] = least[w]
      BY <3>2, <3>3, <3>4, <3>5
    <3>. QED BY <3>3, <3>6
  <2>2. ASSUME NEW x \in S PROVE x[1] \in known /\ x[2] = least[x[1]]
    <3>1. Reaches(as, v, x[1], x[2]) /\ x[1] \in Worlds /\ x[2] \in Nat
      BY <1>4, <2>0 DEF Rounds, Costed
    <3>2. x[1] \in known
      BY <3>1
    <3>3. PICK y \in S : y[1] = x[1] /\ y[2] = least[x[1]]
      BY <2>1, <3>2
    <3>4. x = y
      BY <1>4, <3>3 DEF Rounds
    <3>. QED BY <3>2, <3>3, <3>4
  <2>3. ASSUME NEW x \in Costed, x[1] \in known, x[2] = least[x[1]] PROVE x \in S
    <3>1. PICK y \in S : y[1] = x[1] /\ y[2] = x[2]
      BY <2>1, <2>3
    <3>2. x = <<x[1], x[2]>> /\ y = <<y[1], y[2]>>
      BY <2>0 DEF Costed
    <3>3. x = y
      BY <3>1, <3>2
    <3>. QED BY <3>3
  <2>. QED BY <2>2, <2>3
<1>. HIDE DEF known
<1>5. ASSUME NEW n \in Nat PROVE \E T \in SUBSET Costed : Chain(as, n, start, T) /\ Rounds(as, v, n, T)
  <2>. DEFINE N == {k \in Nat : \E T \in SUBSET Costed : Chain(as, k, start, T) /\ Rounds(as, v, k, T)}
  <2>1. 0 \in N
    <3>1. Chain(as, 0, start, start)
      BY <1>0, ChainStart
    <3>2. Rounds(as, v, 0, start)
      BY NoRound DEF start
    <3>. QED BY <1>0, <3>1, <3>2
  <2>2. ASSUME NEW k \in Nat, k \in N PROVE k + 1 \in N
    <3>1. PICK T \in SUBSET Costed : Chain(as, k, start, T) /\ Rounds(as, v, k, T)
      BY <2>2
    <3>2. Chain(as, k + 1, start, Further(as, T))
      BY <1>0, <3>1, ChainOn
    <3>3. Rounds(as, v, k + 1, Further(as, T)) /\ Further(as, T) \in SUBSET Costed
      BY <3>1, OneRound, FurtherIs
    <3>4. k + 1 \in Nat
      OBVIOUS
    <3>. QED BY <3>2, <3>3, <3>4
  <2>. HIDE DEF N
  <2>3. n \in N
    BY <2>1, <2>2, InductionOnNumbers
  <2>. QED BY <2>3 DEF N
<1>6. PICK T \in SUBSET Costed : Chain(as, b, start, T) /\ Rounds(as, v, b, T)
  BY <1>5
<1>7. Further(as, T) = T
  <2>. DEFINE U == Further(as, T)
  <2>1. Rounds(as, v, b + 1, U) /\ U \in SUBSET Costed
    BY <1>6, OneRound, FurtherIs
  <2>. HIDE DEF U
  <2>2. b + 1 \in Nat /\ b + 1 >= b /\ b >= b
    OBVIOUS
  <2>3. \A x \in Costed : x \in U <=> x[1] \in known /\ x[2] = least[x[1]]
    BY <1>4, <2>1, <2>2
  <2>4. \A x \in Costed : x \in T <=> x[1] \in known /\ x[2] = least[x[1]]
    BY <1>4, <1>6, <2>2
  <2>5. U = T
    BY <2>1, <2>3, <2>4
  <2>. QED BY <2>5 DEF U
<1>8. ASSUME NEW n \in Nat PROVE Rounds(as, v, n, T)
  <2>. DEFINE N == {k \in Nat : Rounds(as, v, b + k, T)}
  <2>1. 0 \in N
    <3>1. b + 0 = b
      OBVIOUS
    <3>. QED BY <1>6, <3>1
  <2>2. ASSUME NEW k \in Nat, k \in N PROVE k + 1 \in N
    <3>. DEFINE m == b + k
    <3>1. m \in Nat /\ m + 1 = b + (k + 1) /\ k + 1 \in Nat
      OBVIOUS
    <3>2. Rounds(as, v, m, T)
      BY <2>2
    <3>. HIDE DEF m
    <3>3. Rounds(as, v, m + 1, T)
      BY <1>7, <3>1, <3>2, OneRound
    <3>. QED BY <3>1, <3>3
  <2>. HIDE DEF N
  <2>3. n \in N
    BY <2>1, <2>2, InductionOnNumbers
  <2>4. Rounds(as, v, b + n, T)
    BY <2>3 DEF N
  <2>5. \A k \in 0..n : k \in 0..(b + n)
    OBVIOUS
  <2>. QED BY <2>4, <2>5 DEF Rounds
<1>9. T \in Ends(as, start)
  BY <1>6, <1>7 DEF Ends
<1>. QED BY <1>8, <1>9 DEF start

\* What Reached is: the routes of the actions, each world at the least cost of a route to it.
LEMMA ReachedIs ==
  ASSUME NEW as \in SUBSET Actions, NEW v \in Worlds
  PROVE  \A n \in Nat : Rounds(as, v, n, Reached(as, v))
<1>. DEFINE start == {<<v, 0>>}
            next(S) == Further(as, S)
            rec(f) == f = [S \in SUBSET (Worlds \X Nat) |-> IF next(S) = S THEN S ELSE f[next(S)]]
            end(S) == IF Ends(as, S) = {} THEN {} ELSE CHOOSE T \in Ends(as, S) : TRUE
            g == [S \in SUBSET Costed |-> end(S)]
            closure == CHOOSE f : rec(f)
<1>0. SUBSET Costed = SUBSET (Worlds \X Nat) /\ start \in SUBSET Costed
  BY DEF Costed
<1>1. Reached(as, v) = closure[start]
  BY Zenon DEF Reached
<1>2. rec(g)
  <2>1. ASSUME NEW S \in SUBSET Costed PROVE g[S] = IF next(S) = S THEN S ELSE g[next(S)]
    <3>1. next(S) \in SUBSET Costed
      BY FurtherIs
    <3>2. CASE next(S) = S
      <4>1. Ends(as, S) = {S}
        BY <3>2, EndsAre
      <4>. QED BY <3>2, <4>1
    <3>3. CASE next(S) # S
      <4>1. Ends(as, S) = Ends(as, next(S))
        BY <3>3, EndsAre
      <4>. HIDE DEF next
      <4>. QED BY <3>1, <3>3, <4>1
    <3>. QED BY <3>2, <3>3
  <2>2. g = [S \in SUBSET Costed |-> end(S)] /\ \A S \in SUBSET Costed : g[S] = end(S)
    <3>. HIDE DEF end
    <3>. QED OBVIOUS
  <2>. HIDE DEF g, next, end
  <2>3. g = [S \in SUBSET Costed |-> IF next(S) = S THEN S ELSE g[next(S)]]
    BY <2>1, <2>2
  <2>. QED BY <1>0, <2>3
<1>3. rec(closure)
  <2>. HIDE DEF rec, g, end
  <2>. QED BY <1>2, Zenon
<1>4. \A S \in SUBSET Costed : closure[S] = IF next(S) = S THEN S ELSE closure[next(S)]
  <2>. HIDE DEF closure, next
  <2>. QED BY <1>0, <1>3
<1>. HIDE DEF closure, g, rec, end
<1>5. PICK T \in Ends(as, start) : \A n \in Nat : Rounds(as, v, n, T)
  BY Settles
<1>6. PICK n \in Nat : Chain(as, n, start, T)
  BY DEF Ends
<1>7. T \in SUBSET Costed /\ next(T) = T
  BY DEF Ends
<1>. HIDE DEF start
<1>8. closure[start] = T
  <2>. DEFINE N == {k \in Nat : \A S \in SUBSET Costed : Chain(as, k, S, T) => closure[S] = T}
  <2>1. 0 \in N
    <3>1. closure[T] = T
      BY <1>4, <1>7
    <3>2. \A S \in SUBSET Costed : Chain(as, 0, S, T) => S = T
      BY DEF Chain
    <3>. QED BY <3>1, <3>2
  <2>2. ASSUME NEW k \in Nat, k \in N PROVE k + 1 \in N
    <3>0. k + 1 \in Nat
      OBVIOUS
    <3>. SUFFICES ASSUME NEW S \in SUBSET Costed, Chain(as, k + 1, S, T) PROVE closure[S] = T
      BY <3>0
    <3>1. Chain(as, k, next(S), T) /\ next(S) \in SUBSET Costed
      BY <1>7, ChainFirst, FurtherIs
    <3>2. closure[next(S)] = T
      BY <2>2, <3>1
    <3>3. CASE next(S) = S
      BY <3>2, <3>3
    <3>4. CASE next(S) # S
      BY <1>4, <3>2, <3>4
    <3>. QED BY <3>3, <3>4
  <2>. HIDE DEF N
  <2>3. n \in N
    BY <2>1, <2>2, InductionOnNumbers
  <2>. QED BY <1>0, <1>6, <2>3 DEF N
<1>. QED BY <1>1, <1>5, <1>8

\* The least cost of the goal is that of a route to it which no other undercuts; -1, that none reaches it.
LeastToGoal(as, v, c) ==
  /\ \E w \in Worlds : Reaches(as, v, w, c) /\ Satisfies(w, Goal)
  /\ \A w \in Worlds, d \in Nat : Reaches(as, v, w, d) /\ Satisfies(w, Goal) => c <= d

OutOfReach(as, v) == \A w \in Worlds, d \in Nat : ~(Reaches(as, v, w, d) /\ Satisfies(w, Goal))

LEMMA LeastCostIs ==
  ASSUME NEW as \in SUBSET Actions, NEW v \in Worlds
  PROVE  /\ LeastCost(as, Goal, v) \in Int
         /\ OutOfReach(as, v) => LeastCost(as, Goal, v) = -1
         /\ ~OutOfReach(as, v) => LeastCost(as, Goal, v) >= 0
         /\ \A c \in Nat : LeastToGoal(as, v, c) => LeastCost(as, Goal, v) = c
<1>. DEFINE R == Reached(as, v)
            G == {x \in R : Satisfies(x[1], Goal)}
            C == {x[2] : x \in G}
            least == LeastCost(as, Goal, v)
<1>1. /\ R \in SUBSET Costed
      /\ \A x \in R : x[1] \in Worlds /\ x[2] \in Nat /\ Reaches(as, v, x[1], x[2])
  <2>1. 0 \in Nat /\ Rounds(as, v, 0, R)
    BY ReachedIs
  <2>. HIDE DEF R
  <2>. QED BY <2>1 DEF Rounds, Costed
<1>2. \A w \in Worlds, c \in Nat : Reaches(as, v, w, c) => \E x \in R : x[1] = w /\ x[2] <= c
  <2>. SUFFICES ASSUME NEW w \in Worlds, NEW c \in Nat, Reaches(as, v, w, c) PROVE \E x \in R : x[1] = w /\ x[2] <= c
    OBVIOUS
  <2>1. PICK n \in Nat : ReachesIn(as, n, v, w, c)
    BY DEF Reaches
  <2>2. Rounds(as, v, n, R)
    BY ReachedIs
  <2>3. n \in 0..n
    OBVIOUS
  <2>. HIDE DEF R
  <2>. QED BY <2>1, <2>2, <2>3 DEF Rounds
<1>3. least = IF G = {} THEN -1 ELSE Min(C)
  BY DEF LeastCost
<1>. HIDE DEF R, least
<1>4. OutOfReach(as, v) <=> G = {}
  <2>1. ASSUME NEW x \in G PROVE ~OutOfReach(as, v)
    BY <1>1 DEF OutOfReach
  <2>2. ASSUME ~OutOfReach(as, v) PROVE G # {}
    <3>1. PICK w \in Worlds, d \in Nat : Reaches(as, v, w, d) /\ Satisfies(w, Goal)
      BY <2>2 DEF OutOfReach
    <3>2. PICK x \in R : x[1] = w
      BY <1>2, <3>1
    <3>. QED BY <3>1, <3>2
  <2>. QED BY <2>1, <2>2
<1>5. C \in SUBSET Nat /\ (G # {} => C # {})
  BY <1>1
<1>6. G # {} => Min(C) \in C /\ \A y \in C : Min(C) <= y
  <2>. HIDE DEF C
  <2>. QED BY <1>5, LeastOf
<1>7. ASSUME NEW c \in Nat, LeastToGoal(as, v, c) PROVE least = c
  <2>1. PICK w \in Worlds : Reaches(as, v, w, c) /\ Satisfies(w, Goal)
    BY <1>7 DEF LeastToGoal
  <2>2. PICK x \in R : x[1] = w /\ x[2] <= c
    BY <1>2, <2>1
  <2>3. x \in G /\ x[2] \in C
    BY <2>1, <2>2
  <2>4. PICK y \in G : y[2] = Min(C)
    BY <1>6, <2>3
  <2>5. c <= y[2]
    BY <1>1, <1>7, <2>4 DEF LeastToGoal
  <2>6. Min(C) <= x[2]
    BY <1>6, <2>3
  <2>7. Min(C) \in Nat /\ x[2] \in Nat
    BY <1>5, <1>6, <2>3
  <2>. HIDE DEF C, G
  <2>8. Min(C) = c
    BY <2>2, <2>4, <2>5, <2>6, <2>7
  <2>. QED BY <1>3, <2>3, <2>8
<1>8. least \in Int /\ (G # {} => least >= 0)
  <2>. HIDE DEF C, G
  <2>. QED BY <1>3, <1>5, <1>6
<1>. HIDE DEF C, G
<1>. QED BY <1>3, <1>4, <1>7, <1>8 DEF least

-----------------------------------------------------------------------------
(* Plans: what a node of the search has in its plan, and what the process   *)
(* runs of it.                                                              *)

\* The worlds ws and the costs cs are those of the plan, from v.
Follows(as, plan, v, ws, cs) ==
  /\ ws[0] = v /\ cs[0] = 0
  /\ \A i \in 1..Len(plan) : /\ plan[i] \in as /\ Satisfies(ws[i - 1], plan[i].pre)
                             /\ ws[i] = Apply(ws[i - 1], plan[i].effects) /\ cs[i] = cs[i - 1] + Cost(plan[i])

Leads(as, plan, v, w, c) ==
  \E ws \in [0..Len(plan) -> Worlds], cs \in [0..Len(plan) -> Nat] :
    Follows(as, plan, v, ws, cs) /\ ws[Len(plan)] = w /\ cs[Len(plan)] = c

LEMMA LeadsNowhere == ASSUME NEW as, NEW v \in Worlds PROVE Leads(as, <<>>, v, v, 0)
<1>. DEFINE ws == [i \in 0..0 |-> v]
            cs == [i \in 0..0 |-> 0]
<1>1. ws \in [0..0 -> Worlds] /\ cs \in [0..0 -> Nat] /\ ws[0] = v /\ cs[0] = 0 /\ Len(<<>>) = 0
  OBVIOUS
<1>. HIDE DEF ws, cs
<1>2. Follows(as, <<>>, v, ws, cs)
  BY <1>1 DEF Follows
<1>. QED BY <1>1, <1>2 DEF Leads

LEMMA LeadsOn ==
  ASSUME NEW as \in SUBSET Actions, NEW plan \in Seq(Actions), NEW v \in Worlds, NEW w \in Worlds, NEW c \in Nat,
         Leads(as, plan, v, w, c), NEW a \in as, Satisfies(w, a.pre)
  PROVE  Leads(as, Append(plan, a), v, Apply(w, a.effects), c + Cost(a))
<1>. DEFINE n == Len(plan)
            long == Append(plan, a)
            t == Apply(w, a.effects)
            d == c + Cost(a)
<1>0. n \in Nat /\ Len(long) = n + 1 /\ long[n + 1] = a /\ \A i \in 1..n : long[i] = plan[i]
  OBVIOUS
<1>1. PICK ws \in [0..n -> Worlds], cs \in [0..n -> Nat] : Follows(as, plan, v, ws, cs) /\ ws[n] = w /\ cs[n] = c
  BY DEF Leads
<1>2. t \in Worlds /\ d \in Nat
  <2>1. a.effects \in Worlds /\ Cost(a) \in Nat
    BY CostPositive DEF Actions
  <2>. QED BY <2>1, ApplyWorld
<1>. DEFINE us == [i \in 0..(n + 1) |-> IF i = n + 1 THEN t ELSE ws[i]]
            ds == [i \in 0..(n + 1) |-> IF i = n + 1 THEN d ELSE cs[i]]
<1>3. t = Apply(ws[n], a.effects) /\ d = cs[n] + Cost(a) /\ Satisfies(ws[n], a.pre)
  BY <1>1
<1>4. \A i \in 1..n : /\ plan[i] \in as /\ Satisfies(ws[i - 1], plan[i].pre)
                      /\ ws[i] = Apply(ws[i - 1], plan[i].effects) /\ cs[i] = cs[i - 1] + Cost(plan[i])
  BY <1>1 DEF Follows
<1>. HIDE DEF n, long, t, d
<1>5. /\ us \in [0..(n + 1) -> Worlds] /\ us[n + 1] = t /\ \A i \in 0..n : us[i] = ws[i]
      /\ ds \in [0..(n + 1) -> Nat] /\ ds[n + 1] = d /\ \A i \in 0..n : ds[i] = cs[i]
  BY <1>0, <1>1, <1>2
<1>. HIDE DEF us, ds
<1>6. ASSUME NEW i \in 1..(n + 1)
      PROVE  /\ long[i] \in as /\ Satisfies(us[i - 1], long[i].pre)
             /\ us[i] = Apply(us[i - 1], long[i].effects) /\ ds[i] = ds[i - 1] + Cost(long[i])
  <2>1. CASE i = n + 1
    <3>1. i - 1 = n /\ n \in 0..n
      BY <1>0, <2>1
    <3>2. us[i - 1] = ws[n] /\ ds[i - 1] = cs[n] /\ us[i] = t /\ ds[i] = d /\ long[i] = a
      BY <1>0, <1>5, <2>1, <3>1
    <3>. QED BY <1>3, <3>2
  <2>2. CASE i \in 1..n
    <3>1. i \in 0..n /\ i - 1 \in 0..n
      BY <1>0, <2>2
    <3>2. us[i - 1] = ws[i - 1] /\ ds[i - 1] = cs[i - 1] /\ us[i] = ws[i] /\ ds[i] = cs[i] /\ long[i] = plan[i]
      BY <1>0, <1>5, <2>2, <3>1
    <3>. QED BY <1>4, <2>2, <3>2
  <2>3. i = n + 1 \/ i \in 1..n
    BY <1>0
  <2>. QED BY <2>1, <2>2, <2>3
<1>7. us[0] = v /\ ds[0] = 0
  <2>1. ws[0] = v /\ cs[0] = 0
    BY <1>1 DEF Follows
  <2>. QED BY <1>0, <1>5, <2>1
<1>8. Follows(as, long, v, us, ds)
  BY <1>0, <1>6, <1>7 DEF Follows
<1>9. Leads(as, long, v, t, d)
  BY <1>0, <1>5, <1>8 DEF Leads
<1>. QED BY <1>9 DEF long, t, d

\* A plan is a route, step by step.
LEMMA FollowsReach ==
  ASSUME NEW as \in SUBSET Actions, NEW plan \in Seq(Actions), NEW v,
         NEW ws \in [0..Len(plan) -> Worlds], NEW cs \in [0..Len(plan) -> Nat], Follows(as, plan, v, ws, cs)
  PROVE  Reaches(as, v, ws[Len(plan)], cs[Len(plan)])
<1>. DEFINE n == Len(plan)
<1>0. n \in Nat
  OBVIOUS
<1>1. ASSUME NEW i \in 1..n
      PROVE  \E a \in as : Satisfies(ws[i - 1], a.pre) /\ ws[i] = Apply(ws[i - 1], a.effects) /\ cs[i] = cs[i - 1] + Cost(a)
  BY DEF Follows
<1>2. ws[0] = v /\ cs[0] = 0
  BY DEF Follows
<1>. HIDE DEF n
<1>3. Route(as, n, ws, cs)
  BY <1>1, <1>2 DEF Route
<1>4. ReachesIn(as, n, v, ws[n], cs[n])
  BY <1>2, <1>3 DEF ReachesIn, n
<1>. QED BY <1>0, <1>4 DEF Reaches, n

\* The actions as a planner weighs them: the same actions, each at its weight.
LEMMA WeighedActions ==
  ASSUME agent \in Agents, NEW as \in SUBSET agent.actions
  PROVE  /\ Weighted(as) \in SUBSET Actions
         /\ \A b \in Weighted(as) :
              \E a \in as : a.name = b.name /\ a.pre = b.pre /\ a.effects = b.effects /\ Weight(a) = Cost(b)
<1>0. as \in SUBSET Actions /\ Told(as)
  BY AgentActions DEF Told
<1>1. \A b \in Actions : MinCost({b}) = Cost(b)
  <2>. TAKE b \in Actions
  <2>1. Cost(b) \in Nat
    BY CostPositive
  <2>2. MinCost({b}) = Min({Cost(b)})
    BY DEF MinCost
  <2>3. Min({Cost(b)}) \in {Cost(b)}
    BY <2>1, LeastOf
  <2>. QED BY <2>2, <2>3
<1>2. CASE agent.planner # "hybrid"
  <2>1. Weighted(as) = as /\ \A a : Weighted({a}) = {a}
    BY <1>2 DEF Weighted
  <2>. QED BY <1>0, <1>1, <2>1 DEF Weight
<1>3. CASE agent.planner = "hybrid"
  <2>. DEFINE w(a) == [a EXCEPT !.cost = (2 * Cost(a)) \div a.utility]
  <2>0. Weighted(as) = Reweighted(as) /\ Reweighted(as) \in SUBSET Actions
    BY <1>0, <1>3, ReweightedActions DEF Weighted
  <2>1. \A b \in Reweighted(as) : \E a \in as : a.utility > 0 /\ b = w(a)
    BY DEF Reweighted
  <2>2. ASSUME NEW a \in as, a.utility > 0 PROVE Weighted({a}) = {w(a)}
    <3>1. {b \in {a} : b.utility > 0} = {a}
      BY <2>2
    <3>2. Reweighted({a}) = {w(x) : x \in {a}}
      BY <3>1 DEF Reweighted
    <3>. QED BY <1>3, <3>2 DEF Weighted
  <2>3. \A a \in Actions : w(a).name = a.name /\ w(a).pre = a.pre /\ w(a).effects = a.effects
    BY DEF Actions
  <2>. HIDE DEF w
  <2>4. ASSUME NEW b \in Reweighted(as)
        PROVE  \E a \in as : a.name = b.name /\ a.pre = b.pre /\ a.effects = b.effects /\ Weight(a) = Cost(b)
    <3>1. PICK a \in as : a.utility > 0 /\ b = w(a)
      BY <2>1
    <3>2. b \in Actions /\ Weighted({a}) = {b}
      BY <2>0, <2>2, <3>1
    <3>3. Weight(a) = Cost(b)
      BY <1>1, <3>2 DEF Weight
    <3>. QED BY <1>0, <2>3, <3>1, <3>3
  <2>. QED BY <2>0, <2>4
<1>. QED BY <1>2, <1>3

-----------------------------------------------------------------------------
(* The search.  Its table has every world a route leads to, unless an open  *)
(* node is on that route before it.                                         *)

Origin == IF search.mode = "goal" THEN p.world ELSE Assume(p.world, EstablishedElsewhere)

Closed == \A w \in Expanded : \A a \in Operators : Satisfies(w, a.pre) =>
            Apply(w, a.effects) \in DOMAIN search.best /\ search.best[Apply(w, a.effects)] <= search.best[w] + Cost(a)

Fronted == \A w \in DOMAIN search.best : w \in Expanded \/ \E n \in search.open : n.world = w /\ n.g = search.best[w]

Begun == Origin \in DOMAIN search.best /\ search.best[Origin] = 0

\* A world reached at cost c is known at that cost, or an open node is on the way to it.
Ahead(w, c) ==
  \/ w \in DOMAIN search.best /\ search.best[w] <= c
  \/ \E n \in search.open : n.g + h(n.world) <= c

LEMMA RoutesAhead ==
  ASSUME TypeInv, Closed, Fronted, Begun, NEW k \in Nat, NEW w \in Worlds, NEW c \in Nat,
         ReachesIn(Operators, k, Origin, w, c)
  PROVE  Ahead(w, c)
<1>. DEFINE N == {i \in Nat : \A u \in Worlds, d \in Nat : ReachesIn(Operators, i, Origin, u, d) => Ahead(u, d)}
<1>0. /\ agent \in Agents /\ Operators \in SUBSET Actions
      /\ \A u \in DOMAIN search.best : search.best[u] \in Nat
      /\ \A n \in search.open : n.g \in Nat /\ h(n.world) \in Nat
  <2>1. agent \in Agents /\ search \in Searches
    BY DEF TypeInv, Types
  <2>. QED BY <2>1, AgentActions, EstimateIs DEF Searches, Bests, Nodes
<1>1. 0 \in N
  <2>. SUFFICES ASSUME NEW u \in Worlds, NEW d \in Nat, ReachesIn(Operators, 0, Origin, u, d) PROVE Ahead(u, d)
    OBVIOUS
  <2>1. u = Origin /\ d = 0 /\ Origin \in Worlds
    BY DEF ReachesIn, Route
  <2>2. search.best[u] <= d
    BY <1>0, <2>1 DEF Begun
  <2>. QED BY <2>1, <2>2 DEF Begun, Ahead
<1>2. ASSUME NEW i \in Nat, i \in N PROVE i + 1 \in N
  <2>0. i + 1 \in Nat \ {0} /\ (i + 1) - 1 = i
    OBVIOUS
  <2>. SUFFICES ASSUME NEW u \in Worlds, NEW d \in Nat, ReachesIn(Operators, i + 1, Origin, u, d) PROVE Ahead(u, d)
    BY <2>0
  <2>1. Origin \in Worlds
    BY <2>0, RouteTypes
  <2>2. Continues(Operators, i, Origin, u, d)
    BY <2>0, <2>1, RouteLast
  <2>3. PICK x \in Worlds, e \in Nat, a \in Operators :
          ReachesIn(Operators, i, Origin, x, e) /\ Satisfies(x, a.pre) /\ u = Apply(x, a.effects) /\ d = e + Cost(a)
    BY <2>2 DEF Continues
  <2>4. Ahead(x, e)
    BY <1>2, <2>3
  <2>5. Cost(a) \in Nat /\ \A y : h(y) \in Nat /\ h(y) <= Cost(a)
    BY <1>0, EstimateIs
  <2>6. ASSUME NEW n \in search.open, n.g + h(n.world) <= e PROVE Ahead(u, d)
    <3>1. n.g + h(n.world) <= d
      BY <1>0, <2>3, <2>5, <2>6
    <3>. QED BY <3>1 DEF Ahead
  <2>7. ASSUME x \in DOMAIN search.best, search.best[x] <= e, x \in Expanded PROVE Ahead(u, d)
    <3>1. u \in DOMAIN search.best /\ search.best[u] <= search.best[x] + Cost(a)
      BY <2>3, <2>7 DEF Closed
    <3>2. search.best[u] \in Nat /\ search.best[x] \in Nat
      BY <1>0, <2>7, <3>1
    <3>3. search.best[u] <= d
      BY <2>3, <2>5, <2>7, <3>1, <3>2
    <3>. QED BY <3>1, <3>3 DEF Ahead
  <2>8. ASSUME NEW n \in search.open, n.world = x, n.g = search.best[x], search.best[x] <= e PROVE Ahead(u, d)
    <3>1. n.g + h(n.world) <= d
      BY <1>0, <2>3, <2>5, <2>8
    <3>. QED BY <3>1 DEF Ahead
  <2>. QED BY <2>4, <2>6, <2>7, <2>8 DEF Ahead, Fronted
<1>. HIDE DEF N
<1>3. k \in N
  BY <1>1, <1>2, InductionOnNumbers
<1>. QED BY <1>3 DEF N

\* With no open node left, no route reaches the goal.
LEMMA NothingOpen ==
  ASSUME TypeInv, Closed, Fronted, Begun, search.open = {}
  PROVE  OutOfReach(Operators, Origin)
<1>. SUFFICES ASSUME NEW w \in Worlds, NEW d \in Nat, Reaches(Operators, Origin, w, d), Satisfies(w, Goal) PROVE FALSE
  BY DEF OutOfReach
<1>1. PICK k \in Nat : ReachesIn(Operators, k, Origin, w, d)
  BY DEF Reaches
<1>2. Ahead(w, d)
  BY <1>1, RoutesAhead
<1>3. w \in Expanded
  BY <1>2 DEF Ahead, Fronted
<1>. QED BY <1>3 DEF Expanded

\* A nearest node at the goal has the least cost of the routes to the goal.
LEMMA NearestIsLeast ==
  ASSUME TypeInv, Closed, Fronted, Begun, OpenNodes, NEW n \in search.open, Nearest(n), Satisfies(n.world, Goal),
         NEW w \in Worlds, NEW d \in Nat, Reaches(Operators, Origin, w, d), Satisfies(w, Goal)
  PROVE  n.g <= d
<1>0. /\ \A u \in DOMAIN search.best : search.best[u] \in Nat
      /\ \A m \in search.open : m.g \in Nat /\ m.f \in Nat /\ h(m.world) \in Nat
      /\ \A u : Satisfies(u, Goal) => h(u) = 0
  <2>1. agent \in Agents /\ search \in Searches
    BY DEF TypeInv, Types
  <2>. QED BY <2>1, EstimateIs DEF Searches, Bests, Nodes, h, Estimate
<1>1. PICK k \in Nat : ReachesIn(Operators, k, Origin, w, d)
  BY DEF Reaches
<1>2. Ahead(w, d)
  BY <1>1, RoutesAhead
<1>3. PICK m \in search.open : m.g + h(m.world) <= d
  <2>1. CASE w \in DOMAIN search.best /\ search.best[w] <= d
    <3>1. w \notin Expanded
      BY DEF Expanded
    <3>2. PICK m \in search.open : m.world = w /\ m.g = search.best[w]
      BY <2>1, <3>1 DEF Fronted
    <3>3. h(m.world) = 0 /\ m.g \in Nat
      BY <1>0, <3>2
    <3>4. m.g + h(m.world) <= d
      BY <2>1, <3>2, <3>3
    <3>. QED BY <3>4
  <2>. QED BY <1>2, <2>1 DEF Ahead
<1>4. n.f <= m.f /\ m.f <= m.g + h(m.world)
  BY DEF Nearest, OpenNodes
<1>5. CASE n.f = n.g + h(n.world)
  BY <1>0, <1>3, <1>4, <1>5
<1>6. CASE search.open = {n}
  <2>1. m = n
    BY <1>6
  <2>2. n.g + h(n.world) <= d /\ h(n.world) = 0 /\ n.g \in Nat
    BY <1>0, <1>3, <2>1
  <2>. QED BY <2>2
<1>. QED BY <1>5, <1>6 DEF OpenNodes

-----------------------------------------------------------------------------
(* An expansion keeps what the table says of the routes.                    *)

\* Of the actions that lead from n to a world, the cheapest one, the first by name.
LEMMA Foremost ==
  ASSUME agent \in Agents, NEW w, NEW a \in Operators, Satisfies(w, a.pre)
  PROVE  \E b \in Operators :
           /\ Satisfies(w, b.pre) /\ Apply(w, b.effects) = Apply(w, a.effects)
           /\ \A c \in Operators : Satisfies(w, c.pre) /\ Apply(w, c.effects) = Apply(w, a.effects) =>
                Cost(b) < Cost(c) \/ (Cost(b) = Cost(c) /\ b.name <= c.name)
<1>. DEFINE same == {c \in Operators : Satisfies(w, c.pre) /\ Apply(w, c.effects) = Apply(w, a.effects)}
            costs == {Cost(c) : c \in same}
            first == {c \in same : Cost(c) = Min(costs)}
            names == {c.name : c \in first}
<1>0. \A c \in same : Cost(c) \in Nat /\ c.name \in Nat
  BY AgentActions, CostPositive DEF Actions
<1>1. a \in same
  OBVIOUS
<1>2. Min(costs) \in costs /\ \A y \in costs : Min(costs) <= y
  <2>1. costs \in SUBSET Nat /\ costs # {}
    BY <1>0, <1>1
  <2>. HIDE DEF costs
  <2>. QED BY <2>1, LeastOf
<1>3. Min(names) \in names /\ \A y \in names : Min(names) <= y
  <2>1. names \in SUBSET Nat /\ names # {}
    BY <1>0, <1>2
  <2>. HIDE DEF names
  <2>. QED BY <2>1, LeastOf
<1>4. PICK b \in first : b.name = Min(names)
  BY <1>3
<1>5. b \in same /\ Cost(b) = Min(costs)
  OBVIOUS
<1>6. ASSUME NEW c \in same PROVE Cost(b) < Cost(c) \/ (Cost(b) = Cost(c) /\ b.name <= c.name)
  <2>1. Cost(b) <= Cost(c)
    BY <1>2, <1>5
  <2>2. CASE Cost(b) = Cost(c)
    <3>1. c \in first /\ c.name \in names
      BY <1>5, <2>2
    <3>. QED BY <1>3, <1>4, <2>2, <3>1
  <2>3. CASE Cost(b) # Cost(c)
    BY <1>0, <1>5, <2>1, <2>3
  <2>. QED BY <2>2, <2>3
<1>. QED BY <1>5, <1>6

\* Each open node has the plan of a route to its world, at its cost.
Sound == \A n \in search.open : Leads(Operators, n.plan, Origin, n.world, n.g)

Table == Closed /\ Fronted /\ Begun /\ Sound

LEMMA SameOrigin ==
  ASSUME agent' = agent, p' = p, search'.mode = search.mode
  PROVE  Operators' = Operators /\ Origin' = Origin
BY DEF Operators, Admissible, Origin, EstablishedElsewhere, AllActions

\* What an expansion pushes for an action that is the foremost to its world, and improves on it.
LEMMA KidFor ==
  ASSUME NEW n, NEW b \in Operators, Satisfies(n.world, b.pre),
         \A c \in Operators : Satisfies(n.world, c.pre) /\ Apply(n.world, c.effects) = Apply(n.world, b.effects) =>
           Cost(b) < Cost(c) \/ (Cost(b) = Cost(c) /\ b.name <= c.name),
         Improves(n.g + Cost(b), Apply(n.world, b.effects))
  PROVE  \E k \in Kids(n) : k.world = Apply(n.world, b.effects) /\ k.g = n.g + Cost(b)
<1>. DEFINE k == [world |-> Apply(n.world, b.effects), g |-> n.g + Cost(b),
                  f |-> n.g + Cost(b) + Estimate(Operators, Goal, Apply(n.world, b.effects)), plan |-> Append(n.plan, b)]
<1>1. k \in Kids(n)
  BY DEF Kids, Applicable
<1>2. k.world = Apply(n.world, b.effects) /\ k.g = n.g + Cost(b)
  OBVIOUS
<1>. HIDE DEF k
<1>. QED BY <1>1, <1>2

LEMMA ExpandKeepsTable ==
  ASSUME TypeInv, Rest, pc = "search", OpenNodes, BehindOpen, Table,
         NEW n \in search.open, ~Satisfies(n.world, Goal), search.best[n.world] >= n.g,
         search.expansions # MaxExpansions, Expand(n)
  PROVE  Table'
<1>. DEFINE best == search.best
            kids == Kids(n)
            new == search'.best
<1>0. /\ agent \in Agents /\ n \in Nodes /\ Known(n) /\ n.g \in Nat /\ n.world \in Worlds /\ n.plan \in Seq(Actions)
      /\ Operators \in SUBSET Actions
  <2>1. agent \in Agents /\ n \in Nodes /\ Known(n)
    BY DEF TypeInv, Types, Nodal, Searches
  <2>. QED BY <2>1, AgentActions DEF Nodes
<1>moves. Expansion(n)
  BY ExpandMoves
<1>1. search'.open = (search.open \ {n}) \union kids /\ search'.mode = search.mode
  BY <1>moves DEF Expansion
<1>2. Operators' = Operators /\ Origin' = Origin
  BY <1>1, SameOrigin DEF Rest, Expand
<1>3. \A w \in DOMAIN best : best[w] \in Nat
  BY DEF TypeInv, Types, Searches, Bests
<1>4. \A k \in kids : /\ k.g \in Nat /\ k.g > n.g
                      /\ k.world \in DOMAIN best => k.g < best[k.world]
                      /\ k.world \in DOMAIN new /\ new[k.world] = k.g
  BY <1>moves DEF Expansion
<1>5. \A w \in DOMAIN best : w \in DOMAIN new /\ ((\A k \in kids : k.world # w) => new[w] = best[w])
  BY <1>moves DEF Expansion
<1>6. \A w \in DOMAIN new : w \in DOMAIN best \/ \E k \in kids : k.world = w
  BY <1>moves DEF Expansion
<1>7. best[n.world] = n.g /\ n.world \in DOMAIN best /\ \A k \in kids : k.world # n.world /\ k.world \notin Expanded
  BY <1>moves DEF Expansion
<1>8. Expanded' = Expanded \union {n.world}
  BY <1>moves DEF Expansion
<1>kids. \A k \in kids : \E a \in Operators : /\ Satisfies(n.world, a.pre) /\ k.world = Apply(n.world, a.effects)
                                           /\ k.g = n.g + Cost(a) /\ k.plan = Append(n.plan, a)
  BY <1>0, KidOf
<1>costs. \A a \in Operators : Cost(a) \in Nat
  BY <1>0, EstimateIs
<1>reached. ASSUME NEW a \in Operators, Satisfies(n.world, a.pre)
      PROVE  Apply(n.world, a.effects) \in DOMAIN new /\ new[Apply(n.world, a.effects)] <= n.g + Cost(a)
  <2>. DEFINE t == Apply(n.world, a.effects)
  <2>1. PICK b \in Operators :
          /\ Satisfies(n.world, b.pre) /\ Apply(n.world, b.effects) = t
          /\ \A c \in Operators : Satisfies(n.world, c.pre) /\ Apply(n.world, c.effects) = t =>
               Cost(b) < Cost(c) \/ (Cost(b) = Cost(c) /\ b.name <= c.name)
    BY <1>0, <1>reached, Foremost
  <2>2. Cost(b) < Cost(a) \/ Cost(b) = Cost(a)
    BY <1>reached, <2>1
  <2>3. Improves(n.g + Cost(b), t) => \E k \in kids : k.world = t /\ k.g = n.g + Cost(b)
    BY <2>1, KidFor
  <2>4. n.g + Cost(b) <= n.g + Cost(a) /\ n.g + Cost(b) \in Nat /\ n.g + Cost(a) \in Nat
    BY <1>0, <1>costs, <2>2
  <2>. HIDE DEF t, kids, best, new
  <2>5. CASE \E k \in kids : k.world = t
    <3>1. PICK k \in kids : k.world = t
      BY <2>5
    <3>2. CASE Improves(n.g + Cost(b), t)
      <4>1. PICK j \in kids : j.world = t /\ j.g = n.g + Cost(b)
        BY <2>3, <3>2
      <4>2. t \in DOMAIN new /\ new[t] = n.g + Cost(b)
        BY <1>4, <4>1
      <4>. QED BY <2>4, <4>2 DEF t
    <3>3. CASE ~Improves(n.g + Cost(b), t)
      <4>1. t \in DOMAIN best /\ ~(n.g + Cost(b) < best[t])
        BY <3>3 DEF Improves, best
      <4>2. t \in DOMAIN new /\ new[t] = k.g /\ k.g < best[t] /\ k.g \in Nat /\ best[t] \in Nat
        BY <1>3, <1>4, <3>1, <4>1
      <4>3. new[t] <= n.g + Cost(a)
        BY <2>4, <4>1, <4>2
      <4>. QED BY <4>2, <4>3 DEF t
    <3>. QED BY <3>2, <3>3
  <2>6. CASE \A k \in kids : k.world # t
    <3>1. ~Improves(n.g + Cost(b), t)
      BY <2>3, <2>6
    <3>2. t \in DOMAIN best /\ ~(n.g + Cost(b) < best[t])
      BY <3>1 DEF Improves, best
    <3>3. t \in DOMAIN new /\ new[t] = best[t] /\ best[t] \in Nat
      BY <1>3, <1>5, <2>6, <3>2
    <3>4. new[t] <= n.g + Cost(a)
      BY <2>4, <3>2, <3>3
    <3>. QED BY <3>3, <3>4 DEF t
  <2>. QED BY <2>5, <2>6
<1>lower. \A w \in DOMAIN best : w \in DOMAIN new /\ new[w] <= best[w]
  <2>. HIDE DEF kids, best, new
  <2>. TAKE w \in DOMAIN best
  <2>1. CASE \E k \in kids : k.world = w
    <3>1. PICK k \in kids : k.world = w
      BY <2>1
    <3>2. new[w] = k.g /\ k.g < best[w] /\ k.g \in Nat /\ best[w] \in Nat /\ w \in DOMAIN new
      BY <1>3, <1>4, <3>1
    <3>. QED BY <3>2
  <2>2. CASE \A k \in kids : k.world # w
    <3>1. new[w] = best[w] /\ best[w] \in Nat /\ w \in DOMAIN new
      BY <1>3, <1>5, <2>2
    <3>. QED BY <3>1
  <2>. QED BY <2>1, <2>2
<1>9. ASSUME NEW w \in Expanded, NEW a \in Operators, Satisfies(w, a.pre)
      PROVE  Apply(w, a.effects) \in DOMAIN new /\ new[Apply(w, a.effects)] <= new[w] + Cost(a)
  <2>. DEFINE t == Apply(w, a.effects)
  <2>1. t \in DOMAIN best /\ best[t] <= best[w] + Cost(a)
    BY <1>9 DEF Table, Closed
  <2>2. w \in DOMAIN best
    BY DEF Expanded
  <2>. HIDE DEF t, kids, best, new
  <2>3. new[w] = best[w] /\ best[w] \in Nat /\ best[t] \in Nat
    BY <1>3, <1>5, <1>7, <2>1, <2>2
  <2>4. t \in DOMAIN new /\ new[t] <= best[t]
    BY <1>lower, <2>1
  <2>5. new[t] \in Nat
    <3>1. CASE \E k \in kids : k.world = t
      BY <1>4, <3>1
    <3>2. CASE \A k \in kids : k.world # t
      BY <1>5, <2>1, <2>3, <3>2
    <3>. QED BY <3>1, <3>2
  <2>6. new[t] <= new[w] + Cost(a)
    BY <1>costs, <2>1, <2>3, <2>4, <2>5
  <2>. QED BY <2>4, <2>6 DEF t
<1>10. Closed'
  <2>1. new[n.world] = n.g
    BY <1>5, <1>7
  <2>. HIDE DEF kids, best, new
  <2>2. \A w \in Expanded' : \A a \in Operators : Satisfies(w, a.pre) =>
          Apply(w, a.effects) \in DOMAIN new /\ new[Apply(w, a.effects)] <= new[w] + Cost(a)
    BY <1>8, <1>9, <1>reached, <2>1
  <2>. QED BY <1>2, <2>2 DEF Closed, new
<1>11. Fronted'
  <2>1. ASSUME NEW w \in DOMAIN new PROVE w \in Expanded' \/ \E m \in search'.open : m.world = w /\ m.g = new[w]
    <3>. HIDE DEF kids, best, new
    <3>1. CASE \E k \in kids : k.world = w
      BY <1>1, <1>4, <3>1
    <3>2. CASE \A k \in kids : k.world # w
      <4>1. w \in DOMAIN best /\ new[w] = best[w]
        BY <1>5, <1>6, <3>2
      <4>2. w \in Expanded \/ \E m \in search.open : m.world = w /\ m.g = best[w]
        BY <4>1 DEF Table, Fronted, best
      <4>3. ASSUME NEW m \in search.open, m.world = w, m.g = best[w]
            PROVE  w \in Expanded' \/ \E o \in search'.open : o.world = w /\ o.g = new[w]
        <5>1. CASE m = n
          BY <1>8, <4>3, <5>1
        <5>2. CASE m # n
          <6>1. m \in search'.open
            BY <1>1, <5>2
          <6>. QED BY <4>1, <4>3, <6>1
        <5>. QED BY <5>1, <5>2
      <4>. QED BY <1>8, <4>2, <4>3
    <3>. QED BY <3>1, <3>2
  <2>. QED BY <2>1 DEF Fronted, new
<1>12. Begun'
  <2>1. Origin \in DOMAIN best /\ best[Origin] = 0
    BY DEF Table, Begun
  <2>. HIDE DEF kids, best, new
  <2>2. \A k \in kids : k.world # Origin
    <3>. SUFFICES ASSUME NEW k \in kids, k.world = Origin PROVE FALSE
      OBVIOUS
    <3>1. k.g < 0 /\ k.g \in Nat
      BY <1>4, <2>1
    <3>. QED BY <3>1
  <2>3. Origin \in DOMAIN new /\ new[Origin] = 0
    BY <1>5, <2>1, <2>2
  <2>. QED BY <1>2, <2>3 DEF Begun, new
<1>13. Sound'
  <2>1. ASSUME NEW k \in kids PROVE Leads(Operators, k.plan, Origin, k.world, k.g)
    <3>1. PICK a \in Operators : /\ Satisfies(n.world, a.pre) /\ k.world = Apply(n.world, a.effects)
                                 /\ k.g = n.g + Cost(a) /\ k.plan = Append(n.plan, a)
      BY <1>kids
    <3>2. Leads(Operators, n.plan, Origin, n.world, n.g)
      BY DEF Table, Sound
    <3>3. Origin \in Worlds
      BY DEF Table, Begun, TypeInv, Types, Searches, Bests
    <3>4. Leads(Operators, Append(n.plan, a), Origin, Apply(n.world, a.effects), n.g + Cost(a))
      BY <1>0, <3>1, <3>2, <3>3, LeadsOn
    <3>. QED BY <3>1, <3>4
  <2>2. \A m \in search'.open : Leads(Operators, m.plan, Origin, m.world, m.g)
    BY <1>1, <2>1 DEF Table, Sound
  <2>. QED BY <1>2, <2>2 DEF Sound
<1>. QED BY <1>10, <1>11, <1>12, <1>13 DEF Table

LEMMA LeaveOutKeepsTable ==
  ASSUME TypeInv, Rest, p' = p, OpenNodes, Table,
         NEW n \in search.open, search.best[n.world] < n.g, search' = [search EXCEPT !.open = @ \ {n}]
  PROVE  Table'
<1>1. search'.open = search.open \ {n} /\ search'.best = search.best /\ search'.mode = search.mode
  BY DEF TypeInv, Types, Searches
<1>2. Operators' = Operators /\ Origin' = Origin
  BY <1>1, SameOrigin DEF Rest
<1>3. n.g # search.best[n.world]
  <2>1. n.g \in Nat /\ search.best[n.world] \in Nat
    BY DEF TypeInv, Types, Searches, Bests, Nodes, OpenNodes
  <2>. QED BY <2>1
<1>4. Expanded' = Expanded
  BY <1>1, <1>3 DEF Expanded
<1>5. Closed' /\ Begun'
  BY <1>1, <1>2, <1>4 DEF Table, Closed, Begun
<1>6. Fronted'
  <2>1. ASSUME NEW w \in DOMAIN search.best, NEW m \in search.open, m.world = w, m.g = search.best[w] PROVE m \in search'.open
    BY <1>1, <1>3, <2>1
  <2>2. \A w \in DOMAIN search.best : w \in Expanded \/ \E m \in search'.open : m.world = w /\ m.g = search.best[w]
    BY <2>1 DEF Table, Fronted
  <2>. QED BY <1>1, <1>4, <2>2 DEF Fronted
<1>7. Sound'
  BY <1>1, <1>2 DEF Table, Sound
<1>. QED BY <1>5, <1>6, <1>7 DEF Table

\* A search begins with the table of its origin.
LEMMA BeginTable ==
  ASSUME NEW mode \in {"goal", "relaxed"}, NEW w \in Worlds, search' = SearchFrom(mode, w), agent' = agent, p' = p,
         w = IF mode = "goal" THEN p.world ELSE Assume(p.world, EstablishedElsewhere)
  PROVE  Table'
<1>. DEFINE root == [world |-> w, g |-> 0, f |-> 0, plan |-> <<>>]
<1>1. search'.open = {root} /\ search'.best = [x \in {w} |-> 0] /\ search'.mode = mode
  BY DEF SearchFrom
<1>2. root.world = w /\ root.g = 0 /\ root.plan = <<>>
  OBVIOUS
<1>3. EstablishedElsewhere' = EstablishedElsewhere
  BY DEF EstablishedElsewhere, AllActions, Admissible
<1>4. Origin' = w
  BY <1>1, <1>3 DEF Origin
<1>. HIDE DEF root
<1>5. Expanded' = {}
  BY <1>1, <1>2 DEF Expanded
<1>6. Closed'
  BY <1>5 DEF Closed
<1>7. Fronted'
  BY <1>1, <1>2 DEF Fronted
<1>8. Begun'
  BY <1>1, <1>4 DEF Begun
<1>9. Leads(Operators', <<>>, w, w, 0)
  BY LeadsNowhere
<1>10. Sound'
  BY <1>1, <1>2, <1>4, <1>9 DEF Sound
<1>. QED BY <1>6, <1>7, <1>8, <1>10 DEF Table

-----------------------------------------------------------------------------
(* What the end of a search says of the process.                            *)

Weighed == Weighted(Admissible)

\* The search for the goal has the actions as they are weighed, the relaxed one as they are.
LEMMA OperatorsAre ==
  /\ search.mode = "goal" => Operators = Weighed
  /\ search.mode # "goal" => Operators = Admissible
BY DEF Operators, Weighed, Weighted

\* There are expansions enough for every world.
Enough == Cardinality(Worlds) <= MaxExpansions

\* A world is expanded once, so the limit leaves none to expand.
LEMMA LimitOfWorlds ==
  ASSUME TypeInv, Enough, search.expansions <= Cardinality(Expanded), OpenNodes,
         NEW n \in search.open, search.best[n.world] >= n.g
  PROVE  search.expansions # MaxExpansions
<1>1. n.world \in Worlds /\ n.world \notin Expanded
  <2>1. n \in Nodes /\ n.world \in DOMAIN search.best /\ search.best[n.world] <= n.g
    BY DEF TypeInv, Types, Searches, OpenNodes
  <2>2. search.best[n.world] \in Nat /\ n.g \in Nat /\ n.world \in Worlds
    BY <2>1 DEF TypeInv, Types, Searches, Bests, Nodes
  <2>3. search.best[n.world] = n.g
    BY <2>1, <2>2
  <2>. QED BY <2>2, <2>3 DEF Expanded
<1>2. IsFiniteSet(Expanded) /\ Cardinality(Expanded) \in Nat
  BY FiniteExpanded
<1>3. Expanded \union {n.world} \in SUBSET Worlds
  BY <1>1 DEF TypeInv, Types, Searches, Bests, Expanded
<1>4. Cardinality(Expanded \union {n.world}) = Cardinality(Expanded) + 1
  BY <1>1, <1>2, FS_AddElement
<1>5. Cardinality(Expanded \union {n.world}) <= Cardinality(Worlds) /\ Cardinality(Worlds) \in Nat
  BY <1>3, WorldsFinite, FS_Subset, FS_CardinalityType
<1>. QED BY <1>2, <1>4, <1>5, BoundsAssumption DEF Enough

\* The plan that the process runs, from v to w, of admissible actions at their weights.
Weights == [a \in Admissible |-> Weight(a)]

Carries(weights, plan, v, w, c) ==
  \E ws \in [0..Len(plan) -> Worlds], cs \in [0..Len(plan) -> Nat] :
    /\ ws[0] = v /\ cs[0] = 0 /\ ws[Len(plan)] = w /\ cs[Len(plan)] = c
    /\ \A i \in 1..Len(plan) : /\ plan[i] \in DOMAIN weights /\ Satisfies(ws[i - 1], plan[i].pre)
                               /\ ws[i] = Apply(ws[i - 1], plan[i].effects) /\ cs[i] = cs[i - 1] + weights[plan[i]]

\* A plan of the search, in the actions of the agent, leads where it led, at the same cost.
LEMMA NamedCarries ==
  ASSUME agent \in Agents, NEW plan \in Seq(Actions), NEW v, NEW w, NEW c, Leads(Weighed, plan, v, w, c)
  PROVE  Carries(Weights, Named(plan), v, w, c)
<1>. DEFINE n == Len(plan)
            seq == Named(plan)
            named(i) == CHOOSE a \in agent.actions : a.name = plan[i].name
<1>0. /\ Admissible \in SUBSET agent.actions /\ Told(agent.actions)
      /\ \A b \in Weighed : \E a \in Admissible : a.name = b.name /\ a.pre = b.pre /\ a.effects = b.effects /\ Weight(a) = Cost(b)
  BY AgentActions, WeighedActions DEF Weighed
<1>1. PICK ws \in [0..n -> Worlds], cs \in [0..n -> Nat] : Follows(Weighed, plan, v, ws, cs) /\ ws[n] = w /\ cs[n] = c
  BY DEF Leads
<1>2. \A i \in 1..n : /\ plan[i] \in Weighed /\ Satisfies(ws[i - 1], plan[i].pre)
                      /\ ws[i] = Apply(ws[i - 1], plan[i].effects) /\ cs[i] = cs[i - 1] + Cost(plan[i])
  BY <1>1 DEF Follows
<1>3. n \in Nat
  OBVIOUS
<1>4. seq = [i \in 1..n |-> named(i)]
  BY DEF Named
<1>5. ASSUME NEW i \in 1..n
      PROVE  /\ named(i) \in Admissible /\ named(i).pre = plan[i].pre /\ named(i).effects = plan[i].effects
             /\ Weight(named(i)) = Cost(plan[i])
  <2>1. PICK a \in Admissible : /\ a.name = plan[i].name /\ a.pre = plan[i].pre /\ a.effects = plan[i].effects
                                /\ Weight(a) = Cost(plan[i])
    BY <1>0, <1>2
  <2>2. named(i) \in agent.actions /\ named(i).name = a.name
    BY <1>0, <2>1
  <2>3. named(i) = a
    <3>. HIDE DEF named
    <3>. QED BY <1>0, <2>1, <2>2 DEF Told
  <2>. HIDE DEF named
  <2>. QED BY <2>1, <2>3
<1>. HIDE DEF named
<1>6. Len(seq) = n /\ \A i \in 1..n : seq[i] = named(i)
  BY <1>3, <1>4
<1>. HIDE DEF seq, n
<1>7. \A i \in 1..n : /\ seq[i] \in Admissible /\ Satisfies(ws[i - 1], seq[i].pre)
                      /\ ws[i] = Apply(ws[i - 1], seq[i].effects) /\ cs[i] = cs[i - 1] + Weight(seq[i])
  BY <1>2, <1>5, <1>6
<1>weights. DOMAIN Weights = Admissible /\ \A a \in Admissible : Weights[a] = Weight(a)
  BY DEF Weights
<1>weighed. \A i \in 1..n : /\ seq[i] \in DOMAIN Weights /\ Satisfies(ws[i - 1], seq[i].pre)
                      /\ ws[i] = Apply(ws[i - 1], seq[i].effects) /\ cs[i] = cs[i - 1] + Weights[seq[i]]
  BY <1>7, <1>weights
<1>8. ws[0] = v /\ cs[0] = 0
  BY <1>1 DEF Follows
<1>9. Carries(Weights, seq, v, w, c)
  BY <1>1, <1>6, <1>weighed, <1>8 DEF Carries
<1>. QED BY <1>9 DEF seq

-----------------------------------------------------------------------------
(* What a process waits for is enough: the plan of the relaxed search, which*)
(* assumes all that others may establish, goes through from the world with  *)
(* only the conditions that it or the goal requires.                        *)

\* v holds what w does, the assumed conditions that are not relied on aside.
Spared(w, v, rest) == \A k \in DOMAIN w : Holds(v, k, w[k]) \/ <<k, w[k]>> \in rest

\* What holds in w and is not among the rest holds in v.
LEMMA SparedHolds ==
  ASSUME NEW w, NEW v, NEW rest, Spared(w, v, rest), NEW req, Satisfies(w, req), \A k \in DOMAIN req : <<k, req[k]>> \notin rest
  PROVE  Satisfies(v, req)
BY DEF Spared, Satisfies, Holds

LEMMA SparedApply ==
  ASSUME NEW w \in Worlds, NEW v \in Worlds, NEW rest, Spared(w, v, rest), NEW e \in Worlds
  PROVE  Spared(Apply(w, e), Apply(v, e), rest)
BY DEF Spared, Apply, Holds

\* What is made of a set of conditions: the value it has them at.
LEMMA MadeOf ==
  ASSUME NEW lits, NEW S, NEW e, e = [k \in S |-> <<k, TRUE>> \in lits], NEW k \in S
  PROVE  e[k] \in BOOLEAN /\ (e[k] <=> <<k, TRUE>> \in lits)
<1>1. e[k] = (<<k, TRUE>> \in lits)
  BY Zenon
<1>2. CASE <<k, TRUE>> \in lits
  BY <1>1, <1>2
<1>3. CASE <<k, TRUE>> \notin lits
  <2>1. (<<k, TRUE>> \in lits) = FALSE
    BY <1>3
  <2>2. e[k] = FALSE
    BY <1>1, <2>1, Zenon
  <2>. QED BY <1>3, <2>2
<1>. QED BY <1>2, <1>3

LEMMA SparedAssume ==
  ASSUME NEW w \in Worlds, NEW all \in SUBSET (Conditions \X BOOLEAN), NEW out \in SUBSET all
  PROVE  Spared(Assume(w, all), Assume(w, out), all \ out)
<1>. DEFINE e == [k \in {x[1] : x \in all} |-> <<k, TRUE>> \in all]
            o == [k \in {x[1] : x \in out} |-> <<k, TRUE>> \in out]
<1>1. Assume(w, all) = Apply(w, e) /\ Assume(w, out) = Apply(w, o)
  BY DEF Assume
<1>2. \A k : (k \in DOMAIN e <=> \E x \in all : x[1] = k) /\ (k \in DOMAIN o <=> \E x \in out : x[1] = k)
  OBVIOUS
<1>3. \A k \in DOMAIN e : e[k] \in BOOLEAN /\ (e[k] <=> <<k, TRUE>> \in all) /\ <<k, e[k]>> \in all
  <2>. TAKE k \in DOMAIN e
  <2>1. e[k] \in BOOLEAN /\ (e[k] <=> <<k, TRUE>> \in all)
    BY MadeOf
  <2>2. PICK x \in all : x[1] = k
    BY <1>2
  <2>3. x = <<k, x[2]>> /\ x[2] \in BOOLEAN
    BY <2>2
  <2>. HIDE DEF e
  <2>4. ASSUME e[k] = TRUE PROVE <<k, e[k]>> \in all
    BY <2>1, <2>4
  <2>5. ASSUME e[k] = FALSE PROVE <<k, e[k]>> \in all
    <3>1. x[2] # TRUE
      BY <2>1, <2>3, <2>5
    <3>2. x[2] = FALSE
      BY <2>3, <3>1
    <3>3. x = <<k, e[k]>>
      BY <2>3, <2>5, <3>2
    <3>. QED BY <2>2, <3>3
  <2>6. e[k] = TRUE \/ e[k] = FALSE
    BY <2>1
  <2>7. <<k, e[k]>> \in all
    BY <2>4, <2>5, <2>6
  <2>. QED BY <2>1, <2>7
<1>4. \A k \in DOMAIN o : o[k] \in BOOLEAN /\ (o[k] <=> <<k, TRUE>> \in out)
  <2>1. o = [k \in DOMAIN o |-> <<k, TRUE>> \in out]
    OBVIOUS
  <2>. HIDE DEF o
  <2>. TAKE k \in DOMAIN o
  <2>. QED BY <2>1, MadeOf
<1>5. ASSUME NEW k \in DOMAIN e, <<k, e[k]>> \in out PROVE k \in DOMAIN o /\ o[k] = e[k]
  <2>. DEFINE y == <<k, e[k]>>
  <2>1. y \in out /\ y[1] = k
    BY <1>5
  <2>. HIDE DEF y
  <2>2. k \in DOMAIN o
    BY <1>2, <2>1
  <2>3. e[k] \in BOOLEAN /\ o[k] \in BOOLEAN /\ (o[k] <=> <<k, TRUE>> \in out) /\ (e[k] <=> <<k, TRUE>> \in all)
    BY <1>3, <1>4, <2>2
  <2>. HIDE DEF e, o
  <2>4. CASE e[k] = TRUE
    BY <1>5, <2>2, <2>3, <2>4
  <2>5. CASE e[k] = FALSE
    BY <2>2, <2>3, <2>5
  <2>. QED BY <2>3, <2>4, <2>5
<1>6. \A k \in DOMAIN o : k \in DOMAIN e
  BY <1>2
<1>. HIDE DEF e, o
<1>7. ASSUME NEW k \in DOMAIN Apply(w, e)
      PROVE  Holds(Apply(w, o), k, Apply(w, e)[k]) \/ <<k, Apply(w, e)[k]>> \in all \ out
  <2>1. CASE k \in DOMAIN e
    <3>1. Apply(w, e)[k] = e[k]
      BY <2>1 DEF Apply
    <3>2. CASE <<k, e[k]>> \in out
      <4>1. k \in DOMAIN o /\ o[k] = e[k]
        BY <1>5, <2>1, <3>2
      <4>2. k \in DOMAIN Apply(w, o) /\ Apply(w, o)[k] = o[k]
        BY <4>1 DEF Apply
      <4>. QED BY <3>1, <4>1, <4>2 DEF Holds
    <3>3. CASE <<k, e[k]>> \notin out
      BY <1>3, <2>1, <3>1, <3>3
    <3>. QED BY <3>2, <3>3
  <2>2. CASE k \notin DOMAIN e
    <3>1. k \in DOMAIN w /\ k \notin DOMAIN o
      BY <1>6, <2>2 DEF Apply
    <3>2. Apply(w, e)[k] = w[k] /\ Apply(w, o)[k] = w[k] /\ k \in DOMAIN Apply(w, o)
      BY <2>2, <3>1 DEF Apply
    <3>. QED BY <3>2 DEF Holds
  <2>. QED BY <2>1, <2>2
<1>. QED BY <1>1, <1>7 DEF Spared

LEMMA WaitsSuffice ==
  ASSUME NEW as \in SUBSET Actions, NEW plan \in Seq(Actions), NEW w \in Worlds,
         NEW all \in SUBSET (Conditions \X BOOLEAN), NEW u, NEW c,
         Leads(as, plan, Assume(w, all), u, c), Satisfies(u, Goal)
  PROVE  ~OutOfReach(as, Assume(w, ReliedOn(all, Goal, {plan[i] : i \in 1..Len(plan)})))
<1>. DEFINE n == Len(plan)
            out == ReliedOn(all, Goal, {plan[i] : i \in 1..n})
            start == Assume(w, out)
<1>0. n \in Nat /\ out \in SUBSET all /\ out \in SUBSET (Conditions \X BOOLEAN)
  BY DEF ReliedOn
<1>1. PICK ws \in [0..n -> Worlds], cs \in [0..n -> Nat] : Follows(as, plan, Assume(w, all), ws, cs) /\ ws[n] = u
  BY DEF Leads
<1>2. /\ ws[0] = Assume(w, all)
      /\ \A i \in 1..n : plan[i] \in as /\ Satisfies(ws[i - 1], plan[i].pre) /\ ws[i] = Apply(ws[i - 1], plan[i].effects)
  BY <1>1 DEF Follows
<1>3. \A i \in 1..n : \A k \in DOMAIN plan[i].pre : <<k, plan[i].pre[k]>> \notin all \ out
  <2>. SUFFICES ASSUME NEW i \in 1..n, NEW k \in DOMAIN plan[i].pre, <<k, plan[i].pre[k]>> \in all
                PROVE  <<k, plan[i].pre[k]>> \in out
    OBVIOUS
  <2>. DEFINE x == <<k, plan[i].pre[k]>>
  <2>1. Holds(plan[i].pre, x[1], x[2]) /\ x \in all
    BY DEF Holds
  <2>2. plan[i] \in {plan[j] : j \in 1..n}
    OBVIOUS
  <2>. HIDE DEF x, n
  <2>3. x \in out
    BY <2>1, <2>2 DEF ReliedOn
  <2>. QED BY <2>3 DEF x
<1>4. \A k \in DOMAIN Goal : <<k, Goal[k]>> \notin all \ out
  <2>. SUFFICES ASSUME NEW k \in DOMAIN Goal, <<k, Goal[k]>> \in all PROVE <<k, Goal[k]>> \in out
    OBVIOUS
  <2>. DEFINE x == <<k, Goal[k]>>
  <2>1. Holds(Goal, x[1], x[2]) /\ x \in all
    BY DEF Holds
  <2>. HIDE DEF x, n
  <2>2. x \in out
    BY <2>1 DEF ReliedOn
  <2>. QED BY <2>2 DEF x
<1>5. start \in Worlds /\ Spared(ws[0], start, all \ out)
  <2>. HIDE DEF out
  <2>. QED BY <1>0, <1>2, AssumeWorld, SparedAssume
<1>6. \A i \in 1..n : plan[i] \in Actions /\ plan[i].pre \in Worlds /\ plan[i].effects \in Worlds
  BY <1>2 DEF Actions
<1>. HIDE DEF n, out, start
<1>. DEFINE On(i) == \E v \in Worlds, d \in Nat : ReachesIn(as, i, start, v, d) /\ Spared(ws[i], v, all \ out)
            N == {i \in Nat : i \in 0..n => On(i)}
<1>7. 0 \in N
  <2>1. ReachesIn(as, 0, start, start, 0)
    BY <1>5, RouteStart
  <2>. QED BY <1>5, <2>1
<1>8. ASSUME NEW i \in Nat, i \in N PROVE i + 1 \in N
  <2>0. i + 1 \in Nat
    OBVIOUS
  <2>. SUFFICES ASSUME i + 1 \in 0..n PROVE On(i + 1)
    BY <2>0
  <2>1. i \in 0..n /\ i + 1 \in 1..n /\ (i + 1) - 1 = i
    BY <1>0
  <2>. DEFINE a == plan[i + 1]
  <2>2. a \in as /\ Satisfies(ws[i], a.pre) /\ ws[i + 1] = Apply(ws[i], a.effects) /\ a.effects \in Worlds
    BY <1>2, <1>6, <2>1
  <2>3. \A k \in DOMAIN a.pre : <<k, a.pre[k]>> \notin all \ out
    BY <1>3, <2>1
  <2>. HIDE DEF a
  <2>4. PICK v \in Worlds, d \in Nat : ReachesIn(as, i, start, v, d) /\ Spared(ws[i], v, all \ out)
    BY <1>8, <2>1
  <2>5. Satisfies(v, a.pre)
    BY <2>2, <2>3, <2>4, SparedHolds
  <2>6. ReachesIn(as, i + 1, start, Apply(v, a.effects), d + Cost(a))
    BY <2>2, <2>4, <2>5, RouteStep
  <2>7. ws[i] \in Worlds
    BY <1>1, <2>1
  <2>8. Spared(ws[i + 1], Apply(v, a.effects), all \ out)
    BY <2>2, <2>4, <2>7, SparedApply
  <2>. DEFINE t == Apply(v, a.effects)
              e == d + Cost(a)
  <2>. HIDE DEF t, e
  <2>9. ReachesIn(as, i + 1, start, t, e) /\ Spared(ws[i + 1], t, all \ out)
    BY <2>6, <2>8 DEF t, e
  <2>10. t \in Worlds /\ e \in Nat
    BY <2>0, <2>9, RouteTypes
  <2>. QED BY <2>9, <2>10
<1>. HIDE DEF N
<1>9. n \in N
  BY <1>0, <1>7, <1>8, InductionOnNumbers
<1>10. On(n)
  <2>1. n \in 0..n
    BY <1>0
  <2>. QED BY <1>9, <2>1 DEF N
<1>11. PICK v \in Worlds, d \in Nat : ReachesIn(as, n, start, v, d) /\ Spared(u, v, all \ out)
  BY <1>1, <1>10
<1>12. Satisfies(v, Goal)
  BY <1>4, <1>11, SparedHolds
<1>13. ~OutOfReach(as, start)
  BY <1>0, <1>11, <1>12 DEF OutOfReach, Reaches
<1>. QED BY <1>13 DEF start, out, n

-----------------------------------------------------------------------------
(* The inductive invariant: of a search, its table; of a run that acts, the *)
(* plan it carries out; of one that is blocked, that it has no plan, and    *)
(* that it has one with what it waits for.                                  *)

Planless == Astar /\ Enough => OutOfReach(Weighed, p.world)

Searched == pc = "search" => Table /\ (search.mode = "relaxed" => Planless)

Planned ==
  pc = "act" /\ Astar =>
    \E w \in Worlds, c \in Nat :
      Carries(Weights, p.plan, p.world, w, c) /\ Satisfies(w, Goal) /\ LeastToGoal(Weighed, p.world, c)

Settled ==
  pc = "save" /\ Blocked(p.status) =>
    Planless /\ (p.status = "waiting" => ~OutOfReach(Admissible, Assume(p.world, p.waits)))

Sure == Searched /\ Planned /\ Settled

\* What the copy plans with and from is all that these read of it.
LEMMA SamePlans ==
  ASSUME agent' = agent, p'.disabled = p.disabled, p'.world = p.world
  PROVE  /\ Weighed' = Weighed /\ Admissible' = Admissible /\ Planless' = Planless /\ Astar' = Astar
         /\ Weights' = Weights
<1>1. Weighed' = Weighed /\ Admissible' = Admissible
  BY DEF Weighed, Weighted, Admissible
<1>2. Astar' = Astar
  BY DEF Astar
<1>3. \A a : Weight(a)' = Weight(a)
  BY DEF Weight, Weighted
<1>4. Weights' = Weights
  BY <1>1, <1>3, Zenon DEF Weights
<1>. QED BY <1>1, <1>2, <1>4 DEF Planless

\* Without a plan the process is stuck;
LEMMA StuckSure ==
  ASSUME TypeInv, Rest, Planless, Stuck
  PROVE  Sure'
<1>1. /\ p'.disabled = p.disabled /\ p'.world = p.world /\ p'.status = "stuck" /\ pc' = "save" /\ agent' = agent
  BY DEF Stuck, Rest, TypeInv, Types, Processes
<1>2. Planless'
  BY <1>1, SamePlans
<1>. QED BY <1>1, <1>2 DEF Sure, Searched, Planned, Settled

\* or waits for conditions with which it has one;
LEMMA WaitsSure ==
  ASSUME TypeInv, Rest, Planless, NEW lits, Waits(lits), ~OutOfReach(Admissible, Assume(p.world, lits))
  PROVE  Sure'
<1>1. /\ p'.disabled = p.disabled /\ p'.world = p.world /\ p'.status = "waiting" /\ p'.waits = lits
      /\ pc' = "save" /\ agent' = agent
  BY DEF Waits, Rest, TypeInv, Types, Processes
<1>2. Planless' /\ Admissible' = Admissible
  BY <1>1, SamePlans
<1>3. ~OutOfReach(Admissible', Assume(p'.world, p'.waits))
  BY <1>1, <1>2
<1>. QED BY <1>1, <1>2, <1>3 DEF Sure, Searched, Planned, Settled

\* or the relaxed search looks for them.
LEMMA NoPlanSure ==
  ASSUME TypeInv, pc \in {"plan", "search"}, Rest, Planless, NoPlan
  PROVE  Sure'
<1>1. CASE Stuck
  BY <1>1, StuckSure
<1>2. CASE pc' = "search" /\ search' = SearchFrom("relaxed", Assume(p.world, EstablishedElsewhere)) /\ p' = p
  <2>1. Assume(p.world, EstablishedElsewhere) \in Worlds
    <3>1. agent \in Agents /\ p.world \in Worlds
      BY ProcessFields DEF TypeInv, Types
    <3>. QED BY <3>1, ExternalConditions, AssumeWorld
  <2>2. Table'
    BY <1>2, <2>1, BeginTable DEF Rest
  <2>3. Planless'
    BY <1>2, SamePlans DEF Rest
  <2>. QED BY <1>2, <2>2, <2>3 DEF Sure, Searched, Planned, Settled
<1>. QED BY <1>1, <1>2 DEF NoPlan

LEMMA ChosenSure ==
  ASSUME TypeInv, Rest, NEW plan, Chosen(plan),
         Astar => \E w \in Worlds, c \in Nat :
                    Carries(Weights, plan, p.world, w, c) /\ Satisfies(w, Goal) /\ LeastToGoal(Weighed, p.world, c)
  PROVE  Sure'
<1>1. /\ p'.disabled = p.disabled /\ p'.world = p.world /\ p'.plan = plan /\ pc' = "act" /\ agent' = agent
  BY DEF Chosen, Rest, TypeInv, Types, Processes
<1>2. Weighed' = Weighed /\ Weights' = Weights /\ Astar' = Astar
  BY <1>1, SamePlans
<1>3. Planned'
  BY <1>1, <1>2 DEF Planned
<1>. QED BY <1>1, <1>3 DEF Sure, Searched, Settled

\* A search that ends for want of nodes, or at its limit, leaves no plan.
LEMMA ExhaustedSure ==
  ASSUME TypeInv, pc = "search", Rest, search.mode = "relaxed" => Planless, Exhausted,
         search.mode = "goal" => (Astar /\ Enough => OutOfReach(Operators, Origin))
  PROVE  Sure'
<1>1. CASE search.mode = "goal"
  <2>1. Operators = Weighed /\ Origin = p.world
    BY <1>1, OperatorsAre DEF Origin
  <2>2. Planless
    BY <1>1, <2>1 DEF Planless
  <2>. QED BY <1>1, <2>2, NoPlanSure DEF Exhausted
<1>2. CASE search.mode = "relaxed"
  BY <1>2, StuckSure DEF Exhausted
<1>. QED BY <1>1, <1>2 DEF TypeInv, Nodal

\* A search that finds its goal: its plan is a cheapest one, or tells what to wait for.
LEMMA FinishSure ==
  ASSUME TypeInv, pc = "search", Rest, OpenNodes, Table, search.mode = "relaxed" => Planless,
         NEW n \in search.open, Nearest(n), Satisfies(n.world, Goal), Finish(n)
  PROVE  Sure'
<1>0. /\ agent \in Agents /\ n.world \in Worlds /\ n.g \in Nat /\ n.plan \in Seq(Actions) /\ p.world \in Worlds
      /\ Operators \in SUBSET Actions /\ Leads(Operators, n.plan, Origin, n.world, n.g)
  <2>1. agent \in Agents /\ n \in Nodes /\ p \in Processes
    BY DEF TypeInv, Types, Searches
  <2>2. Leads(Operators, n.plan, Origin, n.world, n.g)
    BY DEF Table, Sound
  <2>. QED BY <2>1, <2>2, AgentActions, ProcessFields DEF Nodes
<1>1. CASE search.mode = "goal" /\ Chosen(Named(n.plan))
  <2>1. Operators = Weighed /\ Origin = p.world
    BY <1>1, OperatorsAre DEF Origin
  <2>2. Carries(Weights, Named(n.plan), p.world, n.world, n.g)
    BY <1>0, <2>1, NamedCarries
  <2>3. Reaches(Weighed, p.world, n.world, n.g)
    <3>1. PICK ws \in [0..Len(n.plan) -> Worlds], cs \in [0..Len(n.plan) -> Nat] :
            Follows(Operators, n.plan, Origin, ws, cs) /\ ws[Len(n.plan)] = n.world /\ cs[Len(n.plan)] = n.g
      BY <1>0 DEF Leads
    <3>2. Reaches(Operators, Origin, ws[Len(n.plan)], cs[Len(n.plan)])
      BY <1>0, <3>1, FollowsReach
    <3>. QED BY <2>1, <3>1, <3>2
  <2>4. \A w \in Worlds, d \in Nat : Reaches(Weighed, p.world, w, d) /\ Satisfies(w, Goal) => n.g <= d
    BY <2>1, NearestIsLeast DEF Table
  <2>5. LeastToGoal(Weighed, p.world, n.g)
    BY <1>0, <2>3, <2>4 DEF LeastToGoal
  <2>. QED BY <1>0, <1>1, <2>2, <2>5, ChosenSure
<1>2. CASE search.mode = "relaxed"
  <2>. DEFINE out == ReliedOn(EstablishedElsewhere, Goal, {n.plan[i] : i \in 1..Len(n.plan)})
  <2>1. IF out = {} THEN Stuck ELSE Waits(out)
    BY <1>2 DEF Finish
  <2>2. Operators = Admissible /\ Origin = Assume(p.world, EstablishedElsewhere)
    BY <1>2, OperatorsAre DEF Origin
  <2>3. EstablishedElsewhere \in SUBSET (Conditions \X BOOLEAN)
    BY <1>0, ExternalConditions
  <2>4. ~OutOfReach(Admissible, Assume(p.world, out))
    BY <1>0, <2>2, <2>3, WaitsSuffice
  <2>. HIDE DEF out
  <2>. QED BY <1>2, <2>1, <2>4, StuckSure, WaitsSure
<1>. QED BY <1>1, <1>2 DEF Finish

LEMMA SearchSure ==
  ASSUME TypeInv, Once, Sure, Search
  PROVE  Sure'
<1>0. /\ pc = "search" /\ Rest /\ OpenNodes /\ BehindOpen /\ search.expansions <= Cardinality(Expanded)
      /\ Table /\ (search.mode = "relaxed" => Planless)
  BY DEF Search, Rest, aside, Once, Sure, Searched
<1>1. ASSUME Table', UNCHANGED <<p, pc>>, search'.mode = search.mode PROVE Sure'
  <2>1. Planless' = Planless
    BY <1>0, <1>1, SamePlans DEF Rest
  <2>. QED BY <1>0, <1>1, <2>1 DEF Sure, Searched, Planned, Settled
<1>2. ASSUME search.open = {}, Exhausted PROVE Sure'
  <2>1. OutOfReach(Operators, Origin)
    BY <1>0, <1>2, NothingOpen DEF Table
  <2>. QED BY <1>0, <1>2, <2>1, ExhaustedSure
<1>3. ASSUME NEW n \in search.open, Nearest(n), Satisfies(n.world, Goal), Finish(n) PROVE Sure'
  BY <1>0, <1>3, FinishSure
<1>4. ASSUME NEW n \in search.open, search.best[n.world] < n.g, search' = [search EXCEPT !.open = @ \ {n}], UNCHANGED <<p, pc>>
      PROVE  Sure'
  <2>1. Table'
    BY <1>0, <1>4, LeaveOutKeepsTable
  <2>2. search'.mode = search.mode
    BY <1>4 DEF TypeInv, Types, Searches
  <2>. QED BY <1>1, <1>4, <2>1, <2>2
<1>5. ASSUME NEW n \in search.open, search.best[n.world] >= n.g, search.expansions = MaxExpansions, Exhausted PROVE Sure'
  <2>1. ~Enough
    BY <1>0, <1>5, LimitOfWorlds
  <2>. QED BY <1>0, <1>5, <2>1, ExhaustedSure
<1>6. ASSUME NEW n \in search.open, ~Satisfies(n.world, Goal), search.best[n.world] >= n.g,
             search.expansions # MaxExpansions, Expand(n)
      PROVE  Sure'
  <2>1. Table'
    BY <1>0, <1>6, ExpandKeepsTable
  <2>2. search'.mode = search.mode /\ UNCHANGED <<p, pc>>
    BY <1>6 DEF Expand, TypeInv, Types, Searches
  <2>. QED BY <1>1, <2>1, <2>2
<1>. QED BY <1>2, <1>3, <1>4, <1>5, <1>6 DEF Search

LEMMA PlanSure ==
  ASSUME TypeInv, Plan
  PROVE  Sure'
<1>0. pc = "plan" /\ Rest /\ agent \in Agents /\ p \in Processes /\ p.world \in Worlds
  BY ProcessFields DEF Plan, Rest, aside, TypeInv, Types
<1>1. ASSUME search' = SearchFrom("goal", p.world), pc' = "search", UNCHANGED p PROVE Sure'
  <2>1. Table'
    BY <1>0, <1>1, BeginTable DEF Rest
  <2>2. search'.mode = "goal"
    BY <1>1 DEF SearchFrom
  <2>. QED BY <1>1, <2>1, <2>2 DEF Sure, Searched, Planned, Settled
<1>2. ASSUME ~Astar, NoPlan PROVE Sure'
  BY <1>0, <1>2, NoPlanSure DEF Planless
<1>3. ASSUME ~Astar, NEW plan, Chosen(plan) PROVE Sure'
  BY <1>0, <1>3, ChosenSure
<1>4. ASSUME p' = [p EXCEPT !.status = "failed"], pc' = "save" PROVE Sure'
  <2>1. p'.status = "failed"
    BY <1>0, <1>4 DEF Processes
  <2>. QED BY <1>4, <2>1 DEF Sure, Searched, Planned, Settled, Blocked
<1>5. CASE agent.planner = "utility"
  <2>1. ~Astar
    BY <1>5 DEF Astar
  <2>. QED BY <1>2, <1>3, <1>5, <2>1 DEF Plan
<1>6. CASE agent.planner = "llm"
  <2>1. ~Astar
    BY <1>6 DEF Astar
  <2>. QED BY <1>2, <1>3, <1>4, <1>6, <2>1 DEF Plan
<1>7. CASE agent.planner \in {"goap", "hybrid"}
  BY <1>1, <1>7 DEF Plan
<1>. QED BY <1>5, <1>6, <1>7 DEF Plan

LEMMA SureStep == TypeInv /\ Once /\ Sure /\ [Next]_vars => Sure'
<1>. SUFFICES ASSUME TypeInv, Once, Sure, [Next]_vars PROVE Sure'
  OBVIOUS
<1>0. p \in Processes
  BY DEF TypeInv, Types
<1>1. ASSUME pc' \notin {"search", "act", "save"} PROVE Sure'
  BY <1>1 DEF Sure, Searched, Planned, Settled
<1>2. ASSUME pc' = "save", ~Blocked(p'.status) PROVE Sure'
  BY <1>2 DEF Sure, Searched, Planned, Settled
<1>3. CASE Take \/ GiveUp \/ Act \/ Save \/ Rerun \/ Unblock
  <2>1. pc' \notin {"search", "act", "save"}
    BY <1>3 DEF Take, GiveUp, Act, Save, Rerun, Unblock
  <2>. QED BY <1>1, <2>1
<1>4. CASE Observe
  <2>1. [p EXCEPT !.status = "failed"].status = "failed"
        /\ [p EXCEPT !.world = change, !.status = "completed", !.plan = <<>>].status = "completed"
    BY <1>0 DEF Processes
  <2>2. pc' = "plan" \/ (pc' = "save" /\ ~Blocked(p'.status))
    BY <1>4, <2>1 DEF Observe, Blocked
  <2>. QED BY <1>1, <1>2, <2>2
<1>5. CASE FinishStep
  <2>. DEFINE q == [p EXCEPT !.world = change, !.wrote = FALSE]
  <2>0. [q EXCEPT !.status = "failed"].status = "failed" /\ [p EXCEPT !.status = "failed", !.wrote = FALSE].status = "failed"
    BY <1>0 DEF Processes
  <2>1. q \in Processes /\ q.status = "running"
    BY <1>0, <1>5 DEF Processes, TypeInv, Types, Stages, FinishStep
  <2>2. \A a \in agent.actions : Failed(a, q).status = "running"
    <3>. HIDE DEF q
    <3>. QED BY <2>1, FailureCounted
  <2>3. Head(p.plan) \in agent.actions
    BY <1>0, <1>5, ProcessFields DEF FinishStep, TypeInv, Stages
  <2>4. p'.status \in {"running", "failed"} /\ pc' = "save"
    BY <1>5, <2>0, <2>1, <2>2, <2>3 DEF FinishStep
  <2>. QED BY <1>2, <2>4 DEF Blocked
<1>6. CASE Plan
  BY <1>6, PlanSure
<1>7. CASE Search
  BY <1>7, SearchSure
<1>8. CASE Others \/ Accompany \/ UNCHANGED vars
  <2>1. UNCHANGED <<agent, p, pc, search>>
    BY <1>8 DEF Others, Accompany, vars
  <2>2. /\ Weighed' = Weighed /\ Admissible' = Admissible /\ Planless' = Planless /\ Astar' = Astar
        /\ Weights' = Weights
    BY <2>1, SamePlans
  <2>3. Operators' = Operators /\ Origin' = Origin /\ Expanded' = Expanded
    BY <2>1, SameOrigin DEF Expanded
  <2>4. Table' = Table
    BY <2>1, <2>3 DEF Table, Closed, Fronted, Begun, Sound
  <2>6. Searched'
    BY <2>1, <2>2, <2>4 DEF Sure, Searched
  <2>7. Planned'
    BY <2>1, <2>2 DEF Sure, Planned
  <2>8. Settled'
    BY <2>1, <2>2 DEF Sure, Settled
  <2>. QED BY <2>6, <2>7, <2>8 DEF Sure
<1>. QED BY <1>3, <1>4, <1>5, <1>6, <1>7, <1>8 DEF Next

-----------------------------------------------------------------------------
(* The theorems.                                                            *)

\* The worlds of a plan and what it spends are those that follow from one another.
LEMMA AlongIs ==
  ASSUME NEW plan, Len(plan) \in Nat, NEW v, NEW ws \in [0..Len(plan) -> Worlds], ws[0] = v,
         \A i \in 1..Len(plan) : ws[i] = Apply(ws[i - 1], plan[i].effects)
  PROVE  \A i \in 0..Len(plan) : Along(v, plan)[i] = ws[i]
<1>. DEFINE n == Len(plan)
            rec(f) == f = [i \in 0..n |-> IF i = 0 THEN v ELSE Apply(f[i - 1], plan[i].effects)]
            at == CHOOSE f : rec(f)
<1>1. Along(v, plan) = at
  BY Zenon DEF Along
<1>2. rec(ws)
  <2>1. \A i \in 0..n : i = 0 \/ i \in 1..n
    OBVIOUS
  <2>2. \A i \in 0..n : ws[i] = IF i = 0 THEN v ELSE Apply(ws[i - 1], plan[i].effects)
    BY <2>1
  <2>3. ws = [i \in 0..n |-> ws[i]]
    OBVIOUS
  <2>. HIDE DEF n
  <2>. QED BY <2>2, <2>3
<1>3. rec(at)
  <2>. HIDE DEF rec
  <2>. QED BY <1>2, Zenon
<1>. HIDE DEF at
<1>4. \A i \in 0..n : at[i] = IF i = 0 THEN v ELSE Apply(at[i - 1], plan[i].effects)
  BY <1>3
<1>. DEFINE N == {i \in Nat : i \in 0..n => at[i] = ws[i]}
<1>5. 0 \in N
  BY <1>4
<1>6. ASSUME NEW i \in Nat, i \in N PROVE i + 1 \in N
  <2>0. i + 1 \in Nat
    OBVIOUS
  <2>. SUFFICES ASSUME i + 1 \in 0..n PROVE at[i + 1] = ws[i + 1]
    BY <2>0
  <2>1. i \in 0..n /\ i + 1 \in 1..n /\ (i + 1) - 1 = i /\ i + 1 # 0
    OBVIOUS
  <2>2. at[i + 1] = Apply(at[i], plan[i + 1].effects) /\ ws[i + 1] = Apply(ws[i], plan[i + 1].effects)
    BY <1>4, <2>1
  <2>. QED BY <1>6, <2>1, <2>2
<1>. HIDE DEF N
<1>7. \A i \in Nat : i \in N
  BY <1>5, <1>6, InductionOnNumbers
<1>. QED BY <1>1, <1>7 DEF N

LEMMA SpentIs ==
  ASSUME NEW plan, Len(plan) \in Nat, NEW cs \in [0..Len(plan) -> Nat], cs[0] = 0,
         \A i \in 1..Len(plan) : cs[i] = cs[i - 1] + Weight(plan[i])
  PROVE  Spent(plan) = cs[Len(plan)]
<1>. DEFINE n == Len(plan)
            rec(f) == f = [i \in 0..n |-> IF i = 0 THEN 0 ELSE f[i - 1] + Weight(plan[i])]
            upTo == CHOOSE f : rec(f)
<1>1. Spent(plan) = upTo[n]
  BY Zenon DEF Spent
<1>2. rec(cs)
  <2>1. \A i \in 0..n : i = 0 \/ i \in 1..n
    OBVIOUS
  <2>2. \A i \in 0..n : cs[i] = IF i = 0 THEN 0 ELSE cs[i - 1] + Weight(plan[i])
    BY <2>1
  <2>3. cs = [i \in 0..n |-> cs[i]]
    OBVIOUS
  <2>. HIDE DEF n
  <2>. QED BY <2>2, <2>3
<1>3. rec(upTo)
  <2>. HIDE DEF rec
  <2>. QED BY <1>2, Zenon
<1>. HIDE DEF upTo
<1>4. \A i \in 0..n : upTo[i] = IF i = 0 THEN 0 ELSE upTo[i - 1] + Weight(plan[i])
  BY <1>3
<1>. DEFINE N == {i \in Nat : i \in 0..n => upTo[i] = cs[i]}
<1>5. 0 \in N
  BY <1>4
<1>6. ASSUME NEW i \in Nat, i \in N PROVE i + 1 \in N
  <2>0. i + 1 \in Nat
    OBVIOUS
  <2>. SUFFICES ASSUME i + 1 \in 0..n PROVE upTo[i + 1] = cs[i + 1]
    BY <2>0
  <2>1. i \in 0..n /\ i + 1 \in 1..n /\ (i + 1) - 1 = i /\ i + 1 # 0
    OBVIOUS
  <2>2. upTo[i + 1] = upTo[i] + Weight(plan[i + 1]) /\ cs[i + 1] = cs[i] + Weight(plan[i + 1])
    BY <1>4, <2>1
  <2>. QED BY <1>6, <2>1, <2>2
<1>. HIDE DEF N
<1>7. n \in N
  BY <1>5, <1>6, InductionOnNumbers
<1>8. n \in 0..n
  OBVIOUS
<1>. QED BY <1>1, <1>7, <1>8 DEF N

LEMMA PlannedCheapest == TypeInv /\ Planned => CheapestPlan
<1>. SUFFICES ASSUME TypeInv, Planned, pc = "act", Astar
              PROVE  /\ \A i \in 1..Len(p.plan) : p.plan[i] \in Admissible /\ Satisfies(Along(p.world, p.plan)[i - 1], p.plan[i].pre)
                     /\ Satisfies(Along(p.world, p.plan)[Len(p.plan)], Goal)
                     /\ Spent(p.plan) = LeastCost(Weighted(Admissible), Goal, p.world)
  BY DEF CheapestPlan
<1>. DEFINE plan == p.plan
            n == Len(plan)
            at == Along(p.world, plan)
<1>0. agent \in Agents /\ p.world \in Worlds /\ n \in Nat
  <2>1. agent \in Agents /\ p \in Processes
    BY DEF TypeInv, Types
  <2>2. plan \in Seq(agent.actions) /\ p.world \in Worlds
    BY <2>1, ProcessFields
  <2>. QED BY <2>1, <2>2
<1>1. PICK w \in Worlds, c \in Nat :
        Carries(Weights, plan, p.world, w, c) /\ Satisfies(w, Goal) /\ LeastToGoal(Weighed, p.world, c)
  BY DEF Planned
<1>2. PICK ws \in [0..n -> Worlds], cs \in [0..n -> Nat] :
        /\ ws[0] = p.world /\ cs[0] = 0 /\ ws[n] = w /\ cs[n] = c
        /\ \A i \in 1..n : /\ plan[i] \in DOMAIN Weights /\ Satisfies(ws[i - 1], plan[i].pre)
                           /\ ws[i] = Apply(ws[i - 1], plan[i].effects) /\ cs[i] = cs[i - 1] + Weights[plan[i]]
  BY <1>1 DEF Carries
<1>3. \A i \in 1..n : plan[i] \in Admissible /\ cs[i] = cs[i - 1] + Weight(plan[i])
  BY <1>2 DEF Weights
<1>. HIDE DEF plan
<1>4. \A i \in 0..n : at[i] = ws[i]
  BY <1>0, <1>2, AlongIs
<1>5. Spent(plan) = c
  BY <1>0, <1>2, <1>3, SpentIs
<1>6. LeastCost(Weighed, Goal, p.world) = c
  <2>1. Weighed \in SUBSET Actions
    BY <1>0, AgentActions, WeighedActions DEF Weighed
  <2>. QED BY <1>0, <1>1, <2>1, LeastCostIs
<1>7. \A i \in 1..n : plan[i] \in Admissible /\ Satisfies(at[i - 1], plan[i].pre)
  <2>1. \A i \in 1..n : i - 1 \in 0..n
    BY <1>0
  <2>. HIDE DEF n, at
  <2>. QED BY <1>2, <1>3, <1>4, <2>1
<1>8. Satisfies(at[n], Goal)
  <2>1. n \in 0..n
    BY <1>0
  <2>. QED BY <1>1, <1>2, <1>4, <2>1
<1>. QED BY <1>5, <1>6, <1>7, <1>8 DEF plan, Weighed

LEMMA SettledForGood == TypeInv /\ Settled => (Enough => BlockedForGood)
<1>. SUFFICES ASSUME TypeInv, Settled, Enough, pc = "save", Blocked(p.status)
              PROVE  /\ Astar => LeastCost(Weighted(Admissible), Goal, p.world) = -1
                     /\ p.status = "waiting" => LeastCost(Admissible, Goal, Assume(p.world, p.waits)) >= 0
  BY DEF BlockedForGood
<1>0. agent \in Agents /\ p.world \in Worlds /\ p.waits \in SUBSET (Conditions \X BOOLEAN)
  BY ProcessFields DEF TypeInv, Types
<1>1. Weighed \in SUBSET Actions /\ Admissible \in SUBSET Actions
  BY <1>0, AgentActions, WeighedActions DEF Weighed
<1>2. ASSUME Astar PROVE LeastCost(Weighed, Goal, p.world) = -1
  <2>1. OutOfReach(Weighed, p.world)
    BY <1>2 DEF Settled, Planless
  <2>. QED BY <1>0, <1>1, <2>1, LeastCostIs
<1>3. ASSUME p.status = "waiting" PROVE LeastCost(Admissible, Goal, Assume(p.world, p.waits)) >= 0
  <2>1. ~OutOfReach(Admissible, Assume(p.world, p.waits))
    BY <1>3 DEF Settled
  <2>2. Assume(p.world, p.waits) \in Worlds
    BY <1>0, AssumeWorld
  <2>. QED BY <1>1, <2>1, <2>2, LeastCostIs
<1>. QED BY <1>2, <1>3 DEF Weighed

LEMMA SureInvariant == Spec => [](TypeInv /\ Once /\ Sure)
<1>1. Init => TypeInv /\ Once /\ Sure
  <2>1. Init => Once /\ Sure
    BY DEF Init, Once, Sure, Searched, Planned, Settled
  <2>. QED BY <2>1, TypeInit
<1>2. TypeInv /\ Once /\ Sure /\ [Next]_vars => (TypeInv /\ Once /\ Sure)'
  BY TypeStep, OnceStep, SureStep
<1>. QED BY <1>1, <1>2, PTL DEF Spec

\* The action that a process runs opens a cheapest plan from the world it observed to the goal, whatever the
\* actions, their costs and their utilities (Planner.Plan, reweightPlan).
THEOREM PlansCheapest == Spec => []CheapestPlan
<1>1. TypeInv /\ Once /\ Sure => CheapestPlan
  BY PlannedCheapest DEF Sure
<1>. QED BY <1>1, SureInvariant, PTL

\* With expansions enough for every world, a process that stops for want of a plan has none, and one that waits has
\* one with the conditions it names and no other (settleNoPlan, awaited).
THEOREM StopsForGood == Spec => [](Enough => BlockedForGood)
<1>1. TypeInv /\ Once /\ Sure => (Enough => BlockedForGood)
  BY SettledForGood DEF Sure
<1>. QED BY <1>1, SureInvariant, PTL

\* What a process waits for is enough in any case: the limit of the expansions only makes it stuck.
WaitsEnough ==
  pc = "save" /\ p.status = "waiting" => LeastCost(Admissible, Goal, Assume(p.world, p.waits)) >= 0

THEOREM WaitsForEnough == Spec => []WaitsEnough
<1>1. TypeInv /\ Once /\ Sure => WaitsEnough
  <2>. SUFFICES ASSUME TypeInv, Settled, pc = "save", p.status = "waiting"
                PROVE  LeastCost(Admissible, Goal, Assume(p.world, p.waits)) >= 0
    BY DEF Sure, WaitsEnough
  <2>1. agent \in Agents /\ p.world \in Worlds /\ p.waits \in SUBSET (Conditions \X BOOLEAN)
    BY ProcessFields DEF TypeInv, Types
  <2>2. ~OutOfReach(Admissible, Assume(p.world, p.waits))
    BY DEF Settled, Blocked
  <2>3. Assume(p.world, p.waits) \in Worlds /\ Admissible \in SUBSET Actions
    BY <2>1, AssumeWorld, AgentActions
  <2>. QED BY <2>2, <2>3, LeastCostIs
<1>. QED BY <1>1, SureInvariant, PTL
=============================================================================
