------------------------- MODULE ChangeMerge_proofs -------------------------
\* Proofs about the changes and their merges into main, for any changes, nodes,
\* values and bounds: the types, and that a branch holds main up to its position.
EXTENDS ChangeMerge, FiniteSetTheorems, SequenceTheorems, WellFoundedInduction, TLAPS

\* @s is the store as a transaction sees it, @m what main took, @w a change.
OkStore(s) ==
    /\ s \in [Nodes -> Seq(Version)]
    /\ \A n \in Nodes : Len(s[n]) \in 1..MaxVersions[n]
OkMain(m, s) ==
    /\ m \in Seq([Nodes -> SUBSET Nat])
    /\ Len(m) \in 1..(MaxMerges + 1)
    /\ \A n \in Nodes : m[1][n] # {}
    /\ \A i \in 1..Len(m), n \in Nodes : m[i][n] \subseteq 1..Len(s[n])
Works == [open : BOOLEAN, fork : Nat, held : [Nodes -> SUBSET Nat], draft : [Nodes -> Draft]]
OkDraft(s, n, d) ==
    /\ d = NoDraft \/ d.base \in 1..Len(s[n])
    /\ d.with \in 0..Len(s[n])
Shape(m, s, w) ==
    /\ w \in Works /\ w.fork \in 1..Len(m)
    /\ \A n \in Nodes : w.held[n] \subseteq 1..Len(s[n]) /\ OkDraft(s, n, w.draft[n])

\* What a branch holds and main does not was written by its change.
Taken(m, n, v) == \E i \in 1..Len(m) : v \in m[i][n]
OwnWork(m, s, c, w) ==
    \A n \in Nodes : \A v \in w.held[n] : Taken(m, n, v) \/ s[n][v].by = c

\* A branch that holds something of an order of main holds all of the orders
\* from its fork to that one.
Touches(m, w, j) == \E n \in Nodes : m[j][n] \cap w.held[n] # {}
HoldsOrder(m, w, i) == \A n \in Nodes : m[i][n] \subseteq w.held[n]
Whole(m, w) ==
    \A i, j \in 1..Len(m) : w.fork < i /\ i <= j /\ Touches(m, w, j) => HoldsOrder(m, w, i)
HoldsTo(m, w, k) == \A i \in 1..k : w.fork < i => HoldsOrder(m, w, i)

OkWork(m, s, c, w) == Shape(m, s, w) /\ OwnWork(m, s, c, w) /\ Whole(m, w)

Merges == [at : {"rebased", "checked"}, wrote : [Nodes -> Seq(Version)], work : Works,
           head : Nat, ok : BOOLEAN, moves : SUBSET Nodes]
\* A merge that found main where its branch may go holds main up to there.
OkMerge(c) ==
    /\ change[c].open /\ tx[c] \in Merges
    /\ OkStore(Seen(c)) /\ OkWork(main, Seen(c), c, tx[c].work)
    /\ tx[c].at = "checked" => tx[c].head \in 1..Len(main)
    /\ tx[c].at = "checked" /\ tx[c].ok => HoldsTo(main, tx[c].work, tx[c].head)

\* Two merges in flight never number versions of one node.
Numbering(c, n) == tx[c] # NoTx /\ tx[c].wrote[n] # <<>>
Apart == \A c, d \in Changes, n \in Nodes : Numbering(c, n) /\ Numbering(d, n) => c = d

Inv ==
    /\ OkStore(store) /\ OkMain(main, store)
    /\ change \in [Changes -> Works] /\ DOMAIN tx = Changes /\ tx = [c \in Changes |-> tx[c]]
    /\ \A c \in Changes : OkWork(main, store, c, change[c])
    /\ \A c \in Changes : tx[c] # NoTx => OkMerge(c)
    /\ Apart
-----------------------------------------------------------------------------
\* The greatest of a set of numbers.

LEMMA MaxOf ==
    ASSUME NEW S \in SUBSET Nat, IsFiniteSet(S), S # {}
    PROVE  Max(S) \in S /\ \A x \in S : x <= Max(S)
<1> DEFINE Above(i) == {h \in S : h > i}
           Aboves == {Above(i) : i \in S}
<1>1. Aboves \subseteq FiniteSubsetsOf(S) /\ Aboves # {}
    <2>1. Aboves \subseteq SUBSET S /\ Aboves # {}
        OBVIOUS
    <2> HIDE DEF Aboves
    <2> QED BY <2>1, FS_FiniteSubsetsOfFinite
<1>2. PICK b \in Aboves : \A c \in Aboves : <<c, b>> \notin StrictSubsetOrdering(S)
    <2>1. IsWellFoundedOn(StrictSubsetOrdering(S), FiniteSubsetsOf(S))
        BY FS_StrictSubsetOrderingWellFounded
    <2> HIDE DEF Aboves
    <2> QED BY <1>1, <2>1, WFMin
<1>3. PICK i \in S : b = Above(i)
    OBVIOUS
<1>4. \A h \in S : h <= i
    <2> SUFFICES ASSUME NEW h \in S, h > i PROVE FALSE
        OBVIOUS
    <2>1. /\ \A g \in Above(h) : g \in S /\ g > i
          /\ h \in Above(i) /\ h \notin Above(h)
        OBVIOUS
    <2>2. <<Above(h), Above(i)>> \in StrictSubsetOrdering(S)
        BY <2>1 DEF StrictSubsetOrdering
    <2> QED BY <1>2, <1>3, <2>2
<1> QED BY <1>4 DEF Max

LEMMA MaxBelow ==
    ASSUME NEW k \in Nat, NEW S \in SUBSET (1..k), S # {}
    PROVE  Max(S) \in S /\ Max(S) \in 1..k /\ \A x \in S : x <= Max(S)
<1>1. IsFiniteSet(1..k)
    BY FS_Interval
<1>2. IsFiniteSet(S)
    BY <1>1, FS_Subset
<1>3. S \in SUBSET Nat
    OBVIOUS
<1>4. Max(S) \in S /\ \A x \in S : x <= Max(S)
    BY <1>2, <1>3, MaxOf
<1> QED BY <1>4

LEMMA NumbersOf == \A n \in Nodes : 1..MaxVersions[n] \subseteq Numbers
<1> SUFFICES ASSUME NEW n \in Nodes PROVE 1..MaxVersions[n] \subseteq Numbers
    OBVIOUS
<1> DEFINE T == {MaxVersions[k] : k \in Nodes}
<1>1. MaxVersions \in Surjection(Nodes, T)
    BY ChangeMergeAssumption DEF Surjection
<1>2. IsFiniteSet(T)
    BY <1>1, FS_Surjection, ChangeMergeAssumption
<1>3. T \subseteq Nat /\ T # {} /\ MaxVersions[n] \in T
    BY ChangeMergeAssumption
<1>4. Max(T) \in Nat /\ MaxVersions[n] <= Max(T)
    BY <1>2, <1>3, MaxOf
<1> QED BY <1>3, <1>4 DEF Numbers

LEMMA VersionIsNumber ==
    ASSUME NEW s, OkStore(s), NEW n \in Nodes
    PROVE  1..Len(s[n]) \subseteq Numbers
<1>1. Len(s[n]) \in 1..MaxVersions[n] /\ MaxVersions[n] \in Nat
    BY ChangeMergeAssumption DEF OkStore
<1>2. 1..Len(s[n]) \subseteq 1..MaxVersions[n]
    BY <1>1
<1> QED BY <1>2, NumbersOf
-----------------------------------------------------------------------------
\* What is read is a version of the store.

LEMMA MainOrders ==
    ASSUME NEW s, OkMain(main, s)
    PROVE  /\ DOMAIN main = 1..Len(main) /\ Len(main) \in Nat \ {0}
           /\ \A i \in 1..Len(main) : main[i] \in [Nodes -> SUBSET Nat]
BY DEF OkMain

LEMMA Reads ==
    ASSUME NEW s, NEW w, NEW n \in Nodes, OkStore(s), OkMain(main, s), Shape(main, s, w)
    PROVE  MainVersion(n) \in 1..Len(s[n]) /\ Mine(w, n) \in 1..Len(s[n])
<1> DEFINE k == Len(s[n])
           F == UNION {main[i][n] : i \in 1..w.fork}
<1>1. k \in Nat /\ Len(main) \in Nat \ {0} /\ w.fork \in 1..Len(main) /\ DOMAIN main = 1..Len(main)
    BY MainOrders DEF OkStore, Shape
<1>2. \A i \in 1..Len(main) : main[i][n] \subseteq 1..k
    BY DEF OkMain
<1>3. main[1][n] # {}
    BY DEF OkMain
<1> HIDE DEF k
<1>4. InMain(n) \subseteq 1..k /\ InMain(n) # {}
    BY <1>1, <1>2, <1>3 DEF InMain
<1>5. F \subseteq 1..k /\ F # {}
    BY <1>1, <1>2, <1>3
<1>6. w.held[n] \subseteq 1..k
    BY DEF Shape, k
<1>7. MainVersion(n) \in 1..k
    BY <1>1, <1>4, MaxBelow DEF MainVersion
<1>8. ForkVersion(w, n) \in 1..k
    BY <1>1, <1>5, MaxBelow DEF ForkVersion
<1>9. Mine(w, n) \in 1..k
    BY <1>1, <1>6, <1>8, MaxBelow DEF Mine, Greatest
<1> QED BY <1>7, <1>9 DEF k

LEMMA PositionOf ==
    ASSUME NEW s, NEW w, OkMain(main, s), Shape(main, s, w)
    PROVE  /\ Position(w) \in w.fork..Len(main)
           /\ Position(w) = w.fork \/ Touches(main, w, Position(w))
           /\ \A j \in 1..Len(main) : Touches(main, w, j) => j <= Position(w)
<1> DEFINE P == {i \in DOMAIN main : \E n \in Nodes : main[i][n] \cap w.held[n] # {}}
           S == {w.fork} \cup P
<1>1. Len(main) \in Nat \ {0} /\ DOMAIN main = 1..Len(main) /\ w.fork \in 1..Len(main)
    BY MainOrders DEF Shape
<1>2. P = {i \in 1..Len(main) : Touches(main, w, i)}
    BY <1>1 DEF Touches
<1> HIDE DEF P
<1>3. S \in SUBSET (1..Len(main)) /\ S # {}
    BY <1>1, <1>2
<1>4. Position(w) = Max(S)
    BY DEF Position, P
<1> HIDE DEF S
<1>5. Max(S) \in S /\ Max(S) \in 1..Len(main) /\ \A x \in S : x <= Max(S)
    BY <1>1, <1>3, MaxBelow
<1> USE DEF S
<1>6. w.fork <= Max(S)
    BY <1>5
<1>7. \A j \in 1..Len(main) : Touches(main, w, j) => j <= Max(S)
    BY <1>5, <1>2
<1>8. Max(S) = w.fork \/ Touches(main, w, Max(S))
    BY <1>5, <1>2
<1> HIDE DEF S
<1> QED BY <1>1, <1>4, <1>5, <1>6, <1>7, <1>8

LEMMA HoldsToPosition ==
    ASSUME NEW s, NEW w, OkMain(main, s), Shape(main, s, w), Whole(main, w)
    PROVE  HoldsTo(main, w, Position(w))
<1>1. Position(w) \in 1..Len(main) /\ w.fork \in Nat /\ Len(main) \in Nat
    BY PositionOf, MainOrders DEF Shape
<1>2. ASSUME NEW i \in 1..Position(w), w.fork < i
      PROVE  HoldsOrder(main, w, i)
    <2>1. Touches(main, w, Position(w))
        BY <1>1, <1>2, PositionOf
    <2>2. i \in 1..Len(main) /\ i <= Position(w)
        BY <1>1
    <2> QED BY <1>1, <1>2, <2>1, <2>2 DEF Whole
<1> QED BY <1>2 DEF HoldsTo
-----------------------------------------------------------------------------
\* What the operations of a change make of its branch.

LEMMA TakeKeeps ==
    ASSUME NEW s, NEW c, NEW w, OkStore(s), OkMain(main, s), OkWork(main, s, c, w)
    PROVE  /\ OkWork(main, s, c, Take(w)) /\ HoldsTo(main, Take(w), Len(main))
           /\ Take(w).draft = w.draft
<1> DEFINE more(n) == UNION {main[i][n] : i \in (Position(w) + 1)..Len(main)}
           t == [w EXCEPT !.held = [n \in Nodes |-> @[n] \cup more(n)]]
<1>1. Take(w) = t
    BY DEF Take
<1>2. /\ Len(main) \in Nat \ {0} /\ w.fork \in 1..Len(main) /\ Position(w) \in 1..Len(main)
      /\ w.held \in [Nodes -> SUBSET Nat]
    BY MainOrders, PositionOf DEF OkWork, Shape, Works
<1>3. \A n \in Nodes : Len(s[n]) \in Nat /\ \A i \in 1..Len(main) : main[i][n] \subseteq 1..Len(s[n])
    BY DEF OkMain, OkStore
<1>4. \A n \in Nodes : more(n) \subseteq 1..Len(s[n]) /\ \A v \in more(n) : Taken(main, n, v)
    BY <1>2, <1>3 DEF Taken
<1>5. \A n \in Nodes : \A i \in 1..Len(main) : i > Position(w) => main[i][n] \subseteq more(n)
    BY <1>2
<1> HIDE DEF more
<1>6. t \in Works /\ t.fork = w.fork /\ t.draft = w.draft
    <2>1. [n \in Nodes |-> w.held[n] \cup more(n)] \in [Nodes -> SUBSET Nat]
        BY <1>2, <1>3, <1>4
    <2> QED BY <2>1 DEF OkWork, Shape, Works
<1>7. \A n \in Nodes : t.held[n] = w.held[n] \cup more(n)
    BY DEF OkWork, Shape, Works
<1> HIDE DEF t
<1>8. Shape(main, s, t)
    BY <1>4, <1>6, <1>7 DEF OkWork, Shape
<1>9. OwnWork(main, s, c, t)
    BY <1>4, <1>7 DEF OkWork, OwnWork
<1>10. HoldsTo(main, t, Len(main))
    <2> SUFFICES ASSUME NEW i \in 1..Len(main), w.fork < i, NEW n \in Nodes
                 PROVE  main[i][n] \subseteq t.held[n]
        BY <1>6 DEF HoldsTo, HoldsOrder
    <2>1. CASE i > Position(w)
        BY <2>1, <1>5, <1>7
    <2>2. CASE ~(i > Position(w))
        <3>1. i \in 1..Position(w)
            BY <1>2, <2>2
        <3>2. main[i][n] \subseteq w.held[n]
            BY <3>1, HoldsToPosition DEF OkWork, HoldsTo, HoldsOrder
        <3> QED BY <3>2, <1>7
    <2> QED BY <2>1, <2>2
<1>11. Whole(main, t)
    BY <1>10 DEF Whole, HoldsTo
<1> QED BY <1>1, <1>6, <1>8, <1>9, <1>10, <1>11 DEF OkWork

LEMMA FinishedKeeps ==
    ASSUME NEW s, NEW c, NEW w, OkStore(s), OkMain(main, s), OkWork(main, s, c, w)
    PROVE  OkWork(main, s, c, Finished(w)) /\ HoldsTo(main, Finished(w), Len(main))
<1>1. CASE Moved(w)
    BY <1>1, TakeKeeps DEF Finished
<1>2. CASE ~Moved(w)
    <2>1. Position(w) \in 1..Len(main) /\ Len(main) \in Nat
        <3>1. Shape(main, s, w) /\ w.fork \in 1..Len(main) /\ Len(main) \in Nat
            BY MainOrders DEF OkWork, Shape
        <3>2. Position(w) \in w.fork..Len(main)
            BY <3>1, PositionOf
        <3> QED BY <3>1, <3>2
    <2>2. Position(w) = Len(main)
        BY <1>2, <2>1 DEF Moved
    <2> QED BY <1>2, <2>2, HoldsToPosition DEF Finished, OkWork
<1> QED BY <1>1, <1>2

\* The versions the branch holds are what they were; only its drafts differ.
LEMMA DraftsKeep ==
    ASSUME NEW s, NEW c, NEW w, OkWork(main, s, c, w),
           NEW ds \in [Nodes -> Draft], \A n \in Nodes : OkDraft(s, n, ds[n])
    PROVE  OkWork(main, s, c, [w EXCEPT !.draft = ds])
<1> DEFINE t == [w EXCEPT !.draft = ds]
<1>1. t \in Works /\ t.fork = w.fork /\ t.held = w.held /\ t.draft = ds
    BY DEF OkWork, Shape, Works
<1> HIDE DEF t
<1>2. Shape(main, s, t)
    BY <1>1 DEF OkWork, Shape
<1>3. OwnWork(main, s, c, t) /\ Whole(main, t)
    BY <1>1 DEF OkWork, OwnWork, Whole, Touches, HoldsOrder
<1> QED BY <1>2, <1>3 DEF OkWork, t

LEMMA NoDraftIsOne == NoDraft \in Draft /\ \A s, n : OkStore(s) /\ n \in Nodes => OkDraft(s, n, NoDraft)
<1>1. NoDraft \in Draft
    BY ChangeMergeAssumption DEF NoDraft, Draft
<1>2. NoDraft.with = 0
    BY DEF NoDraft
<1>3. \A s, n : OkStore(s) /\ n \in Nodes => Len(s[n]) \in Nat
    BY DEF OkStore
<1> QED BY <1>1, <1>2, <1>3 DEF OkDraft

LEMMA MergeIsDraft ==
    ASSUME NEW base \in Numbers \cup {0}, NEW with \in Numbers \cup {0}, NEW from,
           NEW ours \in [Props -> Values], NEW theirs \in [Props -> Values]
    PROVE  MergeOf(base, with, from, ours, theirs) \in Draft
<1>1. Merged(from, ours, theirs) \in [Props -> Values]
    BY DEF Merged
<1>2. Conflicts(from, ours, theirs) \in SUBSET Props
    BY DEF Conflicts
<1> QED BY <1>1, <1>2 DEF MergeOf, Draft

LEMMA StoredProps ==
    ASSUME NEW s, OkStore(s), NEW n \in Nodes, NEW v \in 1..Len(s[n])
    PROVE  s[n][v] \in Version /\ s[n][v].props \in [Props -> Values] /\ v \in Numbers
<1>1. s[n] \in Seq(Version)
    BY DEF OkStore
<1>2. s[n][v] \in Version
    BY <1>1, ElementOfSeq
<1>3. v \in Numbers
    BY VersionIsNumber
<1> QED BY <1>2, <1>3 DEF Version

LEMMA MergesKeep ==
    ASSUME NEW s, NEW c, NEW w, OkStore(s), OkMain(main, s), OkWork(main, s, c, w)
    PROVE  /\ OkWork(main, s, c, WithMerges(s, w))
           /\ \A n \in ToMerge(s, w) : n \in Nodes /\ WithMerges(s, w).draft[n].base # 0
<1> DEFINE ds == [n \in Nodes |-> IF n \in ToMerge(s, w) THEN MergedNode(s, w, n) ELSE w.draft[n]]
<1>1. /\ OkWork(main, s, c, Take(w)) /\ Take(w).draft = w.draft /\ w.draft \in [Nodes -> Draft]
      /\ \A n \in Nodes : OkDraft(s, n, w.draft[n])
    BY TakeKeeps DEF OkWork, Shape, Works
<1>2. \A n \in Nodes : /\ MergedNode(s, w, n) \in Draft /\ OkDraft(s, n, MergedNode(s, w, n))
                       /\ MergedNode(s, w, n).base # 0
    <2> SUFFICES ASSUME NEW n \in Nodes
                 PROVE  /\ MergedNode(s, w, n) \in Draft /\ OkDraft(s, n, MergedNode(s, w, n))
                        /\ MergedNode(s, w, n).base # 0
        OBVIOUS
    <2>1. MainVersion(n) \in 1..Len(s[n]) /\ Mine(w, n) \in 1..Len(s[n]) /\ Len(s[n]) \in Nat
        BY Reads DEF OkWork, OkStore
    <2>2. MergedNode(s, w, n) \in Draft
        BY <2>1, StoredProps, MergeIsDraft DEF MergedNode
    <2>3. MergedNode(s, w, n).base = Mine(w, n) /\ MergedNode(s, w, n).with = MainVersion(n)
        BY DEF MergedNode, MergeOf
    <2> QED BY <2>1, <2>2, <2>3 DEF OkDraft
<1>3. ds \in [Nodes -> Draft] /\ \A n \in Nodes : OkDraft(s, n, ds[n])
    BY <1>1, <1>2
<1>4. WithMerges(s, w) = [Take(w) EXCEPT !.draft = ds]
    BY <1>1 DEF WithMerges
<1>5. WithMerges(s, w).draft = ds
    BY <1>1, <1>4 DEF OkWork, Shape, Works
<1>6. ToMerge(s, w) \subseteq Nodes
    BY DEF ToMerge, BothChanged, BranchNodes
<1>7. \A n \in ToMerge(s, w) : ds[n] = MergedNode(s, w, n)
    BY <1>6
<1> HIDE DEF ds
<1>8. OkWork(main, s, c, WithMerges(s, w))
    BY <1>1, <1>3, <1>4, DraftsKeep
<1> QED BY <1>2, <1>5, <1>6, <1>7, <1>8

LEMMA RebaseDraftsKeep ==
    ASSUME NEW s, NEW c, NEW w, NEW ns, OkStore(s), OkMain(main, s), OkWork(main, s, c, w)
    PROVE  OkWork(main, s, c, RebaseDrafts(s, c, w, ns))
<1> DEFINE f == Follow(s, c, w)
           ds == [n \in Nodes |-> IF n \in ns /\ Behind(s, c, w, n) THEN RebasedDraft(s, w, n) ELSE w.draft[n]]
<1>1. OkWork(main, s, c, f) /\ f.draft = w.draft
    BY TakeKeeps DEF Follow
<1>2. w.draft \in [Nodes -> Draft] /\ \A n \in Nodes : OkDraft(s, n, w.draft[n])
    BY DEF OkWork, Shape, Works
<1>3. \A n \in Nodes : RebasedDraft(s, w, n) \in Draft /\ OkDraft(s, n, RebasedDraft(s, w, n))
    <2> SUFFICES ASSUME NEW n \in Nodes
                 PROVE  RebasedDraft(s, w, n) \in Draft /\ OkDraft(s, n, RebasedDraft(s, w, n))
        OBVIOUS
    <2>1. MainVersion(n) \in 1..Len(s[n]) /\ Len(s[n]) \in Nat
        <3>1. Shape(main, s, w)
            BY DEF OkWork
        <3>2. MainVersion(n) \in 1..Len(s[n])
            BY <3>1, Reads
        <3> QED BY <3>2 DEF OkStore
    <2>2. w.draft[n].props \in [Props -> Values]
        BY <1>2 DEF Draft
    <2>3. RebasedDraft(s, w, n) \in Draft
        BY <2>1, <2>2, StoredProps, MergeIsDraft DEF RebasedDraft
    <2>4. RebasedDraft(s, w, n).base = MainVersion(n) /\ RebasedDraft(s, w, n).with = 0
        BY DEF RebasedDraft, MergeOf
    <2> QED BY <2>1, <2>3, <2>4 DEF OkDraft
<1>4. ds \in [Nodes -> Draft] /\ \A n \in Nodes : OkDraft(s, n, ds[n])
    BY <1>2, <1>3
<1>5. RebaseDrafts(s, c, w, ns) = [f EXCEPT !.draft = ds]
    BY <1>1 DEF RebaseDrafts
<1> HIDE DEF ds, f
<1> QED BY <1>1, <1>4, <1>5, DraftsKeep
-----------------------------------------------------------------------------
\* Writing versions: a store only grows.

Grows(s, t) ==
    \A n \in Nodes : Len(s[n]) <= Len(t[n]) /\ \A v \in 1..Len(s[n]) : t[n][v] = s[n][v]

LEMMA GrownWork ==
    ASSUME NEW m, NEW s, NEW t, NEW c, NEW w, OkStore(s), OkStore(t), Grows(s, t), OkWork(m, s, c, w)
    PROVE  OkWork(m, t, c, w)
<1>1. \A n \in Nodes : Len(s[n]) \in Nat /\ Len(t[n]) \in Nat /\ Len(s[n]) <= Len(t[n])
    BY DEF OkStore, Grows
<1>2. \A n \in Nodes : 1..Len(s[n]) \subseteq 1..Len(t[n])
    BY <1>1
<1>3. \A n \in Nodes : OkDraft(s, n, w.draft[n]) => OkDraft(t, n, w.draft[n])
    BY <1>1 DEF OkDraft
<1>4. Shape(m, t, w)
    BY <1>2, <1>3 DEF OkWork, Shape
<1>5. OwnWork(m, t, c, w)
    <2>1. \A n \in Nodes : \A v \in w.held[n] : t[n][v] = s[n][v]
        BY DEF OkWork, Shape, Grows
    <2> QED BY <2>1 DEF OkWork, OwnWork
<1> QED BY <1>4, <1>5 DEF OkWork

LEMMA GrownMain ==
    ASSUME NEW m, NEW s, NEW t, OkStore(s), OkStore(t), Grows(s, t), OkMain(m, s)
    PROVE  OkMain(m, t)
<1>1. \A n \in Nodes : Len(s[n]) \in Nat /\ Len(t[n]) \in Nat /\ Len(s[n]) <= Len(t[n])
    BY DEF OkStore, Grows
<1>2. \A n \in Nodes : 1..Len(s[n]) \subseteq 1..Len(t[n])
    BY <1>1
<1> QED BY <1>2 DEF OkMain

LEMMA WriteKeeps ==
    ASSUME NEW s, NEW c \in Changes, NEW w, NEW ns, OkStore(s), OkMain(main, s), OkWork(main, s, c, w),
           Bounded(Write(s, c, w, ns))
    PROVE  LET t == Write(s, c, w, ns)
           IN  OkStore(t) /\ Grows(s, t) /\ OkWork(main, t, c, Wrote(s, w, ns))
<1> DEFINE t == Write(s, c, w, ns)
           u == Wrote(s, w, ns)
           ver(n) == VersionOf(c, w.draft[n])
           more(n) == IF n \in ns THEN {Len(s[n]) + 1} ELSE {}
<1>1. /\ w \in Works /\ w.draft \in [Nodes -> Draft] /\ w.held \in [Nodes -> SUBSET Nat]
      /\ \A n \in Nodes : s[n] \in Seq(Version) /\ Len(s[n]) \in Nat /\ Len(s[n]) # 0
    BY DEF OkWork, Shape, Works, OkStore
<1>2. \A n \in Nodes : ver(n) \in Version /\ ver(n).by = c
    BY <1>1 DEF VersionOf, Version, Draft, Author
<1>3. \A n \in Nodes : t[n] = IF n \in ns THEN Append(s[n], ver(n)) ELSE s[n]
    BY DEF Write
<1>4. t = [n \in Nodes |-> t[n]]
    BY DEF Write
<1> HIDE DEF t, ver
<1>5. \A n \in Nodes : /\ t[n] \in Seq(Version)
                       /\ Len(t[n]) = IF n \in ns THEN Len(s[n]) + 1 ELSE Len(s[n])
                       /\ \A v \in 1..Len(s[n]) : t[n][v] = s[n][v]
                       /\ n \in ns => t[n][Len(s[n]) + 1] = ver(n)
    <2> SUFFICES ASSUME NEW n \in Nodes
                 PROVE  /\ t[n] \in Seq(Version)
                        /\ Len(t[n]) = IF n \in ns THEN Len(s[n]) + 1 ELSE Len(s[n])
                        /\ \A v \in 1..Len(s[n]) : t[n][v] = s[n][v]
                        /\ n \in ns => t[n][Len(s[n]) + 1] = ver(n)
        OBVIOUS
    <2>1. CASE n \in ns
        <3>1. t[n] = Append(s[n], ver(n)) /\ s[n] \in Seq(Version) /\ ver(n) \in Version
            BY <1>1, <1>2, <1>3, <2>1
        <3> QED BY <3>1, <2>1
    <2>2. CASE n \notin ns
        BY <1>1, <1>3, <2>2
    <2> QED BY <2>1, <2>2
<1>6. OkStore(t)
    <2>1. \A n \in Nodes : Len(t[n]) <= MaxVersions[n] /\ MaxVersions[n] \in Nat
        BY ChangeMergeAssumption DEF Bounded, t
    <2>2. \A n \in Nodes : Len(t[n]) \in 1..MaxVersions[n]
        BY <1>1, <1>5, <2>1
    <2>3. t \in [Nodes -> Seq(Version)]
        BY <1>4, <1>5
    <2> QED BY <2>2, <2>3 DEF OkStore
<1>7. Grows(s, t)
    BY <1>1, <1>5 DEF Grows
<1>8. OkWork(main, t, c, w)
    BY <1>6, <1>7, GrownWork
<1>9. /\ u \in Works /\ u.fork = w.fork
      /\ \A n \in Nodes : u.held[n] = w.held[n] \cup more(n)
      /\ \A n \in Nodes : u.draft[n] = IF n \in ns THEN NoDraft ELSE w.draft[n]
    <2> DEFINE ds == [n \in Nodes |-> IF n \in ns THEN NoDraft ELSE w.draft[n]]
               hs == [n \in Nodes |-> IF n \in ns THEN w.held[n] \cup {Len(s[n]) + 1} ELSE w.held[n]]
    <2>1. u = [w EXCEPT !.draft = ds, !.held = hs]
        BY <1>1 DEF Wrote
    <2>2. ds \in [Nodes -> Draft] /\ hs \in [Nodes -> SUBSET Nat]
        BY <1>1, NoDraftIsOne
    <2>3. /\ \A n \in Nodes : hs[n] = w.held[n] \cup more(n)
          /\ \A n \in Nodes : ds[n] = IF n \in ns THEN NoDraft ELSE w.draft[n]
        OBVIOUS
    <2> HIDE DEF ds, hs, u
    <2>4. u \in Works /\ u.fork = w.fork /\ u.held = hs /\ u.draft = ds
        BY <1>1, <2>1, <2>2 DEF Works
    <2> QED BY <2>3, <2>4
<1> HIDE DEF u
<1>10. Shape(main, t, u)
    <2>1. w.fork \in 1..Len(main) /\ \A n \in Nodes : w.held[n] \subseteq 1..Len(t[n]) /\ OkDraft(t, n, w.draft[n])
        BY <1>8 DEF OkWork, Shape
    <2>2. \A n \in Nodes : more(n) \subseteq 1..Len(t[n])
        BY <1>1, <1>5
    <2>3. \A n \in Nodes : OkDraft(t, n, u.draft[n])
        BY <1>6, <1>9, <2>1, NoDraftIsOne
    <2> QED BY <1>9, <2>1, <2>2, <2>3 DEF Shape
<1>11. OwnWork(main, t, c, u)
    <2>1. \A n \in Nodes : \A v \in more(n) : t[n][v].by = c
        BY <1>2, <1>5
    <2> QED BY <1>8, <1>9, <2>1 DEF OkWork, OwnWork
<1>12. Whole(main, u)
    <2>1. \A j \in 1..Len(main) : Touches(main, u, j) => Touches(main, w, j)
        <3> SUFFICES ASSUME NEW j \in 1..Len(main), NEW n \in Nodes, main[j][n] \cap u.held[n] # {}
                     PROVE  main[j][n] \cap w.held[n] # {}
            BY DEF Touches
        <3>1. main[j][n] \subseteq 1..Len(s[n])
            BY DEF OkMain
        <3>2. main[j][n] \cap more(n) = {}
            BY <1>1, <3>1
        <3> QED BY <1>9, <3>2
    <2>2. \A i \in 1..Len(main) : HoldsOrder(main, w, i) => HoldsOrder(main, u, i)
        BY <1>9 DEF HoldsOrder
    <2> QED BY <1>8, <1>9, <2>1, <2>2 DEF OkWork, Whole
<1> QED BY <1>6, <1>7, <1>10, <1>11, <1>12 DEF OkWork, t, u

LEMMA RebasedKeeps ==
    ASSUME NEW s, NEW c \in Changes, NEW w, NEW merging, OkStore(s), OkMain(main, s), OkWork(main, s, c, w),
           Bounded(RebaseWrites(s, c, w))
    PROVE  LET t == RebaseWrites(s, c, w)
           IN  OkStore(t) /\ Grows(s, t) /\ OkWork(main, t, c, Rebased(s, c, w, merging))
<1> DEFINE v == WithMerges(s, w)
           t == RebaseWrites(s, c, w)
<1>0. OkWork(main, s, c, v)
    BY MergesKeep
<1>1. \A x : Grows(x, x) <=> \A n \in Nodes : Len(x[n]) <= Len(x[n])
    BY DEF Grows
<1>2. Grows(s, s)
    BY <1>1 DEF OkStore
<1>3. CASE Moved(w) /\ InConflict(s, w) = {}
    <2>1. t = Write(s, c, v, ToMerge(s, w))
        BY <1>3 DEF RebaseWrites
    <2>2. OkStore(t) /\ Grows(s, t) /\ OkWork(main, t, c, Wrote(s, v, ToMerge(s, w)))
        BY <1>0, <2>1, WriteKeeps
    <2>3. OkWork(main, t, c, w)
        BY <2>2, GrownWork
    <2>4. Rebased(s, c, w, merging) \in {w, Wrote(s, v, ToMerge(s, w))}
        BY <1>3 DEF Rebased
    <2> QED BY <2>2, <2>3, <2>4
<1>4. CASE ~(Moved(w) /\ InConflict(s, w) = {})
    <2>1. t = s
        BY <1>4 DEF RebaseWrites
    <2>2. Rebased(s, c, w, merging) \in {w, v}
        BY <1>4 DEF Rebased
    <2> QED BY <1>0, <1>2, <2>1, <2>2
<1> QED BY <1>3, <1>4
-----------------------------------------------------------------------------
\* What a merge in flight sees, and what the others write meanwhile.

LEMMA SeenOf ==
    ASSUME Inv, NEW c \in Changes
    PROVE  /\ OkStore(Seen(c)) /\ Grows(store, Seen(c))
           /\ tx[c] = NoTx => Seen(c) = store
           /\ tx[c] # NoTx =>
                \A n \in Nodes : /\ Seen(c)[n] = store[n] \o tx[c].wrote[n]
                                 /\ tx[c].wrote[n] \in Seq(Version)
                                 /\ tx[c].wrote[n] = <<>> => Seen(c)[n] = store[n]
<1>1. \A n \in Nodes : store[n] \in Seq(Version) /\ Len(store[n]) \in Nat
    BY DEF Inv, OkStore
<1>2. CASE tx[c] = NoTx
    <2>1. Seen(c) = store
        BY <1>2 DEF Seen, Inv, OkStore
    <2> QED BY <1>1, <1>2, <2>1 DEF Grows, Inv
<1>3. CASE tx[c] # NoTx
    <2>1. OkStore(Seen(c)) /\ \A n \in Nodes : tx[c].wrote[n] \in Seq(Version)
        BY <1>3 DEF Inv, OkMerge, Merges
    <2>2. \A n \in Nodes : Seen(c)[n] = store[n] \o tx[c].wrote[n]
        BY <1>3 DEF Seen
    <2>3. \A n \in Nodes : /\ Len(store[n]) <= Len(Seen(c)[n])
                           /\ \A v \in 1..Len(store[n]) : Seen(c)[n][v] = store[n][v]
        <3> SUFFICES ASSUME NEW n \in Nodes
                     PROVE  /\ Len(store[n]) <= Len(Seen(c)[n])
                            /\ \A v \in 1..Len(store[n]) : Seen(c)[n][v] = store[n][v]
            OBVIOUS
        <3> DEFINE a == store[n]
                   b == tx[c].wrote[n]
        <3>1. a \in Seq(Version) /\ b \in Seq(Version) /\ Seen(c)[n] = a \o b
            BY <1>1, <2>1, <2>2
        <3> HIDE DEF a, b
        <3>2. /\ Len(a \o b) = Len(a) + Len(b) /\ Len(a) \in Nat /\ Len(b) \in Nat
              /\ \A v \in 1..Len(a) : (a \o b)[v] = a[v]
            BY <3>1, ConcatProperties
        <3> QED BY <3>1, <3>2 DEF a
    <2>4. \A n \in Nodes : tx[c].wrote[n] = <<>> => Seen(c)[n] = store[n]
        BY <1>1, <2>2, ConcatEmptySeq
    <2> QED BY <1>3, <2>1, <2>2, <2>3, <2>4 DEF Grows
<1> QED BY <1>2, <1>3

\* What a transaction wrote over the store gives back what it saw.
LEMMA WrittenOf ==
    ASSUME NEW s, OkStore(store), OkStore(s), Grows(store, s)
    PROVE  /\ Written(s) \in [Nodes -> Seq(Version)]
           /\ \A n \in Nodes : /\ store[n] \o Written(s)[n] = s[n]
                               /\ s[n] = store[n] => Written(s)[n] = <<>>
<1>1. \A n \in Nodes : /\ store[n] \in Seq(Version) /\ s[n] \in Seq(Version)
                       /\ Len(store[n]) \in Nat /\ Len(s[n]) \in Nat /\ Len(store[n]) <= Len(s[n])
                       /\ \A v \in 1..Len(store[n]) : s[n][v] = store[n][v]
    BY DEF OkStore, Grows
<1>2. \A n \in Nodes : Written(s)[n] = SubSeq(s[n], Len(store[n]) + 1, Len(s[n]))
    BY DEF Written
<1>3. \A n \in Nodes : /\ Written(s)[n] \in Seq(Version)
                       /\ store[n] \o Written(s)[n] = s[n]
                       /\ s[n] = store[n] => Written(s)[n] = <<>>
    <2> SUFFICES ASSUME NEW n \in Nodes
                 PROVE  /\ Written(s)[n] \in Seq(Version)
                        /\ store[n] \o Written(s)[n] = s[n]
                        /\ s[n] = store[n] => Written(s)[n] = <<>>
        OBVIOUS
    <2> DEFINE a == store[n]
               b == s[n]
               r == SubSeq(b, Len(a) + 1, Len(b))
    <2>1. /\ a \in Seq(Version) /\ b \in Seq(Version)
          /\ Len(a) \in Nat /\ Len(b) \in Nat /\ Len(a) <= Len(b)
          /\ \A v \in 1..Len(a) : b[v] = a[v]
        BY <1>1
    <2>2. Written(s)[n] = r
        BY <1>2
    <2> HIDE DEF a, b
    <2>3. \A i \in (Len(a) + 1)..Len(b) : b[i] \in Version
        BY <2>1, ElementOfSeq
    <2>4. /\ r \in Seq(Version)
          /\ Len(r) = IF Len(a) + 1 <= Len(b) THEN Len(b) - (Len(a) + 1) + 1 ELSE 0
          /\ \A i \in 1..(Len(b) - (Len(a) + 1) + 1) : r[i] = b[Len(a) + 1 + i - 1]
        BY <2>1, <2>3, SubSeqProperties
    <2> HIDE DEF r
    <2>5. Len(r) = Len(b) - Len(a) /\ \A i \in 1..Len(r) : r[i] = b[Len(a) + i]
        BY <2>1, <2>4
    <2>6. /\ a \o r \in Seq(Version) /\ Len(a \o r) = Len(a) + Len(r)
          /\ \A i \in 1..(Len(a) + Len(r)) : (a \o r)[i] = IF i <= Len(a) THEN a[i] ELSE r[i - Len(a)]
        BY <2>1, <2>4, ConcatProperties
    <2>7. \A i \in 1..Len(b) : (a \o r)[i] = b[i]
        <3> SUFFICES ASSUME NEW i \in 1..Len(b) PROVE (a \o r)[i] = b[i]
            OBVIOUS
        <3>1. CASE i <= Len(a)
            BY <2>1, <2>5, <2>6, <3>1
        <3>2. CASE ~(i <= Len(a))
            <4>1. i - Len(a) \in 1..Len(r) /\ Len(a) + (i - Len(a)) = i
                BY <2>1, <2>5, <3>2
            <4>2. r[i - Len(a)] = b[i]
                BY <2>5, <4>1
            <4> QED BY <2>1, <2>5, <2>6, <3>2, <4>2
        <3> QED BY <3>1, <3>2
    <2>8. a \o r = b
        <3>1. Len(a \o r) = Len(b)
            BY <2>1, <2>5, <2>6
        <3> QED BY <2>1, <2>6, <2>7, <3>1, SeqEqual
    <2>9. b = a => r = <<>>
        BY <2>1, <2>4, <2>5, EmptySeq
    <2> QED BY <2>2, <2>4, <2>8, <2>9 DEF a, b
<1>4. Written(s) = [n \in Nodes |-> Written(s)[n]]
    BY DEF Written
<1> QED BY <1>3, <1>4

\* A write of the nodes another merge does not number is laid under what that
\* merge wrote.
Under(s, d) == [n \in Nodes |-> s[n] \o tx[d].wrote[n]]

LEMMA UnderGrows ==
    ASSUME Inv, NEW s, OkStore(s), Grows(store, s), NEW d \in Changes, tx[d] # NoTx,
           \A n \in Nodes : Numbering(d, n) => s[n] = store[n]
    PROVE  OkStore(Under(s, d)) /\ Grows(Seen(d), Under(s, d))
<1>1. \A n \in Nodes : Under(s, d)[n] \in {s[n], Seen(d)[n]}
    <2> SUFFICES ASSUME NEW n \in Nodes PROVE Under(s, d)[n] \in {s[n], Seen(d)[n]}
        OBVIOUS
    <2>1. Under(s, d)[n] = s[n] \o tx[d].wrote[n]
        BY DEF Under
    <2>2. CASE tx[d].wrote[n] = <<>>
        <3>1. s[n] \in Seq(Version)
            BY DEF OkStore
        <3> QED BY <2>1, <2>2, <3>1, ConcatEmptySeq
    <2>3. CASE tx[d].wrote[n] # <<>>
        <3>1. s[n] = store[n]
            BY <2>3 DEF Numbering
        <3> QED BY <2>1, <3>1, SeenOf
    <2> QED BY <2>2, <2>3
<1>2. \A n \in Nodes : tx[d].wrote[n] = <<>> => Seen(d)[n] = store[n]
    BY SeenOf
<1>3. \A n \in Nodes : Under(s, d)[n] = s[n] => Seen(d)[n] = store[n] \/ Under(s, d)[n] = Seen(d)[n]
    <2> SUFFICES ASSUME NEW n \in Nodes, Seen(d)[n] # store[n]
                 PROVE  Under(s, d)[n] = Seen(d)[n]
        OBVIOUS
    <2>1. s[n] = store[n]
        BY <1>2 DEF Numbering
    <2> QED BY <2>1, SeenOf DEF Under
<1>4. OkStore(Seen(d))
    BY SeenOf
<1>5. Under(s, d) = [n \in Nodes |-> Under(s, d)[n]]
    BY DEF Under
<1>6. OkStore(Under(s, d))
    BY <1>1, <1>4, <1>5 DEF OkStore
<1>7. Grows(Seen(d), Under(s, d))
    <2> SUFFICES ASSUME NEW n \in Nodes
                 PROVE  /\ Len(Seen(d)[n]) <= Len(Under(s, d)[n])
                        /\ \A v \in 1..Len(Seen(d)[n]) : Under(s, d)[n][v] = Seen(d)[n][v]
        BY DEF Grows
    <2>1. CASE Under(s, d)[n] = Seen(d)[n]
        BY <1>4, <2>1 DEF OkStore
    <2>2. CASE Under(s, d)[n] = s[n] /\ Seen(d)[n] = store[n]
        BY <2>2 DEF Grows
    <2> QED BY <1>1, <1>3, <2>1, <2>2
<1> QED BY <1>6, <1>7
-----------------------------------------------------------------------------
\* A merge lands: main has one order more, of what one branch alone holds.

LEMMA InMainIsTaken ==
    ASSUME NEW s, OkMain(main, s), NEW n \in Nodes, NEW v
    PROVE  v \in InMain(n) <=> Taken(main, n, v)
BY MainOrders DEF InMain, Taken

\* No branch but its own holds what a change has not merged.
LEMMA NotShared ==
    ASSUME Inv, NEW c \in Changes, NEW s, OkStore(s), Grows(store, s),
           \A e \in Changes, n \in Nodes : e # c /\ Numbering(e, n) => s[n] = store[n],
           NEW w, OkWork(main, s, c, w), NEW d \in Changes \ {c}, NEW n \in Nodes
    PROVE  /\ (w.held[n] \ InMain(n)) \cap change[d].held[n] = {}
           /\ tx[d] # NoTx => (w.held[n] \ InMain(n)) \cap tx[d].work.held[n] = {}
<1> SUFFICES ASSUME NEW v \in w.held[n], ~Taken(main, n, v)
             PROVE  /\ v \notin change[d].held[n]
                    /\ tx[d] # NoTx => v \notin tx[d].work.held[n]
    BY InMainIsTaken DEF Inv
<1>1. s[n][v].by = c /\ v \in 1..Len(s[n])
    BY DEF OkWork, OwnWork, Shape
<1>2. v \in 1..Len(store[n]) => s[n][v] = store[n][v]
    BY DEF Grows
<1>3. v \notin change[d].held[n]
    <2> SUFFICES ASSUME v \in change[d].held[n] PROVE FALSE
        OBVIOUS
    <2>1. OkWork(main, store, d, change[d])
        BY DEF Inv
    <2>2. v \in 1..Len(store[n]) /\ store[n][v].by = d
        BY <2>1 DEF OkWork, OwnWork, Shape
    <2> QED BY <1>1, <1>2, <2>2
<1>4. ASSUME tx[d] # NoTx, v \in tx[d].work.held[n] PROVE FALSE
    <2>1. OkWork(main, Seen(d), d, tx[d].work)
        BY <1>4 DEF Inv, OkMerge
    <2>2. v \in 1..Len(Seen(d)[n]) /\ Seen(d)[n][v].by = d
        BY <1>4, <2>1 DEF OkWork, OwnWork, Shape
    <2>3. CASE tx[d].wrote[n] = <<>>
        <3>1. Seen(d)[n] = store[n]
            BY <1>4, <2>3, SeenOf
        <3> QED BY <1>1, <1>2, <2>2, <3>1
    <2>4. CASE tx[d].wrote[n] # <<>>
        <3>1. s[n] = store[n]
            BY <1>4, <2>4 DEF Numbering
        <3>2. Grows(store, Seen(d))
            BY SeenOf
        <3>3. Seen(d)[n][v] = store[n][v]
            BY <1>1, <3>1, <3>2 DEF Grows
        <3> QED BY <1>1, <2>2, <3>1, <3>3
    <2> QED BY <2>3, <2>4
<1> QED BY <1>3, <1>4

LEMMA LongerMain ==
    ASSUME NEW s, OkStore(s), OkMain(main, s), Len(main) <= MaxMerges,
           NEW e \in [Nodes -> SUBSET Nat], \A n \in Nodes : e[n] \subseteq 1..Len(s[n])
    PROVE  LET m == Append(main, e)
           IN  /\ OkMain(m, s)
               /\ Len(m) = Len(main) + 1 /\ m[Len(main) + 1] = e
               /\ \A i \in 1..Len(main) : m[i] = main[i]
<1> DEFINE m == Append(main, e)
<1>1. main \in Seq([Nodes -> SUBSET Nat]) /\ Len(main) \in Nat /\ Len(main) >= 1
    BY DEF OkMain
<1>2. /\ m \in Seq([Nodes -> SUBSET Nat]) /\ Len(m) = Len(main) + 1 /\ m[Len(main) + 1] = e
      /\ \A i \in 1..Len(main) : m[i] = main[i]
    BY <1>1
<1> HIDE DEF m
<1>3. Len(m) \in 1..(MaxMerges + 1)
    BY <1>1, <1>2, ChangeMergeAssumption
<1>4. \A n \in Nodes : m[1][n] # {}
    BY <1>1, <1>2 DEF OkMain
<1>5. \A i \in 1..Len(m), n \in Nodes : m[i][n] \subseteq 1..Len(s[n])
    <2> SUFFICES ASSUME NEW i \in 1..Len(m), NEW n \in Nodes PROVE m[i][n] \subseteq 1..Len(s[n])
        OBVIOUS
    <2>1. CASE i = Len(main) + 1
        BY <1>2, <2>1
    <2>2. CASE i # Len(main) + 1
        <3>1. i \in 1..Len(main)
            BY <1>1, <1>2, <2>2
        <3> QED BY <1>2, <3>1 DEF OkMain
    <2> QED BY <2>1, <2>2
<1> QED BY <1>2, <1>3, <1>4, <1>5 DEF OkMain, m

\* The branch of another change, which holds nothing of the new order.
LEMMA OthersLand ==
    ASSUME NEW s, NEW d, NEW u, OkStore(s), OkMain(main, s), OkWork(main, s, d, u), Len(main) <= MaxMerges,
           NEW e \in [Nodes -> SUBSET Nat], \A n \in Nodes : e[n] \subseteq 1..Len(s[n]),
           \A n \in Nodes : e[n] \cap u.held[n] = {}
    PROVE  OkWork(Append(main, e), s, d, u)
<1> DEFINE m == Append(main, e)
<1>1. /\ Len(main) \in Nat /\ Len(m) = Len(main) + 1 /\ m[Len(main) + 1] = e
      /\ \A i \in 1..Len(main) : m[i] = main[i]
    BY LongerMain, MainOrders
<1> HIDE DEF m
<1>2. Shape(m, s, u)
    BY <1>1 DEF OkWork, Shape
<1>3. OwnWork(m, s, d, u)
    <2>1. \A n \in Nodes : \A v : Taken(main, n, v) => Taken(m, n, v)
        BY <1>1 DEF Taken
    <2> QED BY <2>1 DEF OkWork, OwnWork
<1>4. Whole(m, u)
    <2> SUFFICES ASSUME NEW i \in 1..Len(m), NEW j \in 1..Len(m), u.fork < i, i <= j, Touches(m, u, j)
                 PROVE  HoldsOrder(m, u, i)
        BY DEF Whole
    <2>1. j # Len(main) + 1
        BY <1>1 DEF Touches
    <2>2. i \in 1..Len(main) /\ j \in 1..Len(main)
        BY <1>1, <2>1
    <2>3. Touches(main, u, j)
        BY <1>1, <2>2 DEF Touches
    <2>4. HoldsOrder(main, u, i)
        BY <2>2, <2>3 DEF OkWork, Whole
    <2> QED BY <1>1, <2>2, <2>4 DEF HoldsOrder
<1> QED BY <1>2, <1>3, <1>4 DEF OkWork, m

\* The branch that lands, which holds all that main took since its fork.
LEMMA OwnLands ==
    ASSUME NEW s, NEW c, NEW w, OkStore(s), OkMain(main, s), OkWork(main, s, c, w), Len(main) <= MaxMerges,
           HoldsTo(main, w, Len(main)),
           NEW e \in [Nodes -> SUBSET Nat], \A n \in Nodes : e[n] \subseteq w.held[n]
    PROVE  OkWork(Append(main, e), s, c, w)
<1> DEFINE m == Append(main, e)
<1>0. \A n \in Nodes : e[n] \subseteq 1..Len(s[n])
    BY DEF OkWork, Shape
<1>1. /\ Len(main) \in Nat /\ Len(m) = Len(main) + 1 /\ m[Len(main) + 1] = e
      /\ \A i \in 1..Len(main) : m[i] = main[i]
    BY <1>0, LongerMain, MainOrders
<1> HIDE DEF m
<1>2. Shape(m, s, w)
    BY <1>1 DEF OkWork, Shape
<1>3. OwnWork(m, s, c, w)
    <2>1. \A n \in Nodes : \A v : Taken(main, n, v) => Taken(m, n, v)
        BY <1>1 DEF Taken
    <2> QED BY <2>1 DEF OkWork, OwnWork
<1>4. Whole(m, w)
    <2> SUFFICES ASSUME NEW i \in 1..Len(m), w.fork < i PROVE HoldsOrder(m, w, i)
        BY DEF Whole
    <2>1. CASE i = Len(main) + 1
        BY <1>1, <2>1 DEF HoldsOrder
    <2>2. CASE i # Len(main) + 1
        <3>1. i \in 1..Len(main)
            BY <1>1, <2>2
        <3>2. HoldsOrder(main, w, i)
            BY <3>1 DEF HoldsTo
        <3> QED BY <1>1, <3>1, <3>2 DEF HoldsOrder
    <2> QED BY <2>1, <2>2
<1> QED BY <1>2, <1>3, <1>4 DEF OkWork, m
-----------------------------------------------------------------------------
\* What a transaction of a change may write keeps the invariant.

\* What main took it keeps.
Prolongs(m) == Len(main) <= Len(m) /\ \A i \in 1..Len(main) : m[i] = main[i]
MayWrite(c, s) == \A d \in Changes, n \in Nodes : d # c /\ Numbering(d, n) => s[n] = store[n]

LEMMA TransactionKeeps ==
    ASSUME Inv, NEW c \in Changes, NEW s, OkStore(s), Grows(store, s), MayWrite(c, s),
           NEW m, OkMain(m, s), Prolongs(m),
           NEW w, OkWork(m, s, c, w),
           \A d \in Changes \ {c} : OkWork(m, s, d, change[d]),
           \A d \in Changes \ {c} : tx[d] # NoTx => OkWork(m, Under(s, d), d, tx[d].work),
           store' = s, main' = m, change' = [change EXCEPT ![c] = w], tx' = [tx EXCEPT ![c] = NoTx]
    PROVE  Inv'
<1>1. /\ change \in [Changes -> Works] /\ DOMAIN tx = Changes
      /\ tx'[c] = NoTx /\ \A d \in Changes \ {c} : tx'[d] = tx[d]
      /\ change'[c] = w /\ \A d \in Changes \ {c} : change'[d] = change[d]
      /\ DOMAIN tx' = Changes /\ tx' = [d \in Changes |-> tx'[d]]
    BY DEF Inv
<1>2. w \in Works
    BY DEF OkWork, Shape
<1>3. change' \in [Changes -> Works]
    BY <1>1, <1>2
<1>4. \A d \in Changes : OkWork(main', store', d, change'[d])
    BY <1>1
<1>5. ASSUME NEW d \in Changes, tx'[d] # NoTx PROVE OkMerge(d)'
    <2>1. d # c /\ tx'[d] = tx[d] /\ tx[d] # NoTx
        BY <1>1, <1>5
    <2>2. OkMerge(d)
        BY <2>1 DEF Inv
    <2>3. Seen(d)' = Under(s, d)
        BY <2>1 DEF Seen, Under
    <2>4. OkStore(Under(s, d))
        BY <2>1, UnderGrows DEF MayWrite
    <2>5. OkWork(m, Under(s, d), d, tx[d].work)
        BY <2>1
    <2>6. tx[d].at = "checked" => tx[d].head \in 1..Len(main) /\ tx[d].head \in 1..Len(m)
        <3>1. Len(main) \in Nat /\ Len(m) \in Nat /\ Len(main) <= Len(m)
            BY DEF Inv, OkMain, Prolongs
        <3> QED BY <2>2, <3>1 DEF OkMerge
    <2>7. tx[d].at = "checked" /\ tx[d].ok => HoldsTo(m, tx[d].work, tx[d].head)
        <3> SUFFICES ASSUME tx[d].at = "checked", tx[d].ok, NEW i \in 1..tx[d].head, tx[d].work.fork < i
                     PROVE  HoldsOrder(m, tx[d].work, i)
            BY DEF HoldsTo
        <3>1. i \in 1..Len(main)
            <4>1. tx[d].head \in 1..Len(main) /\ Len(main) \in Nat
                BY <2>6 DEF Inv, OkMain
            <4> QED BY <4>1
        <3>2. HoldsOrder(main, tx[d].work, i)
            BY <2>2 DEF OkMerge, HoldsTo
        <3> QED BY <3>1, <3>2 DEF HoldsOrder, Prolongs
    <2>8. tx[d] \in Merges
        BY <2>2 DEF OkMerge
    <2>9. change[d].open /\ change'[d] = change[d]
        BY <1>1, <2>1, <2>2 DEF OkMerge
    <2> QED BY <2>1, <2>3, <2>4, <2>5, <2>6, <2>7, <2>8, <2>9 DEF OkMerge
<1>6. Apart'
    <2>1. \A d \in Changes, n \in Nodes : Numbering(d, n)' => Numbering(d, n)
        BY <1>1 DEF Numbering
    <2> QED BY <2>1 DEF Inv, Apart
<1> QED BY <1>1, <1>3, <1>4, <1>5, <1>6 DEF Inv

LEMMA ChangeKeeps ==
    ASSUME Inv, NEW c \in Changes, NEW s, OkStore(s), Grows(store, s), MayWrite(c, s),
           NEW w, OkWork(main, s, c, w),
           store' = s, main' = main, change' = [change EXCEPT ![c] = w], tx' = [tx EXCEPT ![c] = NoTx]
    PROVE  Inv'
<1>1. OkStore(store) /\ OkMain(main, s) /\ Len(main) \in Nat
    BY GrownMain, MainOrders DEF Inv
<1>2. \A d \in Changes : OkWork(main, s, d, change[d])
    BY <1>1, GrownWork DEF Inv
<1>3. ASSUME NEW d \in Changes \ {c}, tx[d] # NoTx
      PROVE  OkWork(main, Under(s, d), d, tx[d].work)
    <2>1. OkStore(Under(s, d)) /\ Grows(Seen(d), Under(s, d))
        BY <1>3, UnderGrows DEF MayWrite
    <2>2. OkStore(Seen(d)) /\ OkWork(main, Seen(d), d, tx[d].work)
        BY <1>3 DEF Inv, OkMerge
    <2> QED BY <2>1, <2>2, GrownWork
<1>4. Prolongs(main)
    BY <1>1 DEF Prolongs
<1> QED BY <1>1, <1>2, <1>3, <1>4, TransactionKeeps

LEMMA LandKeeps ==
    ASSUME Inv, NEW c \in Changes, NEW s, OkStore(s), Grows(store, s), MayWrite(c, s),
           NEW w, OkWork(main, s, c, w), HoldsTo(main, w, Len(main)), NEW ns, Land(c, s, w, ns)
    PROVE  Inv'
<1> DEFINE e == [n \in Nodes |-> w.held[n] \ InMain(n)]
           m == Append(main, e)
<1>1. OkStore(store) /\ OkMain(main, s) /\ Len(main) \in Nat \ {0}
    BY GrownMain, MainOrders DEF Inv
<1>2. Len(main) <= MaxMerges /\ main' = m /\ store' = s
      /\ change' = [change EXCEPT ![c] = w] /\ tx' = [tx EXCEPT ![c] = NoTx]
    BY DEF Land
<1>3. e \in [Nodes -> SUBSET Nat] /\ \A n \in Nodes : e[n] = w.held[n] \ InMain(n)
    BY DEF OkWork, Shape, Works
<1> HIDE DEF e
<1>4. \A n \in Nodes : e[n] \subseteq 1..Len(s[n]) /\ e[n] \subseteq w.held[n]
    BY <1>3 DEF OkWork, Shape
<1>5. OkMain(m, s) /\ Len(m) = Len(main) + 1 /\ \A i \in 1..Len(main) : m[i] = main[i]
    BY <1>1, <1>2, <1>3, <1>4, LongerMain
<1>6. OkWork(m, s, c, w)
    BY <1>1, <1>2, <1>3, <1>4, OwnLands
<1>7. ASSUME NEW d \in Changes \ {c} PROVE OkWork(m, s, d, change[d])
    <2>1. OkWork(main, s, d, change[d])
        BY <1>1, GrownWork DEF Inv
    <2>2. \A n \in Nodes : e[n] \cap change[d].held[n] = {}
        BY <1>3, NotShared DEF MayWrite
    <2> QED BY <1>1, <1>2, <1>3, <1>4, <2>1, <2>2, OthersLand
<1>8. ASSUME NEW d \in Changes \ {c}, tx[d] # NoTx
      PROVE  OkWork(m, Under(s, d), d, tx[d].work)
    <2> DEFINE u == Under(s, d)
    <2>1. OkStore(u) /\ Grows(Seen(d), u)
        BY <1>8, UnderGrows DEF MayWrite
    <2>2. OkStore(Seen(d)) /\ OkWork(main, Seen(d), d, tx[d].work)
        BY <1>8 DEF Inv, OkMerge
    <2>3. OkWork(main, u, d, tx[d].work)
        BY <2>1, <2>2, GrownWork
    <2>4. \A n \in Nodes : e[n] \cap tx[d].work.held[n] = {}
        BY <1>3, <1>8, NotShared DEF MayWrite
    <2>5. \A n \in Nodes : 1..Len(s[n]) \subseteq 1..Len(u[n])
        <3> SUFFICES ASSUME NEW n \in Nodes PROVE 1..Len(s[n]) \subseteq 1..Len(u[n])
            OBVIOUS
        <3>1. s[n] \in Seq(Version) /\ tx[d].wrote[n] \in Seq(Version) /\ u[n] = s[n] \o tx[d].wrote[n]
            BY <1>8, SeenOf DEF OkStore, Under
        <3> DEFINE a == s[n]
                   b == tx[d].wrote[n]
        <3> HIDE DEF a, b, u
        <3>2. a \in Seq(Version) /\ b \in Seq(Version) /\ u[n] = a \o b
            BY <3>1 DEF a, b
        <3>3. Len(u[n]) = Len(a) + Len(b) /\ Len(a) \in Nat /\ Len(b) \in Nat
            BY <3>2, ConcatProperties
        <3>4. 1..Len(a) \subseteq 1..Len(u[n])
            BY <3>3
        <3> QED BY <3>4 DEF a
    <2>6. OkMain(main, u)
        BY <1>1, <2>5 DEF OkMain
    <2>7. \A n \in Nodes : e[n] \subseteq 1..Len(u[n])
        BY <1>4, <2>5
    <2> HIDE DEF u
    <2>8. OkWork(m, u, d, tx[d].work)
        BY <1>2, <1>3, <2>1, <2>3, <2>4, <2>6, <2>7, OthersLand
    <2> QED BY <2>8 DEF u
<1> HIDE DEF m
<1>9. Prolongs(m)
    BY <1>1, <1>5 DEF Prolongs
<1> QED BY <1>2, <1>5, <1>6, <1>7, <1>8, <1>9, TransactionKeeps
-----------------------------------------------------------------------------
\* The operations of a change.

LEMMA FreeTx ==
    ASSUME Inv, NEW c \in Changes, tx[c] = NoTx
    PROVE  tx = [tx EXCEPT ![c] = NoTx]
<1>1. tx = [d \in Changes |-> tx[d]] /\ DOMAIN tx = Changes
    BY DEF Inv
<1>2. \A d \in Changes : [tx EXCEPT ![c] = NoTx][d] = tx[d]
    BY <1>1
<1> QED BY <1>1, <1>2

LEMMA OfInv ==
    ASSUME Inv, NEW c \in Changes
    PROVE  /\ OkStore(store) /\ OkMain(main, store) /\ Grows(store, store)
           /\ OkWork(main, store, c, change[c]) /\ change[c] \in Works
<1>1. \A n \in Nodes : Len(store[n]) \in Nat
    BY DEF Inv, OkStore
<1>2. Grows(store, store)
    BY <1>1 DEF Grows
<1> QED BY <1>2 DEF Inv

\* An operation that writes no version.
LEMMA BranchOnly ==
    ASSUME Inv, NEW c \in Changes, tx[c] = NoTx, NEW w, OkWork(main, store, c, w),
           change' = [change EXCEPT ![c] = w], UNCHANGED <<store, main, tx>>
    PROVE  Inv'
<1>1. tx' = [tx EXCEPT ![c] = NoTx]
    BY FreeTx
<1>2. MayWrite(c, store)
    BY DEF MayWrite
<1>3. store' = store /\ main' = main
    OBVIOUS
<1> QED BY <1>1, <1>2, <1>3, OfInv, ChangeKeeps

LEMMA OpenKeeps == ASSUME Inv, NEW c \in Changes, Open(c) PROVE Inv'
<1> DEFINE w == [change[c] EXCEPT !.open = TRUE, !.fork = Len(main)]
<1>1. Len(main) \in Nat \ {0} /\ OkWork(main, store, c, change[c]) /\ change[c] \in Works
    BY OfInv, MainOrders
<1>2. w \in Works /\ w.fork = Len(main) /\ w.held = change[c].held /\ w.draft = change[c].draft
    BY <1>1 DEF Works
<1>3. change' = [change EXCEPT ![c] = w] /\ UNCHANGED <<store, main, tx>>
    BY DEF Open
<1> HIDE DEF w
<1>4. Shape(main, store, w)
    BY <1>1, <1>2 DEF OkWork, Shape
<1>5. OwnWork(main, store, c, w)
    BY <1>1, <1>2 DEF OkWork, OwnWork
<1>6. Whole(main, w)
    BY <1>1, <1>2 DEF Whole
<1>7. OkWork(main, store, c, w)
    BY <1>4, <1>5, <1>6 DEF OkWork
<1>8. tx[c] = NoTx
    BY DEF Open, Inv, OkMerge
<1> QED BY <1>3, <1>7, <1>8, BranchOnly

\* One draft is another one.
LEMMA DraftKeeps ==
    ASSUME Inv, NEW c \in Changes, Free(c), NEW n \in Nodes, NEW d \in Draft, OkDraft(store, n, d),
           change' = [change EXCEPT ![c].draft[n] = d], UNCHANGED <<store, main, tx>>
    PROVE  Inv'
<1> DEFINE ds == [change[c].draft EXCEPT ![n] = d]
           w == [change[c] EXCEPT !.draft = ds]
<1>1. OkWork(main, store, c, change[c]) /\ change[c] \in Works
    BY OfInv
<1>2. change[c].draft \in [Nodes -> Draft] /\ \A k \in Nodes : OkDraft(store, k, change[c].draft[k])
    BY <1>1 DEF OkWork, Shape, Works
<1>3. ds \in [Nodes -> Draft] /\ \A k \in Nodes : OkDraft(store, k, ds[k])
    BY <1>2
<1>4. OkWork(main, store, c, w)
    BY <1>1, <1>3, DraftsKeep
<1>5. change' = [change EXCEPT ![c] = w]
    OBVIOUS
<1> HIDE DEF w
<1> QED BY <1>4, <1>5, BranchOnly DEF Free

LEMMA EditKeeps ==
    ASSUME Inv, NEW c \in Changes, NEW n \in Nodes, NEW p \in Props, NEW v \in Values, Edit(c, n, p, v)
    PROVE  Inv'
<1> DEFINE w == change[c]
           new == [NoDraft EXCEPT !.base = Mine(w, n), !.props = store[n][Mine(w, n)].props]
           d == IF w.draft[n] # NoDraft THEN w.draft[n] ELSE new
           q == [d EXCEPT !.props[p] = v, !.open = @ \ {p}]
<1>1. /\ OkStore(store) /\ OkMain(main, store) /\ Shape(main, store, w)
      /\ w.draft[n] \in Draft /\ OkDraft(store, n, w.draft[n])
    BY OfInv DEF OkWork, Shape, Works
<1>2. Mine(w, n) \in 1..Len(store[n])
    BY <1>1, Reads
<1>3. store[n][Mine(w, n)].props \in [Props -> Values] /\ Mine(w, n) \in Numbers /\ Len(store[n]) \in Nat
    BY <1>1, <1>2, StoredProps DEF OkStore
<1>4. new \in Draft /\ OkDraft(store, n, new)
    <2>1. NoDraft \in Draft /\ NoDraft.with = 0
        BY NoDraftIsOne DEF NoDraft
    <2>2. new \in Draft /\ new.base = Mine(w, n) /\ new.with = 0
        BY <1>3, <2>1 DEF Draft
    <2> QED BY <1>2, <1>3, <2>2 DEF OkDraft
<1>5. d \in Draft /\ OkDraft(store, n, d) /\ d.base \in 1..Len(store[n])
    <2>1. new.base = Mine(w, n)
        BY DEF NoDraft
    <2> HIDE DEF new
    <2> QED BY <1>1, <1>2, <1>4, <2>1 DEF OkDraft
<1>6. Free(c) /\ change' = [change EXCEPT ![c].draft[n] = q] /\ UNCHANGED <<store, main, tx>>
    BY DEF Edit
<1> HIDE DEF d
<1>7. q \in Draft /\ q.base = d.base /\ q.with = d.with
    BY <1>5 DEF Draft
<1>8. OkDraft(store, n, q)
    BY <1>5, <1>7 DEF OkDraft
<1> HIDE DEF q
<1> QED BY <1>6, <1>7, <1>8, DraftKeeps

LEMMA SettleKeeps ==
    ASSUME Inv, NEW c \in Changes, NEW n \in Nodes, NEW ps \in SUBSET Props, Settle(c, n, ps)
    PROVE  Inv'
<1> DEFINE d == change[c].draft[n]
           tv == IF d.with = 0 THEN d.base ELSE d.with
           settled == [p \in Props |-> IF p \in ps THEN store[n][tv].props[p] ELSE d.props[p]]
           q == [d EXCEPT !.open = {}, !.props = settled]
<1>1. OkStore(store) /\ d \in Draft /\ OkDraft(store, n, d)
    BY OfInv DEF OkWork, Shape, Works
<1>2. d # NoDraft
    <2>1. d.open # {}
        BY Zenon DEF Settle
    <2>2. NoDraft.open = {}
        BY DEF NoDraft
    <2> QED BY <2>1, <2>2
<1>3. Free(c) /\ change' = [change EXCEPT ![c].draft[n] = q] /\ UNCHANGED <<store, main, tx>>
    BY Zenon DEF Settle
<1> HIDE DEF d
<1>4. tv \in 1..Len(store[n])
    <2>1. Len(store[n]) \in Nat
        BY <1>1 DEF OkStore
    <2> QED BY <1>1, <1>2, <2>1 DEF OkDraft
<1>5. store[n][tv].props \in [Props -> Values]
    BY <1>1, <1>4, StoredProps
<1> HIDE DEF tv
<1>6. settled \in [Props -> Values]
    BY <1>1, <1>5 DEF Draft
<1> HIDE DEF settled
<1>7. q \in Draft /\ q.base = d.base /\ q.with = d.with
    BY <1>1, <1>6 DEF Draft
<1>8. OkDraft(store, n, q)
    BY <1>1, <1>2, <1>7 DEF OkDraft
<1> HIDE DEF q
<1> QED BY <1>3, <1>7, <1>8, DraftKeeps DEF d

LEMMA CommitKeeps ==
    ASSUME Inv, NEW c \in Changes, NEW ns \in SUBSET Nodes, Commit(c, ns)
    PROVE  Inv'
<1> DEFINE w == RebaseDrafts(store, c, change[c], ns)
           s == Write(store, c, w, ns)
<1>1. /\ Free(c) /\ Bounded(s) /\ MayNumber(c, s)
      /\ store' = s /\ change' = [change EXCEPT ![c] = Wrote(store, w, ns)] /\ main' = main /\ tx' = tx
    BY DEF Commit
<1>2. OkWork(main, store, c, w) /\ OkStore(store) /\ OkMain(main, store)
    BY OfInv, RebaseDraftsKeep
<1> HIDE DEF w
<1>3. OkStore(s) /\ Grows(store, s) /\ OkWork(main, s, c, Wrote(store, w, ns))
    BY <1>1, <1>2, WriteKeeps
<1> HIDE DEF s
<1>4. MayWrite(c, s)
    BY <1>1 DEF MayNumber, MayWrite, Numbering
<1>5. tx' = [tx EXCEPT ![c] = NoTx]
    BY <1>1, FreeTx DEF Free
<1> QED BY <1>1, <1>3, <1>4, <1>5, ChangeKeeps

LEMMA CommitInConflictKeeps ==
    ASSUME Inv, NEW c \in Changes, NEW ns \in SUBSET Nodes, CommitInConflict(c, ns)
    PROVE  Inv'
<1> DEFINE w == RebaseDrafts(store, c, change[c], ns)
<1>1. tx[c] = NoTx /\ change' = [change EXCEPT ![c] = w] /\ UNCHANGED <<store, main, tx>>
    BY DEF CommitInConflict, Free
<1>2. OkWork(main, store, c, w)
    BY OfInv, RebaseDraftsKeep
<1> HIDE DEF w
<1> QED BY <1>1, <1>2, BranchOnly

LEMMA RebaseKeeps == ASSUME Inv, NEW c \in Changes, Rebase(c) PROVE Inv'
<1> DEFINE w == change[c]
           s == RebaseWrites(store, c, w)
           u == Rebased(store, c, w, FALSE)
<1>1. /\ Free(c) /\ Bounded(s) /\ MayNumber(c, s)
      /\ store' = s /\ change' = [change EXCEPT ![c] = u] /\ main' = main /\ tx' = tx
    BY DEF Rebase
<1>2. OkStore(s) /\ Grows(store, s) /\ OkWork(main, s, c, u)
    BY <1>1, OfInv, RebasedKeeps
<1> HIDE DEF s, u
<1>3. MayWrite(c, s)
    BY <1>1 DEF MayNumber, MayWrite, Numbering
<1>4. tx' = [tx EXCEPT ![c] = NoTx]
    BY <1>1, FreeTx DEF Free
<1> QED BY <1>1, <1>2, <1>3, <1>4, ChangeKeeps
-----------------------------------------------------------------------------
\* The steps of a merge.

\* What a merge of a change reads and wrote, with @q the store it sees.
MayMerge(c, r, q) ==
    /\ OkStore(q) /\ OkWork(main, q, c, r.work) /\ \A n \in Nodes : q[n] = store[n] \o r.wrote[n]
    /\ r.at = "checked" => r.head \in 1..Len(main)
    /\ r.at = "checked" /\ r.ok => HoldsTo(main, r.work, r.head)
    /\ \A d \in Changes, n \in Nodes : d # c /\ Numbering(d, n) => r.wrote[n] = <<>>

\* A step that moves nothing but the merge of a change.
LEMMA MergeKeeps ==
    ASSUME Inv, NEW c \in Changes, change[c].open, NEW r \in Merges, NEW q, MayMerge(c, r, q),
           tx' = [tx EXCEPT ![c] = r], UNCHANGED <<store, main, change>>
    PROVE  Inv'
<1>0. /\ OkStore(q) /\ OkWork(main, q, c, r.work) /\ \A n \in Nodes : q[n] = store[n] \o r.wrote[n]
      /\ r.at = "checked" => r.head \in 1..Len(main)
      /\ r.at = "checked" /\ r.ok => HoldsTo(main, r.work, r.head)
      /\ \A d \in Changes, n \in Nodes : d # c /\ Numbering(d, n) => r.wrote[n] = <<>>
    BY DEF MayMerge
<1>1. /\ tx'[c] = r /\ \A d \in Changes \ {c} : tx'[d] = tx[d]
      /\ DOMAIN tx' = Changes /\ tx' = [d \in Changes |-> tx'[d]]
    BY DEF Inv
<1>2. ASSUME NEW d \in Changes, tx'[d] # NoTx PROVE OkMerge(d)'
    <2>1. CASE d = c
        <3>1. Seen(c)' = [n \in Nodes |-> store[n] \o r.wrote[n]]
            BY <1>1, <1>2, <2>1 DEF Seen
        <3>2. q = [n \in Nodes |-> q[n]]
            BY <1>0 DEF OkStore
        <3>3. Seen(c)' = q
            BY <1>0, <3>1, <3>2
        <3> QED BY <1>0, <1>1, <2>1, <3>3 DEF OkMerge
    <2>2. CASE d # c
        <3>1. tx'[d] = tx[d] /\ OkMerge(d)
            BY <1>1, <1>2, <2>2 DEF Inv
        <3>2. Seen(d)' = Seen(d)
            BY <3>1 DEF Seen
        <3> QED BY <3>1, <3>2 DEF OkMerge
    <2> QED BY <2>1, <2>2
<1>3. Apart'
    <2> SUFFICES ASSUME NEW d \in Changes, NEW e \in Changes, NEW n \in Nodes,
                        Numbering(d, n)', Numbering(e, n)', d # e
                 PROVE  FALSE
        BY DEF Apart
    <2>1. \A k \in Changes \ {c} : Numbering(k, n)' => Numbering(k, n)
        BY <1>1 DEF Numbering
    <2>2. Numbering(c, n)' => r.wrote[n] # <<>>
        BY <1>1 DEF Numbering
    <2>3. CASE d = c
        BY <1>0, <2>1, <2>2, <2>3
    <2>4. CASE e = c
        BY <1>0, <2>1, <2>2, <2>4
    <2>5. CASE d # c /\ e # c
        BY <2>1, <2>5 DEF Inv, Apart
    <2> QED BY <2>3, <2>4, <2>5
<1> QED BY <1>1, <1>2, <1>3 DEF Inv

LEMMA MergeRebaseKeeps == ASSUME Inv, NEW c \in Changes, MergeRebase(c) PROVE Inv'
<1> DEFINE w == change[c]
           s == RebaseWrites(store, c, w)
           u == Rebased(store, c, w, TRUE)
           r == [at |-> "rebased", wrote |-> Written(s), work |-> u, head |-> 0, ok |-> FALSE, moves |-> {}]
<1>1. CASE Moved(w) /\ InConflict(store, w) # {}
    <2>1. tx[c] = NoTx /\ change' = [change EXCEPT ![c] = WithMerges(store, w)] /\ UNCHANGED <<store, main, tx>>
        BY <1>1 DEF MergeRebase, Free
    <2>2. OkWork(main, store, c, WithMerges(store, w))
        BY OfInv, MergesKeep
    <2> QED BY <2>1, <2>2, BranchOnly
<1>2. CASE ~(Moved(w) /\ InConflict(store, w) # {})
    <2>1. /\ change[c].open /\ Bounded(s) /\ MayNumber(c, s)
          /\ tx' = [tx EXCEPT ![c] = r] /\ UNCHANGED <<store, main, change>>
        BY <1>2 DEF MergeRebase, Free
    <2>2. OkStore(s) /\ Grows(store, s) /\ OkWork(main, s, c, u)
        BY <2>1, OfInv, RebasedKeeps
    <2> HIDE DEF s, u
    <2>3. /\ Written(s) \in [Nodes -> Seq(Version)]
          /\ \A n \in Nodes : s[n] = store[n] \o Written(s)[n] /\ (s[n] = store[n] => Written(s)[n] = <<>>)
        BY <2>2, OfInv, WrittenOf
    <2>4. /\ r \in Merges /\ r.at # "checked" /\ r.work = u /\ r.wrote = Written(s)
        BY <2>2, <2>3 DEF Merges, OkWork, Shape
    <2>5. \A d \in Changes, n \in Nodes : d # c /\ Numbering(d, n) => Written(s)[n] = <<>>
        BY <2>1, <2>3 DEF MayNumber, Numbering
    <2> HIDE DEF r
    <2>6. MayMerge(c, r, s)
        BY <2>2, <2>3, <2>4, <2>5 DEF MayMerge
    <2> QED BY <2>1, <2>4, <2>6, MergeKeeps
<1> QED BY <1>1, <1>2

LEMMA InFlight ==
    ASSUME Inv, NEW c \in Changes, tx[c] # NoTx
    PROVE  /\ change[c].open /\ tx[c] \in Merges /\ tx[c].work \in Works
           /\ OkStore(Seen(c)) /\ OkMain(main, Seen(c)) /\ Grows(store, Seen(c))
           /\ OkWork(main, Seen(c), c, tx[c].work)
           /\ MayWrite(c, Seen(c))
           /\ \A d \in Changes, n \in Nodes : d # c /\ Numbering(d, n) => tx[c].wrote[n] = <<>>
<1>1. OkMerge(c)
    BY DEF Inv
<1>2. OkStore(Seen(c)) /\ Grows(store, Seen(c))
    BY SeenOf
<1>3. OkMain(main, Seen(c))
    BY <1>2, GrownMain, OfInv
<1>4. \A d \in Changes, n \in Nodes : d # c /\ Numbering(d, n) => tx[c].wrote[n] = <<>>
    BY DEF Inv, Apart, Numbering
<1>5. MayWrite(c, Seen(c))
    BY <1>4, SeenOf DEF MayWrite
<1> QED BY <1>1, <1>2, <1>3, <1>4, <1>5 DEF OkMerge, OkWork, Shape

LEMMA MergeCheckKeeps == ASSUME Inv, NEW c \in Changes, MergeCheck(c) PROVE Inv'
<1> DEFINE t == tx[c]
           ok == FastForwards(Seen(c), t.work)
           u == IF ok THEN Finished(t.work) ELSE t.work
           r == [t EXCEPT !.at = "checked", !.head = Len(main), !.ok = ok,
                          !.work = IF ok THEN Finished(@) ELSE @,
                          !.moves = IF ok THEN Moves(t.work) ELSE {}]
<1>1. t # NoTx /\ tx' = [tx EXCEPT ![c] = r] /\ UNCHANGED <<store, main, change>>
    BY DEF MergeCheck
<1>2. /\ change[c].open /\ t \in Merges /\ OkStore(Seen(c)) /\ OkMain(main, Seen(c))
      /\ OkWork(main, Seen(c), c, t.work)
      /\ \A d \in Changes, n \in Nodes : d # c /\ Numbering(d, n) => t.wrote[n] = <<>>
    BY <1>1, InFlight
<1>3. OkWork(main, Seen(c), c, u) /\ (ok => HoldsTo(main, u, Len(main)))
    BY <1>2, FinishedKeeps
<1>4. \A n \in Nodes : Seen(c)[n] = store[n] \o t.wrote[n]
    BY <1>1, SeenOf
<1>5. ok \in BOOLEAN /\ Moves(t.work) \in SUBSET Nodes /\ Len(main) \in Nat \ {0} /\ u \in Works
    BY <1>2, <1>3, MainOrders DEF FastForwards, Moves, BranchNodes, OkWork, Shape
<1>6. /\ r.at = "checked" /\ r.head = Len(main) /\ r.ok = ok /\ r.work = u /\ r.wrote = t.wrote
      /\ r \in Merges
    BY <1>2, <1>5 DEF Merges
<1> HIDE DEF r, u, ok
<1>7. r.head \in 1..Len(main)
    BY <1>5, <1>6
<1>8. MayMerge(c, r, Seen(c))
    BY <1>2, <1>3, <1>4, <1>6, <1>7 DEF MayMerge
<1> QED BY <1>1, <1>2, <1>6, <1>8, MergeKeeps

LEMMA MergeApplyKeeps == ASSUME Inv, NEW c \in Changes, MergeApply(c) PROVE Inv'
<1> DEFINE t == tx[c]
           s == Seen(c)
<1>1. t # NoTx /\ t.at = "checked" /\ t.ok /\ t.head = Len(main) /\ Land(c, s, t.work, t.moves)
    BY DEF MergeApply
<1>2. OkStore(s) /\ Grows(store, s) /\ MayWrite(c, s) /\ OkWork(main, s, c, t.work)
    BY <1>1, InFlight
<1>3. HoldsTo(main, t.work, Len(main))
    BY <1>1 DEF Inv, OkMerge
<1> HIDE DEF s, t
<1> QED BY <1>1, <1>2, <1>3, LandKeeps

LEMMA MergeReforkKeeps == ASSUME Inv, NEW c \in Changes, MergeRefork(c) PROVE Inv'
<1> DEFINE t == tx[c]
           s == Seen(c)
           u == Take(t.work)
<1>1. t # NoTx /\ Land(c, s, u, t.moves)
    BY DEF MergeRefork
<1>2. /\ OkStore(s) /\ OkMain(main, s) /\ Grows(store, s) /\ MayWrite(c, s)
      /\ OkWork(main, s, c, t.work)
    BY <1>1, InFlight
<1> HIDE DEF s, t
<1>3. OkWork(main, s, c, u) /\ HoldsTo(main, u, Len(main))
    BY <1>2, TakeKeeps
<1> HIDE DEF u
<1> QED BY <1>1, <1>2, <1>3, LandKeeps

LEMMA GrowsOn ==
    ASSUME NEW s, NEW t, NEW u, OkStore(s), OkStore(t), OkStore(u), Grows(s, t), Grows(t, u)
    PROVE  Grows(s, u)
<1> SUFFICES ASSUME NEW n \in Nodes
             PROVE  Len(s[n]) <= Len(u[n]) /\ \A v \in 1..Len(s[n]) : u[n][v] = s[n][v]
    BY DEF Grows
<1>1. Len(s[n]) \in Nat /\ Len(t[n]) \in Nat /\ Len(u[n]) \in Nat
    BY DEF OkStore
<1>2. Len(s[n]) <= Len(t[n]) /\ Len(t[n]) <= Len(u[n])
    BY DEF Grows
<1>3. 1..Len(s[n]) \subseteq 1..Len(t[n])
    BY <1>1, <1>2
<1>4. \A v \in 1..Len(s[n]) : u[n][v] = s[n][v]
    BY <1>3 DEF Grows
<1> QED BY <1>1, <1>2, <1>4

LEMMA MergeAgainKeeps == ASSUME Inv, NEW c \in Changes, MergeAgain(c) PROVE Inv'
<1> DEFINE t == tx[c]
           s == Seen(c)
           ok == FastForwards(s, t.work)
           w == IF ok THEN t.work ELSE Rebased(s, c, t.work, TRUE)
           r == IF ok THEN s ELSE RebaseWrites(s, c, t.work)
           clash == ~ok /\ Moved(t.work) /\ InConflict(s, t.work) # {}
<1>1. t # NoTx /\ MayNumber(c, r) /\ Bounded(r)
    BY DEF MergeAgain
<1>2. clash => /\ store' = s /\ change' = [change EXCEPT ![c] = w]
               /\ tx' = [tx EXCEPT ![c] = NoTx] /\ main' = main
    BY DEF MergeAgain
<1>3. ~clash => Land(c, r, Finished(w), Moves(w))
    BY DEF MergeAgain
<1>4. clash => r = s
    BY DEF RebaseWrites
<1>5. /\ OkStore(s) /\ OkMain(main, s) /\ Grows(store, s) /\ MayWrite(c, s)
      /\ OkWork(main, s, c, t.work)
    BY <1>1, InFlight
<1>6. OkStore(r) /\ Grows(store, r) /\ OkWork(main, r, c, w)
    <2> HIDE DEF s, t
    <2>1. CASE ok
        BY <1>5, <2>1
    <2>2. CASE ~ok
        <3>1. r = RebaseWrites(s, c, t.work) /\ w = Rebased(s, c, t.work, TRUE)
            BY <2>2
        <3>2. OkStore(r) /\ Grows(s, r) /\ OkWork(main, r, c, w)
            BY <1>1, <1>5, <3>1, RebasedKeeps
        <3> HIDE DEF r, w
        <3> QED BY <1>5, <3>2, GrowsOn, OfInv
    <2> QED BY <2>1, <2>2
<1> HIDE DEF s, t, w, r, clash
<1>7. OkMain(main, r)
    BY <1>6, GrownMain, OfInv
<1>8. CASE clash
    BY <1>2, <1>4, <1>5, <1>6, <1>8, ChangeKeeps
<1>9. CASE ~clash
    <2>1. OkWork(main, r, c, Finished(w)) /\ HoldsTo(main, Finished(w), Len(main))
        BY <1>6, <1>7, FinishedKeeps
    <2>2. MayWrite(c, r)
        BY <1>1 DEF MayNumber, MayWrite, Numbering
    <2>3. Land(c, r, Finished(w), Moves(w))
        BY <1>3, <1>9
    <2> QED BY <1>6, <2>1, <2>2, <2>3, LandKeeps
<1> QED BY <1>8, <1>9

LEMMA MergeRolledBackKeeps == ASSUME Inv, NEW c \in Changes, MergeRolledBack(c) PROVE Inv'
<1>1. tx' = [tx EXCEPT ![c] = NoTx] /\ store' = store /\ main' = main /\ change' = change
    BY DEF MergeRolledBack
<1>2. change' = [change EXCEPT ![c] = change[c]]
    BY <1>1 DEF Inv
<1>3. MayWrite(c, store)
    BY DEF MayWrite
<1> QED BY <1>1, <1>2, <1>3, OfInv, ChangeKeeps
-----------------------------------------------------------------------------
LEMMA InitInv == Init => Inv
<1> SUFFICES ASSUME Init PROVE Inv
    OBVIOUS
<1> DEFINE first == [props |-> [p \in Props |-> Initial], parents |-> {}, by |-> NoTx]
           w == [open |-> FALSE, fork |-> 1, held |-> Nothing, draft |-> [n \in Nodes |-> NoDraft]]
<1>1. /\ store = [n \in Nodes |-> <<first>>] /\ main = <<[n \in Nodes |-> {1}]>>
      /\ change = [c \in Changes |-> w] /\ tx = [c \in Changes |-> NoTx]
    BY DEF Init
<1>2. first \in Version
    BY ChangeMergeAssumption DEF Version, Author
<1> HIDE DEF first
<1>3. \A n \in Nodes : store[n] = <<first>> /\ store[n] \in Seq(Version) /\ Len(store[n]) = 1
    BY <1>1, <1>2
<1>4. OkStore(store)
    <2>1. \A n \in Nodes : 1 \in 1..MaxVersions[n]
        <3>1. \A n \in Nodes : MaxVersions[n] \in Nat \ {0}
            BY ChangeMergeAssumption
        <3> QED BY <3>1
    <2>2. \A n \in Nodes : Len(store[n]) \in 1..MaxVersions[n]
        <3> HIDE DEF OkStore
        <3>1. \A n \in Nodes : Len(store[n]) = 1
            BY <1>3
        <3> QED BY <2>1, <3>1, Zenon
    <2>3. store \in [Nodes -> Seq(Version)]
        BY <1>1, <1>3
    <2> QED BY <2>2, <2>3 DEF OkStore
<1>5. Len(main) = 1 /\ main[1] = [n \in Nodes |-> {1}] /\ main \in Seq([Nodes -> SUBSET Nat])
    BY <1>1
<1>6. OkMain(main, store)
    <2>1. Len(main) \in 1..(MaxMerges + 1)
        BY <1>5, ChangeMergeAssumption
    <2>2. \A i \in 1..Len(main), n \in Nodes : main[i][n] = {1} /\ Len(store[n]) = 1
        BY <1>3, <1>5
    <2>3. \A i \in 1..Len(main), n \in Nodes : main[i][n] \subseteq 1..Len(store[n])
        BY <2>2
    <2>4. \A n \in Nodes : main[1][n] # {}
        BY <1>5
    <2> QED BY <1>5, <2>1, <2>3, <2>4 DEF OkMain
<1>7. w \in Works /\ w.fork = 1 /\ \A n \in Nodes : w.held[n] = {} /\ w.draft[n] = NoDraft
    <2>1. Nothing \in [Nodes -> SUBSET Nat] /\ \A n \in Nodes : Nothing[n] = {}
        BY DEF Nothing
    <2>2. [n \in Nodes |-> NoDraft] \in [Nodes -> Draft]
        BY NoDraftIsOne
    <2> QED BY <2>1, <2>2 DEF Works
<1> HIDE DEF w
<1>8. ASSUME NEW c \in Changes PROVE OkWork(main, store, c, w)
    <2>1. Shape(main, store, w)
        BY <1>4, <1>5, <1>7, NoDraftIsOne DEF Shape
    <2>2. OwnWork(main, store, c, w)
        BY <1>7 DEF OwnWork
    <2>3. Whole(main, w)
        BY <1>7 DEF Whole, Touches
    <2> QED BY <2>1, <2>2, <2>3 DEF OkWork
<1>9. /\ change \in [Changes -> Works] /\ \A c \in Changes : change[c] = w
      /\ DOMAIN tx = Changes /\ tx = [c \in Changes |-> tx[c]] /\ \A c \in Changes : tx[c] = NoTx
    BY <1>1, <1>7
<1>10. Apart
    BY <1>9 DEF Apart, Numbering
<1> QED BY <1>4, <1>6, <1>8, <1>9, <1>10 DEF Inv

LEMMA StutterKeeps == ASSUME Inv, UNCHANGED vars PROVE Inv'
<1>1. store' = store /\ main' = main /\ change' = change /\ tx' = tx
    BY DEF vars
<1>2. \A c \in Changes : Seen(c)' = Seen(c)
    BY <1>1 DEF Seen
<1> QED BY <1>1, <1>2 DEF Inv, OkMerge, Apart, Numbering

LEMMA NextKeeps == Inv /\ [Next]_vars => Inv'
<1> SUFFICES ASSUME Inv, [Next]_vars PROVE Inv'
    OBVIOUS
<1>1. CASE UNCHANGED vars
    BY <1>1, StutterKeeps
<1>2. CASE Next
    <2>1. PICK c \in Changes :
             \/ Open(c)
             \/ \E n \in Nodes, v \in ValuesOf[c] : \E p \in Editable[n] : Edit(c, n, p, v)
             \/ \E n \in Nodes, ps \in SUBSET Props : Settle(c, n, ps)
             \/ \E ns \in SUBSET Nodes : Commit(c, ns) \/ CommitInConflict(c, ns)
             \/ Rebase(c)
             \/ MergeRebase(c) \/ MergeCheck(c)
             \/ MergeApply(c) \/ MergeRefork(c) \/ MergeAgain(c) \/ MergeRolledBack(c)
        BY <1>2 DEF Next
    <2>2. CASE Open(c)
        BY <2>2, OpenKeeps
    <2>3. CASE \E n \in Nodes, v \in ValuesOf[c] : \E p \in Editable[n] : Edit(c, n, p, v)
        <3>1. PICK n \in Nodes, v \in ValuesOf[c] : \E p \in Editable[n] : Edit(c, n, p, v)
            BY <2>3
        <3>2. PICK p \in Editable[n] : Edit(c, n, p, v)
            BY <3>1
        <3>3. p \in Props /\ v \in Values
            BY ChangeMergeAssumption
        <3> QED BY <3>2, <3>3, EditKeeps
    <2>4. CASE \E n \in Nodes, ps \in SUBSET Props : Settle(c, n, ps)
        BY <2>4, SettleKeeps
    <2>5. CASE \E ns \in SUBSET Nodes : Commit(c, ns) \/ CommitInConflict(c, ns)
        BY <2>5, CommitKeeps, CommitInConflictKeeps
    <2>6. CASE Rebase(c)
        BY <2>6, RebaseKeeps
    <2>7. CASE MergeRebase(c)
        BY <2>7, MergeRebaseKeeps
    <2>8. CASE MergeCheck(c)
        BY <2>8, MergeCheckKeeps
    <2>9. CASE MergeApply(c)
        BY <2>9, MergeApplyKeeps
    <2>10. CASE MergeRefork(c)
        BY <2>10, MergeReforkKeeps
    <2>11. CASE MergeAgain(c)
        BY <2>11, MergeAgainKeeps
    <2>12. CASE MergeRolledBack(c)
        BY <2>12, MergeRolledBackKeeps
    <2> QED BY <2>1, <2>2, <2>3, <2>4, <2>5, <2>6, <2>7, <2>8, <2>9, <2>10, <2>11, <2>12
<1> QED BY <1>1, <1>2

\* The invariant of the changes and of main: a branch holds whole orders of main
\* past its fork, and what main does not hold of it was written by its own change;
\* a merge in flight stands on the store with what it wrote over it.
THEOREM BranchesWhole == Spec => []Inv
BY InitInv, NextKeeps, PTL DEF Spec
-----------------------------------------------------------------------------
LEMMA Typed == Inv => TypeOK
<1> SUFFICES ASSUME Inv PROVE TypeOK
    OBVIOUS
<1>1. ASSUME NEW n \in Nodes, NEW c \in Changes, NEW v \in DOMAIN Seen(c)[n]
      PROVE  Seen(c)[n][v] \in Version
    <2>1. Seen(c)[n] \in Seq(Version)
        BY SeenOf DEF OkStore
    <2> QED BY <2>1, ElementOfSeq
<1>2. ASSUME NEW i \in DOMAIN main PROVE main[i] \in [Nodes -> SUBSET Numbers]
    <2>1. i \in 1..Len(main) /\ main[i] \in [Nodes -> SUBSET Nat]
        BY MainOrders, OfInv DEF Inv
    <2>2. \A n \in Nodes : main[i][n] \subseteq 1..Len(store[n])
        BY <2>1 DEF Inv, OkMain
    <2>3. \A n \in Nodes : 1..Len(store[n]) \subseteq Numbers
        BY VersionIsNumber DEF Inv
    <2> QED BY <2>1, <2>2, <2>3
<1>3. ASSUME NEW s, NEW w, OkStore(s), Shape(main, s, w) PROVE w \in Work
    <2>1. w \in Works /\ w.fork \in 1..Len(main) /\ Len(main) \in 1..(MaxMerges + 1)
        BY <1>3 DEF Shape, Inv, OkMain
    <2>2. w.fork \in 1..(MaxMerges + 1)
        BY <2>1, ChangeMergeAssumption
    <2>3. \A n \in Nodes : w.held[n] \subseteq Numbers
        BY <1>3, VersionIsNumber DEF Shape
    <2>4. w.held \in [Nodes -> SUBSET Numbers]
        BY <2>1, <2>3 DEF Works
    <2> QED BY <2>1, <2>2, <2>4 DEF Works, Work
<1>4. \A c \in Changes : change[c] \in Work
    BY <1>3 DEF Inv, OkWork
<1>5. \A c \in Changes : tx[c] # NoTx => tx[c].work \in Work
    BY <1>3 DEF Inv, OkMerge, OkWork
<1> QED BY <1>1, <1>2, <1>4, <1>5 DEF TypeOK

LEMMA Held == Inv => HoldsPrefix
<1> SUFFICES ASSUME Inv, NEW c \in Changes, NEW n \in Nodes,
                    NEW i \in (change[c].fork + 1)..Position(change[c])
             PROVE  main[i][n] \subseteq change[c].held[n]
    BY DEF HoldsPrefix
<1>1. OkMain(main, store) /\ Shape(main, store, change[c]) /\ Whole(main, change[c])
    BY DEF Inv, OkWork
<1>2. change[c].fork \in Nat /\ Len(main) \in Nat /\ change[c].fork >= 1
    BY <1>1, MainOrders DEF Shape
<1>3. Position(change[c]) \in change[c].fork..Len(main)
    BY <1>1, PositionOf
<1>4. i \in 1..Position(change[c]) /\ change[c].fork < i
    BY <1>2, <1>3
<1>5. HoldsTo(main, change[c], Position(change[c]))
    BY <1>1, HoldsToPosition
<1> QED BY <1>4, <1>5 DEF HoldsTo, HoldsOrder

\* What is written, held, drafted and merged is of its type, for any bounds.
THEOREM ChangeMergeTypes == Spec => []TypeOK
BY BranchesWhole, Typed, PTL

\* A branch holds every commit of main between its fork and its position
\* (Tx.Position, branchstate.go), so reading it there skips none.
THEOREM PrefixHeld == Spec => []HoldsPrefix
BY BranchesWhole, Held, PTL
=============================================================================
