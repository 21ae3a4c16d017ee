----------------------------- MODULE ChangeMerge -----------------------------
\* The graph's changes, committed each on its own branch, rebased onto main and
\* merged into it (src/graph/graph: rebase_drafts.go, rebase_committed.go,
\* changebranch.go, branchstate.go).
\*
\* A node has versions, numbered whatever the branch that wrote them.  A branch
\* is the commits it holds: its own and the ones it took of main; main is the
\* commits its merges took.  A node is read, on a branch or on main, at the
\* greatest version of the commits held there, else at the fork of the branch.
\* A commit of one change only ever goes from branch to branch whole, so the
\* model keeps the versions held and leaves the commits out.
\*
\* Every operation of a change is one transaction under the lock of the change;
\* a merge is one transaction too, in three steps, for it reads main before it
\* locks it and other changes merge in between.  What it wrote is seen by no
\* other until its end, and whoever must number a version of the same node
\* waits for it.
EXTENDS Integers, FiniteSets, Sequences, FiniteSetsExt

CONSTANTS
    Changes, Nodes, Props,
    Values,            \* of a property
    ValuesOf,          \* [Changes -> SUBSET Values]: what each change may set
    Initial,           \* the value every property starts with
    Untouched,         \* a property no edit set
    NoTx,              \* no merge in flight
    MergeUnsettled,    \* a merge is asked again with the drafts a conflict left
    GiveUpAll,         \* a merge of committed work is settled for main's values alone
    Editable,          \* [Nodes -> SUBSET Props]: what is ever edited of a node
    MaxVersions,       \* [Nodes -> Nat]: versions of a node
    MaxMerges          \* merges into main

ASSUME ChangeMergeAssumption ==
    /\ IsFiniteSet(Nodes)
    /\ ValuesOf \in [Changes -> SUBSET Values]
    /\ Initial \in Values /\ Untouched \notin Values
    /\ Editable \in [Nodes -> SUBSET Props]
    /\ MaxVersions \in [Nodes -> Nat \ {0}] /\ MaxMerges \in Nat

\* @store: the versions of each node, a sequence of [props, parents, by]
\* @main: what each order of main took, the first what the graph starts with
\* @change: of each change whether it is open, the order of main its branch was
\*   forked at, the versions its branch holds and the draft of each node
\* @tx: of each change, the merge in flight
\* @edited, @made: history: the values a change set and has not committed, and
\*   committed and has not merged
VARIABLES store, main, change, tx, edited, made

vars == <<store, main, change, tx, edited, made>>

Promise == INSTANCE MergedWork WITH world <- [n \in Nodes |->
    store[n][Max(UNION {main[i][n] : i \in DOMAIN main})].props]

Author == Changes \cup {NoTx}
NoDraft == [base |-> 0, with |-> 0, props |-> [p \in Props |-> Initial], open |-> {}]
Nothing == [n \in Nodes |-> {}]
-----------------------------------------------------------------------------
\* Reading.  @s is the store as the transaction sees it, @w the change in it.

InMain(n) == UNION {main[i][n] : i \in DOMAIN main}
MainVersion(n) == Max(InMain(n))
ForkVersion(w, n) == Max(UNION {main[i][n] : i \in 1..w.fork})

\* What the branch reads, and what it shares with main: the version the work of
\* the change stands on.
Greatest(w, n, held) == IF held = {} THEN ForkVersion(w, n) ELSE Max(held)
Mine(w, n) == Greatest(w, n, w.held[n])
Base(w, n) == Greatest(w, n, w.held[n] \cap InMain(n))

\* The last order of main the branch holds something of, and the branch once it
\* took what main holds past it.
Position(w) ==
    Max({w.fork} \cup {i \in DOMAIN main : \E n \in Nodes : main[i][n] \cap w.held[n] # {}})
Moved(w) == Position(w) < Len(main)
\* A mutant: of main, its last commit only.
TakeHead(w) ==
    [w EXCEPT !.held = [n \in Nodes |-> @[n] \cup main[Len(main)][n]]]
Take(w) ==
    [w EXCEPT !.held = [n \in Nodes |->
        @[n] \cup UNION {main[i][n] : i \in (Position(w) + 1)..Len(main)}]]

\* The nodes of the commits the branch holds and main does not.
BranchNodes(w) == {n \in Nodes : w.held[n] \ InMain(n) # {}}
HasCommits(s, c, w) == \E n \in Nodes : \E v \in w.held[n] : s[n][v].by = c

Ancestors(s, n) ==
    LET up[v \in DOMAIN s[n]] == {v} \cup UNION {up[x] : x \in s[n][v].parents}
    IN up
CommonAncestor(s, n, a, b) == Max(Ancestors(s, n)[a] \cap Ancestors(s, n)[b])
DerivesFrom(s, n, a, b) == CommonAncestor(s, n, a, b) = b
-----------------------------------------------------------------------------
\* Three-way merges.

\* A mutant: a conflict leaves the value of the target in the draft.
TheirsFirst(base, ours, theirs) ==
    [p \in Props |-> IF theirs[p] = base[p] THEN ours[p] ELSE theirs[p]]
Merged(base, ours, theirs) ==
    [p \in Props |-> IF ours[p] = base[p] THEN theirs[p] ELSE ours[p]]
Conflicts(base, ours, theirs) ==
    {p \in Props : Cardinality({base[p], ours[p], theirs[p]}) = 3}

MergeOf(base, with, from, ours, theirs) ==
    [base |-> base, with |-> with, props |-> Merged(from, ours, theirs),
     open |-> Conflicts(from, ours, theirs)]

Drafted(w) == {n \in Nodes : w.draft[n] # NoDraft}
Modifies(s, n, d) ==
    d # NoDraft /\ (d.with \notin {0, d.base} \/ d.props # s[n][d.base].props)
Uncommitted(s, w) == \E n \in Nodes : Modifies(s, n, w.draft[n])
Accepted(w) == {n \in Drafted(w) : w.draft[n].open = {}}
-----------------------------------------------------------------------------
\* Committing drafts.

\* A mutant: a version no merge wrote has a second parent, version zero.
AlwaysTwoParents(c, d) ==
    [props |-> d.props, parents |-> {d.base, d.with}, by |-> c]

\* What a version of a draft is, and when the branch moved under the draft.
VersionOf(c, d) ==
    [props |-> d.props, parents |-> {d.base, d.with} \ {0}, by |-> c]
Stands(w, n) ==
    w.held[n] # {} => Max(w.held[n]) \in {w.draft[n].base, w.draft[n].with}

Write(s, c, w, ns) ==
    [n \in Nodes |-> IF n \in ns THEN Append(s[n], VersionOf(c, w.draft[n])) ELSE s[n]]
Wrote(s, w, ns) ==
    [w EXCEPT !.draft = [n \in Nodes |-> IF n \in ns THEN NoDraft ELSE @[n]],
              !.held = [n \in Nodes |-> IF n \in ns THEN @[n] \cup {Len(s[n]) + 1} ELSE @[n]]]

\* A change that committed nothing yet starts from main as it is.
Follow(s, c, w) == IF HasCommits(s, c, w) THEN w ELSE Take(w)

\* The drafts of nodes main moved past what they start from, which the change
\* does not hold a version of its own of.
Behind(s, c, w, n) ==
    LET base == w.draft[n].base IN
    /\ base # MainVersion(n)
    /\ s[n][base].by # c
    /\ ~DerivesFrom(s, n, base, MainVersion(n))
RebasedDraft(s, w, n) ==
    LET d == w.draft[n]
        tv == MainVersion(n)
        from == CommonAncestor(s, n, d.base, tv)
    IN MergeOf(tv, 0, s[n][from].props, d.props, s[n][tv].props)
RebaseDrafts(s, c, w, ns) ==
    [Follow(s, c, w) EXCEPT !.draft = [n \in Nodes |->
        IF n \in ns /\ Behind(s, c, w, n) THEN RebasedDraft(s, w, n) ELSE @[n]]]
-----------------------------------------------------------------------------
\* Rebasing what is committed.

\* The nodes the change and main both changed since what they share, but the
\* ones whose version derives from main's already.
BothChanged(s, w) ==
    {n \in BranchNodes(w) :
        /\ Base(w, n) \notin {Mine(w, n), MainVersion(n)}
        /\ ~DerivesFrom(s, n, Mine(w, n), MainVersion(n))}
\* A mutant: compared with main, not with what the change and main share.
OverMain(s, w, n) ==
    MergeOf(Mine(w, n), MainVersion(n),
            s[n][MainVersion(n)].props, s[n][Mine(w, n)].props, s[n][MainVersion(n)].props)
MergedNode(s, w, n) ==
    MergeOf(Mine(w, n), MainVersion(n),
            s[n][Base(w, n)].props, s[n][Mine(w, n)].props, s[n][MainVersion(n)].props)
\* What main changed and the change holds already is left as it is.
ToMerge(s, w) ==
    {n \in BothChanged(s, w) :
        LET m == MergedNode(s, w, n)
        IN m.open # {} \/ m.props # s[n][Mine(w, n)].props}
InConflict(s, w) == {n \in ToMerge(s, w) : MergedNode(s, w, n).open # {}}

\* The branch with the commits of main, and the merges in its drafts.
WithMerges(s, w) ==
    [Take(w) EXCEPT !.draft = [n \in Nodes |->
        IF n \in ToMerge(s, w) THEN MergedNode(s, w, n) ELSE @[n]]]

CanRebase(s, w) == Moved(w) => ~Uncommitted(s, w)
\* A merge whose rebase merges nothing leaves the branch where it is.
Rebased(s, c, w, merging) ==
    IF ~Moved(w) \/ (merging /\ ToMerge(s, w) = {}) THEN w
    ELSE IF InConflict(s, w) # {} THEN WithMerges(s, w)
    ELSE Wrote(s, WithMerges(s, w), ToMerge(s, w))
RebaseWrites(s, c, w) ==
    IF Moved(w) /\ InConflict(s, w) = {}
    THEN Write(s, c, WithMerges(s, w), ToMerge(s, w)) ELSE s
-----------------------------------------------------------------------------
\* Fast-forwards.

\* Main moved on no node the branch changed, or the branch's version is over
\* main's.
FastForwards(s, w) ==
    \A n \in BranchNodes(w) :
        \/ Base(w, n) \in {Mine(w, n), MainVersion(n)}
        \/ DerivesFrom(s, n, Mine(w, n), MainVersion(n))
Moves(w) == {n \in BranchNodes(w) : Mine(w, n) # MainVersion(n)}
Finished(w) == IF Moved(w) THEN Take(w) ELSE w

Seen(c) == [n \in Nodes |-> IF tx[c] = NoTx THEN store[n] ELSE store[n] \o tx[c].wrote[n]]
Written(s) == [n \in Nodes |-> SubSeq(s[n], Len(store[n]) + 1, Len(s[n]))]

\* Another transaction numbered a version of the node: its end is waited for.
MayNumber(c, s) ==
    \A d \in Changes \ {c}, n \in Nodes :
        tx[d] # NoTx /\ tx[d].wrote[n] # <<>> => s[n] = store[n]
Bounded(s) == \A n \in Nodes : Len(s[n]) <= MaxVersions[n]

Free(c) == change[c].open /\ tx[c] = NoTx
-----------------------------------------------------------------------------
Init ==
    /\ store = [n \in Nodes |-> <<[props |-> [p \in Props |-> Initial],
                                   parents |-> {}, by |-> NoTx]>>]
    /\ main = <<[n \in Nodes |-> {1}]>>
    /\ change = [c \in Changes |->
           [open |-> FALSE, fork |-> 1, held |-> Nothing, draft |-> [n \in Nodes |-> NoDraft]]]
    /\ tx = [c \in Changes |-> NoTx]
    /\ edited = [c \in Changes |-> Promise!Blank]
    /\ made = [c \in Changes |-> Promise!Blank]

\* A change is opened on main as it is.
Open(c) ==
    /\ ~change[c].open
    /\ change' = [change EXCEPT ![c].open = TRUE, ![c].fork = Len(main)]
    /\ UNCHANGED <<store, main, tx, edited, made>>

\* A node is checked out from what the branch reads of it, a property set and
\* the draft accepted; a draft a conflict left waits for the rest of it.
Edit(c, n, p, v) ==
    LET w == change[c]
        d == IF w.draft[n] # NoDraft THEN w.draft[n]
             ELSE [NoDraft EXCEPT !.base = Mine(w, n), !.props = store[n][Mine(w, n)].props]
    IN /\ Free(c) /\ d.props[p] # v
       /\ change' = [change EXCEPT ![c].draft[n] =
              [d EXCEPT !.props[p] = v, !.open = @ \ {p}]]
       /\ edited' = [edited EXCEPT ![c][n][p] = v]
       /\ UNCHANGED <<store, main, tx, made>>

\* A person settles the conflicts of a draft: some properties keep the value of
\* the change, @ps take main's (a draft keeps what it is rebased over as its
\* base, a merge of committed work as what it is merged with).
Settle(c, n, ps) ==
    LET d == change[c].draft[n]
        tv == IF d.with = 0 THEN d.base ELSE d.with
        settled == [p \in Props |-> IF p \in ps THEN store[n][tv].props[p] ELSE d.props[p]]
    IN /\ Free(c) /\ d.open # {} /\ ps \subseteq d.open
       /\ ~GiveUpAll => d.with = 0 \/ settled # store[n][tv].props
       /\ change' = [change EXCEPT ![c].draft[n] = [d EXCEPT !.open = {}, !.props = settled]]
       /\ edited' = [edited EXCEPT ![c][n] =
              [p \in Props |-> IF p \in ps THEN Untouched ELSE @[p]]]
       /\ UNCHANGED <<store, main, tx, made>>

\* Drafts are committed, over main as it is; a conflict keeps the rebase and
\* refuses the commit.
Commit(c, ns) ==
    LET w == RebaseDrafts(store, c, change[c], ns)
        s == Write(store, c, w, ns)
    IN /\ Free(c) /\ ns # {} /\ ns \subseteq Accepted(change[c])
       /\ ns \subseteq Accepted(w)
       /\ \A n \in ns : Stands(w, n) /\ Modifies(store, n, w.draft[n])
       /\ MayNumber(c, s) /\ Bounded(s)
       /\ store' = s
       /\ change' = [change EXCEPT ![c] = Wrote(store, w, ns)]
       /\ made' = [made EXCEPT ![c] = Promise!Over(@, Promise!Only(edited[c], ns))]
       /\ edited' = [edited EXCEPT ![c] = Promise!Without(@, ns)]
       /\ UNCHANGED <<main, tx>>
CommitInConflict(c, ns) ==
    LET w == RebaseDrafts(store, c, change[c], ns) IN
    /\ Free(c) /\ ns # {} /\ ns \subseteq Accepted(change[c])
    /\ ~(ns \subseteq Accepted(w))
    /\ change' = [change EXCEPT ![c] = w]
    /\ UNCHANGED <<store, main, tx, edited, made>>

\* The committed work of nodes is in drafts again: the merges of a rebase.
HandBack(c, ns) ==
    /\ edited' = [edited EXCEPT ![c] = Promise!Over(@, Promise!Only(made[c], ns))]
    /\ made' = [made EXCEPT ![c] = Promise!Without(@, ns)]

\* A change is rebased by its own operation.
Rebase(c) ==
    LET w == change[c]
        s == RebaseWrites(store, c, w)
    IN /\ Free(c) /\ HasCommits(store, c, w)
       /\ Moved(w) /\ CanRebase(store, w)
       /\ MayNumber(c, s) /\ Bounded(s)
       /\ store' = s
       /\ change' = [change EXCEPT ![c] = Rebased(store, c, w, FALSE)]
       /\ IF InConflict(store, w) # {} THEN HandBack(c, ToMerge(store, w))
          ELSE UNCHANGED <<edited, made>>
       /\ UNCHANGED <<main, tx>>
-----------------------------------------------------------------------------
\* A merge first rebases the change; a conflict is kept and ends it.
MergeRebase(c) ==
    LET w == change[c]
        s == RebaseWrites(store, c, w)
    IN /\ Free(c) /\ HasCommits(store, c, w)
       /\ ~MergeUnsettled => \A n \in Nodes : w.draft[n].with = 0
       /\ CanRebase(store, w)
       /\ IF Moved(w) /\ InConflict(store, w) # {}
          THEN /\ change' = [change EXCEPT ![c] = WithMerges(store, w)]
               /\ HandBack(c, ToMerge(store, w))
               /\ UNCHANGED tx
          ELSE /\ MayNumber(c, s) /\ Bounded(s)
               /\ tx' = [tx EXCEPT ![c] = [at |-> "rebased", wrote |-> Written(s),
                      work |-> Rebased(store, c, w, TRUE), head |-> 0, ok |-> FALSE, moves |-> {}]]
               /\ UNCHANGED <<change, edited, made>>
       /\ UNCHANGED <<store, main>>

\* It reads main, not locked, and takes what main holds when it moved on
\* nothing the change did.
MergeCheck(c) ==
    LET t == tx[c]
        ok == FastForwards(Seen(c), t.work)
    IN /\ t # NoTx /\ t.at = "rebased"
       /\ tx' = [tx EXCEPT ![c] = [t EXCEPT !.at = "checked", !.head = Len(main), !.ok = ok,
              !.work = IF ok THEN Finished(@) ELSE @,
              !.moves = IF ok THEN Moves(t.work) ELSE {}]]
       /\ UNCHANGED <<store, main, change, edited, made>>

\* Main takes the commits of the branch it does not hold; one with nothing to
\* move is refused.
Land(c, s, w, ns) ==
    /\ ns # {} /\ Len(main) <= MaxMerges
    /\ main' = Append(main, [n \in Nodes |-> w.held[n] \ InMain(n)])
    /\ store' = s
    /\ change' = [change EXCEPT ![c] = w]
    /\ tx' = [tx EXCEPT ![c] = NoTx]
    /\ made' = [made EXCEPT ![c] = Promise!Blank]
    /\ UNCHANGED edited

\* A mutant: the first commit main took since is not looked at.
MovedLater(t) ==
    {n \in BranchNodes(t.work) : \E i \in (t.head + 2)..Len(main) : main[i][n] # {}}
\* What main took since the merge read it, of the nodes of the branch.
MovedUnder(t) ==
    {n \in BranchNodes(t.work) : \E i \in (t.head + 1)..Len(main) : main[i][n] # {}}

\* Main is locked and stands where it was read.
MergeApply(c) ==
    LET t == tx[c] IN
    /\ t # NoTx /\ t.at = "checked" /\ t.ok
    /\ t.head = Len(main)
    /\ Land(c, Seen(c), t.work, t.moves)

\* It moved on nothing the change did: the plan stands, the branch takes it.
MergeRefork(c) ==
    LET t == tx[c] IN
    /\ t # NoTx /\ t.at = "checked" /\ t.ok
    /\ t.head < Len(main) /\ MovedUnder(t) = {}
    /\ Land(c, Seen(c), Take(t.work), t.moves)

\* It is read again, under the lock, and rebased onto when it moved on a node
\* of the change.
MergeAgain(c) ==
    LET t == tx[c]
        s == Seen(c)
        ok == FastForwards(s, t.work)
        w == IF ok THEN t.work ELSE Rebased(s, c, t.work, TRUE)
        r == IF ok THEN s ELSE RebaseWrites(s, c, t.work)
    IN /\ t # NoTx /\ t.at = "checked"
       /\ t.head < Len(main) /\ (t.ok => MovedUnder(t) # {})
       /\ ~ok => CanRebase(s, t.work)
       /\ MayNumber(c, r) /\ Bounded(r)
       /\ IF ~ok /\ Moved(t.work) /\ InConflict(s, t.work) # {}
          THEN /\ store' = s
               /\ change' = [change EXCEPT ![c] = w]
               /\ HandBack(c, ToMerge(s, t.work))
               /\ tx' = [tx EXCEPT ![c] = NoTx]
               /\ UNCHANGED main
          ELSE /\ FastForwards(r, w)
               /\ Land(c, r, Finished(w), Moves(w))

\* A merge that is refused, fails or deadlocks is rolled back.
MergeRolledBack(c) ==
    /\ tx[c] # NoTx
    /\ tx' = [tx EXCEPT ![c] = NoTx]
    /\ UNCHANGED <<store, main, change, edited, made>>

Next ==
    \E c \in Changes :
        \/ Open(c)
        \/ \E n \in Nodes, v \in ValuesOf[c] : \E p \in Editable[n] : Edit(c, n, p, v)
        \/ \E n \in Nodes, ps \in SUBSET Props : Settle(c, n, ps)
        \/ \E ns \in SUBSET Nodes : Commit(c, ns) \/ CommitInConflict(c, ns)
        \/ Rebase(c)
        \/ MergeRebase(c) \/ MergeCheck(c)
        \/ MergeApply(c) \/ MergeRefork(c) \/ MergeAgain(c) \/ MergeRolledBack(c)

Spec == Init /\ [][Next]_vars
-----------------------------------------------------------------------------
Numbers == 1..Max({MaxVersions[n] : n \in Nodes})
Version == [props : [Props -> Values], parents : SUBSET Numbers, by : Author]
Draft == [base : Numbers \cup {0}, with : Numbers \cup {0}, props : [Props -> Values],
          open : SUBSET Props]
Work == [open : BOOLEAN, fork : 1..(MaxMerges + 1), held : [Nodes -> SUBSET Numbers],
         draft : [Nodes -> Draft]]

\* The type invariant of the branches, the drafts and the merges in flight.
TypeOK ==
    /\ \A n \in Nodes, c \in Changes : \A v \in DOMAIN Seen(c)[n] : Seen(c)[n][v] \in Version
    /\ \A i \in DOMAIN main : main[i] \in [Nodes -> SUBSET Numbers]
    /\ \A c \in Changes : change[c] \in Work
    /\ \A c \in Changes : tx[c] # NoTx => tx[c].work \in Work

\* What a change committed and has not merged is what its branch reads, and
\* what it edited is in its drafts, whatever was rebased, taken or rolled back
\* in between.
WorkKept ==
    \A c \in Changes, n \in Nodes, p \in Props :
        LET w == change[c] IN
        /\ made[c][n][p] # Untouched => store[n][Mine(w, n)].props[p] = made[c][n][p]
        /\ edited[c][n][p] # Untouched => w.draft[n].props[p] = edited[c][n][p]

\* A commit brings the drafts up to date with main first (rebase_drafts.go):
\* once it has, the drafts start from what the branch holds of their nodes, and
\* the commit is not refused.
DraftsStand ==
    \A c \in Changes :
        tx[c] = NoTx =>
            \A n \in Accepted(change[c]) : Stands(RebaseDrafts(store, c, change[c], {n}), n)

\* A branch is read at its position (Tx.Position: the last commit of main it
\* holds): it never skipped one below.
HoldsPrefix ==
    \A c \in Changes, n \in Nodes :
        \A i \in (change[c].fork + 1)..Position(change[c]) : main[i][n] \subseteq change[c].held[n]

\* A merge is a fast-forward: the version it moves a node of main to derives
\* from the one main held, and what main reads of the node is that version.
MainMovesForward ==
    [][\A n \in Nodes : MainVersion(n) \in Ancestors(store', n)[MainVersion(n)']]_vars

\* Main is the work of the merges, each over the one before, and nothing else:
\* no merge loses or brings back a value, however the changes interleave.
AsPromised == Promise!Spec
=============================================================================
