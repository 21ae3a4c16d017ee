----------------------------- MODULE MCChangeMerge -----------------------------
EXTENDS ChangeMerge, TLC

CONSTANTS c1, c2, n1, n2, x, y, Old, New, MaxFirst, MaxSecond

MCChanges == {c1, c2}
MCNodes == {n1, n2}
MCProps == {x, y}

\* A value of its own for each change, or one value both may set.
MCValues == {Old, New} \cup MCChanges
OwnValue == [k \in MCChanges |-> {k}]
SameValue == [k \in MCChanges |-> {New}]

\* Every kind of three-way merge on one node, the second moving beside it.
MCEditable == n1 :> {x, y} @@ n2 :> {x}
MCOneNode == n1 :> {x, y} @@ n2 :> {}
MCVersions == n1 :> MaxFirst @@ n2 :> MaxSecond

\* The properties tell no change from another, and a change's own value is the
\* change.
Alike == Permutations(MCChanges)
=============================================================================
