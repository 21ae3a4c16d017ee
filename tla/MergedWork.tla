----------------------------- MODULE MergedWork -----------------------------
\* What main and the changes promise (docs/adr/0102, 0165, 0166, 0177): main
\* is the work of the changes laid over it one merge at a time, whatever the
\* branches, the versions and the rebases in between.  A change edits
\* properties of nodes in its drafts, commits drafts, and merges everything it
\* committed since its last merge at once.  A conflict hands committed work
\* back to the change, which keeps its values or gives some up.
CONSTANTS Changes, Nodes, Props, Values, Initial, Untouched

\* @world: what main holds; @edited: the values a change set and has not
\* committed; @made: the ones it committed and has not merged
VARIABLES world, edited, made

vars == <<world, edited, made>>

Blank == [n \in Nodes |-> [p \in Props |-> Untouched]]

\* What a node holds once values are set over it.
Over(old, set) ==
    [n \in Nodes |-> [p \in Props |-> IF set[n][p] = Untouched THEN old[n][p]
                                      ELSE set[n][p]]]

\* A set of values without those of some nodes, and those of these nodes only.
Without(set, ns) ==
    [n \in Nodes |-> IF n \in ns THEN Blank[n] ELSE set[n]]
Only(set, ns) == Without(set, Nodes \ ns)

Init ==
    /\ world = [n \in Nodes |-> [p \in Props |-> Initial]]
    /\ edited = [c \in Changes |-> Blank]
    /\ made = [c \in Changes |-> Blank]

Edit(c, n, p, v) ==
    /\ edited' = [edited EXCEPT ![c][n][p] = v]
    /\ UNCHANGED <<world, made>>

Commit(c, ns) ==
    /\ made' = [made EXCEPT ![c] = Over(@, Only(edited[c], ns))]
    /\ edited' = [edited EXCEPT ![c] = Without(@, ns)]
    /\ UNCHANGED world

Merge(c) ==
    /\ made[c] # Blank
    /\ world' = Over(world, made[c])
    /\ made' = [made EXCEPT ![c] = Blank]
    /\ UNCHANGED edited

HandBack(c, ns) ==
    /\ edited' = [edited EXCEPT ![c] = Over(@, Only(made[c], ns))]
    /\ made' = [made EXCEPT ![c] = Without(@, ns)]
    /\ UNCHANGED world

GiveUp(c, n, ps) ==
    /\ edited' = [edited EXCEPT ![c][n] =
           [p \in Props |-> IF p \in ps THEN Untouched ELSE @[p]]]
    /\ UNCHANGED <<world, made>>

Next ==
    \E c \in Changes :
        \/ \E n \in Nodes, p \in Props, v \in Values : Edit(c, n, p, v)
        \/ \E ns \in SUBSET Nodes : Commit(c, ns) \/ HandBack(c, ns)
        \/ Merge(c)
        \/ \E n \in Nodes, ps \in SUBSET Props : GiveUp(c, n, ps)

Spec == Init /\ [][Next]_vars
=============================================================================
