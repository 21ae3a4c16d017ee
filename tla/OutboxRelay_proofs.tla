------------------------- MODULE OutboxRelay_proofs -------------------------
(***************************************************************************)
(* Proofs about the outbox and its relays, for any facts, sinks, replicas  *)
(* and bounds, with or without the lease: the types, no event is left      *)
(* behind, and the relays implement the delivery promised of an outbox: in *)
(* order for each fact, none skipped, none published before it came.       *)
(***************************************************************************)
EXTENDS OutboxRelay, FiniteSetTheorems, WellFoundedInduction, TLAPS

Rows == [key : Keys, at : Replicas, state : {"open", "void", "pending", "published", "purged"}]
Leases == [holder : Replicas \union {NoRow, Gone}, live : BOOLEAN]
Drains == [pc : {"free", "hold", "look", "deliver", "mark", "empty", "leave"},
           by : {"none", "write", "run"}, list : SUBSET Msgs, done : SUBSET Msgs, failed : BOOLEAN]
Spents == [crashes : 0..MaxCrashes, faults : 0..MaxFaults]

\* The types but for the bounds on the calls of Drain and on the list of a drain.
Types ==
  /\ msg \in [Msgs -> {None} \union Rows]
  /\ lease \in Leases
  /\ calls \in [Replicas -> Nat]
  /\ drain \in [Replicas -> Drains]
  /\ again \in [Replicas -> BOOLEAN] /\ kick \in [Replicas -> BOOLEAN]
  /\ run \in [Replicas -> {"wait", "drain"}]
  /\ up \in [Replicas -> BOOLEAN] /\ missed \subseteq Replicas
  /\ log \in [Keys -> Seq(Msgs)] /\ got \in [Sinks -> [Keys -> Seq(Msgs)]]
  /\ spent \in Spents

LEMMA NoneIsNoRow == None \notin Rows /\ None.state = "none"
BY DEF None, Rows

-----------------------------------------------------------------------------
(* The oldest of a set of ranks, and the ranks below one.                   *)

LEMMA OldestOf ==
  ASSUME NEW ms \in SUBSET Msgs, ms # {}
  PROVE  Oldest(ms) \in ms /\ \A h \in ms : Oldest(ms) <= h
<1> DEFINE Below(i) == {h \in ms : h < i}
           Belows == {Below(i) : i \in ms}
<1>0. ms \subseteq Int
  BY DEF Msgs
<1>1. IsFiniteSet(ms)
  <2>1. IsFiniteSet(Msgs)
    BY FS_Interval, OutboxBounds DEF Msgs
  <2> QED BY <2>1, FS_Subset
<1>2. Belows \subseteq FiniteSubsetsOf(ms)
  BY <1>1, FS_FiniteSubsetsOfFinite
<1>3. PICK b \in Belows : \A c \in Belows : <<c, b>> \notin StrictSubsetOrdering(ms)
  <2>1. IsWellFoundedOn(StrictSubsetOrdering(ms), FiniteSubsetsOf(ms)) /\ Belows # {}
    BY FS_StrictSubsetOrderingWellFounded
  <2> HIDE DEF Belows
  <2> QED BY <1>2, <2>1, WFMin
<1>4. PICK i \in ms : b = Below(i)
  OBVIOUS
<1>5. \A h \in ms : i <= h
  <2> SUFFICES ASSUME NEW h \in ms, h < i PROVE FALSE
    BY <1>0
  <2>1. /\ \A g \in Below(h) : g \in ms /\ g < i
        /\ h \in Below(i) /\ h \notin Below(h)
    <3>1. i \in Int /\ h \in Int /\ \A g \in ms : g \in Int
      BY <1>0
    <3> QED BY <3>1
  <2>2. <<Below(h), Below(i)>> \in StrictSubsetOrdering(ms)
    BY <2>1 DEF StrictSubsetOrdering
  <2> QED BY <1>3, <1>4, <2>2
<1> QED BY <1>5 DEF Oldest

LEMMA FiniteRanks == \A ms \in SUBSET Msgs : IsFiniteSet(ms) /\ Cardinality(ms) \in Nat /\ Cardinality(ms) <= MaxMsgs
<1>1. IsFiniteSet(Msgs) /\ Cardinality(Msgs) = MaxMsgs
  BY FS_Interval, OutboxBounds DEF Msgs
<1> QED BY <1>1, FS_Subset, FS_CardinalityType

\* Pending answers no more than its limit, and at least one when there is one.
LEMMA PendingSome ==
  ASSUME NEW limit \in Nat \ {0}
  PROVE  /\ Pending(limit) \subseteq Unpublished
         /\ Cardinality(Pending(limit)) <= limit
         /\ Unpublished # {} => Pending(limit) # {}
         /\ \A m \in Pending(limit), h \in Unpublished : h < m => h \in Pending(limit)
<1> DEFINE U == Unpublished
           Below(i) == {h \in U : h < i}
           P == Pending(limit)
<1>0. U \in SUBSET Msgs /\ \A i \in U : i \in Int
  BY DEF Unpublished, Msgs
<1>1. \A i : Below(i) \in SUBSET Msgs /\ IsFiniteSet(Below(i)) /\ Cardinality(Below(i)) \in Nat
  BY <1>0, FiniteRanks
<1>2. P \subseteq U /\ \A i : i \in P <=> i \in U /\ Cardinality(Below(i)) < limit
  BY DEF Pending
<1>3. ASSUME NEW i \in U, NEW j \in U, i < j PROVE Cardinality(Below(i)) < Cardinality(Below(j))
  <2>1. Below(i) \in SUBSET Below(j) /\ i \in Below(j) /\ i \notin Below(i)
    BY <1>0, <1>3
  <2>2. Cardinality(Below(i)) <= Cardinality(Below(j)) /\ (Cardinality(Below(j)) = Cardinality(Below(i)) => Below(j) = Below(i))
    BY <1>1, <2>1, FS_Subset
  <2>3. Cardinality(Below(i)) # Cardinality(Below(j))
    BY <2>1, <2>2
  <2>4. Cardinality(Below(i)) \in Nat /\ Cardinality(Below(j)) \in Nat
    BY <1>1
  <2> HIDE DEF Below
  <2> QED BY <2>2, <2>3, <2>4
<1>4. Cardinality(P) <= limit
  <2> DEFINE f == [i \in P |-> Cardinality(Below(i))]
  <2>1. f \in [P -> 0..(limit - 1)]
    BY <1>1, <1>2
  <2>2. ASSUME NEW i \in P, NEW j \in P, f[i] = f[j] PROVE i = j
    <3>1. Cardinality(Below(i)) = Cardinality(Below(j)) /\ i \in U /\ j \in U
      BY <1>2, <2>2
    <3>2. i \in Int /\ j \in Int /\ Cardinality(Below(i)) \in Nat
      BY <1>0, <1>1, <3>1
    <3>3. ~(i < j) /\ ~(j < i)
      BY <1>3, <3>1, <3>2
    <3> QED BY <3>2, <3>3
  <2>3. f \in Injection(P, 0..(limit - 1))
    BY <2>1, <2>2 DEF Injection, IsInjective
  <2>4. IsFiniteSet(0..(limit - 1)) /\ Cardinality(0..(limit - 1)) = limit
    BY FS_Interval
  <2> HIDE DEF f, P
  <2> QED BY <2>3, <2>4, FS_Injection
<1>5. ASSUME U # {} PROVE P # {}
  <2>1. Oldest(U) \in U /\ \A h \in U : Oldest(U) <= h
    BY <1>0, <1>5, OldestOf
  <2>2. Below(Oldest(U)) = {}
    BY <1>0, <2>1
  <2>3. Cardinality(Below(Oldest(U))) = 0
    BY <2>2, FS_EmptySet
  <2> QED BY <1>2, <2>1, <2>3
<1>6. ASSUME NEW m \in P, NEW h \in U, h < m PROVE h \in P
  <2>1. m \in U /\ Cardinality(Below(m)) < limit /\ Cardinality(Below(m)) \in Nat /\ Cardinality(Below(h)) \in Nat
    BY <1>1, <1>2
  <2>2. Cardinality(Below(h)) < Cardinality(Below(m))
    BY <1>3, <1>6, <2>1
  <2>3. Cardinality(Below(h)) < limit
    BY <2>1, <2>2
  <2> QED BY <1>2, <2>3
<1> QED BY <1>2, <1>4, <1>5, <1>6

-----------------------------------------------------------------------------
(* Types.                                                                   *)

LEMMA RowUpdates ==
  ASSUME NEW m \in Rows
  PROVE  \A s \in {"void", "pending", "published", "purged"} :
           LET n == [m EXCEPT !.state = s] IN n \in Rows /\ n.key = m.key /\ n.at = m.at /\ n.state = s
BY DEF Rows

\* What a step does with an event.
Draws(i) ==
  /\ msg[i] = None /\ msg'[i] \in Rows /\ msg'[i].state = "open"
  /\ \A h \in Msgs : h < i => msg[h] # None
  /\ \A h \in Msgs : msg[h].key = msg'[i].key => msg[h].state # "open"
Turns(i, from, to) == /\ msg[i] \in Rows /\ msg'[i] \in Rows /\ msg'[i].key = msg[i].key /\ msg'[i].at = msg[i].at
                      /\ msg[i].state = from /\ msg'[i].state = to

LEMMA RowTurns ==
  ASSUME NEW i \in Msgs, msg[i] \in Rows, NEW s \in {"void", "pending", "published", "purged"},
         msg'[i] = [msg[i] EXCEPT !.state = s]
  PROVE  Turns(i, msg[i].state, s)
BY DEF Rows, Turns

MsgMoves(i) ==
  \/ msg'[i] = msg[i]
  \/ Draws(i)
  \/ Commit(i) /\ Turns(i, "open", "pending")
  \/ Turns(i, "open", "void")
  \/ (\E r \in Replicas : Mark(r) /\ i \in drain[r].done) /\ Turns(i, "pending", "published")
  \/ Turns(i, "published", "purged")

LEMMA MsgSteps ==
  ASSUME Types, Next
  PROVE  (\A i \in Msgs : MsgMoves(i)) /\ msg' \in [Msgs -> {None} \union Rows]
<1> msg \in [Msgs -> {None} \union Rows]
  BY DEF Types
<1> USE NoneIsNoRow
<1>0. \A i \in Msgs : msg[i].state # "none" => msg[i] \in Rows
  OBVIOUS
<1>1. ASSUME NEW r \in Replicas, NEW k \in Keys, PutEmitting(r, k) PROVE (\A i \in Msgs : MsgMoves(i)) /\ msg' \in [Msgs -> {None} \union Rows]
  <2>1. PICK i \in Msgs : /\ msg[i] = None /\ \A h \in 1..(i - 1) : msg[h] # None
                          /\ msg' = [msg EXCEPT ![i] = [key |-> k, at |-> r, state |-> "open"]]
    BY <1>1 DEF PutEmitting
  <2>2. [key |-> k, at |-> r, state |-> "open"] \in Rows
    BY DEF Rows
  <2>3. \A h \in Msgs : h < i => msg[h] # None
    BY <2>1 DEF Msgs
  <2>4. \A h \in Msgs : msg[h].key = k => msg[h].state # "open"
    BY <1>1 DEF PutEmitting
  <2>5. msg'[i] = [key |-> k, at |-> r, state |-> "open"]
    BY <2>1
  <2>6. Draws(i)
    BY <2>1, <2>2, <2>3, <2>4, <2>5 DEF Draws
  <2> QED BY <2>1, <2>2, <2>6 DEF MsgMoves
<1>2. ASSUME NEW i \in Msgs, Commit(i) PROVE (\A h \in Msgs : MsgMoves(h)) /\ msg' \in [Msgs -> {None} \union Rows]
  <2>1. msg[i] \in Rows /\ msg[i].state = "open" /\ msg' = [msg EXCEPT ![i] = [msg[i] EXCEPT !.state = "pending"]]
    BY <1>0, <1>2 DEF Commit
  <2>2. Turns(i, "open", "pending")
    BY <2>1, RowTurns
  <2> QED BY <1>2, <2>1, <2>2, RowUpdates DEF MsgMoves
<1>3. ASSUME NEW i \in Msgs, Rollback(i) PROVE (\A h \in Msgs : MsgMoves(h)) /\ msg' \in [Msgs -> {None} \union Rows]
  <2>1. msg[i] \in Rows /\ msg[i].state = "open" /\ msg' = [msg EXCEPT ![i] = [msg[i] EXCEPT !.state = "void"]]
    BY <1>0, <1>3 DEF Rollback
  <2>2. Turns(i, "open", "void")
    BY <2>1, RowTurns
  <2> QED BY <2>1, <2>2, RowUpdates DEF MsgMoves
<1>4. ASSUME NEW r \in Replicas, Mark(r), NEW i \in Msgs PROVE MsgMoves(i) /\ msg'[i] \in {None} \union Rows
  <2>1. CASE i \in drain[r].done /\ msg[i].state = "pending" /\ msg'[i] = [msg[i] EXCEPT !.state = "published"]
    <3>1. Turns(i, "pending", "published")
      BY <1>0, <2>1, RowTurns
    <3>2. msg'[i] \in Rows
      BY <3>1 DEF Turns
    <3> QED BY <1>4, <2>1, <3>1, <3>2 DEF MsgMoves
  <2>2. CASE msg'[i] = msg[i]
    BY <2>2 DEF MsgMoves
  <2> QED BY <1>4, <2>1, <2>2 DEF Mark
<1>5. ASSUME NEW r \in Replicas, PurgePublished(r), NEW i \in Msgs PROVE MsgMoves(i) /\ msg'[i] \in {None} \union Rows
  <2>1. CASE msg[i].state = "published" /\ msg'[i] = [msg[i] EXCEPT !.state = "purged"]
    <3>1. Turns(i, "published", "purged")
      BY <1>0, <2>1, RowTurns
    <3>2. msg'[i] \in Rows
      BY <3>1 DEF Turns
    <3> QED BY <3>1, <3>2 DEF MsgMoves
  <2>2. CASE msg'[i] = msg[i]
    BY <2>2 DEF MsgMoves
  <2> QED BY <1>5, <2>1, <2>2 DEF PurgePublished
<1>6. ASSUME NEW r \in Replicas, Crash(r), NEW i \in Msgs PROVE MsgMoves(i) /\ msg'[i] \in {None} \union Rows
  <2>1. CASE msg[i].state = "open" /\ msg'[i] = [msg[i] EXCEPT !.state = "void"]
    <3>1. Turns(i, "open", "void")
      BY <1>0, <2>1, RowTurns
    <3>2. msg'[i] \in Rows
      BY <3>1 DEF Turns
    <3> QED BY <3>1, <3>2 DEF MsgMoves
  <2>2. CASE msg'[i] = msg[i]
    BY <2>2 DEF MsgMoves
  <2> QED BY <1>6, <2>1, <2>2 DEF Crash
<1>7. ASSUME NEW r \in Replicas, Mark(r) \/ PurgePublished(r) \/ Crash(r)
      PROVE (\A i \in Msgs : MsgMoves(i)) /\ msg' \in [Msgs -> {None} \union Rows]
  <2>1. msg' = msg \/ \E f : msg' = [i \in Msgs |-> msg'[i]]
    BY <1>7 DEF Mark, PurgePublished, Crash
  <2> QED BY <1>4, <1>5, <1>6, <1>7, <2>1
<1>8. CASE UNCHANGED msg
  BY <1>8 DEF MsgMoves
<1> QED BY <1>1, <1>2, <1>3, <1>7, <1>8, Zenon
        DEF Next, Step, Drain, TakeKick, Poll, Hold, Look, Empty, Deliver, Leave, Lapse, Restart, store

\* What a step does with the drain of a replica: it keeps or drops its list, looks at the outbox, or
\* delivers the oldest message m of its list.
Keeps(q) == /\ drain'[q] \in Drains
            /\ drain'[q].list \in {drain[q].list, {}}
            /\ drain'[q].done \in {drain[q].done, {}}
            /\ drain'[q].pc = "deliver" => drain'[q] = drain[q]
Looks(q) == /\ drain'[q] \in Drains
            /\ drain'[q].list = Pending(Batch) /\ drain'[q].done = drain[q].done
            /\ drain'[q].pc = "deliver" => Unpublished # {}
            /\ UNCHANGED <<msg, log, got>>
Gives(m, to) == got' = [s \in Sinks |-> IF s \in to /\ ~Had(s, m) THEN [got[s] EXCEPT ![msg[m].key] = Append(@, m)]
                                                                  ELSE got[s]]
Delivers(q, m, to) ==
  /\ m = Oldest(drain[q].list) /\ drain[q].pc = "deliver" /\ to \subseteq Sinks
  /\ Gives(m, to)
  /\ drain'[q] \in Drains
  /\ drain'[q].pc = "deliver" => drain'[q].list # {}
  /\ \/ to = Sinks /\ drain'[q].list = drain[q].list \ {m} /\ drain'[q].done = drain[q].done \union {m}
     \/ drain'[q].list = {} /\ drain'[q].done = drain[q].done
  /\ UNCHANGED <<msg, log>>
DrainMoves(q) == Keeps(q) \/ Looks(q) \/ \E m \in Msgs, to \in SUBSET Sinks : Delivers(q, m, to)

\* A drain about to deliver has a message to deliver.
HasNext == \A r \in Replicas : drain[r].pc = "deliver" => drain[r].list # {}

LEMMA DrainSet ==
  ASSUME Types, NEW r \in Replicas, NEW d \in Drains, drain' = [drain EXCEPT ![r] = d]
  PROVE  drain'[r] = d /\ drain' \in [Replicas -> Drains] /\ \A q \in Replicas \ {r} : Keeps(q)
<1>1. drain \in [Replicas -> Drains]
  BY DEF Types
<1>2. \A q \in Replicas \ {r} : drain'[q] = drain[q] /\ drain[q] \in Drains
  BY <1>1
<1> QED BY <1>1, <1>2 DEF Keeps

LEMMA DrainKept ==
  ASSUME NEW r \in Replicas, drain[r] \in Drains, drain'[r] \in Drains, drain'[r].pc # "deliver",
         drain'[r].list \in {drain[r].list, {}}, drain'[r].done \in {drain[r].done, {}}
  PROVE  Keeps(r)
BY DEF Keeps

LEMMA DrainGoes ==
  ASSUME Types, NEW r \in Replicas, NEW l \in {"look", "leave", "hold"}, drain' = [drain EXCEPT ![r].pc = l]
  PROVE  drain' \in [Replicas -> Drains] /\ \A q \in Replicas : Keeps(q)
<1>1. drain[r] \in Drains
  BY DEF Types
<1>2. drain' = [drain EXCEPT ![r] = [drain[r] EXCEPT !.pc = l]]
  OBVIOUS
<1>3. /\ [drain[r] EXCEPT !.pc = l] \in Drains
      /\ [drain[r] EXCEPT !.pc = l].pc = l
      /\ [drain[r] EXCEPT !.pc = l].list = drain[r].list
      /\ [drain[r] EXCEPT !.pc = l].done = drain[r].done
  BY <1>1 DEF Drains
<1>4. drain'[r] = [drain[r] EXCEPT !.pc = l] /\ drain' \in [Replicas -> Drains] /\ \A q \in Replicas \ {r} : Keeps(q)
  BY <1>2, <1>3, DrainSet
<1>5. Keeps(r)
  BY <1>1, <1>3, <1>4, DrainKept
<1> QED BY <1>4, <1>5

LEMMA BeginDrain ==
  ASSUME NEW by \in {"none", "write", "run"}
  PROVE  /\ NoDrain \in Drains /\ NoDrain.pc = "free" /\ NoDrain.list = {} /\ NoDrain.done = {}
         /\ Begin(by) \in Drains /\ Begin(by).pc \in {"hold", "look"} /\ Begin(by).list = {} /\ Begin(by).done = {}
BY DEF NoDrain, Begin, Drains

LEMMA Anew ==
  ASSUME Types, NEW r \in Replicas, NEW d \in Drains, drain' = [drain EXCEPT ![r] = d],
         d.pc # "deliver", d.list = {}, d.done = {}
  PROVE  drain' \in [Replicas -> Drains] /\ \A q \in Replicas : Keeps(q)
<1>1. drain'[r] = d /\ drain' \in [Replicas -> Drains] /\ \A q \in Replicas \ {r} : Keeps(q)
  BY DrainSet
<1>2. Keeps(r)
  BY <1>1 DEF Keeps
<1> QED BY <1>1, <1>2

LEMMA LookStep ==
  ASSUME Types, NEW r \in Replicas, Look(r)
  PROVE  drain' \in [Replicas -> Drains] /\ \A q \in Replicas : DrainMoves(q)
<1> DEFINE l == IF Unpublished = {} THEN "empty" ELSE "deliver"
           d == [drain[r] EXCEPT !.pc = l, !.list = Pending(Batch)]
<1>1. CASE drain' = [drain EXCEPT ![r].pc = l, ![r].list = Pending(Batch)]
  <2>1. drain[r] \in Drains /\ Pending(Batch) \subseteq Msgs
    BY DEF Types, Pending, Unpublished
  <2>2. d \in Drains /\ d.pc = l /\ d.list = Pending(Batch) /\ d.done = drain[r].done
    BY <2>1 DEF Drains
  <2>3. drain' = [drain EXCEPT ![r] = d]
    BY <1>1 DEF Types, Drains
  <2>4. drain'[r] = d /\ drain' \in [Replicas -> Drains] /\ \A q \in Replicas \ {r} : Keeps(q)
    BY <2>2, <2>3, DrainSet
  <2>5. UNCHANGED <<msg, log, got>>
    BY DEF Look, store
  <2>6. Looks(r)
    BY <2>2, <2>4, <2>5 DEF Looks
  <2> QED BY <2>4, <2>6 DEF DrainMoves
<1>2. CASE drain' = [drain EXCEPT ![r].pc = "leave"]
  BY <1>2, DrainGoes DEF DrainMoves
<1> QED BY <1>1, <1>2 DEF Look, Goto

LEMMA DeliverStep ==
  ASSUME Types, HasNext, NEW r \in Replicas, Deliver(r)
  PROVE  /\ drain' \in [Replicas -> Drains] /\ \A q \in Replicas \ {r} : Keeps(q)
         /\ Oldest(drain[r].list) \in drain[r].list
         /\ \E to \in SUBSET Sinks : Delivers(r, Oldest(drain[r].list), to)
<1> DEFINE m == Oldest(drain[r].list)
<1>1. drain[r] \in Drains /\ drain[r].pc = "deliver" /\ drain[r].list # {} /\ drain[r].list \subseteq Msgs
  BY DEF Types, HasNext, Deliver, Drains
<1>2. m \in drain[r].list
  BY <1>1, OldestOf
<1>3. PICK to \in SUBSET Sinks, fs \in SUBSET Sinks :
        /\ to \union fs = Sinks
        /\ Gives(m, to)
        /\ LET failed == Failed(fs) rest == Rest(drain[r].list, failed) IN
          drain' = [drain EXCEPT ![r].list = rest, ![r].failed = @ \/ failed,
                                 ![r].done = IF failed THEN @ ELSE @ \union {m},
                                 ![r].pc = IF rest = {} THEN "mark" ELSE "deliver"]
  BY Zenon DEF Deliver, Gives
<1> DEFINE failed == fs # {}
           rest == IF failed THEN {} ELSE drain[r].list \ {m}
           done == IF failed THEN drain[r].done ELSE drain[r].done \union {m}
           d == [drain[r] EXCEPT !.list = rest, !.failed = @ \/ failed, !.done = done,
                                 !.pc = IF rest = {} THEN "mark" ELSE "deliver"]
<1>4. drain' = [drain EXCEPT ![r] = d]
  BY <1>3 DEF Types, Drains, Failed, Rest
<1>5. rest \subseteq Msgs /\ done \subseteq Msgs
  BY <1>1, <1>2 DEF Drains
<1>6. d \in Drains /\ d.list = rest /\ d.done = done /\ (d.pc = "deliver" => rest # {})
  <2> HIDE DEF rest, done, failed
  <2>1. (drain[r].failed \/ failed) \in BOOLEAN
    OBVIOUS
  <2> QED BY <1>1, <1>5, <2>1 DEF Drains
<1>7. drain'[r] = d /\ drain' \in [Replicas -> Drains] /\ \A q \in Replicas \ {r} : Keeps(q)
  BY <1>4, <1>6, DrainSet
<1>8. UNCHANGED <<msg, log>>
  BY DEF Deliver, store
<1>9. Delivers(r, m, to)
  <2>1. failed => rest = {} /\ done = drain[r].done
    OBVIOUS
  <2>2. ~failed => to = Sinks /\ rest = drain[r].list \ {m} /\ done = drain[r].done \union {m}
    BY <1>3
  <2> HIDE DEF d, rest, done, failed
  <2>3. drain'[r].list = rest /\ drain'[r].done = done /\ drain'[r] \in Drains /\ (drain'[r].pc = "deliver" => rest # {})
    BY <1>6, <1>7
  <2> QED BY <1>1, <1>3, <1>8, <2>1, <2>2, <2>3 DEF Delivers
<1> QED BY <1>2, <1>7, <1>9

LEMMA MarkStep ==
  ASSUME Types, NEW r \in Replicas, Mark(r)
  PROVE  drain' \in [Replicas -> Drains] /\ \A q \in Replicas : Keeps(q)
<1> DEFINE e == [drain[r] EXCEPT !.pc = "leave", !.done = {}]
<1>1. drain[r] \in Drains /\ drain[r].by \in {"none", "write", "run"}
  BY DEF Types, Drains
<1>2. e \in Drains /\ e.pc = "leave" /\ e.list = drain[r].list /\ e.done = {}
  BY <1>1 DEF Drains
<1>3. CASE drain' = [drain EXCEPT ![r] = e]
  <2> HIDE DEF e
  <2>1. drain'[r] = e /\ drain' \in [Replicas -> Drains] /\ \A q \in Replicas \ {r} : Keeps(q)
    BY <1>2, <1>3, DrainSet
  <2>2. Keeps(r)
    BY <1>1, <1>2, <2>1, DrainKept
  <2> QED BY <2>1, <2>2
<1>4. CASE drain' = [drain EXCEPT ![r] = Begin(drain[r].by)]
  BY <1>1, <1>4, BeginDrain, Anew
<1> QED BY <1>3, <1>4 DEF Mark

LEMMA DrainSteps ==
  ASSUME Types, HasNext, Next
  PROVE  drain' \in [Replicas -> Drains] /\ \A q \in Replicas : DrainMoves(q)
<1> USE DEF DrainMoves
<1>1. CASE UNCHANGED drain
  BY <1>1 DEF Keeps, Types
<1>2. ASSUME NEW r \in Replicas, NEW by \in {"write", "run"}, Locked(r, by) PROVE drain' \in [Replicas -> Drains] /\ \A q \in Replicas : Keeps(q)
  BY <1>2, BeginDrain, Anew DEF Locked
<1>3. ASSUME NEW r \in Replicas, Hold(r) PROVE drain' \in [Replicas -> Drains] /\ \A q \in Replicas : Keeps(q)
  BY <1>3, DrainGoes DEF Hold, Goto
<1>4. ASSUME NEW r \in Replicas, Empty(r) PROVE drain' \in [Replicas -> Drains] /\ \A q \in Replicas : Keeps(q)
  BY <1>4, DrainGoes, BeginDrain DEF Empty, Goto
<1>5. ASSUME NEW r \in Replicas, Leave(r) \/ Crash(r) PROVE drain' \in [Replicas -> Drains] /\ \A q \in Replicas : Keeps(q)
  BY <1>5, BeginDrain, Anew DEF Leave, Crash
<1>6. ASSUME NEW r \in Replicas, Deliver(r) PROVE drain' \in [Replicas -> Drains] /\ \A q \in Replicas : DrainMoves(q)
  <2>1. Oldest(drain[r].list) \in Msgs
    BY <1>6, DeliverStep DEF Types, Drains
  <2> QED BY <1>6, <2>1, DeliverStep
<1>7. ASSUME NEW r \in Replicas, Drain(r) \/ TakeKick(r) \/ Poll(r) PROVE drain' \in [Replicas -> Drains] /\ \A q \in Replicas : DrainMoves(q)
  BY <1>1, <1>2, <1>7 DEF Drain, TakeKick, Poll, Refused
<1>8. CASE \E i \in Msgs : Commit(i) \/ Rollback(i)
  BY <1>1, <1>8 DEF Commit, Rollback, relay
<1>9. ASSUME NEW r \in Replicas, (\E k \in Keys : PutEmitting(r, k)) \/ PurgePublished(r) \/ Restart(r) PROVE UNCHANGED drain
  BY <1>9 DEF PutEmitting, PurgePublished, Restart, relay
<1>10. CASE Lapse
  BY <1>1, <1>10 DEF Lapse, relay
<1> QED BY <1>1, <1>3, <1>4, <1>5, <1>6, <1>7, <1>8, <1>9, <1>10, LookStep, MarkStep DEF Next, Step

\* The histories grow by a commit and by a delivery only.
LEMMA LogSteps ==
  ASSUME Types, Next
  PROVE  /\ log' = log \/ \E i \in Msgs : Commit(i)
         /\ got' = got \/ \E r \in Replicas : Deliver(r)
         /\ (\E r \in Replicas : Deliver(r)) => UNCHANGED <<msg, log>>
<1>1. ASSUME NEW r \in Replicas, \/ \E k \in Keys : PutEmitting(r, k)
                                 \/ Drain(r) \/ TakeKick(r) \/ Poll(r) \/ PurgePublished(r) \/ Crash(r) \/ Restart(r)
      PROVE  UNCHANGED <<log, got>>
  <2>1. CASE (\E k \in Keys : PutEmitting(r, k)) \/ PurgePublished(r) \/ Restart(r)
    BY <2>1 DEF PutEmitting, PurgePublished, Restart
  <2>2. CASE Drain(r) \/ TakeKick(r) \/ Poll(r)
    BY <2>2 DEF Drain, TakeKick, Poll
  <2>3. CASE Crash(r)
    BY <2>3 DEF Crash
  <2> QED BY <1>1, <2>1, <2>2, <2>3
<1>2. ASSUME NEW r \in Replicas, Step(r) PROVE log' = log /\ (got' = got \/ Deliver(r))
  <2>1. CASE Hold(r) \/ Look(r) \/ Empty(r)
    BY <2>1, Zenon DEF Hold, Look, Empty
  <2>2. CASE Deliver(r)
    BY <2>2, Zenon DEF Deliver
  <2>3. CASE Mark(r) \/ Leave(r)
    BY <2>3, Zenon DEF Mark, Leave
  <2> QED BY <1>2, <2>1, <2>2, <2>3 DEF Step
<1>3. ASSUME NEW i \in Msgs, Rollback(i) PROVE UNCHANGED <<log, got>>
  BY <1>3 DEF Rollback
<1>4. ASSUME NEW i \in Msgs, Commit(i) PROVE got' = got
  BY <1>4 DEF Commit
<1>5. CASE Lapse
  BY <1>5 DEF Lapse
<1>6. ASSUME NEW r \in Replicas, Deliver(r) PROVE UNCHANGED <<msg, log>>
  BY <1>6 DEF Deliver, store
<1> QED BY <1>1, <1>2, <1>3, <1>4, <1>5, <1>6 DEF Next

LEMMA CommitStep ==
  ASSUME Types, NEW i \in Msgs, Commit(i)
  PROVE  /\ msg[i] \in Rows /\ msg[i].key \in Keys /\ msg[i].at \in Replicas
         /\ log' = [log EXCEPT ![msg[i].key] = Append(log[msg[i].key], i)]
         /\ log' \in [Keys -> Seq(Msgs)]
<1>1. msg[i] \in Rows
  BY NoneIsNoRow DEF Types, Commit
<1>2. msg[i].key \in Keys /\ msg[i].at \in Replicas
  BY <1>1 DEF Rows
<1>3. log' = [log EXCEPT ![msg[i].key] = Append(log[msg[i].key], i)]
  BY DEF Commit
<1>4. log \in [Keys -> Seq(Msgs)]
  BY DEF Types
<1> QED BY <1>1, <1>2, <1>3, <1>4

\* What a delivery of an event leaves to a sink, and to the other facts.
LEMMA GivenTo ==
  ASSUME Types, NEW m \in Msgs, msg[m].key \in Keys, NEW to \in SUBSET Sinks, Gives(m, to)
  PROVE  /\ got' \in [Sinks -> [Keys -> Seq(Msgs)]]
         /\ \A s \in Sinks, k \in Keys :
              got'[s][k] = IF k = msg[m].key /\ s \in to /\ ~Had(s, m) THEN Append(got[s][k], m) ELSE got[s][k]
<1>1. got \in [Sinks -> [Keys -> Seq(Msgs)]]
  BY DEF Types
<1>2. ASSUME NEW s \in Sinks
      PROVE  /\ got'[s] \in [Keys -> Seq(Msgs)]
             /\ \A k \in Keys : got'[s][k] = IF k = msg[m].key /\ s \in to /\ ~Had(s, m) THEN Append(got[s][k], m) ELSE got[s][k]
  <2>1. got[s] \in [Keys -> Seq(Msgs)]
    BY <1>1
  <2>2. CASE s \in to /\ ~Had(s, m)
    <3>1. got'[s] = [got[s] EXCEPT ![msg[m].key] = Append(got[s][msg[m].key], m)]
      BY <2>2 DEF Gives
    <3> QED BY <2>1, <2>2, <3>1
  <2>3. CASE ~(s \in to /\ ~Had(s, m))
    <3>1. got'[s] = got[s]
      BY <2>3 DEF Gives
    <3> QED BY <2>1, <2>3, <3>1
  <2> QED BY <2>2, <2>3
<1>3. got' = [s \in Sinks |-> got'[s]]
  BY DEF Gives
<1> QED BY <1>2, <1>3

LEMMA DeliveryStep ==
  ASSUME Types, HasNext, \A r \in Replicas : drain[r].list \subseteq Committed, NEW r \in Replicas, Deliver(r)
  PROVE  \E m \in drain[r].list, to \in SUBSET Sinks :
           /\ m \in Msgs /\ m \in Committed /\ msg[m].key \in Keys
           /\ Delivers(r, m, to) /\ Gives(m, to)
<1>1. PICK to \in SUBSET Sinks : Delivers(r, Oldest(drain[r].list), to) /\ Oldest(drain[r].list) \in drain[r].list
  BY DeliverStep
<1> DEFINE m == Oldest(drain[r].list)
<1>2. m \in Committed
  BY <1>1
<1>3. m \in Msgs /\ msg[m] \in {None} \union Rows /\ msg[m].state # "none"
  BY <1>2 DEF Types, Committed
<1>4. msg[m].key \in Keys
  BY <1>3, NoneIsNoRow DEF Rows
<1> QED BY <1>1, <1>2, <1>3, <1>4 DEF Delivers

\* Calls are made by a commit, and go by a drain or a stop only.
LEMMA CallsFrame ==
  ASSUME Next
  PROVE  \/ calls' = calls \/ \E i \in Msgs : Commit(i)
         \/ \E r \in Replicas : Drain(r) \/ Crash(r)
<1>1. ASSUME NEW r \in Replicas, Step(r) PROVE calls' = calls
  <2>1. CASE Hold(r) \/ Look(r) \/ Empty(r)
    BY <2>1, Zenon DEF Hold, Look, Empty
  <2>2. CASE Deliver(r) \/ Mark(r) \/ Leave(r)
    BY <2>2, Zenon DEF Deliver, Mark, Leave
  <2> QED BY <1>1, <2>1, <2>2 DEF Step
<1>2. ASSUME NEW r \in Replicas,
             \/ \E k \in Keys : PutEmitting(r, k)
             \/ TakeKick(r) \/ Poll(r) \/ PurgePublished(r) \/ Restart(r)
      PROVE  calls' = calls
  BY <1>2, Zenon DEF PutEmitting, TakeKick, Poll, PurgePublished, Restart, relay
<1>3. ASSUME (\E i \in Msgs : Rollback(i)) \/ Lapse PROVE calls' = calls
  BY <1>3, Zenon DEF Rollback, Lapse, relay
<1> QED BY <1>1, <1>2, <1>3 DEF Next

LEMMA TypesStep ==
  ASSUME Types, HasNext, \A r \in Replicas : drain[r].list \subseteq Committed, [Next]_vars
  PROVE  Types'
<1>1. CASE UNCHANGED vars
  BY <1>1 DEF vars, store, relay, Types
<1>2. CASE Next
  <2>1. msg' \in [Msgs -> {None} \union Rows] /\ drain' \in [Replicas -> Drains]
    BY <1>2, MsgSteps, DrainSteps
  <2>2. log' \in [Keys -> Seq(Msgs)]
    BY <1>2, LogSteps, CommitStep DEF Types
  <2>3. got' \in [Sinks -> [Keys -> Seq(Msgs)]]
    <3>1. ASSUME NEW r \in Replicas, Deliver(r) PROVE got' \in [Sinks -> [Keys -> Seq(Msgs)]]
      BY <3>1, DeliveryStep, GivenTo
    <3> QED BY <1>2, <3>1, LogSteps DEF Types
  <2>4. lease' \in Leases
    <3>1. lease \in Leases
      BY DEF Types
    <3>2. Free \in Leases /\ [lease EXCEPT !.live = FALSE] \in Leases /\ [lease EXCEPT !.holder = Gone] \in Leases
          /\ \A r \in Replicas : [holder |-> r, live |-> TRUE] \in Leases
      BY <3>1 DEF Leases, Free
    <3>3. ASSUME NEW r \in Replicas, Step(r) PROVE lease' \in {lease, Free, [holder |-> r, live |-> TRUE]}
      <4>1. CASE Hold(r)
        BY <4>1, Zenon DEF Hold
      <4>2. CASE Leave(r)
        BY <4>2, Zenon DEF Leave
      <4>3. CASE Look(r) \/ Empty(r) \/ Deliver(r) \/ Mark(r)
        BY <4>3, Zenon DEF Look, Empty, Deliver, Mark, store
      <4> QED BY <3>3, <4>1, <4>2, <4>3 DEF Step
    <3>4. ASSUME NEW r \in Replicas,
                 \/ \E k \in Keys : PutEmitting(r, k)
                 \/ Drain(r) \/ TakeKick(r) \/ Poll(r) \/ PurgePublished(r) \/ Crash(r) \/ Restart(r)
          PROVE  lease' \in {lease, [lease EXCEPT !.holder = Gone]}
      <4>1. CASE Crash(r)
        BY <4>1, Zenon DEF Crash
      <4>2. CASE ~Crash(r)
        BY <3>4, <4>2, Zenon DEF PutEmitting, Drain, TakeKick, Poll, PurgePublished, Restart, store
      <4> QED BY <4>1, <4>2
    <3>5. ASSUME (\E i \in Msgs : Commit(i) \/ Rollback(i)) \/ Lapse PROVE lease' \in {lease, [lease EXCEPT !.live = FALSE]}
      BY <3>5, Zenon DEF Commit, Rollback, Lapse
    <3>6. ASSUME NEW r \in Replicas, Step(r) PROVE lease' \in Leases
      BY <3>1, <3>2, <3>3, <3>6
    <3>7. ASSUME NEW r \in Replicas,
                 \/ \E k \in Keys : PutEmitting(r, k)
                 \/ Drain(r) \/ TakeKick(r) \/ Poll(r) \/ PurgePublished(r) \/ Crash(r) \/ Restart(r)
          PROVE  lease' \in Leases
      BY <3>1, <3>2, <3>4, <3>7
    <3>8. ASSUME (\E i \in Msgs : Commit(i) \/ Rollback(i)) \/ Lapse PROVE lease' \in Leases
      BY <3>1, <3>2, <3>5, <3>8
    <3> QED BY <1>2, <3>6, <3>7, <3>8 DEF Next
  <2>5. spent' \in Spents
    <3>1. spent \in Spents
      BY DEF Types
    <3>2. Fault => spent' \in Spents
      BY <3>1, OutboxBounds DEF Fault, Spents
    <3>3. ASSUME NEW r \in Replicas, Crash(r) PROVE spent' \in Spents
      <4> DEFINE n == spent.crashes + 1
      <4>1. spent' = [spent EXCEPT !.crashes = n] /\ spent.crashes < MaxCrashes
        BY <3>3 DEF Crash
      <4>2. n \in 0..MaxCrashes /\ spent.faults \in 0..MaxFaults
        BY <3>1, <4>1, OutboxBounds DEF Spents
      <4>3. spent' = [crashes |-> n, faults |-> spent.faults]
        BY <3>1, <4>1 DEF Spents
      <4> HIDE DEF n
      <4> QED BY <4>2, <4>3 DEF Spents
    <3>4. ASSUME NEW r \in Replicas, Step(r) PROVE spent' \in Spents
      BY <3>1, <3>2, <3>4, Zenon DEF Step, Hold, Look, Empty, Deliver, Mark, Leave
    <3> QED BY <1>2, <3>1, <3>2, <3>3, <3>4
            DEF Next, PutEmitting, Commit, Rollback, Drain, TakeKick, Poll, PurgePublished, Lapse, Restart
  <2>6. calls' \in [Replicas -> Nat]
    <3>0. calls \in [Replicas -> Nat]
      BY DEF Types
    <3>1. ASSUME NEW r \in Replicas, Drain(r) PROVE calls' \in [Replicas -> Nat]
      BY <3>0, <3>1 DEF Drain
    <3>2. ASSUME NEW i \in Msgs, Commit(i) PROVE calls' \in [Replicas -> Nat]
      <4>1. calls' = [calls EXCEPT ![msg[i].at] = calls[msg[i].at] + 1] /\ msg[i].at \in Replicas
        BY <3>2, CommitStep DEF Commit
      <4> QED BY <3>0, <4>1
    <3>3. ASSUME NEW r \in Replicas, Crash(r) PROVE calls' \in [Replicas -> Nat]
      BY <3>0, <3>3 DEF Crash
    <3> QED BY <1>2, <3>0, <3>1, <3>2, <3>3, CallsFrame
  <2>7. again' \in [Replicas -> BOOLEAN] /\ kick' \in [Replicas -> BOOLEAN]
    <3>0. again \in [Replicas -> BOOLEAN] /\ kick \in [Replicas -> BOOLEAN]
      BY DEF Types
    <3>1. ASSUME NEW r \in Replicas
          PROVE  [again EXCEPT ![r] = TRUE] \in [Replicas -> BOOLEAN] /\ [again EXCEPT ![r] = FALSE] \in [Replicas -> BOOLEAN]
                 /\ [kick EXCEPT ![r] = TRUE] \in [Replicas -> BOOLEAN] /\ [kick EXCEPT ![r] = FALSE] \in [Replicas -> BOOLEAN]
      BY <3>0
    <3>2. ASSUME NEW r \in Replicas, Step(r) \/ Drain(r) \/ TakeKick(r) \/ Poll(r) \/ Crash(r) PROVE again' \in [Replicas -> BOOLEAN] /\ kick' \in [Replicas -> BOOLEAN]
      <4>1. CASE Hold(r) \/ Drain(r) \/ Crash(r)
        BY <3>0, <3>1, <4>1, Zenon DEF Drain, Hold, Crash, Locked, Refused, Kicked, Reset
      <4>2. CASE Look(r) \/ Empty(r) \/ Deliver(r)
        BY <3>0, <3>1, <4>2, Zenon DEF Look, Empty, Deliver, Locked, Refused, Kicked, Reset
      <4>3. CASE Mark(r) \/ Leave(r) \/ TakeKick(r) \/ Poll(r)
        BY <3>0, <3>1, <4>3, Zenon DEF Mark, Leave, TakeKick, Poll, Locked, Refused, Kicked, Reset
      <4> QED BY <3>2, <4>1, <4>2, <4>3 DEF Step
    <3> QED BY <1>2, <3>0, <3>2 DEF Next, PutEmitting, Commit, Rollback, PurgePublished, Lapse, Restart, relay
  <2>8. run' \in [Replicas -> {"wait", "drain"}] /\ up' \in [Replicas -> BOOLEAN] /\ missed' \subseteq Replicas
    <3>0. run \in [Replicas -> {"wait", "drain"}] /\ up \in [Replicas -> BOOLEAN] /\ missed \subseteq Replicas
      BY DEF Types
    <3>1. ASSUME NEW r \in Replicas, TakeKick(r) \/ Poll(r) \/ Leave(r) \/ Crash(r) PROVE run' \in [Replicas -> {"wait", "drain"}]
      BY <3>0, <3>1 DEF TakeKick, Poll, Leave, Crash
    <3> DEFINE Fine == run' \in [Replicas -> {"wait", "drain"}] /\ up' \in [Replicas -> BOOLEAN] /\ missed' \subseteq Replicas
    <3>2. ASSUME NEW r \in Replicas, Step(r) PROVE Fine
      <4>1. up' = up
        <5>1. CASE Hold(r) \/ Look(r) \/ Empty(r)
          BY <5>1, Zenon DEF Hold, Look, Empty
        <5>2. CASE Deliver(r) \/ Mark(r) \/ Leave(r)
          BY <5>2, Zenon DEF Deliver, Mark, Leave
        <5> QED BY <3>2, <5>1, <5>2 DEF Step
      <4>2. missed' \subseteq Replicas
        <5>1. CASE Hold(r) \/ Look(r) \/ Empty(r)
          BY <3>0, <5>1 DEF Hold, Look, Empty
        <5>2. CASE Deliver(r) \/ Leave(r)
          BY <3>0, <5>2 DEF Deliver, Leave
        <5>3. CASE Mark(r)
          BY <3>0, <5>3 DEF Mark
        <5> QED BY <3>2, <5>1, <5>2, <5>3 DEF Step
      <4>3. run' = run \/ Leave(r)
        BY <3>2 DEF Step, Hold, Look, Empty, Deliver, Mark
      <4> QED BY <3>0, <3>1, <4>1, <4>2, <4>3
    <3>3. ASSUME NEW r \in Replicas, TakeKick(r) \/ Poll(r) PROVE Fine
      BY <3>0, <3>1, <3>3 DEF TakeKick, Poll
    <3>4. ASSUME NEW r \in Replicas, Crash(r) PROVE Fine
      BY <3>0, <3>1, <3>4 DEF Crash
    <3>5. ASSUME NEW r \in Replicas, Restart(r) PROVE Fine
      BY <3>0, <3>5 DEF Restart
    <3>6. ASSUME NEW r \in Replicas, (\E k \in Keys : PutEmitting(r, k)) \/ Drain(r) \/ PurgePublished(r)
          PROVE  UNCHANGED <<run, up, missed>>
      BY <3>6 DEF PutEmitting, Drain, PurgePublished, relay
    <3>7. ASSUME NEW i \in Msgs, Commit(i) \/ Rollback(i) PROVE UNCHANGED <<run, up, missed>>
      BY <3>7 DEF Commit, Rollback, relay
    <3>8. Lapse => UNCHANGED <<run, up, missed>>
      BY DEF Lapse, relay
    <3> QED BY <1>2, <3>0, <3>2, <3>3, <3>4, <3>5, <3>6, <3>7, <3>8 DEF Next
  <2> QED BY <2>1, <2>2, <2>3, <2>4, <2>5, <2>6, <2>7, <2>8 DEF Types
<1> QED BY <1>1, <1>2

-----------------------------------------------------------------------------
(* The ranks: drawn one after the other, and the write of a fact under way  *)
(* has the last of its ranks.                                               *)

Filled == \A i, h \in Msgs : i < h /\ msg[i] = None => msg[h] = None
OpenLast == \A i, h \in Msgs : msg[i].state = "open" /\ msg[h] # None /\ msg[h].key = msg[i].key => h <= i

\* An event committed stays so, with its fact.
LEMMA RowsStay ==
  ASSUME Types, NEW i \in Msgs, MsgMoves(i)
  PROVE  /\ i \in Committed => i \in Committed' /\ msg'[i].key = msg[i].key
         /\ i \in Committed' => i \in Committed \/ Commit(i)
         /\ msg'[i] = None => msg[i] = None
         /\ msg[i] # None => msg'[i].key = msg[i].key
         /\ msg'[i].state = "open" => msg'[i] = msg[i] \/ Draws(i)
         /\ msg[i] # None /\ msg'[i] # None => msg'[i].key = msg[i].key
<1>1. CASE msg'[i] = msg[i]
  BY <1>1 DEF Committed
<1>2. CASE Draws(i)
  BY <1>2, NoneIsNoRow DEF Draws, Committed
<1>3. CASE Commit(i) /\ Turns(i, "open", "pending")
  BY <1>3, NoneIsNoRow DEF Turns, Committed
<1>4. CASE \E from, to \in {"open", "void", "pending", "published", "purged"} :
             /\ Turns(i, from, to)
             /\ <<from, to>> \in {<<"open", "void">>, <<"pending", "published">>, <<"published", "purged">>}
  BY <1>4, NoneIsNoRow DEF Turns, Committed
<1> QED BY <1>1, <1>2, <1>3, <1>4 DEF MsgMoves

LEMMA RanksStep ==
  ASSUME Types, Filled, OpenLast, \A i \in Msgs : MsgMoves(i)
  PROVE  Filled' /\ OpenLast'
<1> \A i \in Msgs : i \in Int
  BY DEF Msgs
<1>1. Filled'
  <2> SUFFICES ASSUME NEW i \in Msgs, NEW h \in Msgs, i < h, msg'[i] = None PROVE msg'[h] = None
    BY DEF Filled
  <2>1. msg[i] = None /\ msg[h] = None
    BY RowsStay DEF Filled
  <2>2. ~Draws(h)
    BY <2>1 DEF Draws
  <2>3. msg[h].state = "none"
    BY <2>1, NoneIsNoRow
  <2> QED BY <2>1, <2>2, <2>3 DEF MsgMoves, Turns
<1>2. OpenLast'
  <2> SUFFICES ASSUME NEW i \in Msgs, NEW h \in Msgs, msg'[i].state = "open", msg'[h] # None, msg'[h].key = msg'[i].key
               PROVE  h <= i
    BY DEF OpenLast
  <2>1. CASE msg'[i] = msg[i]
    <3>0. msg[i].state = "open" /\ msg[i] # None
      BY <2>1, NoneIsNoRow
    <3>1. CASE msg[h] = None
      <4>1. Draws(h)
        BY <3>1, NoneIsNoRow DEF MsgMoves, Turns
      <4> QED BY <2>1, <3>0, <4>1 DEF Draws
    <3>2. CASE msg[h] # None
      <4>1. msg[h].key = msg[i].key
        BY <2>1, <3>2, RowsStay
      <4> QED BY <3>0, <3>2, <4>1 DEF OpenLast
    <3> QED BY <3>1, <3>2
  <2>2. CASE Draws(i)
    <3> SUFFICES ASSUME i < h PROVE FALSE
      OBVIOUS
    <3>1. msg[i] = None /\ msg[h] = None
      BY <2>2 DEF Draws, Filled
    <3>2. Draws(h)
      BY <3>1, NoneIsNoRow DEF MsgMoves, Turns
    <3> QED BY <3>1, <3>2 DEF Draws
  <2> QED BY <2>1, <2>2, RowsStay
<1> QED BY <1>1, <1>2

-----------------------------------------------------------------------------
(* The histories: the events of a fact are its committed ones, by rank, and *)
(* each sink has the first of them.                                         *)

Logged ==
  \A k \in Keys : /\ \A n \in 1..Len(log[k]) : log[k][n] \in Committed /\ msg[log[k][n]].key = k
                  /\ \A n, o \in 1..Len(log[k]) : n < o => log[k][n] < log[k][o]
InLog == \A i \in Committed : \E n \in 1..Len(log[msg[i].key]) : log[msg[i].key][n] = i
Prefix ==
  \A s \in Sinks, k \in Keys : /\ Len(got[s][k]) <= Len(log[k])
                               /\ \A n \in 1..Len(got[s][k]) : got[s][k][n] = log[k][n]
Histories == Logged /\ InLog /\ Prefix

LEMMA CommittedRow ==
  ASSUME Types, NEW i \in Committed
  PROVE  i \in Msgs /\ msg[i] \in Rows /\ msg[i].key \in Keys /\ msg[i] # None
<1>1. i \in Msgs /\ msg[i] \in {None} \union Rows /\ msg[i].state # "none"
  BY DEF Types, Committed
<1> QED BY <1>1, NoneIsNoRow DEF Rows

LEMMA HistoriesKept ==
  ASSUME Types, Histories, \A i \in Msgs : MsgMoves(i), UNCHANGED <<log, got>>, \A i \in Msgs : ~Commit(i)
  PROVE  Histories'
<1>1. \A i \in Committed : i \in Committed' /\ msg'[i].key = msg[i].key
  BY CommittedRow, RowsStay
<1>2. Committed' = Committed
  <2>1. Committed' \subseteq Msgs
    BY DEF Committed
  <2> QED BY <1>1, <2>1, RowsStay
<1> QED BY <1>1, <1>2 DEF Histories, Logged, InLog, Prefix

LEMMA HistoriesCommit ==
  ASSUME Types, Histories, OpenLast, \A i \in Msgs : MsgMoves(i), NEW i \in Msgs, Commit(i)
  PROVE  Histories'
<1> DEFINE K == msg[i].key
           L == Len(log[K])
<1>0. K \in Keys /\ log' = [log EXCEPT ![K] = Append(log[K], i)] /\ log \in [Keys -> Seq(Msgs)] /\ log' \in [Keys -> Seq(Msgs)]
  BY CommitStep DEF Types
<1>1. \A j \in Committed : j \in Committed' /\ msg'[j].key = msg[j].key
  BY CommittedRow, RowsStay
<1>2. msg[i].state = "open" /\ msg'[i].key = K /\ i \in Committed' /\ i \notin Committed
  <2>1. msg' = [msg EXCEPT ![i] = [msg[i] EXCEPT !.state = "pending"]] /\ msg[i].state = "open" /\ msg[i] \in Rows
    BY CommitStep DEF Commit
  <2>2. msg'[i] = [msg[i] EXCEPT !.state = "pending"]
    <3>1. msg \in [Msgs -> {None} \union Rows]
      BY DEF Types
    <3> QED BY <2>1, <3>1
  <2>3. Turns(i, "open", "pending")
    BY <2>1, <2>2, RowTurns
  <2> QED BY <2>1, <2>3 DEF Committed, Turns
<1>3. Committed' = Committed \union {i}
  <2>1. \A j \in Msgs : j # i => ~Commit(j)
    <3>1. \A j \in Msgs : Commit(j) => log' = [log EXCEPT ![msg[j].key] = Append(log[msg[j].key], j)] /\ msg[j].key \in Keys
      BY CommitStep
    <3>2. ASSUME NEW j \in Msgs, Commit(j) PROVE j = i
      <4>1. msg[j].state = "open" /\ msg'[j].state = "pending" /\ msg' = [msg EXCEPT ![i].state = "pending"]
        <5>1. msg[j] \in Rows /\ msg' = [msg EXCEPT ![j] = [msg[j] EXCEPT !.state = "pending"]]
          BY <3>2, CommitStep DEF Commit
        <5>2. msg'[j] = [msg[j] EXCEPT !.state = "pending"]
          <6>1. msg \in [Msgs -> {None} \union Rows]
            BY DEF Types
          <6> QED BY <5>1, <6>1
        <5>3. Turns(j, msg[j].state, "pending")
          BY <5>1, <5>2, RowTurns
        <5> QED BY <3>2, <5>3 DEF Commit, Turns
      <4> QED BY <4>1 DEF Types
    <3> QED BY <3>2
  <2>2. Committed' \subseteq Msgs
    BY DEF Committed
  <2> QED BY <1>1, <1>2, <2>1, <2>2, RowsStay
<1>4. /\ log[K] \in Seq(Msgs) /\ L \in Nat /\ log'[K] = Append(log[K], i) /\ Len(log'[K]) = L + 1
      /\ log'[K][L + 1] = i /\ \A n \in 1..L : log'[K][n] = log[K][n]
      /\ \A k \in Keys : k # K => log'[k] = log[k]
  <2>1. log[K] \in Seq(Msgs) /\ log'[K] = Append(log[K], i) /\ \A k \in Keys : k # K => log'[k] = log[k]
    BY <1>0
  <2> HIDE DEF K
  <2> QED BY <2>1
<1>5. \A n \in 1..L : log[K][n] \in Committed /\ msg[log[K][n]].key = K
  BY <1>0 DEF Histories, Logged
<1>6. \A n \in 1..L : log[K][n] < i
  <2> TAKE n \in 1..L
  <2>1. log[K][n] \in Msgs /\ msg[log[K][n]] # None /\ log[K][n] # i
    BY <1>2, <1>5, CommittedRow
  <2>2. log[K][n] <= i
    BY <1>2, <1>5, <2>1 DEF OpenLast
  <2> QED BY <2>1, <2>2 DEF Msgs
<1>7. Logged'
  <2> SUFFICES ASSUME NEW k \in Keys
               PROVE  /\ \A n \in 1..Len(log'[k]) : log'[k][n] \in Committed' /\ msg'[log'[k][n]].key = k
                      /\ \A n, o \in 1..Len(log'[k]) : n < o => log'[k][n] < log'[k][o]
    BY DEF Logged
  <2>1. CASE k # K
    BY <1>1, <1>4, <2>1 DEF Histories, Logged
  <2>2. CASE k = K
    <3>1. ASSUME NEW n \in 1..(L + 1) PROVE log'[K][n] \in Committed' /\ msg'[log'[K][n]].key = K
      <4>1. n \in 1..L \/ n = L + 1
        BY <1>4
      <4> HIDE DEF K, L
      <4> QED BY <1>1, <1>2, <1>4, <1>5, <4>1
    <3>2. ASSUME NEW n \in 1..(L + 1), NEW o \in 1..(L + 1), n < o PROVE log'[K][n] < log'[K][o]
      <4>1. n \in 1..L /\ (o \in 1..L \/ o = L + 1)
        <5>1. L \in Nat
          BY <1>4
        <5> HIDE DEF L
        <5> QED BY <3>2, <5>1
      <4>2. o \in 1..L => log[K][n] < log[K][o]
        BY <1>0, <3>2, <4>1 DEF Histories, Logged
      <4> HIDE DEF K, L
      <4> QED BY <1>4, <1>6, <4>1, <4>2
    <3> HIDE DEF K, L
    <3> QED BY <1>4, <2>2, <3>1, <3>2
  <2> QED BY <2>1, <2>2
<1>8. InLog'
  <2> SUFFICES ASSUME NEW j \in Committed' PROVE \E n \in 1..Len(log'[msg'[j].key]) : log'[msg'[j].key][n] = j
    BY DEF InLog
  <2>1. CASE j = i
    <3>1. L + 1 \in 1..Len(log'[K])
      BY <1>4
    <3> QED BY <1>2, <1>4, <2>1, <3>1
  <2>2. CASE j \in Committed
    <3>1. PICK n \in 1..Len(log[msg[j].key]) : log[msg[j].key][n] = j
      BY <2>2 DEF Histories, InLog
    <3>2. msg'[j].key = msg[j].key /\ msg[j].key \in Keys
      BY <1>1, <2>2, CommittedRow
    <3>3. n \in 1..Len(log'[msg[j].key]) /\ log'[msg[j].key][n] = log[msg[j].key][n]
      <4>1. CASE msg[j].key = K
        BY <1>4, <4>1
      <4>2. CASE msg[j].key # K
        BY <1>4, <3>2, <4>2
      <4> QED BY <4>1, <4>2
    <3> QED BY <3>1, <3>2, <3>3
  <2> QED BY <1>3, <2>1, <2>2
<1>9. Prefix'
  <2>1. got' = got
    BY DEF Commit
  <2> SUFFICES ASSUME NEW s \in Sinks, NEW k \in Keys
               PROVE  /\ Len(got[s][k]) <= Len(log'[k])
                      /\ \A n \in 1..Len(got[s][k]) : got[s][k][n] = log'[k][n]
    BY <2>1 DEF Prefix
  <2>2. Len(got[s][k]) \in Nat /\ Len(got[s][k]) <= Len(log[k]) /\ \A n \in 1..Len(got[s][k]) : got[s][k][n] = log[k][n]
    BY DEF Types, Histories, Prefix
  <2>3. CASE k = K
    <3> DEFINE G == Len(got[s][k])
    <3>1. G \in Nat /\ G <= L
      BY <2>2, <2>3
    <3>2. Len(log'[k]) = L + 1 /\ \A n \in 1..L : log'[k][n] = log[k][n]
      BY <1>4, <2>3
    <3>3. L \in Nat
      BY <1>4
    <3> HIDE DEF L, K
    <3>4. 1..G \subseteq 1..L /\ G <= L + 1
      BY <3>1, <3>3
    <3> QED BY <2>2, <3>2, <3>4
  <2>4. CASE k # K
    BY <1>4, <2>2, <2>4
  <2> QED BY <2>3, <2>4
<1> QED BY <1>7, <1>8, <1>9 DEF Histories

-----------------------------------------------------------------------------
(* The lists of the drains: the earlier events of a fact are in the list,   *)
(* or they have reached every sink.                                         *)

Reached(i) == \A s \in Sinks : Had(s, i)
ReachedAll ==
  /\ \A i \in Msgs : msg[i].state \in {"published", "purged"} => Reached(i)
  /\ \A r \in Replicas : \A i \in drain[r].done : Reached(i)
Held == \A r \in Replicas : /\ drain[r].list \subseteq Committed /\ drain[r].done \subseteq Committed
                            /\ Cardinality(drain[r].list) <= Batch
Behind == \A r \in Replicas : \A m \in drain[r].list, h \in Committed :
            h < m /\ msg[h].key = msg[m].key => h \in drain[r].list \/ Reached(h)
Lists == HasNext /\ Held /\ Behind

\* The oldest event of a list is the next one of its fact for a sink that has not had it.
LEMMA NextOf ==
  ASSUME Types, Histories, Lists, NEW r \in Replicas, NEW m \in drain[r].list, m = Oldest(drain[r].list),
         NEW s \in Sinks, ~Had(s, m)
  PROVE  LET k == msg[m].key IN
         /\ k \in Keys /\ Len(got[s][k]) + 1 \in 1..Len(log[k])
         /\ log[k][Len(got[s][k]) + 1] = m
<1> DEFINE k == msg[m].key
           G == Len(got[s][k])
           L == Len(log[k])
<1>1. m \in Committed /\ drain[r].list \subseteq Committed
  BY DEF Lists, Held
<1>2. k \in Keys /\ m \in Msgs
  BY <1>1, CommittedRow
<1>3. log[k] \in Seq(Msgs) /\ got[s][k] \in Seq(Msgs) /\ L \in Nat /\ G \in Nat /\ G <= L
  BY <1>2 DEF Types, Histories, Prefix
<1>4. PICK n \in 1..L : log[k][n] = m
  BY <1>1 DEF Histories, InLog
<1>5. ~(n <= G)
  <2> SUFFICES ASSUME n <= G PROVE FALSE
    OBVIOUS
  <2>1. n \in 1..G
    BY <1>3
  <2>2. got[s][k][n] = m
    BY <1>2, <1>4, <2>1 DEF Histories, Prefix
  <2> QED BY <1>2, <2>1, <2>2 DEF Had
<1>6. G + 1 \in 1..L /\ (n = G + 1 \/ G + 1 < n)
  <2> HIDE DEF G, L, k
  <2> QED BY <1>3, <1>5
<1>7. ~(G + 1 < n)
  <2> SUFFICES ASSUME G + 1 < n PROVE FALSE
    OBVIOUS
  <2> DEFINE h == log[k][G + 1]
  <2>1. h < m /\ h \in Committed /\ msg[h].key = k
    <3>1. G + 1 \in 1..L /\ n \in 1..L
      BY <1>4, <1>6
    <3>2. log[k][G + 1] < log[k][n]
      BY <1>2, <3>1, Zenon DEF Histories, Logged
    <3>3. log[k][G + 1] \in Committed /\ msg[log[k][G + 1]].key = k
      BY <1>2, <3>1, Zenon DEF Histories, Logged
    <3> QED BY <1>4, <3>2, <3>3
  <2>2. h \in drain[r].list \/ Reached(h)
    BY <1>1, <2>1, Zenon DEF Lists, Behind
  <2>3. h \notin drain[r].list
    <3>1. drain[r].list \subseteq Msgs /\ drain[r].list # {}
      BY <1>1 DEF Committed
    <3>2. \A g \in drain[r].list : m <= g
      BY <3>1, OldestOf
    <3>3. h \in Msgs
      BY <2>1, Zenon DEF Committed
    <3>4. m \in Msgs
      BY <1>2
    <3> HIDE DEF h
    <3>5. h \in Nat /\ m \in Nat /\ h < m
      BY <2>1, <3>3, <3>4 DEF Msgs
    <3>6. ~(m <= h)
      BY <3>5
    <3> QED BY <3>2, <3>6
  <2>4. PICK j \in Keys : \E o \in 1..Len(got[s][j]) : got[s][j][o] = h
    <3>1. Had(s, h)
      BY <2>2, <2>3 DEF Reached
    <3> HIDE DEF h
    <3> QED BY <3>1 DEF Had
  <2>5. PICK o \in 1..Len(got[s][j]) : got[s][j][o] = h
    BY <2>4, Zenon
  <2>6. Len(got[s][j]) \in Nat /\ Len(log[j]) \in Nat /\ Len(got[s][j]) <= Len(log[j]) /\ log[j][o] = h
    BY <2>5 DEF Types, Histories, Prefix
  <2>7. o \in 1..Len(log[j])
    BY <2>6
  <2>8. msg[log[j][o]].key = j
    BY <2>7 DEF Histories, Logged
  <2>9. j = k
    BY <2>1, <2>6, <2>8
  <2>10. o \in 1..G /\ o \in 1..L /\ log[k][o] = h
    BY <2>5, <2>6, <2>7, <2>9
  <2>11. o < G + 1
    <3> HIDE DEF G
    <3> QED BY <1>3, <2>10
  <2>12. log[k][o] < log[k][G + 1]
    BY <1>2, <1>6, <2>10, <2>11 DEF Histories, Logged
  <2>13. h \in Msgs /\ h < h
    BY <2>1, <2>10, <2>12, Zenon DEF Committed
  <2> HIDE DEF h
  <2> QED BY <2>13 DEF Msgs
<1> QED BY <1>2, <1>4, <1>6, <1>7

\* What a sink has had it keeps.
LEMMA HadGrows ==
  ASSUME Types, NEW m \in Msgs, msg[m].key \in Keys, NEW to \in SUBSET Sinks, Gives(m, to)
  PROVE  /\ \A s \in Sinks : \A i : Had(s, i) => Had(s, i)'
         /\ \A s \in to : Had(s, m)'
<1>1. \A s \in Sinks, k \in Keys :
        got'[s][k] = IF k = msg[m].key /\ s \in to /\ ~Had(s, m) THEN Append(got[s][k], m) ELSE got[s][k]
  BY GivenTo
<1>2. \A s \in Sinks, k \in Keys : got[s][k] \in Seq(Msgs)
  BY DEF Types
<1>3. ASSUME NEW s \in Sinks, NEW i, Had(s, i) PROVE Had(s, i)'
  <2>1. PICK k \in Keys : \E n \in 1..Len(got[s][k]) : got[s][k][n] = i
    BY <1>3 DEF Had
  <2>2. PICK n \in 1..Len(got[s][k]) : got[s][k][n] = i
    BY <2>1
  <2>3. got[s][k] \in Seq(Msgs) /\ got'[s][k] \in {got[s][k], Append(got[s][k], m)}
    BY <1>1, <1>2
  <2>4. n \in 1..Len(got'[s][k]) /\ got'[s][k][n] = i
    <3> DEFINE q == got[s][k]
    <3>1. CASE got'[s][k] = q
      BY <2>2, <3>1
    <3>2. CASE got'[s][k] = Append(q, m)
      <4>1. q \in Seq(Msgs) /\ n \in 1..Len(q) /\ q[n] = i
        BY <2>2, <2>3
      <4> HIDE DEF q
      <4>2. Len(Append(q, m)) = Len(q) + 1 /\ Append(q, m)[n] = q[n]
        BY <4>1
      <4> QED BY <3>2, <4>1, <4>2
    <3> QED BY <2>3, <3>1, <3>2
  <2> QED BY <2>4 DEF Had
<1>4. ASSUME NEW s \in to, ~Had(s, m) PROVE Had(s, m)'
  <2> DEFINE k == msg[m].key
  <2>1. got[s][k] \in Seq(Msgs) /\ got'[s][k] = Append(got[s][k], m)
    BY <1>1, <1>2, <1>4
  <2>2. Len(got[s][k]) + 1 \in 1..Len(got'[s][k]) /\ got'[s][k][Len(got[s][k]) + 1] = m
    <3> DEFINE q == got[s][k]
    <3> HIDE DEF q, k
    <3>1. q \in Seq(Msgs) => Len(q) + 1 \in 1..Len(Append(q, m)) /\ Append(q, m)[Len(q) + 1] = m
      OBVIOUS
    <3> USE DEF q
    <3> QED BY <2>1, <3>1
  <2>3. k \in Keys
    OBVIOUS
  <2> QED BY <2>2, <2>3 DEF Had
<1> QED BY <1>3, <1>4

\* Every step keeps what the sinks have had.
LEMMA ReachedStays ==
  ASSUME Types, Lists, Next
  PROVE  \A i : Reached(i) => Reached(i)'
<1>1. CASE got' = got
  BY <1>1 DEF Reached, Had
<1>2. ASSUME NEW r \in Replicas, Deliver(r) PROVE \A i : Reached(i) => Reached(i)'
  <2>1. PICK m \in drain[r].list, to \in SUBSET Sinks : m \in Msgs /\ msg[m].key \in Keys /\ Gives(m, to)
    BY <1>2, DeliveryStep DEF Lists, Held
  <2>2. \A s \in Sinks : \A i : Had(s, i) => Had(s, i)'
    BY <2>1, HadGrows
  <2> QED BY <2>2 DEF Reached
<1> QED BY <1>1, <1>2, LogSteps

LEMMA HistoriesDeliver ==
  ASSUME Types, Histories, Lists, NEW r \in Replicas, Deliver(r)
  PROVE  Histories'
<1>1. PICK m \in drain[r].list, to \in SUBSET Sinks :
        m \in Msgs /\ msg[m].key \in Keys /\ Delivers(r, m, to) /\ Gives(m, to)
  BY DeliveryStep DEF Lists, Held
<1>2. m = Oldest(drain[r].list) /\ UNCHANGED <<msg, log>>
  BY <1>1 DEF Delivers
<1>3. Logged' /\ InLog'
  BY <1>2 DEF Histories, Logged, InLog, Committed
<1>4. Prefix'
  <2> SUFFICES ASSUME NEW s \in Sinks, NEW k \in Keys
               PROVE  /\ Len(got'[s][k]) <= Len(log[k])
                      /\ \A n \in 1..Len(got'[s][k]) : got'[s][k][n] = log[k][n]
    BY <1>2 DEF Prefix
  <2>1. got'[s][k] = IF k = msg[m].key /\ s \in to /\ ~Had(s, m) THEN Append(got[s][k], m) ELSE got[s][k]
    BY <1>1, GivenTo
  <2>2. got[s][k] \in Seq(Msgs) /\ Len(log[k]) \in Nat /\ Len(got[s][k]) <= Len(log[k])
        /\ \A n \in 1..Len(got[s][k]) : got[s][k][n] = log[k][n]
    BY DEF Types, Histories, Prefix
  <2>3. CASE got'[s][k] = got[s][k]
    BY <2>2, <2>3
  <2>4. CASE k = msg[m].key /\ ~Had(s, m) /\ got'[s][k] = Append(got[s][k], m)
    <3>1. Len(got[s][k]) + 1 \in 1..Len(log[k]) /\ log[k][Len(got[s][k]) + 1] = m
      BY <1>2, <2>4, NextOf, Zenon
    <3> DEFINE q == got[s][k]
    <3>2. q \in Seq(Msgs) /\ m \in Msgs /\ \A n \in 1..Len(q) : q[n] = log[k][n]
      BY <1>1, <2>2
    <3>3. got'[s][k] = Append(q, m) /\ Len(q) + 1 \in 1..Len(log[k]) /\ log[k][Len(q) + 1] = m /\ Len(log[k]) \in Nat
      BY <2>2, <2>4, <3>1
    <3> HIDE DEF q
    <3> QED BY <3>2, <3>3
  <2> QED BY <2>1, <2>3, <2>4
<1> QED BY <1>3, <1>4 DEF Histories

LEMMA HistoriesStep ==
  ASSUME Types, Histories, Lists, OpenLast, Next
  PROVE  Histories'
<1>1. \A i \in Msgs : MsgMoves(i)
  BY MsgSteps
<1>2. CASE \E i \in Msgs : Commit(i)
  BY <1>1, <1>2, HistoriesCommit
<1>3. CASE \E r \in Replicas : Deliver(r)
  BY <1>3, HistoriesDeliver
<1>4. CASE UNCHANGED <<log, got>> /\ \A i \in Msgs : ~Commit(i)
  BY <1>1, <1>4, HistoriesKept
<1> QED BY <1>2, <1>3, <1>4, LogSteps

LEMMA HeldStep ==
  ASSUME Types, Lists, Next
  PROVE  Held' /\ HasNext'
<1>0. \A i \in Committed : i \in Committed'
  BY MsgSteps, CommittedRow, RowsStay
<1>1. \A q \in Replicas : /\ drain[q].list \subseteq Committed /\ drain[q].done \subseteq Committed
                          /\ drain[q].list \in SUBSET Msgs
                          /\ Cardinality(drain[q].list) <= Batch
                          /\ drain[q].pc = "deliver" => drain[q].list # {}
  BY DEF Lists, Held, HasNext, Committed
<1>2. Cardinality({}) = 0 /\ Batch \in Nat /\ 0 <= Batch
  BY FS_EmptySet, OutboxBounds
<1> DEFINE Good(q) == /\ drain'[q].list \subseteq Committed' /\ drain'[q].done \subseteq Committed'
                      /\ Cardinality(drain'[q].list) <= Batch
                      /\ drain'[q].pc = "deliver" => drain'[q].list # {}
<1>3. ASSUME NEW q \in Replicas, Keeps(q) PROVE Good(q)
  BY <1>0, <1>1, <1>2, <1>3 DEF Keeps
<1>4. ASSUME NEW q \in Replicas, Looks(q) PROVE Good(q)
  <2>1. /\ Pending(Batch) \subseteq Unpublished /\ Cardinality(Pending(Batch)) <= Batch
        /\ Unpublished # {} => Pending(Batch) # {}
    BY OutboxBounds, PendingSome
  <2>2. Unpublished \subseteq Committed
    BY DEF Unpublished, Committed
  <2> QED BY <1>0, <1>1, <1>4, <2>1, <2>2 DEF Looks
<1>5. ASSUME NEW q \in Replicas, NEW m \in Msgs, NEW to \in SUBSET Sinks, Delivers(q, m, to) PROVE Good(q)
  <2>1. m \in drain[q].list
    BY <1>1, <1>5, OldestOf DEF Delivers
  <2>2. /\ drain'[q].list \subseteq drain[q].list /\ drain'[q].done \subseteq drain[q].done \union {m}
        /\ drain'[q].pc = "deliver" => drain'[q].list # {}
    BY <1>5, <2>1 DEF Delivers
  <2>3. /\ drain'[q].list \subseteq Committed' /\ drain'[q].done \subseteq Committed'
    BY <1>0, <1>1, <2>1, <2>2
  <2>4. /\ Cardinality(drain'[q].list) <= Cardinality(drain[q].list)
        /\ Cardinality(drain'[q].list) \in Nat /\ Cardinality(drain[q].list) \in Nat
    <3>1. IsFiniteSet(drain[q].list) /\ Cardinality(drain[q].list) \in Nat
      BY <1>1, FiniteRanks
    <3>2. IsFiniteSet(drain'[q].list) /\ Cardinality(drain'[q].list) <= Cardinality(drain[q].list)
      BY <2>2, <3>1, FS_Subset
    <3> QED BY <3>1, <3>2, FS_CardinalityType
  <2>5. Cardinality(drain'[q].list) <= Batch
    BY <1>1, <1>2, <2>4
  <2> QED BY <2>2, <2>3, <2>5
<1>6. \A q \in Replicas : Good(q)
  BY <1>3, <1>4, <1>5, DrainSteps DEF Lists, DrainMoves
<1> QED BY <1>6 DEF Held, HasNext

LEMMA BehindStep ==
  ASSUME Types, Lists, ReachedAll, OpenLast, Next
  PROVE  Behind'
<1> SUFFICES ASSUME NEW q \in Replicas, NEW m \in drain'[q].list, NEW h \in Committed', h < m, msg'[h].key = msg'[m].key
             PROVE  h \in drain'[q].list \/ Reached(h)'
  BY DEF Behind
<1>0. \A i \in Msgs : MsgMoves(i)
  BY MsgSteps
<1>1. h \in Msgs /\ (h \in Committed \/ Commit(h))
  <2>1. h \in Msgs
    BY DEF Committed
  <2> QED BY <1>0, <2>1, RowsStay
<1>2. \A i \in Committed : msg'[i].key = msg[i].key /\ msg[i] # None /\ i \in Msgs
  BY <1>0, CommittedRow, RowsStay
<1>3. drain[q].list \subseteq Committed
  BY DEF Lists, Held
\* A commit comes last of its fact.
<1>4. ASSUME Commit(h), m \in Committed PROVE FALSE
  <2>1. msg[h].state = "open" /\ msg'[h].key = msg[h].key
    <3>1. msg[h].state = "open" /\ msg[h] \in Rows
      BY <1>1, <1>4, CommitStep DEF Commit
    <3> QED BY <1>0, <1>1, <3>1, NoneIsNoRow, RowsStay
  <2>2. m <= h
    BY <1>1, <1>2, <1>4, <2>1 DEF OpenLast
  <2> QED BY <1>1, <1>2, <1>4, <2>2 DEF Msgs
<1>5. ASSUME m \in drain[q].list PROVE h \in drain[q].list \/ Reached(h)
  BY <1>1, <1>2, <1>3, <1>4, <1>5 DEF Lists, Behind
<1>6. \A i : Reached(i) => Reached(i)'
  BY ReachedStays
<1>7. CASE Keeps(q)
  BY <1>5, <1>6, <1>7 DEF Keeps
<1>8. CASE Looks(q)
  <2>1. m \in Pending(Batch) /\ msg' = msg /\ drain'[q].list = Pending(Batch)
    BY <1>8 DEF Looks
  <2>2. h \in Committed /\ msg[h].state \in {"pending", "published", "purged"}
    BY <2>1 DEF Committed
  <2>3. CASE msg[h].state = "pending"
    <3>1. h \in Unpublished
      BY <1>1, <2>3 DEF Unpublished
    <3> QED BY <2>1, <3>1, OutboxBounds, PendingSome
  <2>4. CASE msg[h].state \in {"published", "purged"}
    BY <1>1, <1>6, <2>4 DEF ReachedAll
  <2> QED BY <2>2, <2>3, <2>4
<1>9. ASSUME NEW g \in Msgs, NEW to \in SUBSET Sinks, Delivers(q, g, to) PROVE h \in drain'[q].list \/ Reached(h)'
  <2>1. g \in drain[q].list /\ m \in drain[q].list /\ to = Sinks /\ drain'[q].list = drain[q].list \ {g}
    <3>1. drain[q].list # {} /\ drain[q].list \in SUBSET Msgs
      BY <1>9 DEF Delivers, Lists, HasNext, Held, Committed
    <3>2. g \in drain[q].list
      BY <1>9, <3>1, OldestOf DEF Delivers
    <3> QED BY <1>9, <3>2 DEF Delivers
  <2>2. Reached(g)'
    <3>1. msg[g].key \in Keys /\ Gives(g, to)
      BY <1>3, <1>9, <2>1, CommittedRow DEF Delivers
    <3> QED BY <2>1, <3>1, HadGrows DEF Reached
  <2> QED BY <1>5, <1>6, <2>1, <2>2
<1> QED BY <1>7, <1>8, <1>9, DrainSteps DEF DrainMoves, Lists

LEMMA ReachedAllStep ==
  ASSUME Types, Lists, ReachedAll, Next
  PROVE  ReachedAll'
<1>1. \A i : Reached(i) => Reached(i)'
  BY ReachedStays
<1>2. ASSUME NEW i \in Msgs, msg'[i].state \in {"published", "purged"} PROVE Reached(i)
  <2>1. MsgMoves(i)
    BY MsgSteps
  <2>2. CASE \E r \in Replicas : i \in drain[r].done
    BY <2>2 DEF ReachedAll
  <2>3. CASE msg[i].state \in {"published", "purged"}
    BY <2>3 DEF ReachedAll
  <2> QED BY <1>2, <2>1, <2>2, <2>3 DEF MsgMoves, Draws, Turns
<1>3. ASSUME NEW q \in Replicas, NEW i \in drain'[q].done PROVE Reached(i)'
  <2>1. CASE i \in drain[q].done
    BY <1>1, <2>1 DEF ReachedAll
  <2>2. CASE i \notin drain[q].done
    <3>1. PICK m \in Msgs, to \in SUBSET Sinks : Delivers(q, m, to)
      BY <2>2, DrainSteps DEF DrainMoves, Keeps, Looks, Lists
    <3>2. to = Sinks /\ i = m /\ Gives(m, to)
      BY <2>2, <3>1 DEF Delivers
    <3>3. m \in Committed
      <4>1. drain[q].list # {} /\ drain[q].list \in SUBSET Msgs /\ drain[q].list \subseteq Committed
        BY <3>1 DEF Delivers, Lists, HasNext, Held, Committed
      <4> QED BY <3>1, <4>1, OldestOf DEF Delivers
    <3>4. msg[m].key \in Keys
      BY <3>3, CommittedRow
    <3> QED BY <3>2, <3>4, HadGrows DEF Reached
  <2> QED BY <2>1, <2>2
<1> QED BY <1>1, <1>2, <1>3 DEF ReachedAll

-----------------------------------------------------------------------------
(* The calls of Drain under way: one for each event committed, at most.     *)

CallsOf == \A r \in Replicas : calls[r] <= Cardinality(Committed)

LEMMA CallsStep ==
  ASSUME Types, CallsOf, Next
  PROVE  CallsOf'
<1>0. \A i \in Msgs : MsgMoves(i)
  BY MsgSteps
<1>1. Committed \subseteq Committed' /\ Committed' \in SUBSET Msgs /\ Committed \in SUBSET Msgs
  BY <1>0, CommittedRow, RowsStay DEF Committed
<1>2. /\ IsFiniteSet(Committed') /\ Cardinality(Committed') \in Nat /\ Cardinality(Committed) \in Nat
      /\ Cardinality(Committed) <= Cardinality(Committed')
  BY <1>1, FiniteRanks, FS_Subset
<1>3. calls \in [Replicas -> Nat] /\ \A r \in Replicas : calls[r] <= Cardinality(Committed)
  BY DEF Types, CallsOf
<1>4. ASSUME \A r \in Replicas : calls'[r] \in Nat /\ calls'[r] <= calls[r] PROVE CallsOf'
  BY <1>2, <1>3, <1>4 DEF CallsOf
<1>5. ASSUME NEW i \in Msgs, Commit(i) PROVE CallsOf'
  <2>1. i \in Committed' /\ i \notin Committed
    <3>1. msg[i] \in Rows /\ msg' = [msg EXCEPT ![i] = [msg[i] EXCEPT !.state = "pending"]] /\ msg[i].state = "open"
      BY <1>5, CommitStep DEF Commit
    <3>2. msg \in [Msgs -> {None} \union Rows]
      BY DEF Types
    <3>3. msg'[i] = [msg[i] EXCEPT !.state = "pending"]
      BY <3>1, <3>2
    <3>4. Turns(i, "open", "pending")
      BY <3>1, <3>3, RowTurns
    <3> QED BY <3>4 DEF Committed, Turns
  <2>2. Cardinality(Committed) + 1 <= Cardinality(Committed')
    <3>1. Committed \subseteq Committed' \ {i}
      BY <1>1, <2>1
    <3>2. IsFiniteSet(Committed' \ {i}) /\ Cardinality(Committed' \ {i}) = Cardinality(Committed') - 1
      BY <1>2, <2>1, FS_RemoveElement
    <3>3. Cardinality(Committed) <= Cardinality(Committed' \ {i})
      BY <3>1, <3>2, FS_Subset
    <3> QED BY <1>2, <3>2, <3>3
  <2>3. \A r \in Replicas : calls'[r] \in {calls[r], calls[r] + 1}
    <3>1. calls' = [calls EXCEPT ![msg[i].at] = calls[msg[i].at] + 1] /\ msg[i].at \in Replicas
      BY <1>5, CommitStep DEF Commit
    <3> QED BY <1>3, <3>1
  <2> QED BY <1>2, <1>3, <2>2, <2>3 DEF CallsOf
<1>6. ASSUME NEW r \in Replicas, Drain(r) PROVE \A q \in Replicas : calls'[q] \in Nat /\ calls'[q] <= calls[q]
  BY <1>3, <1>6 DEF Drain
<1>7. ASSUME NEW r \in Replicas, Crash(r) PROVE \A q \in Replicas : calls'[q] \in Nat /\ calls'[q] <= calls[q]
  BY <1>3, <1>7 DEF Crash
<1>8. CASE UNCHANGED calls
  BY <1>3, <1>4, <1>8
<1> QED BY <1>4, <1>5, <1>6, <1>7, <1>8, CallsFrame

-----------------------------------------------------------------------------
(* The theorem of the outbox.                                               *)

OutboxInv == Types /\ Filled /\ OpenLast /\ Histories /\ Lists /\ ReachedAll /\ CallsOf

LEMMA OutboxInit == Init => OutboxInv
<1> SUFFICES ASSUME Init PROVE OutboxInv
  OBVIOUS
<1>0. \A i \in Msgs : msg[i] = None /\ msg[i].state = "none" /\ i \notin Committed
  BY NoneIsNoRow DEF Init, Committed
<1>1. Committed = {}
  BY <1>0 DEF Committed
<1>2. \A r \in Replicas : drain[r] = NoDrain /\ drain[r].list = {} /\ drain[r].done = {} /\ drain[r].pc = "free"
  BY DEF Init, NoDrain
<1>3. Types
  <2>1. NoDrain \in Drains
    BY BeginDrain
  <2>2. Free \in Leases
    BY DEF Free, Leases
  <2>3. spent \in Spents
    BY OutboxBounds DEF Init, Spents
  <2> QED BY <2>1, <2>2, <2>3 DEF Init, Types
<1>4. Filled /\ OpenLast
  BY <1>0 DEF Filled, OpenLast
<1>5. Histories
  BY <1>0, <1>1 DEF Init, Histories, Logged, InLog, Prefix
<1>6. Lists
  BY <1>2, FS_EmptySet, OutboxBounds DEF Lists, HasNext, Held, Behind
<1>7. ReachedAll
  BY <1>0, <1>2 DEF ReachedAll
<1>8. CallsOf
  BY <1>1, FS_EmptySet DEF Init, CallsOf
<1> QED BY <1>3, <1>4, <1>5, <1>6, <1>7, <1>8 DEF OutboxInv

LEMMA OutboxStep == OutboxInv /\ [Next]_vars => OutboxInv'
<1> SUFFICES ASSUME OutboxInv, [Next]_vars PROVE OutboxInv'
  OBVIOUS
<1> USE DEF OutboxInv
<1>1. CASE UNCHANGED vars
  <2>1. UNCHANGED <<msg, drain, calls, log, got>>
    BY <1>1 DEF vars, store, relay
  <2>2. Types'
    BY <1>1, TypesStep DEF Lists, Held
  <2>3. Filled' /\ OpenLast'
    BY <2>1 DEF Filled, OpenLast
  <2>4. Histories'
    BY <2>1 DEF Histories, Logged, InLog, Prefix, Committed
  <2>5. Lists'
    BY <2>1 DEF Lists, HasNext, Held, Behind, Reached, Had, Committed
  <2>6. ReachedAll' /\ CallsOf'
    BY <2>1 DEF ReachedAll, Reached, Had, CallsOf, Committed
  <2> QED BY <2>2, <2>3, <2>4, <2>5, <2>6
<1>2. CASE Next
  <2>1. Types'
    BY <1>2, TypesStep DEF Lists, Held
  <2>2. Filled' /\ OpenLast'
    BY <1>2, MsgSteps, RanksStep
  <2>3. Histories'
    BY <1>2, HistoriesStep
  <2>4. Lists'
    BY <1>2, HeldStep, BehindStep DEF Lists
  <2>5. ReachedAll' /\ CallsOf'
    BY <1>2, ReachedAllStep, CallsStep
  <2> QED BY <2>1, <2>2, <2>3, <2>4, <2>5
<1> QED BY <1>1, <1>2

THEOREM OutboxInvariance == Spec => []OutboxInv
<1>1. Init => OutboxInv
  BY OutboxInit
<1>2. OutboxInv /\ [Next]_vars => OutboxInv'
  BY OutboxStep
<1> QED BY <1>1, <1>2, PTL DEF Spec

\* The types of the relays and the outbox hold: the list of a drain holds committed events only and
\* never more than a batch, and no more Drain calls are under way than events were committed.
THEOREM OutboxTypes == Spec => []TypeOK
<1>1. OutboxInv => TypeOK
  <2> SUFFICES ASSUME OutboxInv PROVE TypeOK
    OBVIOUS
  <2>0. Types /\ Held /\ CallsOf
    BY DEF OutboxInv, Lists
  <2>1. calls \in [Replicas -> 0..MaxMsgs]
    <3>1. Committed \in SUBSET Msgs
      BY DEF Committed
    <3>2. Cardinality(Committed) \in Nat /\ Cardinality(Committed) <= MaxMsgs
      BY <3>1, FiniteRanks
    <3>3. calls \in [Replicas -> Nat] /\ \A r \in Replicas : calls[r] <= Cardinality(Committed)
      BY <2>0 DEF Types, CallsOf
    <3>4. \A r \in Replicas : calls[r] \in 0..MaxMsgs
      BY <3>2, <3>3, OutboxBounds
    <3> QED BY <3>3, <3>4
  <2>2. \A r \in Replicas : /\ drain[r].list \union drain[r].done \subseteq Committed
                            /\ Cardinality(drain[r].list) <= Batch
    BY <2>0 DEF Held
  <2> QED BY <2>0, <2>1, <2>2 DEF Types, TypeOK, Rows, Leases, Drains, Spents
<1> QED BY <1>1, OutboxInvariance, PTL

-----------------------------------------------------------------------------
(* No event is left behind.                                                 *)

\* Stronger than NotLeftBehind: a drain that found nothing and is not asked to look again ends what
\* its replica missed, so a replica there does not count.
Minds(r) == \/ r \in missed /\ drain[r].pc # "empty"
            \/ kick[r] \/ calls[r] > 0
            \/ drain[r].pc \in {"hold", "look", "deliver", "mark"}
            \/ drain[r].pc = "empty" /\ again[r]
SomeoneMinds == Unpublished # {} => \E r \in Replicas : Minds(r)

LEMMA OthersMind ==
  ASSUME Types, NEW q \in Replicas, Drain(q) \/ Step(q) \/ TakeKick(q) \/ Poll(q) \/ Crash(q), NEW r \in Replicas, r # q, Minds(r)
  PROVE  Minds(r)'
<1>0. /\ drain \in [Replicas -> Drains] /\ calls \in [Replicas -> Nat]
      /\ again \in [Replicas -> BOOLEAN] /\ kick \in [Replicas -> BOOLEAN]
  BY DEF Types
<1>1. drain'[r] = drain[r]
  BY <1>0, Zenon DEF Drain, TakeKick, Poll, Step, Hold, Look, Empty, Deliver, Mark, Leave, Crash, Locked, Refused, Goto
<1>2. again'[r] = again[r] /\ kick'[r] = kick[r]
  BY <1>0, Zenon DEF Drain, TakeKick, Poll, Step, Hold, Look, Empty, Deliver, Mark, Leave, Crash, Locked, Refused, Kicked, Reset
<1>3. calls'[r] = calls[r]
  BY <1>0, Zenon DEF Drain, TakeKick, Poll, Step, Hold, Look, Empty, Deliver, Mark, Leave, Crash
<1>4. r \in missed => r \in missed'
  BY Zenon DEF Drain, TakeKick, Poll, Step, Hold, Look, Empty, Deliver, Mark, Leave, Crash
<1> QED BY <1>1, <1>2, <1>3, <1>4 DEF Minds

LEMMA OneMinds ==
  ASSUME Types, NEW r \in Replicas, Drain(r) \/ Step(r) \/ TakeKick(r) \/ Poll(r) \/ Crash(r), Minds(r), Unpublished' # {}
  PROVE  Minds(r)'
<1>0. /\ drain \in [Replicas -> Drains] /\ calls \in [Replicas -> Nat] /\ missed \subseteq Replicas
      /\ again \in [Replicas -> BOOLEAN] /\ kick \in [Replicas -> BOOLEAN]
      /\ drain[r] \in Drains /\ drain[r].by \in {"none", "write", "run"}
  BY DEF Types, Drains
<1>1. ASSUME NEW by \in {"none", "write", "run"}, drain' = [drain EXCEPT ![r] = Begin(by)] PROVE Minds(r)'
  BY <1>0, <1>1, BeginDrain DEF Minds
<1>2. ASSUME NEW l, drain' = [drain EXCEPT ![r].pc = l] PROVE drain'[r].pc = l
  BY <1>0, <1>2 DEF Drains
<1>3. CASE Drain(r) \/ TakeKick(r) \/ Poll(r)
  <2>1. CASE Locked(r, "write") \/ Locked(r, "run")
    BY <1>1, <2>1 DEF Locked
  <2>2. CASE Refused(r)
    BY <1>0, <2>2 DEF Refused, Kicked, Minds
  <2> QED BY <1>3, <2>1, <2>2 DEF Drain, TakeKick, Poll
<1>4. CASE Hold(r)
  <2>1. drain'[r].pc = "look" \/ (drain'[r].pc = "leave" /\ r \in missed')
    BY <1>2, <1>4 DEF Hold, Goto
  <2> QED BY <2>1 DEF Minds
<1>5. CASE Look(r)
  <2>1. CASE drain' = [drain EXCEPT ![r].pc = "leave"] /\ r \in missed'
    BY <1>2, <2>1 DEF Minds
  <2>2. CASE drain' = [drain EXCEPT ![r].pc = IF Unpublished = {} THEN "empty" ELSE "deliver", ![r].list = Pending(Batch)]
    <3>1. Unpublished # {}
      BY <1>5 DEF Look, store, Unpublished
    <3>2. drain'[r].pc = "deliver"
      BY <1>0, <2>2, <3>1 DEF Drains
    <3> QED BY <3>2 DEF Minds
  <2> QED BY <1>5, <2>1, <2>2 DEF Look, Goto
<1>6. CASE Empty(r)
  <2>1. CASE again[r]
    <3>1. drain'[r].pc = Begin("write").pc
      BY <1>2, <1>6, <2>1 DEF Empty, Goto
    <3> QED BY <3>1, BeginDrain DEF Minds
  <2>2. CASE ~again[r]
    <3>1. kick' = kick /\ calls' = calls /\ drain[r].pc = "empty" /\ drain'[r].pc = "leave"
      BY <1>2, <1>6, <2>2 DEF Empty, Goto
    <3> QED BY <2>2, <3>1 DEF Minds
  <2> QED BY <2>1, <2>2
<1>7. CASE Deliver(r)
  <2>1. \E d : d.pc \in {"mark", "deliver"} /\ drain'[r].pc = d.pc
    BY <1>0, <1>7 DEF Deliver, Drains
  <2> QED BY <2>1 DEF Minds
<1>8. CASE Mark(r)
  <2>1. CASE drain' = [drain EXCEPT ![r] = [drain[r] EXCEPT !.pc = "leave", !.done = {}]] /\ r \in missed'
    <3>1. drain'[r] = [drain[r] EXCEPT !.pc = "leave", !.done = {}]
      BY <1>0, <2>1
    <3>2. drain'[r].pc = "leave"
      BY <1>0, <3>1 DEF Drains
    <3> QED BY <2>1, <3>2 DEF Minds
  <2> QED BY <1>0, <1>1, <1>8, <2>1 DEF Mark
<1>9. CASE Leave(r)
  <2>1. drain'[r].pc = "free" /\ missed' = missed /\ kick' = kick /\ calls' = calls /\ drain[r].pc = "leave"
    BY <1>0, <1>9 DEF Leave, NoDrain
  <2> QED BY <2>1 DEF Minds
<1>10. CASE Crash(r)
  <2>1. drain'[r].pc = "free" /\ r \in missed'
    BY <1>0, <1>10 DEF Crash, NoDrain
  <2> QED BY <2>1 DEF Minds
<1> QED BY <1>3, <1>4, <1>5, <1>6, <1>7, <1>8, <1>9, <1>10 DEF Step

LEMMA SomeoneMindsStep ==
  ASSUME Types, SomeoneMinds, [Next]_vars
  PROVE  SomeoneMinds'
<1> SUFFICES ASSUME Unpublished' # {} PROVE \E r \in Replicas : Minds(r)'
  BY DEF SomeoneMinds
<1>1. CASE UNCHANGED vars
  BY <1>1 DEF vars, store, relay, SomeoneMinds, Unpublished, Minds
<1>2. ASSUME NEW i \in Msgs, Commit(i) PROVE \E r \in Replicas : Minds(r)'
  <2>1. msg[i].at \in Replicas /\ calls' = [calls EXCEPT ![msg[i].at] = calls[msg[i].at] + 1] /\ calls \in [Replicas -> Nat]
    BY <1>2, CommitStep DEF Commit, Types
  <2>2. calls'[msg[i].at] > 0
    BY <2>1
  <2> QED BY <2>1, <2>2 DEF Minds
<1>3. CASE Next /\ \A i \in Msgs : ~Commit(i)
  <2>1. Unpublished # {}
    <3>1. PICK i \in Msgs : msg'[i].state = "pending"
      BY DEF Unpublished
    <3>2. MsgMoves(i)
      BY <1>3, MsgSteps
    <3>3. msg[i].state = "pending"
      BY <1>3, <3>1, <3>2 DEF MsgMoves, Draws, Turns
    <3> QED BY <3>3 DEF Unpublished
  <2>2. PICK r \in Replicas : Minds(r)
    BY <2>1 DEF SomeoneMinds
  <2>3. CASE UNCHANGED <<calls, drain, again, kick, missed>>
    BY <2>2, <2>3 DEF Minds
  <2>4. ASSUME NEW q \in Replicas, Drain(q) \/ Step(q) \/ TakeKick(q) \/ Poll(q) \/ Crash(q) PROVE Minds(r)'
    BY <2>2, <2>4, OthersMind, OneMinds
  <2>5. ASSUME NEW q \in Replicas, (\E k \in Keys : PutEmitting(q, k)) \/ PurgePublished(q) \/ Restart(q)
        PROVE UNCHANGED <<calls, drain, again, kick, missed>>
    BY <2>5 DEF PutEmitting, PurgePublished, Restart, relay
  <2>6. CASE (\E i \in Msgs : Rollback(i)) \/ Lapse
    BY <2>3, <2>6 DEF Rollback, Lapse, relay
  <2> QED BY <1>3, <2>3, <2>4, <2>5, <2>6 DEF Next
<1> QED BY <1>1, <1>2, <1>3

\* While an event is pending some replica will look at the outbox, or takes note that it could not:
\* whatever commits, drains, refused calls and stops come between (Relay.Drain, again and kick).
THEOREM NotLeft == Spec => []NotLeftBehind
<1>1. Init => SomeoneMinds
  BY NoneIsNoRow DEF Init, SomeoneMinds, Unpublished
<1>2. OutboxInv /\ SomeoneMinds /\ [Next]_vars => SomeoneMinds'
  BY SomeoneMindsStep DEF OutboxInv
<1>3. SomeoneMinds => NotLeftBehind
  BY DEF SomeoneMinds, Minds, NotLeftBehind
<1> QED BY <1>1, <1>2, <1>3, OutboxInvariance, PTL DEF Spec

-----------------------------------------------------------------------------
(* The relays implement EventDelivery.                                      *)

OutForGood == {i \in Msgs : msg[i].state \in {"published", "purged"}}

LEMMA DeliveredNext ==
  ASSUME OutboxInv, NEW r \in Replicas, Deliver(r)
  PROVE  Delivery!Deliver
<1> USE DEF OutboxInv
<1>1. PICK m \in drain[r].list, to \in SUBSET Sinks :
        m \in Msgs /\ msg[m].key \in Keys /\ Delivers(r, m, to) /\ Gives(m, to)
  BY DeliveryStep DEF Lists, Held
<1> DEFINE k == msg[m].key
           new == {s \in to : ~Had(s, m)}
<1>2. m = Oldest(drain[r].list) /\ UNCHANGED <<msg, log>>
  BY <1>1 DEF Delivers
<1>3. \A s \in new : Len(got[s][k]) + 1 \in 1..Len(log[k]) /\ log[k][Len(got[s][k]) + 1] = m
  BY <1>1, <1>2, NextOf
<1>4. \A s \in new : Len(got[s][k]) < Len(log[k])
  <2>1. \A s \in new : Len(got[s][k]) \in Nat /\ Len(log[k]) \in Nat
    BY <1>1 DEF Types
  <2> HIDE DEF new
  <2> QED BY <1>3, <2>1
<1>5. got' = [s \in Sinks |-> IF s \in new THEN [got[s] EXCEPT ![k] = Append(@, log[k][Len(@) + 1])] ELSE got[s]]
  <2>1. got' = [s \in Sinks |-> got'[s]] /\ got \in [Sinks -> [Keys -> Seq(Msgs)]]
    BY <1>1 DEF Gives, Types
  <2>2. ASSUME NEW s \in Sinks
        PROVE  got'[s] = IF s \in new THEN [got[s] EXCEPT ![k] = Append(@, log[k][Len(@) + 1])] ELSE got[s]
    <3>1. CASE s \in new
      <4>1. got'[s] = [got[s] EXCEPT ![k] = Append(got[s][k], m)]
        BY <1>1, <3>1 DEF Gives
      <4>2. log[k][Len(got[s][k]) + 1] = m
        BY <1>3, <3>1
      <4> QED BY <3>1, <4>1, <4>2
    <3>2. CASE s \notin new
      BY <1>1, <3>2 DEF Gives
    <3> QED BY <3>1, <3>2
  <2> HIDE DEF new, k
  <2> QED BY <2>1, <2>2
<1>6. new \in SUBSET Sinks /\ k \in Keys
  BY <1>1
<1>7. UNCHANGED OutForGood
  BY <1>2 DEF OutForGood
<1> QED BY <1>2, <1>4, <1>5, <1>6, <1>7, Zenon DEF Delivery!Deliver, OutForGood

LEMMA WrittenNext ==
  ASSUME OutboxInv, NEW i \in Msgs, Commit(i)
  PROVE  Delivery!Write
<1>1. msg[i].key \in Keys /\ log' = [log EXCEPT ![msg[i].key] = Append(@, i)]
  BY CommitStep DEF OutboxInv
<1>2. UNCHANGED OutForGood
  <2>1. msg \in [Msgs -> {None} \union Rows] /\ msg[i] \in Rows
    BY CommitStep DEF OutboxInv, Types
  <2>2. msg' = [msg EXCEPT ![i] = [msg[i] EXCEPT !.state = "pending"]] /\ msg[i].state = "open"
    BY DEF Commit
  <2>3. msg'[i] = [msg[i] EXCEPT !.state = "pending"] /\ \A j \in Msgs : j # i => msg'[j] = msg[j]
    BY <2>1, <2>2
  <2>4. Turns(i, "open", "pending")
    BY <2>1, <2>2, <2>3, RowTurns
  <2> QED BY <2>3, <2>4 DEF OutForGood, Turns
<1>3. got' = got
  BY DEF Commit
<1> QED BY <1>1, <1>2, <1>3 DEF Delivery!Write, OutForGood

LEMMA PublishedNext ==
  ASSUME OutboxInv, Next, UNCHANGED <<log, got>>
  PROVE  Delivery!Publish
<1>1. OutForGood \subseteq OutForGood'
  <2> SUFFICES ASSUME NEW i \in Msgs, msg[i].state \in {"published", "purged"} PROVE msg'[i].state \in {"published", "purged"}
    BY DEF OutForGood
  <2>1. MsgMoves(i)
    BY MsgSteps DEF OutboxInv
  <2>2. ~Draws(i)
    BY NoneIsNoRow DEF Draws
  <2> QED BY <2>1, <2>2 DEF MsgMoves, Turns
<1>2. ReachedAll'
  BY OutboxStep DEF OutboxInv
<1>3. \A i \in OutForGood' : i \in Msgs /\ \A s \in Sinks : Had(s, i)
  BY <1>2 DEF ReachedAll, OutForGood, Reached, Had
<1>4. \A s, i : Had(s, i) <=> Delivery!Had(s, i)
  BY DEF Had, Delivery!Had
<1>5. OutForGood' \subseteq {i \in Msgs : \A s \in Sinks : Delivery!Had(s, i)}
  BY <1>3, <1>4
<1> QED BY <1>1, <1>5 DEF Delivery!Publish, OutForGood

\* The outbox and its relays implement the delivery promised of an outbox (EventDelivery): whichever
\* replicas drain at a time, each sink has the events of a fact in the order of its writes, none
\* skipped, and none is marked published before every sink had it.
THEOREM InOrder == Spec => InOrderNoneSkipped
<1>1. Init => Delivery!Init
  BY NoneIsNoRow DEF Init, Delivery!Init
<1>2. OutboxInv /\ [Next]_vars => [Delivery!Next]_(Delivery!vars)
  <2> SUFFICES ASSUME OutboxInv, [Next]_vars PROVE Delivery!Next \/ UNCHANGED Delivery!vars
    OBVIOUS
  <2>1. CASE UNCHANGED vars
    BY <2>1 DEF vars, store, Delivery!vars
  <2>2. CASE \E i \in Msgs : Commit(i)
    BY <2>2, WrittenNext DEF Delivery!Next
  <2>3. CASE \E r \in Replicas : Deliver(r)
    BY <2>3, DeliveredNext DEF Delivery!Next
  <2>4. CASE Next /\ UNCHANGED <<log, got>>
    BY <2>4, PublishedNext DEF Delivery!Next
  <2> QED BY <2>1, <2>2, <2>3, <2>4, LogSteps DEF OutboxInv
<1> QED BY <1>1, <1>2, OutboxInvariance, PTL DEF Spec, InOrderNoneSkipped, Delivery!Spec
=============================================================================
