----------------------------- MODULE OutboxRelay -----------------------------
(***************************************************************************)
(* The outbox of a service and the relays of its replicas (ADR 0136): an   *)
(* event is written with its fact in one transaction, then delivered by a  *)
(* Drain, at once in the background, or by Run when kicked or at its poll. *)
(* lib/outbox/{outbox,sql}.go, as the engine uses them (process_outbox:    *)
(* engine/engine/outbox.go, PutEmitting of engine/enginesvc/sqlstore.go).  *)
(*                                                                         *)
(* The rank of an event is drawn in its transaction (bigserial): it is     *)
(* visible at the commit only, and the commits of several facts may come   *)
(* in another order.  Two writes of one fact wait for each other on its    *)
(* row.  Time is abstract: the lease of the relays is live or it is not.   *)
(* An operator right before the one it resembles is a plausible mistake in *)
(* it, used to see that the properties notice.                             *)
(***************************************************************************)
EXTENDS Integers, Sequences, FiniteSets

CONSTANTS
  Replicas,     \* the replicas of the service, one relay each
  Keys,         \* the facts (processes) the events tell
  Sinks,        \* the sinks of the relay (outbox.Sinks)
  NoRow, Gone,  \* the lease is free; its holder stopped
  UseLease,     \* Relay.Lease is set
  Batch,        \* messages a look takes at most
  MaxMsgs,      \* bound: ranks drawn
  MaxCrashes,   \* bound: replicas stopped
  MaxFaults     \* bound: calls that fail, transactions rolled back

ASSUME OutboxNames == NoRow \notin Replicas /\ Gone \notin Replicas /\ NoRow # Gone
ASSUME OutboxBounds ==
  /\ Batch \in Nat \ {0} /\ MaxMsgs \in Nat /\ MaxCrashes \in Nat /\ MaxFaults \in Nat
  /\ UseLease \in BOOLEAN

VARIABLES
  msg,          \* per rank: the row of the event in the outbox, its fact and the replica writing it
  lease,        \* the row of the key "outbox" in engine_lock
  calls,        \* per replica: Drain calls not yet at their TryLock
  drain,        \* per replica: the drain that holds Relay.mu
  again, kick,  \* per replica: Relay.again, a token in Relay.kick
  run,         \* per replica: Relay.Run
  up,           \* the replicas running
  log,          \* history: per fact, its events in the order of their commits
  got,          \* history: per sink and fact, the events in the order they first came
  missed,       \* history: the replicas whose last drain left messages to the poll
  spent         \* bounds used up

store == <<msg, lease>>
relay == <<calls, drain, again, kick, run, up>>
vars == <<store, relay, log, got, missed, spent>>

Msgs == 1..MaxMsgs
None == [key |-> "none", at |-> "none", state |-> "none"]
NoDrain == [pc |-> "free", by |-> "none", list |-> {}, done |-> {}, failed |-> FALSE]
Free == [holder |-> NoRow, live |-> FALSE]
Committed == {i \in Msgs : msg[i].state \in {"pending", "published", "purged"}}
Had(s, i) == \E k \in Keys : \E n \in 1..Len(got[s][k]) : got[s][k][n] = i

TypeOK ==
  /\ msg \in [Msgs -> {None} \union
                [key : Keys, at : Replicas, state : {"open", "void", "pending", "published", "purged"}]]
  /\ lease \in [holder : Replicas \union {NoRow, Gone}, live : BOOLEAN]
  /\ calls \in [Replicas -> 0..MaxMsgs]
  /\ drain \in [Replicas -> [pc : {"free", "hold", "look", "deliver", "mark", "empty", "leave"},
                             by : {"none", "write", "run"}, list : SUBSET Msgs, done : SUBSET Msgs, failed : BOOLEAN]]
  /\ \A r \in Replicas : /\ drain[r].list \union drain[r].done \subseteq Committed
                         /\ Cardinality(drain[r].list) <= Batch
  /\ again \in [Replicas -> BOOLEAN] /\ kick \in [Replicas -> BOOLEAN]
  /\ run \in [Replicas -> {"wait", "drain"}]
  /\ up \in [Replicas -> BOOLEAN] /\ missed \subseteq Replicas
  /\ log \in [Keys -> Seq(Msgs)] /\ got \in [Sinks -> [Keys -> Seq(Msgs)]]
  /\ spent \in [crashes : 0..MaxCrashes, faults : 0..MaxFaults]

Init ==
  /\ msg = [i \in Msgs |-> None] /\ lease = Free
  /\ calls = [r \in Replicas |-> 0]
  /\ drain = [r \in Replicas |-> NoDrain]
  /\ again = [r \in Replicas |-> FALSE] /\ kick = [r \in Replicas |-> FALSE]
  /\ run = [r \in Replicas |-> "wait"] /\ up = [r \in Replicas |-> TRUE]
  /\ log = [k \in Keys |-> <<>>] /\ got = [s \in Sinks |-> [k \in Keys |-> <<>>]] /\ missed = {}
  /\ spent = [crashes |-> 0, faults |-> 0]

Fault == spent.faults < MaxFaults /\ spent' = [spent EXCEPT !.faults = @ + 1]

-----------------------------------------------------------------------------
(* The transaction of a write: the fact, then its event, then the commit.   *)

\* The row of the fact is written first: it waits for the other write of it. The insert draws the rank.
PutEmitting(r, k) ==
  /\ up[r]
  /\ \A i \in Msgs : msg[i].key = k => msg[i].state # "open"
  /\ \E i \in Msgs :
       /\ msg[i] = None /\ \A h \in 1..(i - 1) : msg[h] # None
       /\ msg' = [msg EXCEPT ![i] = [key |-> k, at |-> r, state |-> "open"]]
  /\ UNCHANGED <<lease, relay, log, got, missed, spent>>

\* The writer then drains the outbox, in the background.
Commit(i) ==
  /\ msg[i].state = "open"
  /\ msg' = [msg EXCEPT ![i].state = "pending"]
  /\ log' = [log EXCEPT ![msg[i].key] = Append(@, i)]
  /\ calls' = [calls EXCEPT ![msg[i].at] = @ + 1]
  /\ UNCHANGED <<lease, drain, again, kick, run, up, got, missed, spent>>

Rollback(i) ==
  /\ msg[i].state = "open" /\ Fault
  /\ msg' = [msg EXCEPT ![i].state = "void"]
  /\ UNCHANGED <<lease, relay, log, got, missed>>

-----------------------------------------------------------------------------
(* Relay.Drain.                                                             *)

Begin(by) == [NoDrain EXCEPT !.pc = IF UseLease THEN "hold" ELSE "look", !.by = by]
Reset(r) == again' = [again EXCEPT ![r] = FALSE]

NotKicked(r) == kick
Kicked(r) == [kick EXCEPT ![r] = TRUE]

\* TryLock: the drain starts, or a drain is at work: this one asks it to look again, kicks Run
\* and answers ErrBusy.
Locked(r, by) ==
  /\ drain[r].pc = "free"
  /\ drain' = [drain EXCEPT ![r] = Begin(by)]
  /\ IF UseLease THEN UNCHANGED again ELSE Reset(r)

Refused(r) ==
  /\ drain[r].pc # "free"
  /\ again' = [again EXCEPT ![r] = TRUE]
  /\ kick' = Kicked(r)
  /\ UNCHANGED drain

\* The Drain a write started in the background.
Drain(r) ==
  /\ calls[r] > 0
  /\ calls' = [calls EXCEPT ![r] = @ - 1]
  /\ Refused(r) \/ (Locked(r, "write") /\ UNCHANGED kick)
  /\ UNCHANGED <<store, run, up, log, got, missed, spent>>

\* Run takes a kick, or its poll is over; a Drain of Run that is refused kicks Run again.
TakeKick(r) ==
  /\ run[r] = "wait" /\ up[r] /\ kick[r]
  /\ \/ Locked(r, "run") /\ kick' = [kick EXCEPT ![r] = FALSE] /\ run' = [run EXCEPT ![r] = "drain"]
     \/ Refused(r) /\ UNCHANGED run
  /\ UNCHANGED <<store, calls, up, log, got, missed, spent>>

\* The timer starts anew at each wait: a kick already there is taken first.
Poll(r) ==
  /\ run[r] = "wait" /\ up[r] /\ ~kick[r]
  /\ \/ Locked(r, "run") /\ run' = [run EXCEPT ![r] = "drain"] /\ UNCHANGED kick
     \/ Refused(r) /\ UNCHANGED run
  /\ UNCHANGED <<store, calls, up, log, got, missed, spent>>

FreeOrOwn(r) == lease.holder \in {NoRow, r}
CanHold(r) == lease.holder \in {NoRow, r} \/ ~lease.live

Goto(r, l) == drain' = [drain EXCEPT ![r].pc = l]

\* Hold, and again.Store(false) before the look.
Hold(r) ==
  /\ drain[r].pc = "hold"
  /\ \/ /\ CanHold(r)
        /\ lease' = [holder |-> r, live |-> TRUE]
        /\ Reset(r)
        /\ Goto(r, "look")
        /\ UNCHANGED <<missed, spent>>
     \/ /\ \/ ~CanHold(r) /\ UNCHANGED spent           \* ErrBusy: the holder delivers
           \/ Fault
        /\ Goto(r, "leave")
        /\ missed' = missed \union {r}
        /\ UNCHANGED <<lease, again>>
  /\ UNCHANGED <<msg, calls, kick, run, up, log, got>>

\* Pending: the oldest rows not yet published, by rank.
Written == {i \in Msgs : msg[i].state \in {"open", "pending"}}
Unpublished == {i \in Msgs : msg[i].state = "pending"}
Oldest(ms) == CHOOSE i \in ms : \A h \in ms : i <= h
Pending(limit) == {i \in Unpublished : Cardinality({h \in Unpublished : h < i}) < limit}

Look(r) ==
  /\ drain[r].pc = "look"
  /\ \/ /\ drain' = [drain EXCEPT ![r].pc = IF Unpublished = {} THEN "empty" ELSE "deliver", ![r].list = Pending(Batch)]
        /\ UNCHANGED <<missed, spent>>
     \/ /\ Fault
        /\ Goto(r, "leave")
        /\ missed' = missed \union {r}
  /\ UNCHANGED <<store, calls, again, kick, run, up, log, got>>

\* Nothing is pending: the drain looks again when another one came in between.
Empty(r) ==
  /\ drain[r].pc = "empty"
  /\ IF again[r]
     THEN /\ Goto(r, Begin("write").pc)
          /\ IF UseLease THEN UNCHANGED again ELSE Reset(r)
          /\ UNCHANGED missed
     ELSE /\ Goto(r, "leave")
          /\ missed' = missed \ {r}
          /\ UNCHANGED again
  /\ UNCHANGED <<store, calls, kick, run, up, log, got, spent>>

AllFailed(fs) == fs = Sinks
Failed(fs) == fs # {}
SkipFailed(l, failed) == l \ {Oldest(l)}
Rest(l, failed) == IF failed THEN {} ELSE l \ {Oldest(l)}

\* Sinks.Deliver of the next message; a sink that fails may have received it.
Deliver(r) ==
  LET m == Oldest(drain[r].list) IN
  /\ drain[r].pc = "deliver"
  /\ \E to, fs \in SUBSET Sinks :
       /\ to \union fs = Sinks
       /\ IF fs = {} THEN UNCHANGED spent ELSE Fault
       /\ got' = [s \in Sinks |-> IF s \in to /\ ~Had(s, m) THEN [got[s] EXCEPT ![msg[m].key] = Append(@, m)]
                                                          ELSE got[s]]
       /\ LET failed == Failed(fs) rest == Rest(drain[r].list, failed) IN
          drain' = [drain EXCEPT ![r].list = rest, ![r].failed = @ \/ failed,
                                 ![r].done = IF failed THEN @ ELSE @ \union {m},
                                 ![r].pc = IF rest = {} THEN "mark" ELSE "deliver"]
  /\ UNCHANGED <<store, calls, again, kick, run, up, log, missed>>

\* MarkPublished, then the next look, or the error.
Mark(r) ==
  LET d == drain[r] IN
  /\ d.pc = "mark"
  /\ \/ /\ msg' = [i \in Msgs |-> IF i \in d.done /\ msg[i].state = "pending"
                                  THEN [msg[i] EXCEPT !.state = "published"] ELSE msg[i]]
        /\ drain' = [drain EXCEPT ![r] = IF d.failed THEN [d EXCEPT !.pc = "leave", !.done = {}]
                                                     ELSE Begin(d.by)]
        /\ missed' = IF d.failed THEN missed \union {r} ELSE missed
        /\ IF UseLease \/ d.failed THEN UNCHANGED again ELSE Reset(r)
        /\ UNCHANGED spent
     \/ /\ d.done # {} /\ Fault
        /\ drain' = [drain EXCEPT ![r] = [d EXCEPT !.pc = "leave", !.done = {}]]
        /\ missed' = missed \union {r}
        /\ UNCHANGED <<msg, again>>
  /\ UNCHANGED <<lease, calls, kick, run, up, log, got>>

\* The defers: Lease.Let (it drops the replica's own lease only), then Unlock.
Leave(r) ==
  /\ drain[r].pc = "leave"
  /\ drain' = [drain EXCEPT ![r] = NoDrain]
  /\ run' = [run EXCEPT ![r] = IF drain[r].by = "run" THEN "wait" ELSE @]
  /\ \/ /\ lease' = IF lease.holder = r THEN Free ELSE lease
        /\ UNCHANGED spent
     \/ /\ lease.holder = r /\ Fault
        /\ UNCHANGED lease
  /\ UNCHANGED <<msg, calls, again, kick, up, log, got, missed>>

\* After a drain, the messages published longer than Retention ago.
PurgePublished(r) ==
  /\ run[r] = "wait" /\ up[r]
  /\ \E old \in SUBSET {i \in Msgs : msg[i].state = "published"} :
       /\ old # {}
       /\ msg' = [i \in Msgs |-> IF i \in old THEN [msg[i] EXCEPT !.state = "purged"] ELSE msg[i]]
  /\ UNCHANGED <<lease, relay, log, got, missed, spent>>

-----------------------------------------------------------------------------
(* Time and failures.                                                       *)

\* The lease is renewed between two batches only: it may end within one.
Lapse ==
  /\ lease.live
  /\ lease' = [lease EXCEPT !.live = FALSE]
  /\ UNCHANGED <<msg, relay, log, got, missed, spent>>

Crash(r) ==
  /\ up[r] /\ spent.crashes < MaxCrashes
  /\ spent' = [spent EXCEPT !.crashes = @ + 1]
  /\ up' = [up EXCEPT ![r] = FALSE]
  /\ msg' = [i \in Msgs |-> IF msg[i].at = r /\ msg[i].state = "open"
                            THEN [msg[i] EXCEPT !.state = "void"] ELSE msg[i]]
  /\ lease' = IF lease.holder = r THEN [lease EXCEPT !.holder = Gone] ELSE lease
  /\ calls' = [calls EXCEPT ![r] = 0]
  /\ drain' = [drain EXCEPT ![r] = NoDrain]
  /\ again' = [again EXCEPT ![r] = FALSE] /\ kick' = [kick EXCEPT ![r] = FALSE]
  /\ run' = [run EXCEPT ![r] = "wait"]
  /\ missed' = missed \union {r}
  /\ UNCHANGED <<log, got>>

Restart(r) ==
  /\ ~up[r] /\ up' = [up EXCEPT ![r] = TRUE]
  /\ UNCHANGED <<store, calls, drain, again, kick, run, log, got, missed, spent>>

-----------------------------------------------------------------------------
Step(r) == Hold(r) \/ Look(r) \/ Empty(r) \/ Deliver(r) \/ Mark(r) \/ Leave(r)

Next ==
  \/ \E r \in Replicas : \/ \E k \in Keys : PutEmitting(r, k)
                         \/ Drain(r) \/ Step(r) \/ TakeKick(r) \/ Poll(r)
                         \/ PurgePublished(r) \/ Crash(r) \/ Restart(r)
  \/ \E i \in Msgs : Commit(i) \/ Rollback(i)
  \/ Lapse

Spec == Init /\ [][Next]_vars

(* Fairness: the goroutines of a relay go on, Run polls, a transaction ends, *)
(* a lease nobody renews lapses.  A replica need not come back.              *)
Fairness ==
  /\ \A r \in Replicas : /\ WF_vars(Drain(r)) /\ WF_vars(Step(r))
                         /\ WF_vars(TakeKick(r) \/ Poll(r))
  /\ \A i \in Msgs : WF_vars(Commit(i))
  /\ WF_vars(Lapse)

FairSpec == Spec /\ Fairness

-----------------------------------------------------------------------------
(* Properties.                                                              *)

\* Each sink has the events of a fact in the order of its writes, none skipped, and an event the
\* outbox holds for published has reached every sink, whichever replicas deliver at a time and
\* wherever a delivery failed.
Delivery == INSTANCE EventDelivery WITH
  events <- log,
  published <- {i \in Msgs : msg[i].state \in {"published", "purged"}}
InOrderNoneSkipped == Delivery!Spec

\* No event is left behind: while one is pending, a Drain is on its way, a drain will still look,
\* or Run has a kick to take; only what a failed or refused delivery left waits for the poll.
NotLeftBehind ==
  Unpublished # {} =>
    \E r \in Replicas : \/ r \in missed \/ kick[r] \/ calls[r] > 0
                        \/ drain[r].pc \in {"hold", "look", "deliver", "mark"}
                        \/ drain[r].pc = "empty" /\ again[r]

\* An event written reaches every sink, whatever replica stopped.
Delivered == \A i \in Msgs : msg[i].state = "pending" ~> \A s \in Sinks : Had(s, i)

\* A drain ends once nothing is pending: polls apart, a drain at work does not go on for ever.
DrainEnds == (<>[][\A r \in Replicas : ~Poll(r)]_vars) =>
  \A r \in Replicas : drain[r].pc # "free" ~> drain[r].pc = "free"
=============================================================================
