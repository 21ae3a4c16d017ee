----------------------------- MODULE Companions -----------------------------
(***************************************************************************)
(* The companion run of a change (engine/engine/companion.go): the events  *)
(* of the change start it, run it again once it ended, wait in its inbox   *)
(* while it is at work, or supersede its work (restartFor).  The events    *)
(* come one at a time, in order, at least once, through a consumer the     *)
(* replicas share (lib/platform/nats.go, ConsumeDurable), among them the   *)
(* end of the companion itself, on which it takes the next of its inbox.   *)
(*                                                                         *)
(* One change and one companion.  A run is taken wherever its row is       *)
(* running and free (schedule, Recover); what a section reads and writes   *)
(* of the row under its lock is one step.                                  *)
(***************************************************************************)
EXTENDS Integers, FiniteSets, Sequences, SequencesExt

CONSTANTS
  Replicas,       \* the engine replicas, each with its consumer
  Free,           \* a lock nobody holds
  Superseding,    \* the events whose subscription supersedes, by their number
  MaxEvents,      \* bound: events of others on the change
  MaxUpsets       \* bound: events delivered again before they are acknowledged, replicas stopped, errors of the store
                  \* or of the graph, and what a person does (cancels the companion, unblocks it, closes the change),
                  \* together

ASSUME ReplicasAssumption == Free \notin Replicas
ASSUME BoundsAssumption ==
  MaxEvents \in Nat \ {0} /\ MaxUpsets \in Nat /\ Superseding \subseteq 1..MaxEvents

VARIABLES
  row,        \* the companion: status ("none" before it is started), the event it runs for, its inbox (a sequence)
  started,    \* companion runs started on the change
  run,        \* the replica whose run holds the lock of the companion, or Free
  told,       \* that run was interrupted
  looked,     \* that run has looked at the change
  companions, \* the lock of the companions of the change: a replica, or Free
  queue,      \* the events not acknowledged, in order: their number, 0 for the end of the companion
  handler,    \* per replica, the event it handles, where (pc), and the status its list found (was)
  seen,       \* per replica, the events of TriggerManager.seen
  restarts,   \* goroutines of restartFor: their replica, their event, where they are
  moved,      \* events so far
  observed,   \* the events the last look of a run at the change came after
  closed,     \* the change is applied or abandoned
  gone,       \* history: events a run was given, and those dropped with an inbox, lost in a stop, slipped, dropped by
              \* an error (failed), come to a closed change, or left in the inbox by an error (stranded)
  upsets      \* upsets so far

vars == <<row, started, run, told, looked, companions, queue, handler, seen, restarts, moved, observed, closed, gone,
          upsets>>

Events == 1..MaxEvents
Ended(s) == s \in {"completed", "failed", "stuck"}      \* what rerun runs again; stuck stands for waiting for conditions too
Idle == [pc |-> "idle", ev |-> 0, was |-> "none"]

Init ==
  /\ row = [status |-> "none", event |-> 0, inbox |-> <<>>] /\ started = 0
  /\ run = Free /\ told = FALSE /\ looked = FALSE /\ companions = Free
  /\ queue = <<>> /\ handler = [r \in Replicas |-> Idle] /\ seen = [r \in Replicas |-> {}]
  /\ restarts = {} /\ moved = 0 /\ observed = 0
  /\ closed = FALSE
  /\ gone = [taken |-> {}, dropped |-> {}, lost |-> {}, slipped |-> {}, failed |-> {}, closed |-> {}, stranded |-> {}]
  /\ upsets = 0

Upset == upsets < MaxUpsets /\ upsets' = upsets + 1
Note(what, evs) == gone' = [gone EXCEPT ![what] = @ \union evs]

\* The row runs (again) for an event.
RunsFor(q, e) == [q EXCEPT !.status = "running", !.event = e]

-----------------------------------------------------------------------------
(* The run of the companion, under its lock.                                *)

Take(r) ==
  /\ row.status = "running" /\ run = Free
  /\ run' = r /\ told' = FALSE /\ looked' = FALSE
  /\ UNCHANGED <<row, started, companions, queue, handler, seen, restarts, moved, observed, closed, gone, upsets>>

Observe ==
  /\ run # Free /\ (looked => observed # moved)
  /\ observed' = moved /\ looked' = TRUE
  /\ UNCHANGED <<row, started, run, told, companions, queue, handler, seen, restarts, moved, closed, gone, upsets>>

\* It ends or stops, on the change as it observed it; only its completion comes back to its inbox.
EndRun ==
  /\ run # Free /\ looked
  /\ \E s \in {"completed", "failed", "stuck", "waiting"} :
       /\ row' = [row EXCEPT !.status = s]
       /\ queue' = IF s = "completed" THEN Append(queue, 0) ELSE queue
  /\ run' = Free
  /\ UNCHANGED <<started, told, looked, companions, handler, seen, restarts, moved, observed, closed, gone, upsets>>

\* Interrupted, it lets go without a save.
Leave ==
  /\ run # Free /\ told
  /\ run' = Free
  /\ UNCHANGED <<row, started, told, looked, companions, queue, handler, seen, restarts, moved, observed, closed, gone,
                 upsets>>

\* The person, or the sub-process, it waits for has answered.
Resume ==
  /\ run = Free /\ row.status = "waiting"
  /\ row' = [row EXCEPT !.status = "running"]
  /\ UNCHANGED <<started, run, told, looked, companions, queue, handler, seen, restarts, moved, observed, closed, gone,
                 upsets>>

-----------------------------------------------------------------------------
(* The events and their consumer.                                           *)

Publish ==
  /\ moved < MaxEvents
  /\ moved' = moved + 1 /\ queue' = Append(queue, moved + 1)
  /\ UNCHANGED <<row, started, run, told, looked, companions, handler, seen, restarts, observed, closed, gone, upsets>>

Handling(e) == {r \in Replicas : handler[r].pc # "idle" /\ handler[r].ev = e}

AllEndsAlike(e) == {e}
Remembered(e) == {e} \ {0}       \* every end of the companion is an event of its own

\* The first event not acknowledged, to a replica that handles none; again, when its acknowledgment is late.
Deliver(r) ==
  LET e == Head(queue) IN
  /\ queue # <<>> /\ handler[r].pc = "idle"
  /\ IF Handling(e) = {} THEN UNCHANGED upsets ELSE Upset
  /\ \/ e \in seen[r] /\ queue' = Tail(queue) /\ UNCHANGED <<handler, seen>>
     \/ /\ e \notin seen[r]
        /\ handler' = [handler EXCEPT ![r] = [pc |-> IF e = 0 THEN "read" ELSE "list", ev |-> e, was |-> "none"]]
        /\ seen' = [seen EXCEPT ![r] = @ \union Remembered(e)]
        /\ UNCHANGED queue
  /\ UNCHANGED <<row, started, run, told, looked, companions, restarts, moved, observed, closed, gone>>

\* The handler is done: the event is acknowledged, the lock of the companions let go.
Ack(r) ==
  /\ handler' = [handler EXCEPT ![r] = Idle]
  /\ companions' = IF companions = r THEN Free ELSE companions
  /\ queue' = IF queue # <<>> /\ Head(queue) = handler[r].ev THEN Tail(queue) ELSE queue

-----------------------------------------------------------------------------
(* companionRun.                                                            *)

NotLocked(r) == UNCHANGED companions
LockCompanions(r) == companions = Free /\ companions' = r

\* The list of the processes, under the lock of the companions.
List(r) ==
  /\ handler[r].pc = "list" /\ LockCompanions(r)
  /\ handler' = [handler EXCEPT ![r].pc = "act", ![r].was = row.status]
  /\ UNCHANGED <<row, started, run, told, looked, queue, seen, restarts, moved, observed, closed, gone, upsets>>

LatestOnly(box, e) == <<e>>
Enqueued(box, e) == Append(box, e)

Unchecked(q, e) == RunsFor(q, e)
RerunFor(q, e) == IF Ended(q.status) THEN RunsFor(q, e) ELSE q

\* What companionRun does of the companion it found, its status possibly another one by now.
CompanionRun(r) ==
  LET e == handler[r].ev was == handler[r].was IN
  /\ handler[r].pc = "act"
  /\ \/ was = "none" /\ ~closed                           \* Start
        /\ row' = RunsFor(row, e) /\ started' = started + 1
        /\ Note("taken", {e}) /\ UNCHANGED restarts
     \/ was = "none" /\ closed /\ Note("closed", {e}) /\ UNCHANGED <<row, started, restarts>>
     \/ was = "cancelled" /\ UNCHANGED <<row, started, gone, restarts>>
     \/ /\ Ended(was) /\ run = Free                       \* rerun, under the lock of the process
        /\ row' = RerunFor(row, e)
        /\ Note(IF Ended(row.status) THEN "taken" ELSE "slipped", {e})
        /\ UNCHANGED <<started, restarts>>
     \/ /\ was \in {"running", "waiting"} /\ e \in Superseding
        /\ restarts' = restarts \union {[at |-> r, ev |-> e, pc |-> "new"]}
        /\ UNCHANGED <<row, started, gone>>
     \/ /\ was \in {"running", "waiting"} /\ e \notin Superseding /\ run = Free       \* enqueue
        /\ row' = [row EXCEPT !.inbox = Enqueued(@, e)]
        /\ UNCHANGED <<started, gone, restarts>>
  /\ Ack(r)
  /\ UNCHANGED <<run, told, looked, seen, moved, observed, closed, upsets>>

\* An error of the store, of the methodologies or of the graph, before anything is written: the event is logged and
\* acknowledged.
CompanionFails(r) ==
  LET e == handler[r].ev was == handler[r].was IN
  /\ \/ handler[r].pc = "list"                            \* the methodologies, or the list
     \/ handler[r].pc = "act" /\ was = "none"             \* the blackboard, or Start
     \/ /\ handler[r].pc = "act" /\ run = Free            \* rerun or enqueue
        /\ Ended(was) \/ (was \in {"running", "waiting"} /\ e \notin Superseding)
  /\ Upset /\ Note("failed", {e}) /\ Ack(r)
  /\ UNCHANGED <<row, started, run, told, looked, seen, restarts, moved, observed, closed>>

-----------------------------------------------------------------------------
(* nextInInbox: the inbox is read without a lock, then again under both.    *)

NextRead(r) ==
  /\ handler[r].pc = "read"
  /\ \/ row.inbox = <<>> /\ Ack(r)
     \/ /\ row.inbox # <<>>
        /\ handler' = [handler EXCEPT ![r].pc = "next"]
        /\ UNCHANGED <<queue, companions>>
  /\ UNCHANGED <<row, started, run, told, looked, seen, restarts, moved, observed, closed, gone, upsets>>

NextInInbox(r) ==
  /\ handler[r].pc = "next" /\ companions = Free
  /\ \/ row.inbox = <<>> /\ Ack(r)
     \/ /\ row.inbox # <<>> /\ LockCompanions(r)
        /\ handler' = [handler EXCEPT ![r].pc = "rerun"]
        /\ UNCHANGED queue
  /\ UNCHANGED <<row, started, run, told, looked, seen, restarts, moved, observed, closed, gone, upsets>>

\* rerun without an event: the next of the inbox, the last event again when a restart has dropped the inbox meanwhile.
RerunNext(r) ==
  /\ handler[r].pc = "rerun" /\ run = Free
  /\ IF Ended(row.status) /\ row.inbox # <<>>
     THEN /\ row' = [RunsFor(row, Head(row.inbox)) EXCEPT !.inbox = Tail(@)]
          /\ Note("taken", {Head(row.inbox)})
     ELSE /\ row' = RerunFor(row, row.event) /\ UNCHANGED gone
  /\ Ack(r)
  /\ UNCHANGED <<started, run, told, looked, seen, restarts, moved, observed, closed, upsets>>

\* An error on the way: the end of the companion is acknowledged, and the inbox waits for another.
InboxFails(r) ==
  /\ \/ handler[r].pc = "read"
     \/ handler[r].pc = "next" /\ companions = Free
     \/ handler[r].pc = "rerun" /\ run = Free
  /\ Upset /\ Note("stranded", ToSet(row.inbox)) /\ Ack(r)
  /\ UNCHANGED <<row, started, run, told, looked, seen, restarts, moved, observed, closed>>

-----------------------------------------------------------------------------
(* restartFor, one at a time.                                               *)

Interrupt(g) ==
  /\ g \in restarts /\ g.pc = "new" /\ ~\E h \in restarts : h.pc = "wait"
  /\ restarts' = (restarts \ {g}) \union {[g EXCEPT !.pc = "wait"]}
  /\ told' = (run # Free \/ told)
  /\ UNCHANGED <<row, started, run, looked, companions, queue, handler, seen, moved, observed, closed, gone, upsets>>

StoppedByAPerson(s) == s = "cancelled"

Restart(g) ==
  /\ g \in restarts /\ g.pc = "wait" /\ run = Free
  /\ restarts' = restarts \ {g}
  /\ IF StoppedByAPerson(row.status) THEN UNCHANGED <<row, gone>>
     ELSE /\ row' = [RunsFor(row, g.ev) EXCEPT !.inbox = <<>>]
          /\ gone' = [gone EXCEPT !.taken = @ \union {g.ev}, !.dropped = @ \union ToSet(row.inbox)]
  /\ UNCHANGED <<started, run, told, looked, companions, queue, handler, seen, moved, observed, closed, upsets>>

\* An error ends it with a log: of the list or of a sub-process, when the run of its replica may have seen the mark and
\* lets go; of the row or its save, once that run has let go.
RestartFails(g) ==
  /\ g \in restarts /\ Upset
  /\ restarts' = restarts \ {g} /\ Note("failed", {g.ev})
  /\ \/ g.pc = "new" /\ ~(\E h \in restarts : h.pc = "wait") /\ told' \in {told, run = g.at \/ told}
     \/ g.pc = "wait" /\ run = Free /\ UNCHANGED told
  /\ UNCHANGED <<row, started, run, looked, companions, queue, handler, seen, moved, observed, closed>>

-----------------------------------------------------------------------------
(* A person, and a replica that stops.                                      *)

\* Cancel: the run in flight is interrupted and lets go; then the row.
CancelCompanion ==
  /\ row.status \in {"running", "waiting", "stuck"} /\ run = Free /\ Upset
  /\ row' = [row EXCEPT !.status = "cancelled"]
  /\ UNCHANGED <<started, run, told, looked, companions, queue, handler, seen, restarts, moved, observed, closed, gone>>

Unblock ==
  /\ row.status = "stuck" /\ run = Free /\ Upset
  /\ row' = [row EXCEPT !.status = "running"]
  /\ UNCHANGED <<started, run, told, looked, companions, queue, handler, seen, restarts, moved, observed, closed, gone>>

\* The change is applied or abandoned.
CloseChange ==
  /\ ~closed /\ Upset
  /\ closed' = TRUE
  /\ UNCHANGED <<row, started, run, told, looked, companions, queue, handler, seen, restarts, moved, observed, gone>>

StopReplica(r) ==
  /\ Upset
  /\ handler' = [handler EXCEPT ![r] = Idle] /\ seen' = [seen EXCEPT ![r] = {}]
  /\ companions' = IF companions = r THEN Free ELSE companions
  /\ run' = IF run = r THEN Free ELSE run
  /\ restarts' = {g \in restarts : g.at # r}
  /\ Note("lost", {g.ev : g \in {x \in restarts : x.at = r}})
  /\ UNCHANGED <<row, started, told, looked, queue, moved, observed, closed>>

-----------------------------------------------------------------------------
HandlerNext(r) == Deliver(r) \/ List(r) \/ CompanionRun(r) \/ NextRead(r) \/ NextInInbox(r) \/ RerunNext(r)
RestartNext == \E g \in restarts : Interrupt(g) \/ Restart(g)

\* Errors, each losing what it was about.
Fails(r) == CompanionFails(r) \/ InboxFails(r)

Next ==
  \/ \E r \in Replicas : Take(r) \/ HandlerNext(r) \/ Fails(r) \/ StopReplica(r)
  \/ Observe \/ EndRun \/ Leave \/ Resume \/ RestartNext \/ (\E g \in restarts : RestartFails(g))
  \/ Publish \/ CancelCompanion \/ Unblock \/ CloseChange

Spec == Init /\ [][Next]_vars

\* A running row is taken, a run looks, ends or lets go, the consumers and the goroutines go on.
FairSpec ==
  /\ Spec
  /\ WF_vars(\E r \in Replicas : Take(r)) /\ WF_vars(EndRun) /\ SF_vars(Observe)
  /\ SF_vars(\E r \in Replicas : HandlerNext(r)) /\ SF_vars(RestartNext)

-----------------------------------------------------------------------------
(* Properties.                                                              *)

\* The events gone without a run, by what NothingLost allows.
Excepted == gone.lost \union gone.slipped \union gone.failed \union gone.closed

\* Two events never start two companions, whichever replicas handle them: the lock of the companions (companionRun).
OneCompanion == started <= 1

\* An event acknowledged has been given to a run, or waits in the inbox, or its restart is on its way, or it was
\* dropped with an inbox for a newer one.  The ways out: the companion was cancelled; the change was closed before there
\* was one; a stop took the restart (in memory, after the acknowledgment); it slipped, its companion made to run by
\* another between the list and the rerun; an error met in handling this event itself, which is only logged.  An error
\* met in handling one event loses no other.
NothingLost ==
  \A e \in 1..moved :
    \/ e \in ToSet(queue) \/ Handling(e) # {}
    \/ e \in gone.taken \union gone.dropped \union ToSet(row.inbox) \union {g.ev : g \in restarts}
    \/ row.status = "cancelled" \/ e \in Excepted

\* The events of the change do not bring back a companion a person stopped (companionRun, rerun, restartFor).
StaysCancelled == [][row.status = "cancelled" => row'.status = "cancelled"]_vars

\* The companion has in the end looked at the change as every event made it, unless it stopped on the way, or the event
\* was lost as NothingLost says, or was left in the inbox by an error in taking the next of it.
LooksAtEvery ==
  \A e \in Events : moved >= e ~> \/ observed >= e \/ row.status \in {"cancelled", "failed", "stuck", "waiting"}
                                  \/ e \in Excepted \union gone.stranded
=============================================================================
