-------------------------- MODULE Companions_proofs --------------------------
(***************************************************************************)
(* Proofs about the companion of a change, for any replicas, events,       *)
(* redeliveries, stops and errors: there is one, a cancel of it stands,    *)
(* and no event is lost but in the ways told.                              *)
(***************************************************************************)
EXTENDS Companions, TLAPS

Statuses == {"none", "running", "waiting", "completed", "failed", "stuck", "cancelled"}

Handlers == [pc : {"idle", "list", "act", "read", "next", "rerun"}, ev : Nat, was : Statuses]

TypeInv ==
  /\ row \in [status : Statuses, event : Nat, inbox : Seq(Nat)]
  /\ run \in Replicas \union {Free} /\ companions \in Replicas \union {Free}
  /\ queue \in Seq(Nat) /\ moved \in Nat
  /\ handler \in [Replicas -> Handlers]
  /\ restarts \subseteq [at : Replicas, ev : Nat, pc : {"new", "wait"}]

\* A run that holds the lock works on a running row.
RunsRunning == run # Free => row.status = "running"

\* What a handler found it acts on under the lock of the companions: who saw no companion still sees none.
Serialized ==
  \A r \in Replicas :
    /\ handler[r].pc \in {"act", "rerun"} => companions = r
    /\ handler[r].pc = "act" => (handler[r].was = "none" <=> row.status = "none")

\* A companion is started when there is none, once; only one that was started is restarted.
StartedOnce ==
  /\ started \in 0..1 /\ (started = 0 <=> row.status = "none")
  /\ restarts # {} => row.status # "none"

Inv == TypeInv /\ RunsRunning /\ Serialized /\ StartedOnce

\* The first of a queue or an inbox, and the rest.
LEMMA FirstAndRest ==
  ASSUME NEW s \in Seq(Nat), s # <<>>
  PROVE  Head(s) \in Nat /\ Tail(s) \in Seq(Nat)
OBVIOUS

LEMMA InitInv == Init => Inv
BY ReplicasAssumption DEF Init, Inv, TypeInv, RunsRunning, Serialized, StartedOnce, Statuses, Handlers, Idle

\* What a handler is, and becomes.
LEMMA HandlerRecords ==
  /\ Idle \in Handlers /\ Idle.pc = "idle"
  /\ \A h \in Handlers :
       /\ h.ev \in Nat /\ h.was \in Statuses
       /\ \A l \in {"next", "rerun"} : [h EXCEPT !.pc = l] \in Handlers /\ [h EXCEPT !.pc = l].pc = l
       /\ \A s \in Statuses : LET g == [h EXCEPT !.pc = "act", !.was = s]
                             IN  g \in Handlers /\ g.pc = "act" /\ g.was = s
  /\ \A e \in Nat, l \in {"read", "list"} : [pc |-> l, ev |-> e, was |-> "none"] \in Handlers
<1>1. ASSUME NEW h \in Handlers, NEW l \in {"next", "rerun"}
      PROVE  [h EXCEPT !.pc = l] \in Handlers /\ [h EXCEPT !.pc = l].pc = l
  BY <1>1 DEF Handlers
<1>2. ASSUME NEW h \in Handlers, NEW s \in Statuses
      PROVE  LET g == [h EXCEPT !.pc = "act", !.was = s] IN g \in Handlers /\ g.pc = "act" /\ g.was = s
  BY <1>2 DEF Handlers
<1>3. \A h \in Handlers : h.ev \in Nat /\ h.was \in Statuses
  BY DEF Handlers
<1>4. Idle \in Handlers /\ Idle.pc = "idle"
  BY DEF Handlers, Idle, Statuses
<1>5. \A e \in Nat, l \in {"read", "list"} : [pc |-> l, ev |-> e, was |-> "none"] \in Handlers
  BY DEF Handlers, Statuses
<1> QED BY <1>1, <1>2, <1>3, <1>4, <1>5

\* One handler goes on; what the others hold and know stays.
Others(r) == \A q \in Replicas \ {r} : handler'[q] = handler[q] /\ (companions = q => companions' = q)

LEMMA HandlerMoves ==
  ASSUME Inv, NEW r \in Replicas, NEW h \in Handlers, handler' = [handler EXCEPT ![r] = h]
  PROVE  /\ handler' \in [Replicas -> Handlers] /\ handler'[r] = h
         /\ \A q \in Replicas \ {r} : handler'[q] = handler[q]
BY DEF Inv, TypeInv

\* A handler that changes neither the row nor a run nor the restarts.
LEMMA HandlerSteps ==
  ASSUME Inv, NEW r \in Replicas, UNCHANGED <<row, started, run, restarts, moved>>,
         queue' \in Seq(Nat), companions' \in Replicas \union {Free},
         handler' \in [Replicas -> Handlers], Others(r),
         handler'[r].pc \in {"act", "rerun"} => companions' = r,
         handler'[r].pc = "act" => (handler'[r].was = "none" <=> row.status = "none")
  PROVE  Inv'
<1>1. TypeInv'
  BY DEF Inv, TypeInv
<1>2. Serialized'
  <2> SUFFICES ASSUME NEW q \in Replicas
               PROVE  /\ handler'[q].pc \in {"act", "rerun"} => companions' = q
                      /\ handler'[q].pc = "act" => (handler'[q].was = "none" <=> row'.status = "none")
    BY DEF Serialized
  <2>1. CASE q = r
    BY <2>1
  <2>2. CASE q # r
    <3>1. handler'[q] = handler[q] /\ (companions = q => companions' = q)
      BY <2>2 DEF Others
    <3> QED BY <3>1 DEF Inv, Serialized
  <2> QED BY <2>1, <2>2
<1>3. RunsRunning' /\ StartedOnce'
  BY DEF Inv, RunsRunning, StartedOnce
<1> QED BY <1>1, <1>2, <1>3 DEF Inv

-----------------------------------------------------------------------------
(* The steps, one lemma for each group of actions.                          *)

\* The run of the companion: only a running row is held, and it ends as something that was started.
LEMMA RunSteps ==
  ASSUME Inv, (\E r \in Replicas : Take(r)) \/ Observe \/ EndRun \/ Leave \/ Resume
  PROVE  Inv'
<1> USE ReplicasAssumption DEF Inv, TypeInv, RunsRunning, Serialized, StartedOnce, Statuses
<1>1. ASSUME NEW r \in Replicas, Take(r) PROVE Inv'
  BY <1>1 DEF Take
<1>2. CASE Observe
  BY <1>2 DEF Observe
<1>3. CASE EndRun
  <2>1. /\ UNCHANGED <<started, companions, handler, restarts, moved>> /\ run' = Free /\ row.status = "running"
        /\ \E s \in {"completed", "failed", "stuck", "waiting"} : row' = [row EXCEPT !.status = s]
        /\ queue' = queue \/ queue' = Append(queue, 0)
    BY <1>3 DEF EndRun
  <2>2. Append(queue, 0) \in Seq(Nat)
    OBVIOUS
  <2>3. queue' \in Seq(Nat)
    BY <2>1, <2>2
  <2> QED BY <2>1, <2>3
<1>4. CASE Leave
  BY <1>4 DEF Leave
<1>5. CASE Resume
  BY <1>5 DEF Resume
<1> QED BY <1>1, <1>2, <1>3, <1>4, <1>5

\* The events and their delivery touch neither the row nor the locks.
LEMMA EventSteps ==
  ASSUME Inv, Publish \/ (\E r \in Replicas : Deliver(r))
  PROVE  Inv'
<1>1. CASE Publish
  <2>1. UNCHANGED <<row, started, run, companions, handler, restarts>> /\ moved' \in Nat /\ queue' \in Seq(Nat)
    BY <1>1 DEF Publish, Inv, TypeInv
  <2> QED BY <2>1 DEF Inv, TypeInv, RunsRunning, Serialized, StartedOnce
<1>2. ASSUME NEW r \in Replicas, Deliver(r) PROVE Inv'
  <2>1. /\ UNCHANGED <<row, started, run, companions, restarts, moved>> /\ handler[r].pc = "idle"
        /\ queue' \in Seq(Nat)
    BY <1>2, FirstAndRest DEF Deliver, Inv, TypeInv
  <2>2. \/ handler' = handler
        \/ \E e \in Nat, pc \in {"read", "list"} : handler' = [handler EXCEPT ![r] = [pc |-> pc, ev |-> e, was |-> "none"]]
    BY <1>2, FirstAndRest DEF Deliver, Inv, TypeInv
  <2>3. CASE handler' = handler
    BY <2>1, <2>3 DEF Inv, TypeInv, RunsRunning, Serialized, StartedOnce
  <2>4. ASSUME NEW e \in Nat, NEW pc \in {"read", "list"},
               handler' = [handler EXCEPT ![r] = [pc |-> pc, ev |-> e, was |-> "none"]]
        PROVE  Inv'
    <3> DEFINE h == [pc |-> pc, ev |-> e, was |-> "none"]
    <3>1. h \in Handlers /\ h.pc \notin {"act", "rerun"}
      BY HandlerRecords
    <3>2. handler' = [handler EXCEPT ![r] = h]
      BY <2>4
    <3> HIDE DEF h
    <3>3. handler' \in [Replicas -> Handlers] /\ handler'[r] = h /\ Others(r)
      BY <2>1, <3>1, <3>2, HandlerMoves DEF Others
    <3>4. companions' \in Replicas \union {Free}
      BY <2>1 DEF Inv, TypeInv
    <3> QED BY <2>1, <3>1, <3>3, <3>4, HandlerSteps
  <2> QED BY <2>2, <2>3, <2>4
<1> QED BY <1>1, <1>2

\* The handler is done: it lets go of the lock only if it has it.
LEMMA AckTypes ==
  ASSUME Inv, NEW r \in Replicas, Ack(r)
  PROVE  /\ companions' \in Replicas \union {Free} /\ queue' \in Seq(Nat)
         /\ handler' \in [Replicas -> Handlers]
         /\ handler'[r].pc = "idle"
         /\ Others(r)
<1>1. handler' \in [Replicas -> Handlers] /\ handler'[r] = Idle /\ \A q \in Replicas \ {r} : handler'[q] = handler[q]
  BY HandlerRecords, HandlerMoves DEF Ack
<1>2. companions' \in Replicas \union {Free} /\ \A q \in Replicas \ {r} : companions = q => companions' = q
  BY DEF Ack, Inv, TypeInv
<1>3. queue' = queue \/ (queue # <<>> /\ queue' = Tail(queue))
  BY DEF Ack
<1>4. queue' \in Seq(Nat)
  BY <1>3, FirstAndRest DEF Inv, TypeInv
<1> QED BY <1>1, <1>2, <1>4, HandlerRecords DEF Others

\* The row after a rerun.
LEMMA RerunTypes ==
  ASSUME NEW q \in [status : Statuses, event : Nat, inbox : Seq(Nat)], NEW e \in Nat
  PROVE  /\ RerunFor(q, e) \in [status : Statuses, event : Nat, inbox : Seq(Nat)]
         /\ RerunFor(q, e).status = "none" <=> q.status = "none"
         /\ RunsFor(q, e) \in [status : Statuses, event : Nat, inbox : Seq(Nat)]
         /\ RunsFor(q, e).status = "running" /\ RunsFor(q, e).inbox = q.inbox
         /\ q.status \in Statuses /\ q.event \in Nat /\ q.inbox \in Seq(Nat)
         /\ \A s \in Seq(Nat) : LET n == [RunsFor(q, e) EXCEPT !.inbox = s]
                              IN  n \in [status : Statuses, event : Nat, inbox : Seq(Nat)] /\ n.status = "running"
<1>1. /\ RunsFor(q, e) \in [status : Statuses, event : Nat, inbox : Seq(Nat)]
      /\ RunsFor(q, e).status = "running" /\ RunsFor(q, e).inbox = q.inbox
  BY DEF RunsFor, Statuses
<1>2. \A n \in [status : Statuses, event : Nat, inbox : Seq(Nat)], s \in Seq(Nat) :
        /\ [n EXCEPT !.inbox = s] \in [status : Statuses, event : Nat, inbox : Seq(Nat)]
        /\ [n EXCEPT !.inbox = s].status = n.status
  OBVIOUS
<1>3. RerunFor(q, e) = q \/ (q.status \in {"completed", "failed", "stuck"} /\ RerunFor(q, e) = RunsFor(q, e))
  BY DEF RerunFor, Ended
<1> QED BY <1>1, <1>2, <1>3

\* A handler of an event that came under the lock of the companions: what its list found still tells whether there is one.
LEMMA ListSteps ==
  ASSUME Inv, NEW r \in Replicas, List(r) \/ CompanionRun(r)
  PROVE  Inv'
<1>1. CASE List(r)
  <2> DEFINE h == [handler[r] EXCEPT !.pc = "act", !.was = row.status]
  <2>1. /\ UNCHANGED <<row, started, run, restarts, moved, queue>> /\ companions = Free /\ companions' = r
        /\ handler' = [handler EXCEPT ![r].pc = "act", ![r].was = row.status]
    BY <1>1 DEF List, LockCompanions
  <2>2. handler[r] \in Handlers /\ row.status \in Statuses /\ queue \in Seq(Nat)
    BY DEF Inv, TypeInv
  <2>3. h \in Handlers /\ h.pc = "act" /\ h.was = row.status
    BY <2>2, HandlerRecords
  <2>4. handler' = [handler EXCEPT ![r] = h]
    BY <2>1, <2>2 DEF Inv, TypeInv
  <2> HIDE DEF h
  <2>5. handler' \in [Replicas -> Handlers] /\ handler'[r] = h /\ Others(r)
    BY <2>1, <2>3, <2>4, HandlerMoves, ReplicasAssumption DEF Others
  <2> QED BY <2>1, <2>2, <2>3, <2>5, HandlerSteps
<1>2. CASE CompanionRun(r)
  <2>1. handler[r].pc = "act" /\ companions = r /\ Ack(r) /\ UNCHANGED <<run, moved>>
    BY <1>2 DEF CompanionRun, Inv, Serialized
  <2>2. /\ row \in [status : Statuses, event : Nat, inbox : Seq(Nat)] /\ handler[r].ev \in Nat
        /\ restarts \subseteq [at : Replicas, ev : Nat, pc : {"new", "wait"}]
        /\ handler[r].was = "none" <=> row.status = "none"
        /\ handler[r].was \in Statuses
    BY <2>1, HandlerRecords DEF Inv, TypeInv, Serialized
  <2>3. /\ row' \in [status : Statuses, event : Nat, inbox : Seq(Nat)]
        /\ restarts' \subseteq [at : Replicas, ev : Nat, pc : {"new", "wait"}]
        /\ RunsRunning' /\ StartedOnce'
    <3> USE DEF Inv, RunsRunning, StartedOnce
    <3>0. CASE UNCHANGED <<row, started, restarts>>
      BY <2>1, <2>2, <3>0
    <3>1. CASE handler[r].was = "none" /\ ~closed
      <4>1. row' = RunsFor(row, handler[r].ev) /\ started' = started + 1 /\ UNCHANGED restarts
        BY <1>2, <3>1 DEF CompanionRun, Ended
      <4>2. row' \in [status : Statuses, event : Nat, inbox : Seq(Nat)] /\ row'.status = "running"
        BY <2>2, <4>1, RerunTypes
      <4> QED BY <2>1, <2>2, <3>1, <4>1, <4>2
    <3>2. CASE handler[r].was = "cancelled"
      BY <1>2, <2>1, <2>2, <3>2 DEF CompanionRun, Ended
    <3>3. CASE Ended(handler[r].was)
      <4>1. row' = RerunFor(row, handler[r].ev) /\ run = Free /\ UNCHANGED <<started, restarts>>
        BY <1>2, <3>3 DEF CompanionRun, Ended
      <4>2. /\ row' \in [status : Statuses, event : Nat, inbox : Seq(Nat)]
            /\ row'.status = "none" <=> row.status = "none"
        BY <2>2, <4>1, RerunTypes
      <4> QED BY <2>1, <2>2, <4>1, <4>2
    <3>4. CASE handler[r].was \in {"running", "waiting"}
      <4>1. row.status # "none"
        BY <2>2, <3>4
      <4>2. CASE restarts' = restarts \union {[at |-> r, ev |-> handler[r].ev, pc |-> "new"]} /\ UNCHANGED <<row, started>>
        BY <2>1, <2>2, <4>1, <4>2
      <4>3. CASE row' = [row EXCEPT !.inbox = Enqueued(@, handler[r].ev)] /\ UNCHANGED <<started, restarts>>
        <5>1. Enqueued(row.inbox, handler[r].ev) \in Seq(Nat)
          BY <2>2 DEF Enqueued
        <5>2. row' \in [status : Statuses, event : Nat, inbox : Seq(Nat)] /\ row'.status = row.status
          BY <2>2, <4>3, <5>1
        <5> QED BY <2>1, <2>2, <4>1, <4>3, <5>2
      <4> QED BY <1>2, <3>4, <4>2, <4>3 DEF CompanionRun, Ended
    <3>5. handler[r].was = "none" /\ closed => UNCHANGED <<row, started, restarts>>
      BY <1>2 DEF CompanionRun, Ended
    <3> QED BY <2>2, <3>0, <3>1, <3>2, <3>3, <3>4, <3>5 DEF Ended, Statuses
  <2>4. \A q \in Replicas : handler'[q].pc \notin {"act", "rerun"}
    <3>1. \A q \in Replicas \ {r} : handler'[q] = handler[q] /\ handler[q].pc \notin {"act", "rerun"}
      BY <2>1, AckTypes DEF Others, Inv, Serialized
    <3> QED BY <2>1, <3>1, AckTypes
  <2>5. TypeInv' /\ Serialized'
    <3>1. StartedOnce' => started' \in 0..1
      BY DEF StartedOnce
    <3> QED BY <2>1, <2>3, <2>4, AckTypes DEF Inv, TypeInv, Serialized
  <2> QED BY <2>3, <2>5 DEF Inv
<1> QED BY <1>1, <1>2

LEMMA InboxSteps ==
  ASSUME Inv, NEW r \in Replicas, NextRead(r) \/ NextInInbox(r) \/ RerunNext(r)
  PROVE  Inv'
<1>0. /\ handler[r] \in Handlers /\ queue \in Seq(Nat) /\ companions \in Replicas \union {Free}
      /\ row \in [status : Statuses, event : Nat, inbox : Seq(Nat)] /\ handler \in [Replicas -> Handlers]
  BY DEF Inv, TypeInv
<1>1. ASSUME Ack(r), UNCHANGED <<row, started, run, restarts, moved>> PROVE Inv'
  BY <1>1, AckTypes, HandlerSteps
<1>2. ASSUME NEW l \in {"next", "rerun"}, handler' = [handler EXCEPT ![r].pc = l], UNCHANGED queue,
             UNCHANGED <<row, started, run, restarts, moved>>,
             \/ l = "next" /\ UNCHANGED companions
             \/ companions = Free /\ companions' = r
      PROVE  Inv'
  <2> DEFINE h == [handler[r] EXCEPT !.pc = l]
  <2>1. h \in Handlers /\ h.pc = l
    BY <1>0, <1>2 DEF Handlers
  <2>2. handler' = [handler EXCEPT ![r] = h]
    BY <1>0, <1>2
  <2> HIDE DEF h
  <2>3. handler' \in [Replicas -> Handlers] /\ handler'[r] = h /\ Others(r)
    BY <1>2, <2>1, <2>2, HandlerMoves, ReplicasAssumption DEF Others
  <2>4. companions' \in Replicas \union {Free} /\ (l = "rerun" => companions' = r)
    BY <1>0, <1>2
  <2> QED BY <1>0, <1>2, <2>1, <2>3, <2>4, HandlerSteps
<1>3. CASE NextRead(r)
  BY <1>1, <1>2, <1>3 DEF NextRead
<1>4. CASE NextInInbox(r)
  BY <1>1, <1>2, <1>4 DEF NextInInbox, LockCompanions
<1>5. CASE RerunNext(r)
  <2>1. /\ UNCHANGED <<started, run, restarts, moved>> /\ run = Free
        /\ handler[r].pc = "rerun" /\ companions = r /\ Ack(r)
    BY <1>5 DEF RerunNext, Inv, Serialized
  <2>2. /\ row' \in [status : Statuses, event : Nat, inbox : Seq(Nat)]
        /\ row'.status = "none" <=> row.status = "none"
    <3>1. row.event \in Nat /\ row.inbox \in Seq(Nat)
      BY <1>0
    <3>2. CASE Ended(row.status) /\ row.inbox # <<>>
      <4>1. Head(row.inbox) \in Nat /\ Tail(row.inbox) \in Seq(Nat)
        BY <3>1, <3>2, FirstAndRest
      <4>2. row' = [RunsFor(row, Head(row.inbox)) EXCEPT !.inbox = Tail(row.inbox)]
        BY <1>0, <1>5, <3>2, <4>1, RerunTypes DEF RerunNext
      <4> QED BY <1>0, <3>2, <4>1, <4>2, RerunTypes DEF Ended
    <3>3. CASE ~(Ended(row.status) /\ row.inbox # <<>>)
      <4>1. row' = RerunFor(row, row.event)
        BY <1>5, <3>3 DEF RerunNext
      <4> QED BY <1>0, <3>1, <4>1, RerunTypes
    <3> QED BY <3>2, <3>3
  <2>3. \A q \in Replicas : handler'[q].pc \notin {"act", "rerun"}
    <3>1. \A q \in Replicas \ {r} : handler'[q] = handler[q] /\ handler[q].pc \notin {"act", "rerun"}
      BY <2>1, AckTypes DEF Others, Inv, Serialized
    <3> QED BY <2>1, <3>1, AckTypes
  <2>4. TypeInv' /\ Serialized'
    BY <2>1, <2>2, <2>3, AckTypes DEF Inv, TypeInv, Serialized
  <2>5. RunsRunning' /\ StartedOnce'
    BY <2>1, <2>2 DEF Inv, RunsRunning, StartedOnce
  <2> QED BY <2>4, <2>5 DEF Inv
<1> QED BY <1>3, <1>4, <1>5

\* An error changes neither the row nor the locks of others; the handler, or the restart, is gone.
LEMMA FailSteps ==
  ASSUME Inv, (\E r \in Replicas : Fails(r)) \/ (\E g \in restarts : RestartFails(g))
  PROVE  Inv'
<1>1. ASSUME NEW r \in Replicas, Fails(r) PROVE Inv'
  <2>1. Ack(r) /\ UNCHANGED <<row, started, run, restarts, moved>>
    BY <1>1 DEF Fails, CompanionFails, InboxFails
  <2> QED BY <2>1, AckTypes, HandlerSteps
<1>2. ASSUME NEW g \in restarts, RestartFails(g) PROVE Inv'
  <2>1. UNCHANGED <<row, started, run, companions, queue, handler, moved>> /\ restarts' \subseteq restarts
    BY <1>2 DEF RestartFails
  <2> QED BY <2>1 DEF Inv, TypeInv, RunsRunning, Serialized, StartedOnce
<1> QED BY <1>1, <1>2

\* The restarts, a person, a replica that stops.
LEMMA OtherSteps ==
  ASSUME Inv, RestartNext \/ CancelCompanion \/ Unblock \/ CloseChange \/ (\E r \in Replicas : StopReplica(r))
  PROVE  Inv'
<1>0. /\ row \in [status : Statuses, event : Nat, inbox : Seq(Nat)] /\ handler \in [Replicas -> Handlers]
      /\ restarts \subseteq [at : Replicas, ev : Nat, pc : {"new", "wait"}]
  BY DEF Inv, TypeInv
<1>1. ASSUME NEW g \in restarts, Interrupt(g) PROVE Inv'
  <2>1. /\ UNCHANGED <<row, started, run, companions, queue, handler, moved>>
        /\ restarts' = (restarts \ {g}) \union {[g EXCEPT !.pc = "wait"]}
    BY <1>1 DEF Interrupt
  <2>2. [g EXCEPT !.pc = "wait"] \in [at : Replicas, ev : Nat, pc : {"new", "wait"}] /\ restarts # {}
    BY <1>0
  <2>3. restarts' \subseteq [at : Replicas, ev : Nat, pc : {"new", "wait"}]
    BY <1>0, <2>1, <2>2
  <2> QED BY <2>1, <2>2, <2>3 DEF Inv, TypeInv, RunsRunning, Serialized, StartedOnce
<1>2. ASSUME NEW g \in restarts, Restart(g) PROVE Inv'
  <2>1. /\ UNCHANGED <<started, run, companions, queue, handler, moved>> /\ run = Free
        /\ restarts' \subseteq restarts
        /\ row' = row \/ row' = [RunsFor(row, g.ev) EXCEPT !.inbox = <<>>]
    BY <1>2 DEF Restart
  <2>2. <<>> \in Seq(Nat) /\ g.ev \in Nat
    BY <1>0
  <2>3. row.status # "none"
    BY <1>2 DEF Inv, StartedOnce
  <2>4. row' \in [status : Statuses, event : Nat, inbox : Seq(Nat)] /\ row'.status # "none"
    <3>1. LET n == [RunsFor(row, g.ev) EXCEPT !.inbox = <<>>]
          IN  n \in [status : Statuses, event : Nat, inbox : Seq(Nat)] /\ n.status = "running"
      <4>1. /\ RunsFor(row, g.ev) \in [status : Statuses, event : Nat, inbox : Seq(Nat)]
            /\ RunsFor(row, g.ev).status = "running"
        BY <1>0, <2>2, RerunTypes
      <4> QED BY <2>2, <4>1
    <3>2. row' = row \/ (row' \in [status : Statuses, event : Nat, inbox : Seq(Nat)] /\ row'.status = "running")
      BY <2>1, <3>1, Zenon
    <3> QED BY <1>0, <2>3, <3>2
  <2> QED BY <1>0, <2>1, <2>3, <2>4, ReplicasAssumption DEF Inv, TypeInv, RunsRunning, Serialized, StartedOnce
<1>3. CASE CancelCompanion \/ Unblock
  <2>1. /\ UNCHANGED <<started, run, companions, queue, handler, restarts, moved>> /\ run = Free /\ row.status # "none"
        /\ row' = [row EXCEPT !.status = "cancelled"] \/ row' = [row EXCEPT !.status = "running"]
    BY <1>3 DEF CancelCompanion, Unblock
  <2>2. row' \in [status : Statuses, event : Nat, inbox : Seq(Nat)] /\ row'.status # "none"
    BY <1>0, <2>1 DEF Statuses
  <2> QED BY <2>1, <2>2 DEF Inv, TypeInv, RunsRunning, Serialized, StartedOnce
<1>4. ASSUME NEW r \in Replicas, StopReplica(r) PROVE Inv'
  <2>1. /\ UNCHANGED <<row, started, queue, moved>> /\ handler' = [handler EXCEPT ![r] = Idle]
        /\ companions' = (IF companions = r THEN Free ELSE companions) /\ run' \in {run, Free}
        /\ restarts' \subseteq restarts
    BY <1>4 DEF StopReplica
  <2>2. handler' \in [Replicas -> Handlers] /\ handler'[r] = Idle /\ \A q \in Replicas \ {r} : handler'[q] = handler[q]
    BY <2>1, HandlerRecords, HandlerMoves
  <2>3. TypeInv'
    BY <2>1, <2>2 DEF Inv, TypeInv
  <2>4. Serialized'
    <3>1. \A q \in Replicas \ {r} : handler'[q] = handler[q] /\ (companions = q => companions' = q)
      BY <2>1, <2>2
    <3>2. handler'[r].pc = "idle"
      BY <2>2, HandlerRecords
    <3> QED BY <2>1, <3>1, <3>2 DEF Inv, Serialized
  <2>5. RunsRunning' /\ StartedOnce'
    BY <2>1 DEF Inv, RunsRunning, StartedOnce
  <2> QED BY <2>3, <2>4, <2>5 DEF Inv
<1>5. CASE CloseChange
  BY <1>5 DEF CloseChange, Inv, TypeInv, RunsRunning, Serialized, StartedOnce
<1> QED BY <1>1, <1>2, <1>3, <1>4, <1>5 DEF RestartNext

LEMMA StepInv == Inv /\ [Next]_vars => Inv'
<1> SUFFICES ASSUME Inv, [Next]_vars PROVE Inv'
  OBVIOUS
<1>1. CASE Next
  <2>1. ASSUME NEW r \in Replicas, HandlerNext(r) PROVE Inv'
    BY <2>1, EventSteps, ListSteps, InboxSteps DEF HandlerNext
  <2> QED BY <1>1, <2>1, RunSteps, EventSteps, FailSteps, OtherSteps DEF Next
<1>2. CASE UNCHANGED vars
  BY <1>2 DEF vars, Inv, TypeInv, RunsRunning, Serialized, StartedOnce
<1> QED BY <1>1, <1>2

-----------------------------------------------------------------------------
(* The theorems.                                                            *)

THEOREM Invariance == Spec => []Inv
<1> QED BY InitInv, StepInv, PTL DEF Spec

\* Whatever events, redeliveries and stops there are, and whichever replicas handle the events, one companion is
\* started on the change: who starts it holds the lock of the companions since it found none (companionRun).
THEOREM OneCompanionStarted == Spec => []OneCompanion
<1>1. Inv => OneCompanion
  BY DEF Inv, StartedOnce, OneCompanion
<1> QED BY <1>1, Invariance, PTL

\* One step of the companion leaves a cancel alone.
LEMMA StepStays ==
  ASSUME Inv, Next, row.status = "cancelled"
  PROVE  row'.status = "cancelled"
<1> USE ReplicasAssumption DEF Inv, TypeInv, RunsRunning, Serialized, StartedOnce, Statuses
<1>1. run = Free
  OBVIOUS
<1>2. ASSUME NEW r \in Replicas, Take(r) \/ StopReplica(r) PROVE row' = row
  BY <1>2 DEF Take, StopReplica
<1>3. ASSUME NEW r \in Replicas, HandlerNext(r) PROVE row'.status = row.status
  <2>1. CASE Deliver(r) \/ List(r) \/ NextRead(r) \/ NextInInbox(r)
    BY <2>1 DEF Deliver, List, NextRead, NextInInbox
  <2>2. CASE CompanionRun(r)
    BY <2>2 DEF CompanionRun, RerunFor, Ended, Enqueued
  <2>3. CASE RerunNext(r)
    BY <2>3 DEF RerunNext, RerunFor, Ended
  <2> QED BY <1>3, <2>1, <2>2, <2>3 DEF HandlerNext
<1>4. ASSUME NEW g \in restarts, Interrupt(g) \/ Restart(g) PROVE row' = row
  BY <1>4 DEF Interrupt, Restart, StoppedByAPerson
<1>5. CASE Observe \/ EndRun \/ Leave \/ Resume \/ Publish \/ CancelCompanion \/ Unblock
  BY <1>1, <1>5 DEF Observe, EndRun, Leave, Resume, Publish, CancelCompanion, Unblock
<1>6. ASSUME (\E r \in Replicas : Fails(r)) \/ (\E g \in restarts : RestartFails(g)) \/ CloseChange PROVE row' = row
  BY <1>6 DEF Fails, CompanionFails, InboxFails, RestartFails, CloseChange
<1> QED BY <1>2, <1>3, <1>4, <1>5, <1>6 DEF Next, RestartNext

\* A companion a person stopped stays stopped, whatever events were on their way to it: each of rerun, restartFor and
\* the take looks at the status again under the lock of the process.
THEOREM CancelStands == Spec => StaysCancelled
<1>1. Inv /\ [Next]_vars => [row.status = "cancelled" => row'.status = "cancelled"]_vars
  BY StepStays
<1> QED BY <1>1, Invariance, PTL DEF Spec, StaysCancelled

-----------------------------------------------------------------------------
(* Nothing is lost.                                                         *)

\* An event was given to a run, waits in the inbox or for its restart, or is gone in one of the ways told.
Given(e) ==
  \/ e \in gone.taken \union gone.dropped \union Excepted
  \/ e \in ToSet(row.inbox) \/ \E g \in restarts : g.ev = e
  \/ row.status = "cancelled"

\* An event that is not acknowledged is in the queue, also while a handler has it.
QueuedOrGiven == \A e \in 1..moved : e \in ToSet(queue) \/ Given(e)

\* An event a replica has seen it handles now, or it was given.
SeenGiven == \A r \in Replicas : \A e \in seen[r] : e # 0 /\ ((handler[r].pc # "idle" /\ handler[r].ev = e) \/ Given(e))

\* The inbox is looked at for the end of the companion only; a list that found it cancelled still holds.
HandlersKnow ==
  \A r \in Replicas : /\ handler[r].pc \in {"read", "next", "rerun"} => handler[r].ev = 0
                      /\ handler[r].pc = "act" /\ handler[r].was = "cancelled" => row.status = "cancelled"

Ways == {"taken", "dropped", "lost", "slipped", "failed", "closed", "stranded"}
History == [taken : SUBSET Nat, dropped : SUBSET Nat, lost : SUBSET Nat, slipped : SUBSET Nat, failed : SUBSET Nat,
            closed : SUBSET Nat, stranded : SUBSET Nat]

Told ==
  /\ gone \in History
  /\ seen \in [Replicas -> SUBSET Nat]
LostInv == Told /\ QueuedOrGiven /\ SeenGiven /\ HandlersKnow

LEMMA TailKeeps ==
  ASSUME NEW s \in Seq(Nat), s # <<>>, NEW e \in ToSet(s), e # Head(s)
  PROVE  e \in ToSet(Tail(s))
<1>1. PICK i \in 1..Len(s) : s[i] = e
  BY DEF ToSet
<1>2. i # 1 /\ i - 1 \in 1..Len(Tail(s)) /\ Tail(s)[i - 1] = e
  BY <1>1
<1>3. DOMAIN Tail(s) = 1..Len(Tail(s))
  OBVIOUS
<1>4. \E j \in DOMAIN Tail(s) : Tail(s)[j] = e
  BY <1>2, <1>3
<1> QED BY <1>4 DEF ToSet

LEMMA AppendKeeps ==
  ASSUME NEW s \in Seq(Nat), NEW x \in Nat
  PROVE  /\ x \in ToSet(Append(s, x)) /\ \A e \in ToSet(s) : e \in ToSet(Append(s, x))
         /\ Append(s, x) \in Seq(Nat)
<1>1. ASSUME NEW e \in ToSet(s) PROVE e \in ToSet(Append(s, x))
  <2>1. PICK i \in 1..Len(s) : s[i] = e
    BY DEF ToSet
  <2>2. i \in 1..Len(Append(s, x)) /\ Append(s, x)[i] = e
    BY <2>1
  <2> QED BY <2>2 DEF ToSet
<1>2. Len(s) + 1 \in 1..Len(Append(s, x)) /\ Append(s, x)[Len(s) + 1] = x
  OBVIOUS
<1>3. x \in ToSet(Append(s, x))
  BY <1>2 DEF ToSet
<1> QED BY <1>1, <1>3

\* What is noted: an event or the inbox, under a way of the history.
LEMMA Noted ==
  ASSUME Told, NEW k \in Ways, NEW es, Note(k, es)
  PROVE  (\A w \in Ways : gone[w] \subseteq gone'[w]) /\ es \subseteq gone'[k] /\ (es \subseteq Nat => gone' \in History)
<1>1. \A w \in Ways : gone'[w] = IF w = k THEN gone[w] \union es ELSE gone[w]
  BY DEF Told, Note, Ways, History
<1>2. es \subseteq Nat => gone' \in History
  BY DEF Told, Note, Ways, History
<1> QED BY <1>1, <1>2

\* What a step writes of the history.
LEMMA GoneSteps ==
  ASSUME Inv, Told, Next
  PROVE  \/ UNCHANGED gone
         \/ \E k \in Ways : \E es \in SUBSET Nat : Note(k, es)
         \/ \E g \in restarts : gone' = [gone EXCEPT !.taken = @ \union {g.ev}, !.dropped = @ \union ToSet(row.inbox)]
<1> DEFINE T == \/ UNCHANGED gone
                \/ \E k \in Ways : \E es \in SUBSET Nat : Note(k, es)
                \/ \E g \in restarts : gone' = [gone EXCEPT !.taken = @ \union {g.ev}, !.dropped = @ \union ToSet(row.inbox)]
<1>0. /\ row.inbox \in Seq(Nat) /\ ToSet(row.inbox) \subseteq Nat
      /\ \A g \in restarts : g.ev \in Nat
      /\ \A r \in Replicas : handler[r].ev \in Nat
  BY DEF Inv, TypeInv, Handlers, ToSet
<1>a. ASSUME NEW k \in Ways, NEW es, es \subseteq Nat, Note(k, es) PROVE T
  BY <1>a
<1>1. ASSUME NEW r \in Replicas, CompanionRun(r) \/ CompanionFails(r) PROVE T
  <2>1. UNCHANGED gone \/ \E k \in Ways : Note(k, {handler[r].ev})
    BY <1>1 DEF CompanionRun, CompanionFails, Ways
  <2>2. {handler[r].ev} \subseteq Nat
    BY <1>0
  <2> QED BY <1>a, <2>1, <2>2
<1>2. ASSUME NEW r \in Replicas, RerunNext(r) PROVE T
  <2>1. UNCHANGED gone \/ (row.inbox # <<>> /\ Note("taken", {Head(row.inbox)}))
    BY <1>2 DEF RerunNext
  <2>2. row.inbox # <<>> => {Head(row.inbox)} \subseteq Nat
    BY <1>0, FirstAndRest
  <2> QED BY <1>a, <2>1, <2>2 DEF Ways
<1>3. ASSUME NEW r \in Replicas, InboxFails(r) PROVE T
  BY <1>0, <1>3, <1>a DEF InboxFails, Ways
<1>4. ASSUME NEW r \in Replicas, StopReplica(r) PROVE T
  <2>1. Note("lost", {g.ev : g \in {x \in restarts : x.at = r}})
    BY <1>4 DEF StopReplica
  <2>2. {g.ev : g \in {x \in restarts : x.at = r}} \subseteq Nat
    BY <1>0
  <2> QED BY <1>a, <2>1, <2>2 DEF Ways
<1>5. ASSUME NEW g \in restarts, RestartFails(g) PROVE T
  <2>1. Note("failed", {g.ev}) /\ {g.ev} \subseteq Nat
    BY <1>0, <1>5 DEF RestartFails
  <2> QED BY <1>a, <2>1 DEF Ways
<1>6. ASSUME NEW g \in restarts, Interrupt(g) \/ Restart(g) PROVE T
  BY <1>6 DEF Interrupt, Restart
<1>7. ASSUME NEW r \in Replicas, Take(r) \/ Deliver(r) \/ List(r) \/ NextRead(r) \/ NextInInbox(r) PROVE UNCHANGED gone
  BY <1>7 DEF Take, Deliver, List, NextRead, NextInInbox
<1>8. ASSUME Observe \/ EndRun \/ Leave \/ Resume \/ Publish \/ CancelCompanion \/ Unblock \/ CloseChange PROVE UNCHANGED gone
  BY <1>8 DEF Observe, EndRun, Leave, Resume, Publish, CancelCompanion, Unblock, CloseChange
<1>9. UNCHANGED gone => T
  OBVIOUS
<1> HIDE DEF T
<1>10. T
  BY <1>1, <1>2, <1>3, <1>4, <1>5, <1>6, <1>7, <1>8, <1>9 DEF Next, HandlerNext, RestartNext, Fails
<1> QED BY <1>10 DEF T

\* The history only grows.
LEMMA GoneGrows ==
  ASSUME Inv, Told, Next
  PROVE  (\A w \in Ways : gone[w] \subseteq gone'[w]) /\ gone' \in History
<1>1. CASE UNCHANGED gone
  BY <1>1 DEF Told
<1>2. ASSUME NEW k \in Ways, NEW es \in SUBSET Nat, Note(k, es)
      PROVE  (\A w \in Ways : gone[w] \subseteq gone'[w]) /\ gone' \in History
  BY <1>2, Noted
<1>3. ASSUME NEW g \in restarts, gone' = [gone EXCEPT !.taken = @ \union {g.ev}, !.dropped = @ \union ToSet(row.inbox)]
      PROVE  (\A w \in Ways : gone[w] \subseteq gone'[w]) /\ gone' \in History
  <2>1. {g.ev} \subseteq Nat /\ ToSet(row.inbox) \subseteq Nat
    BY DEF Inv, TypeInv, ToSet
  <2>2. ASSUME NEW x \in SUBSET Nat, NEW y \in SUBSET Nat,
               gone' = [gone EXCEPT !.taken = gone.taken \union x, !.dropped = gone.dropped \union y]
        PROVE  (\A w \in Ways : gone[w] \subseteq gone'[w]) /\ gone' \in History
    <3>1. \A w \in Ways : gone'[w] = IF w = "taken" THEN gone[w] \union x ELSE IF w = "dropped" THEN gone[w] \union y ELSE gone[w]
      BY <2>2 DEF Told, Ways, History
    <3>2. gone' \in History
      BY <2>2 DEF Told, History
    <3> QED BY <3>1, <3>2
  <2> QED BY <1>3, <2>1, <2>2
<1> QED BY <1>1, <1>2, <1>3, GoneSteps

\* Once given, an event stays so: what leaves the inbox is taken or dropped, what leaves the restarts taken or lost.
LEMMA GivenStays ==
  ASSUME Inv, Told, Next, NEW e, Given(e)
  PROVE  Given(e)'
<1>0. row \in [status : Statuses, event : Nat, inbox : Seq(Nat)]
  BY DEF Inv, TypeInv
<1>1. CASE row.status = "cancelled"
  BY <1>1, StepStays DEF Given
<1>2. CASE row.status # "cancelled" /\ e \in gone.taken \union gone.dropped \union Excepted
  <2>1. \A w \in Ways : gone[w] \subseteq gone'[w]
    BY GoneGrows
  <2>2. /\ gone.taken \subseteq gone'.taken /\ gone.dropped \subseteq gone'.dropped
        /\ gone.lost \subseteq gone'.lost /\ gone.slipped \subseteq gone'.slipped
        /\ gone.failed \subseteq gone'.failed /\ gone.closed \subseteq gone'.closed
    BY <2>1 DEF Ways
  <2> QED BY <1>2, <2>2 DEF Given, Excepted
<1>3. CASE row.status # "cancelled" /\ e \in ToSet(row.inbox)
  <2>1. CASE row'.inbox = row.inbox
    BY <1>3, <2>1 DEF Given
  <2>2. ASSUME NEW r \in Replicas, CompanionRun(r) PROVE Given(e)'
    <3>1. row'.inbox = row.inbox \/ row'.inbox = Append(row.inbox, handler[r].ev)
      BY <1>0, <2>2 DEF CompanionRun, RunsFor, RerunFor, Enqueued
    <3>2. handler[r].ev \in Nat /\ row.inbox \in Seq(Nat)
      BY <1>0 DEF Inv, TypeInv, Handlers
    <3> QED BY <1>3, <2>1, <3>1, <3>2, AppendKeeps DEF Given
  <2>3. ASSUME NEW r \in Replicas, RerunNext(r) PROVE Given(e)'
    <3>1. CASE Ended(row.status) /\ row.inbox # <<>>
      <4>1. row'.inbox = Tail(row.inbox) /\ Note("taken", {Head(row.inbox)}) /\ row.inbox \in Seq(Nat)
        BY <1>0, <2>3, <3>1 DEF RerunNext, RunsFor
      <4>2. CASE e = Head(row.inbox)
        BY <4>1, <4>2, Noted DEF Ways, Given
      <4>3. CASE e # Head(row.inbox)
        BY <1>3, <3>1, <4>1, <4>3, TailKeeps DEF Given
      <4> QED BY <4>2, <4>3
    <3>2. CASE ~(Ended(row.status) /\ row.inbox # <<>>)
      <4>1. row' = RerunFor(row, row.event)
        BY <2>3, <3>2 DEF RerunNext
      <4>2. row'.inbox = row.inbox
        BY <1>0, <4>1 DEF RerunFor, RunsFor
      <4> QED BY <2>1, <4>2
    <3> QED BY <3>1, <3>2
  <2>4. ASSUME NEW g \in restarts, Restart(g) PROVE Given(e)'
    <3>1. gone' = [gone EXCEPT !.taken = @ \union {g.ev}, !.dropped = @ \union ToSet(row.inbox)]
      BY <1>3, <2>4 DEF Restart, StoppedByAPerson
    <3>2. e \in gone'.dropped
      BY <1>3, <3>1 DEF Told, History
    <3> QED BY <3>2 DEF Given
  <2>5. ASSUME NEW r \in Replicas, Take(r) \/ Deliver(r) \/ List(r) \/ NextRead(r) \/ NextInInbox(r) \/ StopReplica(r)
        PROVE row'.inbox = row.inbox
    BY <2>5 DEF Take, Deliver, List, NextRead, NextInInbox, StopReplica
  <2>6. ASSUME NEW g \in restarts, Interrupt(g) PROVE row'.inbox = row.inbox
    BY <2>6 DEF Interrupt
  <2>7. CASE Observe \/ EndRun \/ Leave \/ Resume \/ Publish \/ CancelCompanion \/ Unblock
    <3>1. row' = row \/ \E s : row' = [row EXCEPT !.status = s]
      BY <2>7 DEF Observe, EndRun, Leave, Resume, Publish, CancelCompanion, Unblock
    <3>2. row'.inbox = row.inbox
      BY <1>0, <3>1
    <3> QED BY <2>1, <3>2
  <2>8. ASSUME (\E r \in Replicas : Fails(r)) \/ (\E g \in restarts : RestartFails(g)) \/ CloseChange PROVE row' = row
    BY <2>8 DEF Fails, CompanionFails, InboxFails, RestartFails, CloseChange
  <2> QED BY <2>1, <2>2, <2>3, <2>4, <2>5, <2>6, <2>7, <2>8 DEF Next, HandlerNext, RestartNext
<1>4. ASSUME row.status # "cancelled", NEW g \in restarts, g.ev = e PROVE Given(e)'
  <2>1. CASE g \in restarts'
    BY <1>4, <2>1 DEF Given
  <2>2. ASSUME NEW h \in restarts, Interrupt(h) PROVE Given(e)'
    <3>1. \E x \in restarts' : x.ev = e
      <4>1. CASE g = h
        <5>1. [g EXCEPT !.pc = "wait"] \in restarts' /\ [g EXCEPT !.pc = "wait"].ev = g.ev
          BY <2>2, <4>1 DEF Interrupt, Inv, TypeInv
        <5> QED BY <1>4, <5>1
      <4>2. CASE g # h
        BY <1>4, <2>2, <4>2 DEF Interrupt
      <4> QED BY <4>1, <4>2
    <3> QED BY <3>1 DEF Given
  <2>3. ASSUME NEW h \in restarts, Restart(h) PROVE Given(e)'
    <3>1. CASE g = h
      <4>1. gone' = [gone EXCEPT !.taken = @ \union {g.ev}, !.dropped = @ \union ToSet(row.inbox)]
        BY <1>4, <2>3, <3>1 DEF Restart, StoppedByAPerson
      <4>2. e \in gone'.taken
        BY <1>4, <4>1 DEF Told, History
      <4> QED BY <4>2 DEF Given
    <3>2. CASE g # h
      BY <2>1, <2>3, <3>2 DEF Restart
    <3> QED BY <3>1, <3>2
  <2>4. ASSUME NEW r \in Replicas, StopReplica(r) PROVE Given(e)'
    <3>1. CASE g.at = r
      <4>1. Note("lost", {x.ev : x \in {y \in restarts : y.at = r}})
        BY <2>4 DEF StopReplica
      <4>2. e \in gone'.lost
        BY <1>4, <3>1, <4>1 DEF Note, Told, History
      <4> QED BY <4>2 DEF Given, Excepted
    <3>2. CASE g.at # r
      BY <2>1, <2>4, <3>2 DEF StopReplica
    <3> QED BY <3>1, <3>2
  <2>5. ASSUME NEW r \in Replicas, Take(r) \/ HandlerNext(r) PROVE restarts \subseteq restarts'
    BY <2>5 DEF Take, HandlerNext, Deliver, List, CompanionRun, NextRead, NextInInbox, RerunNext
  <2>6. CASE Observe \/ EndRun \/ Leave \/ Resume \/ Publish \/ CancelCompanion \/ Unblock
    BY <2>1, <2>6 DEF Observe, EndRun, Leave, Resume, Publish, CancelCompanion, Unblock
  <2>7. ASSUME NEW r \in Replicas, Fails(r) PROVE restarts \subseteq restarts'
    BY <2>7 DEF Fails, CompanionFails, InboxFails
  <2>8. ASSUME NEW h \in restarts, RestartFails(h) PROVE Given(e)'
    <3>1. CASE g = h
      <4>1. Note("failed", {e})
        BY <1>4, <2>8, <3>1 DEF RestartFails
      <4>2. e \in gone'.failed
        BY <4>1 DEF Note, Told, History
      <4> QED BY <4>2 DEF Given, Excepted
    <3>2. CASE g # h
      BY <2>1, <2>8, <3>2 DEF RestartFails
    <3> QED BY <3>1, <3>2
  <2>9. CASE CloseChange
    BY <2>1, <2>9 DEF CloseChange
  <2> QED BY <2>1, <2>2, <2>3, <2>4, <2>5, <2>6, <2>7, <2>8, <2>9 DEF Next, RestartNext
<1> QED BY <1>1, <1>2, <1>3, <1>4 DEF Given

LEMMA ToldStep ==
  ASSUME Inv, Told, [Next]_vars
  PROVE  Told'
<1>2. gone' \in History
  BY GoneGrows DEF Told, vars
<1>3. seen' \in [Replicas -> SUBSET Nat]
  <2>0. seen \in [Replicas -> SUBSET Nat]
    BY DEF Told
  <2>1. ASSUME NEW r \in Replicas, Deliver(r) PROVE seen' \in [Replicas -> SUBSET Nat]
    <3>1. Remembered(Head(queue)) \subseteq Nat
      BY <2>1, FirstAndRest DEF Deliver, Inv, TypeInv, Remembered
    <3>2. seen' = seen \/ seen' = [seen EXCEPT ![r] = @ \union Remembered(Head(queue))]
      BY <2>1 DEF Deliver
    <3> QED BY <2>0, <3>1, <3>2
  <2>2. ASSUME NEW r \in Replicas, StopReplica(r) PROVE seen' \in [Replicas -> SUBSET Nat]
    BY <2>0, <2>2 DEF StopReplica
  <2> QED BY <2>0, <2>1, <2>2
          DEF Next, HandlerNext, RestartNext, Take, List, CompanionRun, NextRead, NextInInbox, RerunNext, Interrupt, Restart,
              Fails, CompanionFails, InboxFails, RestartFails, Observe, EndRun, Leave, Resume, Publish, CancelCompanion,
              Unblock, CloseChange, vars
<1> QED BY <1>2, <1>3 DEF Told

\* An event whose handler is done was given.
LEMMA HandledGiven ==
  ASSUME Inv, LostInv, NEW r \in Replicas, CompanionRun(r) \/ CompanionFails(r), NEW e, e = handler[r].ev
  PROVE  Given(e)'
<1> DEFINE was == handler[r].was
<1>0. /\ row \in [status : Statuses, event : Nat, inbox : Seq(Nat)] /\ e \in Nat
  BY DEF Inv, TypeInv, Handlers
<1>1. ASSUME NEW k \in {"taken", "slipped", "failed", "closed"}, Note(k, {e}) PROVE Given(e)'
  <2>1. e \in gone'[k]
    BY <1>1, Noted DEF Ways, LostInv
  <2> QED BY <2>1 DEF Given, Excepted
<1>2. CASE was = "cancelled" /\ CompanionRun(r)
  <2>1. row' = row /\ row.status = "cancelled"
    BY <1>2 DEF CompanionRun, LostInv, HandlersKnow, Ended
  <2> QED BY <2>1 DEF Given
<1>3. CASE restarts' = restarts \union {[at |-> r, ev |-> e, pc |-> "new"]}
  <2>1. [at |-> r, ev |-> e, pc |-> "new"] \in restarts' /\ [at |-> r, ev |-> e, pc |-> "new"].ev = e
    BY <1>3
  <2> QED BY <2>1 DEF Given
<1>4. CASE row' = [row EXCEPT !.inbox = Enqueued(@, e)]
  <2>1. row'.inbox = Append(row.inbox, e) /\ row.inbox \in Seq(Nat)
    BY <1>0, <1>4 DEF Enqueued
  <2> QED BY <1>0, <2>1, AppendKeeps DEF Given
<1>5. \/ \E k \in {"taken", "slipped", "failed", "closed"} : Note(k, {e})
      \/ was = "cancelled" /\ CompanionRun(r)
      \/ restarts' = restarts \union {[at |-> r, ev |-> e, pc |-> "new"]}
      \/ row' = [row EXCEPT !.inbox = Enqueued(@, e)]
  BY DEF CompanionRun, CompanionFails
<1> QED BY <1>1, <1>2, <1>3, <1>4, <1>5

\* What a step takes from the queue is the end of the companion, or was given.
LEMMA QueueStep ==
  ASSUME Inv, LostInv, Next
  PROVE  QueuedOrGiven'
<1>0. queue \in Seq(Nat) /\ moved \in Nat /\ \A r \in Replicas : handler[r].ev \in Nat
  BY DEF Inv, TypeInv, Handlers
<1>1. \A e \in 1..moved : e \in ToSet(queue) \/ Given(e)'
  BY GivenStays DEF LostInv, QueuedOrGiven
<1>2. CASE UNCHANGED <<queue, moved>>
  BY <1>1, <1>2 DEF QueuedOrGiven
<1>3. ASSUME NEW e \in Nat, e = 0 \/ Given(e)', queue # <<>>, Head(queue) = e, queue' = Tail(queue), UNCHANGED moved
      PROVE  QueuedOrGiven'
  <2> SUFFICES ASSUME NEW f \in 1..moved PROVE f \in ToSet(queue') \/ Given(f)'
    BY <1>3 DEF QueuedOrGiven
  <2>1. CASE f = e
    BY <1>3, <2>1
  <2>2. CASE f # e
    BY <1>0, <1>1, <1>3, <2>2, TailKeeps
  <2> QED BY <2>1, <2>2
<1>4. ASSUME NEW r \in Replicas, Ack(r), NEW e, e = handler[r].ev, e = 0 \/ Given(e)', UNCHANGED moved PROVE QueuedOrGiven'
  BY <1>0, <1>2, <1>3, <1>4 DEF Ack
<1>5. ASSUME NEW r \in Replicas, Deliver(r) PROVE QueuedOrGiven'
  <2>1. CASE queue' = Tail(queue) /\ Head(queue) \in seen[r]
    <3>1. PICK e : e = Head(queue)
      OBVIOUS
    <3>2. Given(e) /\ UNCHANGED moved /\ queue # <<>>
      BY <1>5, <2>1, <3>1 DEF LostInv, SeenGiven, Deliver
    <3>3. Given(e)' /\ e \in Nat
      BY <1>0, <3>1, <3>2, GivenStays, FirstAndRest DEF LostInv
    <3> QED BY <1>3, <2>1, <3>1, <3>2, <3>3
  <2> QED BY <1>2, <1>5, <2>1 DEF Deliver
<1>6. ASSUME NEW r \in Replicas, CompanionRun(r) \/ CompanionFails(r) PROVE QueuedOrGiven'
  BY <1>4, <1>6, HandledGiven DEF CompanionRun, CompanionFails
<1>7. ASSUME NEW r \in Replicas, NextRead(r) \/ NextInInbox(r) \/ RerunNext(r) \/ InboxFails(r) PROVE QueuedOrGiven'
  <2>1. handler[r].ev = 0 /\ UNCHANGED moved
    BY <1>7 DEF LostInv, HandlersKnow, NextRead, NextInInbox, RerunNext, InboxFails
  <2>2. Ack(r) \/ UNCHANGED queue
    BY <1>7 DEF NextRead, NextInInbox, RerunNext, InboxFails
  <2> QED BY <1>2, <1>4, <2>1, <2>2
<1>8. ASSUME NEW r \in Replicas, Take(r) \/ List(r) \/ StopReplica(r) PROVE QueuedOrGiven'
  BY <1>2, <1>8 DEF Take, List, StopReplica
<1>9. CASE EndRun
  <2>1. queue' = queue \/ queue' = Append(queue, 0)
    BY <1>9 DEF EndRun
  <2>2. moved' = moved
    BY <1>9 DEF EndRun
  <2> QED BY <1>0, <1>1, <1>2, <2>1, <2>2, AppendKeeps DEF QueuedOrGiven
<1>10. CASE Publish
  <2>1. moved' = moved + 1 /\ queue' = Append(queue, moved + 1) /\ moved + 1 \in Nat
    BY <1>0, <1>10 DEF Publish
  <2>2. \A f \in 1..moved' : f \in 1..moved \/ f = moved + 1
    BY <1>0, <2>1
  <2> QED BY <1>0, <1>1, <2>1, <2>2, AppendKeeps DEF QueuedOrGiven
<1>11. ASSUME NEW g \in restarts, Interrupt(g) \/ Restart(g) \/ RestartFails(g) PROVE QueuedOrGiven'
  BY <1>2, <1>11 DEF Interrupt, Restart, RestartFails
<1>12. CASE Observe \/ Leave \/ Resume \/ CancelCompanion \/ Unblock \/ CloseChange
  BY <1>2, <1>12 DEF Observe, Leave, Resume, CancelCompanion, Unblock, CloseChange
<1> QED BY <1>5, <1>6, <1>7, <1>8, <1>9, <1>10, <1>11, <1>12 DEF Next, HandlerNext, RestartNext, Fails

\* What a replica has seen it handles until it is given.
LEMMA SeenStep ==
  ASSUME Inv, LostInv, Next
  PROVE  SeenGiven'
<1>0. /\ handler \in [Replicas -> [pc : {"idle", "list", "act", "read", "next", "rerun"}, ev : Nat, was : Statuses]]
      /\ seen \in [Replicas -> SUBSET Nat]
  BY DEF Inv, TypeInv, Handlers, LostInv, Told
<1> SUFFICES ASSUME NEW q \in Replicas, NEW e \in seen'[q]
             PROVE  e # 0 /\ ((handler'[q].pc # "idle" /\ handler'[q].ev = e) \/ Given(e)')
  BY DEF SeenGiven
<1>1. e \in seen[q] => e # 0 /\ ((handler[q].pc # "idle" /\ handler[q].ev = e) \/ Given(e)')
  BY GivenStays DEF LostInv, SeenGiven
<1>2. CASE UNCHANGED seen /\ handler'[q] = handler[q]
  BY <1>1, <1>2
<1>3. ASSUME NEW r \in Replicas, Deliver(r) PROVE e # 0 /\ ((handler'[q].pc # "idle" /\ handler'[q].ev = e) \/ Given(e)')
  <2>1. CASE UNCHANGED <<handler, seen>>
    BY <1>2, <2>1
  <2>2. CASE r # q
    <3>1. seen'[q] = seen[q] /\ handler'[q] = handler[q]
      BY <1>0, <1>3, <2>2 DEF Deliver
    <3> QED BY <1>1, <3>1
  <2>3. CASE r = q /\ ~UNCHANGED <<handler, seen>>
    <3> DEFINE h == Head(queue)
    <3>1. /\ handler[q].pc = "idle" /\ seen' = [seen EXCEPT ![q] = @ \union Remembered(h)]
          /\ handler' = [handler EXCEPT ![q] = [pc |-> IF h = 0 THEN "read" ELSE "list", ev |-> h, was |-> "none"]]
      BY <1>3, <2>3 DEF Deliver
    <3>2. e \in seen[q] => e # 0 /\ Given(e)'
      BY <1>1, <3>1
    <3>3. e \in seen[q] \/ (e = h /\ e # 0)
      BY <1>0, <3>1 DEF Remembered
    <3>4. handler'[q].pc # "idle" /\ handler'[q].ev = h
      BY <1>0, <3>1
    <3> QED BY <3>2, <3>3, <3>4
  <2> QED BY <2>1, <2>2, <2>3
<1>4. ASSUME NEW r \in Replicas, Ack(r), NEW f, f = handler[r].ev, f = 0 \/ Given(f)', UNCHANGED seen
      PROVE  e # 0 /\ ((handler'[q].pc # "idle" /\ handler'[q].ev = e) \/ Given(e)')
  <2>1. CASE q = r
    BY <1>1, <1>4, <2>1
  <2>2. CASE q # r
    <3>1. handler'[q] = handler[q]
      BY <1>0, <1>4, <2>2 DEF Ack
    <3> QED BY <1>2, <1>4, <3>1
  <2> QED BY <2>1, <2>2
<1>5. ASSUME NEW r \in Replicas, CompanionRun(r) \/ CompanionFails(r)
      PROVE e # 0 /\ ((handler'[q].pc # "idle" /\ handler'[q].ev = e) \/ Given(e)')
  BY <1>4, <1>5, HandledGiven DEF CompanionRun, CompanionFails
<1>6. ASSUME NEW r \in Replicas, NextRead(r) \/ NextInInbox(r) \/ RerunNext(r) \/ InboxFails(r)
      PROVE e # 0 /\ ((handler'[q].pc # "idle" /\ handler'[q].ev = e) \/ Given(e)')
  <2>1. handler[r].ev = 0 /\ UNCHANGED seen
    BY <1>6 DEF LostInv, HandlersKnow, NextRead, NextInInbox, RerunNext, InboxFails
  <2>2. Ack(r) \/ \E l \in {"next", "rerun"} : handler' = [handler EXCEPT ![r].pc = l]
    BY <1>6 DEF NextRead, NextInInbox, RerunNext, InboxFails
  <2>3. ASSUME NEW l \in {"next", "rerun"}, handler' = [handler EXCEPT ![r].pc = l]
        PROVE e # 0 /\ ((handler'[q].pc # "idle" /\ handler'[q].ev = e) \/ Given(e)')
    <3>1. handler'[q].ev = handler[q].ev /\ (handler[q].pc # "idle" => handler'[q].pc # "idle")
      BY <1>0, <2>3
    <3> QED BY <1>1, <2>1, <3>1
  <2> QED BY <1>4, <2>1, <2>2, <2>3
<1>7. ASSUME NEW r \in Replicas, List(r) PROVE e # 0 /\ ((handler'[q].pc # "idle" /\ handler'[q].ev = e) \/ Given(e)')
  <2>1. UNCHANGED seen /\ handler' = [handler EXCEPT ![r] = [handler[r] EXCEPT !.pc = "act", !.was = row.status]]
    BY <1>0, <1>7 DEF List
  <2>2. handler'[q].ev = handler[q].ev /\ (handler[q].pc # "idle" => handler'[q].pc # "idle")
    BY <1>0, <2>1
  <2> QED BY <1>1, <2>1, <2>2
<1>8. ASSUME NEW r \in Replicas, StopReplica(r) PROVE e # 0 /\ ((handler'[q].pc # "idle" /\ handler'[q].ev = e) \/ Given(e)')
  <2>1. handler' = [handler EXCEPT ![r] = Idle] /\ seen' = [seen EXCEPT ![r] = {}]
    BY <1>8 DEF StopReplica
  <2>2. q # r /\ handler'[q] = handler[q] /\ seen'[q] = seen[q]
    BY <1>0, <2>1
  <2> QED BY <1>1, <2>2
<1>9. ASSUME NEW r \in Replicas, Take(r) PROVE UNCHANGED <<seen, handler>>
  BY <1>9 DEF Take
<1>10. ASSUME NEW g \in restarts, Interrupt(g) \/ Restart(g) \/ RestartFails(g) PROVE UNCHANGED <<seen, handler>>
  BY <1>10 DEF Interrupt, Restart, RestartFails
<1>11. CASE Observe \/ EndRun \/ Leave \/ Resume \/ Publish \/ CancelCompanion \/ Unblock \/ CloseChange
  BY <1>2, <1>11 DEF Observe, EndRun, Leave, Resume, Publish, CancelCompanion, Unblock, CloseChange
<1> QED BY <1>2, <1>3, <1>5, <1>6, <1>7, <1>8, <1>9, <1>10, <1>11 DEF Next, HandlerNext, RestartNext, Fails

LEMMA KnowStep ==
  ASSUME Inv, LostInv, Next
  PROVE  HandlersKnow'
<1>0. /\ handler \in [Replicas -> [pc : {"idle", "list", "act", "read", "next", "rerun"}, ev : Nat, was : Statuses]]
      /\ row.status = "cancelled" => row'.status = "cancelled"
  BY StepStays DEF Inv, TypeInv, Handlers
<1> DEFINE Knows(r) == /\ handler'[r].pc \in {"read", "next", "rerun"} => handler'[r].ev = 0
                       /\ handler'[r].pc = "act" /\ handler'[r].was = "cancelled" => row'.status = "cancelled"
<1>1. \A q \in Replicas : handler'[q] = handler[q] => Knows(q)
  BY <1>0 DEF LostInv, HandlersKnow
<1>2. ASSUME NEW r \in Replicas, Ack(r) PROVE \A q \in Replicas : Knows(q)
  <2>1. handler'[r].pc = "idle" /\ \A q \in Replicas \ {r} : handler'[q] = handler[q]
    BY <1>2, AckTypes DEF Others
  <2> QED BY <1>1, <2>1
<1>3. ASSUME NEW r \in Replicas, Deliver(r) PROVE \A q \in Replicas : Knows(q)
  <2> DEFINE h == Head(queue)
  <2>1. handler' = handler \/ handler' = [handler EXCEPT ![r] = [pc |-> IF h = 0 THEN "read" ELSE "list", ev |-> h, was |-> "none"]]
    BY <1>3 DEF Deliver
  <2>2. \A q \in Replicas : handler'[q] = handler[q] \/ handler'[q] = [pc |-> IF h = 0 THEN "read" ELSE "list", ev |-> h, was |-> "none"]
    BY <1>0, <2>1
  <2> QED BY <1>1, <2>2
<1>4. ASSUME NEW r \in Replicas, List(r) PROVE \A q \in Replicas : Knows(q)
  <2>1. row' = row /\ handler' = [handler EXCEPT ![r] = [handler[r] EXCEPT !.pc = "act", !.was = row.status]]
    BY <1>0, <1>4 DEF List
  <2>2. /\ \A q \in Replicas : q # r => handler'[q] = handler[q]
        /\ handler'[r] = [handler[r] EXCEPT !.pc = "act", !.was = row.status]
    BY <1>0, <2>1
  <2>3. handler'[r].pc = "act" /\ handler'[r].was = row.status
    BY <1>0, <2>2
  <2> QED BY <1>1, <2>1, <2>2, <2>3
<1>5. ASSUME NEW r \in Replicas, NEW l \in {"next", "rerun"}, handler[r].pc \in {"read", "next"}, handler' = [handler EXCEPT ![r].pc = l]
      PROVE \A q \in Replicas : Knows(q)
  <2>1. handler[r].ev = 0
    BY <1>5 DEF LostInv, HandlersKnow
  <2>2. \A q \in Replicas : q # r => handler'[q] = handler[q]
    BY <1>0, <1>5
  <2>3. handler'[r].pc = l /\ handler'[r].ev = 0
    BY <1>0, <1>5, <2>1
  <2> QED BY <1>1, <2>2, <2>3
<1>6. ASSUME NEW r \in Replicas, CompanionRun(r) \/ NextRead(r) \/ NextInInbox(r) \/ RerunNext(r) \/ Fails(r)
      PROVE \A q \in Replicas : Knows(q)
  <2>1. \/ Ack(r)
        \/ handler[r].pc \in {"read", "next"} /\ \E l \in {"next", "rerun"} : handler' = [handler EXCEPT ![r].pc = l]
    BY <1>6 DEF CompanionRun, NextRead, NextInInbox, RerunNext, Fails, CompanionFails, InboxFails
  <2> QED BY <1>2, <1>5, <2>1
<1>7. ASSUME NEW r \in Replicas, StopReplica(r) PROVE \A q \in Replicas : Knows(q)
  <2>1. handler' = [handler EXCEPT ![r] = Idle]
    BY <1>7 DEF StopReplica
  <2>2. \A q \in Replicas : handler'[q] = handler[q] \/ handler'[q].pc = "idle"
    BY <1>0, <2>1 DEF Idle
  <2> QED BY <1>1, <2>2
<1>8. ASSUME UNCHANGED handler PROVE \A q \in Replicas : Knows(q)
  BY <1>1, <1>8
<1>9. ASSUME NEW r \in Replicas, Take(r) PROVE UNCHANGED handler
  BY <1>9 DEF Take
<1>10. ASSUME NEW g \in restarts, Interrupt(g) \/ Restart(g) \/ RestartFails(g) PROVE UNCHANGED handler
  BY <1>10 DEF Interrupt, Restart, RestartFails
<1>11. ASSUME Observe \/ EndRun \/ Leave \/ Resume \/ Publish \/ CancelCompanion \/ Unblock \/ CloseChange
       PROVE \A q \in Replicas : Knows(q)
  BY <1>8, <1>11 DEF Observe, EndRun, Leave, Resume, Publish, CancelCompanion, Unblock, CloseChange
<1> HIDE DEF Knows
<1>12. \A q \in Replicas : Knows(q)
  BY <1>3, <1>4, <1>6, <1>7, <1>8, <1>9, <1>10, <1>11 DEF Next, HandlerNext, RestartNext
<1> QED BY <1>12 DEF Knows, HandlersKnow

\* Whatever is delivered again, stopped, superseded or fails, an event of the change is in the queue, was given to a run,
\* waits in the inbox or for its restart, was dropped for a newer one, or is gone in one of the ways told: an error met in
\* handling an event loses that event, and no other.
THEOREM EventsKept == Spec => []NothingLost
<1>1. Init => LostInv
  BY DEF Init, LostInv, Told, History, QueuedOrGiven, SeenGiven, HandlersKnow, Idle
<1>2. Inv /\ LostInv /\ [Next]_vars => LostInv'
  <2> SUFFICES ASSUME Inv, LostInv, [Next]_vars PROVE LostInv'
    OBVIOUS
  <2>1. Told'
    BY ToldStep DEF LostInv
  <2>2. CASE Next
    BY <2>1, <2>2, QueueStep, SeenStep, KnowStep DEF LostInv
  <2>3. CASE UNCHANGED vars
    BY <2>1, <2>3 DEF vars, LostInv, QueuedOrGiven, SeenGiven, HandlersKnow, Given, Excepted
  <2> QED BY <2>2, <2>3
<1>3. LostInv => NothingLost
  BY DEF LostInv, QueuedOrGiven, Given, NothingLost
<1> QED BY <1>1, <1>2, <1>3, Invariance, PTL DEF Spec
=============================================================================
