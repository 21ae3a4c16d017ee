--------------------------- MODULE EngineReplicas ---------------------------
(***************************************************************************)
(* Engine replicas working on one process (ADR 0124): the lease in table   *)
(* engine_lock, the process row fenced by it, the in-process mutex, the    *)
(* renewal of a held lock, the run loop with its checkpoints, Cancel and   *)
(* its interruption of the holder, Submit and what it writes before its    *)
(* save, and the recovery of what a stopped replica left.                  *)
(* engine/engine/{locks,engine,cancel,resume}.go, engine/enginesvc/        *)
(* sqlstore.go and signals.go.                                             *)
(*                                                                         *)
(* Time is abstract: a lease is live or it is not, and Lapse is time       *)
(* passing it.  The process has one action to carry out; an execution of   *)
(* it writes Pieces entries on the change and then its action record, and  *)
(* so does the submission of a person it waits for.                        *)
(* An operator right before the one it resembles (AnyLease, CanTake) is a  *)
(* plausible mistake in it, used to see that the properties notice.        *)
(***************************************************************************)
EXTENDS Integers, FiniteSets

CONSTANTS
  Replicas,     \* the engine replicas
  Threads,      \* the goroutines: a subset of Replicas \X Kinds
  NoThread,     \* the mutex is free
  NoRow,        \* engine_lock has no row for the process
  Gone,         \* the identity of a replica that stopped (NewHolder is random)
  Pieces,       \* entries an execution or a submission writes on the change, its record aside
  MaxSteps,     \* Engine.MaxSteps
  MaxExec,      \* bound: executions ever begun
  MaxWaits,     \* bound: times the run waits for a person
  MaxAnswers,   \* bound: submissions begun
  MaxCancels,   \* bound: calls of Cancel
  MaxSignals,   \* bound: replicas an interrupt signal reaches, 0 without GOAP_NATS_URL
  MaxCrashes,   \* bound: replicas stopped
  MaxStalls,    \* bound: leases lapsing under a holder that works (a pause)
  MaxFaults     \* bound: failed writes and reads of the database or the graph

Kinds == {"run", "cancel", "submit"}

ASSUME ThreadsAssumption == Threads \subseteq Replicas \X Kinds
ASSUME NamesAssumption ==
  NoThread \notin Threads /\ NoRow \notin Replicas /\ Gone \notin Replicas /\ NoRow # Gone
ASSUME BoundsAssumption ==
  /\ Pieces \in Nat \ {0} /\ MaxSteps \in Nat /\ MaxExec \in Nat /\ MaxWaits \in Nat /\ MaxAnswers \in Nat
  /\ MaxCancels \in Nat /\ MaxCrashes \in Nat /\ MaxStalls \in Nat /\ MaxFaults \in Nat
  /\ MaxSignals \in Nat

VARIABLES
  lock,         \* the row of the process in engine_lock
  stored,       \* the process row
  pieces,       \* per execution, the entries it wrote on the change
  recorded,     \* the executions whose action record is on the change
  used,         \* the execution ids drawn
  answers,      \* per submission, the entries it wrote on the change, its record the last
  given,        \* the ids of submissions drawn
  pc, mem,      \* per goroutine: where it is, its copy of the process
  mutex,        \* per replica: the goroutine in Engine.locks[id]
  section,      \* per replica: Engine.held[id] and its renewal goroutine
  ctx,          \* per replica: the context of Engine.running[id]
  cancelling,   \* per replica: Engine.cancelling[id] is set
  signal,       \* per replica: an interrupt signal on its way to it
  up,           \* the replicas running
  intact,       \* history: the lease never lapsed since the section began
  stale,        \* history: goroutines whose copy is older than the row
  dropped,      \* history: executions dropped as having written nothing
  cut,          \* history: executions found cut halfway
  spent         \* bounds used up

shared == <<lock, stored, pieces, recorded, used, answers, given>>
local == <<pc, mem, mutex, section, ctx, cancelling, signal, up>>
history == <<intact, stale, dropped, cut>>
vars == <<shared, local, history, spent>>

Execs == 1..MaxExec
Answers == 1..MaxAnswers
At(t) == t[1]
Kind(t) == t[2]
On(r) == {t \in Threads : At(t) = r}
Terminal(s) == s \in {"completed", "failed", "superseded", "cancelled"}
Statuses == {"running", "waiting", "stuck", "completed", "failed", "superseded", "cancelled"}
Process == [status : Statuses, open : Execs \union {0}, disabled : BOOLEAN,
            steps : 0..MaxSteps, waits : 0..MaxWaits,
            answer : Answers \union {0}]      \* the submission the last human step took: its Execution
Started == [status |-> "running", open |-> 0, disabled |-> FALSE, steps |-> 0, waits |-> 0, answer |-> 0]
NoSection == [held |-> FALSE, interrupted |-> FALSE, renewing |-> FALSE]
NoLock == [holder |-> NoRow, live |-> FALSE, by |-> FALSE]

Loaded == {"settle", "top", "checkpoint", "act", "journal", "answer", "save"}   \* works on its copy
Holding == Loaded \union {"got", "release", "accepted"}                         \* between hold and release

TypeOK ==
  /\ lock \in [holder : Replicas \union {NoRow, Gone}, live : BOOLEAN, by : BOOLEAN]
  /\ stored \in Process
  /\ pieces \in [Execs -> 0..Pieces] /\ recorded \subseteq Execs /\ used \in 0..MaxExec
  /\ answers \in [Answers -> 0..Pieces + 1] /\ given \in 0..MaxAnswers
  /\ pc \in [Threads -> Holding \union {"idle", "interrupt", "mutex", "hold", "unmark"}]
  /\ mem \in [Threads -> Process]
  /\ mutex \in [Replicas -> Threads \union {NoThread}]
  /\ section \in [Replicas -> [held : BOOLEAN, interrupted : BOOLEAN, renewing : BOOLEAN]]
  /\ ctx \in [Replicas -> {"off", "live", "cancelled"}]
  /\ cancelling \in [Replicas -> BOOLEAN]
  /\ signal \in [Replicas -> {"none", "sent", "loaded", "stale"}]
  /\ up \in [Replicas -> BOOLEAN] /\ intact \in [Replicas -> BOOLEAN]
  /\ stale \subseteq Threads /\ dropped \subseteq Execs /\ cut \subseteq Execs
  /\ spent \in [cancels : 0..MaxCancels, crashes : 0..MaxCrashes,
                stalls : 0..MaxStalls, faults : 0..MaxFaults]

Init ==
  /\ lock = NoLock /\ stored = Started
  /\ pieces = [e \in Execs |-> 0] /\ recorded = {} /\ used = 0
  /\ answers = [n \in Answers |-> 0] /\ given = 0
  /\ \E s \in Threads : /\ Kind(s) = "run"       \* Start scheduled the process on s
                        /\ pc = [t \in Threads |-> IF t = s THEN "mutex" ELSE "idle"]
  /\ mem = [t \in Threads |-> Started]
  /\ mutex = [r \in Replicas |-> NoThread]
  /\ section = [r \in Replicas |-> NoSection]
  /\ ctx = [r \in Replicas |-> "off"]
  /\ cancelling = [r \in Replicas |-> FALSE]
  /\ signal = [r \in Replicas |-> "none"]
  /\ up = [r \in Replicas |-> TRUE] /\ intact = [r \in Replicas |-> FALSE]
  /\ stale = {} /\ dropped = {} /\ cut = {}
  /\ spent = [cancels |-> 0, crashes |-> 0, stalls |-> 0, faults |-> 0]

-----------------------------------------------------------------------------
(* The shared lock: SQLStore.Acquire, Interrupt and the write it fences.    *)

AnyLease(r) == TRUE
FreeOrOwn(r) == lock.holder \in {NoRow, r}
CanTake(r) == lock.holder \in {NoRow, r} \/ ~lock.live
Taken(r) == [holder |-> r, live |-> TRUE, by |-> lock.holder = r /\ lock.by]
Emptied(r) == NoLock
Freed(r) == IF lock.holder = r THEN NoLock ELSE lock
CanInterrupt(r) == lock.holder \notin {NoRow, r} /\ lock.live
Unfenced(r) == FALSE
Fenced(r) == lock.holder \notin {NoRow, r} /\ lock.live

Goto(t, l) == pc' = [pc EXCEPT ![t] = l]
CancelRun(c, r) == [c EXCEPT ![r] = IF @ = "live" THEN "cancelled" ELSE @]
Fault == spent.faults < MaxFaults /\ spent' = [spent EXCEPT !.faults = @ + 1]

\* SQLStore.put: p becomes the row, unless another replica's lease runs on the process.
Put(t, p) ==
  /\ ~Fenced(At(t))
  /\ stored' = p
  /\ mem' = [mem EXCEPT ![t] = p]
  /\ stale' = (stale \union {u \in Threads : pc[u] \in Loaded}) \ {t}

-----------------------------------------------------------------------------
(* Engine.lock, hold, its renewal and its release.                          *)

Lock(t) ==
  /\ pc[t] = "mutex" /\ mutex[At(t)] = NoThread
  /\ mutex' = [mutex EXCEPT ![At(t)] = t]
  /\ Goto(t, "hold")
  /\ UNCHANGED <<shared, mem, section, ctx, cancelling, signal, up, history, spent>>

Acquire(t) ==
  LET r == At(t) IN
  /\ pc[t] = "hold" /\ CanTake(r)
  /\ lock' = Taken(r)
  /\ section' = [section EXCEPT ![r] = [held |-> TRUE, interrupted |-> Taken(r).by, renewing |-> TRUE]]
  /\ cancelling' = [cancelling EXCEPT ![r] = @ \/ Taken(r).by]
  /\ intact' = [intact EXCEPT ![r] = TRUE]
  /\ Goto(t, "got")
  /\ UNCHANGED <<stored, pieces, recorded, used, answers, given, mem, mutex, ctx, signal, up, stale, dropped, cut, spent>>

\* held.interrupt: once per section, the run in flight on r is marked and cancelled.
InterruptSection(r, asked) ==
  IF asked /\ ~section[r].interrupted
  THEN /\ section' = [section EXCEPT ![r].interrupted = TRUE]
       /\ cancelling' = [cancelling EXCEPT ![r] = TRUE]
       /\ ctx' = CancelRun(ctx, r)
  ELSE UNCHANGED <<section, cancelling, ctx>>

Renew(r) ==
  /\ section[r].renewing
  /\ \/ /\ CanTake(r)
        /\ lock' = Taken(r)
        /\ InterruptSection(r, Taken(r).by)
     \/ /\ ~CanTake(r)                       \* lock lost: another replica took over
        /\ section' = [section EXCEPT ![r].renewing = FALSE]
        /\ ctx' = CancelRun(ctx, r)
        /\ UNCHANGED <<lock, cancelling>>
  /\ UNCHANGED <<stored, pieces, recorded, used, answers, given, pc, mem, mutex, signal, up, history, spent>>

\* The deferred unlock of a section; fails: the DELETE of the row did not reach the database.  A submission
\* accepted, its caller runs the process.
Release(t) ==
  LET r == At(t)
      queued == {u \in On(r) : pc[t] = "accepted" /\ Kind(u) = "run" /\ pc[u] = "idle"}
  IN
  /\ pc[t] \in {"release", "accepted"}
  /\ section' = [section EXCEPT ![r] = NoSection]
  /\ cancelling' = [cancelling EXCEPT ![r] = @ /\ ~section[r].interrupted]
  /\ ctx' = [ctx EXCEPT ![r] = "off"]
  /\ mutex' = [mutex EXCEPT ![r] = NoThread]
  /\ signal' = [signal EXCEPT ![r] = IF @ # "loaded" THEN @ ELSE IF section[r].interrupted THEN "none" ELSE "stale"]
  /\ mem' = [mem EXCEPT ![t] = Started]
  /\ stale' = stale \ {t}
  /\ intact' = [intact EXCEPT ![r] = FALSE]
  /\ pc' = [u \in Threads |-> CASE u = t -> IF Kind(t) = "cancel" THEN "unmark" ELSE "idle"
                                [] u \in queued -> "mutex"
                                [] OTHER -> pc[u]]
  /\ \/ /\ lock' = Freed(r)
        /\ UNCHANGED spent
     \/ /\ lock.holder = r /\ Fault
        /\ UNCHANGED lock
  /\ UNCHANGED <<stored, pieces, recorded, used, answers, given, up, dropped, cut>>

-----------------------------------------------------------------------------
(* Engine.Run.                                                              *)

\* SQLStore.Orphans: a running process whose lock nobody holds.
OrphanedIfReleased == stored.status = "running" /\ lock.holder = NoRow
Orphaned == stored.status = "running" /\ ~lock.live

\* Engine.Recover finds the process and starts a run of it.
Recover(t) ==
  /\ Kind(t) = "run" /\ pc[t] = "idle" /\ up[At(t)]
  /\ Orphaned
  /\ Goto(t, "mutex")
  /\ UNCHANGED <<shared, mem, mutex, section, ctx, cancelling, signal, up, history, spent>>

EndedMeanwhile == Terminal(stored.status)

\* The call returns: an error of the store, of the methodology or of the graph, or nothing to do.
Return(t, p) == mem' = [mem EXCEPT ![t] = p] /\ Goto(t, "release")

\* Store.Get under the lock; a run registers its context first.
Get(t) ==
  /\ pc[t] = "got"
  /\ stale' = stale \ {t}
  /\ ctx' = IF Kind(t) = "run" THEN [ctx EXCEPT ![At(t)] = "live"] ELSE ctx
  /\ \/ /\ Kind(t) = "run"
        /\ mem' = [mem EXCEPT ![t] = stored] /\ Goto(t, "settle")
        /\ UNCHANGED <<given, spent>>
     \/ /\ Kind(t) = "cancel" /\ EndedMeanwhile
        /\ Return(t, stored)
        /\ UNCHANGED <<given, spent>>
     \/ /\ Kind(t) = "cancel" /\ ~EndedMeanwhile
        /\ mem' = [mem EXCEPT ![t] = [stored EXCEPT !.status = "cancelled"]] /\ Goto(t, "save")
        /\ UNCHANGED <<given, spent>>
     \/ /\ Kind(t) = "submit" /\ stored.status = "waiting" /\ given < MaxAnswers
        /\ given' = given + 1
        /\ mem' = [mem EXCEPT ![t] = [stored EXCEPT !.answer = given + 1]] /\ Goto(t, "answer")
        /\ UNCHANGED spent
     \/ /\ Kind(t) = "submit"                         \* nothing is asked any more, or the submission is refused
        /\ Return(t, stored)
        /\ UNCHANGED <<given, spent>>
     \/ /\ Fault /\ Return(t, mem[t])
        /\ UNCHANGED given
  /\ UNCHANGED <<lock, stored, pieces, recorded, used, answers, mutex, section, cancelling, signal, up, intact, dropped, cut>>

\* What ChangeLog holds of execution e: Engine.wrote.
Ended(e) == e \in recorded
WroteNoWhole(e) == e \notin recorded /\ pieces[e] < Pieces
WroteNothing(e) == e \notin recorded /\ pieces[e] = 0

\* settleInterrupted: the step a stopped replica left in flight is closed from what it wrote.
Settle(t) ==
  LET p == mem[t] e == p.open IN
  /\ pc[t] = "settle" /\ ctx[At(t)] = "live"
  /\ \/ /\ p.status # "running" \/ e = 0
        /\ Goto(t, "top")
        /\ UNCHANGED <<mem, recorded, dropped, cut, spent>>
     \/ /\ p.status = "running" /\ e # 0 /\ Ended(e)                   \* stepEnded
        /\ mem' = [mem EXCEPT ![t] = [p EXCEPT !.open = 0]] /\ Goto(t, "top")
        /\ UNCHANGED <<recorded, dropped, cut, spent>>
     \/ /\ p.status = "running" /\ e # 0 /\ WroteNothing(e)            \* stepWroteNothing
        /\ mem' = [mem EXCEPT ![t] = [p EXCEPT !.open = 0, !.steps = @ - 1]] /\ Goto(t, "top")
        /\ dropped' = dropped \union {e}
        /\ UNCHANGED <<recorded, cut, spent>>
     \/ /\ p.status = "running" /\ e # 0 /\ ~Ended(e) /\ ~WroteNothing(e)
        /\ mem' = [mem EXCEPT ![t] = [p EXCEPT !.open = 0, !.disabled = TRUE]]    \* stepWrotePart
        /\ Goto(t, "top")
        /\ recorded' = recorded \union {e}
        /\ cut' = cut \union {e}
        /\ UNCHANGED <<dropped, spent>>
     \/ /\ p.status = "running" /\ e # 0 /\ Fault                       \* the change does not answer
        /\ Goto(t, "release")
        /\ UNCHANGED <<mem, recorded, dropped, cut>>
  /\ UNCHANGED <<lock, stored, pieces, used, answers, given, mutex, section, ctx, cancelling, signal, up, intact, stale>>

OverStepLimit(p) == p.steps > MaxSteps
StepLimit(p) == p.steps >= MaxSteps

EffectsMet == \E e \in Execs : pieces[e] = Pieces

\* The head of the loop: the run goes on.
Cycles(t) == /\ pc[t] = "top" /\ mem[t].status = "running"
             /\ ~cancelling[At(t)] /\ ctx[At(t)] = "live"

Decide(t, p, l) == mem' = [mem EXCEPT ![t] = p] /\ Goto(t, l)

\* The step limit fails the process in memory: Run returns without saving it.
GiveUp(t) ==
  /\ Cycles(t) /\ StepLimit(mem[t])
  /\ Decide(t, [mem[t] EXCEPT !.status = "failed"], "release")
  /\ UNCHANGED <<shared, mutex, section, ctx, cancelling, signal, up, history, spent>>

\* One observe / plan / act iteration, up to the write it leads to.
Cycle(t) ==
  LET p == mem[t] IN
  /\ Cycles(t) /\ ~StepLimit(p)
  /\ \/ /\ Fault                                                       \* the cycle returned an error
        /\ Decide(t, [p EXCEPT !.status = "failed"], "save")
        /\ UNCHANGED used
     \/ /\ EffectsMet                                                  \* the goal is reached
        /\ Decide(t, [p EXCEPT !.status = "completed"], "save")
        /\ UNCHANGED <<used, spent>>
     \/ /\ ~EffectsMet /\ p.disabled                                   \* no plan
        /\ Decide(t, [p EXCEPT !.status = "stuck"], "save")
        /\ UNCHANGED <<used, spent>>
     \/ /\ ~EffectsMet /\ ~p.disabled /\ p.waits < MaxWaits            \* a person is asked first
        /\ Decide(t, [p EXCEPT !.status = "waiting", !.waits = @ + 1], "save")
        /\ UNCHANGED <<used, spent>>
     \/ /\ ~EffectsMet /\ ~p.disabled /\ used < MaxExec                \* the action runs
        /\ used' = used + 1
        /\ Decide(t, [p EXCEPT !.open = used + 1, !.steps = @ + 1], "checkpoint")
        /\ UNCHANGED spent
  /\ UNCHANGED <<lock, stored, pieces, recorded, answers, given, mutex, section, ctx, cancelling, signal, up, history>>

\* cancelRequested, or the process no longer runs: the loop ends.
Leave(t) ==
  /\ pc[t] = "top" /\ (mem[t].status # "running" \/ cancelling[At(t)])
  /\ Goto(t, "release")
  /\ UNCHANGED <<shared, mem, mutex, section, ctx, cancelling, signal, up, history, spent>>

\* checkpoint: the step is on the row before it runs; a refused write fails the cycle.
Checkpoint(t) ==
  /\ pc[t] = "checkpoint" /\ ctx[At(t)] = "live"
  /\ \/ /\ Put(t, mem[t]) /\ Goto(t, "act")
        /\ UNCHANGED spent
     \/ /\ Fenced(At(t)) /\ UNCHANGED <<stored, stale, spent>>
        /\ Decide(t, [mem[t] EXCEPT !.status = IF cancelling[At(t)] THEN @ ELSE "failed"], "save")
     \/ /\ Fault /\ UNCHANGED <<stored, stale>>
        /\ Decide(t, [mem[t] EXCEPT !.status = IF cancelling[At(t)] THEN @ ELSE "failed"], "save")
  /\ UNCHANGED <<lock, pieces, recorded, used, answers, given, mutex, section, ctx, cancelling, signal, up, intact, dropped, cut>>

\* The executor writes an entry on the change: the graph knows no fence.
Write(t) ==
  LET e == mem[t].open IN
  /\ pc[t] = "act" /\ ctx[At(t)] = "live" /\ pieces[e] < Pieces
  /\ pieces' = [pieces EXCEPT ![e] = @ + 1]
  /\ UNCHANGED <<lock, stored, recorded, used, answers, given, local, history, spent>>

\* settleAction: the execution ends, with its effects or in failure (recordFailure, MaxFailures = 1).
FinishAction(t) ==
  /\ pc[t] = "act" /\ ctx[At(t)] = "live"
  /\ Decide(t, [mem[t] EXCEPT !.disabled = @ \/ pieces[mem[t].open] < Pieces], "journal")
  /\ UNCHANGED <<shared, mutex, section, ctx, cancelling, signal, up, history, spent>>

\* The action record of the execution; a failed append is only logged.
Journal(t) ==
  /\ pc[t] = "journal" /\ ctx[At(t)] = "live"
  /\ Decide(t, [mem[t] EXCEPT !.open = 0], "save")
  /\ \/ recorded' = recorded \union {mem[t].open} /\ UNCHANGED spent
     \/ Fault /\ UNCHANGED recorded
  /\ UNCHANGED <<lock, stored, pieces, used, answers, given, mutex, section, ctx, cancelling, signal, up, history>>

\* submit writes the items of the person and the operations on nodes they ask; an error leaves what is written.
Answer(t) ==
  LET n == mem[t].answer IN
  /\ pc[t] = "answer" /\ answers[n] < Pieces
  /\ \/ /\ answers' = [answers EXCEPT ![n] = @ + 1]
        /\ UNCHANGED <<pc, spent>>
     \/ Fault /\ Goto(t, "release") /\ UNCHANGED answers
  /\ UNCHANGED <<lock, stored, pieces, recorded, used, given, mem, mutex, section, ctx, cancelling, signal, up, history>>

Whole(n) == answers[n] = Pieces

\* finishStep and the records of the submission, whose failed append is only logged; the change may not answer.
EndAnswer(t) ==
  LET n == mem[t].answer IN
  /\ pc[t] = "answer" /\ Whole(n)
  /\ \/ /\ answers' \in {answers, [answers EXCEPT ![n] = Pieces + 1]}
        /\ Decide(t, [mem[t] EXCEPT !.status = "running"], "save")
        /\ UNCHANGED spent
     \/ Fault /\ Goto(t, "release") /\ UNCHANGED <<mem, answers>>
  /\ UNCHANGED <<lock, stored, pieces, recorded, used, given, mutex, section, ctx, cancelling, signal, up, history>>

\* Where a save leaves a goroutine: a run goes on, the caller of Submit runs the process.
Saved == [run |-> "top", cancel |-> "release", submit |-> "accepted"]

\* save: the row and its event in one transaction; an error ends the section.
Save(t) ==
  /\ pc[t] = "save" /\ (Kind(t) = "run" => ctx[At(t)] = "live")
  /\ \/ /\ Put(t, mem[t])
        /\ Goto(t, Saved[Kind(t)])
        /\ UNCHANGED spent
     \/ /\ Fenced(At(t)) /\ Goto(t, "release")
        /\ UNCHANGED <<stored, mem, stale, spent>>
     \/ /\ Fault /\ Goto(t, "release")
        /\ UNCHANGED <<stored, mem, stale>>
  /\ UNCHANGED <<lock, pieces, recorded, used, answers, given, mutex, section, ctx, cancelling, signal, up, intact, dropped, cut>>

\* The context of the run is cancelled: its calls and its writes fail, the run returns.
LetGo(t) ==
  /\ Kind(t) = "run" /\ pc[t] \in Loaded /\ ctx[At(t)] = "cancelled"
  /\ Goto(t, "release")
  /\ UNCHANGED <<shared, mem, mutex, section, ctx, cancelling, signal, up, history, spent>>

-----------------------------------------------------------------------------
(* Cancel, Submit and the interrupt signals.                                *)

Cancel(t) ==
  LET r == At(t) IN
  /\ Kind(t) = "cancel" /\ pc[t] = "idle" /\ up[r]
  /\ ~Terminal(stored.status) /\ spent.cancels < MaxCancels
  /\ spent' = [spent EXCEPT !.cancels = @ + 1]
  /\ cancelling' = [cancelling EXCEPT ![r] = TRUE]
  /\ ctx' = CancelRun(ctx, r)
  /\ Goto(t, "interrupt")
  /\ UNCHANGED <<shared, mem, mutex, section, signal, up, history>>

\* Locks.Interrupt, then the signal to every replica, this one included, when another one holds the lock.
\* Core NATS may lose it on its way to any of them.
Interrupt(t) ==
  LET r == At(t) IN
  /\ pc[t] = "interrupt"
  /\ \/ /\ CanInterrupt(r)
        /\ lock' = [lock EXCEPT !.by = TRUE]
        /\ \E to \in SUBSET {s \in Replicas : up[s] /\ signal[s] = "none"} :
              /\ Cardinality(to) <= MaxSignals
              /\ signal' = [s \in Replicas |-> IF s \in to THEN "sent" ELSE signal[s]]
        /\ UNCHANGED spent
     \/ ~CanInterrupt(r) /\ UNCHANGED <<lock, signal, spent>>
     \/ Fault /\ UNCHANGED <<lock, signal>>
  /\ Goto(t, "mutex")
  /\ UNCHANGED <<stored, pieces, recorded, used, answers, given, mem, mutex, section, ctx, cancelling, up, history>>

\* The deferred Delete of the mark, once Cancel returns.
Unmark(t) ==
  /\ pc[t] = "unmark"
  /\ cancelling' = [cancelling EXCEPT ![At(t)] = FALSE]
  /\ Goto(t, "idle")
  /\ UNCHANGED <<shared, mem, mutex, section, ctx, signal, up, history, spent>>

Submit(t) ==
  /\ Kind(t) = "submit" /\ pc[t] = "idle" /\ up[At(t)] /\ stored.status = "waiting"
  /\ Goto(t, "mutex")
  /\ UNCHANGED <<shared, mem, mutex, section, ctx, cancelling, signal, up, history, spent>>

\* Engine.Interrupted: Load of the held section, then held.interrupt on it.
Signalled(r) ==
  \/ /\ signal[r] = "sent"
     /\ signal' = [signal EXCEPT ![r] = IF section[r].held THEN "loaded" ELSE "none"]
     /\ UNCHANGED <<section, cancelling, ctx>>
  \/ /\ signal[r] = "loaded"
     /\ signal' = [signal EXCEPT ![r] = "none"]
     /\ InterruptSection(r, TRUE)
  \/ /\ signal[r] = "stale"                      \* the section was released after the Load
     /\ signal' = [signal EXCEPT ![r] = "none"]
     /\ cancelling' = [cancelling EXCEPT ![r] = TRUE]
     /\ ctx' = CancelRun(ctx, r)
     /\ UNCHANGED section

HandleSignal(r) ==
  /\ Signalled(r)
  /\ UNCHANGED <<shared, pc, mem, mutex, up, history, spent>>

-----------------------------------------------------------------------------
(* Time and failures.                                                       *)

\* lease_until passes: nobody renews the row, or its holder is paused.
Lapse ==
  /\ lock.live
  /\ lock' = [lock EXCEPT !.live = FALSE]
  /\ IF lock.holder \in Replicas /\ section[lock.holder].renewing
     THEN /\ spent.stalls < MaxStalls
          /\ spent' = [spent EXCEPT !.stalls = @ + 1]
     ELSE UNCHANGED spent
  /\ intact' = [r \in Replicas |-> intact[r] /\ r # lock.holder]
  /\ UNCHANGED <<stored, pieces, recorded, used, answers, given, local, stale, dropped, cut>>

Crash(r) ==
  /\ up[r] /\ spent.crashes < MaxCrashes
  /\ spent' = [spent EXCEPT !.crashes = @ + 1]
  /\ up' = [up EXCEPT ![r] = FALSE]
  /\ lock' = IF lock.holder = r THEN [lock EXCEPT !.holder = Gone] ELSE lock
  /\ pc' = [t \in Threads |-> IF At(t) = r THEN "idle" ELSE pc[t]]
  /\ mem' = [t \in Threads |-> IF At(t) = r THEN Started ELSE mem[t]]
  /\ mutex' = [mutex EXCEPT ![r] = NoThread]
  /\ section' = [section EXCEPT ![r] = NoSection]
  /\ ctx' = [ctx EXCEPT ![r] = "off"]
  /\ cancelling' = [cancelling EXCEPT ![r] = FALSE]
  /\ signal' = [signal EXCEPT ![r] = "none"]
  /\ intact' = [intact EXCEPT ![r] = FALSE]
  /\ stale' = stale \ On(r)
  /\ UNCHANGED <<stored, pieces, recorded, used, answers, given, dropped, cut>>

Restart(r) ==
  /\ ~up[r]
  /\ up' = [up EXCEPT ![r] = TRUE]
  /\ UNCHANGED <<shared, pc, mem, mutex, section, ctx, cancelling, signal, history, spent>>

-----------------------------------------------------------------------------
Step(t) == \/ Lock(t) \/ Acquire(t) \/ Get(t) \/ Settle(t) \/ GiveUp(t) \/ Cycle(t) \/ Leave(t)
           \/ Checkpoint(t) \/ Write(t) \/ FinishAction(t) \/ Journal(t) \/ Answer(t) \/ EndAnswer(t) \/ Save(t)
           \/ LetGo(t) \/ Release(t) \/ Interrupt(t) \/ Unmark(t)

Next ==
  \/ \E t \in Threads : Step(t) \/ Recover(t) \/ Cancel(t) \/ Submit(t)
  \/ \E r \in Replicas : Renew(r) \/ HandleSignal(r) \/ Crash(r) \/ Restart(r)
  \/ Lapse

Spec == Init /\ [][Next]_vars

-----------------------------------------------------------------------------
(* Fairness: a goroutine goes on.  It waits for the mutex, for the lock     *)
(* (tried at most a second apart) or, idle, for the next pass of Recover (a *)
(* lease apart): none of the three starves while what it waits for keeps    *)
(* coming back, hence SF.  A held lock is renewed, a signal received is     *)
(* handled, a lease nobody renews lapses.  No replica has to come back and  *)
(* no person to act.                                                        *)
Fairness ==
  /\ \A t \in Threads : SF_vars(Step(t) \/ Recover(t))
  /\ \A r \in Replicas : WF_vars(Renew(r) \/ HandleSignal(r))
  /\ WF_vars(Lapse)

FairSpec == Spec /\ Fairness

-----------------------------------------------------------------------------
(* Properties.                                                              *)

\* A goroutine that works on its copy of the process while its replica's lease never lapsed
\* works on the row as it is: no write of another replica or goroutine came after its Get.
\* What Engine.lock, the renewal and the fence of SQLStore.put are for.
HolderCopyFresh == \A t \in Threads : pc[t] \in Loaded /\ intact[At(t)] => t \notin stale

\* One executor at a time: of the goroutines of all the replicas between Engine.lock and its
\* unlock, at most one has a lease that never lapsed.
OneExecutor == \A t, u \in Threads :
  pc[t] \in Holding /\ pc[u] \in Holding /\ intact[At(t)] /\ intact[At(u)] => t = u

\* An execution settleInterrupted dropped as having written nothing never writes on the change:
\* its action runs again under another execution, and would be written twice.
DroppedWritesNothing == \A e \in dropped : pieces[e] = 0

\* A process that ended stays as it ended: no write of a replica that lost the lock revives it.
TerminalFinal == [][Terminal(stored.status) => stored'.status = stored.status]_vars

\* Once an execution was found cut halfway, its action is not run again.
CutNotRerun == [][cut # {} => used' = used]_vars

\* A running process does not stay running: a replica runs it to an end or to what it waits for.
RunProgresses == stored.status = "running" ~> stored.status # "running"

\* Cancel returns, or its replica stops: the run in flight lets go of the lock wherever it is.
CancelReturns == \A t \in Threads : Kind(t) = "cancel" => (pc[t] # "idle" ~> pc[t] = "idle")

\* While a Cancel waits for the lock, the run in flight that holds it has been told to let go, on
\* whichever replica it is: on the row, in the section or by the mark of its replica.
CancelReachesRun == \A c, t \in Threads :
  Kind(c) = "cancel" /\ pc[c] = "hold" /\ pc[t] = "act" /\ intact[At(t)] =>
    lock.by \/ section[At(t)].interrupted \/ cancelling[At(t)]

\* Nothing but the work on the replicas shows: as if one executor worked on the process, and took each time the whole
\* of one submission, a later one than the last.
Life == INSTANCE ProcessLife WITH status <- stored.status, taken <- stored.answer, entries <- pieces
OneExecutorLife == Life!Spec
=============================================================================
