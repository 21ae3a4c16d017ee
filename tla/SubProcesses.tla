---------------------------- MODULE SubProcesses ----------------------------
(***************************************************************************)
(* A process whose action calls sub-agents, each a process of its own that *)
(* any replica may run: the call and its replay (runChildStep), the wait   *)
(* and the wake-up of the parent (resumeParent, wakeOnSignals), what       *)
(* recovery does of a child its parent does not know (failOrphan), the     *)
(* cascade of Cancel, and the room of a replica (MaxRuns).                 *)
(* engine/engine/{engine,locks,cancel}.go.                                 *)
(*                                                                         *)
(* Process 0 is the parent, 1..MaxChildren its children in the order of    *)
(* their start.  A lock holds as long as its replica (EngineReplicas shows *)
(* what a lease that lapses does), so what a section of the code reads and *)
(* writes of a row under its lock is one step.                             *)
(***************************************************************************)
EXTENDS Integers, FiniteSets

CONSTANTS
  Replicas,     \* the engine replicas
  Free, Gone,   \* a lock nobody holds; one whose replica stopped
  Calls,        \* sub-agents the action of the parent calls, one after the other
  MaxRuns,      \* Engine.MaxRuns
  MaxChildren,  \* bound: children ever started
  MaxAsks,      \* bound: times a child waits for a person
  MaxSignals,   \* bound: signals a child emits to its parent
  MaxCancels,   \* bound: calls of Cancel
  MaxStops,     \* bound: replicas stopped
  MaxFaults     \* bound: failed writes, children that give up

ASSUME NamesAssumption == Free \notin Replicas /\ Gone \notin Replicas /\ Free # Gone
ASSUME BoundsAssumption ==
  /\ Calls \in Nat \ {0} /\ MaxRuns \in Nat \ {0} /\ MaxChildren \in Nat /\ MaxAsks \in Nat
  /\ MaxSignals \in Nat /\ MaxCancels \in Nat /\ MaxStops \in Nat /\ MaxFaults \in Nat

VARIABLES
  parent,       \* the row of the parent: its status, the child it waits on, Process.Children
  child,        \* the rows of the children: status, the call they were started for
  lock,         \* who holds the lock of each process
  runs,         \* goroutines about to run a process
  inflight,     \* per replica: Engine.inflight
  step,         \* the run of the parent that holds its lock
  wakes,        \* goroutines of resumeParent
  found,        \* per replica: the child Engine.recover is failing
  cancel,       \* the call of Cancel under way
  cancelling,   \* Engine.cancelling
  lost,         \* history: children whose end, or cancellation, was lost in a stop or a failed write
  spent         \* bounds used up, and whether Cancel was called for the parent

rows == <<parent, child>>
vars == <<parent, child, lock, runs, inflight, step, wakes, found, cancel, cancelling, lost, spent>>

Children == 1..MaxChildren
Procs == 0..MaxChildren
Ended(s) == s \in {"completed", "failed", "cancelled"}
Live(s) == s \in {"running", "waiting"}
Status(x) == IF x = 0 THEN parent.status ELSE child[x].status
NoKids == [k \in 1..Calls |-> 0]
NotStepping == [pc |-> "none", kids |-> NoKids, done |-> {}, of |-> 0]
NotCancelling == [pc |-> "none", at |-> Free, of |-> 0, todo |-> {}]

TypeOK ==
  /\ parent \in [status : {"running", "waiting", "completed", "cancelled"}, on : Procs,
                 kids : [1..Calls -> Procs]]
  /\ child \in [Children -> [status : {"none", "running", "waiting", "completed", "failed", "cancelled"},
                             call : 0..Calls]]
  /\ lock \in [Procs -> Replicas \union {Free, Gone}]
  /\ runs \subseteq [at : Replicas, of : Procs, pc : {"reserved", "new", "lock"}]
  /\ inflight \in [Replicas -> Nat]
  /\ step \in [pc : {"none", "top", "look", "start", "child", "done", "wait", "retry"}, kids : [1..Calls -> Procs],
               done : SUBSET (1..Calls), of : Procs]
  /\ wakes \subseteq Replicas \X Children
  /\ found \in [Replicas -> Procs]
  /\ cancel \in [pc : {"none", "lock", "list"}, at : Replicas \union {Free},
                 of : Procs, todo : SUBSET Children]
  /\ cancelling \subseteq Procs /\ lost \subseteq Children
  /\ spent \in [asks : 0..MaxAsks, signals : 0..MaxSignals, cancels : 0..MaxCancels,
                stops : 0..MaxStops, faults : 0..MaxFaults, parent : BOOLEAN]

Init ==
  /\ parent = [status |-> "running", on |-> 0, kids |-> NoKids]
  /\ child = [c \in Children |-> [status |-> "none", call |-> 0]]
  /\ lock = [x \in Procs |-> Free]
  /\ \E r \in Replicas : runs = {[at |-> r, of |-> 0, pc |-> "new"]}    \* Start scheduled it on r
  /\ inflight = [r \in Replicas |-> 0]
  /\ step = NotStepping /\ wakes = {}
  /\ found = [r \in Replicas |-> 0]
  /\ cancel = NotCancelling /\ cancelling = {}
  /\ lost = {}
  /\ spent = [asks |-> 0, signals |-> 0, cancels |-> 0, stops |-> 0, faults |-> 0, parent |-> FALSE]

Spend(what, bound) == spent[what] < bound /\ spent' = [spent EXCEPT ![what] = @ + 1]
Fault == Spend("faults", MaxFaults)
SetStatus(c, s) == child' = [child EXCEPT ![c].status = s]
Unlock(x) == lock' = [lock EXCEPT ![x] = Free]

-----------------------------------------------------------------------------
(* The room of a replica, and a run before it has the lock of its process.  *)

AtCapacity(r) == inflight[r] >= MaxRuns

\* Engine.schedule: a run here, or none (leave): Recover takes it where there is room.
Scheduled(r, x) == IF AtCapacity(r) THEN {} ELSE {[at |-> r, of |-> x, pc |-> "new"]}

KeepPlace(r) == UNCHANGED inflight
GiveBack(r) == inflight' = [inflight EXCEPT ![r] = @ - 1]

\* runCounted; a run that recover reserved gives its place back first.
Begin(g) ==
  /\ g \in runs
  /\ \/ /\ g.pc = "reserved"
        /\ runs' = (runs \ {g}) \union {[g EXCEPT !.pc = "new"]}
        /\ GiveBack(g.at)
     \/ /\ g.pc = "new" /\ [g EXCEPT !.pc = "lock"] \notin runs
        /\ runs' = (runs \ {g}) \union {[g EXCEPT !.pc = "lock"]}
        /\ inflight' = [inflight EXCEPT ![g.at] = @ + 1]
  /\ UNCHANGED <<rows, lock, step, wakes, found, cancel, cancelling, lost, spent>>

UncountTwice(r) == inflight' = [inflight EXCEPT ![r] = @ - 2]
Uncount(r) == inflight' = [inflight EXCEPT ![r] = @ - 1]

\* Run: the lock, Store.Get; a process that is not running is let go.
Take(g) ==
  LET x == g.of r == g.at IN
  /\ g \in runs /\ g.pc = "lock" /\ lock[x] = Free
  /\ runs' = runs \ {g}
  /\ \/ /\ Status(x) # "running"
        /\ Uncount(r)
        /\ UNCHANGED <<lock, step>>
     \/ /\ Status(x) = "running"
        /\ lock' = [lock EXCEPT ![x] = r]
        /\ step' = IF x = 0 THEN [NotStepping EXCEPT !.pc = "top", !.kids = parent.kids] ELSE step
        /\ UNCHANGED inflight
  /\ UNCHANGED <<rows, wakes, found, cancel, cancelling, lost, spent>>

-----------------------------------------------------------------------------
(* The run of the parent, under its lock, at the replica lock[0].           *)

Settle(k) == step' = [step EXCEPT !.pc = "look", !.done = @ \union {k}, !.of = 0]
Suspend(c) == step' = [step EXCEPT !.pc = "wait", !.of = c]

\* The head of the loop of Run: cancelRequested, at the replica where Cancel was called.
Cycle ==
  /\ step.pc = "top" /\ ~(0 \in cancelling /\ cancel.at = lock[0])
  /\ step' = [step EXCEPT !.pc = "look"]
  /\ UNCHANGED <<rows, lock, runs, inflight, wakes, found, cancel, cancelling, lost, spent>>

\* runChildStep, for the first call of the action that is not settled: the row of a child known, or a new child.
Look ==
  LET open == {k \in 1..Calls : k \notin step.done} IN
  /\ step.pc = "look"
  /\ \/ open = {} /\ step' = [step EXCEPT !.pc = "done"] /\ UNCHANGED child
     \/ \E k \in open :
          /\ \A j \in open : k <= j
          /\ LET c == step.kids[k] IN
             \/ c # 0 /\ Ended(child[c].status) /\ Settle(k) /\ UNCHANGED child
             \/ c # 0 /\ Live(child[c].status) /\ Suspend(c) /\ UNCHANGED child
             \/ /\ c = 0
                /\ \E n \in Children :
                     /\ child[n].status = "none" /\ \A m \in 1..n - 1 : child[m].status # "none"
                     /\ child' = [child EXCEPT ![n] = [status |-> "running", call |-> k]]
                     /\ step' = [step EXCEPT !.pc = "start", !.kids[k] = n, !.of = n]
  /\ UNCHANGED <<parent, lock, runs, inflight, wakes, found, cancel, cancelling, lost, spent>>

\* Run(child) within the run of the parent: the lock, Store.Get.
TakeNested ==
  LET c == step.of IN
  /\ step.pc = "start" /\ lock[c] = Free
  /\ \/ /\ child[c].status = "running"
        /\ lock' = [lock EXCEPT ![c] = lock[0]]
        /\ step' = [step EXCEPT !.pc = "child"]
     \/ Ended(child[c].status) /\ Settle(child[c].call) /\ UNCHANGED lock
     \/ child[c].status = "waiting" /\ Suspend(c) /\ UNCHANGED lock
  /\ UNCHANGED <<rows, runs, inflight, wakes, found, cancel, cancelling, lost, spent>>

\* The children settleAction leaves on the process when the action failed.
NoneKept == NoKids
Kept == step.kids

\* settleAction and the save of the cycle.
SaveParent ==
  /\ \/ step.pc = "done" /\ parent' = [status |-> "completed", on |-> 0, kids |-> NoKids]
     \/ step.pc = "wait" /\ parent' = [status |-> "waiting", on |-> step.of, kids |-> step.kids]
     \/ step.pc = "retry" /\ parent' = [parent EXCEPT !.kids = Kept]
  /\ IF step.pc = "retry"
     THEN /\ step' = [NotStepping EXCEPT !.pc = "top", !.kids = Kept]
          /\ UNCHANGED <<lock, inflight>>
     ELSE step' = NotStepping /\ Unlock(0) /\ Uncount(lock[0])
  /\ UNCHANGED <<child, runs, wakes, found, cancel, cancelling, lost, spent>>

\* The run ends without a save: its write failed, or Cancel interrupted it (with the child it was running).
LeaveParent ==
  /\ step.pc # "none"
  /\ \/ 0 \in cancelling /\ UNCHANGED spent
     \/ step.pc \in {"done", "wait", "retry"} /\ Fault
  /\ lock' = [lock EXCEPT ![0] = Free, ![step.of] = IF step.pc = "child" THEN Free ELSE @]
  /\ step' = NotStepping /\ Uncount(lock[0])
  /\ UNCHANGED <<rows, runs, wakes, found, cancel, cancelling, lost>>

-----------------------------------------------------------------------------
(* The run of a child: in the run of its parent, or one of its own.         *)

Nested(c) == step.pc = "child" /\ step.of = c

\* It lets go of the lock; the parent that ran it goes on with next.
EndRun(c, next) ==
  /\ lock[c] \in Replicas
  /\ Unlock(c)
  /\ IF Nested(c) THEN next /\ UNCHANGED inflight ELSE UNCHANGED step /\ Uncount(lock[c])
  /\ UNCHANGED <<parent, runs, found, cancel, cancelling, lost>>

\* Engine.save of an end: the row, then a goroutine of resumeParent.
WokenIfWaiting(r, c) == IF parent.on = c THEN wakes \union {<<r, c>>} ELSE wakes
Woken(r, c) == wakes \union {<<r, c>>}

ChildEnds(c) ==
  /\ SetStatus(c, "completed") /\ wakes' = Woken(lock[c], c)
  /\ EndRun(c, Settle(child[c].call))
  /\ UNCHANGED spent

ChildAsks(c) ==
  /\ Spend("asks", MaxAsks)
  /\ SetStatus(c, "waiting")
  /\ EndRun(c, Suspend(c))
  /\ UNCHANGED wakes

\* The step limit: the run returns a failed process that it did not save.
ChildGivesUp(c) ==
  /\ Fault
  /\ EndRun(c, Settle(child[c].call))
  /\ UNCHANGED <<child, wakes>>

\* The run returns the process running: its write failed, or Cancel interrupted it.
ChildCut(c) ==
  /\ \/ Fault /\ EndRun(c, step' = [step EXCEPT !.pc = "retry", !.of = 0])
     \/ c \in cancelling /\ UNCHANGED spent /\ EndRun(c, step' = [step EXCEPT !.pc = "retry", !.of = 0])
     \/ c \in cancelling /\ UNCHANGED spent /\ EndRun(c, Suspend(c))
  /\ UNCHANGED <<child, wakes>>

\* wakeOnSignals: the child wrote a signal its parent, as read without a lock, waits for.
Signal(c) ==
  /\ Spend("signals", MaxSignals)
  /\ lock[c] \in Replicas /\ parent.status = "waiting" /\ parent.on = c
  /\ wakes' = Woken(lock[c], c)
  /\ UNCHANGED <<rows, lock, runs, inflight, step, found, cancel, cancelling, lost>>

\* Submit: the person a child waits for answered at r.
Submit(r, c) ==
  /\ child[c].status = "waiting" /\ lock[c] = Free
  /\ SetStatus(c, "running")
  /\ runs' = runs \union Scheduled(r, c)
  /\ UNCHANGED <<parent, lock, inflight, step, wakes, found, cancel, cancelling, lost, spent>>

-----------------------------------------------------------------------------
(* resumeParent.                                                            *)

LockNotNeeded == TRUE
ParentFree == lock[0] = Free
WaitsOn(c) == parent.status = "waiting" /\ parent.on = c

ResumeParent(r, c) ==
  /\ <<r, c>> \in wakes /\ ParentFree
  /\ wakes' = wakes \ {<<r, c>>}
  /\ \/ ~WaitsOn(c) /\ UNCHANGED <<parent, runs, lost, spent>>
     \/ /\ WaitsOn(c)
        /\ parent' = [parent EXCEPT !.status = "running", !.on = 0]
        /\ runs' = runs \union Scheduled(r, 0)
        /\ UNCHANGED <<lost, spent>>
     \/ /\ WaitsOn(c) /\ Fault
        /\ lost' = IF Ended(child[c].status) THEN lost \union {c} ELSE lost
        /\ UNCHANGED <<parent, runs>>
  /\ UNCHANGED <<child, lock, inflight, step, found, cancel, cancelling>>

-----------------------------------------------------------------------------
(* Engine.Recover, one pass after the other, at each replica.               *)

KnownByParent(x) == parent.on = x \/ \E k \in 1..Calls : parent.kids[k] = x

\* Orphans finds a running process whose lock nobody holds: a run of it whose place is reserved, or, for a child its
\* parent does not know, failOrphan.
RecoverOrphan(r, x) ==
  /\ found[r] = 0 /\ ~AtCapacity(r)
  /\ Status(x) = "running" /\ lock[x] = Free
  /\ ~\E g \in runs : g.at = r /\ g.of = x                  \* Engine.recovering
  /\ \/ /\ x = 0 \/ KnownByParent(x)
        /\ runs' = runs \union {[at |-> r, of |-> x, pc |-> "reserved"]}
        /\ inflight' = [inflight EXCEPT ![r] = @ + 1]
        /\ UNCHANGED found
     \/ /\ x # 0 /\ ~KnownByParent(x)
        /\ found' = [found EXCEPT ![r] = x]
        /\ UNCHANGED <<runs, inflight>>
  /\ UNCHANGED <<rows, lock, step, wakes, cancel, cancelling, lost, spent>>

FailOrphan(r) ==
  LET c == found[r] IN
  /\ c # 0 /\ lock[c] = Free
  /\ found' = [found EXCEPT ![r] = 0]
  /\ \/ child[c].status # "running" /\ UNCHANGED <<child, wakes, spent>>
     \/ child[c].status = "running" /\ SetStatus(c, "failed") /\ wakes' = Woken(r, c) /\ UNCHANGED spent
     \/ child[c].status = "running" /\ Fault /\ UNCHANGED <<child, wakes>>
  /\ UNCHANGED <<parent, lock, runs, inflight, step, cancel, cancelling, lost>>

-----------------------------------------------------------------------------
(* Engine.Cancel: the process, then each of its live children.              *)

Cancel(r, x) ==
  /\ cancel.pc = "none" /\ Live(Status(x)) /\ spent.cancels < MaxCancels
  /\ spent' = [spent EXCEPT !.cancels = @ + 1, !.parent = @ \/ x = 0]
  /\ cancel' = [pc |-> "lock", at |-> r, of |-> x, todo |-> {}]
  /\ cancelling' = cancelling \union {x}
  /\ UNCHANGED <<rows, lock, runs, inflight, step, wakes, found, lost>>

\* The children whose cancellation a cut of the cascade loses.
Missed == IF cancel.pc = "none" \/ (cancel.of = 0 /\ cancel.pc = "lock") THEN {}
          ELSE IF cancel.pc = "list" THEN {c \in Children : Live(child[c].status)}
          ELSE cancel.todo \union (IF cancel.of = 0 THEN {} ELSE {cancel.of})

\* It goes on with a child of those left, if any.
GoOn(todo, marks) ==
  \/ todo = {} /\ cancel' = NotCancelling /\ cancelling' = marks
  \/ \E c \in todo : /\ cancel' = [cancel EXCEPT !.pc = "lock", !.of = c, !.todo = todo \ {c}]
                     /\ cancelling' = marks \union {c}

CancelSaves ==
  LET x == cancel.of marks == cancelling \ {x} IN
  /\ cancel.pc = "lock" /\ lock[x] = Free
  /\ \/ /\ Ended(Status(x))                                 \* it ended on its own meanwhile
        /\ GoOn(cancel.todo, marks)
        /\ UNCHANGED <<rows, wakes, lost, spent>>
     \/ /\ Live(Status(x)) /\ x # 0
        /\ SetStatus(x, "cancelled") /\ wakes' = Woken(cancel.at, x)
        /\ GoOn(cancel.todo, marks)
        /\ UNCHANGED <<parent, lost, spent>>
     \/ /\ Live(Status(x)) /\ x = 0
        /\ parent' = [status |-> "cancelled", on |-> 0, kids |-> NoKids]
        /\ cancel' = [cancel EXCEPT !.pc = "list"] /\ cancelling' = marks
        /\ UNCHANGED <<child, wakes, lost, spent>>
     \/ /\ Live(Status(x)) /\ Fault                         \* Cancel returns the error
        /\ cancel' = NotCancelling /\ cancelling' = marks
        /\ lost' = lost \union Missed
        /\ UNCHANGED <<rows, wakes>>
  /\ UNCHANGED <<lock, runs, inflight, step, found>>

\* Store.List, by ParentID.
KnownChildren == {c \in Children : Live(child[c].status) /\ KnownByParent(c)}
LiveChildren == {c \in Children : Live(child[c].status)}

CancelLists ==
  /\ cancel.pc = "list"
  /\ GoOn(LiveChildren, cancelling)
  /\ UNCHANGED <<rows, lock, runs, inflight, step, wakes, found, lost, spent>>

-----------------------------------------------------------------------------
(* Replicas stop, and start again under a new identity.                     *)

StopReplica(r) ==
  /\ Spend("stops", MaxStops)
  /\ lost' = lost \union {c \in Children : <<r, c>> \in wakes /\ Ended(child[c].status)}
                  \union (IF cancel.at = r THEN Missed ELSE {})
  /\ lock' = [x \in Procs |-> IF lock[x] = r THEN Gone ELSE lock[x]]
  /\ runs' = {g \in runs : g.at # r}
  /\ inflight' = [inflight EXCEPT ![r] = 0]
  /\ step' = IF lock[0] = r THEN NotStepping ELSE step
  /\ wakes' = {w \in wakes : w[1] # r}
  /\ found' = [found EXCEPT ![r] = 0]
  /\ cancel' = IF cancel.at = r THEN NotCancelling ELSE cancel
  /\ cancelling' = IF cancel.at = r THEN {} ELSE cancelling
  /\ UNCHANGED rows

Lapse(x) ==
  /\ lock[x] = Gone
  /\ Unlock(x)
  /\ UNCHANGED <<rows, runs, inflight, step, wakes, found, cancel, cancelling, lost, spent>>

-----------------------------------------------------------------------------
RunNext(r, x) == \E g \in runs : g.at = r /\ g.of = x /\ (Begin(g) \/ Take(g))
ParentNext == Cycle \/ Look \/ TakeNested \/ SaveParent \/ LeaveParent
ChildNext(c) == ChildEnds(c) \/ ChildAsks(c) \/ ChildGivesUp(c) \/ ChildCut(c)
RecoverNext(r) == (\E x \in Procs : RecoverOrphan(r, x)) \/ FailOrphan(r)
CancelNext == CancelSaves \/ CancelLists

Next ==
  \/ \E r \in Replicas, x \in Procs : RunNext(r, x)
  \/ ParentNext \/ CancelNext
  \/ \E c \in Children : ChildNext(c) \/ Signal(c)
  \/ \E r \in Replicas :
       \/ RecoverNext(r) \/ StopReplica(r)
       \/ \E c \in Children : Submit(r, c) \/ ResumeParent(r, c)
       \/ \E x \in Procs : Cancel(r, x)
  \/ \E x \in Procs : Lapse(x)

Spec == Init /\ [][Next]_vars

\* Goroutines go on and have in the end the lock they ask for again and again, recovery passes again and again, a
\* lease nobody renews lapses.
FairSpec ==
  /\ Spec
  /\ SF_vars(\E r \in Replicas, x \in Procs : RunNext(r, x))
  /\ SF_vars(ParentNext) /\ WF_vars(\E c \in Children : ChildNext(c))
  /\ SF_vars(\E r \in Replicas, c \in Children : ResumeParent(r, c))
  /\ SF_vars(\E r \in Replicas : RecoverNext(r))
  /\ SF_vars(CancelNext)
  /\ WF_vars(\E x \in Procs : Lapse(x))

-----------------------------------------------------------------------------
(* Properties.                                                              *)

\* The end of a child is never missed: a parent that waits on a child that ended has a wake-up on its way, unless a
\* stop or a failed write took it.  The child ends, on any replica, while its parent is still on its way to wait
\* (runChildStep, settleAction, the save); the lock of the parent is what keeps resumeParent behind that save.
WakeOnItsWay ==
  \A c \in Children : WaitsOn(c) /\ Ended(child[c].status) => c \in lost \/ \E r \in Replicas : <<r, c>> \in wakes

\* Without a stop, a failed write or a Cancel of the parent, a call of the action has one live child at most, however
\* often the action is replayed: resumed, woken early by a signal, or tried again after an interrupted child
\* (runChildStep, settleAction).
OneChildPerCall ==
  spent.stops = 0 /\ spent.faults = 0 /\ ~spent.parent =>
    \A c, d \in Children : Live(child[c].status) /\ Live(child[d].status) /\ child[c].call = child[d].call => c = d

\* The places a replica counts are those of its runs: the ones recover reserved, the ones that wait for the lock of
\* their process, the ones that have it; the run of a child within the run of its parent takes no place of its own
\* (runCounted, recover).  None leaks, whatever ends a run, and none is given back twice.
PlacesCounted ==
  \A r \in Replicas : inflight[r] = Cardinality({g \in runs : g.at = r /\ g.pc # "new"})
                                    + Cardinality({x \in Procs : lock[x] = r /\ ~Nested(x)})

\* Once Cancel of the parent is over, none of its children is live, but those a stop or a failed write kept it from
\* ("the process is then cancelled, and so are its live sub-processes", cancel.go): also those it does not know.
CancelTakesChildren ==
  parent.status = "cancelled" /\ cancel.pc = "none" => \A c \in Children : Live(child[c].status) => c \in lost

\* A running process goes on, wherever its replica stopped, whatever place is left: it ends or waits.
RunningGoesOn == \A x \in Procs : Status(x) = "running" ~> Status(x) # "running"

\* A parent whose child ended stops waiting on it, unless its wake-up was lost.
ParentGoesOn == \A c \in Children : WaitsOn(c) /\ Ended(child[c].status) ~> ~WaitsOn(c) \/ c \in lost
=============================================================================
