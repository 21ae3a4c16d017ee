# A verification of goap: engine, planner, graph, jobs, outbox

TLA+ modules beside the code of `zimwip/goap`, a platform that runs goal-oriented processes (plans of actions carried
out by people, agents and models) over a versioned graph. They model the parts where the order of things decides:
several engine replicas on one process, a process and its sub-processes, the cycle of a process and its planner, the
companions of a change, changes merged into main, the job service and its workers, the outbox that carries every event.
TLC checks them on small instances; TLAPS proves the invariants and the refinements of seven of them for every instance
(section 4).

## 1. The system

| Component | State | Operations | Talks to | What is hard | What makes it correct | Here |
|---|---|---|---|---|---|---|
| **Engine replicas** (`engine/engine`, `engine/enginesvc`) | process rows, `engine_lock`, change log entries; per replica: mutexes, held locks, running contexts, marks of cancellation | start, run (observe, plan, act), submit, cancel, recover | the store (SQL), the graph, NATS core (hints), people | two replicas on one process, pauses past a lease, stops between any two writes, a cancel racing all of it | one executor at a time; a process ends once; work is written once; a running process goes on; a cancel returns | partly |
| **Sub-processes** (`engine/engine`: `runChildStep`, `resumeParent`, `failOrphan`, `Cancel`) | parent and child rows | start a child, wait, wake the parent, cancel downwards | the same locks | the wake-up is in memory, after the child's save; replays of the action that calls | no end of a child is missed; one child per call; a cancel takes the children | partly |
| **Pool of runs** (`MaxRuns`, `Recover`) | counts per replica | leave to the pool, wake, recover | `engine.wake` | counts from several goroutines | no process starves while a replica has room | with the sub-processes |
| **Job service and workers** (`platform/jobsvc`, `lib/jobkit`) | job records and blobs, leases; channels of waiters; per worker its run | create, claim (long poll), report, write a result, ask, answer, await, cancel, sweep, purge | workers (Connect), windows, its outbox | lost wake-ups, lost calls, a sweep racing a late report, a result written in three steps | a job ends once and is told once; none is stuck; a done job has its whole result | partly |
| **Outbox and relays** (`lib/outbox`) | outbox rows, lease, per relay a mutex, a flag, a kick | append with the fact, drain, run, purge | sinks: JetStream, in-process brokers | a drain refused while another ends, ranks out of commit order, several sinks, replicas | in order per fact, none skipped, none lost, none left behind; a drain ends | modelled |
| **Planner and cycle** (`engine/goap`, `engine/engine/{cycle,planners,awaiting,unblock}.go`) | the process: its world, plan, failures, disabled actions | observe, plan (A*, utility, model), run, settle, wait, retry | graph, other processes by the change's events | heuristic, ties, a world that moves, a retry that finds the process at work | plans are cheapest; a process blocks only for good, gives up in time, is not forgotten | partly |
| **Companions** (`engine/engine/companion.go`) | one run per change and methodology, its inbox | start, rerun, enqueue, restart on events | bus, the locks of the engine | events twice, on two replicas, racing a person | one companion, each event looked at, a cancel that stands | partly |
| **Graph** (`graph/graph`) | nodes, versions, changes, branches, drafts | edit, commit, rebase, merge | its outbox, readers | main moves between what is read and the lock; work rebased, committed and merged by halves | no work lost or brought back; main moves forward | partly: merges |
| **Bus and event consumers** (`lib/platform/nats.go`, `platform/eventsvc`) | JetStream (external), cursors of windows | publish, consume, fan out | all services | events seen twice | an event id is handled once | the consumer of the companions |
| **Triggers** (`engine/engine/triggers.go`) | entries, the events seen | start on an event or a time | bus | an event seen twice | one process per event | not modelled, but the events seen |
| **Methodology compiler, intent, assistant** | none of their own | translate, ask | models | large data, no interleaving | tests of the repository | not modelled |
| **Model gateway** (`platform/modelgw`) | ledger, quotas | call, retry, charge | providers | quota read before and charged after a call | a later candidate | not modelled |
| **Conversations, preferences, credentials, registries, import, indexer, smart tags, MCP hub** | a table each | single transactions | outbox | little of their own | the outbox | not modelled |
| **Gateway, sandboxes, caches, web, generated code** | configuration, processes, memory | routing, input and output | everything | outside what a model shows | tests | not modelled |

`partly` is a component whose core is modelled; section 2 says of each module what it leaves out.

## 2. The modules

| Module | What it is | Code |
|---|---|---|
| `ProcessLife` | abstract: the life of one process under a single executor, with the entries it writes on the change | ADR 0124 |
| `EngineReplicas` | replicas and goroutines working on one process | `engine/engine/{locks,engine,cancel,resume,cycle,journal}.go`, `engine/enginesvc/{sqlstore,signals}.go` |
| `EngineReplicas_proofs`, `JobQueue_proofs`, `OutboxRelay_proofs`, `SubProcesses_proofs`, `GoalLoop_proofs`, `Companions_proofs`, `ChangeMerge_proofs` | the theorems about the module of that name | |
| `GoalPlans_proofs` | the theorems about the plans of `GoalLoop` | |
| `JobLife` | abstract: the life of each job and the events that tell it | ADR 0149 |
| `JobQueue` | the job service, its workers, the runner of a job | `platform/jobsvc/{service,store}.go`, `lib/jobkit/{worker,job,request}.go` |
| `EventDelivery` | abstract: what each sink gets of the events of each fact | ADR 0136 |
| `OutboxRelay` | the outbox, its relays and their lease | `lib/outbox/{outbox,sql}.go`, `engine/engine/outbox.go` |
| `SubProcesses` | a parent, its children, recovery and the room of a replica | `engine/engine/{engine,locks,cancel}.go` |
| `Planner` | what the planners compute, and the reference for it | `engine/goap/planner.go`, `engine/engine/{planners,awaiting}.go` |
| `GoalLoop` | the A* search step by step, and the cycle of a process around it | `engine/goap/planner.go`, `engine/engine/{cycle,engine,companion,unblock}.go` |
| `Companions` | the companion run of a change and the events that reach it | `engine/engine/{companion,triggers}.go`, `lib/platform/nats.go` |
| `MergedWork` | abstract: main as the work of the changes, laid over it one merge at a time | ADR 0102, 0165, 0166, 0177 |
| `ChangeMerge` | versions, branches, drafts, rebases and merges | `graph/graph/{branchstate,changebranch,rebase_drafts,rebase_committed,...}.go`, `contracts/domain/draftmerge.go` |
| `MC...` | instances for TLC: replicas, workers, facts, actions, changes, symmetries | |

`EngineReplicas` implements `ProcessLife`, `JobQueue` implements `JobLife`, `OutboxRelay` implements `EventDelivery`,
`ChangeMerge` implements `MergedWork`, each by an `INSTANCE ... WITH` that maps the rows of the database to the
abstract state. An operator that stands right
before the one it resembles (`AnyLease`, `CanTake`) is a plausible mistake in it: put in its place, it breaks the
property paired with it in `PROJECT.json`. The detailed modules share these choices:

- **A statement of the database, or a transaction, is one step.** SQLite does so. On PostgreSQL the fence of
  `SQLStore.put` is one statement on one snapshot, so a lock taken and read within that instant is not seen; the window
  needs a lapsed lease, which the configuration `MCEngineReplicas_overwrite.cfg` covers from the other side. An error of the database means
  that nothing was written; a commit whose acknowledgement is lost is modelled where a caller acts on it (the claim of
  a job, a heartbeat), not elsewhere.
- **Time is a choice.** A lease is live or lapsed; `Lapse` is time passing it. Where the holder renews, its lapse is a
  pause and is counted (`MaxStalls`); where nobody renews, it is free.
- **A stop** loses the memory of its process and nothing of the database. A replica that comes back has a new identity
  (`NewHolder`), so its former locks belong to `Gone`.
- **Failures** (a write refused, a call lost, an error of a store) are counted (`MaxFaults`, in `Companions` with the
  other upsets in `MaxUpsets`); in `ChangeMerge` any merge may be rolled back.

### Engine replicas

A goroutine is a pair of its replica and its kind (`run`, `cancel`, `submit`); `pc` says where it is:
`mutex` and `hold` (in `Engine.lock`, then `Engine.hold`), `got` (before `Store.Get`), `settle` (in
`settleInterrupted`), `top` (the head of the loop of `Run`), `checkpoint`, `act`, `journal`, `save`, `release` (the
deferred unlock), and for a cancel `interrupt` and `unmark`. `mem` is its copy of the process: the status, the
execution of the step in flight, whether the action is disabled (`MaxFailures` = 1), the count of steps, of waits. The
process has one action; an execution of it writes `Pieces` entries on the change and then its action record.
`section`, `ctx` and `cancelling` are `Engine.held`, the context in `Engine.running`, `Engine.cancelling`; `signal` is,
per replica, the message of the broadcast on `engine.interrupt` on its way to it: each replica gets it or not (at most
`MaxSignals` of them), and handles it at any time, perhaps after the section it was meant for.
A submission (`submit`) goes from `got` to `answer`: it writes its entries on the change one by one (`answers`, numbered
by `given`), then its record, while the row still waits, and saves last; a stop, an error or a refused save in between
leaves what it wrote, and the person submits again under another number. `ProcessLife` therefore has submissions beside
executions: they write while the process waits, and it goes on with one that is whole and later than the last it took
(`answer` on the row, `taken` there). That a cut submission's items stay on the change is what the code does.
`intact`, `stale`, `dropped` and `cut` are history: no action reads them.

Left out: parents and children, `MaxRuns`, the named sections (supersede, companions, instance), the status
`clarifying`, and what a cycle computes: which of its outcomes happens is a choice, except that it completes only when
a whole execution is on the change and runs nothing while the action is disabled.

### Job service

A job is its rank in the order of creation; a worker has one slot. `run[w].pc` is `idle`, `claim` (it took the channel
of the waiters), `looked` (the store had no job), `parked` (in its select), `work`, `writing` (waits for WriteResult),
`asked`, `await`, `seen`, `awaiting` (the same three stages for Await) or `over` (before the last report). `woken` is
the channel it took being closed. `WriteResult` is the three steps of the code: the check, the append of the chunk, the
size on the record; the service finishes them even when the runner left. `kicks` and `answering` are the gaps between
a commit and the closing of the channel. The service is one replica (ADR 0149). A lease does not lapse between the
list of a sweep and its visit of the job: the sweep compares with the time at which it began. The ids of requests are
left out: the model has the one request a job holds, so that an old window's answer is refused (`service.go:426`, 462)
holds by its shape and is not shown.

### Outbox

`msg` is the table: a rank is drawn in the transaction of the fact (`open`) and visible at its commit (`pending`), in
any order across facts; two writes of one fact wait for each other on its row (`PutEmitting` writes it first). `drain`
is the drain that holds `Relay.mu`; a refused drain sets `again` and `kick`. The back-off of `Run` is time. The
kick is taken before a poll that is due in the same wait, since the timer starts anew at each wait. `log` (of each fact,
its events in the order they were committed), `got` (of each sink and fact, the events it got, repeats left out) and
`missed` (the replicas whose last drain left events to the poll) are history.

### Sub-processes

Process 0 is the parent, `1..MaxChildren` its children in the order of their start. A lock holds as long as its replica
lives (what a lease that lapses does is `EngineReplicas`), so a section of the code that reads and writes one row under
its lock is one step. What is kept apart: the goroutines about to run (`runs`: scheduled, counted, waiting for the lock),
the wake-ups (`wakes`), the child a recovery is failing (`found`), the cascade of a Cancel (`cancel`). `step` is the run
of the parent: it settles the calls of its action one after the other, running a child it starts inside its own run
(`Nested`). Of `Recover`, the list and the check of one process are one step, as are the passes of one replica; two
wake-ups or two runs of one process waiting at one replica count as one, so `Recover` leaves alone a process that has any
run at its replica, where the code leaves alone the runs it started itself (`recovering`, `locks.go:277`): one more would
wait behind the first. Failures of the action itself are `GoalLoop`'s.

`OneChildPerCall` excepts a parent on which Cancel was called, whatever came of it, which the proof showed to be needed:
the Cancel interrupts the run of the parent after it started a child and before its save; until it has the lock a pass
of `Recover` may run the parent again, which finds no child of its call on the row and starts another.

Known and not stated as properties: a child started and not yet on the row of its parent is failed by `failOrphan` of
another replica even when the parent's replica lives, if it finds it between its start and its run; a stop between the
save of a child's end and `resumeParent` leaves the parent waiting (`lost`; `engine.go:1585`: nothing looks for such a
parent again); the step of a parent cut after it started a child that then waits for a person starts another one beside
it; a stop, or a failed write, in the cascade of a Cancel leaves children alive.

### Planner and cycle

`Planner` has the operators of the code: `Satisfies`, `Apply`, the costs, the choice of the utility planner, the weights
of the hybrid one, what `awaited` looks at; and the reference, every world the actions reach at its least cost. `GoalLoop`
is the search one expansion at a time (`search`: the open list, the best cost of each world, the count) inside the cycle
of one process: `row` is the process as saved, `p` the copy of its run, `pc` where the run is. The change moves by the
action, by others (`Others`), and each move is an event for `retryBlocked`, which lists the processes without their lock
and then reruns each (`listed`). The search works on the copy alone, so nothing else is interleaved with it. What the
llm planner answers is any applicable action or none. An agent may have `incremental` actions: a run of one that wrote
something (`wrote`, of the step at hand) and did not reach its effects counts no failure. An error of the graph in the
observation, before or after the action, or in the events it emits, fails the process (`Observe`, `FinishStep`).

Known and in the model: a process that waits or is stuck while the event found it at work is not tried again until the
next event (`missed`, the exception of `NotForgotten`), nor is one whose event met an error of the store, in the list of
`retryBlocked` (which returns silently, `companion.go:376`) or in `rerun` (logged, line 383); `rerun` runs a process again that ended or was abandoned between
the list and its lock; `change.item_added` names no process, so the items of a run are events for the run itself; the
steps are counted over the whole life of a process, and at the limit it fails in memory only.
Left out: the board, approvals and roles, scoped actions and flows, the llm-scoring planner, `Planner.Best`; a save that
is refused and a run that is stopped, which `EngineReplicas` has.

### Companions

One change, one companion. `queue` is the durable consumer the replicas share: one event at a time, in order, delivered
again when its acknowledgment is late, to the same replica (`seen` tells it) or to the other. An event is handled in the
stages of the code: the list under the lock of the companions, then what `companionRun` does of the status it found,
which may be another one by now. 0 is the end of the companion itself, on which `nextInInbox` takes the next event.
`restarts` are the goroutines of `restartFor`. `gone` is history: what was given to a run, dropped with an inbox by a
newer event, lost in a stop, slipped (its companion ran for another event between the list and the rerun), come to a
change that was closed before it had a companion, or dropped by an error. The errors of the code are actions:
`CompanionFails` (the methodologies, the list, the blackboard, the start, rerun, enqueue), `InboxFails` (`nextInInbox`),
`RestartFails` (`restartFor`). Each is only logged, and the event acknowledged: the event at hand is not handled again
(`failed`), and an error of `nextInInbox` leaves what the inbox holds to the next end of the companion (`stranded`).
`NothingLost` and `LooksAtEvery` name these ways out, and say that an error in handling one event loses no other.
The locks do not lapse here, that of the companions included: it is a lock of `EngineReplicas`, where leases do, and what
a replica paused past its lease while it holds it would do is not shown.
A companion that fails or is stuck leaves its inbox to the next event; `LooksAtEvery` excepts it, as one that was
cancelled or waits for a person. Left out: the choice of the methodologies that react, the relay to parents and
sub-changes, persistent instances, the sub-processes a restart cancels.

### Changes and merges

`store` are the versions of each node, numbered over all branches; a branch (`held`) is the versions of the commits it
holds, its own and those it took of main; main is the commits each merge took, in order. A draft has the version it
starts from, the one it is merged with, its values, and the conflicts a person must settle (`open`). The operations of
a change are transactions under its lock, one step each. A merge is one transaction in three: rebased, checked against
main as it reads it (`prepareAttempts` re-reads are part of that step), landed under the lock of main, where it finds
main where it read it (`MergeApply`), moved beside its nodes (`MergeRefork`) or on them (`MergeAgain`). What it wrote is
its own until its end; another writer of the same node waits for it. `edited` and `made` are the values a change set and
those it committed, the state of `MergedWork`.

The run supposes four things: nobody asks a merge again while a conflict of committed work is unsettled
(`MergeUnsettled`), nobody settles a merge of committed work for main's values alone (`GiveUpAll`), two changes never
set one property to the same value, and there are two changes. The run `merge_again` and the
configurations `settled` and `same` show what happens without the first three; with three changes main may return to a former value, and
the same case of the rebase (`rebase_committed.go:525`) then loses work as in `same`.
Left out: creations, deletions, withdrawals, links, states and lifecycles, sub-changes, the close of a change and its
three-way merge, the review of impacts beyond the acceptance of their drafts (an impact that committed and was proposed
again goes to the commit although it conflicts, `rebase_committed.go:540`, 573), drafts that are cancelled, the guardians and dependencies.

## 3. The runs

| Run | Question | Bounds | Result |
|---|---|---|---|
| `engine_crash` | Do replicas whose leases hold behave as one executor (`OneExecutorLife`), whatever stops? Does what recovery drops as unwritten stay so (`DroppedWritesNothing`)? That a process ends once (`TerminalFinal`) follows from `OneExecutorLife` (`EndsOnce`) | 2 replicas, a run on each, a cancel, a submit; 2 entries, 3 executions, 2 submissions, 1 wait, 1 stop, 1 fault | holds |
| `engine_stall` | When a lease lapses under a holder that works, who still works on the row as it is (`HolderCopyFresh`), and how many (`OneExecutor`)? `TypeOK` | 2 runs, a cancel; 1 stall | holds |
| `engine_live` | Does a running process go on (`RunProgresses`), does Cancel return (`CancelReturns`)? | with signals (to one replica at most); 1 cancel, 1 stop; no wait for a person; step limit out of reach | holds |
| `jobs_run` | Does each job live as `JobLife` says (`JobLives`), no wait sleep over what it waits for (`NoMissedWake`)? Is the result whole (`ResultWhole`), do jobs end (`CancelEnds`, `AbandonedEnds`, `LostRunStops`)? `TypeOK` | 1 worker, 1 job, 2 chunks, 2 requests, 1 stop, 1 stall, 2 faults | holds |
| `outbox_relays` | Does each sink get the events of a fact in order, none skipped, none published before it came (`InOrderNoneSkipped`), none left behind (`NotLeftBehind`)? `TypeOK` | 2 relays without a lease (so any interleaving of deliveries), 2 facts, 2 sinks, 2 events, 1 stop, 1 fault; symmetric | holds |
| `outbox_live` | Does an event reach every sink (`Delivered`)? | 2 relays under the lease, 1 event, 1 stop, 1 fault | holds |
| `sub_calls` | Is no end of a child missed (`WakeOnItsWay`), has a call one live child (`OneChildPerCall`), are the places of a replica those of its runs (`PlacesCounted`), does a Cancel take the children (`CancelTakesChildren`)? `TypeOK` | 2 replicas (symmetric) with room for one run, 1 call, 2 children, 1 question, 1 cancel, 1 stop, 1 fault | holds |
| `sub_live` | Does a running process go on whatever the room (`RunningGoesOn`), a parent whose child ended too (`ParentGoesOn`)? | the same with 1 signal, no cancel, no fault | holds |
| `goal_loop` | Are plans cheapest (`CheapestPlan`), worlds expanded once (`ExpandedOnce`)? Does a process block only for good (`BlockedForGood`), end before its limit (`LimitNotReached`), and is it not forgotten (`NotForgotten`)? `TypeOK` | 3 conditions; every pair of 12 actions that can reach x, some threes, 4 planners, two pairs and a three with incremental actions; 1 move of others, 1 write without effects, 1 decision, 1 error of the store; 12 steps | holds |
| `companions` | One companion (`OneCompanion`), no event lost but as named (`NothingLost`), each looked at (`LooksAtEvery`), a cancel that stands (`StaysCancelled`)? | 2 replicas, 3 events, the second supersedes, 1 redelivery, stop, error, cancel, unblock or close of the change | holds |
| `merge_work` | Is the work of a change kept (`WorkKept`), is main the work of the merges (`AsPromised`), does it only move forward (`MainMovesForward`), does a branch hold all of main up to its position (`HoldsPrefix`)? `TypeOK` | 2 changes (symmetric), 2 nodes, 2 properties, 4 and 2 versions, 2 merges | holds |
| `merge_again` | `MainMovesForward` when a merge is asked again with its conflict unsettled | as `merge_work` | violated |

Configurations kept beside the runs, each checked with `tlc -config`:

| Configuration | Question | Result |
|---|---|---|
| `MCJobQueue_workers.cfg` | `JobLives`, `NoMissedWake` with 2 workers (symmetric), 2 jobs, 1 stop, 1 stall, 1 fault | holds (1.6 million states) |
| `MCEngineReplicas_overwrite.cfg` | `TerminalFinal` when a replica pauses past its lease | violated |
| `MCEngineReplicas_cut.cfg` | `CutNotRerun`: is an action found cut halfway never run again, with 2 stops? | violated |
| `MCEngineReplicas_limit.cfg` | `RunProgresses` at the step limit | violated |
| `MCEngineReplicas_unheard.cfg` | `CancelReachesRun`: is the run a Cancel waits for told to let go? | violated |
| `MCOutboxRelay_spin.cfg` | `DrainEnds`: does a drain end? | violated |
| `MCChangeMerge_settled.cfg` | `WorkKept` when a merge of committed work may be settled for main's values alone (one node, 5 versions, 3 merges) | violated |
| `MCChangeMerge_same.cfg` | `WorkKept` when two changes set one value | violated |
| `MCChangeMerge_drafts.cfg` | `DraftsStand`: is a draft a commit rebased never refused for where it starts? | violated |

**Why these bounds are enough.** Two replicas are what a handover needs; a third would only repeat the taking over.
Two entries tell the three cases of `settleInterrupted` apart, and three executions let one be dropped, one be cut and
one follow; of two submissions one is cut and one is taken. One stall gives the paused replica and the one that takes over. The second chunk and the second request
are the ones that find something of the first; two faults let a call and the next one fail. Two events of one fact
show an order, two of two facts show ranks out of commit order, two sinks show one failing alone. Two children are the
one known and the one a replay would start beside it; room for one run makes the count matter at once. Three
conditions have a goal of two and one that only others establish; the pool of actions has one for each precondition and
each effect (one condition, both, one at the price of the other), cheap and dear, of each utility, the default cost
among them. Three events are one at work, one that supersedes and one behind it;
`companions` was also run with two upsets, for safety, and for liveness with two events: it holds there too.
Twelve steps are more than the failures and the one write without effects (`MaxItems`) of any agent of `goal_loop` take
while nothing moves from outside, which is what `LimitNotReached` is about. Two properties on one node have a
merge take one side each, agree or conflict; the second node moves beside it; four versions are the first, one of each
change and their merge, and two merges put one change over the other. `merge_work` was also run with five versions and
three merges (2 million states) and, on one node, with seven versions and five merges: it holds there too. With four
versions it holds for `GiveUpAll = TRUE` too: what the configuration `settled` shows takes five. Every run explores its instance completely.

### What the violations show

- `overwrite` (engine, `enginesvc/sqlstore.go:157`): *The store refuses the write of a replica that lost the lock* (`docs/architecture.md`) only as
  long as another replica holds it. Replica A pauses past its lease; B's Cancel takes the lock, saves `cancelled`,
  releases: the row of the lock is deleted. A wakes before its next renewal and its checkpoint finds no lease to be
  refused by: the process is `running` again. A token of the lock kept on the row of the process (a counter the write
  compares) would refuse it. The same pause lets A write on the change after B dropped its execution as having written
  nothing: the graph has no fence.
- `cut` (`resume.go:68`; its comment, line 18: *it is not run again but failed*): `settleInterrupted` records the end of a step it found cut before the process is saved. A second stop
  in between, and the next recovery reads its own record as the end of the step; the failure that keeps the action
  from running again is lost.
- `limit` (`engine.go:731`; line 674: *Run executes cycles until the process completes, blocks or fails*): at `MaxSteps` the run ends with a failure nobody saves. `Recover` runs the process again for ever.
- `unheard` (`cancel.go:36`; line 13: *A run in flight is interrupted*): Cancel interrupts the holder of that moment once, then waits. A run that takes the lock in between
  on another replica is not told, and Cancel waits for the whole of it.
- `spin` (`outbox.go:211`; line 201: *until none is left or one fails*): `Run` wakes (a poll, or a kick) while a background drain works; its own drain is refused, sets
  `again` and kicks `Run`, that is itself; it is refused again. The drain at work, with nothing pending, sees `again`
  each time it looks. Delivery goes on, but one goroutine spins and the other reads the table without pause until the
  scheduler breaks the tie. `DrainEnds` supposes that the poll timer fires finitely often, so the loop is the kick's.

- `merge_again` (`rebase_committed.go:163`): *a fast-forward is over the head of its target* (`sqlbuild.go:259`), and a
  rebase in conflict is *left to settle* before the merge (`rebase_committed.go:15`). Change 2 merges an edit of a
  node; change 1 committed an edit of the same property and asks its merge: the rebase takes main's commits, keeps the
  conflict in a draft and stops. Asked again, nothing stops it: since ADR 0166 only the close asks for settled work
  (`unsettled`), main has not moved, and what the branch shares with main is main's head. Main is moved to the version
  of change 1 of before the conflict, and what change 2 merged is gone from it. A merge that refuses a branch with a
  draft merged over committed work (`MergedWith`) would close it: that is what `merge_work` supposes.
- `settled` (`rebase_committed.go:525`): *the greatest version is the last: the commits a branch takes are over
  what it holds (... a three-way merge writes the nodes both sides changed)* (`sqlbuild.go:258`), and *the branch holds
  the work brought up to date* (`rebase_committed.go:571`). Change 1 merges an edit of y and then commits one of x of
  the same node on its branch (version 4). Change 2 had committed y too (version 3); its rebase is in conflict, a person
  settles it for main's value, the commit writes version 5, with the values of version 2 that main had, and merges it.
  Change 1 rebases: its version 4 already is the three-way merge (main has nothing new), so none is written, the branch
  takes main's commits and reads version 5, the greatest: the edit of x is on the branch and read nowhere. Found by the
  proof of `WorkKept`, which fails there. A merge version written whenever both sides have a version, or the branch
  reading its own version when it writes none, would close it.
- `same` (`rebase_committed.go:525`): when all that main changed of a node is what the change holds already, no merge
  version is written, and the branch takes main's commits. Where main's version has the greater number, the branch now
  reads main's version, and the other edit the change committed on that node is gone.
- `drafts` (`changeimpact_apply.go:261`; `rebase_drafts.go:20`: a draft rebased is one the commit writes): a first,
  partial commit follows main, and takes main's version of a node whose draft waits; main moves that node again; the
  next commit rebases the draft onto main's head, which the branch, that now has commits, does not take: `versionOf`
  refuses the draft because the branch holds another version, and will each time.

### Fairness

- **Engine**: a goroutine goes on. It waits for its mutex, for the lock (tried at most a second apart) or for the next
  pass of `Recover`; each is asked for again and again, by attempts whose number is not bounded, hence strong fairness
  on the steps of a goroutine. A lock is renewed, a signal received is handled or lost, a lease lapses when nobody
  renews it: weak. No replica has to come back, no person to act. `sync.Mutex` hands over to a waiter within a
  millisecond (starvation mode), and the poll of the shared lock has gaps at every release.
- **Jobs**: the service handles the calls it has and sweeps every few seconds, a reporter ticks, a runner whose context
  is cancelled returns (the contract of `jobkit.Kind`): weak. A worker need not come back, a runner that is not
  cancelled need not end, so nothing is promised of it.
- **Outbox**: goroutines go on, `Run` polls, transactions end, leases lapse: weak.
- **Sub-processes**: a goroutine gets in the end the lock it polls for, recovery passes again and again, so strong where
  the step waits for a lock or for room (runs, the parent, `resumeParent`, `Recover`, a Cancel); a child at work ends,
  asks or is cut, a lapsed lease is free: weak. No person has to answer, no stopped replica to be the one that acts.
- **Companions**: the consumer hands events over and the goroutines of a restart go on (strong: they wait for locks), a
  running row is taken, a run ends (weak) and looks at the change again before it does when the change moved (strong:
  an interruption may come first). No person has to act.

## 4. The proofs

Each module of proofs supposes only the named assumptions of the module it is about (`ASSUME` in it), and holds for any
replicas, workers, changes, events and bounds. An inductive invariant was checked by TLC before it was proved.

| Theorem | Statement |
|---|---|
| `EngineReplicas`: `TypeCorrect` | `Spec => []TypeOK` |
| `HolderWorksOnTheRow` | `Spec => []HolderCopyFresh` |
| `AtMostOneExecutor` | `Spec => []OneExecutor` |
| `ReplicasImplementOneExecutor` | with `MaxStalls = 0`: `Spec => OneExecutorLife` (the refinement of `ProcessLife`) |
| `EndsOnce` | with `MaxStalls = 0`: `Spec => TerminalFinal` |
| `NeverWritesAfterwards` | with `MaxStalls = 0`: `Spec => []DroppedWritesNothing` |
| `JobQueue`: `JobQueueTypes` | `Spec => []TypeOK` |
| `ResultIsWhole` | `Spec => []ResultWhole` |
| `WakesHeard` | `Spec => []NoMissedWake` |
| `JobsLive` | `Spec => JobLives` (the refinement of `JobLife`) |
| `OutboxRelay`: `OutboxTypes` | `Spec => []TypeOK` |
| `NotLeft` | `Spec => []NotLeftBehind` |
| `InOrder` | `Spec => InOrderNoneSkipped` (the refinement of `EventDelivery`) |
| `SubProcesses`: `SubProcessesTypes` | `Spec => []TypeOK` |
| `WakesOnTheirWay` | `Spec => []WakeOnItsWay` |
| `OneLiveChild` | `Spec => []OneChildPerCall` |
| `PlacesAreRuns` | `Spec => []PlacesCounted` |
| `CancelTakesAll` | `Spec => []CancelTakesChildren` |
| `GoalLoop`: `GoalLoopTypes` | `Spec => []TypeOK` |
| `NoneForgotten` | `Spec => []NotForgotten` |
| `NoneExpandedTwice` | `Spec => []ExpandedOnce` |
| `PlansCheapest` | `Spec => []CheapestPlan` |
| `StopsForGood` | with `Cardinality(Worlds) <= MaxExpansions`: `Spec => []BlockedForGood` |
| `WaitsForEnough` | `Spec => []WaitsEnough`: the second half of `BlockedForGood`, whatever `MaxExpansions` |
| `Companions`: `OneCompanionStarted` | `Spec => []OneCompanion` |
| `CancelStands` | `Spec => StaysCancelled` |
| `EventsKept` | `Spec => []NothingLost` |
| `ChangeMerge`: `BranchesWhole` | `Spec => []Inv` |
| `ChangeMergeTypes` | `Spec => []TypeOK` |
| `PrefixHeld` | `Spec => []HoldsPrefix` |

**Engine replicas**, in three layers.

1. `TypeInv` = `TypeOK`, `Counted`, `Executing`. `TypeOK` alone is not inductive: a dropped step is taken off the
   count of steps, which must not be zero while a step is open.
2. `LockInv` = `TypeInv`, `MutexHeld` (between lock and unlock a goroutine has its replica's mutex), `IntactHolds` (a
   lease that never lapsed is the one on the row, live), `HolderCopyFresh`. Two goroutines with unbroken leases are
   then one (`OneAtATime`), and a write the fence lets through leaves no other one (`Fence`): a stale replica can pass
   the fence only when nobody holds an unbroken lease.
3. `LifeInv` = `LockInv`, `SectionsIntact`, `Faithful` (what a copy may differ by from the row at each place of the
   loop). Without stalls every section has an unbroken lease, so the one goroutine in it (`Alone`) has the row as it
   is, and each of its steps is a step of `ProcessLife` or changes nothing there. `MCEngineReplicas_overwrite.cfg` shows
   that the hypothesis `MaxStalls = 0` is needed.

`NeverWritesAfterwards` adds `Drawn` (an execution at work or dropped was drawn) and `NoneExecutesDropped`: whoever
drops an execution is alone in its section, so no goroutine carries that number any more, and none draws it again.

**Jobs.** `Inv` says of a result being written how far the three places it is on agree: the bytes of the blob, the
size on the record, the chunks the runner sent (`Whole`, `OneAhead`, `Writes`); `Fresh` and `OnItsOwn` that a run holds
its job alone, `AskedLast` that a question is the last thing a job did. `WakesHeard` is by two invariants over the gap
between a commit and the closing of the channel (`ClaimsHeard`, `WaitsHeard`): who sleeps took its channel before it
read, so what it waits for came after, and its waker is still on the way. The refinement has one case per action.

**Outbox.** `Filled` and `OpenLast` say how ranks are drawn, `Histories` (`Logged`, `InLog`, `Prefix`) that what each
sink got of a fact is a prefix of what was committed of it, `Lists` that the list of a drain is what it read, in order,
less what it delivered, and that nothing of the same fact before an event of the list is left out (`Held`, `Behind`),
`ReachedAll` that a published event is with every sink. `NotLeftBehind` is not inductive; `SomeoneMinds`, which is,
names for any unpublished event the relay that will look again, with the stage its drain or its `Run` is at. The next
event of a list is its least rank, which exists because a nonempty list of numbers has one.

**Sub-processes.** `Base` is the types, whose section each lock is for (`Sections`), the children started (`Started`).
`WakeInv` looks one step ahead of `WakeOnItsWay`, at the parent that has chosen the child it will wait on and not saved
yet (`WillWaitOn`). `Cascade` says what a Cancel has still to do for each live child. `OneLive` follows from `KidsInv`:
a call's child is the one its replay knows, on the row or in the run, and it starts another only when that one ended.
`PlaceInv` goes with `PlacesCounted`: runs are finitely many, and each action moves at most one place (`PlaceMoves`).
That no count goes below zero, which `TypeOK` says, comes from it and not before.

**The cycle and its planner.** `TypeInv` has the stages of a run (`Stages`) and what a node of the search is (`Nodal`).
`NotForgotten` needs `Aware`: at each stage, either the run still has the world of the change to observe, or an event
is on its way, or one was missed or dropped by an error. `ExpandedOnce` holds for any set of actions because the estimate is consistent (an action
lowers it by its own cost at most): no open node is estimated below a world that was expanded (`BehindOpen`, with the
shape of the open list, `OpenNodes`), so no later one improves it, and expansions are not more than the worlds expanded.
`AgentsAssumption` says that the actions of an agent have each its name, which the code indexes them by.

**The plans.** `CheapestPlan` and `BlockedForGood` compare the search with `Reached`, the reference. Both are compared
with the routes of the actions (`Route`: worlds one action apart, with what they cost so far).

1. `Reached` goes on until nothing changes. That it comes to an end is `Settles`: there are finitely many worlds
   (`WorldsFinite`), each with a cheapest route of some length, and beyond the longest of these no round changes the
   set. It is then the set of the worlds that routes reach, each at the least cost (`ReachedIs`, `LeastCostIs`).
2. `Table` says of a search: an action from an expanded world leads to a world that the table has at no more than the
   cost over it (`Closed`); a world of the table is expanded or open at its best cost (`Fronted`); the origin costs
   nothing (`Begun`); each open node has the plan of a route to its world (`Sound`). Along any route, by induction on
   its length, the table has the next world or an open node is before it (`RoutesAhead`). So the nearest node, when it
   is at the goal, has the least cost (`NearestIsLeast`), and without an open node no route reaches the goal
   (`NothingOpen`). An expansion keeps `Table` (`ExpandKeepsTable`): it pushes only the foremost action to each world,
   which there always is (`Foremost`), and only where it improves.
3. `WaitsSuffice`: the relaxed search assumes all that others may establish; its plan goes through from the world with
   only the conditions that `ReliedOn` names, since the two worlds differ at each step by others alone (`Spared`).
4. `Sure` carries these to the cycle: of the search, its table and that no plan exists when it is the relaxed one
   (`Searched`); of a run that acts, the plan in the agent's own actions, unweighed again (`Planned`, `NamedCarries`);
   of one that stops, that it has no plan (`Settled`).

The hypothesis of `StopsForGood` is that the limit does not cut a search: no world is expanded twice, so as many
expansions as there are worlds are enough. The code stops at 10000; the run has the hypothesis (27 of each). A search cut
by the limit ends as one without a plan (`goap/planner.go:155`), so a process may then be stuck although it has one.
Inductions here are over numbers and sets of them (`InductionOnNumbers`, from the least element), which needs no
theorem with an operator for a parameter. `Along`, `Spent` and `Reached` are recursive functions: what they
are is proved by showing a function that satisfies the equation, and that it fixes each value asked for.

**Companions.** `OneCompanion` alone is not inductive: a handler between its list and the start could start a second
one. `Inv` adds to the types `Serialized` (who acts on a list holds the lock of the companions, and if its list found no
companion there still is none), `RunsRunning` (a run that holds the process lock works on a running row, so it cannot
end a cancelled one as something else) and `StartedOnce`. With `RunsRunning`, `CancelStands` is one case per action:
`rerun` and `restartFor` look at the status again under the lock of the process. `EventsKept`: an event once given stays
given (`Given`), to a run, an inbox, a restart or one of the ways out that `NothingLost` names, and each event that came
is on the queue or given (`QueuedOrGiven`, which implies `NothingLost`); an event is acknowledged only when the handler
that saw it has given it.

**Changes and merges.** `HoldsPrefix` is not inductive: main grows while branches stand still, and a new order of main
could hold something of another branch, whose position would jump over orders it never took. `Inv` therefore says
that what a branch holds and main does not was written by its own change (`OwnWork`), for the branches and for the
merges in flight, so what a merge brings to main no other branch has (`NotShared`); that a branch with something of an
order of main has all of the orders from its fork to it (`Whole`); and that a merge which checked main holds it up to
where it read it (`OkMerge`). A merge in flight stands on the store with what it wrote over it, and since two merges
never number versions of one node (`Apart`) the others only lay versions under it (`UnderGrows`). `LandKeeps` is the
case of the three landings, `ChangeKeeps` of everything else.

**Only model-checked, and why.**

- Liveness (`RunProgresses`, `CancelReturns`, `CancelEnds`, `AbandonedEnds`, `LostRunStops`, `Delivered`,
  `RunningGoesOn`, `ParentGoesOn`, `LooksAtEvery`): fairness and `ENABLED` are outside the prover.
- `LimitNotReached` depends on the values of the bounds: how many steps a process may need before it ends is a function
  of its actions, their costs, `MaxFailures` and `MaxItems`, and a process with more of them than `MaxSteps` does reach
  the limit. It also takes that writes without effects end (an incremental action that keeps writing goes on to the
  limit) and that no actions undo one another in a circle, as none of the instance does.
- `WorkKept`, `MainMovesForward`, `AsPromised`: they are false without the hypotheses of `merge_work`, as its attempted
  proof and then the configuration `settled` showed; under them a proof needs the values main has had, and ancestry, a recursive
  function. They stay with TLC.

## 5. The plan

Done: `EngineReplicas` with `ProcessLife` and its proofs; `JobQueue` with `JobLife`; `OutboxRelay` with
`EventDelivery`; `SubProcesses` with the room of a replica; `Planner` and `GoalLoop`; `Companions`; `ChangeMerge` with
`MergedWork`; for each of them a module of proofs. Next, in this order:

1. Proofs: `WorkKept` and `MainMovesForward` of `ChangeMerge` under the hypotheses of `merge_work`, which needs as
   history the values main has had.
2. `ChangeMerge`: deletions and the reverts `takeTarget` writes again, sub-changes, the close and its three-way merge.
3. Composition: the engine writing its events in the outbox (`PutEmitting` under the fence) and the companions reading
   them.

**Not modelled, and why.** The bulk of the repository is outside what a model shows: generated code (protobuf, connect,
the parser of the query language), the SQL of the stores, the web application, and translations without interleaving
(the methodology compiler, the assistant, the indexer); these have their tests. The model gateway (a quota read before
a call and charged after it), the MCP hub (a lease of liveness, close to that of a job) and the pool of sandboxes keep
little state of their own and are candidates after the above.
