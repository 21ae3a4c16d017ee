------------------------------ MODULE JobQueue ------------------------------
(***************************************************************************)
(* The job service and its workers (ADR 0149): jobs claimed by long polls, *)
(* run under a lease their reports renew, cancelled, asking the person     *)
(* they run for, writing a result in chunks, swept when their worker is    *)
(* lost.  platform/jobsvc/{service,store}.go, lib/jobkit/{worker,job,      *)
(* request}.go.                                                            *)
(*                                                                         *)
(* The service is one replica (ADR 0149); a call of its store is one       *)
(* transaction, the event of the write in it.  Time is abstract: a lease   *)
(* is live or lapsed.  A worker has one slot (Parallel = 1), the same kind *)
(* of jobs is claimed by all.                                              *)
(* An operator right before the one it resembles (OwnsOnce, Owns) is a     *)
(* plausible mistake in it, used to see that the properties notice.        *)
(***************************************************************************)
EXTENDS Naturals, Sequences, FiniteSets

CONSTANTS
  MaxJobs,      \* bound: jobs created; a job is its place in the order of creation
  Workers,      \* the worker processes
  NoWorker, NoJob,
  MaxChunks,    \* bound: chunks of the result of a job
  MaxAsks,      \* bound: requests of a job
  MaxStops,     \* bound: workers stopped or crashed
  MaxStalls,    \* bound: leases lapsing although the worker reports (a pause, an unreachable service)
  MaxFaults     \* bound: calls that fail or whose answer is lost, service restarts

ASSUME JobBounds ==
  /\ MaxJobs \in Nat \ {0} /\ MaxChunks \in Nat /\ MaxAsks \in Nat
  /\ MaxStops \in Nat /\ MaxStalls \in Nat /\ MaxFaults \in Nat
ASSUME JobNames == NoWorker \notin Workers /\ NoJob \notin 1..MaxJobs

VARIABLES
  job,         \* the records of the store
  blob,        \* per job, the chunks of its result in job_blob
  outbox,      \* per job, its events
  kicks,       \* jobs created and not yet kicked: between Store.Create and kick
  answering,   \* jobs answered and not yet signalled: between Store.Update and answered
  write,       \* per job, the WriteResult call the service handles
  sweep,       \* the jobs Expired listed and Sweep has still to see
  run,         \* per worker, its slot: the claim it waits on or the job it runs
  written,     \* history: per job, the chunks its runner was told are written
  spent        \* bounds used up

vars == <<job, blob, outbox, kicks, answering, write, sweep, run, written, spent>>

Jobs == 1..MaxJobs
Final(s) == s \in {"done", "failed", "cancelled"}
Statuses == {"absent", "queued", "running", "done", "failed", "cancelled", "purged"}
Absent == [status |-> "absent", worker |-> NoWorker, lease |-> "none", cancel |-> FALSE,
           size |-> 0, request |-> "none", asks |-> 0]
Idle == [pc |-> "idle", job |-> NoJob, woken |-> FALSE, stop |-> FALSE, end |-> "none", leave |-> FALSE]

Working == {"work", "writing", "asked", "await", "seen", "awaiting"}      \* the runner and its reporter

TypeOK ==
  /\ job \in [Jobs -> [status : Statuses, worker : Workers \union {NoWorker}, cancel : BOOLEAN,
                       lease : {"none", "live", "lapsed"}, size : 0..MaxChunks,
                       request : {"none", "pending", "answered"}, asks : 0..MaxAsks]]
  /\ blob \in [Jobs -> 0..MaxChunks] /\ written \in [Jobs -> 0..MaxChunks]
  /\ outbox \in [Jobs -> Seq({"created", "started", "asked", "answered", "ended"})]
  /\ kicks \subseteq Jobs /\ answering \subseteq Jobs /\ sweep \subseteq Jobs
  /\ write \in [Jobs -> {"none", "checked", "appended"}]
  /\ run \in [Workers -> [pc : Working \union {"off", "idle", "claim", "looked", "parked", "over"},
                          job : Jobs \union {NoJob}, woken : BOOLEAN, stop : BOOLEAN,
                          end : {"none", "done", "failed", "cancelled"}, leave : BOOLEAN]]
  /\ spent \in [stops : 0..MaxStops, stalls : 0..MaxStalls, faults : 0..MaxFaults]

Init ==
  /\ job = [j \in Jobs |-> Absent] /\ blob = [j \in Jobs |-> 0] /\ outbox = [j \in Jobs |-> <<>>]
  /\ kicks = {} /\ answering = {} /\ write = [j \in Jobs |-> "none"] /\ sweep = {}
  /\ run = [w \in Workers |-> Idle] /\ written = [j \in Jobs |-> 0]
  /\ spent = [stops |-> 0, stalls |-> 0, faults |-> 0]

Fault == spent.faults < MaxFaults /\ spent' = [spent EXCEPT !.faults = @ + 1]
Tell(j, e) == outbox' = [outbox EXCEPT ![j] = Append(@, e)]
Goto(w, l) == run' = [run EXCEPT ![w].pc = l]

-----------------------------------------------------------------------------
(* Service.Create and the long poll of Service.Claim.                       *)

Create(j) ==
  /\ job[j].status = "absent" /\ \A i \in 1..(j - 1) : job[i].status # "absent"
  /\ job' = [job EXCEPT ![j].status = "queued"]
  /\ Tell(j, "created")
  /\ kicks' = kicks \union {j}
  /\ UNCHANGED <<blob, answering, write, sweep, run, written, spent>>

\* Whoever took the channel before kick closed it is woken: the claims not yet in their select, too.
OnWake == {w \in Workers : run[w].pc \in {"claim", "looked", "parked"}}
InAnswerSelect == {w \in Workers : run[w].pc = "awaiting"}
OnAnswers == {w \in Workers : run[w].pc \in {"await", "seen", "awaiting"}}

Wake(ws) == run' = [w \in Workers |-> [run[w] EXCEPT !.woken = @ \/ w \in ws]]

Kick(j) ==
  /\ j \in kicks
  /\ kicks' = kicks \ {j}
  /\ Wake(OnWake)
  /\ UNCHANGED <<job, blob, outbox, answering, write, sweep, written, spent>>

\* The claim takes the channel before it looks in the store.
TakeWaiter(w) ==
  /\ run[w].pc = "idle" \/ (run[w].pc = "parked" /\ run[w].woken)
  /\ run' = [run EXCEPT ![w].pc = "claim", ![w].woken = FALSE]
  /\ UNCHANGED <<job, blob, outbox, kicks, answering, write, sweep, written, spent>>

Queued == {j \in Jobs : job[j].status = "queued"}
Unleased(j, w) == [job[j] EXCEPT !.status = "running", !.worker = w]
Claimed(j, w) == [job[j] EXCEPT !.status = "running", !.worker = w, !.lease = "live"]

\* Store.Claim of the oldest queued job; its answer may be lost on the way to the worker.
StoreClaim(w) ==
  /\ run[w].pc = "claim"
  /\ \/ /\ Queued = {} /\ Goto(w, "looked")
        /\ UNCHANGED <<job, outbox, spent>>
     \/ \E j \in Queued :
          /\ \A i \in Queued : j <= i
          /\ job' = [job EXCEPT ![j] = Claimed(j, w)]
          /\ Tell(j, "started")
          /\ \/ /\ run' = [run EXCEPT ![w] = [Idle EXCEPT !.pc = "work", !.job = j]]
                /\ UNCHANGED spent
             \/ /\ Fault
                /\ run' = [run EXCEPT ![w] = Idle]
  /\ UNCHANGED <<blob, kicks, answering, write, sweep, written>>

\* The select of Claim, and of Await.
Park(w) ==
  /\ run[w].pc \in {"looked", "seen"}
  /\ Goto(w, IF run[w].pc = "looked" THEN "parked" ELSE "awaiting")
  /\ UNCHANGED <<job, blob, outbox, kicks, answering, write, sweep, written, spent>>

\* The wait of the claim is over, or its worker stops: it answers nothing.
Unpark(w) ==
  /\ run[w].pc = "parked"
  /\ run' = [run EXCEPT ![w] = Idle]
  /\ UNCHANGED <<job, blob, outbox, kicks, answering, write, sweep, written, spent>>

-----------------------------------------------------------------------------
(* The run of a job: Worker.run, its reporter, the calls of its runner.     *)

OwnsOnce(w) == job[run[w].job].worker = w
Owns(w) == job[run[w].job].status = "running" /\ job[run[w].job].worker = w

NeverTold(w) == FALSE
ToldToStop(w) == job[run[w].job].cancel
Ignored(w) == FALSE
LostStops(w) == ~Owns(w)

\* A tick of the reporter: Report renews the lease and answers whether the job was cancelled.
Heartbeat(w) ==
  LET j == run[w].job IN
  /\ run[w].pc \in Working
  /\ \/ /\ Owns(w)
        /\ job' = [job EXCEPT ![j].lease = "live"]
        /\ \/ /\ run' = [run EXCEPT ![w].stop = @ \/ ToldToStop(w)]
              /\ UNCHANGED spent
           \/ /\ Fault /\ UNCHANGED run            \* the answer is lost
     \/ /\ ~Owns(w)                                \* ErrLost
        /\ run' = [run EXCEPT ![w].stop = @ \/ LostStops(w)]
        /\ UNCHANGED <<job, spent>>
  /\ UNCHANGED <<blob, outbox, kicks, answering, write, sweep, written>>

\* The runner returns: nil, an error, or the error of its context.
Over(w, s) == run' = [run EXCEPT ![w].pc = "over", ![w].end = s]
Failing(w) == Over(w, IF run[w].stop THEN "cancelled" ELSE "failed")

Return(w) ==
  /\ run[w].pc = "work"
  /\ Over(w, "done") \/ Failing(w)
  /\ UNCHANGED <<job, blob, outbox, kicks, answering, write, sweep, written, spent>>

\* WriteResult, first step: running.
WriteResult(w) ==
  LET j == run[w].job IN
  /\ run[w].pc = "work" /\ blob[j] < MaxChunks
  /\ \/ /\ Owns(w) /\ write' = [write EXCEPT ![j] = "checked"] /\ Goto(w, "writing")
     \/ /\ ~Owns(w) /\ Failing(w) /\ UNCHANGED write
  /\ UNCHANGED <<job, blob, outbox, kicks, answering, sweep, written, spent>>

\* Second step: AppendBlob. The call of a runner that left is cancelled, or goes on.
Waits(j) == \E w \in Workers : run[w].job = j /\ run[w].pc = "writing"
FailCall(j) ==
  /\ write' = [write EXCEPT ![j] = "none"]
  /\ run' = [w \in Workers |-> IF run[w].job = j /\ run[w].pc = "writing"
                               THEN [run[w] EXCEPT !.pc = "over", !.end = IF run[w].stop THEN "cancelled" ELSE "failed"]
                               ELSE run[w]]
  /\ IF Waits(j) THEN Fault ELSE UNCHANGED spent

AppendBlob(j) ==
  /\ write[j] = "checked"
  /\ \/ /\ blob' = [blob EXCEPT ![j] = @ + 1]
        /\ write' = [write EXCEPT ![j] = "appended"]
        /\ UNCHANGED <<run, spent>>
     \/ FailCall(j) /\ UNCHANGED blob
  /\ UNCHANGED <<job, outbox, kicks, answering, sweep, written>>

SizeBefore(j) == blob[j] - 1
SizeTwice(j) == blob[j] + 1
SizeAfter(j) == blob[j]

\* Third step: the size on the record, whatever became of the job since the first.
RecordSize(j) ==
  /\ write[j] = "appended"
  /\ \/ /\ job' = [job EXCEPT ![j].size = SizeAfter(j)]
        /\ write' = [write EXCEPT ![j] = "none"]
        /\ written' = [written EXCEPT ![j] = IF Waits(j) THEN @ + 1 ELSE @]
        /\ run' = [w \in Workers |-> IF run[w].job = j /\ run[w].pc = "writing"
                                     THEN [run[w] EXCEPT !.pc = "work"] ELSE run[w]]
        /\ UNCHANGED spent
     \/ FailCall(j) /\ UNCHANGED <<job, written>>
  /\ UNCHANGED <<blob, outbox, kicks, answering, sweep>>

\* The context of the run is cancelled while a call of the runner is under way: the call fails.
LeaveCall(w) ==
  /\ run[w].pc \in Working \ {"work"} /\ run[w].stop
  /\ Over(w, "cancelled")
  /\ UNCHANGED <<job, blob, outbox, kicks, answering, write, sweep, written, spent>>

\* Job.Ask records its request: a new one replaces the last.
Ask(w) ==
  LET j == run[w].job IN
  /\ run[w].pc = "work" /\ job[j].asks < MaxAsks
  /\ \/ /\ Owns(w)
        /\ job' = [job EXCEPT ![j].request = "pending", ![j].asks = @ + 1, ![j].lease = "live"]
        /\ Tell(j, "asked")
        /\ Goto(w, "asked")
     \/ /\ ~Owns(w) /\ Failing(w) /\ UNCHANGED <<job, outbox>>
  /\ UNCHANGED <<blob, kicks, answering, write, sweep, written, spent>>

\* Await takes the channel of the answers, then reads the job.
TakeAnswerWaiter(w) ==
  /\ run[w].pc \in {"asked", "awaiting"}         \* a wait over (AskWait) starts again
  /\ run' = [run EXCEPT ![w].pc = "await", ![w].woken = FALSE]
  /\ UNCHANGED <<job, blob, outbox, kicks, answering, write, sweep, written, spent>>

Await(w) ==
  /\ run[w].pc = "await"
  /\ \/ Owns(w) /\ job[run[w].job].request = "pending" /\ Goto(w, "seen")
     \/ Owns(w) /\ job[run[w].job].request = "answered" /\ Goto(w, "work")
     \/ ~Owns(w) /\ Failing(w)
  /\ UNCHANGED <<job, blob, outbox, kicks, answering, write, sweep, written, spent>>

\* The last Report, once the reporter is over: it is not retried.
EndReport(w) ==
  LET j == run[w].job IN
  /\ run[w].pc = "over"
  /\ run' = [run EXCEPT ![w] = IF run[w].leave THEN [Idle EXCEPT !.pc = "off"] ELSE Idle]
  /\ \/ /\ Owns(w)
        /\ job' = [job EXCEPT ![j].status = run[w].end, ![j].lease = "none"]
        /\ Tell(j, "ended")
        /\ UNCHANGED spent
     \/ ~Owns(w) /\ UNCHANGED <<job, outbox, spent>>
     \/ Fault /\ UNCHANGED <<job, outbox>>
  /\ UNCHANGED <<blob, kicks, answering, write, sweep, written>>

-----------------------------------------------------------------------------
(* The people's calls: Answer and Cancel.                                   *)

Answer(j) ==
  /\ job[j].status = "running" /\ job[j].request = "pending"
  /\ job' = [job EXCEPT ![j].request = "answered"]
  /\ Tell(j, "answered")
  /\ answering' = answering \union {j}
  /\ UNCHANGED <<blob, kicks, write, sweep, run, written, spent>>

Answered(j) ==
  /\ j \in answering
  /\ answering' = answering \ {j}
  /\ Wake(OnAnswers)
  /\ UNCHANGED <<job, blob, outbox, kicks, write, sweep, written, spent>>

Cancel(j) ==
  /\ \/ /\ job[j].status = "queued"
        /\ job' = [job EXCEPT ![j].status = "cancelled"]
        /\ Tell(j, "ended")
     \/ /\ job[j].status = "running"
        /\ job' = [job EXCEPT ![j].cancel = TRUE]
        /\ UNCHANGED outbox
  /\ UNCHANGED <<blob, kicks, answering, write, sweep, run, written, spent>>

-----------------------------------------------------------------------------
(* Service.Sweep.                                                           *)

Lost(j) == job[j].status = "running" /\ job[j].lease = "lapsed"

Expired ==
  /\ sweep = {} /\ sweep' = {j \in Jobs : Lost(j)} /\ sweep' # {}
  /\ UNCHANGED <<job, blob, outbox, kicks, answering, write, run, written, spent>>

\* The job is checked again in its transaction: it may have been reported since Expired.
SweepJob(j) ==
  /\ j \in sweep
  /\ sweep' = sweep \ {j}
  /\ IF Lost(j)
     THEN /\ job' = [job EXCEPT ![j].status = IF job[j].cancel THEN "cancelled" ELSE "failed",
                                ![j].lease = "none"]
          /\ Tell(j, "ended")
     ELSE UNCHANGED <<job, outbox>>
  /\ UNCHANGED <<blob, kicks, answering, write, run, written, spent>>

\* The retention (days) is over; no call on the job is under way any more.
Purge(j) ==
  /\ Final(job[j].status) /\ write[j] = "none" /\ \A w \in Workers : run[w].job # j
  /\ j \notin sweep \union answering \union kicks
  /\ job' = [job EXCEPT ![j].status = "purged", ![j].size = 0]
  /\ blob' = [blob EXCEPT ![j] = 0]
  /\ UNCHANGED <<outbox, kicks, answering, write, sweep, run, written, spent>>

-----------------------------------------------------------------------------
(* Time and failures.                                                       *)

\* lease_until passes. A lease lapsing during a sweep lapses after the time the sweep compares with.
Lapse(j) ==
  /\ job[j].lease = "live" /\ j \notin sweep
  /\ job' = [job EXCEPT ![j].lease = "lapsed"]
  /\ IF \E w \in Workers : run[w].job = j /\ run[w].pc \in Working
     THEN spent.stalls < MaxStalls /\ spent' = [spent EXCEPT !.stalls = @ + 1]
     ELSE UNCHANGED spent
  /\ UNCHANGED <<blob, outbox, kicks, answering, write, sweep, run, written>>

\* The context of Worker.Run ends: the run is cancelled, no job is claimed any more.
Stop(w) ==
  /\ run[w].pc # "off" /\ ~run[w].leave /\ spent.stops < MaxStops
  /\ spent' = [spent EXCEPT !.stops = @ + 1]
  /\ run' = [run EXCEPT ![w] = IF run[w].pc \in Working \union {"over"}
                               THEN [run[w] EXCEPT !.leave = TRUE, !.stop = @ \/ run[w].pc # "over"]
                               ELSE [Idle EXCEPT !.pc = "off"]]
  /\ UNCHANGED <<job, blob, outbox, kicks, answering, write, sweep, written>>

Crash(w) ==
  /\ run[w].pc # "off" /\ spent.stops < MaxStops
  /\ spent' = [spent EXCEPT !.stops = @ + 1]
  /\ run' = [run EXCEPT ![w] = [Idle EXCEPT !.pc = "off"]]
  /\ UNCHANGED <<job, blob, outbox, kicks, answering, write, sweep, written>>

Start(w) ==
  /\ run[w].pc = "off"
  /\ run' = [run EXCEPT ![w] = Idle]
  /\ UNCHANGED <<job, blob, outbox, kicks, answering, write, sweep, written, spent>>

\* The job service restarts: the calls it was handling fail, its records stay.
RestartService ==
  /\ Fault
  /\ kicks' = {} /\ answering' = {} /\ sweep' = {} /\ write' = [j \in Jobs |-> "none"]
  /\ run' = [w \in Workers |->
               CASE run[w].pc \in {"claim", "looked", "parked"} -> Idle
                 [] run[w].pc \in {"writing", "await", "seen", "awaiting"} ->
                      [run[w] EXCEPT !.pc = "over", !.end = IF run[w].stop THEN "cancelled" ELSE "failed"]
                 [] OTHER -> run[w]]
  /\ UNCHANGED <<job, blob, outbox, written>>

-----------------------------------------------------------------------------
Serve(j) == Kick(j) \/ AppendBlob(j) \/ RecordSize(j) \/ Answered(j) \/ SweepJob(j)
Finish(w) == LeaveCall(w) \/ Await(w) \/ TakeAnswerWaiter(w) \/ EndReport(w)

Next ==
  \/ \E j \in Jobs : Create(j) \/ Serve(j) \/ Answer(j) \/ Cancel(j) \/ Purge(j) \/ Lapse(j)
  \/ \E w \in Workers : \/ TakeWaiter(w) \/ StoreClaim(w) \/ Park(w) \/ Unpark(w) \/ Heartbeat(w) \/ Return(w)
                        \/ WriteResult(w) \/ Ask(w) \/ Finish(w) \/ Stop(w) \/ Crash(w) \/ Start(w)
  \/ Expired \/ RestartService

Spec == Init /\ [][Next]_vars

(* Fairness: the service handles its calls and sweeps every few seconds,    *)
(* leases nobody renews lapse, a reporter ticks, a runner whose context is  *)
(* cancelled returns.  A worker need not come back, a person need not       *)
(* answer, a runner that is not cancelled need not end.                     *)
Fairness ==
  /\ \A j \in Jobs : WF_vars(Serve(j)) /\ WF_vars(Lapse(j))
  /\ WF_vars(Expired)
  /\ \A w \in Workers : /\ WF_vars(Heartbeat(w)) /\ WF_vars(run[w].stop /\ (LeaveCall(w) \/ Return(w)))
                        /\ WF_vars(Await(w)) /\ WF_vars(EndReport(w))

FairSpec == Spec /\ Fairness

-----------------------------------------------------------------------------
(* Properties.                                                              *)

\* The life of each job, and its events with it, whoever the calls that end it race with: the
\* last report of its worker, the sweep, a cancel, the answers of several windows.
Life == INSTANCE JobLife WITH status <- [j \in Jobs |-> job[j].status], events <- outbox
JobLives == Life!Spec

\* A claim never sleeps over a queued job, nor a run over its answer: while one waits on a channel
\* nobody closed, the call that closes it is still under way.
NoMissedWake == \A w \in Workers :
  /\ run[w].pc \in {"looked", "parked"} /\ ~run[w].woken /\ Queued # {} => kicks # {}
  /\ run[w].pc \in {"seen", "awaiting"} /\ ~run[w].woken /\ job[run[w].job].request = "answered" => answering # {}

\* The result of a job that is done is whole: every chunk its runner wrote, and the size the
\* record gives of it.
ResultWhole == \A j \in Jobs :
  job[j].status = "done" => blob[j] = written[j] /\ job[j].size = blob[j]

\* A running job somebody cancels ends, whatever becomes of its worker.
CancelEnds == \A j \in Jobs : job[j].status = "running" /\ job[j].cancel ~> job[j].status # "running"

\* A running job nobody runs (its worker is gone, its claim or its last report was lost) ends.
AbandonedEnds == \A j \in Jobs :
  job[j].status = "running" /\ (\A w \in Workers : run[w].job # j) ~> job[j].status # "running"

\* A runner whose job ended without it (swept while its worker was paused) is stopped.
LostRunStops == \A w \in Workers :
  (run[w].pc \in Working /\ ~Owns(w)) ~> run[w].pc \notin Working
=============================================================================
