--------------------------- MODULE JobQueue_proofs ---------------------------
(***************************************************************************)
(* Proofs about the jobs and their workers, for any jobs, workers and      *)
(* bounds: the types, no wake is missed, the result of a job that is done  *)
(* is whole, and the service implements the life of each job (JobLife).    *)
(***************************************************************************)
EXTENDS JobQueue, TLAPS

\* A worker has a job from the claim to the last report; that report has an end to tell.
HasJob == \A w \in Workers :
  /\ run[w].pc \in Working \union {"over"} <=> run[w].job # NoJob
  /\ run[w].pc = "over" => run[w].end # "none"

\* The job a worker runs is one it claimed: no other worker runs it.
OnItsOwn == \A w \in Workers : run[w].job # NoJob =>
  /\ job[run[w].job].worker = w
  /\ job[run[w].job].status \notin {"absent", "queued"}

\* A job nobody claimed yet has no request and no result.
Fresh == \A j \in Jobs : job[j].status \in {"absent", "queued"} =>
  /\ job[j].request = "none" /\ job[j].size = 0
  /\ blob[j] = 0 /\ written[j] = 0 /\ write[j] = "none"

\* No chunk is on its way, and the record, the blob and the runner agree on the chunks.
Whole(j) == write[j] = "none" /\ blob[j] = written[j] /\ job[j].size = blob[j]

\* The chunk the runner waits for is on its way.
OneAhead(j) == \/ write[j] = "checked" /\ blob[j] = written[j] /\ job[j].size = blob[j]
               \/ write[j] = "appended" /\ blob[j] = written[j] + 1

\* A runner that goes on, or returned nil, had all its chunks written; the write it waits for is one step ahead at most.
GoesOn(q) == q.pc \in Working \ {"writing"} \/ (q.pc = "over" /\ q.end = "done")
JobWrites(j) ==
  /\ write[j] = "checked" => blob[j] < MaxChunks
  /\ job[j].status = "done" => Whole(j)
RunWrites(w) == \A j \in Jobs : run[w].job = j =>
  /\ GoesOn(run[w]) => Whole(j)
  /\ run[w].pc = "writing" => OneAhead(j)
Writes == (\A j \in Jobs : JobWrites(j)) /\ (\A w \in Workers : RunWrites(w))

\* The request that waits for its answer is the last event of its job.
AskedLast == \A j \in Jobs :
  job[j].status = "running" /\ job[j].request = "pending" => Len(outbox[j]) > 0 /\ outbox[j][Len(outbox[j])] = "asked"

Inv == TypeOK /\ HasJob /\ OnItsOwn /\ Fresh /\ Writes /\ AskedLast

-----------------------------------------------------------------------------
(* Types.                                                                   *)

Records == [status : Statuses, worker : Workers \union {NoWorker}, cancel : BOOLEAN,
            lease : {"none", "live", "lapsed"}, size : 0..MaxChunks,
            request : {"none", "pending", "answered"}, asks : 0..MaxAsks]
Slots == [pc : Working \union {"off", "idle", "claim", "looked", "parked", "over"},
          job : Jobs \union {NoJob}, woken : BOOLEAN, stop : BOOLEAN,
          end : {"none", "done", "failed", "cancelled"}, leave : BOOLEAN]

LEMMA InitInv == Init => Inv
BY JobBounds, JobNames DEF Init, Inv, TypeOK, HasJob, OnItsOwn, Fresh, Writes, JobWrites, RunWrites, GoesOn, AskedLast, Absent, Idle, Whole, Working, Statuses, Jobs

\* What the actions write in a record and in a slot is of their types.
LEMMA RecordUpdates ==
  ASSUME NEW q \in Records
  PROVE  /\ \A s \in Statuses : /\ [q EXCEPT !.status = s] \in Records
                               /\ [q EXCEPT !.status = s, !.lease = "none"] \in Records
                               /\ [q EXCEPT !.status = s, !.size = 0] \in Records
         /\ \A w \in Workers : [q EXCEPT !.status = "running", !.worker = w, !.lease = "live"] \in Records
         /\ \A n \in 0..MaxChunks : [q EXCEPT !.size = n] \in Records
         /\ [q EXCEPT !.cancel = TRUE] \in Records
<1> USE JobBounds DEF Records
<1>1. ASSUME NEW s \in Statuses
      PROVE  /\ [q EXCEPT !.status = s] \in Records
             /\ [q EXCEPT !.status = s, !.lease = "none"] \in Records
             /\ [q EXCEPT !.status = s, !.size = 0] \in Records
  <2>1. 0 \in 0..MaxChunks
    OBVIOUS
  <2> QED BY <2>1
<1>2. \A w \in Workers : [q EXCEPT !.status = "running", !.worker = w, !.lease = "live"] \in Records
  BY DEF Statuses
<1>3. /\ \A n \in 0..MaxChunks : [q EXCEPT !.size = n] \in Records
      /\ [q EXCEPT !.cancel = TRUE] \in Records
  OBVIOUS
<1> QED BY <1>1, <1>2, <1>3, Zenon

LEMMA SlotUpdates ==
  /\ Idle \in Slots /\ [Idle EXCEPT !.pc = "off"] \in Slots
  /\ \A j \in Jobs : [Idle EXCEPT !.pc = "work", !.job = j] \in Slots
  /\ \A q \in Slots :
       /\ [q EXCEPT !.pc = "looked"] \in Slots /\ [q EXCEPT !.pc = "work"] \in Slots
       /\ \A s \in {"done", "failed", "cancelled"} : [q EXCEPT !.pc = "over", !.end = s] \in Slots
       /\ \A b \in BOOLEAN : [q EXCEPT !.stop = b] \in Slots /\ [q EXCEPT !.leave = TRUE, !.stop = b] \in Slots
<1> USE DEF Slots, Idle, Working
<1>1. Idle \in Slots /\ [Idle EXCEPT !.pc = "off"] \in Slots
  OBVIOUS
<1>2. \A j \in Jobs : [Idle EXCEPT !.pc = "work", !.job = j] \in Slots
  OBVIOUS
<1>3. ASSUME NEW q \in Slots
      PROVE  /\ [q EXCEPT !.pc = "looked"] \in Slots /\ [q EXCEPT !.pc = "work"] \in Slots
             /\ \A s \in {"done", "failed", "cancelled"} : [q EXCEPT !.pc = "over", !.end = s] \in Slots
             /\ \A b \in BOOLEAN : [q EXCEPT !.stop = b] \in Slots /\ [q EXCEPT !.leave = TRUE, !.stop = b] \in Slots
  <2>1. [q EXCEPT !.pc = "looked"] \in Slots /\ [q EXCEPT !.pc = "work"] \in Slots
    OBVIOUS
  <2>2. \A s \in {"done", "failed", "cancelled"} : [q EXCEPT !.pc = "over", !.end = s] \in Slots
    OBVIOUS
  <2>3. \A b \in BOOLEAN : [q EXCEPT !.stop = b] \in Slots /\ [q EXCEPT !.leave = TRUE, !.stop = b] \in Slots
    OBVIOUS
  <2> QED BY <2>1, <2>2, <2>3
<1> HIDE DEF Slots, Idle, Working
<1> QED BY <1>1, <1>2, <1>3

\* The end of a job leaves its worker.
LEMMA EndFields ==
  ASSUME NEW q \in Records, NEW s
  PROVE  LET e == [q EXCEPT !.status = s, !.lease = "none"] IN e.status = s /\ e.worker = q.worker
BY DEF Records

\* A call that fails ends the run of its runner.
LEMMA FailedCall ==
  ASSUME run \in [Workers -> Slots], NEW j \in Jobs, FailCall(j)
  PROVE  /\ run' \in [Workers -> Slots]
         /\ \A w \in Workers :
              \/ run'[w] = run[w] /\ ~(run[w].job = j /\ run[w].pc = "writing")
              \/ /\ run[w].job = j /\ run[w].pc = "writing" /\ run'[w].pc = "over"
                 /\ run'[w].end \in {"cancelled", "failed"} /\ run'[w].job = j
<1>1. run' \in [Workers -> Slots]
  BY SlotUpdates, Zenon DEF FailCall
<1>2. ASSUME NEW w \in Workers, run[w].job = j /\ run[w].pc = "writing"
      PROVE  run'[w].pc = "over" /\ run'[w].end \in {"cancelled", "failed"} /\ run'[w].job = j
  BY <1>2 DEF FailCall, Slots
<1>3. ASSUME NEW w \in Workers, ~(run[w].job = j /\ run[w].pc = "writing")
      PROVE  run'[w] = run[w]
  BY <1>3 DEF FailCall
<1> QED BY <1>1, <1>2, <1>3

\* The runner whose chunk is written goes on.
LEMMA ChunkWritten ==
  ASSUME run \in [Workers -> Slots], NEW j \in Jobs,
         run' = [w \in Workers |-> IF run[w].job = j /\ run[w].pc = "writing"
                                   THEN [run[w] EXCEPT !.pc = "work"] ELSE run[w]]
  PROVE  \A w \in Workers :
           \/ run'[w] = run[w] /\ ~(run[w].job = j /\ run[w].pc = "writing")
           \/ run[w].job = j /\ run[w].pc = "writing" /\ run'[w].pc = "work" /\ run'[w].job = j
<1>1. ASSUME NEW w \in Workers, run[w].job = j /\ run[w].pc = "writing"
      PROVE  run'[w].pc = "work" /\ run'[w].job = j
  BY <1>1 DEF Slots
<1>2. ASSUME NEW w \in Workers, ~(run[w].job = j /\ run[w].pc = "writing")
      PROVE  run'[w] = run[w]
  BY <1>2
<1> QED BY <1>1, <1>2

LEMMA RecordStep ==
  ASSUME Inv, Next
  PROVE  job' \in [Jobs -> Records]
<1> USE JobBounds, JobNames
<1> /\ job \in [Jobs -> Records] /\ blob \in [Jobs -> 0..MaxChunks]
  BY DEF Inv, TypeOK, Records
<1>1. ASSUME NEW j \in Jobs, RecordSize(j) PROVE job' \in [Jobs -> Records]
  <2>1. CASE job' = [job EXCEPT ![j].size = SizeAfter(j)]
    <3>1. SizeAfter(j) \in 0..MaxChunks /\ job[j] \in Records
      BY DEF SizeAfter
    <3>2. [job[j] EXCEPT !.size = SizeAfter(j)] \in Records
      BY <3>1, RecordUpdates
    <3> QED BY <2>1, <3>2
  <2> QED BY <1>1, <2>1 DEF RecordSize
<1>2. ASSUME NEW j \in Jobs, Create(j) \/ Cancel(j) \/ Purge(j) \/ SweepJob(j) PROVE job' \in [Jobs -> Records]
  <2>1. job[j] \in Records
    OBVIOUS
  <2>2. PICK q \in Records : job' = [job EXCEPT ![j] = q]
    <3>1. CASE Create(j)
      BY <2>1, <3>1, RecordUpdates, Zenon DEF Create, Statuses
    <3>2. CASE Cancel(j)
      BY <2>1, <3>2, RecordUpdates, Zenon DEF Cancel, Statuses
    <3>3. CASE Purge(j)
      BY <2>1, <3>3, RecordUpdates, Zenon DEF Purge, Statuses
    <3>4. CASE SweepJob(j)
      BY <2>1, <3>4, RecordUpdates, Zenon DEF SweepJob, Statuses
    <3> QED BY <1>2, <3>1, <3>2, <3>3, <3>4
  <2> QED BY <2>2
<1>3. ASSUME NEW j \in Jobs, Kick(j) \/ AppendBlob(j) \/ Answered(j) \/ Answer(j) \/ Lapse(j)
      PROVE job' \in [Jobs -> Records]
  BY <1>3 DEF Kick, AppendBlob, Answered, Answer, Lapse, Records
<1>4. ASSUME NEW w \in Workers, StoreClaim(w) PROVE job' \in [Jobs -> Records]
  <2>1. job' = job \/ \E j \in Jobs : job' = [job EXCEPT ![j] = Claimed(j, w)]
    BY <1>4 DEF StoreClaim, Queued
  <2>2. \A j \in Jobs : Claimed(j, w) \in Records
    BY RecordUpdates DEF Claimed
  <2> QED BY <2>1, <2>2
<1>5. ASSUME NEW w \in Workers, EndReport(w) PROVE job' \in [Jobs -> Records]
  <2>1. run[w].job \in Jobs /\ run[w].end \in Statuses
    BY <1>5 DEF EndReport, Inv, HasJob, TypeOK, Statuses
  <2>2. [job[run[w].job] EXCEPT !.status = run[w].end, !.lease = "none"] \in Records
    BY <2>1, RecordUpdates
  <2>3. \/ job' = job
        \/ job' = [job EXCEPT ![run[w].job] = [job[run[w].job] EXCEPT !.status = run[w].end, !.lease = "none"]]
    BY <1>5, <2>1 DEF EndReport
  <2> QED BY <2>2, <2>3
<1>6. ASSUME NEW w \in Workers, Heartbeat(w) \/ Ask(w) PROVE job' \in [Jobs -> Records]
  <2>1. CASE Heartbeat(w)
    BY <2>1 DEF Heartbeat, Records
  <2>2. CASE Ask(w)
    <3>1. run[w].job \in Jobs
      BY <2>2 DEF Ask, Inv, HasJob, TypeOK, Working
    <3>2. CASE job' = job BY <3>2
    <3>3. CASE job[run[w].job].asks < MaxAsks /\
               job' = [job EXCEPT ![run[w].job] = [job[run[w].job] EXCEPT !.request = "pending", !.asks = @ + 1, !.lease = "live"]]
      <4>1. [job[run[w].job] EXCEPT !.request = "pending", !.asks = @ + 1, !.lease = "live"] \in Records
        <5>1. job[run[w].job] \in Records /\ job[run[w].job].asks + 1 \in 0..MaxAsks
          BY <3>1, <3>3 DEF Records
        <5> QED BY <5>1 DEF Records
      <4> QED BY <3>3, <4>1
    <3> QED BY <2>2, <3>1, <3>2, <3>3 DEF Ask
  <2> QED BY <1>6, <2>1, <2>2
<1>7. ASSUME NEW w \in Workers, \/ TakeWaiter(w) \/ Park(w) \/ Unpark(w) \/ Return(w) \/ WriteResult(w) \/ LeaveCall(w)
                                \/ Await(w) \/ TakeAnswerWaiter(w) \/ Stop(w) \/ Crash(w) \/ Start(w)
      PROVE job' = job
  BY <1>7 DEF TakeWaiter, Park, Unpark, Return, WriteResult, LeaveCall, Await, TakeAnswerWaiter, Stop, Crash, Start
<1>8. CASE Expired \/ RestartService
  BY <1>8 DEF Expired, RestartService
<1> QED BY <1>1, <1>2, <1>3, <1>4, <1>5, <1>6, <1>7, <1>8 DEF Next, Serve, Finish

LEMMA SlotStep ==
  ASSUME Inv, Next
  PROVE  run' \in [Workers -> Slots]
<1> USE JobBounds, JobNames
<1> run \in [Workers -> Slots]
  BY DEF Inv, TypeOK, Slots
<1>1. ASSUME NEW j \in Jobs, Kick(j) \/ Answered(j) PROVE run' \in [Workers -> Slots]
  <2>1. PICK ws : run' = [v \in Workers |-> [run[v] EXCEPT !.woken = @ \/ v \in ws]]
    BY <1>1 DEF Kick, Answered, Wake
  <2>2. ASSUME NEW v \in Workers PROVE [run[v] EXCEPT !.woken = @ \/ v \in ws] \in Slots
    BY DEF Slots
  <2> QED BY <2>1, <2>2
<1>2. ASSUME NEW j \in Jobs, AppendBlob(j) \/ RecordSize(j) PROVE run' \in [Workers -> Slots]
  <2>1. CASE FailCall(j)
    BY <2>1, FailedCall
  <2>2. CASE run' = [w \in Workers |-> IF run[w].job = j /\ run[w].pc = "writing"
                                      THEN [run[w] EXCEPT !.pc = "work"] ELSE run[w]]
    <3>1. \A w \in Workers : [run[w] EXCEPT !.pc = "work"] \in Slots
      BY SlotUpdates
    <3> QED BY <2>2, <3>1
  <2>3. CASE run' = run
    BY <2>3
  <2> QED BY <1>2, <2>1, <2>2, <2>3 DEF AppendBlob, RecordSize
<1>3. ASSUME NEW w \in Workers, StoreClaim(w) PROVE run' \in [Workers -> Slots]
  <2>1. run[w] \in Slots
    OBVIOUS
  <2>2. \/ run' = [run EXCEPT ![w] = [run[w] EXCEPT !.pc = "looked"]] \/ run' = [run EXCEPT ![w] = Idle]
        \/ \E j \in Jobs : run' = [run EXCEPT ![w] = [Idle EXCEPT !.pc = "work", !.job = j]]
    BY <1>3, <2>1 DEF StoreClaim, Goto, Queued
  <2> QED BY <2>1, <2>2, SlotUpdates, Zenon
<1>4. ASSUME NEW w \in Workers, Heartbeat(w) PROVE run' \in [Workers -> Slots]
  <2>1. PICK b \in BOOLEAN : run' = [run EXCEPT ![w].stop = b] \/ run' = run
    BY <1>4, Zenon DEF Heartbeat, Slots
  <2>2. [run[w] EXCEPT !.stop = b] \in Slots
    BY SlotUpdates, Zenon
  <2> QED BY <2>1, <2>2
<1>5. ASSUME NEW w \in Workers, Return(w) \/ LeaveCall(w) PROVE run' \in [Workers -> Slots]
  <2>1. PICK s \in {"done", "failed", "cancelled"} : run' = [run EXCEPT ![w] = [run[w] EXCEPT !.pc = "over", !.end = s]]
    BY <1>5, Zenon DEF Return, LeaveCall, Over, Failing
  <2>2. [run[w] EXCEPT !.pc = "over", !.end = s] \in Slots
    BY SlotUpdates, Zenon
  <2> QED BY <2>1, <2>2
<1>6. ASSUME NEW w \in Workers, WriteResult(w) \/ Ask(w) \/ Await(w) PROVE run' \in [Workers -> Slots]
  <2>1. CASE Failing(w)
    BY <2>1, SlotUpdates DEF Failing, Over
  <2>2. CASE \E l \in {"writing", "asked", "seen", "work"} : Goto(w, l)
    BY <2>2 DEF Goto, Slots, Working
  <2> QED BY <1>6, <2>1, <2>2 DEF WriteResult, Ask, Await
<1>7. ASSUME NEW w \in Workers, TakeWaiter(w) \/ Park(w) \/ TakeAnswerWaiter(w) PROVE run' \in [Workers -> Slots]
  BY <1>7 DEF TakeWaiter, Park, TakeAnswerWaiter, Goto, Slots, Working
<1>8. ASSUME NEW w \in Workers, Unpark(w) \/ EndReport(w) \/ Crash(w) \/ Start(w) PROVE run' \in [Workers -> Slots]
  BY <1>8, SlotUpdates DEF Unpark, EndReport, Crash, Start
<1>9. ASSUME NEW w \in Workers, Stop(w) PROVE run' \in [Workers -> Slots]
  <2>1. PICK b \in BOOLEAN : \/ run' = [run EXCEPT ![w] = [run[w] EXCEPT !.leave = TRUE, !.stop = b]]
                             \/ run' = [run EXCEPT ![w] = [Idle EXCEPT !.pc = "off"]]
    BY <1>9 DEF Stop, Slots
  <2>2. [run[w] EXCEPT !.leave = TRUE, !.stop = b] \in Slots /\ [Idle EXCEPT !.pc = "off"] \in Slots
    BY SlotUpdates, Zenon
  <2> QED BY <2>1, <2>2
<1>10. CASE RestartService
  <2>1. ASSUME NEW w \in Workers
        PROVE  run'[w] \in {Idle, run[w]} \union {[run[w] EXCEPT !.pc = "over", !.end = s] : s \in {"cancelled", "failed"}}
    BY <1>10 DEF RestartService
  <2>2. ASSUME NEW w \in Workers PROVE run'[w] \in Slots
    <3>1. run[w] \in Slots
      OBVIOUS
    <3>2. \A s \in {"cancelled", "failed"} : [run[w] EXCEPT !.pc = "over", !.end = s] \in Slots
      BY <3>1, SlotUpdates, Zenon
    <3> QED BY <2>1, <3>1, <3>2, SlotUpdates, Zenon
  <2> QED BY <1>10, <2>2 DEF RestartService
<1>11. ASSUME NEW j \in Jobs, Create(j) \/ SweepJob(j) \/ Answer(j) \/ Cancel(j) \/ Purge(j) \/ Lapse(j) PROVE run' = run
  BY <1>11 DEF Create, SweepJob, Answer, Cancel, Purge, Lapse
<1>12. CASE Expired
  BY <1>12 DEF Expired
<1> QED BY <1>1, <1>2, <1>3, <1>4, <1>5, <1>6, <1>7, <1>8, <1>9, <1>10, <1>11, <1>12 DEF Next, Serve, Finish

\* The other variables.
RestTypes ==
  /\ blob \in [Jobs -> 0..MaxChunks] /\ written \in [Jobs -> 0..MaxChunks]
  /\ write \in [Jobs -> {"none", "checked", "appended"}]
  /\ kicks \subseteq Jobs /\ answering \subseteq Jobs /\ sweep \subseteq Jobs
  /\ outbox \in [Jobs -> Seq({"created", "started", "asked", "answered", "ended"})]
  /\ spent \in [stops : 0..MaxStops, stalls : 0..MaxStalls, faults : 0..MaxFaults]

LEMMA EventTypes ==
  ASSUME RestTypes, NEW j \in Jobs, NEW e \in {"created", "started", "asked", "answered", "ended"}, Tell(j, e)
  PROVE  outbox' \in [Jobs -> Seq({"created", "started", "asked", "answered", "ended"})]
BY DEF RestTypes, Tell

LEMMA SpentTypes ==
  ASSUME RestTypes,
         \/ UNCHANGED spent \/ Fault
         \/ spent.stops < MaxStops /\ spent' = [spent EXCEPT !.stops = @ + 1]
         \/ spent.stalls < MaxStalls /\ spent' = [spent EXCEPT !.stalls = @ + 1]
  PROVE  spent' \in [stops : 0..MaxStops, stalls : 0..MaxStalls, faults : 0..MaxFaults]
<1>1. spent \in [stops : 0..MaxStops, stalls : 0..MaxStalls, faults : 0..MaxFaults]
  BY DEF RestTypes
<1>2. CASE UNCHANGED spent
  BY <1>1, <1>2
<1>3. CASE Fault
  BY <1>1, <1>3, JobBounds DEF Fault
<1>4. CASE spent.stops < MaxStops /\ spent' = [spent EXCEPT !.stops = @ + 1]
  BY <1>1, <1>4, JobBounds
<1>5. CASE spent.stalls < MaxStalls /\ spent' = [spent EXCEPT !.stalls = @ + 1]
  BY <1>1, <1>5, JobBounds
<1> QED BY <1>2, <1>3, <1>4, <1>5

LEMMA RestStep ==
  ASSUME Inv, Next
  PROVE  RestTypes'
<1> RestTypes
  BY DEF Inv, TypeOK, RestTypes
<1>1. ASSUME NEW j \in Jobs, Create(j) \/ SweepJob(j) \/ Answer(j) \/ Cancel(j) PROVE RestTypes'
  BY <1>1, EventTypes DEF Create, SweepJob, Answer, Cancel, RestTypes
<1>2. ASSUME NEW j \in Jobs, Kick(j) \/ Answered(j) PROVE RestTypes'
  BY <1>2 DEF Kick, Answered, RestTypes
<1>3. ASSUME NEW j \in Jobs, AppendBlob(j) PROVE RestTypes'
  <2>1. write[j] = "checked" /\ blob[j] + 1 \in 0..MaxChunks
    BY <1>3, JobBounds DEF AppendBlob, Inv, Writes, JobWrites, RestTypes
  <2>2. /\ blob' = blob \/ blob' = [blob EXCEPT ![j] = @ + 1]
        /\ \E l \in {"none", "appended"} : write' = [write EXCEPT ![j] = l]
        /\ Fault \/ UNCHANGED spent
        /\ UNCHANGED <<outbox, kicks, answering, sweep, written>>
    BY <1>3 DEF AppendBlob, FailCall
  <2>3. spent' \in [stops : 0..MaxStops, stalls : 0..MaxStalls, faults : 0..MaxFaults]
    BY <2>2, SpentTypes
  <2>4. blob' \in [Jobs -> 0..MaxChunks]
    BY <2>1, <2>2 DEF RestTypes
  <2>5. write' \in [Jobs -> {"none", "checked", "appended"}]
    BY <2>2 DEF RestTypes
  <2> QED BY <2>2, <2>3, <2>4, <2>5 DEF RestTypes
<1>4. ASSUME NEW j \in Jobs, RecordSize(j) PROVE RestTypes'
  <2>1. Waits(j) => written[j] + 1 \in 0..MaxChunks
    <3>1. Waits(j) => OneAhead(j)
      BY DEF Inv, Writes, RunWrites, Waits
    <3>2. blob[j] \in 0..MaxChunks /\ written[j] \in 0..MaxChunks /\ write[j] = "appended"
      BY <1>4 DEF RecordSize, RestTypes
    <3> QED BY <3>1, <3>2, JobBounds DEF OneAhead
  <2>2. /\ \/ written' = written
           \/ written' = [written EXCEPT ![j] = IF Waits(j) THEN @ + 1 ELSE @]
        /\ write' = [write EXCEPT ![j] = "none"]
        /\ Fault \/ UNCHANGED spent
        /\ UNCHANGED <<blob, outbox, kicks, answering, sweep>>
    BY <1>4 DEF RecordSize, FailCall
  <2>3. spent' \in [stops : 0..MaxStops, stalls : 0..MaxStalls, faults : 0..MaxFaults]
    BY <2>2, SpentTypes
  <2>4. written' \in [Jobs -> 0..MaxChunks]
    <3>1. (IF Waits(j) THEN written[j] + 1 ELSE written[j]) \in 0..MaxChunks
      BY <2>1 DEF RestTypes
    <3> QED BY <2>2, <3>1 DEF RestTypes
  <2>5. write' \in [Jobs -> {"none", "checked", "appended"}]
    BY <2>2 DEF RestTypes
  <2> QED BY <2>2, <2>3, <2>4, <2>5 DEF RestTypes
<1>5. ASSUME NEW j \in Jobs, Purge(j) PROVE RestTypes'
  <2>1. 0 \in 0..MaxChunks
    BY JobBounds
  <2> QED BY <1>5, <2>1 DEF Purge, RestTypes
<1>6. ASSUME NEW j \in Jobs, Lapse(j) PROVE RestTypes'
  BY <1>6, SpentTypes DEF Lapse, RestTypes
<1>7. ASSUME NEW w \in Workers, StoreClaim(w) PROVE RestTypes'
  <2>1. /\ outbox' = outbox \/ \E j \in Jobs : Tell(j, "started")
        /\ Fault \/ UNCHANGED spent
        /\ UNCHANGED <<blob, kicks, answering, write, sweep, written>>
    BY <1>7 DEF StoreClaim, Queued
  <2> QED BY <2>1, EventTypes, SpentTypes DEF RestTypes
<1>8. ASSUME NEW w \in Workers, Ask(w) \/ EndReport(w) \/ WriteResult(w) PROVE RestTypes'
  <2>1. run[w].job \in Jobs
    BY <1>8 DEF Ask, EndReport, WriteResult, Inv, HasJob, TypeOK, Working
  <2>2. /\ outbox' = outbox \/ \E e \in {"asked", "ended"} : Tell(run[w].job, e)
        /\ Fault \/ UNCHANGED spent
        /\ write' = write \/ write' = [write EXCEPT ![run[w].job] = "checked"]
        /\ UNCHANGED <<blob, kicks, answering, sweep, written>>
    BY <1>8 DEF Ask, EndReport, WriteResult
  <2>3. outbox' \in [Jobs -> Seq({"created", "started", "asked", "answered", "ended"})]
    BY <2>1, <2>2, EventTypes DEF RestTypes
  <2>4. write' \in [Jobs -> {"none", "checked", "appended"}]
    BY <2>1, <2>2 DEF RestTypes
  <2> QED BY <2>2, <2>3, <2>4, SpentTypes DEF RestTypes
<1>9. ASSUME NEW w \in Workers, Heartbeat(w) PROVE RestTypes'
  BY <1>9, SpentTypes DEF Heartbeat, RestTypes
<1>10. ASSUME NEW w \in Workers, Stop(w) \/ Crash(w) PROVE RestTypes'
  BY <1>10, SpentTypes DEF Stop, Crash, RestTypes
<1>11. ASSUME NEW w \in Workers, \/ TakeWaiter(w) \/ Park(w) \/ Unpark(w) \/ Return(w) \/ LeaveCall(w)
                                 \/ Await(w) \/ TakeAnswerWaiter(w) \/ Start(w)
       PROVE RestTypes'
  BY <1>11 DEF TakeWaiter, Park, Unpark, Return, LeaveCall, Await, TakeAnswerWaiter, Start, RestTypes
<1>12. CASE Expired
  BY <1>12 DEF Expired, RestTypes
<1>13. CASE RestartService
  BY <1>13, SpentTypes DEF RestartService, RestTypes
<1> QED BY <1>1, <1>2, <1>3, <1>4, <1>5, <1>6, <1>7, <1>8, <1>9, <1>10, <1>11, <1>12, <1>13 DEF Next, Serve, Finish

LEMMA TypeStep == Inv /\ Next => TypeOK'
BY RecordStep, SlotStep, RestStep DEF TypeOK, RestTypes, Records, Slots

-----------------------------------------------------------------------------
(* The strengthening.                                                       *)

\* A worker gets a job by a claim alone, and a job claimed stays with its worker.
ClaimsAlone ==
  /\ \A w \in Workers : \/ run'[w].job \in {run[w].job, NoJob}
                        \/ LET j == run'[w].job IN
                           /\ j \in Jobs /\ job[j].status = "queued"
                           /\ job'[j].status = "running" /\ job'[j].worker = w
  /\ \A j \in Jobs : job[j].status \notin {"absent", "queued"} =>
        job'[j].status \notin {"absent", "queued"} /\ job'[j].worker = job[j].worker

LEMMA Claims == Inv /\ Next => ClaimsAlone
<1> SUFFICES ASSUME Inv, Next PROVE ClaimsAlone
  OBVIOUS
<1> USE JobBounds, JobNames
<1> job \in [Jobs -> Records] /\ run \in [Workers -> Slots]
  BY DEF Inv, TypeOK, Records, Slots
<1>0. ASSUME \A v \in Workers : run'[v].job \in {run[v].job, NoJob},
             \A j \in Jobs : job[j].status \notin {"absent", "queued"} =>
                            job'[j].status \notin {"absent", "queued"} /\ job'[j].worker = job[j].worker
      PROVE  ClaimsAlone
  BY <1>0 DEF ClaimsAlone
<1>i. Idle.job = NoJob /\ [Idle EXCEPT !.pc = "off"].job = NoJob
  BY DEF Idle
<1>g. ASSUME NEW w \in Workers, NEW l, Goto(w, l) PROVE \A v \in Workers : run'[v].job = run[v].job
  BY <1>g DEF Goto, Slots
<1>o. ASSUME NEW w \in Workers, NEW s, Over(w, s) PROVE \A v \in Workers : run'[v].job = run[v].job
  BY <1>o DEF Over, Slots
<1>6. ASSUME NEW w \in Workers, EndReport(w) PROVE ClaimsAlone
  <2>1. \A v \in Workers : run'[v].job \in {run[v].job, NoJob}
    BY <1>6, <1>i DEF EndReport
  <2>2. run[w].job \in Jobs /\ run[w].end \in {"done", "failed", "cancelled"}
    BY <1>6 DEF EndReport, Inv, TypeOK, HasJob
  <2>3. job' = job \/ job' = [job EXCEPT ![run[w].job] = [job[run[w].job] EXCEPT !.status = run[w].end, !.lease = "none"]]
    BY <1>6 DEF EndReport
  <2>4. ASSUME NEW j \in Jobs PROVE job'[j] = job[j] \/ (job'[j].status = run[w].end /\ job'[j].worker = job[j].worker)
    <3>1. CASE job' = job BY <3>1
    <3>2. CASE job' = [job EXCEPT ![run[w].job] = [job[run[w].job] EXCEPT !.status = run[w].end, !.lease = "none"]]
      <4>1. CASE j = run[w].job BY <2>2, <3>2, <4>1, EndFields
      <4>2. CASE j # run[w].job BY <3>2, <4>2
      <4> QED BY <4>1, <4>2
    <3> QED BY <2>3, <3>1, <3>2
  <2> QED BY <1>0, <2>1, <2>2, <2>4
<1>8. ASSUME NEW w \in Workers, TakeWaiter(w) \/ Park(w) \/ Unpark(w) \/ Return(w) \/ LeaveCall(w) PROVE ClaimsAlone
  <2>1. job' = job
    BY <1>8 DEF TakeWaiter, Park, Unpark, Return, LeaveCall
  <2>2. CASE TakeWaiter(w)
    <3>1. \A v \in Workers : run'[v].job = run[v].job
      BY <2>2 DEF TakeWaiter, Slots
    <3> QED BY <1>0, <2>1, <3>1
  <2>3. CASE Park(w) \/ Return(w) \/ LeaveCall(w)
    BY <1>0, <1>g, <1>o, <2>1, <2>3 DEF Park, Return, LeaveCall, Failing
  <2>4. CASE Unpark(w)
    BY <1>0, <1>i, <2>1, <2>4 DEF Unpark
  <2> QED BY <1>8, <2>2, <2>3, <2>4
<1>9. ASSUME NEW w \in Workers, Await(w) \/ TakeAnswerWaiter(w) PROVE ClaimsAlone
  <2>1. job' = job
    BY <1>9 DEF Await, TakeAnswerWaiter
  <2>2. CASE Await(w)
    BY <1>0, <1>g, <1>o, <2>1, <2>2 DEF Await, Failing
  <2>3. CASE TakeAnswerWaiter(w)
    <3>1. \A v \in Workers : run'[v].job = run[v].job
      BY <2>3 DEF TakeAnswerWaiter, Slots
    <3> QED BY <1>0, <2>1, <3>1
  <2> QED BY <1>9, <2>2, <2>3
<1>7. ASSUME NEW w \in Workers, Heartbeat(w) \/ Ask(w) \/ WriteResult(w) PROVE ClaimsAlone
  <2>1. \A v \in Workers : run'[v].job = run[v].job
    <3>1. CASE Heartbeat(w)
      BY <3>1 DEF Heartbeat, Slots
    <3>2. CASE Ask(w) \/ WriteResult(w)
      BY <1>g, <1>o, <3>2 DEF Ask, WriteResult, Failing
    <3> QED BY <1>7, <3>1, <3>2
  <2>2. \A j \in Jobs : job'[j].status = job[j].status /\ job'[j].worker = job[j].worker
    <3>1. CASE Heartbeat(w)
      BY <3>1 DEF Heartbeat, Records
    <3>2. CASE Ask(w)
      BY <3>2 DEF Ask, Records
    <3>3. CASE WriteResult(w)
      BY <3>3 DEF WriteResult
    <3> QED BY <1>7, <3>1, <3>2, <3>3
  <2> QED BY <1>0, <2>1, <2>2
<1> USE DEF Slots, Records, ClaimsAlone
<1>1. ASSUME NEW j \in Jobs, Create(j) \/ Answer(j) \/ Cancel(j) \/ Purge(j) \/ Lapse(j) PROVE ClaimsAlone
  BY <1>1 DEF Create, Answer, Cancel, Purge, Lapse
<1>2. ASSUME NEW j \in Jobs, SweepJob(j) PROVE ClaimsAlone
  BY <1>2 DEF SweepJob
<1>3. ASSUME NEW j \in Jobs, Kick(j) \/ Answered(j) PROVE ClaimsAlone
  BY <1>3 DEF Kick, Answered, Wake
<1>4. ASSUME NEW j \in Jobs, AppendBlob(j) \/ RecordSize(j) PROVE ClaimsAlone
  <2>1. \A v \in Workers : run'[v].job = run[v].job
    BY <1>4, FailedCall, ChunkWritten DEF AppendBlob, RecordSize
  <2>2. job' = job \/ job' = [job EXCEPT ![j].size = SizeAfter(j)]
    BY <1>4 DEF AppendBlob, RecordSize
  <2> QED BY <2>1, <2>2
<1>5. ASSUME NEW w \in Workers, StoreClaim(w) PROVE ClaimsAlone
  <2>1. CASE Goto(w, "looked") /\ job' = job
    BY <2>1 DEF Goto
  <2>2. ASSUME NEW j \in Jobs, job[j].status = "queued", job' = [job EXCEPT ![j] = Claimed(j, w)],
               run' = [run EXCEPT ![w] = Idle] \/ run' = [run EXCEPT ![w] = [Idle EXCEPT !.pc = "work", !.job = j]]
        PROVE  ClaimsAlone
    <3>1. /\ job'[j].status = "running" /\ job'[j].worker = w
          /\ \A i \in Jobs \ {j} : job'[i] = job[i]
      BY <2>2 DEF Claimed
    <3>2. run'[w] \in {Idle, [Idle EXCEPT !.pc = "work", !.job = j]} /\ \A v \in Workers \ {w} : run'[v] = run[v]
      BY <2>2
    <3>3. Idle.job = NoJob /\ [Idle EXCEPT !.pc = "work", !.job = j].job = j
      BY DEF Idle
    <3> QED BY <2>2, <3>1, <3>2, <3>3
  <2> QED BY <1>5, <2>1, <2>2 DEF StoreClaim, Queued
<1>10. ASSUME NEW w \in Workers, Stop(w) \/ Crash(w) \/ Start(w) PROVE ClaimsAlone
  <2>1. job' = job /\ \A v \in Workers : run'[v].job \in {run[v].job, NoJob}
    <3>1. CASE Stop(w)
      BY <3>1 DEF Stop, Idle
    <3>2. CASE Crash(w) \/ Start(w)
      BY <3>2 DEF Crash, Start, Idle
    <3> QED BY <1>10, <3>1, <3>2
  <2> QED BY <2>1
<1>11. CASE Expired
  BY <1>11 DEF Expired
<1>12. CASE RestartService
  <2>1. job' = job /\ \A v \in Workers : run'[v].job \in {run[v].job, NoJob}
    BY <1>12 DEF RestartService, Idle
  <2> QED BY <2>1
<1> QED BY <1>1, <1>2, <1>3, <1>4, <1>5, <1>6, <1>7, <1>8, <1>9, <1>10, <1>11, <1>12 DEF Next, Serve, Finish

LEMMA OnItsOwnStep == Inv /\ Next => OnItsOwn'
<1> SUFFICES ASSUME Inv, Next, NEW w \in Workers, run'[w].job # NoJob
             PROVE  job'[run'[w].job].worker = w /\ job'[run'[w].job].status \notin {"absent", "queued"}
  BY DEF OnItsOwn
<1>1. ClaimsAlone
  BY Claims
<1>2. CASE run'[w].job = run[w].job
  <2>1. run[w].job \in Jobs
    BY <1>2 DEF Inv, TypeOK
  <2> QED BY <1>1, <1>2, <2>1 DEF ClaimsAlone, Inv, OnItsOwn
<1>3. CASE run'[w].job # run[w].job
  BY <1>1, <1>3 DEF ClaimsAlone
<1> QED BY <1>2, <1>3

LEMMA HasJobStep == Inv /\ Next => HasJob'
<1> SUFFICES ASSUME Inv, Next PROVE HasJob'
  OBVIOUS
<1> run \in [Workers -> Slots]
  BY DEF Inv, TypeOK, Slots
<1> HasJob
  BY DEF Inv
<1> USE JobNames DEF HasJob, Working
<1>1. ASSUME NEW j \in Jobs, Kick(j) \/ Answered(j) PROVE HasJob'
  <2>1. PICK ws : run' = [v \in Workers |-> [run[v] EXCEPT !.woken = @ \/ v \in ws]]
    BY <1>1 DEF Kick, Answered, Wake
  <2>2. \A v \in Workers : run'[v].pc = run[v].pc /\ run'[v].job = run[v].job /\ run'[v].end = run[v].end
    BY <2>1 DEF Slots
  <2> QED BY <2>2
<1>2. ASSUME NEW j \in Jobs, AppendBlob(j) PROVE HasJob'
  BY <1>2, FailedCall DEF AppendBlob
<1>3. ASSUME NEW j \in Jobs, RecordSize(j) PROVE HasJob'
  BY <1>3, FailedCall, ChunkWritten DEF RecordSize
<1>4. ASSUME NEW w \in Workers, StoreClaim(w) PROVE HasJob'
  <2>1. /\ run[w].pc = "claim"
        /\ \/ run' = [run EXCEPT ![w].pc = "looked"] \/ run' = [run EXCEPT ![w] = Idle]
           \/ \E j \in Jobs : run' = [run EXCEPT ![w] = [Idle EXCEPT !.pc = "work", !.job = j]]
    BY <1>4 DEF StoreClaim, Goto, Queued
  <2>2. \A j \in Jobs : j # NoJob
    BY DEF Jobs
  <2>3. CASE run' = [run EXCEPT ![w].pc = "looked"]
    BY <2>1, <2>3 DEF Slots
  <2>4. CASE run' = [run EXCEPT ![w] = Idle]
    BY <2>4 DEF Idle
  <2>5. ASSUME NEW j \in Jobs, run' = [run EXCEPT ![w] = [Idle EXCEPT !.pc = "work", !.job = j]] PROVE HasJob'
    BY <2>2, <2>5 DEF Idle
  <2> QED BY <2>1, <2>3, <2>4, <2>5
<1>5. ASSUME NEW w \in Workers, Heartbeat(w) PROVE HasJob'
  BY <1>5 DEF Heartbeat, Slots
<1>6. ASSUME NEW w \in Workers, Return(w) \/ LeaveCall(w) PROVE HasJob'
  BY <1>6 DEF Return, LeaveCall, Over, Failing, Slots
<1>7. ASSUME NEW w \in Workers, WriteResult(w) \/ Ask(w) \/ Await(w) PROVE HasJob'
  BY <1>7 DEF WriteResult, Ask, Await, Over, Failing, Goto, Slots
<1>8. ASSUME NEW w \in Workers, TakeWaiter(w) \/ Park(w) \/ TakeAnswerWaiter(w) PROVE HasJob'
  BY <1>8 DEF TakeWaiter, Park, TakeAnswerWaiter, Goto, Slots
<1>9. ASSUME NEW w \in Workers, Unpark(w) \/ EndReport(w) \/ Crash(w) \/ Start(w) PROVE HasJob'
  <2>1. \E q \in {Idle, [Idle EXCEPT !.pc = "off"]} : run' = [run EXCEPT ![w] = q]
    BY <1>9 DEF Unpark, EndReport, Crash, Start
  <2> QED BY <2>1 DEF Idle
<1>10. ASSUME NEW w \in Workers, Stop(w) PROVE HasJob'
  <2>1. CASE run[w].pc \in Working \union {"over"}
    BY <1>10, <2>1 DEF Stop, Slots
  <2>2. CASE run[w].pc \notin Working \union {"over"}
    BY <1>10, <2>2 DEF Stop, Idle
  <2> QED BY <2>1, <2>2
<1>11. CASE RestartService
  <2>1. ASSUME NEW w \in Workers
        PROVE  \/ run'[w] = Idle \/ run'[w] = run[w]
               \/ run[w].pc \in Working /\ \E s \in {"cancelled", "failed"} : run'[w] = [run[w] EXCEPT !.pc = "over", !.end = s]
    BY <1>11 DEF RestartService
  <2>2. Idle.pc = "idle" /\ Idle.job = NoJob
    BY DEF Idle
  <2>3. ASSUME NEW w \in Workers, NEW s \in {"cancelled", "failed"}, run'[w] = [run[w] EXCEPT !.pc = "over", !.end = s]
        PROVE  run'[w].pc = "over" /\ run'[w].end = s /\ run'[w].job = run[w].job
    <3>1. run[w] \in Slots
      OBVIOUS
    <3> QED BY <2>3, <3>1 DEF Slots
  <2>4. ASSUME NEW w \in Workers
        PROVE  /\ run'[w].pc \in Working \union {"over"} <=> run'[w].job # NoJob
               /\ run'[w].pc = "over" => run'[w].end # "none"
    <3>1. CASE run'[w] \in {Idle, run[w]}
      BY <2>2, <3>1
    <3>2. CASE run'[w] \notin {Idle, run[w]}
      BY <2>1, <2>3, <3>2
    <3> QED BY <3>1, <3>2
  <2> QED BY <2>4
<1>12. CASE UNCHANGED run
  BY <1>12
<1>13. ASSUME NEW j \in Jobs, Create(j) \/ SweepJob(j) \/ Answer(j) \/ Cancel(j) \/ Purge(j) \/ Lapse(j) PROVE UNCHANGED run
  BY <1>13 DEF Create, SweepJob, Answer, Cancel, Purge, Lapse
<1>14. Expired => UNCHANGED run
  BY DEF Expired
<1> QED BY <1>1, <1>2, <1>3, <1>4, <1>5, <1>6, <1>7, <1>8, <1>9, <1>10, <1>11, <1>12, <1>13, <1>14 DEF Next, Serve, Finish

LEMMA FreshStep == Inv /\ Next => Fresh'
<1> SUFFICES ASSUME Inv, Next, NEW i \in Jobs, job'[i].status \in {"absent", "queued"}
             PROVE  /\ job'[i].request = "none" /\ job'[i].size = 0
                    /\ blob'[i] = 0 /\ written'[i] = 0 /\ write'[i] = "none"
  BY DEF Fresh
<1> DEFINE Same == /\ UNCHANGED <<blob[i], written[i], write[i]>>
                   /\ job'[i].request = job[i].request /\ job'[i].size = job[i].size
<1>1. job[i].status \in {"absent", "queued"}
  BY Claims DEF ClaimsAlone
<1>2. /\ job[i].request = "none" /\ job[i].size = 0 /\ blob[i] = 0 /\ written[i] = 0 /\ write[i] = "none"
  BY <1>1 DEF Inv, Fresh
<1>3. \A w \in Workers : run[w].job # i
  <2>1. i # NoJob
    BY JobNames DEF Jobs
  <2> QED BY <1>1, <2>1 DEF Inv, OnItsOwn
<1>4. /\ job \in [Jobs -> Records] /\ blob \in [Jobs -> 0..MaxChunks] /\ written \in [Jobs -> 0..MaxChunks]
      /\ write \in [Jobs -> {"none", "checked", "appended"}]
  BY DEF Inv, TypeOK, Records
<1> USE <1>1, <1>2, <1>3, <1>4 DEF Records
<1>5. ASSUME NEW j \in Jobs, Create(j) \/ Cancel(j) \/ SweepJob(j) \/ Lapse(j) PROVE Same
  BY <1>5 DEF Create, Cancel, SweepJob, Lapse
<1>6. ASSUME NEW j \in Jobs, Kick(j) \/ Answered(j) \/ Answer(j) PROVE Same
  BY <1>6 DEF Kick, Answered, Answer
<1>7. ASSUME NEW j \in Jobs, Purge(j) PROVE Same
  BY <1>7 DEF Purge, Final
<1>8. ASSUME NEW j \in Jobs, AppendBlob(j) \/ RecordSize(j) PROVE Same
  BY <1>8 DEF AppendBlob, RecordSize, FailCall
<1>9. ASSUME NEW w \in Workers, StoreClaim(w) PROVE Same
  <2>1. \/ job' = job
        \/ \E j \in Jobs : job' = [job EXCEPT ![j] = Claimed(j, w)]
    BY <1>9 DEF StoreClaim, Queued
  <2>2. \A j \in Jobs : Claimed(j, w).request = job[j].request /\ Claimed(j, w).size = job[j].size
    BY DEF Claimed
  <2>3. UNCHANGED <<blob, written, write>>
    BY <1>9 DEF StoreClaim
  <2> QED BY <2>1, <2>2, <2>3
<1>10. ASSUME NEW w \in Workers, Heartbeat(w) \/ Ask(w) \/ WriteResult(w) \/ EndReport(w) PROVE Same
  BY <1>10 DEF Heartbeat, Ask, WriteResult, EndReport
<1>11. ASSUME NEW w \in Workers, \/ TakeWaiter(w) \/ Park(w) \/ Unpark(w) \/ Return(w) \/ LeaveCall(w)
                                 \/ Await(w) \/ TakeAnswerWaiter(w) \/ Start(w) \/ Stop(w) \/ Crash(w)
       PROVE Same
  BY <1>11 DEF TakeWaiter, Park, Unpark, Return, LeaveCall, Await, TakeAnswerWaiter, Start, Stop, Crash
<1>12. CASE Expired \/ RestartService
  BY <1>12 DEF Expired, RestartService
<1>13. CASE Same
  BY <1>13
<1> QED BY <1>5, <1>6, <1>7, <1>8, <1>9, <1>10, <1>11, <1>12, <1>13 DEF Next, Serve, Finish

\* The chunks of a job and what is said of them stay; a run that goes on went on.
SameData(j) == UNCHANGED <<blob[j], written[j], write[j]>> /\ job'[j].size = job[j].size
SameRun(w) ==
  /\ run'[w].job = run[w].job
  /\ GoesOn(run'[w]) => GoesOn(run[w])
  /\ run'[w].pc = "writing" => run[w].pc = "writing"
Gone(w) == ~GoesOn(run'[w]) /\ run'[w].pc # "writing"
Stays(j) == SameData(j) /\ (job'[j].status = "done" => job[j].status = "done" \/ Whole(j))
DataStays == \A j \in Jobs : Stays(j)
Begins(w) == run'[w].pc # "writing" /\ \E j \in Jobs : run'[w].job = j /\ Whole(j)
RunStays(w) == SameRun(w) \/ Gone(w) \/ Begins(w)
RunsStay == \A w \in Workers : RunStays(w)

LEMMA JobFrame ==
  ASSUME Inv, NEW j \in Jobs, Stays(j)
  PROVE  JobWrites(j)' /\ (Whole(j) => Whole(j)') /\ (OneAhead(j) => OneAhead(j)')
BY DEF Inv, Writes, JobWrites, Stays, SameData, Whole, OneAhead

LEMMA RunFrame ==
  ASSUME Inv, NEW w \in Workers, RunStays(w), \A j \in Jobs : run'[w].job = j => Stays(j)
  PROVE  RunWrites(w)'
<1>1. ASSUME NEW j \in Jobs, run'[w].job = j
      PROVE  (GoesOn(run'[w]) => Whole(j)') /\ (run'[w].pc = "writing" => OneAhead(j)')
  <2>1. (Whole(j) => Whole(j)') /\ (OneAhead(j) => OneAhead(j)')
    BY <1>1, JobFrame
  <2>2. CASE SameRun(w)
    <3>1. (GoesOn(run[w]) => Whole(j)) /\ (run[w].pc = "writing" => OneAhead(j))
      BY <1>1, <2>2 DEF Inv, Writes, RunWrites, SameRun
    <3> QED BY <2>1, <2>2, <3>1 DEF SameRun
  <2>3. CASE Gone(w)
    BY <2>3 DEF Gone
  <2>4. CASE Begins(w)
    BY <1>1, <2>1, <2>4 DEF Begins
  <2> QED BY <2>2, <2>3, <2>4 DEF RunStays
<1> QED BY <1>1 DEF RunWrites

LEMMA WritesFrame == Inv /\ DataStays /\ RunsStay => Writes'
BY JobFrame, RunFrame DEF Writes, DataStays, RunsStay

\* A step of the write of job i.
LEMMA OneJobFrame ==
  ASSUME Inv, NEW i \in Jobs, \A j \in Jobs \ {i} : Stays(j), JobWrites(i)',
         \A w \in Workers : RunWrites(w)' \/ (run'[w].job # i /\ RunStays(w))
  PROVE  Writes'
<1>1. ASSUME NEW w \in Workers PROVE RunWrites(w)'
  BY RunFrame
<1> QED BY <1>1, JobFrame DEF Writes

LEMMA WritesStep == Inv /\ Next => Writes'
<1> SUFFICES ASSUME Inv, Next PROVE Writes'
  OBVIOUS
<1> /\ job \in [Jobs -> Records] /\ run \in [Workers -> Slots]
    /\ blob \in [Jobs -> 0..MaxChunks] /\ written \in [Jobs -> 0..MaxChunks]
    /\ write \in [Jobs -> {"none", "checked", "appended"}]
  BY DEF Inv, TypeOK, Records, Slots
<1>1. ASSUME NEW j \in Jobs, Create(j) \/ Cancel(j) \/ SweepJob(j) \/ Lapse(j) PROVE DataStays
  BY <1>1 DEF Create, Cancel, SweepJob, Lapse, Records, Stays, SameData, DataStays
<1>2. ASSUME NEW j \in Jobs, Kick(j) \/ Answered(j) PROVE DataStays
  BY <1>2 DEF Kick, Answered, Stays, SameData, DataStays
<1>14. ASSUME NEW j \in Jobs, Answer(j) PROVE DataStays
  BY <1>14 DEF Answer, Records, Stays, SameData, DataStays
<1>3. ASSUME NEW w \in Workers, Heartbeat(w) \/ Ask(w) PROVE DataStays
  BY <1>3 DEF Heartbeat, Ask, Records, Stays, SameData, DataStays
<1>4. ASSUME NEW w \in Workers, StoreClaim(w) PROVE DataStays
  <2>1. /\ UNCHANGED <<blob, written, write>>
        /\ job' = job \/ \E j \in Jobs : job' = [job EXCEPT ![j] = Claimed(j, w)]
    BY <1>4 DEF StoreClaim, Queued
  <2>2. \A j \in Jobs : Claimed(j, w).size = job[j].size /\ Claimed(j, w).status = "running"
    BY DEF Claimed, Records
  <2> QED BY <2>1, <2>2 DEF Stays, SameData, DataStays
<1>5. ASSUME NEW w \in Workers, \/ TakeWaiter(w) \/ Park(w) \/ Unpark(w) \/ Return(w) \/ LeaveCall(w)
                                 \/ Await(w) \/ TakeAnswerWaiter(w) \/ Start(w) \/ Stop(w) \/ Crash(w)
      PROVE DataStays
  BY <1>5 DEF TakeWaiter, Park, Unpark, Return, LeaveCall, Await, TakeAnswerWaiter, Start, Stop, Crash, Stays, SameData, DataStays
<1>6. ASSUME NEW w \in Workers, EndReport(w) PROVE DataStays
  <2>1. run[w].job \in Jobs /\ (run[w].end = "done" => Whole(run[w].job))
    BY <1>6 DEF EndReport, Inv, HasJob, TypeOK, Writes, RunWrites, GoesOn
  <2> QED BY <1>6, <2>1 DEF EndReport, Records, Stays, SameData, DataStays
<1>7. ASSUME NEW j \in Jobs, Kick(j) \/ Answered(j) PROVE RunsStay
  <2>1. PICK ws : run' = [v \in Workers |-> [run[v] EXCEPT !.woken = @ \/ v \in ws]]
    BY <1>7 DEF Kick, Answered, Wake
  <2>2. \A v \in Workers : run'[v].pc = run[v].pc /\ run'[v].job = run[v].job /\ run'[v].end = run[v].end
    BY <2>1 DEF Slots
  <2> QED BY <2>2 DEF RunsStay, RunStays, SameRun, GoesOn
<1>8. ASSUME NEW w \in Workers, Heartbeat(w) PROVE RunsStay
  BY <1>8 DEF Heartbeat, Slots, RunsStay, RunStays, SameRun, GoesOn
<1>9. ASSUME NEW w \in Workers, Return(w) \/ LeaveCall(w) PROVE RunsStay
  BY <1>9 DEF Return, LeaveCall, Over, Failing, Slots, RunsStay, RunStays, SameRun, GoesOn, Gone, Working
<1>10. ASSUME NEW w \in Workers, Ask(w) \/ Await(w) PROVE RunsStay
  BY <1>10 DEF Ask, Await, Over, Failing, Goto, Slots, RunsStay, RunStays, SameRun, GoesOn, Gone, Working
<1>11. ASSUME NEW w \in Workers, TakeWaiter(w) \/ Park(w) \/ TakeAnswerWaiter(w) PROVE RunsStay
  BY <1>11 DEF TakeWaiter, Park, TakeAnswerWaiter, Goto, Slots, RunsStay, RunStays, SameRun, GoesOn, Gone, Working
<1>12. ASSUME NEW w \in Workers, Unpark(w) \/ EndReport(w) \/ Crash(w) \/ Start(w) PROVE RunsStay
  <2>1. \E q \in {Idle, [Idle EXCEPT !.pc = "off"]} : run' = [run EXCEPT ![w] = q]
    BY <1>12 DEF Unpark, EndReport, Crash, Start
  <2> QED BY <2>1 DEF Idle, RunsStay, RunStays, SameRun, GoesOn, Gone, Working
<1>13. ASSUME NEW w \in Workers, Stop(w) PROVE RunsStay
  <2>1. CASE run[w].pc \in Working \union {"over"}
    BY <1>13, <2>1 DEF Stop, Slots, RunsStay, RunStays, SameRun, GoesOn
  <2>2. CASE run[w].pc \notin Working \union {"over"}
    BY <1>13, <2>2 DEF Stop, Idle, RunsStay, RunStays, SameRun, GoesOn, Gone, Working
  <2> QED BY <2>1, <2>2
<1>15. ASSUME NEW w \in Workers, StoreClaim(w) PROVE Writes'
  <2>1. /\ run[w].pc = "claim"
        /\ \/ run' = [run EXCEPT ![w].pc = "looked"] \/ run' = [run EXCEPT ![w] = Idle]
           \/ \E j \in Queued : run' = [run EXCEPT ![w] = [Idle EXCEPT !.pc = "work", !.job = j]]
    BY <1>15 DEF StoreClaim, Goto
  <2>2. CASE run' = [run EXCEPT ![w].pc = "looked"] \/ run' = [run EXCEPT ![w] = Idle]
    <3>1. RunsStay
      BY <2>2 DEF Idle, Slots, RunsStay, RunStays, SameRun, GoesOn, Gone, Working
    <3> QED BY <1>4, <1>15, <3>1, WritesFrame
  <2>3. ASSUME NEW j \in Queued, run' = [run EXCEPT ![w] = [Idle EXCEPT !.pc = "work", !.job = j]] PROVE Writes'
    <3>1. j \in Jobs /\ Whole(j)
      BY DEF Queued, Inv, Fresh, Whole
    <3>2. \A v \in Workers \ {w} : SameRun(v)
      BY <2>3 DEF SameRun
    <3>3. run'[w].job = j /\ run'[w].pc = "work"
      BY <2>3 DEF Idle
    <3>4. RunsStay
      BY <3>1, <3>2, <3>3 DEF RunsStay, RunStays, Begins
    <3> QED BY <1>4, <1>15, <3>4, WritesFrame
  <2> QED BY <2>1, <2>2, <2>3
<1>16. ASSUME NEW w \in Workers, WriteResult(w) PROVE Writes'
  <2>1. run[w].pc = "work" /\ run[w].job \in Jobs /\ Whole(run[w].job)
    BY <1>16 DEF WriteResult, Inv, HasJob, TypeOK, Writes, RunWrites, GoesOn, Working
  <2>2. PICK j \in Jobs : j = run[w].job
    BY <2>1
  <2>3. CASE Failing(w) /\ UNCHANGED <<job, blob, write, written>>
    <3>1. RunsStay
      BY <2>3 DEF Failing, Over, RunsStay, RunStays, SameRun, Gone, GoesOn, Slots, Working
    <3>2. DataStays
      BY <2>3 DEF DataStays, Stays, SameData
    <3> QED BY <3>1, <3>2, WritesFrame
  <2>4. CASE Owns(w) /\ write' = [write EXCEPT ![j] = "checked"] /\ run' = [run EXCEPT ![w].pc = "writing"]
    <3>1. UNCHANGED <<job, blob, written>> /\ blob[j] < MaxChunks
      BY <1>16, <2>2 DEF WriteResult
    <3>2. \A i \in Jobs \ {j} : Stays(i)
      BY <2>4, <3>1 DEF Stays, SameData
    <3>3. JobWrites(j)'
      BY <2>2, <2>4, <3>1 DEF JobWrites, Owns
    <3>4. OneAhead(j)' /\ run'[w].job = j /\ run'[w].pc = "writing"
      BY <2>1, <2>2, <2>4, <3>1 DEF OneAhead, Whole, Slots
    <3>5. RunWrites(w)'
      BY <3>4 DEF RunWrites, GoesOn, Working
    <3>6. \A v \in Workers \ {w} : run'[v].job # j /\ RunStays(v)
      <4>1. j # NoJob
        BY JobNames DEF Jobs
      <4> QED BY <2>2, <2>4, <4>1 DEF Inv, OnItsOwn, Owns, RunStays, SameRun
    <3> QED BY <3>2, <3>3, <3>5, <3>6, OneJobFrame
  <2> QED BY <1>16, <2>2, <2>3, <2>4 DEF WriteResult, Goto
<1>17. ASSUME NEW j \in Jobs, AppendBlob(j) PROVE Writes'
  <2>1. /\ write[j] = "checked" /\ job[j].status # "done" /\ UNCHANGED <<job, written>>
        /\ \A w \in Workers : run[w].job = j => ~GoesOn(run[w]) /\ (run[w].pc = "writing" => blob[j] = written[j])
    BY <1>17 DEF AppendBlob, Inv, Writes, JobWrites, RunWrites, Whole, OneAhead
  <2>2. \A i \in Jobs \ {j} : Stays(i)
    BY <1>17, <2>1 DEF AppendBlob, FailCall, Stays, SameData
  <2>3. JobWrites(j)'
    BY <1>17, <2>1 DEF AppendBlob, FailCall, JobWrites
  <2>4. ASSUME NEW w \in Workers PROVE RunWrites(w)' \/ (run'[w].job # j /\ RunStays(w))
    <3>1. CASE FailCall(j)
      BY <2>1, <3>1, FailedCall DEF RunWrites, RunStays, SameRun, GoesOn, Working
    <3>2. CASE run' = run /\ blob' = [blob EXCEPT ![j] = @ + 1] /\ write' = [write EXCEPT ![j] = "appended"]
      BY <2>1, <3>2 DEF RunWrites, RunStays, SameRun, OneAhead
    <3> QED BY <1>17, <3>1, <3>2 DEF AppendBlob
  <2> QED BY <2>2, <2>3, <2>4, OneJobFrame
<1>18. ASSUME NEW j \in Jobs, RecordSize(j) PROVE Writes'
  <2>1. /\ write[j] = "appended" /\ job[j].status # "done" /\ UNCHANGED blob
        /\ \A w \in Workers : run[w].job = j => ~GoesOn(run[w]) /\ (run[w].pc = "writing" => blob[j] = written[j] + 1)
    BY <1>18 DEF RecordSize, Inv, Writes, JobWrites, RunWrites, Whole, OneAhead
  <2>2. \A i \in Jobs \ {j} : Stays(i)
    BY <1>18, <2>1 DEF RecordSize, FailCall, Stays, SameData
  <2>3. JobWrites(j)'
    <3>1. job' = job \/ job' = [job EXCEPT ![j].size = SizeAfter(j)]
      BY <1>18 DEF RecordSize
    <3>2. job'[j].status = job[j].status
      BY <3>1 DEF Records
    <3>3. write'[j] = "none"
      BY <1>18 DEF RecordSize, FailCall
    <3> QED BY <2>1, <3>2, <3>3 DEF JobWrites
  <2>4. ASSUME NEW w \in Workers PROVE RunWrites(w)' \/ (run'[w].job # j /\ RunStays(w))
    <3>1. CASE FailCall(j)
      BY <2>1, <3>1, FailedCall DEF RunWrites, RunStays, SameRun, GoesOn, Working
    <3>2. CASE /\ job' = [job EXCEPT ![j].size = blob[j]] /\ write' = [write EXCEPT ![j] = "none"]
               /\ written' = [written EXCEPT ![j] = IF Waits(j) THEN @ + 1 ELSE @]
               /\ run' = [v \in Workers |-> IF run[v].job = j /\ run[v].pc = "writing"
                                            THEN [run[v] EXCEPT !.pc = "work"] ELSE run[v]]
      <4>1. CASE run'[w] = run[w] /\ ~(run[w].job = j /\ run[w].pc = "writing")
        BY <2>1, <4>1 DEF RunWrites, RunStays, SameRun
      <4>2. CASE run[w].job = j /\ run[w].pc = "writing" /\ run'[w].pc = "work" /\ run'[w].job = j
        <5>1. Whole(j)'
          BY <2>1, <3>2, <4>2 DEF Whole, Waits, Records
        <5> QED BY <4>2, <5>1 DEF RunWrites
      <4> QED BY <3>2, <4>1, <4>2, ChunkWritten
    <3> QED BY <1>18, <3>1, <3>2 DEF RecordSize, SizeAfter
  <2> QED BY <2>2, <2>3, <2>4, OneJobFrame
<1>19. ASSUME NEW j \in Jobs, Purge(j) PROVE Writes'
  <2>1. \A i \in Jobs \ {j} : Stays(i)
    BY <1>19 DEF Purge, Stays, SameData
  <2>2. JobWrites(j)'
    BY <1>19 DEF Purge, JobWrites, Records
  <2>3. \A w \in Workers : run'[w].job # j /\ RunStays(w)
    BY <1>19 DEF Purge, RunStays, SameRun
  <2> QED BY <2>1, <2>2, <2>3, OneJobFrame
<1>20. CASE RestartService
  <2>1. \A j \in Jobs : JobWrites(j)' /\ (Whole(j) => Whole(j)')
    BY <1>20 DEF RestartService, Inv, Writes, JobWrites, Whole
  <2>2. ASSUME NEW w \in Workers PROVE RunWrites(w)'
    <3>1. \/ run'[w] = Idle \/ (run'[w] = run[w] /\ run[w].pc # "writing")
          \/ \E s \in {"cancelled", "failed"} : run'[w] = [run[w] EXCEPT !.pc = "over", !.end = s]
      BY <1>20 DEF RestartService
    <3>2. CASE run'[w] = run[w] /\ run[w].pc # "writing"
      BY <2>1, <3>2 DEF Inv, Writes, RunWrites
    <3>3. CASE run'[w] = Idle
      BY <3>3 DEF Idle, RunWrites, GoesOn, Working
    <3>4. ASSUME NEW s \in {"cancelled", "failed"}, run'[w] = [run[w] EXCEPT !.pc = "over", !.end = s] PROVE RunWrites(w)'
      <4>1. run'[w].pc = "over" /\ run'[w].end = s
        BY <3>4 DEF Slots
      <4> QED BY <4>1 DEF RunWrites, GoesOn, Working
    <3> QED BY <3>1, <3>2, <3>3, <3>4
  <2> QED BY <2>1, <2>2 DEF Writes
<1>21. CASE Expired
  BY <1>21, WritesFrame DEF Expired, DataStays, Stays, SameData, RunsStay, RunStays, SameRun
<1>22. ASSUME NEW j \in Jobs, Create(j) \/ Cancel(j) \/ SweepJob(j) \/ Lapse(j) \/ Answer(j) PROVE RunsStay
  BY <1>22 DEF Create, Cancel, SweepJob, Lapse, Answer, RunsStay, RunStays, SameRun
<1> QED BY <1>1, <1>2, <1>3, <1>4, <1>5, <1>6, <1>7, <1>8, <1>9, <1>10, <1>11, <1>12, <1>13, <1>14, <1>15, <1>16, <1>17, <1>18,
           <1>19, <1>20, <1>21, <1>22, WritesFrame DEF Next, Serve, Finish

LEMMA AskedLastStep == Inv /\ Next => AskedLast'
<1> SUFFICES ASSUME Inv, Next, NEW i \in Jobs, job'[i].status = "running", job'[i].request = "pending"
             PROVE  Len(outbox'[i]) > 0 /\ outbox'[i][Len(outbox'[i])] = "asked"
  BY DEF AskedLast
<1> DEFINE Same == job[i].status = "running" /\ job[i].request = "pending" /\ outbox'[i] = outbox[i]
<1>1. /\ job \in [Jobs -> Records]
      /\ outbox \in [Jobs -> Seq({"created", "started", "asked", "answered", "ended"})]
      /\ job[i].status \in {"absent", "queued"} => job[i].request = "none"
  BY DEF Inv, TypeOK, Records, Fresh
<1> USE <1>1 DEF Records
<1>2. ASSUME NEW j \in Jobs, Create(j) \/ Cancel(j) \/ Answer(j) PROVE Same
  BY <1>2 DEF Create, Cancel, Answer, Tell
<1>3. ASSUME NEW j \in Jobs, SweepJob(j) PROVE Same
  BY <1>3 DEF SweepJob, Tell
<1>4. ASSUME NEW j \in Jobs, Lapse(j) PROVE Same
  <2>1. job' = [job EXCEPT ![j].lease = "lapsed"] /\ UNCHANGED outbox
    BY <1>4 DEF Lapse
  <2> QED BY <2>1
<1>15. ASSUME NEW j \in Jobs, Purge(j) PROVE Same
  BY <1>15 DEF Purge
<1>13. ASSUME NEW j \in Jobs, Kick(j) \/ Answered(j) PROVE UNCHANGED <<job, outbox>>
  BY <1>13 DEF Kick, Answered
<1>5. ASSUME NEW j \in Jobs, AppendBlob(j) \/ RecordSize(j) PROVE Same
  <2>1. (UNCHANGED job \/ job' = [job EXCEPT ![j].size = SizeAfter(j)]) /\ UNCHANGED outbox
    BY <1>5, Zenon DEF AppendBlob, RecordSize
  <2>2. CASE UNCHANGED job
    BY <2>1, <2>2
  <2>3. CASE job' = [job EXCEPT ![j].size = SizeAfter(j)]
    <3>1. job'[i].status = job[i].status /\ job'[i].request = job[i].request
      BY <2>3
    <3> QED BY <2>1, <3>1
  <2> QED BY <2>1, <2>2, <2>3
<1>6. ASSUME NEW w \in Workers, StoreClaim(w) PROVE Same
  <2>1. \A j \in Jobs : Claimed(j, w).request = job[j].request
    BY DEF Claimed
  <2>2. \/ UNCHANGED <<job, outbox>>
        \/ \E j \in Queued : job' = [job EXCEPT ![j] = Claimed(j, w)] /\ Tell(j, "started")
    BY <1>6, Zenon DEF StoreClaim
  <2>3. CASE UNCHANGED <<job, outbox>>
    BY <2>3
  <2>4. ASSUME NEW j \in Queued, job' = [job EXCEPT ![j] = Claimed(j, w)], Tell(j, "started") PROVE Same
    <3>1. i # j
      <4>1. job[j].status = "queued" /\ j \in Jobs
        BY DEF Queued
      <4>2. job'[j].request = job[j].request
        BY <2>1, <2>4, <4>1
      <4> QED BY <4>1, <4>2
    <3>2. job'[i] = job[i] /\ outbox'[i] = outbox[i]
      BY <2>4, <3>1 DEF Tell
    <3> QED BY <3>2
  <2> QED BY <2>2, <2>3, <2>4
<1>7. ASSUME NEW w \in Workers, EndReport(w) PROVE Same
  <2>1. run[w].job \in Jobs /\ run[w].end # "running"
    BY <1>7 DEF EndReport, Inv, HasJob, TypeOK
  <2>2. \/ UNCHANGED <<job, outbox>>
        \/ /\ job' = [job EXCEPT ![run[w].job] = [job[run[w].job] EXCEPT !.status = run[w].end, !.lease = "none"]]
           /\ Tell(run[w].job, "ended")
    BY <1>7 DEF EndReport
  <2>3. CASE i = run[w].job /\ job' = [job EXCEPT ![run[w].job] = [job[run[w].job] EXCEPT !.status = run[w].end, !.lease = "none"]]
    <3>1. job'[i].status # "running"
      BY <2>1, <2>3
    <3> QED BY <3>1
  <2>4. CASE i # run[w].job
    BY <2>1, <2>2, <2>4 DEF Tell
  <2> QED BY <2>1, <2>2, <2>3, <2>4
<1>8. ASSUME NEW w \in Workers, Ask(w)
      PROVE  Same \/ (Len(outbox'[i]) > 0 /\ outbox'[i][Len(outbox'[i])] = "asked")
  <2>1. run[w].job \in Jobs
    BY <1>8 DEF Ask, Inv, HasJob, TypeOK, Working
  <2>2. CASE i = run[w].job /\ Tell(i, "asked")
    <3>1. outbox'[i] = Append(outbox[i], "asked")
      BY <2>2 DEF Tell
    <3> QED BY <3>1
  <2>3. CASE i # run[w].job \/ UNCHANGED <<job, outbox>>
    BY <1>8, <2>1, <2>3 DEF Ask, Tell
  <2> QED BY <1>8, <2>2, <2>3 DEF Ask
<1>9. ASSUME NEW w \in Workers, Heartbeat(w) PROVE Same
  <2>1. UNCHANGED outbox /\ (job' = job \/ job' = [job EXCEPT ![run[w].job].lease = "live"])
    BY <1>9 DEF Heartbeat
  <2>2. job'[i].status = job[i].status /\ job'[i].request = job[i].request
    <3>1. CASE job' = [job EXCEPT ![run[w].job].lease = "live"] /\ i = run[w].job
      <4>1. job'[i] = [job[i] EXCEPT !.lease = "live"]
        BY <3>1
      <4> QED BY <4>1
    <3>2. CASE job' = [job EXCEPT ![run[w].job].lease = "live"] /\ i # run[w].job
      <4>1. job'[i] = job[i]
        BY <3>2
      <4> QED BY <4>1
    <3> QED BY <2>1, <3>1, <3>2
  <2> QED BY <2>1, <2>2
<1>10. ASSUME NEW w \in Workers, \/ WriteResult(w) \/ TakeWaiter(w) \/ Park(w) \/ Unpark(w) \/ Return(w) \/ LeaveCall(w)
                                 \/ Await(w) \/ TakeAnswerWaiter(w) \/ Start(w) \/ Stop(w) \/ Crash(w)
       PROVE UNCHANGED <<job, outbox>>
  BY <1>10 DEF WriteResult, TakeWaiter, Park, Unpark, Return, LeaveCall, Await, TakeAnswerWaiter, Start, Stop, Crash
<1>11. Expired \/ RestartService => UNCHANGED <<job, outbox>>
  BY DEF Expired, RestartService
<1>12. CASE Same
  BY <1>12 DEF Inv, AskedLast
<1>14. CASE UNCHANGED <<job, outbox>>
  BY <1>14 DEF Inv, AskedLast
<1> QED BY <1>2, <1>3, <1>4, <1>5, <1>6, <1>7, <1>8, <1>9, <1>10, <1>11, <1>12, <1>13, <1>14, <1>15 DEF Next, Serve, Finish

THEOREM Invariance == Spec => []Inv
<1>1. ASSUME Inv, UNCHANGED vars PROVE Inv'
  BY <1>1 DEF vars, Inv, TypeOK, HasJob, OnItsOwn, Fresh, Writes, JobWrites, RunWrites, Whole, OneAhead, AskedLast
<1>2. Inv /\ Next => Inv'
  BY TypeStep, HasJobStep, OnItsOwnStep, FreshStep, WritesStep, AskedLastStep DEF Inv
<1> QED BY InitInv, <1>1, <1>2, PTL DEF Spec

\* The variables stay in their types: no more chunks than the bound however a write ends.
THEOREM JobQueueTypes == Spec => []TypeOK
BY Invariance, PTL DEF Inv

\* The result of a job that is done is whole.
THEOREM ResultIsWhole == Spec => []ResultWhole
<1>1. Inv => ResultWhole
  BY DEF Inv, Writes, JobWrites, Whole, ResultWhole
<1> QED BY Invariance, <1>1, PTL

-----------------------------------------------------------------------------
(* No wake is missed.                                                       *)

SleepsQ(q) == q.pc \in {"looked", "parked"} /\ ~q.woken
SleepsA(q) == q.pc \in {"seen", "awaiting"} /\ ~q.woken

\* A claim falls asleep on an empty queue alone, a run on a request that waits; no call that wakes is over.
ClaimsKept == \A w \in Workers : SleepsQ(run'[w]) => SleepsQ(run[w]) \/ Queued' = {}
WaitsKept == \A w \in Workers : SleepsA(run'[w]) => \/ SleepsA(run[w]) /\ run'[w].job = run[w].job
                                                  \/ job'[run'[w].job].request = "pending"
QueueKept == (Queued' # {} => Queued # {} \/ kicks' # {}) /\ (kicks # {} => kicks' # {})
AnswersKept ==
  /\ \A j \in Jobs : job'[j].request = "answered" => job[j].request = "answered" \/ answering' # {}
  /\ answering # {} => answering' # {}

ClaimsHeard == \A w \in Workers : SleepsQ(run[w]) /\ Queued # {} => kicks # {}
WaitsHeard == \A w \in Workers : SleepsA(run[w]) /\ job[run[w].job].request = "answered" => answering # {}

LEMMA Heard == NoMissedWake <=> ClaimsHeard /\ WaitsHeard
BY DEF NoMissedWake, ClaimsHeard, WaitsHeard, SleepsQ, SleepsA

LEMMA ClaimsHeardFrame == ClaimsHeard /\ ClaimsKept /\ QueueKept => ClaimsHeard'
BY DEF ClaimsHeard, ClaimsKept, QueueKept

LEMMA WaitsHeardFrame == Inv /\ WaitsHeard /\ WaitsKept /\ AnswersKept => WaitsHeard'
<1> SUFFICES ASSUME Inv, WaitsHeard, WaitsKept, AnswersKept,
                    NEW w \in Workers, SleepsA(run'[w]), job'[run'[w].job].request = "answered"
             PROVE  answering' # {}
  BY DEF WaitsHeard
<1>1. SleepsA(run[w]) /\ run'[w].job = run[w].job
  BY DEF WaitsKept
<1>2. run[w].job \in Jobs
  BY <1>1 DEF Inv, TypeOK, HasJob, SleepsA, Working
<1> QED BY <1>1, <1>2 DEF WaitsHeard, AnswersKept

\* The queue and the answers.
LEMMA QueueStep ==
  ASSUME Inv, Next
  PROVE  /\ QueueKept \/ (\E j \in Jobs : Kick(j)) \/ RestartService
         /\ AnswersKept \/ (\E j \in Jobs : Answered(j)) \/ RestartService
<1> job \in [Jobs -> Records] /\ run \in [Workers -> Slots]
  BY DEF Inv, TypeOK, Records, Slots
<1> DEFINE Kept == QueueKept /\ AnswersKept
<1> USE DEF QueueKept, AnswersKept, Queued, Records
<1>1. ASSUME NEW j \in Jobs, Create(j) PROVE Kept
  BY <1>1 DEF Create
<1>2. ASSUME NEW j \in Jobs, Cancel(j) \/ Purge(j) PROVE Kept
  BY <1>2 DEF Cancel, Purge
<1>3. ASSUME NEW j \in Jobs, SweepJob(j) PROVE Kept
  BY <1>3 DEF SweepJob
<1>4. ASSUME NEW j \in Jobs, Lapse(j) PROVE Kept
  <2>1. job' = [job EXCEPT ![j].lease = "lapsed"] /\ UNCHANGED <<kicks, answering>>
    BY <1>4 DEF Lapse
  <2> QED BY <2>1
<1>5. ASSUME NEW j \in Jobs, Answer(j) PROVE Kept
  BY <1>5 DEF Answer
<1>6. ASSUME NEW j \in Jobs, Kick(j) PROVE AnswersKept
  BY <1>6 DEF Kick
<1>7. ASSUME NEW j \in Jobs, Answered(j) PROVE QueueKept
  BY <1>7 DEF Answered
<1>8. ASSUME NEW j \in Jobs, AppendBlob(j) \/ RecordSize(j) PROVE Kept
  <2>1. (job' = job \/ job' = [job EXCEPT ![j].size = SizeAfter(j)]) /\ UNCHANGED <<kicks, answering>>
    BY <1>8 DEF AppendBlob, RecordSize
  <2> QED BY <2>1
<1>9. ASSUME NEW w \in Workers, StoreClaim(w) PROVE Kept
  <2>1. /\ job' = job \/ \E j \in Queued : job' = [job EXCEPT ![j] = Claimed(j, w)]
        /\ UNCHANGED <<kicks, answering>>
    BY <1>9 DEF StoreClaim
  <2>2. \A j \in Jobs : Claimed(j, w).request = job[j].request /\ Claimed(j, w).status = "running"
    BY DEF Claimed
  <2> QED BY <2>1, <2>2
<1>10. ASSUME NEW w \in Workers, EndReport(w) PROVE Kept
  <2>1. run[w].job \in Jobs /\ run[w].end # "queued"
    BY <1>10 DEF EndReport, Inv, HasJob, TypeOK
  <2> QED BY <1>10, <2>1 DEF EndReport
<1>11. ASSUME NEW w \in Workers, Heartbeat(w) PROVE Kept
  <2>1. UNCHANGED <<kicks, answering>> /\ (job' = job \/ job' = [job EXCEPT ![run[w].job].lease = "live"])
    BY <1>11 DEF Heartbeat
  <2> QED BY <2>1
<1>12. ASSUME NEW w \in Workers, Ask(w) PROVE Kept
  <2>1. /\ UNCHANGED <<kicks, answering>>
        /\ job' = job \/ job' = [job EXCEPT ![run[w].job].request = "pending", ![run[w].job].asks = @ + 1, ![run[w].job].lease = "live"]
    BY <1>12 DEF Ask
  <2> QED BY <2>1
<1>13. ASSUME NEW w \in Workers, \/ WriteResult(w) \/ TakeWaiter(w) \/ Park(w) \/ Unpark(w) \/ Return(w) \/ LeaveCall(w)
                                 \/ Await(w) \/ TakeAnswerWaiter(w) \/ Start(w) \/ Stop(w) \/ Crash(w)
       PROVE UNCHANGED <<job, kicks, answering>>
  BY <1>13 DEF WriteResult, TakeWaiter, Park, Unpark, Return, LeaveCall, Await, TakeAnswerWaiter, Start, Stop, Crash
<1>14. Expired => UNCHANGED <<job, kicks, answering>>
  BY DEF Expired
<1>15. CASE UNCHANGED <<job, kicks, answering>>
  BY <1>15
<1> HIDE DEF QueueKept, AnswersKept
<1> QED BY <1>1, <1>2, <1>3, <1>4, <1>5, <1>6, <1>7, <1>8, <1>9, <1>10, <1>11, <1>12, <1>13, <1>14, <1>15 DEF Next, Serve, Finish

\* The sleepers.
LEMMA SleepStep ==
  ASSUME Inv, Next
  PROVE  ClaimsKept /\ WaitsKept
<1> run \in [Workers -> Slots]
  BY DEF Inv, TypeOK, Slots
<1> DEFINE Kept == ClaimsKept /\ WaitsKept
<1> USE DEF ClaimsKept, WaitsKept, SleepsQ, SleepsA
<1>1. ASSUME NEW j \in Jobs, Kick(j) \/ Answered(j) PROVE Kept
  <2>1. PICK ws : run' = [v \in Workers |-> [run[v] EXCEPT !.woken = @ \/ v \in ws]]
    BY <1>1 DEF Kick, Answered, Wake
  <2>2. \A v \in Workers : run'[v].pc = run[v].pc /\ run'[v].job = run[v].job /\ (run[v].woken => run'[v].woken)
    BY <2>1 DEF Slots
  <2> QED BY <2>2
<1>2. ASSUME NEW j \in Jobs, AppendBlob(j) PROVE Kept
  BY <1>2, FailedCall DEF AppendBlob
<1>3. ASSUME NEW j \in Jobs, RecordSize(j) PROVE Kept
  BY <1>3, FailedCall, ChunkWritten DEF RecordSize
<1>4. ASSUME NEW w \in Workers, StoreClaim(w) PROVE Kept
  <2>1. \/ run' = [run EXCEPT ![w].pc = "looked"] /\ Queued = {} /\ UNCHANGED job
        \/ run' = [run EXCEPT ![w] = Idle]
        \/ \E j \in Jobs : run' = [run EXCEPT ![w] = [Idle EXCEPT !.pc = "work", !.job = j]]
    BY <1>4 DEF StoreClaim, Goto, Queued
  <2>2. CASE run' = [run EXCEPT ![w].pc = "looked"] /\ Queued = {} /\ UNCHANGED job
    <3>1. Queued' = {}
      BY <2>2 DEF Queued
    <3>2. WaitsKept
      BY <2>2 DEF Slots
    <3> QED BY <3>1, <3>2
  <2>3. CASE run' = [run EXCEPT ![w] = Idle]
    BY <2>3 DEF Idle
  <2>4. ASSUME NEW j \in Jobs, run' = [run EXCEPT ![w] = [Idle EXCEPT !.pc = "work", !.job = j]] PROVE Kept
    BY <2>4 DEF Idle
  <2> QED BY <2>1, <2>2, <2>3, <2>4
<1>5. ASSUME NEW w \in Workers, Heartbeat(w) PROVE Kept
  BY <1>5 DEF Heartbeat, Slots
<1>6. ASSUME NEW w \in Workers, Return(w) \/ LeaveCall(w) PROVE Kept
  BY <1>6 DEF Return, LeaveCall, Over, Failing, Slots
<1>7. ASSUME NEW w \in Workers, WriteResult(w) \/ Ask(w) PROVE Kept
  BY <1>7 DEF WriteResult, Ask, Over, Failing, Goto, Slots
<1>8. ASSUME NEW w \in Workers, Await(w)
      PROVE  Kept
  BY <1>8 DEF Await, Over, Failing, Goto, Slots
<1>9. ASSUME NEW w \in Workers, TakeWaiter(w) \/ Park(w) \/ TakeAnswerWaiter(w) PROVE Kept
  BY <1>9 DEF TakeWaiter, Park, TakeAnswerWaiter, Goto, Slots
<1>10. ASSUME NEW w \in Workers, Unpark(w) \/ EndReport(w) \/ Crash(w) \/ Start(w) PROVE Kept
  <2>1. \E q \in {Idle, [Idle EXCEPT !.pc = "off"]} : run' = [run EXCEPT ![w] = q]
    BY <1>10 DEF Unpark, EndReport, Crash, Start
  <2> QED BY <2>1 DEF Idle
<1>11. ASSUME NEW w \in Workers, Stop(w) PROVE Kept
  <2>1. CASE run[w].pc \in Working \union {"over"}
    BY <1>11, <2>1 DEF Stop, Slots
  <2>2. CASE run[w].pc \notin Working \union {"over"}
    BY <1>11, <2>2 DEF Stop, Idle
  <2> QED BY <2>1, <2>2
<1>12. CASE RestartService
  <2>1. ASSUME NEW w \in Workers PROVE ~SleepsA(run'[w]) /\ ~SleepsQ(run'[w])
    <3>1. \/ run'[w] = Idle
          \/ run'[w] = run[w] /\ run[w].pc \notin {"looked", "parked", "seen", "awaiting"}
          \/ \E s \in {"cancelled", "failed"} : run'[w] = [run[w] EXCEPT !.pc = "over", !.end = s]
      BY <1>12 DEF RestartService
    <3>2. \A s \in {"cancelled", "failed"} : [run[w] EXCEPT !.pc = "over", !.end = s].pc = "over"
      BY DEF Slots
    <3>3. Idle.pc = "idle"
      BY DEF Idle
    <3>4. run'[w].pc \notin {"looked", "parked", "seen", "awaiting"}
      BY <3>1, <3>2, <3>3
    <3> QED BY <3>4
  <2> QED BY <2>1
<1>13. CASE UNCHANGED run
  BY <1>13
<1>14. ASSUME NEW j \in Jobs, Create(j) \/ SweepJob(j) \/ Answer(j) \/ Cancel(j) \/ Purge(j) \/ Lapse(j) PROVE UNCHANGED run
  BY <1>14 DEF Create, SweepJob, Answer, Cancel, Purge, Lapse
<1>15. Expired => UNCHANGED run
  BY DEF Expired
<1> HIDE DEF SleepsQ, SleepsA, ClaimsKept, WaitsKept
<1> QED BY <1>1, <1>2, <1>3, <1>4, <1>5, <1>6, <1>7, <1>8, <1>9, <1>10, <1>11, <1>12, <1>13, <1>14, <1>15
        DEF Next, Serve, Finish

\* The call that closes a channel wakes all that wait on it; a service that restarts leaves nobody asleep.
LEMMA NobodySleeps ==
  ASSUME Inv
  PROVE  /\ \A j \in Jobs : Kick(j) => \A w \in Workers : ~SleepsQ(run'[w])
         /\ \A j \in Jobs : Answered(j) => \A w \in Workers : ~SleepsA(run'[w])
         /\ RestartService => \A w \in Workers : ~SleepsQ(run'[w]) /\ ~SleepsA(run'[w])
<1> run \in [Workers -> Slots]
  BY DEF Inv, TypeOK, Slots
<1>1. ASSUME NEW ws, Wake(ws), NEW w \in Workers
      PROVE  run'[w].pc = run[w].pc /\ (w \in ws => run'[w].woken)
  BY <1>1 DEF Wake, Slots
<1>2. ASSUME NEW j \in Jobs, Kick(j), NEW w \in Workers PROVE ~SleepsQ(run'[w])
  BY <1>1, <1>2 DEF Kick, OnWake, SleepsQ
<1>3. ASSUME NEW j \in Jobs, Answered(j), NEW w \in Workers PROVE ~SleepsA(run'[w])
  BY <1>1, <1>3 DEF Answered, OnAnswers, SleepsA
<1>4. ASSUME RestartService, NEW w \in Workers PROVE ~SleepsA(run'[w]) /\ ~SleepsQ(run'[w])
  <2>1. \/ run'[w] = Idle
        \/ run'[w] = run[w] /\ run[w].pc \notin {"looked", "parked", "seen", "awaiting"}
        \/ \E s \in {"cancelled", "failed"} : run'[w] = [run[w] EXCEPT !.pc = "over", !.end = s]
    BY <1>4 DEF RestartService
  <2>2. \A s \in {"cancelled", "failed"} : [run[w] EXCEPT !.pc = "over", !.end = s].pc = "over"
    BY DEF Slots
  <2>3. Idle.pc = "idle"
    BY DEF Idle
  <2>4. run'[w].pc \notin {"looked", "parked", "seen", "awaiting"}
    BY <2>1, <2>2, <2>3
  <2> QED BY <2>4 DEF SleepsA, SleepsQ
<1> QED BY <1>2, <1>3, <1>4

\* A claim never sleeps over a queued job, nor a run over its answer.
THEOREM WakesHeard == Spec => []NoMissedWake
<1>1. Init => ClaimsHeard /\ WaitsHeard
  BY DEF Init, Idle, ClaimsHeard, WaitsHeard, SleepsQ, SleepsA
<1>2. ASSUME Inv, ClaimsHeard, WaitsHeard, Next PROVE ClaimsHeard' /\ WaitsHeard'
  <2>1. QueueKept => ClaimsHeard'
    BY <1>2, SleepStep, ClaimsHeardFrame
  <2>2. AnswersKept => WaitsHeard'
    BY <1>2, SleepStep, WaitsHeardFrame
  <2>3. ASSUME NEW j \in Jobs, Kick(j) PROVE ClaimsHeard'
    BY <1>2, <2>3, NobodySleeps DEF ClaimsHeard
  <2>4. ASSUME NEW j \in Jobs, Answered(j) PROVE WaitsHeard'
    BY <1>2, <2>4, NobodySleeps DEF WaitsHeard
  <2>5. CASE RestartService
    BY <1>2, <2>5, NobodySleeps DEF ClaimsHeard, WaitsHeard
  <2> QED BY <1>2, <2>1, <2>2, <2>3, <2>4, <2>5, QueueStep
<1>3. ASSUME UNCHANGED vars, ClaimsHeard, WaitsHeard PROVE ClaimsHeard' /\ WaitsHeard'
  BY <1>3 DEF vars, ClaimsHeard, WaitsHeard, SleepsQ, SleepsA, Queued
<1>4. ClaimsHeard /\ WaitsHeard => NoMissedWake
  BY Heard
<1> QED BY <1>1, <1>2, <1>3, <1>4, Invariance, PTL DEF Spec

-----------------------------------------------------------------------------
(* The life of each job.                                                    *)

\* A change of the status of a job, with its lease or its size or alone, changes that status only.
LEMMA StatusSet ==
  ASSUME job \in [Jobs -> Records], NEW j \in Jobs, NEW s,
         \/ job' = [job EXCEPT ![j] = [job[j] EXCEPT !.status = s]]
         \/ job' = [job EXCEPT ![j] = [job[j] EXCEPT !.status = s, !.lease = "none"]]
         \/ job' = [job EXCEPT ![j] = [job[j] EXCEPT !.status = s, !.size = 0]]
  PROVE  [i \in Jobs |-> job'[i].status] = [[i \in Jobs |-> job[i].status] EXCEPT ![j] = s]
<1>1. /\ [job[j] EXCEPT !.status = s].status = s
      /\ [job[j] EXCEPT !.status = s, !.lease = "none"].status = s
      /\ [job[j] EXCEPT !.status = s, !.size = 0].status = s
  BY DEF Records
<1>2. PICK q : job' = [job EXCEPT ![j] = q] /\ q.status = s
  BY <1>1
<1>3. ASSUME NEW i \in Jobs PROVE job'[i].status = IF i = j THEN s ELSE job[i].status
  BY <1>2
<1> QED BY <1>3

LEMMA LifeStep == Inv /\ Next => [Life!Next]_(Life!vars)
<1> SUFFICES ASSUME Inv, Next PROVE [Life!Next]_(Life!vars)
  OBVIOUS
<1> DEFINE St == [i \in Jobs |-> job[i].status]
           Hidden == \A i \in Jobs : job'[i].status = job[i].status
<1>1. /\ job \in [Jobs -> Records] /\ job' \in [Jobs -> Records]
      /\ outbox \in [Jobs -> Seq({"created", "started", "asked", "answered", "ended"})]
  BY RecordStep DEF Inv, TypeOK, Records
<1>3. ASSUME Hidden PROVE St' = St
  BY <1>3
<1>4. ASSUME NEW j \in Jobs, Create(j) PROVE Life!Create(j)
  <2>1. St' = [St EXCEPT ![j] = "queued"] /\ St[j] = "absent"
    BY <1>1, <1>4, StatusSet DEF Create
  <2> QED BY <1>4, <2>1 DEF Create, Tell, Life!Create, Life!Tell, Life!Become
<1>5. ASSUME NEW j \in Jobs, Cancel(j) PROVE Life!End(j) \/ (Hidden /\ outbox' = outbox)
  <2>1. CASE job' = [job EXCEPT ![j].cancel = TRUE] /\ outbox' = outbox
    BY <1>1, <2>1 DEF Records
  <2>2. CASE job[j].status = "queued" /\ job' = [job EXCEPT ![j].status = "cancelled"] /\ Tell(j, "ended")
    <3>1. St' = [St EXCEPT ![j] = "cancelled"] /\ St[j] = "queued"
      BY <1>1, <2>2, StatusSet
    <3>2. Life!Become(j, "cancelled") /\ Life!Tell(j, "ended")
      BY <2>2, <3>1 DEF Tell, Life!Tell, Life!Become
    <3> QED BY <3>1, <3>2 DEF Life!End
  <2> QED BY <1>5, <2>1, <2>2 DEF Cancel
<1>6. ASSUME NEW j \in Jobs, SweepJob(j) PROVE Life!End(j) \/ UNCHANGED <<job, outbox>>
  <2>1. CASE Lost(j)
    <3>1. PICK s \in {"cancelled", "failed"} : job' = [job EXCEPT ![j] = [job[j] EXCEPT !.status = s, !.lease = "none"]]
      BY <1>6, <2>1 DEF SweepJob
    <3>2. St' = [St EXCEPT ![j] = s]
      BY <1>1, <3>1, StatusSet
    <3>3. St[j] = "running"
      BY <2>1 DEF Lost
    <3> QED BY <1>6, <2>1, <3>2, <3>3 DEF SweepJob, Tell, Life!End, Life!Tell, Life!Become
  <2> QED BY <1>6, <2>1 DEF SweepJob
<1>7. ASSUME NEW j \in Jobs, Purge(j) PROVE Life!Purge(j)
  <2>1. St' = [St EXCEPT ![j] = "purged"]
    <3>1. job' = [job EXCEPT ![j] = [job[j] EXCEPT !.status = "purged", !.size = 0]]
      BY <1>7 DEF Purge
    <3> QED BY <1>1, <3>1, StatusSet
  <2> QED BY <1>7, <2>1 DEF Purge, Final, Life!Purge, Life!Become
<1>8. ASSUME NEW j \in Jobs, Answer(j) PROVE Life!Answer(j)
  <2>1. Hidden
    BY <1>1, <1>8 DEF Answer, Records
  <2>2. St[j] = "running" /\ outbox[j][Len(outbox[j])] = "asked"
    BY <1>8 DEF Answer, Inv, AskedLast
  <2> QED BY <1>3, <1>8, <2>1, <2>2 DEF Answer, Tell, Life!Answer, Life!Tell
<1>9. ASSUME NEW j \in Jobs, Lapse(j) PROVE Hidden /\ outbox' = outbox
  <2>1. job' = [job EXCEPT ![j].lease = "lapsed"] /\ outbox' = outbox
    BY <1>9 DEF Lapse
  <2> QED BY <1>1, <2>1 DEF Records
<1>10. ASSUME NEW j \in Jobs, AppendBlob(j) \/ RecordSize(j) PROVE Hidden /\ outbox' = outbox
  <2>1. (job' = job \/ job' = [job EXCEPT ![j].size = SizeAfter(j)]) /\ outbox' = outbox
    BY <1>10 DEF AppendBlob, RecordSize
  <2> QED BY <1>1, <2>1 DEF Records
<1>11. ASSUME NEW j \in Jobs, Kick(j) \/ Answered(j) PROVE UNCHANGED <<job, outbox>>
  BY <1>11 DEF Kick, Answered
<1>12. ASSUME NEW w \in Workers, StoreClaim(w) PROVE UNCHANGED <<job, outbox>> \/ \E j \in Jobs : Life!Start(j)
  <2>1. ASSUME NEW j \in Queued, job' = [job EXCEPT ![j] = Claimed(j, w)], Tell(j, "started") PROVE j \in Jobs /\ Life!Start(j)
    <3>1. j \in Jobs /\ job[j].status = "queued"
      BY DEF Queued
    <3>2. Claimed(j, w).status = "running"
      BY <1>1, <3>1 DEF Claimed, Records
    <3>3. St' = [St EXCEPT ![j] = "running"]
      BY <1>1, <2>1, <3>1, <3>2
    <3> QED BY <2>1, <3>1, <3>3 DEF Tell, Life!Start, Life!Tell, Life!Become
  <2> QED BY <1>12, <2>1 DEF StoreClaim
<1>13. ASSUME NEW w \in Workers, EndReport(w) PROVE UNCHANGED <<job, outbox>> \/ \E j \in Jobs : Life!End(j)
  <2>1. PICK j \in Jobs : j = run[w].job
    BY <1>13 DEF EndReport, Inv, HasJob, TypeOK
  <2>2. run[w].end \in {"done", "failed", "cancelled"}
    BY <1>13 DEF EndReport, Inv, HasJob, TypeOK
  <2>3. CASE /\ Owns(w) /\ job' = [job EXCEPT ![j] = [job[j] EXCEPT !.status = run[w].end, !.lease = "none"]]
             /\ Tell(j, "ended")
    <3>1. St' = [St EXCEPT ![j] = run[w].end]
      BY <1>1, <2>3, StatusSet
    <3>2. St[j] = "running"
      BY <2>1, <2>3 DEF Owns
    <3> QED BY <2>2, <2>3, <3>1, <3>2 DEF Tell, Life!End, Life!Tell, Life!Become
  <2> QED BY <1>13, <2>1, <2>3 DEF EndReport
<1>14. ASSUME NEW w \in Workers, Ask(w) PROVE UNCHANGED <<job, outbox>> \/ \E j \in Jobs : Life!Ask(j)
  <2>1. PICK j \in Jobs : j = run[w].job
    BY <1>14 DEF Ask, Inv, HasJob, TypeOK, Working
  <2>2. CASE /\ Owns(w) /\ Tell(j, "asked")
             /\ job' = [job EXCEPT ![j] = [job[j] EXCEPT !.request = "pending", !.asks = @ + 1, !.lease = "live"]]
    <3>1. Hidden
      BY <1>1, <2>2 DEF Records
    <3>2. St[j] = "running"
      BY <2>1, <2>2 DEF Owns
    <3> QED BY <1>3, <2>2, <3>1, <3>2 DEF Tell, Life!Ask, Life!Tell
  <2> QED BY <1>14, <2>1, <2>2 DEF Ask
<1>15. ASSUME NEW w \in Workers, Heartbeat(w) PROVE Hidden /\ outbox' = outbox
  <2>1. outbox' = outbox /\ (job' = job \/ job' = [job EXCEPT ![run[w].job].lease = "live"])
    BY <1>15 DEF Heartbeat
  <2>2. ASSUME NEW i \in Jobs PROVE job'[i].status = job[i].status
    <3>1. job'[i] = job[i] \/ job'[i] = [job[i] EXCEPT !.lease = "live"]
      BY <1>1, <2>1
    <3> QED BY <1>1, <3>1 DEF Records
  <2> QED BY <2>1, <2>2
<1>16. ASSUME NEW w \in Workers, \/ WriteResult(w) \/ TakeWaiter(w) \/ Park(w) \/ Unpark(w) \/ Return(w) \/ LeaveCall(w)
                                 \/ Await(w) \/ TakeAnswerWaiter(w) \/ Start(w) \/ Stop(w) \/ Crash(w)
       PROVE UNCHANGED <<job, outbox>>
  BY <1>16 DEF WriteResult, TakeWaiter, Park, Unpark, Return, LeaveCall, Await, TakeAnswerWaiter, Start, Stop, Crash
<1>17. Expired \/ RestartService => UNCHANGED <<job, outbox>>
  BY DEF Expired, RestartService
<1>18. CASE Hidden /\ outbox' = outbox
  BY <1>3, <1>18 DEF Life!vars
<1>19. CASE UNCHANGED <<job, outbox>>
  BY <1>18, <1>19
<1>20. CASE \E j \in Jobs : Life!Create(j) \/ Life!Start(j) \/ Life!End(j) \/ Life!Ask(j) \/ Life!Answer(j) \/ Life!Purge(j)
  BY <1>20 DEF Life!Next
<1> HIDE DEF Hidden
<1> QED BY <1>4, <1>5, <1>6, <1>7, <1>8, <1>9, <1>10, <1>11, <1>12, <1>13, <1>14, <1>15, <1>16, <1>17, <1>18, <1>19, <1>20
        DEF Next, Serve, Finish

\* The service implements the life of each job, whatever the calls and failures race.
THEOREM JobsLive == Spec => JobLives
<1>1. Init => Life!Init
  BY DEF Init, Life!Init, Absent
<1>2. UNCHANGED vars => UNCHANGED Life!vars
  BY DEF vars, Life!vars
<1> QED BY <1>1, <1>2, LifeStep, Invariance, PTL DEF Spec, JobLives, Life!Spec
=============================================================================
