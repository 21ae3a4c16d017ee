------------------------ MODULE EngineReplicas_proofs ------------------------
(***************************************************************************)
(* Proofs about the engine replicas, for every number of replicas, of      *)
(* goroutines and every value of the bounds.                               *)
(***************************************************************************)
EXTENDS EngineReplicas, TLAPS

-----------------------------------------------------------------------------
(* Types.  TypeOK is not inductive: a settled step is taken off the count   *)
(* of steps, which must then not be zero, the record of an execution names  *)
(* the execution, and that of a submission a number drawn.                  *)

Counted == /\ stored.open # 0 => stored.steps > 0
           /\ \A t \in Threads : mem[t].open # 0 => mem[t].steps > 0

Executing == \A t \in Threads : pc[t] \in {"checkpoint", "act", "journal"} => mem[t].open # 0

Answering ==
  /\ stored.answer <= given
  /\ \A t \in Threads : mem[t].answer <= given
  /\ \A t \in Threads : pc[t] = "answer" => mem[t].answer \in Answers

TypeInv == TypeOK /\ Counted /\ Executing /\ Answering

\* A goroutine runs on a replica.
LEMMA ThreadsOnReplicas == \A t \in Threads : At(t) \in Replicas
BY ThreadsAssumption DEF At

\* The types hold of a process just started.
LEMMA TypeInit == Init => TypeInv
BY ThreadsOnReplicas, NamesAssumption, BoundsAssumption
DEF Init, TypeInv, TypeOK, Counted, Executing, Answering, Answers, NoLock, Started, Process, NoSection, Holding, Loaded, Statuses, Execs

\* The fields of a process have the types of its fields.
LEMMA Fields ==
  ASSUME NEW p \in Process
  PROVE  /\ p.status \in Statuses /\ p.open \in Execs \union {0} /\ p.disabled \in BOOLEAN
         /\ p.steps \in 0..MaxSteps /\ p.waits \in 0..MaxWaits /\ p.answer \in Answers \union {0}
BY DEF Process

\* A field of a process set to a value of its type leaves a process.
LEMMA Copies ==
  ASSUME NEW p \in Process, NEW s \in Statuses, NEW b \in BOOLEAN
  PROVE  /\ [p EXCEPT !.status = s] \in Process
         /\ [p EXCEPT !.disabled = b] \in Process
         /\ [p EXCEPT !.open = 0] \in Process
         /\ [p EXCEPT !.open = 0, !.disabled = b] \in Process
         /\ p.steps > 0 => [p EXCEPT !.open = 0, !.steps = @ - 1] \in Process
         /\ p.waits < MaxWaits => [p EXCEPT !.status = s, !.waits = @ + 1] \in Process
<1>. USE BoundsAssumption, Fields DEF Process
<1>1. p.steps > 0 => p.steps - 1 \in 0..MaxSteps OBVIOUS
<1>2. p.waits < MaxWaits => p.waits + 1 \in 0..MaxWaits OBVIOUS
<1>. QED BY <1>1, <1>2

\* What a change of one field leaves of the others.
LEMMA Updates ==
  ASSUME NEW p \in Process, NEW s, NEW b, NEW e
  PROVE  /\ LET q == [p EXCEPT !.status = s]
            IN  q.status = s /\ q.open = p.open /\ q.steps = p.steps /\ q.answer = p.answer
         /\ LET q == [p EXCEPT !.status = s, !.waits = @ + 1]
            IN  q.status = s /\ q.open = p.open /\ q.steps = p.steps /\ q.answer = p.answer
         /\ LET q == [p EXCEPT !.disabled = b]
            IN  q.status = p.status /\ q.open = p.open /\ q.steps = p.steps /\ q.answer = p.answer
         /\ LET q == [p EXCEPT !.open = e, !.steps = @ + 1]
            IN  q.status = p.status /\ q.open = e /\ q.steps = p.steps + 1 /\ q.answer = p.answer
         /\ LET q == [p EXCEPT !.answer = b]
            IN  q.status = p.status /\ q.open = p.open /\ q.steps = p.steps /\ q.answer = b
BY DEF Process

\* The execution a cycle begins is a new one, within the bound.
LEMMA NextExecution ==
  ASSUME NEW p \in Process, NEW e \in Execs, p.steps < MaxSteps
  PROVE  [p EXCEPT !.open = e, !.steps = @ + 1] \in Process
<1>1. p.steps + 1 \in 0..MaxSteps BY BoundsAssumption, Fields
<1>. QED BY <1>1, Fields DEF Process

\* The number of a submission is a new one, within the bound, and the process may carry it.
LEMMA NextAnswer ==
  ASSUME NEW g \in 0..MaxAnswers, g < MaxAnswers
  PROVE  g + 1 \in Answers /\ g + 1 \in 0..MaxAnswers
BY BoundsAssumption DEF Answers

LEMMA Answered ==
  ASSUME NEW p \in Process, NEW n \in Answers
  PROVE  [p EXCEPT !.answer = n] \in Process
BY DEF Process

\* A goroutine runs the process, cancels it or submits to it.
LEMMA KindOfThread == \A t \in Threads : Kind(t) \in Kinds
BY ThreadsAssumption DEF Kind

\* What Store.Get leaves a goroutine with, by the call it serves.
LEMMA GetOutcome ==
  ASSUME NEW t \in Threads, Get(t)
  PROVE  /\ pc[t] = "got"
         /\ \/ pc' = [pc EXCEPT ![t] = "settle"] /\ mem' = [mem EXCEPT ![t] = stored] /\ given' = given
            \/ pc' = [pc EXCEPT ![t] = "release"] /\ mem' = [mem EXCEPT ![t] = stored] /\ given' = given
            \/ pc' = [pc EXCEPT ![t] = "release"] /\ mem' = [mem EXCEPT ![t] = mem[t]] /\ given' = given
            \/ /\ ~Terminal(stored.status) /\ given' = given
               /\ pc' = [pc EXCEPT ![t] = "save"] /\ mem' = [mem EXCEPT ![t] = [stored EXCEPT !.status = "cancelled"]]
            \/ /\ stored.status = "waiting" /\ given < MaxAnswers /\ given' = given + 1
               /\ pc' = [pc EXCEPT ![t] = "answer"] /\ mem' = [mem EXCEPT ![t] = [stored EXCEPT !.answer = given + 1]]
         /\ UNCHANGED <<lock, stored, pieces, recorded, used, answers, mutex, section, cancelling, signal, up, intact, dropped, cut>>
BY Zenon DEF Get, Goto, Return, EndedMeanwhile

\* What settling a step leaves of the copy: the step is closed, a count given back or the action disabled.
LEMMA SettleForms ==
  ASSUME NEW t \in Threads, Settle(t)
  PROVE  \/ mem' = mem
         \/ mem' = [mem EXCEPT ![t] = [mem[t] EXCEPT !.open = 0]]
         \/ mem[t].open # 0 /\ mem' = [mem EXCEPT ![t] = [mem[t] EXCEPT !.open = 0, !.steps = @ - 1]]
         \/ mem' = [mem EXCEPT ![t] = [mem[t] EXCEPT !.open = 0, !.disabled = TRUE]]
BY Zenon DEF Settle

\* The copy settled is for the same status and submission, with its step closed or untouched.
LEMMA SettleOutcome ==
  ASSUME NEW t \in Threads, mem \in [Threads -> Process], Settle(t)
  PROVE  \E p : /\ mem' = [mem EXCEPT ![t] = p] /\ p.status = mem[t].status /\ p.answer = mem[t].answer
                /\ p = mem[t] \/ p.open = 0
<1>. DEFINE Closed(p) == p.status = mem[t].status /\ p.answer = mem[t].answer /\ (p = mem[t] \/ p.open = 0)
<1>1. /\ Closed(mem[t]) /\ Closed([mem[t] EXCEPT !.open = 0])
      /\ Closed([mem[t] EXCEPT !.open = 0, !.steps = @ - 1])
      /\ Closed([mem[t] EXCEPT !.open = 0, !.disabled = TRUE])
  BY DEF Process
<1>2. mem = [mem EXCEPT ![t] = mem[t]]
  OBVIOUS
<1>. HIDE DEF Closed
<1>3. \E p : mem' = [mem EXCEPT ![t] = p] /\ Closed(p)
  BY <1>1, <1>2, SettleForms, Zenon
<1>. QED BY <1>3 DEF Closed

\* A step of one goroutine keeps the types.
LEMMA TypeStep ==
  ASSUME TypeInv, NEW t \in Threads, Step(t) \/ Recover(t) \/ Cancel(t) \/ Submit(t)
  PROVE  TypeOK'
<1>. USE ThreadsOnReplicas, NamesAssumption, BoundsAssumption
     DEF TypeInv, TypeOK, Holding, Loaded, Goto, Decide, shared, local, history
<1>. mem[t] \in Process /\ stored \in Process
  OBVIOUS
<1>3. CASE Get(t)
  <2>1. [stored EXCEPT !.status = "cancelled"] \in Process
    BY Copies, Zenon DEF Statuses
  <2>2. given < MaxAnswers => given + 1 \in Answers /\ given + 1 \in 0..MaxAnswers
    BY NextAnswer
  <2>3. given < MaxAnswers => [stored EXCEPT !.answer = given + 1] \in Process
    BY <2>2, Answered
  <2>4. mem' \in [Threads -> Process] /\ given' \in 0..MaxAnswers
    <3>. DEFINE ended == [stored EXCEPT !.status = "cancelled"]
                asked == [stored EXCEPT !.answer = given + 1]
    <3>1. CASE given' = given /\ \E p \in {stored, mem[t], ended} : mem' = [mem EXCEPT ![t] = p]
      <4>1. PICK p \in {stored, mem[t], ended} : mem' = [mem EXCEPT ![t] = p]
        BY <3>1
      <4>2. p \in Process
        BY <2>1
      <4>3. given' \in 0..MaxAnswers
        BY <3>1
      <4>. QED BY <4>1, <4>2, <4>3, Zenon
    <3>2. CASE given < MaxAnswers /\ given' = given + 1 /\ mem' = [mem EXCEPT ![t] = asked]
      <4>. QED BY <2>2, <2>3, <3>2, Zenon
    <3>3. \/ given' = given /\ \E p \in {stored, mem[t], ended} : mem' = [mem EXCEPT ![t] = p]
          \/ given < MaxAnswers /\ given' = given + 1 /\ mem' = [mem EXCEPT ![t] = asked]
      BY <1>3, GetOutcome, Zenon
    <3>. QED BY <3>1, <3>2, <3>3
  <2>5. pc' \in [Threads -> Holding \union {"idle", "interrupt", "mutex", "hold", "unmark"}]
    <3>1. PICK l \in {"settle", "save", "release", "answer"} : pc' = [pc EXCEPT ![t] = l]
      BY <1>3, GetOutcome
    <3>. QED BY <3>1
  <2>6. ctx' \in [Replicas -> {"off", "live", "cancelled"}] /\ stale' \subseteq Threads
    BY <1>3 DEF Get
  <2>7. spent' \in [cancels : 0..MaxCancels, crashes : 0..MaxCrashes,
                    stalls : 0..MaxStalls, faults : 0..MaxFaults]
    <3>1. UNCHANGED spent \/ Fault
      BY <1>3, Zenon DEF Get
    <3>. QED BY <3>1 DEF Fault
  <2>. QED BY <1>3, <2>4, <2>5, <2>6, <2>7, GetOutcome
<1>4. CASE Settle(t)
  <2>1. [mem[t] EXCEPT !.open = 0] \in Process /\ [mem[t] EXCEPT !.open = 0, !.disabled = TRUE] \in Process
    BY Copies, Zenon DEF Statuses
  <2>2. mem[t].open # 0 => [mem[t] EXCEPT !.open = 0, !.steps = @ - 1] \in Process /\ mem[t].open \in Execs
    BY Copies, Fields, Zenon DEF Statuses, Counted
  <2>3. PICK p \in Process : mem' = [mem EXCEPT ![t] = p]
    <3>1. \/ mem' = mem
          \/ mem' = [mem EXCEPT ![t] = [mem[t] EXCEPT !.open = 0]]
          \/ mem[t].open # 0 /\ mem' = [mem EXCEPT ![t] = [mem[t] EXCEPT !.open = 0, !.steps = @ - 1]]
          \/ mem' = [mem EXCEPT ![t] = [mem[t] EXCEPT !.open = 0, !.disabled = TRUE]]
      BY <1>4, SettleForms
    <3>2. CASE mem' = mem BY <3>2
    <3>3. CASE mem' = [mem EXCEPT ![t] = [mem[t] EXCEPT !.open = 0]] BY <2>1, <3>3
    <3>4. CASE mem[t].open # 0 /\ mem' = [mem EXCEPT ![t] = [mem[t] EXCEPT !.open = 0, !.steps = @ - 1]] BY <2>2, <3>4
    <3>5. CASE mem' = [mem EXCEPT ![t] = [mem[t] EXCEPT !.open = 0, !.disabled = TRUE]] BY <2>1, <3>5
    <3>. QED BY <3>1, <3>2, <3>3, <3>4, <3>5
  <2>4. recorded' \subseteq Execs /\ dropped' \subseteq Execs /\ cut' \subseteq Execs
    BY <1>4, <2>2 DEF Settle
  <2>5. mem' \in [Threads -> Process]
    BY <2>3
  <2>6. spent' \in [cancels : 0..MaxCancels, crashes : 0..MaxCrashes,
                    stalls : 0..MaxStalls, faults : 0..MaxFaults]
    BY <1>4 DEF Settle, Fault
  <2>7. PICK l \in {"top", "release"} : pc' = [pc EXCEPT ![t] = l]
    BY <1>4 DEF Settle
  <2>. QED BY <1>4, <2>4, <2>5, <2>6, <2>7 DEF Settle
<1>5. CASE GiveUp(t)
  <2>1. [mem[t] EXCEPT !.status = "failed"] \in Process
    BY Copies, Zenon DEF Statuses
  <2>. QED BY <1>5, <2>1 DEF GiveUp
<1>6. CASE Cycle(t)
  <2>1. mem' \in [Threads -> Process] /\ used' \in 0..MaxExec
    <3>1. \A s \in Statuses : [mem[t] EXCEPT !.status = s] \in Process
      BY Copies
    <3>2. mem[t].waits < MaxWaits => [mem[t] EXCEPT !.status = "waiting", !.waits = @ + 1] \in Process
      BY Copies, Zenon DEF Statuses
    <3>3. used < MaxExec /\ ~StepLimit(mem[t]) =>
            [mem[t] EXCEPT !.open = used + 1, !.steps = @ + 1] \in Process /\ used + 1 \in 0..MaxExec
      <4>. HAVE used < MaxExec /\ ~StepLimit(mem[t])
      <4>1. used + 1 \in Execs /\ used + 1 \in 0..MaxExec
        BY DEF Execs
      <4>2. mem[t].steps < MaxSteps
        BY Fields DEF StepLimit
      <4>. QED BY <4>1, <4>2, NextExecution
    <3>4. {"failed", "completed", "stuck"} \subseteq Statuses BY DEF Statuses
    <3>5. PICK p \in Process, l, n \in 0..MaxExec : mem' = [mem EXCEPT ![t] = p] /\ used' = n
      BY <1>6, <3>1, <3>2, <3>3, <3>4 DEF Cycle
    <3>. QED BY <3>5
  <2>2. spent' \in [cancels : 0..MaxCancels, crashes : 0..MaxCrashes,
                    stalls : 0..MaxStalls, faults : 0..MaxFaults]
    BY <1>6 DEF Cycle, Fault
  <2>3. pc' \in [Threads -> Holding \union {"idle", "interrupt", "mutex", "hold", "unmark"}]
    BY <1>6, Zenon DEF Cycle
  <2>. QED BY <1>6, <2>1, <2>2, <2>3 DEF Cycle
<1>8. CASE Checkpoint(t)
  <2>1. [mem[t] EXCEPT !.status = IF cancelling[At(t)] THEN @ ELSE "failed"] \in Process
    BY Copies, Fields, Zenon DEF Statuses
  <2>2. mem' \in [Threads -> Process] /\ stored' \in Process
    <3>1. CASE Put(t, mem[t]) BY <3>1 DEF Put
    <3>2. CASE stored' = stored /\ mem' = [mem EXCEPT ![t] = [mem[t] EXCEPT !.status = IF cancelling[At(t)] THEN @ ELSE "failed"]]
      BY <3>2, <2>1
    <3>. QED BY <1>8, <3>1, <3>2 DEF Checkpoint
  <2>3. spent' \in [cancels : 0..MaxCancels, crashes : 0..MaxCrashes,
                    stalls : 0..MaxStalls, faults : 0..MaxFaults]
    BY <1>8 DEF Checkpoint, Fault
  <2>4. pc' \in [Threads -> Holding \union {"idle", "interrupt", "mutex", "hold", "unmark"}] /\ stale' \subseteq Threads
    BY <1>8 DEF Checkpoint, Put
  <2>. QED BY <1>8, <2>2, <2>3, <2>4 DEF Checkpoint
<1>9. CASE Write(t)
  <2>1. pieces' \in [Execs -> 0..Pieces]
    <3>1. mem[t].open \in Execs
      BY <1>9, Fields DEF Write, Executing
    <3>2. pieces[mem[t].open] + 1 \in 0..Pieces
      BY <1>9, <3>1 DEF Write
    <3>. QED BY <1>9, <3>2 DEF Write
  <2>. QED BY <1>9, <2>1 DEF Write
<1>10. CASE FinishAction(t)
  <2>1. [mem[t] EXCEPT !.disabled = @ \/ pieces[mem[t].open] < Pieces] \in Process
    <3>1. mem[t].disabled \in BOOLEAN BY Fields
    <3>. QED BY <3>1, Zenon DEF Process
  <2>. QED BY <1>10, <2>1 DEF FinishAction
<1>11. CASE Journal(t)
  <2>1. [mem[t] EXCEPT !.open = 0] \in Process
    BY Copies, Zenon DEF Statuses
  <2>2. mem[t].open \in Execs
    BY <1>11, Fields DEF Journal, Executing
  <2>3. spent' \in [cancels : 0..MaxCancels, crashes : 0..MaxCrashes,
                    stalls : 0..MaxStalls, faults : 0..MaxFaults]
    BY <1>11 DEF Journal, Fault
  <2>. QED BY <1>11, <2>1, <2>2, <2>3 DEF Journal
<1>14. CASE Release(t)
  <2>1. mem' \in [Threads -> Process]
    BY <1>14 DEF Release, Started, Process, Statuses
  <2>2. spent' \in [cancels : 0..MaxCancels, crashes : 0..MaxCrashes,
                    stalls : 0..MaxStalls, faults : 0..MaxFaults]
    <3>1. UNCHANGED spent \/ Fault
      BY <1>14, Zenon DEF Release
    <3>. QED BY <3>1 DEF Fault
  <2>3. pc' \in [Threads -> Holding \union {"idle", "interrupt", "mutex", "hold", "unmark"}]
    BY <1>14 DEF Release
  <2>4. lock' \in [holder : Replicas \union {NoRow, Gone}, live : BOOLEAN, by : BOOLEAN]
    <3>1. Freed(At(t)) \in [holder : Replicas \union {NoRow, Gone}, live : BOOLEAN, by : BOOLEAN]
      BY DEF Freed, NoLock
    <3>. QED BY <1>14, <3>1 DEF Release
  <2>5. section' \in [Replicas -> [held : BOOLEAN, interrupted : BOOLEAN, renewing : BOOLEAN]]
    BY <1>14 DEF Release, NoSection
  <2>6. cancelling' \in [Replicas -> BOOLEAN] /\ signal' \in [Replicas -> {"none", "sent", "loaded", "stale"}]
    BY <1>14 DEF Release
  <2>. QED BY <1>14, <2>1, <2>2, <2>3, <2>4, <2>5, <2>6 DEF Release
<1>15. CASE Interrupt(t)
  <2>1. lock' \in [holder : Replicas \union {NoRow, Gone}, live : BOOLEAN, by : BOOLEAN]
    <3>1. lock' = lock \/ lock' = [lock EXCEPT !.by = TRUE]
      BY <1>15, Zenon DEF Interrupt
    <3>. QED BY <3>1
  <2>2. signal' \in [Replicas -> {"none", "sent", "loaded", "stale"}]
    BY <1>15 DEF Interrupt
  <2>3. spent' \in [cancels : 0..MaxCancels, crashes : 0..MaxCrashes,
                    stalls : 0..MaxStalls, faults : 0..MaxFaults]
    BY <1>15 DEF Interrupt, Fault
  <2>. QED BY <1>15, <2>1, <2>2, <2>3 DEF Interrupt
<1>1. CASE Lock(t) BY <1>1 DEF Lock
<1>2. CASE Acquire(t) BY <1>2 DEF Acquire, Taken
<1>7. CASE Leave(t) BY <1>7 DEF Leave
<1>12. CASE Save(t)
  <2>1. spent' \in [cancels : 0..MaxCancels, crashes : 0..MaxCrashes,
                    stalls : 0..MaxStalls, faults : 0..MaxFaults]
    BY <1>12 DEF Save, Fault
  <2>2. mem' \in [Threads -> Process] /\ stored' \in Process /\ stale' \subseteq Threads
    BY <1>12 DEF Save, Put
  <2>3. PICK l \in {"top", "release", "accepted"} : pc' = [pc EXCEPT ![t] = l]
    BY <1>12, KindOfThread DEF Save, Saved, Kinds
  <2>. QED BY <1>12, <2>1, <2>2, <2>3 DEF Save
<1>13. CASE LetGo(t) BY <1>13 DEF LetGo
<1>16. CASE Unmark(t) BY <1>16 DEF Unmark
<1>17. CASE Recover(t) BY <1>17 DEF Recover
<1>18. CASE Cancel(t)
  <2>1. ctx' \in [Replicas -> {"off", "live", "cancelled"}]
    BY <1>18 DEF Cancel, CancelRun
  <2>2. spent' \in [cancels : 0..MaxCancels, crashes : 0..MaxCrashes,
                    stalls : 0..MaxStalls, faults : 0..MaxFaults]
    BY <1>18, SMTT(20) DEF Cancel
  <2>. QED BY <1>18, <2>1, <2>2 DEF Cancel
<1>19. CASE Submit(t) BY <1>19 DEF Submit
<1>20. CASE Answer(t)
  <2>1. mem[t].answer \in Answers => answers' \in [Answers -> 0..Pieces + 1]
    BY <1>20 DEF Answer
  <2>2. spent' \in [cancels : 0..MaxCancels, crashes : 0..MaxCrashes,
                    stalls : 0..MaxStalls, faults : 0..MaxFaults]
    BY <1>20 DEF Answer, Fault
  <2>3. pc' \in [Threads -> Holding \union {"idle", "interrupt", "mutex", "hold", "unmark"}]
    BY <1>20 DEF Answer
  <2>. QED BY <1>20, <2>1, <2>2, <2>3 DEF Answer, Answering
<1>21. CASE EndAnswer(t)
  <2>1. mem[t].answer \in Answers => answers' \in [Answers -> 0..Pieces + 1]
    BY <1>21 DEF EndAnswer
  <2>2. spent' \in [cancels : 0..MaxCancels, crashes : 0..MaxCrashes,
                    stalls : 0..MaxStalls, faults : 0..MaxFaults]
    BY <1>21 DEF EndAnswer, Fault
  <2>3. pc' \in [Threads -> Holding \union {"idle", "interrupt", "mutex", "hold", "unmark"}]
    BY <1>21 DEF EndAnswer
  <2>4. [mem[t] EXCEPT !.status = "running"] \in Process
    BY Copies, Zenon DEF Statuses
  <2>5. mem' \in [Threads -> Process]
    <3>1. mem' = mem \/ mem' = [mem EXCEPT ![t] = [mem[t] EXCEPT !.status = "running"]]
      BY <1>21, Zenon DEF EndAnswer
    <3>2. PICK p \in Process : mem' = [mem EXCEPT ![t] = p]
      <4>1. mem = [mem EXCEPT ![t] = mem[t]]
        OBVIOUS
      <4>. QED BY <2>4, <3>1, <4>1, Zenon
    <3>. QED BY <3>2
  <2>. QED BY <1>21, <2>1, <2>2, <2>3, <2>5 DEF EndAnswer, Answering
<1>. QED BY <1>1, <1>2, <1>3, <1>4, <1>5, <1>6, <1>7, <1>8, <1>9, <1>10, <1>11, <1>12, <1>13,
            <1>14, <1>15, <1>16, <1>17, <1>18, <1>19, <1>20, <1>21 DEF Step

\* A count of steps is above zero while a step is open.
LEMMA CountedStep ==
  ASSUME TypeInv, NEW t \in Threads, Step(t) \/ Recover(t) \/ Cancel(t) \/ Submit(t)
  PROVE  Counted'
<1>. USE BoundsAssumption DEF TypeInv, TypeOK, Counted, Executing, Goto, Decide, shared, local, history
<1>. DEFINE Fine(p) == p \in Process /\ (p.open # 0 => p.steps > 0)
<1>. Fine(mem[t]) /\ Fine(stored)
  OBVIOUS
<1>1. CASE Get(t)
  <2>1. \A s : /\ LET q == [stored EXCEPT !.status = s] IN q.open # 0 => q.steps > 0
               /\ LET q == [stored EXCEPT !.answer = s] IN q.open # 0 => q.steps > 0
    BY Updates
  <2>2. PICK p : (p.open # 0 => p.steps > 0) /\ mem' = [mem EXCEPT ![t] = p]
    BY <1>1, <2>1, GetOutcome
  <2>. QED BY <1>1, <2>2, GetOutcome
<1>2. CASE Settle(t)
  <2>1. PICK p : (p.open # 0 => p.steps > 0) /\ mem' = [mem EXCEPT ![t] = p]
    BY <1>2, SettleOutcome DEF Process
  <2>. QED BY <1>2, <2>1 DEF Settle
<1>3. CASE GiveUp(t)
  <2>1. PICK p : (p.open # 0 => p.steps > 0) /\ mem' = [mem EXCEPT ![t] = p]
    BY <1>3 DEF GiveUp, Process
  <2>. QED BY <1>3, <2>1 DEF GiveUp
<1>4. CASE Cycle(t)
  <2>1. PICK p : (p.open # 0 => p.steps > 0) /\ mem' = [mem EXCEPT ![t] = p]
    <3>1. \A q : q = [mem[t] EXCEPT !.open = used + 1, !.steps = @ + 1] => q.steps > 0
      BY Updates, Fields
    <3>2. \A s : LET q == [mem[t] EXCEPT !.status = s] IN q.open # 0 => q.steps > 0
      BY Updates
    <3>3. \A s : LET q == [mem[t] EXCEPT !.status = s, !.waits = @ + 1] IN q.open # 0 => q.steps > 0
      BY Updates
    <3>. QED BY <1>4, <3>1, <3>2, <3>3 DEF Cycle
  <2>. QED BY <1>4, <2>1 DEF Cycle
<1>5. CASE Checkpoint(t)
  <2>1. PICK p : (p.open # 0 => p.steps > 0) /\ mem' = [mem EXCEPT ![t] = p] /\ stored' \in {stored, mem[t]}
    BY <1>5 DEF Checkpoint, Put, Process
  <2>. QED BY <1>5, <2>1 DEF Checkpoint
<1>6. CASE FinishAction(t)
  <2>1. PICK p : (p.open # 0 => p.steps > 0) /\ mem' = [mem EXCEPT ![t] = p]
    BY <1>6 DEF FinishAction, Process
  <2>. QED BY <1>6, <2>1 DEF FinishAction
<1>7. CASE Journal(t)
  <2>1. PICK p : (p.open # 0 => p.steps > 0) /\ mem' = [mem EXCEPT ![t] = p]
    BY <1>7 DEF Journal, Process
  <2>. QED BY <1>7, <2>1 DEF Journal
<1>8. CASE Save(t) BY <1>8 DEF Save, Put
<1>9. CASE Release(t) BY <1>9 DEF Release, Started
<1>10. CASE UNCHANGED <<mem, stored>> BY <1>10
<1>11. CASE EndAnswer(t)
  <2>1. LET q == [mem[t] EXCEPT !.status = "running"] IN q.open # 0 => q.steps > 0
    BY Updates
  <2>2. mem' = mem \/ mem' = [mem EXCEPT ![t] = [mem[t] EXCEPT !.status = "running"]]
    BY <1>11, Zenon DEF EndAnswer
  <2>3. stored' = stored
    BY <1>11 DEF EndAnswer
  <2>. QED BY <2>1, <2>2, <2>3
<1>. QED BY <1>1, <1>2, <1>3, <1>4, <1>5, <1>6, <1>7, <1>8, <1>9, <1>10, <1>11
         DEF Step, Lock, Acquire, Leave, Write, Answer, LetGo, Interrupt, Unmark, Recover, Cancel, Submit

\* A goroutine that executes works on a step of its copy.
LEMMA ExecutingStep ==
  ASSUME TypeInv, NEW t \in Threads, Step(t) \/ Recover(t) \/ Cancel(t) \/ Submit(t)
  PROVE  Executing'
<1>. USE BoundsAssumption DEF TypeInv, TypeOK, Executing, Goto, Decide, shared, local, history
<1>1. CASE Get(t)
  <2>1. PICK l \in {"settle", "release", "save", "answer"} : pc' = [pc EXCEPT ![t] = l]
    BY <1>1, GetOutcome
  <2>2. \A u \in Threads \ {t} : mem'[u] = mem[u]
    BY <1>1, GetOutcome
  <2>. QED BY <2>1, <2>2
<1>2. CASE Settle(t) BY <1>2 DEF Settle
<1>3. CASE Cycle(t)
  <2>1. [mem[t] EXCEPT !.open = used + 1, !.steps = @ + 1].open # 0
    BY Updates
  <2>2. pc'[t] = "checkpoint" => mem'[t].open # 0
    BY <1>3, <2>1 DEF Cycle
  <2>3. pc'[t] \in {"checkpoint", "save"} /\ \A u \in Threads \ {t} : pc'[u] = pc[u] /\ mem'[u] = mem[u]
    BY <1>3 DEF Cycle
  <2>. QED BY <2>2, <2>3
<1>4. CASE Checkpoint(t) BY <1>4 DEF Checkpoint, Put
<1>5. CASE FinishAction(t)
  <2>1. \A b : [mem[t] EXCEPT !.disabled = b].open = mem[t].open
    BY Updates
  <2>2. PICK p : mem' = [mem EXCEPT ![t] = p] /\ p.open = mem[t].open
    BY <1>5, <2>1 DEF FinishAction
  <2>. QED BY <1>5, <2>2 DEF FinishAction
<1>6. CASE Release(t) BY <1>6 DEF Release
<1>7. CASE Save(t) BY <1>7, KindOfThread DEF Save, Put, Saved, Kinds
<1>. QED BY <1>1, <1>2, <1>3, <1>4, <1>5, <1>6, <1>7
         DEF Step, Lock, Acquire, GiveUp, Leave, Write, Journal, Answer, EndAnswer, LetGo, Interrupt, Unmark, Recover, Cancel, Submit

\* The submissions named on the row and in memory have been drawn; a goroutine that writes one has its number.
LEMMA AnsweringStep ==
  ASSUME TypeInv, NEW t \in Threads, Step(t) \/ Recover(t) \/ Cancel(t) \/ Submit(t)
  PROVE  Answering'
<1>. USE DEF Goto, Decide, shared, local, history
<1>0. /\ \A u \in Threads : mem[u] \in Process /\ mem[u].answer \in Answers \union {0} /\ mem[u].answer \in Nat
      /\ mem \in [Threads -> Process] /\ stored \in Process /\ given \in Nat /\ given \in 0..MaxAnswers
      /\ pc \in [Threads -> Holding \union {"idle", "interrupt", "mutex", "hold", "unmark"}]
      /\ stored.answer \in Answers \union {0} /\ stored.answer \in Nat
  BY Fields, BoundsAssumption, SMTT(20) DEF TypeInv, TypeOK, Answers
<1>a. /\ stored.answer <= given
      /\ \A u \in Threads : mem[u].answer <= given /\ (pc[u] = "answer" => mem[u].answer \in Answers)
  BY DEF TypeInv, Answering
<1>1. ASSUME given' = given, NEW p, p.answer = mem[t].answer, mem' = [mem EXCEPT ![t] = p], stored' \in {stored, mem[t]},
             \A u \in Threads : pc'[u] = "answer" => pc[u] = "answer"
      PROVE  Answering'
  <2>1. \A u \in Threads : mem'[u].answer = mem[u].answer
    <3>1. mem'[t] = p /\ \A u \in Threads \ {t} : mem'[u] = mem[u]
      BY <1>0, <1>1
    <3>. QED BY <1>1, <3>1
  <2>2. stored'.answer <= given
    BY <1>a, <1>1
  <2>. QED BY <1>a, <1>1, <2>1, <2>2 DEF Answering
<1>2. CASE Get(t)
  <2>1. [stored EXCEPT !.status = "cancelled"].answer = stored.answer
        /\ [stored EXCEPT !.answer = given + 1].answer = given + 1
    BY <1>0, Updates
  <2>2. given < MaxAnswers => given + 1 \in Answers
    BY <1>0, NextAnswer
  <2>3. /\ \/ given' = given /\ mem'[t].answer \in {stored.answer, mem[t].answer} /\ pc'[t] # "answer"
           \/ given' = given + 1 /\ mem'[t].answer = given + 1 /\ given + 1 \in Answers
        /\ stored' = stored
    <3>1. CASE given' = given /\ pc' = [pc EXCEPT ![t] = "settle"] /\ mem' = [mem EXCEPT ![t] = stored]
      BY <1>0, <1>2, <3>1, GetOutcome
    <3>2. CASE given' = given /\ pc' = [pc EXCEPT ![t] = "release"] /\ mem' = [mem EXCEPT ![t] = stored]
      BY <1>0, <1>2, <3>2, GetOutcome
    <3>3. CASE given' = given /\ pc' = [pc EXCEPT ![t] = "release"] /\ mem' = [mem EXCEPT ![t] = mem[t]]
      BY <1>0, <1>2, <3>3, GetOutcome
    <3>4. CASE given' = given /\ pc' = [pc EXCEPT ![t] = "save"] /\ mem' = [mem EXCEPT ![t] = [stored EXCEPT !.status = "cancelled"]]
      BY <1>0, <1>2, <2>1, <3>4, GetOutcome
    <3>5. CASE given < MaxAnswers /\ given' = given + 1 /\ mem' = [mem EXCEPT ![t] = [stored EXCEPT !.answer = given + 1]]
      BY <1>0, <1>2, <2>1, <2>2, <3>5, GetOutcome
    <3>. QED BY <1>2, <3>1, <3>2, <3>3, <3>4, <3>5, GetOutcome
  <2>4. \A u \in Threads \ {t} : mem'[u] = mem[u] /\ pc'[u] = pc[u]
    BY <1>0, <1>2, GetOutcome
  <2>5. mem[t].answer <= given /\ stored.answer <= given
    BY <1>a
  <2>6. mem'[t].answer <= given' /\ stored'.answer <= given' /\ given <= given' /\ given' \in Nat
    BY <1>0, <2>3, <2>5
  <2>7. \A u \in Threads \ {t} : mem'[u].answer <= given' /\ (pc'[u] = "answer" => mem'[u].answer \in Answers)
    <3>. SUFFICES ASSUME NEW u \in Threads \ {t} PROVE mem'[u].answer <= given' /\ (pc'[u] = "answer" => mem'[u].answer \in Answers)
      OBVIOUS
    <3>1. mem[u].answer <= given /\ mem[u].answer \in Nat /\ (pc[u] = "answer" => mem[u].answer \in Answers)
      BY <1>0, <1>a
    <3>2. mem[u].answer <= given'
      BY <1>0, <2>6, <3>1
    <3>. QED BY <2>4, <3>1, <3>2
  <2>8. pc'[t] = "answer" => mem'[t].answer \in Answers
    BY <2>3
  <2>. QED BY <2>6, <2>7, <2>8 DEF Answering
<1>3. CASE Settle(t)
  <2>1. PICK p : p.answer = mem[t].answer /\ mem' = [mem EXCEPT ![t] = p]
    BY <1>0, <1>3, SettleOutcome
  <2>2. given' = given /\ stored' = stored /\ \A u \in Threads : pc'[u] = "answer" => pc[u] = "answer"
    BY <1>0, <1>3 DEF Settle
  <2>. QED BY <1>1, <2>1, <2>2
<1>4. CASE GiveUp(t) \/ Cycle(t) \/ Checkpoint(t) \/ FinishAction(t) \/ Journal(t) \/ EndAnswer(t)
  <2>0. /\ \A s : /\ [mem[t] EXCEPT !.status = s].answer = mem[t].answer
                  /\ [mem[t] EXCEPT !.status = s, !.waits = @ + 1].answer = mem[t].answer
                  /\ [mem[t] EXCEPT !.disabled = s].answer = mem[t].answer
        /\ [mem[t] EXCEPT !.open = used + 1, !.steps = @ + 1].answer = mem[t].answer
        /\ [mem[t] EXCEPT !.open = 0].answer = mem[t].answer
    BY <1>0, Updates DEF Process
  <2>1. PICK p : p.answer = mem[t].answer /\ mem' = [mem EXCEPT ![t] = p]
    <3>1. CASE GiveUp(t) BY <2>0, <3>1 DEF GiveUp
    <3>2. CASE Cycle(t) BY <2>0, <3>2 DEF Cycle
    <3>3. CASE Checkpoint(t) BY <2>0, <3>3 DEF Checkpoint, Put
    <3>4. CASE FinishAction(t) BY <2>0, <3>4 DEF FinishAction
    <3>5. CASE Journal(t) BY <2>0, <3>5 DEF Journal
    <3>6. CASE EndAnswer(t)
      <4>1. mem' = mem \/ mem' = [mem EXCEPT ![t] = [mem[t] EXCEPT !.status = "running"]]
        BY <3>6 DEF EndAnswer
      <4>2. mem = [mem EXCEPT ![t] = mem[t]]
        BY <1>0
      <4>. QED BY <2>0, <4>1, <4>2
    <3>. QED BY <1>4, <3>1, <3>2, <3>3, <3>4, <3>5, <3>6
  <2>2. given' = given /\ stored' \in {stored, mem[t]} /\ \A u \in Threads : pc'[u] = "answer" => pc[u] = "answer"
    BY <1>0, <1>4 DEF GiveUp, Cycle, Checkpoint, FinishAction, Journal, EndAnswer, Put
  <2>. QED BY <1>1, <2>1, <2>2
<1>5. CASE Save(t)
  <2>1. given' = given /\ stored' \in {stored, mem[t]} /\ mem' = [mem EXCEPT ![t] = mem[t]]
    BY <1>0, <1>5 DEF Save, Put
  <2>2. PICK l \in {"top", "release", "accepted"} : pc' = [pc EXCEPT ![t] = l]
    BY <1>5, KindOfThread DEF Save, Saved, Kinds
  <2>. QED BY <1>0, <1>1, <2>1, <2>2
<1>6. CASE Release(t)
  <2>1. \A u \in Threads : mem'[u].answer \in {0, mem[u].answer} /\ (pc'[u] = "answer" => pc[u] = "answer" /\ mem'[u] = mem[u])
    BY <1>0, <1>6 DEF Release, Started
  <2>2. given' = given /\ stored' = stored
    BY <1>6 DEF Release
  <2>. QED BY <1>0, <1>a, <2>1, <2>2 DEF Answering
<1>7. CASE Lock(t) \/ Acquire(t) \/ Leave(t) \/ Write(t) \/ Answer(t) \/ LetGo(t) \/ Interrupt(t) \/ Unmark(t)
           \/ Recover(t) \/ Cancel(t) \/ Submit(t)
  <2>1. UNCHANGED <<mem, given, stored>> /\ \A u \in Threads : pc'[u] = "answer" => pc[u] = "answer"
    BY <1>0, <1>7 DEF Lock, Acquire, Leave, Write, Answer, LetGo, Interrupt, Unmark, Recover, Cancel, Submit
  <2>. QED BY <1>a, <2>1 DEF Answering
<1>. QED BY <1>2, <1>3, <1>4, <1>5, <1>6, <1>7 DEF Step

\* A mark set on a section leaves a section.
LEMMA SectionUpdates ==
  ASSUME NEW x \in [held : BOOLEAN, interrupted : BOOLEAN, renewing : BOOLEAN], NEW b \in BOOLEAN
  PROVE  /\ [x EXCEPT !.interrupted = b] \in [held : BOOLEAN, interrupted : BOOLEAN, renewing : BOOLEAN]
         /\ [x EXCEPT !.renewing = b] \in [held : BOOLEAN, interrupted : BOOLEAN, renewing : BOOLEAN]
OBVIOUS

\* A step of a replica, or of time, keeps the types.
LEMMA TypeWorld ==
  ASSUME TypeInv, (\E r \in Replicas : Renew(r) \/ HandleSignal(r) \/ Crash(r) \/ Restart(r)) \/ Lapse
  PROVE  TypeInv'
<1>m. \A r \in Replicas : /\ [section[r] EXCEPT !.interrupted = TRUE] \in [held : BOOLEAN, interrupted : BOOLEAN, renewing : BOOLEAN]
                         /\ [section[r] EXCEPT !.renewing = FALSE] \in [held : BOOLEAN, interrupted : BOOLEAN, renewing : BOOLEAN]
  <2>1. \A r \in Replicas : section[r] \in [held : BOOLEAN, interrupted : BOOLEAN, renewing : BOOLEAN]
    BY DEF TypeInv, TypeOK
  <2>. QED BY <2>1, SectionUpdates
<1>. USE ThreadsOnReplicas, NamesAssumption, BoundsAssumption
     DEF TypeInv, TypeOK, Counted, Executing, Answering, Holding, Loaded, shared, local, history
<1>. DEFINE SectionType == [held : BOOLEAN, interrupted : BOOLEAN, renewing : BOOLEAN]
            LockType == [holder : Replicas \union {NoRow, Gone}, live : BOOLEAN, by : BOOLEAN]
<1>0. ASSUME NEW r \in Replicas, NEW asked, InterruptSection(r, asked)
      PROVE  /\ section' \in [Replicas -> SectionType]
             /\ cancelling' \in [Replicas -> BOOLEAN] /\ ctx' \in [Replicas -> {"off", "live", "cancelled"}]
  <2>1. section' \in [Replicas -> SectionType]
    <3>1. CASE section' = [section EXCEPT ![r].interrupted = TRUE] BY <1>m, <3>1
    <3>2. CASE section' = section BY <3>2
    <3>. QED BY <1>0, <3>1, <3>2 DEF InterruptSection
  <2>2. cancelling' \in [Replicas -> BOOLEAN] BY <1>0 DEF InterruptSection
  <2>3. ctx' \in [Replicas -> {"off", "live", "cancelled"}] BY <1>0 DEF InterruptSection, CancelRun
  <2>. QED BY <2>1, <2>2, <2>3
<1>1. ASSUME NEW r \in Replicas, Renew(r) PROVE TypeInv'
  <2>1. CASE CanTake(r) /\ lock' = Taken(r) /\ InterruptSection(r, Taken(r).by)
    <3>1. lock' \in LockType BY <2>1 DEF Taken
    <3>. QED BY <1>0, <1>1, <2>1, <3>1 DEF Renew
  <2>2. CASE section' = [section EXCEPT ![r].renewing = FALSE] /\ ctx' = CancelRun(ctx, r) /\ UNCHANGED <<lock, cancelling>>
    <3>1. section' \in [Replicas -> SectionType] BY <1>m, <2>2
    <3>2. ctx' \in [Replicas -> {"off", "live", "cancelled"}] BY <2>2 DEF CancelRun
    <3>. QED BY <1>1, <2>2, <3>1, <3>2 DEF Renew
  <2>. QED BY <1>1, <2>1, <2>2 DEF Renew
<1>2. ASSUME NEW r \in Replicas, HandleSignal(r) PROVE TypeInv'
  <2>1. /\ section' \in [Replicas -> SectionType]
        /\ cancelling' \in [Replicas -> BOOLEAN] /\ ctx' \in [Replicas -> {"off", "live", "cancelled"}]
    BY <1>0, <1>2 DEF HandleSignal, Signalled, CancelRun
  <2>2. signal' \in [Replicas -> {"none", "sent", "loaded", "stale"}]
    <3>1. PICK v \in {"none", "loaded"} : signal' = [signal EXCEPT ![r] = v]
      BY <1>2 DEF HandleSignal, Signalled
    <3>. QED BY <3>1
  <2>. QED BY <1>2, <2>1, <2>2 DEF HandleSignal
<1>3. ASSUME NEW r \in Replicas, Crash(r) PROVE TypeInv'
  <2>1. Started \in Process /\ Started.open = 0 /\ Started.answer = 0
    BY DEF Started, Process, Statuses
  <2>2. lock' \in LockType /\ spent' \in [cancels : 0..MaxCancels, crashes : 0..MaxCrashes,
                                          stalls : 0..MaxStalls, faults : 0..MaxFaults]
    <3>1. lock' \in LockType BY <1>3 DEF Crash
    <3>2. spent' \in [cancels : 0..MaxCancels, crashes : 0..MaxCrashes,
                     stalls : 0..MaxStalls, faults : 0..MaxFaults]
      <4>1. spent.crashes + 1 \in 0..MaxCrashes BY <1>3 DEF Crash
      <4>2. spent' = [spent EXCEPT !.crashes = @ + 1] BY <1>3 DEF Crash
      <4>. QED BY <4>1, <4>2
    <3>. QED BY <3>1, <3>2
  <2>3. section' \in [Replicas -> SectionType] /\ signal' \in [Replicas -> {"none", "sent", "loaded", "stale"}]
    BY <1>3 DEF Crash, NoSection
  <2>4. mem' \in [Threads -> Process] /\ Counted'
    BY <1>3, <2>1 DEF Crash
  <2>5. pc' \in [Threads -> Holding \union {"idle", "interrupt", "mutex", "hold", "unmark"}] /\ Executing'
    BY <1>3 DEF Crash
  <2>6. Answering'
    <3>1. \A t \in Threads : (mem'[t] = mem[t] /\ pc'[t] = pc[t]) \/ (mem'[t] = Started /\ pc'[t] = "idle")
      BY <1>3 DEF Crash
    <3>2. given \in Nat /\ given' = given /\ stored' = stored
      <4>1. given \in 0..MaxAnswers
        OBVIOUS
      <4>. QED BY <1>3, <4>1 DEF Crash
    <3>3. Answering
      BY DEF TypeInv
    <3>4. \A t \in Threads : mem'[t].answer <= given' /\ (pc'[t] = "answer" => mem'[t].answer \in Answers)
      BY <2>1, <3>1, <3>2, <3>3
    <3>. QED BY <3>2, <3>3, <3>4
  <2>. QED BY <1>3, <2>2, <2>3, <2>4, <2>5, <2>6 DEF Crash
<1>4. ASSUME NEW r \in Replicas, Restart(r) PROVE TypeInv'
  BY <1>4 DEF Restart
<1>5. CASE Lapse
  <2>1. lock' \in LockType /\ spent' \in [cancels : 0..MaxCancels, crashes : 0..MaxCrashes,
                                          stalls : 0..MaxStalls, faults : 0..MaxFaults]
    <3>1. lock' \in LockType BY <1>5 DEF Lapse
    <3>2. spent' \in [cancels : 0..MaxCancels, crashes : 0..MaxCrashes,
                     stalls : 0..MaxStalls, faults : 0..MaxFaults]
      <4>1. spent' = spent \/ (spent.stalls < MaxStalls /\ spent' = [spent EXCEPT !.stalls = @ + 1])
        BY <1>5, Zenon DEF Lapse
      <4>. QED BY <4>1
    <3>. QED BY <3>1, <3>2
  <2>. QED BY <1>5, <2>1 DEF Lapse
<1>. QED BY <1>1, <1>2, <1>3, <1>4, <1>5

\* Every step keeps the types, the counts and the executions.
LEMMA TypeInvStep == TypeInv /\ [Next]_vars => TypeInv'
<1>. SUFFICES ASSUME TypeInv, [Next]_vars PROVE TypeInv'
  OBVIOUS
<1>1. ASSUME NEW t \in Threads, Step(t) \/ Recover(t) \/ Cancel(t) \/ Submit(t) PROVE TypeInv'
  BY <1>1, TypeStep, CountedStep, ExecutingStep, AnsweringStep DEF TypeInv
<1>2. CASE UNCHANGED vars
  BY <1>2 DEF TypeInv, TypeOK, Counted, Executing, Answering, vars, shared, local, history
<1>. QED BY <1>1, <1>2, TypeWorld DEF Next

\* Every variable keeps to its type, whatever the replicas do.
THEOREM TypeCorrect == Spec => []TypeOK
<1>1. TypeInv => TypeOK
  BY DEF TypeInv
<1>. QED BY <1>1, TypeInit, TypeInvStep, PTL DEF Spec

-----------------------------------------------------------------------------
(* The lock.  A goroutine between Engine.lock and its unlock has the mutex  *)
(* of its replica; a replica whose lease never lapsed since its section     *)
(* began is the one on the row, and its lease is live; so no other replica  *)
(* can take the lock, and none passes the fence of SQLStore.put.            *)

MutexHeld == \A t \in Threads : pc[t] \in Holding \union {"hold"} => mutex[At(t)] = t

IntactHolds == \A r \in Replicas : intact[r] => lock.holder = r /\ lock.live

LockInv == TypeInv /\ MutexHeld /\ IntactHolds /\ HolderCopyFresh

\* Nobody holds the lock at first.
LEMMA LockInit == Init => MutexHeld /\ IntactHolds /\ HolderCopyFresh
BY DEF Init, MutexHeld, IntactHolds, HolderCopyFresh, Holding, Loaded

\* Two goroutines with an unbroken lease are one: the row names one replica, its mutex one goroutine.
LEMMA OneAtATime ==
  ASSUME LockInv, NEW t \in Threads, NEW u \in Threads,
         pc[t] \in Holding, pc[u] \in Holding, intact[At(t)], intact[At(u)]
  PROVE  t = u
<1>1. At(t) = At(u)
  BY ThreadsOnReplicas DEF LockInv, IntactHolds
<1>. QED BY <1>1 DEF LockInv, MutexHeld

\* The fence: a write that is let through leaves no other goroutine with an unbroken lease behind.
LEMMA Fence ==
  ASSUME LockInv, NEW t \in Threads, pc[t] \in Holding, ~Fenced(At(t)),
         NEW u \in Threads, pc[u] \in Holding, intact[At(u)]
  PROVE  t = u
<1>1. At(t) = At(u)
  BY ThreadsOnReplicas, NamesAssumption DEF LockInv, IntactHolds, Fenced
<1>. QED BY <1>1 DEF LockInv, MutexHeld

\* Engine.locks lets one goroutine of a replica in: every step keeps it so.
LEMMA MutexStep == LockInv /\ [Next]_vars => MutexHeld'
<1>. SUFFICES ASSUME LockInv, [Next]_vars PROVE MutexHeld'
  OBVIOUS
<1>. USE ThreadsOnReplicas, NamesAssumption
     DEF LockInv, TypeInv, TypeOK, MutexHeld, Holding, Loaded, Goto, Decide, shared, local, history
<1>1. ASSUME NEW t \in Threads, Lock(t) PROVE MutexHeld' BY <1>1 DEF Lock
<1>2. ASSUME NEW t \in Threads, Release(t) PROVE MutexHeld' BY <1>2 DEF Release
<1>3. ASSUME NEW t \in Threads, Acquire(t) \/ Get(t) \/ Settle(t) \/ GiveUp(t) \/ Cycle(t) \/ Leave(t)
      PROVE  MutexHeld'
  <2>1. CASE Get(t)
    <3>1. PICK l \in {"settle", "release", "save", "answer"} : pc' = [pc EXCEPT ![t] = l]
      BY <2>1, GetOutcome
    <3>2. pc[t] \in Holding /\ mutex' = mutex
      BY <2>1, GetOutcome
    <3>. QED BY <3>1, <3>2
  <2>2. CASE Cycle(t) BY <2>2 DEF Cycle, Cycles
  <2>. QED BY <1>3, <2>1, <2>2 DEF Acquire, Settle, GiveUp, Cycles, Leave
<1>4. ASSUME NEW t \in Threads, Checkpoint(t) \/ Write(t) \/ FinishAction(t) \/ Journal(t) \/ Save(t) \/ LetGo(t)
                               \/ Answer(t) \/ EndAnswer(t)
      PROVE  MutexHeld'
  BY <1>4, KindOfThread DEF Checkpoint, Put, Write, FinishAction, Journal, Save, Saved, Kinds, LetGo, Answer, EndAnswer
<1>5. ASSUME NEW t \in Threads, Interrupt(t) \/ Unmark(t) \/ Recover(t) \/ Cancel(t) \/ Submit(t)
      PROVE  MutexHeld'
  BY <1>5 DEF Interrupt, Unmark, Recover, Cancel, Submit
<1>6. ASSUME NEW r \in Replicas, Renew(r) \/ HandleSignal(r) \/ Crash(r) \/ Restart(r) PROVE MutexHeld'
  BY <1>6 DEF Renew, HandleSignal, Crash, Restart
<1>7. CASE Lapse \/ UNCHANGED vars BY <1>7 DEF Lapse, vars
<1>. QED BY <1>1, <1>2, <1>3, <1>4, <1>5, <1>6, <1>7 DEF Next, Step

\* A lease that never lapsed is on the row, in its holder's name: every step keeps it so.
LEMMA IntactStep == LockInv /\ [Next]_vars => IntactHolds'
<1>. SUFFICES ASSUME LockInv, [Next]_vars PROVE IntactHolds'
  OBVIOUS
<1>. USE ThreadsOnReplicas, NamesAssumption
     DEF LockInv, TypeInv, TypeOK, IntactHolds, CanTake, Taken, shared, local, history
<1>1. ASSUME NEW t \in Threads, Acquire(t) PROVE IntactHolds' BY <1>1 DEF Acquire
<1>2. ASSUME NEW t \in Threads, Release(t) PROVE IntactHolds' BY <1>2 DEF Release, Freed
<1>3. ASSUME NEW t \in Threads, Interrupt(t) PROVE IntactHolds' BY <1>3 DEF Interrupt
<1>4. ASSUME NEW r \in Replicas, Renew(r) PROVE IntactHolds' BY <1>4 DEF Renew
<1>5. ASSUME NEW r \in Replicas, Crash(r) PROVE IntactHolds' BY <1>5 DEF Crash
<1>6. CASE Lapse BY <1>6 DEF Lapse
<1>7. CASE UNCHANGED <<lock, intact>> BY <1>7
<1>8. ASSUME NEW t \in Threads, Step(t) \/ Recover(t) \/ Cancel(t) \/ Submit(t) PROVE IntactHolds'
  <2>1. CASE Lock(t) \/ Get(t) \/ Settle(t) \/ GiveUp(t) \/ Cycle(t) \/ Leave(t) \/ Checkpoint(t) \/ Write(t)
    BY <1>7, <2>1 DEF Lock, Get, Settle, GiveUp, Cycle, Leave, Checkpoint, Write
  <2>2. CASE FinishAction(t) \/ Journal(t) \/ Answer(t) \/ EndAnswer(t) \/ Save(t) \/ LetGo(t) \/ Unmark(t)
             \/ Recover(t) \/ Cancel(t) \/ Submit(t)
    BY <1>7, <2>2 DEF FinishAction, Journal, Answer, EndAnswer, Save, LetGo, Unmark, Recover, Cancel, Submit
  <2>. QED BY <1>1, <1>2, <1>3, <1>8, <2>1, <2>2 DEF Step
<1>9. ASSUME NEW r \in Replicas, HandleSignal(r) \/ Restart(r) PROVE IntactHolds'
  BY <1>7, <1>9 DEF HandleSignal, Restart
<1>. QED BY <1>4, <1>5, <1>6, <1>7, <1>8, <1>9 DEF Next, vars

\* A goroutine with an unbroken lease has the row as it is: only its own write changes the row.
LEMMA FreshStep == LockInv /\ [Next]_vars => HolderCopyFresh'
<1>. SUFFICES ASSUME LockInv, [Next]_vars PROVE HolderCopyFresh'
  OBVIOUS
<1>. USE ThreadsOnReplicas, NamesAssumption
     DEF TypeInv, TypeOK, HolderCopyFresh, Goto, Decide, shared, local, history
<1>0. TypeInv /\ MutexHeld /\ IntactHolds /\ HolderCopyFresh
  BY DEF LockInv
<1>1. ASSUME NEW t \in Threads, Acquire(t) PROVE HolderCopyFresh'
  <2>1. \A u \in Threads \ {t} : At(u) = At(t) => pc[u] \notin Loaded
    BY <1>0, <1>1 DEF Acquire, MutexHeld, Holding
  <2>. QED BY <1>0, <1>1, <2>1 DEF Acquire, Loaded
<1>2. ASSUME NEW t \in Threads, Get(t) PROVE HolderCopyFresh'
  <2>1. stale' = stale \ {t} /\ intact' = intact /\ \A u \in Threads \ {t} : pc'[u] = pc[u]
    <3>1. intact' = intact /\ \A u \in Threads \ {t} : pc'[u] = pc[u]
      BY <1>0, <1>2, GetOutcome
    <3>2. stale' = stale \ {t}
      BY <1>2, Zenon DEF Get
    <3>. QED BY <3>1, <3>2
  <2>. QED BY <1>0, <2>1
<1>3. ASSUME NEW t \in Threads, Checkpoint(t) \/ Save(t) PROVE HolderCopyFresh'
  <2>1. pc[t] \in Loaded /\ \A u \in Threads \ {t} : pc'[u] = pc[u]
    BY <1>0, <1>3 DEF Checkpoint, Save, Put, Loaded
  <2>2. CASE stale' = stale
    BY <1>0, <1>3, <2>1, <2>2 DEF Checkpoint, Save
  <2>3. CASE ~Fenced(At(t)) /\ stale' = (stale \union {u \in Threads : pc[u] \in Loaded}) \ {t}
    <3>1. \A u \in Threads \ {t} : pc[u] \in Loaded => ~intact[At(u)]
      BY <2>1, <2>3, Fence DEF Holding
    <3>. QED BY <1>0, <1>3, <2>1, <2>3, <3>1 DEF Checkpoint, Save
  <2>. QED BY <1>3, <2>2, <2>3 DEF Checkpoint, Save, Put
<1>4. ASSUME NEW t \in Threads, Settle(t) \/ GiveUp(t) \/ Cycle(t) \/ FinishAction(t) \/ Journal(t)
                               \/ Answer(t) \/ EndAnswer(t)
      PROVE  HolderCopyFresh'
  <2>1. stale' = stale /\ intact' = intact /\ \A u \in Threads : pc'[u] \in Loaded => pc[u] \in Loaded
    BY <1>0, <1>4 DEF Settle, GiveUp, Cycle, Cycles, FinishAction, Journal, Answer, EndAnswer, Loaded
  <2>. QED BY <1>0, <2>1
<1>5. ASSUME NEW t \in Threads, Lock(t) \/ Leave(t) \/ Write(t) \/ LetGo(t) \/ Interrupt(t) \/ Unmark(t)
                               \/ Recover(t) \/ Cancel(t) \/ Submit(t)
      PROVE HolderCopyFresh'
  <2>1. stale' = stale /\ intact' = intact /\ \A u \in Threads : pc'[u] \in Loaded => pc[u] \in Loaded
    BY <1>0, <1>5 DEF Lock, Leave, Write, LetGo, Interrupt, Unmark, Recover, Cancel, Submit, Loaded
  <2>. QED BY <1>0, <2>1
<1>6. ASSUME NEW t \in Threads, Release(t) PROVE HolderCopyFresh'
  BY <1>0, <1>6 DEF Release, Loaded
<1>7. ASSUME NEW r \in Replicas, Crash(r) PROVE HolderCopyFresh'
  BY <1>0, <1>7 DEF Crash, Loaded, On
<1>8. ASSUME NEW r \in Replicas, Renew(r) \/ HandleSignal(r) \/ Restart(r) PROVE HolderCopyFresh'
  BY <1>0, <1>8 DEF Renew, HandleSignal, Restart
<1>9. CASE Lapse \/ UNCHANGED vars
  BY <1>0, <1>9 DEF Lapse, vars
<1>. QED BY <1>1, <1>2, <1>3, <1>4, <1>5, <1>6, <1>7, <1>8, <1>9 DEF Next, Step

\* The inductive invariant of the lock.
LEMMA LockInvariant == Spec => []LockInv
<1>1. Init => LockInv
  BY TypeInit, LockInit DEF LockInv
<1>2. LockInv /\ [Next]_vars => LockInv'
  BY TypeInvStep, MutexStep, IntactStep, FreshStep DEF LockInv
<1>. QED BY <1>1, <1>2, PTL DEF Spec

\* A goroutine whose replica's lease never lapsed works on the process row as it is.
THEOREM HolderWorksOnTheRow == Spec => []HolderCopyFresh
<1>1. LockInv => HolderCopyFresh
  BY DEF LockInv
<1>. QED BY <1>1, LockInvariant, PTL

\* Of all the goroutines of all the replicas, one at most works on the process under an unbroken lease.
THEOREM AtMostOneExecutor == Spec => []OneExecutor
<1>1. LockInv => OneExecutor
  BY OneAtATime DEF OneExecutor
<1>. QED BY <1>1, LockInvariant, PTL

-----------------------------------------------------------------------------
(* One executor.  Where no lease lapses under a holder that works, every    *)
(* goroutine in a section has an unbroken lease, is alone, and its copy     *)
(* follows the row; the replicas then implement ProcessLife.  Without that  *)
(* assumption they do not: the run engine_overwrite.                        *)

SectionsIntact ==
  /\ \A t \in Threads : pc[t] \in Holding => section[At(t)].renewing
  /\ \A r \in Replicas : section[r].renewing => intact[r]

\* The status q may be written over the status s.
MayFollow(s, q) ==
  \/ s = "running" /\ q \in {"running", "waiting", "stuck", "failed"}
  \/ s = "running" /\ q = "completed" /\ EffectsMet
  \/ s = "waiting" /\ q = "running"
  \/ s \in Statuses /\ ~Terminal(s) /\ q = "cancelled"

\* The process q may be written over the process p: it goes on after a person with one later whole submission.
Follows(p, q) ==
  /\ MayFollow(p.status, q.status)
  /\ IF p.status = "waiting" /\ q.status = "running"
     THEN q.answer \in Answers /\ q.answer > p.answer /\ answers[q.answer] >= Pieces
     ELSE q.answer = p.answer

Faithful == \A t \in Threads :
  /\ pc[t] \in {"settle", "top"} => mem[t].status = stored.status /\ mem[t].answer = stored.answer
  /\ pc[t] \in {"checkpoint", "act", "journal"} =>
       stored.status = "running" /\ mem[t].status = "running" /\ mem[t].answer = stored.answer
  /\ pc[t] = "answer" => stored.status = "waiting" /\ mem[t].answer \in Answers /\ mem[t].answer > stored.answer
  /\ pc[t] = "save" => Follows(stored, mem[t])

LifeInv == LockInv /\ SectionsIntact /\ Faithful

\* It holds of a process just started.
LEMMA LifeInit == Init => SectionsIntact /\ Faithful
BY DEF Init, SectionsIntact, Faithful, Holding, Loaded, NoSection

\* Without stalls, the goroutines between lock and unlock are one.
LEMMA Alone ==
  ASSUME LifeInv, NEW t \in Threads, NEW u \in Threads, pc[t] \in Holding, pc[u] \in Holding
  PROVE  t = u
BY OneAtATime, ThreadsOnReplicas DEF LifeInv, SectionsIntact

\* Without stalls, no lease lapses under a section: every step keeps it so.
LEMMA SectionsStep == MaxStalls = 0 /\ LifeInv /\ [Next]_vars => SectionsIntact'
<1>. SUFFICES ASSUME MaxStalls = 0, LifeInv, [Next]_vars PROVE SectionsIntact'
  OBVIOUS
<1>. USE ThreadsOnReplicas, NamesAssumption
     DEF SectionsIntact, TypeInv, TypeOK, Goto, Decide, shared, local, history
<1>0. TypeInv /\ MutexHeld /\ IntactHolds /\ SectionsIntact
  BY DEF LifeInv, LockInv
<1>1. ASSUME NEW t \in Threads, Acquire(t) PROVE SectionsIntact'
  BY <1>0, <1>1 DEF Acquire, Holding, Loaded
<1>2. ASSUME NEW t \in Threads, Release(t) PROVE SectionsIntact'
  <2>1. \A u \in Threads \ {t} : At(u) = At(t) => pc[u] \notin Holding
    BY <1>0, <1>2 DEF Release, MutexHeld, Holding
  <2>2. pc'[t] \notin Holding /\ \A u \in Threads \ {t} : pc'[u] = pc[u] \/ pc'[u] = "mutex"
    BY <1>0, <1>2 DEF Release, Holding, Loaded
  <2>. QED BY <1>0, <1>2, <2>1, <2>2 DEF Release, NoSection, Holding, Loaded
<1>3. ASSUME NEW t \in Threads, UNCHANGED <<section, intact>>, \A u \in Threads : pc'[u] \in Holding => pc[u] \in Holding
      PROVE  SectionsIntact'
  BY <1>0, <1>3
<1>4. ASSUME NEW r \in Replicas, Renew(r) PROVE SectionsIntact'
  <2>1. CanTake(r)
    BY <1>0, <1>4 DEF Renew, CanTake, IntactHolds
  <2>2. section' = section \/ section' = [section EXCEPT ![r].interrupted = TRUE]
    BY <1>4, <2>1, Zenon DEF Renew, InterruptSection
  <2>3. \A s \in Replicas : section'[s].renewing = section[s].renewing
    BY <1>0, <2>2
  <2>4. UNCHANGED <<pc, intact>>
    BY <1>4, Zenon DEF Renew
  <2>. QED BY <1>0, <2>3, <2>4
<1>5. ASSUME NEW r \in Replicas, HandleSignal(r) PROVE SectionsIntact'
  <2>1. intact' = intact /\ pc' = pc /\ \A s \in Replicas : section'[s].renewing = section[s].renewing
    BY <1>0, <1>5 DEF HandleSignal, Signalled, InterruptSection
  <2>. QED BY <1>0, <2>1
<1>6. ASSUME NEW r \in Replicas, Crash(r) PROVE SectionsIntact'
  BY <1>0, <1>6 DEF Crash, NoSection, Holding, Loaded
<1>7. ASSUME NEW r \in Replicas, Restart(r) PROVE SectionsIntact'
  BY <1>0, <1>7 DEF Restart
<1>8. CASE Lapse
  <2>1. ~(lock.holder \in Replicas /\ section[lock.holder].renewing)
    BY <1>0, <1>8 DEF Lapse
  <2>. QED BY <1>0, <1>8, <2>1 DEF Lapse
<1>9. CASE UNCHANGED vars BY <1>0, <1>9 DEF vars
<1>10. ASSUME NEW t \in Threads, Step(t) \/ Recover(t) \/ Cancel(t) \/ Submit(t) PROVE SectionsIntact'
  <2>1. CASE Get(t) \/ Settle(t) \/ GiveUp(t) \/ Cycle(t) \/ Leave(t)
    <3>1. pc[t] \in Holding /\ \A u \in Threads \ {t} : pc'[u] = pc[u]
      <4>1. CASE Get(t)
        <5>1. pc[t] = "got" /\ \E l : pc' = [pc EXCEPT ![t] = l]
          BY <4>1, GetOutcome
        <5>. QED BY <1>0, <5>1 DEF Holding
      <4>2. CASE Cycle(t) BY <1>0, <4>2 DEF Cycle, Cycles, Holding, Loaded
      <4>3. CASE Settle(t) \/ GiveUp(t) \/ Leave(t)
        BY <1>0, <4>3 DEF Settle, GiveUp, Cycles, Leave, Holding, Loaded
      <4>. QED BY <2>1, <4>1, <4>2, <4>3
    <3>. QED BY <1>3, <2>1, <3>1, GetOutcome DEF Settle, GiveUp, Cycle, Leave
  <2>2. CASE Checkpoint(t) \/ Write(t) \/ FinishAction(t) \/ Journal(t) \/ Answer(t) \/ EndAnswer(t) \/ Save(t) \/ LetGo(t)
    <3>1. pc[t] \in Holding /\ \A u \in Threads \ {t} : pc'[u] = pc[u]
      BY <1>0, <2>2 DEF Checkpoint, Put, Write, FinishAction, Journal, Answer, EndAnswer, Save, LetGo, Holding, Loaded
    <3>. QED BY <1>3, <2>2, <3>1 DEF Checkpoint, Write, FinishAction, Journal, Answer, EndAnswer, Save, LetGo
  <2>3. CASE Lock(t) \/ Interrupt(t) \/ Unmark(t) \/ Recover(t) \/ Cancel(t) \/ Submit(t)
    <3>1. \A u \in Threads : pc'[u] \in Holding => pc[u] \in Holding
      BY <1>0, <2>3 DEF Lock, Interrupt, Unmark, Recover, Cancel, Submit, Holding, Loaded
    <3>. QED BY <1>3, <2>3, <3>1 DEF Lock, Interrupt, Unmark, Recover, Cancel, Submit
  <2>. QED BY <1>1, <1>2, <1>10, <2>1, <2>2, <2>3 DEF Step
<1>. QED BY <1>4, <1>5, <1>6, <1>7, <1>8, <1>9, <1>10 DEF Next

\* A copy between its Get and the save differs from the row only by what the save writes.
LEMMA FaithfulStep == LifeInv /\ [Next]_vars => Faithful'
<1>. SUFFICES ASSUME LifeInv, [Next]_vars PROVE Faithful'
  OBVIOUS
<1>. USE DEF Goto, Decide, shared, local, history
<1>0. /\ TypeInv /\ MutexHeld /\ Faithful
      /\ mem \in [Threads -> Process] /\ pc \in [Threads -> Holding \union {"idle", "interrupt", "mutex", "hold", "unmark"}]
      /\ stored \in Process
  BY DEF LifeInv, LockInv, TypeInv, TypeOK
<1>. DEFINE Right(t) ==
         /\ pc[t] \in {"settle", "top"} => mem[t].status = stored.status /\ mem[t].answer = stored.answer
         /\ pc[t] \in {"checkpoint", "act", "journal"} =>
              stored.status = "running" /\ mem[t].status = "running" /\ mem[t].answer = stored.answer
         /\ pc[t] = "answer" => stored.status = "waiting" /\ mem[t].answer \in Answers /\ mem[t].answer > stored.answer
         /\ pc[t] = "save" => Follows(stored, mem[t])
<1>1. ASSUME NEW t \in Threads, pc[t] \in Holding, Right(t)',
             \A u \in Threads \ {t} : pc'[u] \in {pc[u], "mutex"}
      PROVE  Faithful'
  <2>1. \A u \in Threads \ {t} : pc'[u] \notin Loaded
    BY <1>1, Alone DEF Holding, Loaded
  <2>. QED BY <1>1, <2>1 DEF Faithful, Loaded
<1>2. ASSUME UNCHANGED <<stored, pieces, answers>>, \A t \in Threads : pc'[t] \in Loaded => pc'[t] = pc[t] /\ mem'[t] = mem[t]
      PROVE  Faithful'
  <2>1. \A p, q : Follows(p, q)' <=> Follows(p, q)
    BY <1>2 DEF Follows, MayFollow, EffectsMet
  <2>2. ASSUME NEW t \in Threads PROVE Right(t)'
    <3>1. Right(t)
      BY <1>0 DEF Faithful
    <3>2. CASE pc'[t] \in Loaded
      <4>1. pc'[t] = pc[t] /\ mem'[t] = mem[t] /\ stored' = stored
        BY <1>2, <3>2
      <4>2. Follows(stored, mem[t]) => Follows(stored, mem[t])'
        BY <1>2, <2>1, <4>1 DEF Follows, MayFollow, EffectsMet
      <4>. QED BY <3>1, <4>1, <4>2
    <3>3. CASE pc'[t] \notin Loaded
      BY <3>3 DEF Loaded
    <3>. QED BY <3>2, <3>3
  <2>. QED BY <2>2 DEF Faithful
<1>f. ASSUME NEW t \in Threads, UNCHANGED <<pieces, answers>>, Follows(stored', mem'[t])
      PROVE  Follows(stored, mem[t])'
  BY <1>f DEF Follows, MayFollow, EffectsMet
<1>3. ASSUME NEW t \in Threads, Get(t) PROVE Faithful'
  <2>1. pc[t] \in Holding /\ \A u \in Threads \ {t} : pc'[u] = pc[u]
    BY <1>0, <1>3, GetOutcome DEF Holding
  <2>2. /\ [stored EXCEPT !.status = "cancelled"].status = "cancelled"
        /\ [stored EXCEPT !.status = "cancelled"].answer = stored.answer
        /\ [stored EXCEPT !.answer = given + 1].answer = given + 1
    BY <1>0, Updates
  <2>3. stored.status \in Statuses
    BY <1>0, Fields
  <2>4. given < MaxAnswers => given + 1 \in Answers /\ given + 1 > stored.answer
    <3>1. stored.answer \in Nat /\ stored.answer <= given /\ given \in Nat
      BY <1>0, Fields, BoundsAssumption DEF TypeInv, TypeOK, Answering, Answers
    <3>. QED BY <3>1, BoundsAssumption DEF Answers
  <2>5. UNCHANGED <<stored, pieces, answers>>
    BY <1>3, GetOutcome
  <2>6. \/ pc'[t] = "settle" /\ mem'[t] = stored
        \/ pc'[t] = "release"
        \/ ~Terminal(stored.status) /\ pc'[t] = "save" /\ mem'[t] = [stored EXCEPT !.status = "cancelled"]
        \/ stored.status = "waiting" /\ given < MaxAnswers /\ pc'[t] = "answer" /\ mem'[t] = [stored EXCEPT !.answer = given + 1]
    BY <1>0, <1>3, GetOutcome
  <2>7. Right(t)'
    <3>1. CASE pc'[t] = "settle" /\ mem'[t] = stored
      BY <2>5, <3>1
    <3>2. CASE pc'[t] = "release"
      BY <3>2
    <3>3. CASE ~Terminal(stored.status) /\ pc'[t] = "save" /\ mem'[t] = [stored EXCEPT !.status = "cancelled"]
      <4>1. MayFollow(stored.status, mem'[t].status) /\ mem'[t].status = "cancelled" /\ mem'[t].answer = stored.answer
        BY <2>2, <2>3, <3>3 DEF MayFollow
      <4>2. Follows(stored', mem'[t])
        BY <2>5, <4>1 DEF Follows
      <4>3. Follows(stored, mem[t])'
        BY <1>f, <2>5, <4>2
      <4>. QED BY <3>3, <4>3
    <3>4. CASE stored.status = "waiting" /\ given < MaxAnswers /\ pc'[t] = "answer" /\ mem'[t] = [stored EXCEPT !.answer = given + 1]
      BY <2>2, <2>4, <2>5, <3>4
    <3>. QED BY <2>6, <3>1, <3>2, <3>3, <3>4
  <2>. QED BY <1>1, <2>1, <2>7
<1>4. ASSUME NEW t \in Threads, Settle(t) PROVE Faithful'
  <2>1. pc[t] \in Holding /\ \A u \in Threads \ {t} : pc'[u] = pc[u]
    BY <1>0, <1>4 DEF Settle, Holding, Loaded
  <2>2. mem'[t].status = mem[t].status /\ mem'[t].answer = mem[t].answer
    BY <1>0, <1>4, SettleOutcome
  <2>3. Right(t)'
    BY <1>0, <1>4, <2>2 DEF Settle, Faithful
  <2>. QED BY <1>1, <2>1, <2>3
<1>5. ASSUME NEW t \in Threads, GiveUp(t) \/ Leave(t) \/ LetGo(t) \/ Release(t) PROVE Faithful'
  <2>1. pc[t] \in Holding /\ pc'[t] \notin Loaded
    BY <1>0, <1>5 DEF GiveUp, Cycles, Leave, LetGo, Release, Holding, Loaded
  <2>2. \A u \in Threads \ {t} : pc'[u] \in {pc[u], "mutex"}
    BY <1>0, <1>5 DEF GiveUp, Leave, LetGo, Release
  <2>. QED BY <1>1, <2>1, <2>2 DEF Loaded
<1>6. ASSUME NEW t \in Threads, Cycle(t) PROVE Faithful'
  <2>1. pc[t] = "top" /\ mem[t].status = "running" /\ stored.status = "running" /\ mem[t].answer = stored.answer
    BY <1>0, <1>6 DEF Cycle, Cycles, Faithful
  <2>2. \A u \in Threads \ {t} : pc'[u] = pc[u]
    BY <1>0, <1>6 DEF Cycle
  <2>3. \A s : /\ [mem[t] EXCEPT !.status = s].status = s /\ [mem[t] EXCEPT !.status = s, !.waits = @ + 1].status = s
               /\ [mem[t] EXCEPT !.status = s].answer = mem[t].answer
               /\ [mem[t] EXCEPT !.status = s, !.waits = @ + 1].answer = mem[t].answer
    BY <1>0, Updates
  <2>4. /\ [mem[t] EXCEPT !.open = used + 1, !.steps = @ + 1].status = "running"
        /\ [mem[t] EXCEPT !.open = used + 1, !.steps = @ + 1].answer = mem[t].answer
    BY <1>0, <2>1, Updates
  <2>5. UNCHANGED <<stored, pieces, answers>>
    BY <1>6 DEF Cycle
  <2>6. /\ \/ pc'[t] = "checkpoint" /\ mem'[t].status = "running"
           \/ pc'[t] = "save" /\ MayFollow("running", mem'[t].status)
        /\ mem'[t].answer = mem[t].answer
    <3>1. \/ pc'[t] = "checkpoint" /\ mem'[t] = [mem[t] EXCEPT !.open = used + 1, !.steps = @ + 1]
          \/ /\ pc'[t] = "save"
             /\ \/ mem'[t] = [mem[t] EXCEPT !.status = "failed"]
                \/ EffectsMet /\ mem'[t] = [mem[t] EXCEPT !.status = "completed"]
                \/ mem'[t] = [mem[t] EXCEPT !.status = "stuck"]
                \/ mem'[t] = [mem[t] EXCEPT !.status = "waiting", !.waits = @ + 1]
      BY <1>0, <1>6 DEF Cycle
    <3>2. /\ MayFollow("running", "failed") /\ (EffectsMet => MayFollow("running", "completed"))
          /\ MayFollow("running", "stuck") /\ MayFollow("running", "waiting")
      BY DEF MayFollow
    <3>3. [mem[t] EXCEPT !.status = "waiting", !.waits = @ + 1].status = "waiting"
      BY <2>3
    <3>4. /\ [mem[t] EXCEPT !.status = "failed"].status = "failed"
          /\ [mem[t] EXCEPT !.status = "completed"].status = "completed"
          /\ [mem[t] EXCEPT !.status = "stuck"].status = "stuck"
      BY <2>3
    <3>5. mem'[t].answer = mem[t].answer
      <4>1. \A s : LET q == [mem[t] EXCEPT !.status = s] IN q.answer = mem[t].answer
        BY <2>3
      <4>2. LET q == [mem[t] EXCEPT !.status = "waiting", !.waits = @ + 1] IN q.answer = mem[t].answer
        BY <2>3
      <4>. QED BY <2>4, <3>1, <4>1, <4>2
    <3>. QED BY <2>4, <3>1, <3>2, <3>3, <3>4, <3>5
  <2>7. pc'[t] = "save" => Follows(stored, mem[t])'
    <3>1. pc'[t] = "save" => Follows(stored', mem'[t])
      BY <2>1, <2>5, <2>6 DEF Follows
    <3>. QED BY <1>f, <2>5, <3>1
  <2>8. Right(t)'
    BY <2>1, <2>5, <2>6, <2>7
  <2>. QED BY <1>1, <2>1, <2>2, <2>8 DEF Holding, Loaded
<1>7. ASSUME NEW t \in Threads, Checkpoint(t) PROVE Faithful'
  <2>1. pc[t] = "checkpoint" /\ mem[t].status = "running" /\ stored.status = "running" /\ mem[t].answer = stored.answer
    BY <1>0, <1>7 DEF Checkpoint, Faithful
  <2>2. \A u \in Threads \ {t} : pc'[u] = pc[u]
    BY <1>0, <1>7 DEF Checkpoint, Put
  <2>3. CASE Put(t, mem[t]) /\ pc'[t] = "act"
    BY <1>0, <1>1, <2>1, <2>2, <2>3 DEF Put, Holding, Loaded
  <2>4. CASE stored' = stored /\ pc'[t] = "save" /\ mem' = [mem EXCEPT ![t] = [mem[t] EXCEPT !.status = IF cancelling[At(t)] THEN @ ELSE "failed"]]
    <3>1. mem'[t].status \in {"running", "failed"} /\ mem'[t].answer = mem[t].answer
      BY <1>0, <2>1, <2>4, Updates
    <3>2. UNCHANGED <<pieces, answers>>
      BY <1>7 DEF Checkpoint
    <3>3. Follows(stored', mem'[t])
      BY <2>1, <2>4, <3>1 DEF Follows, MayFollow
    <3>4. Follows(stored, mem[t])'
      BY <1>f, <3>2, <3>3
    <3>. QED BY <1>1, <2>1, <2>2, <2>4, <3>4 DEF Holding, Loaded
  <2>. QED BY <1>0, <1>7, <2>3, <2>4 DEF Checkpoint
<1>8. ASSUME NEW t \in Threads, Write(t) PROVE Faithful'
  <2>1. pc[t] = "act" /\ pc' = pc /\ mem' = mem /\ stored' = stored
    BY <1>8 DEF Write
  <2>. QED BY <1>0, <1>1, <2>1 DEF Faithful, Holding, Loaded
<1>9. ASSUME NEW t \in Threads, FinishAction(t) \/ Journal(t) PROVE Faithful'
  <2>1. /\ pc[t] \in {"act", "journal"} /\ pc'[t] \in {"journal", "save"} /\ UNCHANGED <<stored, pieces, answers>>
        /\ \A u \in Threads \ {t} : pc'[u] = pc[u]
    BY <1>0, <1>9 DEF FinishAction, Journal
  <2>2. mem'[t].status = mem[t].status /\ mem'[t].answer = mem[t].answer
    BY <1>0, <1>9 DEF FinishAction, Journal, Process
  <2>3. stored.status = "running" /\ mem[t].status = "running" /\ mem[t].answer = stored.answer
    BY <1>0, <2>1 DEF Faithful
  <2>4. Follows(stored', mem'[t])
    BY <2>1, <2>2, <2>3 DEF Follows, MayFollow
  <2>5. Follows(stored, mem[t])'
    BY <1>f, <2>1, <2>4
  <2>. QED BY <1>1, <2>1, <2>2, <2>3, <2>5 DEF Holding, Loaded
<1>10. ASSUME NEW t \in Threads, Save(t) PROVE Faithful'
  <2>1. pc[t] = "save" /\ \A u \in Threads \ {t} : pc'[u] = pc[u]
    BY <1>0, <1>10 DEF Save, Put
  <2>2. pc'[t] \in {"release", "accepted"} \/ (pc'[t] = "top" /\ mem'[t] = stored')
    BY <1>0, <1>10, KindOfThread DEF Save, Put, Saved, Kinds
  <2>. QED BY <1>1, <2>1, <2>2 DEF Holding, Loaded
<1>11. ASSUME NEW t \in Threads, Lock(t) \/ Acquire(t) \/ Interrupt(t) \/ Unmark(t) \/ Recover(t) \/ Cancel(t) \/ Submit(t)
       PROVE  Faithful'
  BY <1>0, <1>2, <1>11 DEF Lock, Acquire, Interrupt, Unmark, Recover, Cancel, Submit, Loaded
<1>12. ASSUME NEW r \in Replicas, Renew(r) \/ HandleSignal(r) \/ Crash(r) \/ Restart(r) PROVE Faithful'
  BY <1>0, <1>2, <1>12 DEF Renew, HandleSignal, Crash, Restart, Loaded
<1>13. CASE Lapse \/ UNCHANGED vars
  BY <1>0, <1>2, <1>13 DEF Lapse, vars
<1>14. ASSUME NEW t \in Threads, Answer(t) PROVE Faithful'
  <2>1. pc[t] = "answer" /\ pc'[t] \in {"answer", "release"} /\ mem' = mem /\ stored' = stored
        /\ \A u \in Threads \ {t} : pc'[u] = pc[u]
    BY <1>0, <1>14 DEF Answer
  <2>. QED BY <1>0, <1>1, <2>1 DEF Faithful, Holding, Loaded
<1>15. ASSUME NEW t \in Threads, EndAnswer(t) PROVE Faithful'
  <2>1. /\ pc[t] = "answer" /\ UNCHANGED <<stored, pieces>> /\ \A u \in Threads \ {t} : pc'[u] = pc[u]
        /\ \/ pc'[t] = "release"
           \/ pc'[t] = "save" /\ mem'[t] = [mem[t] EXCEPT !.status = "running"]
    BY <1>0, <1>15 DEF EndAnswer
  <2>2. stored.status = "waiting" /\ mem[t].answer \in Answers /\ mem[t].answer > stored.answer
    BY <1>0, <2>1 DEF Faithful
  <2>3. answers'[mem[t].answer] >= Pieces
    <3>1. answers \in [Answers -> 0..Pieces + 1] /\ answers[mem[t].answer] = Pieces
      BY <1>0, <1>15 DEF EndAnswer, Whole, TypeInv, TypeOK
    <3>2. answers' \in {answers, [answers EXCEPT ![mem[t].answer] = Pieces + 1]}
      BY <1>15 DEF EndAnswer
    <3>. QED BY <2>2, <3>1, <3>2, BoundsAssumption
  <2>4. CASE pc'[t] = "release"
    BY <1>1, <2>1, <2>4 DEF Holding, Loaded
  <2>5. CASE pc'[t] = "save" /\ mem'[t] = [mem[t] EXCEPT !.status = "running"]
    <3>1. mem'[t].status = "running" /\ mem'[t].answer = mem[t].answer
      BY <1>0, <2>5, Updates
    <3>2. Follows(stored, mem[t])'
      BY <2>1, <2>2, <2>3, <3>1 DEF Follows, MayFollow
    <3>. QED BY <1>1, <2>1, <2>5, <3>2 DEF Holding, Loaded
  <2>. QED BY <2>1, <2>4, <2>5
<1>. QED BY <1>3, <1>4, <1>5, <1>6, <1>7, <1>8, <1>9, <1>10, <1>11, <1>12, <1>13, <1>14, <1>15 DEF Next, Step

\* Every step of the replicas is a step of the one executor, or shows nothing.
LEMMA LifeStep == LifeInv /\ [Next]_vars => [Life!Next]_(Life!vars)
<1>. SUFFICES ASSUME LifeInv, [Next]_vars PROVE [Life!Next]_(Life!vars)
  OBVIOUS
<1>0. TypeInv /\ Faithful
  BY DEF LifeInv, LockInv
<1>1. ASSUME NEW t \in Threads, Checkpoint(t) PROVE [Life!Next]_(Life!vars)
  <2>1. UNCHANGED <<pieces, answers>> /\ stored'.status = stored.status /\ stored'.answer = stored.answer
    BY <1>0, <1>1 DEF Checkpoint, Put, Faithful
  <2>. QED BY <2>1 DEF Life!vars
<1>2. ASSUME NEW t \in Threads, Write(t) PROVE [Life!Next]_(Life!vars)
  <2>1. mem[t].open \in Execs
    BY <1>0, <1>2, Fields DEF Write, TypeInv, TypeOK, Executing
  <2>2. stored.status = "running"
    BY <1>0, <1>2 DEF Write, Faithful
  <2>. QED BY <1>2, <2>1, <2>2 DEF Write, Life!Next, Life!Work
<1>3. ASSUME NEW t \in Threads, Save(t) PROVE [Life!Next]_(Life!vars)
  <2>1. UNCHANGED <<pieces, answers>> /\ (stored' = stored \/ stored' = mem[t])
    BY <1>3 DEF Save, Put
  <2>2. Follows(stored, mem[t])
    BY <1>0, <1>3 DEF Save, Faithful
  <2>3. CASE stored' = stored BY <2>1, <2>3 DEF Life!vars
  <2>4. CASE stored' = mem[t]
    BY <2>1, <2>2, <2>4 DEF Follows, MayFollow, EffectsMet, Terminal, Life!vars, Life!Next, Life!Stop, Life!Complete,
                            Life!Resume, Life!Cancel, Life!Ended
  <2>. QED BY <2>1, <2>3, <2>4
<1>4. CASE UNCHANGED <<stored, pieces, answers>> BY <1>4 DEF Life!vars
<1>8. ASSUME NEW t \in Threads, Answer(t) \/ EndAnswer(t) PROVE [Life!Next]_(Life!vars)
  <2>1. stored.status = "waiting" /\ mem[t].answer \in Answers
    BY <1>0, <1>8 DEF Answer, EndAnswer, Faithful
  <2>2. UNCHANGED <<stored, pieces>>
    BY <1>8 DEF Answer, EndAnswer
  <2>3. answers' = answers \/ (answers[mem[t].answer] <= Pieces /\ answers' = [answers EXCEPT ![mem[t].answer] = @ + 1])
    <3>1. answers \in [Answers -> 0..Pieces + 1]
      BY <1>0 DEF TypeInv, TypeOK
    <3>2. CASE Answer(t)
      BY <2>1, <3>1, <3>2, BoundsAssumption DEF Answer
    <3>3. CASE EndAnswer(t)
      BY <2>1, <3>1, <3>3, BoundsAssumption DEF EndAnswer, Whole
    <3>. QED BY <1>8, <3>2, <3>3
  <2>. QED BY <2>1, <2>2, <2>3 DEF Life!vars, Life!Next, Life!Submit
<1>5. ASSUME NEW t \in Threads, Step(t) \/ Recover(t) \/ Cancel(t) \/ Submit(t) PROVE [Life!Next]_(Life!vars)
  <2>1. CASE Lock(t) \/ Acquire(t) \/ Get(t) \/ Settle(t) \/ GiveUp(t) \/ Cycle(t) \/ Leave(t)
    BY <1>4, <2>1 DEF shared, Lock, Acquire, Get, Settle, GiveUp, Cycle, Leave
  <2>2. CASE FinishAction(t) \/ Journal(t) \/ LetGo(t) \/ Release(t) \/ Interrupt(t) \/ Unmark(t) \/ Recover(t) \/ Cancel(t) \/ Submit(t)
    BY <1>4, <2>2 DEF shared, FinishAction, Journal, LetGo, Release, Interrupt, Unmark, Recover, Cancel, Submit
  <2>. QED BY <1>1, <1>2, <1>3, <1>5, <1>8, <2>1, <2>2 DEF Step
<1>6. ASSUME NEW r \in Replicas, Renew(r) \/ HandleSignal(r) \/ Crash(r) \/ Restart(r) PROVE [Life!Next]_(Life!vars)
  BY <1>4, <1>6 DEF shared, Renew, HandleSignal, Crash, Restart
<1>7. CASE Lapse \/ UNCHANGED vars BY <1>4, <1>7 DEF Lapse, vars, shared
<1>. QED BY <1>5, <1>6, <1>7 DEF Next

\* Where no lease lapses under a holder that works, the replicas show nothing but a single
\* executor: the process ends once, its executions write only while it runs, and it completes
\* only with the work of an execution on the change.
THEOREM ReplicasImplementOneExecutor ==
  ASSUME MaxStalls = 0 PROVE Spec => OneExecutorLife
<1>1. Init => LifeInv /\ Life!Init
  <2>1. Init => LockInv
    BY TypeInit, LockInit DEF LockInv
  <2>2. Init => Life!Init
    BY DEF Init, Life!Init, Started
  <2>. QED BY <2>1, <2>2, LifeInit DEF LifeInv
<1>2. LifeInv /\ [Next]_vars => LifeInv'
  BY TypeInvStep, MutexStep, IntactStep, FreshStep, SectionsStep, FaithfulStep DEF LifeInv, LockInv
<1>. QED BY <1>1, <1>2, LifeStep, PTL DEF Spec, OneExecutorLife, Life!Spec

\* There, a process that ended stays as it ended.
THEOREM EndsOnce ==
  ASSUME MaxStalls = 0 PROVE Spec => TerminalFinal
<1>1. [Life!Next]_(Life!vars) => (Terminal(stored.status) => stored'.status = stored.status)
  BY DEF Life!Next, Life!vars, Life!Work, Life!Submit, Life!Stop, Life!Complete, Life!Resume, Life!Cancel, Life!Ended, Terminal
<1>2. Life!Spec => TerminalFinal
  BY <1>1, PTL DEF Life!Spec, TerminalFinal, vars
<1>. QED BY <1>2, ReplicasImplementOneExecutor DEF OneExecutorLife

-----------------------------------------------------------------------------
(* What was dropped.  Settle drops an execution that wrote nothing.  No     *)
(* goroutine executes it then, since the one that settles is alone, and     *)
(* none will: the execution a cycle begins has a number never drawn.        *)

Drawn == /\ dropped \subseteq 1..used
         /\ stored.open <= used
         /\ \A t \in Threads : mem[t].open <= used

NoneExecutesDropped == \A t \in Threads :
  pc[t] \in {"checkpoint", "act", "journal"} => mem[t].open \notin dropped

DropInv == Drawn /\ NoneExecutesDropped /\ DroppedWritesNothing

\* Every step keeps the executions named on the rows, in memory and among the dropped to those drawn.
LEMMA DrawnStep == TypeInv /\ Drawn /\ [Next]_vars => Drawn'
<1>. SUFFICES ASSUME TypeInv, Drawn, [Next]_vars PROVE Drawn'
  OBVIOUS
<1>. USE DEF Goto, Decide, shared, local, history
<1>0. /\ mem \in [Threads -> Process] /\ stored \in Process /\ used \in Nat
      /\ \A t \in Threads : mem[t] \in Process /\ mem[t].open \in Execs \union {0}
  BY Fields, BoundsAssumption DEF TypeInv, TypeOK
<1>1. ASSUME NEW t \in Threads, NEW p, p.open <= used, mem' = [mem EXCEPT ![t] = p],
             stored' \in {stored, mem[t]}, used' = used, dropped' = dropped
      PROVE  Drawn'
  BY <1>0, <1>1 DEF Drawn
<1>2. ASSUME NEW t \in Threads, Get(t) PROVE Drawn'
  <2>1. \A s : [stored EXCEPT !.status = s].open = stored.open /\ [stored EXCEPT !.answer = s].open = stored.open
    BY <1>0, Updates
  <2>2. PICK p : p.open \in {stored.open, mem[t].open} /\ mem' = [mem EXCEPT ![t] = p]
    <3>. DEFINE Copy(p) == mem' = [mem EXCEPT ![t] = p]
                Keeps(p) == p.open \in {stored.open, mem[t].open}
    <3>0. Keeps(stored) /\ Keeps(mem[t]) /\ \A n : Keeps([stored EXCEPT !.status = n]) /\ Keeps([stored EXCEPT !.answer = n])
      BY <2>1
    <3>1. \/ Copy(stored) \/ Copy(mem[t])
          \/ \E n : Copy([stored EXCEPT !.status = n]) \/ Copy([stored EXCEPT !.answer = n])
      BY <1>2, GetOutcome
    <3>. HIDE DEF Copy, Keeps
    <3>2. \E p : Keeps(p) /\ Copy(p)
      BY <3>0, <3>1
    <3>. QED BY <3>2 DEF Copy, Keeps
  <2>. QED BY <1>1, <1>2, <2>2, GetOutcome DEF Drawn
<1>3. ASSUME NEW t \in Threads, Settle(t) PROVE Drawn'
  <2>1. PICK p : p.open \in {0, mem[t].open} /\ mem' = [mem EXCEPT ![t] = p]
    BY <1>0, <1>3, SettleOutcome
  <2>2. dropped' = dropped \/ (mem[t].open # 0 /\ dropped' = dropped \union {mem[t].open})
    BY <1>3 DEF Settle
  <2>3. mem[t].open # 0 => mem[t].open \in 1..used
    BY <1>0 DEF Drawn, Execs
  <2>4. dropped' \subseteq 1..used
    BY <2>2, <2>3 DEF Drawn
  <2>5. p.open <= used
    BY <1>0, <2>1 DEF Drawn
  <2>. QED BY <1>0, <1>3, <2>1, <2>4, <2>5 DEF Settle, Drawn
<1>4. ASSUME NEW t \in Threads, Cycle(t) PROVE Drawn'
  <2>1. ASSUME NEW p, mem' = [mem EXCEPT ![t] = p], p.open = mem[t].open, used' = used PROVE Drawn'
    BY <1>1, <1>4, <2>1 DEF Cycle, Drawn
  <2>2. ASSUME NEW s, mem' = [mem EXCEPT ![t] = [mem[t] EXCEPT !.status = s]], used' = used PROVE Drawn'
    BY <1>0, <2>1, <2>2, Updates
  <2>3. ASSUME NEW s, mem' = [mem EXCEPT ![t] = [mem[t] EXCEPT !.status = s, !.waits = @ + 1]], used' = used PROVE Drawn'
    BY <1>0, <2>1, <2>3, Updates
  <2>4. ASSUME used' = used + 1, mem' = [mem EXCEPT ![t] = [mem[t] EXCEPT !.open = used + 1, !.steps = @ + 1]] PROVE Drawn'
    <3>1. mem'[t].open = used + 1 /\ \A u \in Threads \ {t} : mem'[u] = mem[u]
      BY <1>0, <2>4, Updates
    <3>2. \A u \in Threads : mem[u].open <= used + 1
      BY <1>0 DEF Drawn, Execs
    <3>3. \A u \in Threads : mem'[u].open <= used + 1
      BY <1>0, <3>1, <3>2
    <3>4. stored.open <= used + 1 /\ 1..used \subseteq 1..(used + 1)
      BY <1>0, Fields DEF Drawn, Execs
    <3>. QED BY <1>4, <2>4, <3>3, <3>4 DEF Cycle, Drawn
  <2>. QED BY <1>4, <2>2, <2>3, <2>4 DEF Cycle
<1>5. ASSUME NEW t \in Threads, GiveUp(t) \/ Checkpoint(t) \/ FinishAction(t) \/ Journal(t) \/ EndAnswer(t) \/ Save(t) PROVE Drawn'
  <2>1. \A s : [mem[t] EXCEPT !.status = s].open = mem[t].open /\ [mem[t] EXCEPT !.disabled = s].open = mem[t].open
               /\ [mem[t] EXCEPT !.open = 0].open = 0
    BY <1>0, Updates DEF Process
  <2>. DEFINE Keeps(p) == p.open \in {0, mem[t].open}
              Copy(p) == mem' = [mem EXCEPT ![t] = p]
  <2>2. Keeps(mem[t]) /\ Keeps([mem[t] EXCEPT !.open = 0]) /\ \A s : Keeps([mem[t] EXCEPT !.status = s]) /\ Keeps([mem[t] EXCEPT !.disabled = s])
    BY <2>1
  <2>5. \/ Copy(mem[t]) \/ Copy([mem[t] EXCEPT !.open = 0])
        \/ \E s : Copy([mem[t] EXCEPT !.status = s]) \/ Copy([mem[t] EXCEPT !.disabled = s])
    <3>1. ASSUME GiveUp(t) PROVE Copy([mem[t] EXCEPT !.status = "failed"])
      BY <3>1 DEF GiveUp
    <3>2. ASSUME Checkpoint(t)
          PROVE  Copy(mem[t]) \/ Copy([mem[t] EXCEPT !.status = IF cancelling[At(t)] THEN @ ELSE "failed"])
      BY <3>2 DEF Checkpoint, Put
    <3>3. ASSUME FinishAction(t) PROVE Copy([mem[t] EXCEPT !.disabled = @ \/ pieces[mem[t].open] < Pieces])
      BY <3>3 DEF FinishAction
    <3>4. ASSUME Journal(t) PROVE Copy([mem[t] EXCEPT !.open = 0])
      BY <3>4 DEF Journal
    <3>5. ASSUME Save(t) PROVE Copy(mem[t])
      <4>1. mem' = mem \/ Copy(mem[t])
        BY <3>5 DEF Save, Put
      <4>. QED BY <1>0, <4>1
    <3>6. ASSUME EndAnswer(t) PROVE Copy(mem[t]) \/ Copy([mem[t] EXCEPT !.status = "running"])
      <4>1. mem' = mem \/ Copy([mem[t] EXCEPT !.status = "running"])
        BY <3>6 DEF EndAnswer
      <4>. QED BY <1>0, <4>1
    <3>. HIDE DEF Copy, Keeps
    <3>. QED BY <1>5, <3>1, <3>2, <3>3, <3>4, <3>5, <3>6
  <2>6. PICK p : Keeps(p) /\ Copy(p)
    <3>. HIDE DEF Copy, Keeps
    <3>. QED BY <2>2, <2>5
  <2>3. p.open <= used
    BY <1>0, <2>6 DEF Drawn
  <2>4. stored' \in {stored, mem[t]} /\ used' = used /\ dropped' = dropped
    BY <1>5 DEF GiveUp, Checkpoint, FinishAction, Journal, EndAnswer, Save, Put
  <2>. QED BY <1>1, <2>6, <2>3, <2>4
<1>6. ASSUME UNCHANGED <<stored, used, dropped>>, \A t \in Threads : mem'[t] \in {mem[t], Started} PROVE Drawn'
  BY <1>0, <1>6 DEF Drawn, Started
<1>7. ASSUME NEW t \in Threads, Release(t) PROVE Drawn'
  BY <1>0, <1>6, <1>7 DEF Release
<1>8. ASSUME NEW r \in Replicas, Crash(r) PROVE Drawn'
  BY <1>0, <1>6, <1>8 DEF Crash
<1>9. CASE UNCHANGED <<mem, stored, used, dropped>>
  BY <1>9 DEF Drawn
<1>. QED BY <1>2, <1>3, <1>4, <1>5, <1>7, <1>8, <1>9
     DEF Next, Step, vars, Lock, Acquire, Leave, Write, Answer, LetGo, Interrupt, Unmark, Recover, Cancel, Submit,
         Renew, HandleSignal, Restart, Lapse

\* Without stalls, what was dropped is executed by nobody: an execution begun is new, and the
\* goroutine that drops one is alone.
LEMMA NoneExecutesStep == LifeInv /\ DropInv /\ [Next]_vars => NoneExecutesDropped'
<1>. SUFFICES ASSUME LifeInv, DropInv, [Next]_vars PROVE NoneExecutesDropped'
  OBVIOUS
<1>. USE DEF Goto, Decide, shared, local, history
<1>. DEFINE Executes(t) == pc[t] \in {"checkpoint", "act", "journal"}
<1>0. /\ TypeInv /\ NoneExecutesDropped /\ Drawn
      /\ mem \in [Threads -> Process] /\ pc \in [Threads -> Holding \union {"idle", "interrupt", "mutex", "hold", "unmark"}]
      /\ used \in Nat
  BY BoundsAssumption DEF LifeInv, LockInv, DropInv, TypeInv, TypeOK
<1>1. ASSUME UNCHANGED dropped, \A t \in Threads : Executes(t)' => Executes(t) /\ mem'[t].open = mem[t].open
      PROVE  NoneExecutesDropped'
  BY <1>0, <1>1 DEF NoneExecutesDropped
<1>2. ASSUME NEW t \in Threads, Settle(t) PROVE NoneExecutesDropped'
  <2>1. pc[t] \in Holding /\ ~Executes(t)'
    <3>1. PICK l \in {"top", "release"} : pc' = [pc EXCEPT ![t] = l]
      BY <1>2, Zenon DEF Settle
    <3>2. pc[t] = "settle"
      BY <1>2 DEF Settle
    <3>. QED BY <1>0, <3>1, <3>2 DEF Holding, Loaded
  <2>2. \A u \in Threads \ {t} : ~Executes(u)'
    <3>1. \A u \in Threads \ {t} : pc'[u] = pc[u]
      BY <1>0, <1>2 DEF Settle
    <3>. QED BY <2>1, <3>1, Alone DEF Holding, Loaded
  <2>. QED BY <2>1, <2>2 DEF NoneExecutesDropped
<1>3. ASSUME NEW t \in Threads, Cycle(t) PROVE NoneExecutesDropped'
  <2>1. Executes(t)' => mem'[t].open = used + 1
    <3>1. [mem[t] EXCEPT !.open = used + 1, !.steps = @ + 1].open = used + 1
      BY <1>0, Updates
    <3>. QED BY <1>0, <1>3, <3>1 DEF Cycle
  <2>2. used + 1 \notin dropped /\ dropped' = dropped
    BY <1>0, <1>3 DEF Cycle, Drawn
  <2>3. \A u \in Threads \ {t} : pc'[u] = pc[u] /\ mem'[u] = mem[u]
    BY <1>0, <1>3 DEF Cycle
  <2>. QED BY <1>0, <2>1, <2>2, <2>3 DEF NoneExecutesDropped
<1>4. ASSUME NEW t \in Threads, Checkpoint(t) PROVE NoneExecutesDropped'
  BY <1>0, <1>1, <1>4 DEF Checkpoint, Put
<1>5. ASSUME NEW t \in Threads, FinishAction(t) PROVE NoneExecutesDropped'
  <2>1. \A b : [mem[t] EXCEPT !.disabled = b].open = mem[t].open
    BY <1>0, Updates
  <2>2. PICK p : mem' = [mem EXCEPT ![t] = p] /\ p.open = mem[t].open
    BY <1>5, <2>1 DEF FinishAction
  <2>. QED BY <1>0, <1>1, <1>5, <2>2 DEF FinishAction
<1>6. ASSUME NEW t \in Threads, Get(t) \/ GiveUp(t) \/ Journal(t) \/ EndAnswer(t) \/ Save(t) \/ Release(t) PROVE NoneExecutesDropped'
  <2> DEFINE Others == \A u \in Threads \ {t} : mem'[u] = mem[u] /\ (Executes(u)' => Executes(u))
  <2>1. CASE Get(t) \/ GiveUp(t)
    <3>1. ~Executes(t)' /\ dropped' = dropped
      <4>1. CASE Get(t) BY <1>0, <4>1, GetOutcome
      <4>2. CASE GiveUp(t) BY <1>0, <4>2 DEF GiveUp
      <4>. QED BY <2>1, <4>1, <4>2
    <3>2. Others
      <4>1. CASE Get(t) BY <1>0, <4>1, GetOutcome
      <4>2. CASE GiveUp(t) BY <1>0, <4>2 DEF GiveUp
      <4>. QED BY <2>1, <4>1, <4>2
    <3>. QED BY <1>1, <3>1, <3>2
  <2>2. CASE Journal(t) \/ EndAnswer(t) \/ Save(t)
    <3>1. ~Executes(t)' /\ dropped' = dropped
      BY <1>0, <2>2, KindOfThread DEF Kinds, Journal, EndAnswer, Save, Saved, Put
    <3>2. Others
      BY <1>0, <2>2 DEF Journal, EndAnswer, Save, Put
    <3>. QED BY <1>1, <3>1, <3>2
  <2>3. CASE Release(t)
    <3>1. ~Executes(t)' /\ dropped' = dropped
      BY <1>0, <2>3, KindOfThread DEF Kinds, Release
    <3>2. Others
      BY <1>0, <2>3, KindOfThread DEF Kinds, Release
    <3>. QED BY <1>1, <3>1, <3>2
  <2>. QED BY <1>6, <2>1, <2>2, <2>3
<1>7. ASSUME NEW t \in Threads, Lock(t) \/ Acquire(t) \/ Leave(t) \/ Write(t) \/ Answer(t) \/ LetGo(t) \/ Interrupt(t)
                                \/ Unmark(t) \/ Recover(t) \/ Cancel(t) \/ Submit(t)
      PROVE  NoneExecutesDropped'
  BY <1>0, <1>1, <1>7 DEF Lock, Acquire, Leave, Write, Answer, LetGo, Interrupt, Unmark, Recover, Cancel, Submit
<1>8. ASSUME NEW r \in Replicas, Renew(r) \/ HandleSignal(r) \/ Crash(r) \/ Restart(r) PROVE NoneExecutesDropped'
  BY <1>0, <1>1, <1>8 DEF Renew, HandleSignal, Crash, Restart
<1>9. CASE Lapse \/ UNCHANGED vars
  BY <1>1, <1>9 DEF Lapse, vars
<1>. QED BY <1>2, <1>3, <1>4, <1>5, <1>6, <1>7, <1>8, <1>9 DEF Next, Step

\* A write is one of an execution nobody dropped; what is dropped has written nothing.
LEMMA DroppedStep == TypeInv /\ DropInv /\ [Next]_vars => DroppedWritesNothing'
<1>. SUFFICES ASSUME TypeInv, DropInv, [Next]_vars PROVE DroppedWritesNothing'
  OBVIOUS
<1>. USE DEF shared, local, history
<1>1. CASE UNCHANGED <<pieces, dropped>>
  BY <1>1 DEF DropInv, DroppedWritesNothing
<1>2. ASSUME NEW t \in Threads, Settle(t) PROVE DroppedWritesNothing'
  BY <1>2 DEF Settle, WroteNothing, DropInv, DroppedWritesNothing
<1>3. ASSUME NEW t \in Threads, Write(t) PROVE DroppedWritesNothing'
  <2>1. mem[t].open \notin dropped
    BY <1>3 DEF Write, DropInv, NoneExecutesDropped
  <2>2. \A e \in dropped : e \in Execs /\ pieces'[e] = pieces[e]
    BY <1>3, <2>1 DEF Write, TypeInv, TypeOK
  <2>. QED BY <1>3, <2>2 DEF Write, DropInv, DroppedWritesNothing
<1>4. ASSUME NEW t \in Threads, Step(t) \/ Recover(t) \/ Cancel(t) \/ Submit(t) PROVE DroppedWritesNothing'
  <2>1. CASE Lock(t) \/ Acquire(t) \/ Get(t) \/ GiveUp(t) \/ Cycle(t) \/ Leave(t) \/ Checkpoint(t) \/ FinishAction(t)
    BY <1>1, <2>1 DEF Lock, Acquire, Get, GiveUp, Cycle, Leave, Checkpoint, FinishAction
  <2>2. CASE Journal(t) \/ Answer(t) \/ EndAnswer(t) \/ Save(t) \/ LetGo(t) \/ Release(t) \/ Interrupt(t) \/ Unmark(t)
             \/ Recover(t) \/ Cancel(t) \/ Submit(t)
    BY <1>1, <2>2 DEF Journal, Answer, EndAnswer, Save, LetGo, Release, Interrupt, Unmark, Recover, Cancel, Submit
  <2>. QED BY <1>2, <1>3, <1>4, <2>1, <2>2 DEF Step
<1>5. ASSUME NEW r \in Replicas, Renew(r) \/ HandleSignal(r) \/ Crash(r) \/ Restart(r) PROVE DroppedWritesNothing'
  BY <1>1, <1>5 DEF Renew, HandleSignal, Crash, Restart
<1>6. CASE Lapse \/ UNCHANGED vars BY <1>1, <1>6 DEF Lapse, vars
<1>. QED BY <1>4, <1>5, <1>6 DEF Next

\* Where no lease lapses under a holder that works, an execution settleInterrupted dropped as
\* having written nothing never writes: what its action does is not done twice.
THEOREM NeverWritesAfterwards ==
  ASSUME MaxStalls = 0 PROVE Spec => []DroppedWritesNothing
<1>1. Init => LifeInv /\ DropInv
  <2>1. Init => LockInv
    BY TypeInit, LockInit DEF LockInv
  <2>2. Init => DropInv
    BY DEF Init, DropInv, Drawn, NoneExecutesDropped, DroppedWritesNothing, Started
  <2>. QED BY <2>1, <2>2, LifeInit DEF LifeInv
<1>2. LifeInv /\ DropInv /\ [Next]_vars => (LifeInv /\ DropInv)'
  <2>1. LifeInv => TypeInv
    BY DEF LifeInv, LockInv
  <2>2. LifeInv /\ [Next]_vars => LifeInv'
    BY TypeInvStep, MutexStep, IntactStep, FreshStep, SectionsStep, FaithfulStep DEF LifeInv, LockInv
  <2>3. LifeInv /\ DropInv /\ [Next]_vars => DropInv'
    BY <2>1, DrawnStep, NoneExecutesStep, DroppedStep DEF DropInv
  <2>. QED BY <2>2, <2>3
<1>3. DropInv => DroppedWritesNothing
  BY DEF DropInv
<1>. QED BY <1>1, <1>2, <1>3, PTL DEF Spec
=============================================================================
