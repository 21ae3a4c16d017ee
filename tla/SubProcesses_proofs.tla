------------------------- MODULE SubProcesses_proofs -------------------------
(***************************************************************************)
(* Proofs about a process and its sub-processes, for any calls, children,  *)
(* replicas and bounds: the types, the wake-up of a waiting parent is on   *)
(* its way, a call has one live child, Cancel takes the children, and the  *)
(* places of a replica are counted once.                                   *)
(***************************************************************************)
EXTENDS SubProcesses, FiniteSetTheorems, TLAPS

Held(x) == lock[x] \in Replicas

\* What is held runs: the parent by its run, a child by its own or by the one of its parent.
Sections ==
  /\ step.pc # "none" <=> Held(0)
  /\ Held(0) => parent.status = "running"
  /\ \A c \in Children : Held(c) => child[c].status = "running"
  /\ step.pc \in {"start", "wait", "child"} <=> step.of # 0
  /\ step.pc = "child" => lock[step.of] = lock[0]

\* A child is started for a call.
Started == \A c \in Children : child[c].status # "none" <=> child[c].call # 0

-----------------------------------------------------------------------------
(* Types.                                                                   *)

KidMaps == [1..Calls -> Procs]
ParentRows == [status : {"running", "waiting", "completed", "cancelled"}, on : Procs, kids : KidMaps]
ChildRows == [status : {"none", "running", "waiting", "completed", "failed", "cancelled"}, call : 0..Calls]
Steps == [pc : {"none", "top", "look", "start", "child", "done", "wait", "retry"}, kids : KidMaps,
          done : SUBSET (1..Calls), of : Procs]
Runs == [at : Replicas, of : Procs, pc : {"reserved", "new", "lock"}]
Cancels == [pc : {"none", "lock", "list"}, at : Replicas \union {Free}, of : Procs, todo : SUBSET Children]
Spents == [asks : 0..MaxAsks, signals : 0..MaxSignals, cancels : 0..MaxCancels,
           stops : 0..MaxStops, faults : 0..MaxFaults, parent : BOOLEAN]

\* The types of all but the counters.
Types ==
  /\ parent \in ParentRows
  /\ child \in [Children -> ChildRows]
  /\ lock \in [Procs -> Replicas \union {Free, Gone}]
  /\ runs \subseteq Runs
  /\ step \in Steps
  /\ wakes \subseteq Replicas \X Children
  /\ found \in [Replicas -> Procs]
  /\ cancel \in Cancels
  /\ cancelling \subseteq Procs /\ lost \subseteq Children
  /\ spent \in Spents

Counted == inflight \in [Replicas -> Nat]

LEMMA TypesAndCounts == TypeOK <=> Types /\ Counted
BY DEF TypeOK, Types, Counted, KidMaps, ParentRows, ChildRows, Steps, Runs, Cancels, Spents

LEMMA Numbers == 0 \in Procs /\ 0 \notin Children /\ Children \subseteq Procs /\ (\A x \in Procs : x = 0 \/ x \in Children)
BY BoundsAssumption DEF Procs, Children

\* Cancel is a call at a replica.
CalledAt == cancel.pc # "none" => cancel.at \in Replicas

Base == Types /\ Sections /\ Started /\ CalledAt

LEMMA InitBase == Init => Base
<1> SUFFICES ASSUME Init PROVE Base
  OBVIOUS
<1>1. NoKids \in KidMaps /\ NotStepping \in Steps
  <2>1. NoKids \in KidMaps
    BY Numbers DEF NoKids, KidMaps
  <2> QED BY <2>1, Numbers DEF NotStepping, Steps
<1>2. Types
  <2>1. parent \in ParentRows /\ step \in Steps
    BY <1>1, Numbers DEF Init, ParentRows
  <2>2. child \in [Children -> ChildRows]
    BY BoundsAssumption DEF Init, ChildRows
  <2>3. lock \in [Procs -> Replicas \union {Free, Gone}] /\ found \in [Replicas -> Procs] /\ runs \subseteq Runs
    BY Numbers DEF Init, Runs
  <2>4. cancel \in Cancels
    BY Numbers DEF Init, NotCancelling, Cancels
  <2>5. spent \in Spents
    BY BoundsAssumption DEF Init, Spents
  <2> QED BY <2>1, <2>2, <2>3, <2>4, <2>5 DEF Types, Init
<1>3. Sections /\ Started /\ CalledAt
  BY NamesAssumption, Numbers DEF Init, Sections, Started, CalledAt, Held, NotStepping, NotCancelling
<1> QED BY <1>2, <1>3 DEF Base

\* The end of a step of the parent, and of a run of a child, is of their types.
LEMMA StepUpdates ==
  ASSUME NEW q \in Steps
  PROVE  /\ NotStepping \in Steps
         /\ \A l \in {"look", "done", "child"} : [q EXCEPT !.pc = l] \in Steps
         /\ \A k \in 1..Calls : [q EXCEPT !.pc = "look", !.done = @ \union {k}, !.of = 0] \in Steps
         /\ \A c \in Procs : [q EXCEPT !.pc = "wait", !.of = c] \in Steps
         /\ [q EXCEPT !.pc = "retry", !.of = 0] \in Steps
         /\ [NotStepping EXCEPT !.pc = "top", !.kids = q.kids] \in Steps
         /\ [NotStepping EXCEPT !.pc = "top", !.kids = parent.kids] \in Steps \/ parent \notin ParentRows
         /\ \A k \in 1..Calls, n \in Children : [q EXCEPT !.pc = "start", !.kids[k] = n, !.of = n] \in Steps
<1> USE Numbers
<1>1. NotStepping \in Steps
  <2>1. NoKids \in KidMaps
    BY DEF NoKids, KidMaps
  <2> QED BY <2>1 DEF NotStepping, Steps
<1>2. ASSUME NEW kids \in KidMaps PROVE [NotStepping EXCEPT !.pc = "top", !.kids = kids] \in Steps
  BY <1>2 DEF NotStepping, Steps
<1>3. parent \in ParentRows => parent.kids \in KidMaps
  BY DEF ParentRows
<1>4. /\ q.kids \in KidMaps
      /\ \A l \in {"look", "done", "child"} : [q EXCEPT !.pc = l] \in Steps
      /\ \A k \in 1..Calls : [q EXCEPT !.pc = "look", !.done = @ \union {k}, !.of = 0] \in Steps
      /\ \A c \in Procs : [q EXCEPT !.pc = "wait", !.of = c] \in Steps
      /\ [q EXCEPT !.pc = "retry", !.of = 0] \in Steps
  BY DEF Steps
<1>5. ASSUME NEW k \in 1..Calls, NEW n \in Children PROVE [q EXCEPT !.pc = "start", !.kids[k] = n, !.of = n] \in Steps
  <2>1. [q.kids EXCEPT ![k] = n] \in KidMaps
    BY <1>4 DEF KidMaps
  <2>2. [q EXCEPT !.pc = "start", !.kids[k] = n, !.of = n] = [q EXCEPT !.pc = "start", !.kids = [q.kids EXCEPT ![k] = n], !.of = n]
    BY DEF Steps
  <2>3. [q EXCEPT !.pc = "start", !.kids = [q.kids EXCEPT ![k] = n], !.of = n] \in Steps
    BY <2>1 DEF Steps
  <2> QED BY <2>2, <2>3
<1> QED BY <1>1, <1>2, <1>3, <1>4, <1>5

LEMMA StepMoves ==
  ASSUME step \in Steps
  PROVE  /\ \A k \in 1..Calls : Settle(k) => step' \in Steps
         /\ \A c \in Procs : Suspend(c) => step' \in Steps
<1>1. ASSUME NEW k \in 1..Calls, Settle(k) PROVE step' \in Steps
  <2>1. [step EXCEPT !.pc = "look", !.done = @ \union {k}, !.of = 0] \in Steps
    BY StepUpdates
  <2> QED BY <1>1, <2>1 DEF Settle
<1>2. ASSUME NEW c \in Procs, Suspend(c) PROVE step' \in Steps
  <2>1. [step EXCEPT !.pc = "wait", !.of = c] \in Steps
    BY StepUpdates
  <2> QED BY <1>2, <2>1 DEF Suspend
<1> QED BY <1>1, <1>2

LEMMA MoveFields ==
  ASSUME step \in Steps
  PROVE  /\ \A k : Settle(k) => /\ step'.pc = "look" /\ step'.of = 0 /\ step'.kids = step.kids
                               /\ step'.done = step.done \union {k}
         /\ \A c : Suspend(c) => step'.pc = "wait" /\ step'.of = c /\ step'.kids = step.kids /\ step'.done = step.done
         /\ step' = [step EXCEPT !.pc = "retry", !.of = 0] =>
               step'.pc = "retry" /\ step'.of = 0 /\ step'.kids = step.kids /\ step'.done = step.done
BY DEF Settle, Suspend, Steps

\* How the run of a child ends, within the run of its parent or alone.
LEMMA ChildRuns ==
  ASSUME NEW c \in Children, ChildNext(c)
  PROVE  /\ UNCHANGED <<parent, runs, found, cancel, cancelling, lost>>
         /\ lock[c] \in Replicas /\ Unlock(c)
         /\ \/ /\ SetStatus(c, "completed") /\ wakes' = Woken(lock[c], c) /\ UNCHANGED spent
               /\ Nested(c) => Settle(child[c].call)
            \/ SetStatus(c, "waiting") /\ UNCHANGED wakes /\ Spend("asks", MaxAsks)
            \/ UNCHANGED <<child, wakes>>
         /\ \/ Nested(c) /\ UNCHANGED inflight /\ (Settle(child[c].call) \/ Suspend(c) \/ step' = [step EXCEPT !.pc = "retry", !.of = 0])
            \/ ~Nested(c) /\ UNCHANGED step /\ Uncount(lock[c])
BY DEF ChildNext, ChildEnds, ChildAsks, ChildGivesUp, ChildCut, EndRun

\* What the steps of the parent do with its run.
LEMMA StepTypes ==
  ASSUME Base, Next
  PROVE  step' \in Steps
<1> /\ step \in Steps /\ parent \in ParentRows /\ child \in [Children -> ChildRows]
  BY DEF Base, Types
<1> USE Numbers
<1>1. ASSUME NEW g, Take(g) PROVE step' \in Steps
  BY <1>1, StepUpdates DEF Take
<1>2. CASE Cycle
  BY <1>2, StepUpdates DEF Cycle
<1>3. CASE Look
  <2>1. CASE step' = [step EXCEPT !.pc = "done"]
    BY <2>1, StepUpdates
  <2>2. ASSUME NEW k \in 1..Calls, Settle(k) \/ Suspend(step.kids[k]) PROVE step' \in Steps
    <3>1. step.kids[k] \in Procs
      BY DEF Steps, KidMaps
    <3> QED BY <2>2, <3>1, StepMoves
  <2>3. ASSUME NEW k \in 1..Calls, NEW n \in Children, step' = [step EXCEPT !.pc = "start", !.kids[k] = n, !.of = n]
        PROVE step' \in Steps
    BY <2>3, StepUpdates
  <2> QED BY <1>3, <2>1, <2>2, <2>3 DEF Look
<1>4. ASSUME NEW c \in Children, child[c].status # "none" PROVE child[c].call \in 1..Calls
  BY <1>4, BoundsAssumption DEF Base, Started, ChildRows
<1>5. CASE TakeNested
  <2>1. step.of \in Children
    BY <1>5 DEF TakeNested, Base, Sections, Steps
  <2>2. \/ step' = [step EXCEPT !.pc = "child"]
        \/ child[step.of].status # "none" /\ Settle(child[step.of].call)
        \/ Suspend(step.of)
    BY <1>5 DEF TakeNested, Ended
  <2>3. step.of \in Procs /\ [step EXCEPT !.pc = "child"] \in Steps
    BY <2>1, StepUpdates
  <2> QED BY <1>4, <2>1, <2>2, <2>3, StepMoves
<1>6. CASE SaveParent \/ LeaveParent
  BY <1>6, StepUpdates DEF SaveParent, LeaveParent, Kept
<1>7. ASSUME NEW c \in Children, ChildNext(c) PROVE step' \in Steps
  <2>1. child[c].call \in 1..Calls
    BY <1>4, <1>7 DEF ChildNext, ChildEnds, ChildAsks, ChildGivesUp, ChildCut, EndRun, Base, Sections, Held
  <2>2. step' = step \/ Settle(child[c].call) \/ Suspend(c) \/ step' = [step EXCEPT !.pc = "retry", !.of = 0]
    BY <1>7 DEF ChildNext, ChildEnds, ChildAsks, ChildGivesUp, ChildCut, EndRun
  <2>3. c \in Procs /\ [step EXCEPT !.pc = "retry", !.of = 0] \in Steps
    BY StepUpdates
  <2> QED BY <2>1, <2>2, <2>3, StepMoves
<1>8. ASSUME NEW r \in Replicas, StopReplica(r) PROVE step' \in Steps
  BY <1>8, StepUpdates DEF StopReplica
<1>9. CASE UNCHANGED step
  BY <1>9
<1> QED BY <1>1, <1>2, <1>3, <1>5, <1>6, <1>7, <1>8, <1>9
        DEF Next, RunNext, Begin, ParentNext, CancelNext, CancelSaves, CancelLists, Signal, RecoverNext, RecoverOrphan,
            FailOrphan, Submit, ResumeParent, Cancel, Lapse

LEMMA RowTypes ==
  ASSUME Base, Next
  PROVE  parent' \in ParentRows /\ child' \in [Children -> ChildRows]
<1> /\ step \in Steps /\ parent \in ParentRows /\ child \in [Children -> ChildRows] /\ found \in [Replicas -> Procs]
    /\ cancel \in Cancels
  BY DEF Base, Types
<1> USE Numbers
<1>1. ASSUME NEW c \in Children, NEW s \in {"running", "waiting", "completed", "failed", "cancelled"}, SetStatus(c, s)
      PROVE  child' \in [Children -> ChildRows]
  BY <1>1 DEF SetStatus, ChildRows
<1>2. NoKids \in KidMaps /\ step.kids \in KidMaps /\ step.of \in Procs
  BY DEF NoKids, KidMaps, Steps
<1>3. CASE SaveParent
  <2>1. ASSUME parent' = [parent EXCEPT !.kids = Kept] PROVE parent' \in ParentRows
    BY <1>2, <2>1 DEF ParentRows, Kept
  <2>2. ASSUME NEW k \in {NoKids, step.kids}, NEW o \in Procs, NEW s \in {"completed", "waiting"},
               parent' = [status |-> s, on |-> o, kids |-> k]
        PROVE  parent' \in ParentRows
    BY <1>2, <2>2 DEF ParentRows
  <2> QED BY <1>2, <1>3, <2>1, <2>2 DEF SaveParent
<1>4. ASSUME NEW r \in Replicas, NEW c \in Children, ResumeParent(r, c) \/ Submit(r, c)
      PROVE parent' \in ParentRows /\ child' \in [Children -> ChildRows]
  <2>1. [parent EXCEPT !.status = "running", !.on = 0] \in ParentRows
    BY DEF ParentRows
  <2> QED BY <1>1, <1>4, <2>1 DEF ResumeParent, Submit
<1>5. CASE CancelNext
  <2>1. [status |-> "cancelled", on |-> 0, kids |-> NoKids] \in ParentRows
    BY <1>2 DEF ParentRows
  <2>2. cancel.of # 0 => cancel.of \in Children
    BY DEF Cancels
  <2>3. parent' = parent \/ parent' = [status |-> "cancelled", on |-> 0, kids |-> NoKids]
    BY <1>5 DEF CancelNext, CancelSaves, CancelLists, rows
  <2>4. child' = child \/ (cancel.of # 0 /\ SetStatus(cancel.of, "cancelled"))
    BY <1>5 DEF CancelNext, CancelSaves, CancelLists, rows
  <2> QED BY <1>1, <2>1, <2>2, <2>3, <2>4
<1>6. CASE Look
  <2>1. child' = child \/ \E k \in 1..Calls, n \in Children : child' = [child EXCEPT ![n] = [status |-> "running", call |-> k]]
    BY <1>6 DEF Look
  <2>2. \A k \in 1..Calls : [status |-> "running", call |-> k] \in ChildRows
    BY DEF ChildRows
  <2>3. child' \in [Children -> ChildRows]
    BY <2>1, <2>2
  <2> QED BY <1>6, <2>3 DEF Look
<1>7. ASSUME NEW c \in Children, ChildNext(c) PROVE parent' \in ParentRows /\ child' \in [Children -> ChildRows]
  BY <1>1, <1>7 DEF ChildNext, ChildEnds, ChildAsks, ChildGivesUp, ChildCut, EndRun
<1>8. ASSUME NEW r \in Replicas, FailOrphan(r) PROVE parent' \in ParentRows /\ child' \in [Children -> ChildRows]
  BY <1>1, <1>8 DEF FailOrphan
<1>9. CASE UNCHANGED rows
  BY <1>9 DEF rows
<1>10. SaveParent => UNCHANGED child
  BY DEF SaveParent
<1> QED BY <1>3, <1>4, <1>5, <1>6, <1>7, <1>8, <1>9, <1>10
        DEF Next, RunNext, Begin, Take, ParentNext, Cycle, TakeNested, LeaveParent, Signal, RecoverNext, RecoverOrphan,
            Cancel, Lapse, StopReplica

LEMMA LockTypes ==
  ASSUME Base, Next
  PROVE  lock' \in [Procs -> Replicas \union {Free, Gone}] /\ runs' \subseteq Runs
<1> /\ lock \in [Procs -> Replicas \union {Free, Gone}] /\ runs \subseteq Runs /\ step \in Steps
  BY DEF Base, Types
<1> USE Numbers
<1>1. ASSUME NEW g, Begin(g) \/ Take(g) PROVE lock' \in [Procs -> Replicas \union {Free, Gone}] /\ runs' \subseteq Runs
  <2>1. g \in Runs
    BY <1>1 DEF Begin, Take
  <2>2. \A l \in {"new", "lock"} : [g EXCEPT !.pc = l] \in Runs
    BY <2>1 DEF Runs
  <2>3. g.at \in Replicas /\ g.of \in Procs
    BY <2>1 DEF Runs
  <2> QED BY <1>1, <2>2, <2>3 DEF Begin, Take
<1>2. CASE ParentNext
  <2>1. UNCHANGED runs
    BY <1>2 DEF ParentNext, Cycle, Look, TakeNested, SaveParent, LeaveParent
  <2>2. lock' = lock \/ (\E x \in Procs, r \in Replicas \union {Free} : lock' = [lock EXCEPT ![x] = r])
        \/ lock' = [lock EXCEPT ![0] = Free, ![step.of] = IF step.pc = "child" THEN Free ELSE @]
    <3>1. TakeNested => step.pc # "none"
      BY DEF TakeNested
    <3> QED BY <1>2, <3>1 DEF ParentNext, Cycle, Look, TakeNested, SaveParent, LeaveParent, Unlock, Base, Sections, Held, Steps
  <2> QED BY <2>1, <2>2
<1>3. ASSUME NEW c \in Children, ChildNext(c) PROVE UNCHANGED runs /\ lock' \in [Procs -> Replicas \union {Free, Gone}]
  BY <1>3 DEF ChildNext, ChildEnds, ChildAsks, ChildGivesUp, ChildCut, EndRun, Unlock
<1>4. ASSUME NEW r \in Replicas, NEW x \in Procs, runs' = runs \union Scheduled(r, x) PROVE runs' \subseteq Runs
  BY <1>4 DEF Scheduled, Runs
<1>5. ASSUME NEW r \in Replicas, NEW c \in Children, Submit(r, c) \/ ResumeParent(r, c) PROVE UNCHANGED lock /\ runs' \subseteq Runs
  BY <1>4, <1>5 DEF Submit, ResumeParent
<1>6. ASSUME NEW r \in Replicas, NEW x \in Procs, RecoverOrphan(r, x) PROVE UNCHANGED lock /\ runs' \subseteq Runs
  BY <1>6 DEF RecoverOrphan, Runs
<1>7. ASSUME NEW r \in Replicas, StopReplica(r) PROVE lock' \in [Procs -> Replicas \union {Free, Gone}] /\ runs' \subseteq Runs
  BY <1>7 DEF StopReplica
<1>8. ASSUME NEW x \in Procs, Lapse(x) PROVE lock' \in [Procs -> Replicas \union {Free, Gone}] /\ runs' \subseteq Runs
  BY <1>8 DEF Lapse, Unlock
<1>9. CASE UNCHANGED <<lock, runs>>
  BY <1>9
<1> QED BY <1>1, <1>2, <1>3, <1>5, <1>6, <1>7, <1>8, <1>9
        DEF Next, RunNext, CancelNext, CancelSaves, CancelLists, Signal, RecoverNext, FailOrphan, Cancel

LEMMA OneMore == \A m \in Nat : \A n \in 0..m : n < m => n + 1 \in 0..m
OBVIOUS

LEMMA SpentTypes ==
  ASSUME spent \in Spents,
         \/ UNCHANGED spent \/ Spend("faults", MaxFaults) \/ Spend("asks", MaxAsks) \/ Spend("signals", MaxSignals)
         \/ Spend("stops", MaxStops)
         \/ \E b \in BOOLEAN : spent.cancels < MaxCancels /\ spent' = [spent EXCEPT !.cancels = @ + 1, !.parent = b]
  PROVE  spent' \in Spents
<1>1. \A m \in Nat : \A n \in 0..m : n < m => n + 1 \in 0..m
  BY OneMore
<1>2. /\ spent.faults \in 0..MaxFaults /\ spent.asks \in 0..MaxAsks /\ spent.signals \in 0..MaxSignals
      /\ spent.stops \in 0..MaxStops /\ spent.cancels \in 0..MaxCancels
  BY DEF Spents
<1>3. /\ \A n \in 0..MaxFaults : [spent EXCEPT !.faults = n] \in Spents
      /\ \A n \in 0..MaxAsks : [spent EXCEPT !.asks = n] \in Spents
      /\ \A n \in 0..MaxSignals : [spent EXCEPT !.signals = n] \in Spents
      /\ \A n \in 0..MaxStops : [spent EXCEPT !.stops = n] \in Spents
      /\ \A n \in 0..MaxCancels, b \in BOOLEAN : [spent EXCEPT !.cancels = n, !.parent = b] \in Spents
  BY DEF Spents
<1>4. CASE Spend("faults", MaxFaults)
  <2>1. spent.faults < MaxFaults /\ spent' = [spent EXCEPT !.faults = spent.faults + 1]
    BY <1>4 DEF Spend
  <2> QED BY <1>1, <1>2, <1>3, <2>1, BoundsAssumption
<1>5. CASE Spend("asks", MaxAsks)
  <2>1. spent.asks < MaxAsks /\ spent' = [spent EXCEPT !.asks = spent.asks + 1]
    BY <1>5 DEF Spend
  <2> QED BY <1>1, <1>2, <1>3, <2>1, BoundsAssumption
<1>6. CASE Spend("signals", MaxSignals)
  <2>1. spent.signals < MaxSignals /\ spent' = [spent EXCEPT !.signals = spent.signals + 1]
    BY <1>6 DEF Spend
  <2> QED BY <1>1, <1>2, <1>3, <2>1, BoundsAssumption
<1>7. CASE Spend("stops", MaxStops)
  <2>1. spent.stops < MaxStops /\ spent' = [spent EXCEPT !.stops = spent.stops + 1]
    BY <1>7 DEF Spend
  <2> QED BY <1>1, <1>2, <1>3, <2>1, BoundsAssumption
<1>8. ASSUME NEW b \in BOOLEAN, spent.cancels < MaxCancels, spent' = [spent EXCEPT !.cancels = @ + 1, !.parent = b] PROVE spent' \in Spents
  BY <1>1, <1>2, <1>3, <1>8, BoundsAssumption
<1> QED BY <1>4, <1>5, <1>6, <1>7, <1>8

LEMMA RestTypes ==
  ASSUME Base, Next
  PROVE  /\ wakes' \subseteq Replicas \X Children /\ found' \in [Replicas -> Procs] /\ lost' \subseteq Children /\ spent' \in Spents
         /\ cancel' \in Cancels /\ cancelling' \subseteq Procs
<1> /\ wakes \subseteq Replicas \X Children /\ found \in [Replicas -> Procs] /\ lost \subseteq Children /\ spent \in Spents
    /\ cancel \in Cancels /\ cancelling \subseteq Procs /\ step \in Steps
  BY DEF Base, Types
<1> DEFINE Good == /\ wakes' \subseteq Replicas \X Children /\ found' \in [Replicas -> Procs] /\ lost' \subseteq Children /\ spent' \in Spents
                   /\ cancel' \in Cancels /\ cancelling' \subseteq Procs
           CanGo == UNCHANGED <<cancel, cancelling>>
<1> USE Numbers
<1>1. CASE ParentNext
  <2>1. UNCHANGED <<wakes, found, cancel, cancelling, lost>> /\ (UNCHANGED spent \/ Fault)
    BY <1>1 DEF ParentNext, Cycle, Look, TakeNested, SaveParent, LeaveParent
  <2> QED BY <2>1, SpentTypes DEF Fault
<1>2. ASSUME NEW c \in Children, ChildNext(c) \/ Signal(c) PROVE Good
  <2>1. UNCHANGED <<found, cancel, cancelling, lost>>
    BY <1>2 DEF ChildNext, ChildEnds, ChildAsks, ChildGivesUp, ChildCut, EndRun, Signal
  <2>2. UNCHANGED spent \/ Fault \/ Spend("asks", MaxAsks) \/ Spend("signals", MaxSignals)
    BY <1>2 DEF ChildNext, ChildEnds, ChildAsks, ChildGivesUp, ChildCut, EndRun, Signal
  <2>3. wakes' \subseteq Replicas \X Children
    BY <1>2 DEF ChildNext, ChildEnds, ChildAsks, ChildGivesUp, ChildCut, EndRun, Signal, Woken
  <2> QED BY <2>1, <2>2, <2>3, SpentTypes DEF Fault
<1>3. ASSUME NEW r \in Replicas, NEW c \in Children, Submit(r, c) \/ ResumeParent(r, c) PROVE Good
  <2>1. UNCHANGED <<found, cancel, cancelling>> /\ lost' \subseteq lost \union {c} /\ wakes' \subseteq wakes /\ (UNCHANGED spent \/ Fault)
    BY <1>3 DEF Submit, ResumeParent
  <2> QED BY <2>1, SpentTypes DEF Fault
<1>4. ASSUME NEW r \in Replicas, RecoverNext(r) PROVE Good
  <2>1. /\ UNCHANGED <<cancel, cancelling, lost>> /\ (UNCHANGED spent \/ Fault)
        /\ found' = found \/ \E x \in Procs : found' = [found EXCEPT ![r] = x]
        /\ wakes' = wakes \/ (found[r] \in Children /\ wakes' = Woken(r, found[r]))
    BY <1>4 DEF RecoverNext, RecoverOrphan, FailOrphan
  <2>2. found' \in [Replicas -> Procs] /\ wakes' \subseteq Replicas \X Children
    BY <2>1 DEF Woken
  <2> QED BY <2>1, <2>2, SpentTypes DEF Fault
<1>5. ASSUME NEW r \in Replicas, NEW x \in Procs, Cancel(r, x) PROVE Good
  <2>1. [pc |-> "lock", at |-> r, of |-> x, todo |-> {}] \in Cancels
    BY DEF Cancels
  <2>2. spent' \in Spents
    <3>1. (spent.parent \/ x = 0) \in BOOLEAN
      OBVIOUS
    <3>2. PICK b \in BOOLEAN : spent.cancels < MaxCancels /\ spent' = [spent EXCEPT !.cancels = @ + 1, !.parent = b]
      BY <1>5, <3>1 DEF Cancel
    <3> QED BY <3>2, SpentTypes
  <2> QED BY <1>5, <2>1, <2>2 DEF Cancel
<1>6. ASSUME NEW todo \in SUBSET Children, NEW marks \in SUBSET Procs, GoOn(todo, marks)
      PROVE  cancel' \in Cancels /\ cancelling' \subseteq Procs
  <2>1. NotCancelling \in Cancels
    BY DEF Cancels, NotCancelling
  <2>2. ASSUME NEW c \in todo PROVE [cancel EXCEPT !.pc = "lock", !.of = c, !.todo = todo \ {c}] \in Cancels /\ marks \union {c} \subseteq Procs
    BY DEF Cancels
  <2> QED BY <1>6, <2>1, <2>2 DEF GoOn
<1>7. ASSUME NEW r \in Replicas, StopReplica(r) PROVE Good
  <2>1. NotCancelling \in Cancels
    BY DEF Cancels, NotCancelling
  <2>2. Missed \subseteq Children
    BY DEF Missed, Cancels
  <2>3. lost' \subseteq Children /\ cancel' \in Cancels /\ cancelling' \subseteq Procs
    BY <1>7, <2>1, <2>2 DEF StopReplica
  <2>4. wakes' \subseteq wakes /\ found' \in [Replicas -> Procs]
    BY <1>7 DEF StopReplica
  <2>5. spent' \in Spents
    BY <1>7, SpentTypes DEF StopReplica
  <2> QED BY <2>3, <2>4, <2>5
<1>8. CASE CancelSaves
  <2>1. cancel.todo \in SUBSET Children /\ cancelling \ {cancel.of} \in SUBSET Procs /\ (cancel.of # 0 => cancel.of \in Children)
    BY DEF Cancels
  <2>2. Missed \subseteq Children
    BY <2>1 DEF Missed
  <2>3. [cancel EXCEPT !.pc = "list"] \in Cancels /\ NotCancelling \in Cancels
    BY DEF Cancels, NotCancelling
  <2>4. cancel' \in Cancels /\ cancelling' \subseteq Procs
    BY <1>6, <1>8, <2>1, <2>3 DEF CancelSaves
  <2>5. lost' \subseteq Children /\ found' \in [Replicas -> Procs] /\ (UNCHANGED spent \/ Fault)
    BY <1>8, <2>2 DEF CancelSaves
  <2>6. wakes' \subseteq Replicas \X Children
    <3>1. cancel.at \in Replicas
      BY <1>8 DEF CancelSaves, Base, CalledAt
    <3>2. wakes' = wakes \/ (cancel.of # 0 /\ wakes' = Woken(cancel.at, cancel.of))
      BY <1>8 DEF CancelSaves
    <3> QED BY <2>1, <3>1, <3>2 DEF Woken
  <2> QED BY <2>4, <2>5, <2>6, SpentTypes DEF Fault
<1>9. CASE CancelLists
  <2>1. LiveChildren \in SUBSET Children
    BY DEF LiveChildren
  <2> QED BY <1>6, <1>9, <2>1 DEF CancelLists
<1>10. CASE UNCHANGED <<wakes, found, cancel, cancelling, lost, spent>>
  BY <1>10
<1> QED BY <1>1, <1>2, <1>3, <1>4, <1>5, <1>7, <1>8, <1>9, <1>10
        DEF Next, RunNext, Begin, Take, CancelNext, Lapse

LEMMA TypesStep == Base /\ Next => Types'
BY StepTypes, RowTypes, LockTypes, RestTypes DEF Types

-----------------------------------------------------------------------------
(* The sections under the locks.                                            *)

LEMMA StartedStep == Base /\ Next => Started'
<1> SUFFICES ASSUME Base, Next PROVE Started'
  OBVIOUS
<1> child \in [Children -> ChildRows] /\ cancel \in Cancels /\ found \in [Replicas -> Procs] /\ Started /\ Sections
  BY DEF Base, Types
<1> USE Numbers
<1>1. ASSUME NEW c \in Children, NEW s \in {"running", "waiting", "completed", "failed", "cancelled"}, SetStatus(c, s),
             child[c].status # "none"
      PROVE  Started'
  BY <1>1 DEF SetStatus, ChildRows, Started
<1>2. CASE Look
  <2>1. ASSUME NEW k \in 1..Calls, NEW n \in Children, child' = [child EXCEPT ![n] = [status |-> "running", call |-> k]] PROVE Started'
    <3>1. k # 0
      BY BoundsAssumption
    <3> QED BY <2>1, <3>1 DEF Started
  <2>2. CASE UNCHANGED child
    BY <2>2 DEF Started
  <2> QED BY <1>2, <2>1, <2>2 DEF Look
<1>3. ASSUME NEW c \in Children, ChildNext(c) PROVE Started'
  <2>1. child[c].status = "running"
    BY <1>3 DEF ChildNext, ChildEnds, ChildAsks, ChildGivesUp, ChildCut, EndRun, Sections, Held
  <2>2. UNCHANGED child \/ SetStatus(c, "completed") \/ SetStatus(c, "waiting")
    BY <1>3 DEF ChildNext, ChildEnds, ChildAsks, ChildGivesUp, ChildCut
  <2>3. CASE UNCHANGED child
    BY <2>3 DEF Started
  <2> QED BY <1>1, <2>1, <2>2, <2>3
<1>4. ASSUME NEW r \in Replicas, NEW c \in Children, Submit(r, c) PROVE Started'
  BY <1>1, <1>4 DEF Submit
<1>5. ASSUME NEW r \in Replicas, FailOrphan(r) PROVE Started'
  <2>1. CASE UNCHANGED child
    BY <2>1 DEF Started
  <2>2. CASE found[r] \in Children /\ child[found[r]].status = "running" /\ SetStatus(found[r], "failed")
    BY <1>1, <2>2
  <2> QED BY <1>5, <2>1, <2>2 DEF FailOrphan
<1>6. CASE CancelNext
  <2>1. UNCHANGED child \/ (cancel.of # 0 /\ Live(Status(cancel.of)) /\ SetStatus(cancel.of, "cancelled"))
    BY <1>6 DEF CancelNext, CancelSaves, CancelLists, rows
  <2>2. CASE UNCHANGED child
    BY <2>2 DEF Started
  <2>3. cancel.of # 0 /\ Live(Status(cancel.of)) => cancel.of \in Children /\ child[cancel.of].status # "none"
    BY DEF Cancels, Status, Live
  <2> QED BY <1>1, <2>1, <2>2, <2>3
<1>7. CASE UNCHANGED child
  BY <1>7 DEF Started
<1> QED BY <1>2, <1>3, <1>4, <1>5, <1>6, <1>7
        DEF Next, RunNext, Begin, Take, ParentNext, Cycle, TakeNested, LeaveParent, SaveParent, Signal, RecoverNext, RecoverOrphan,
            Cancel, Lapse, StopReplica, ResumeParent, rows

LEMMA SectionsStep == Base /\ Next => Sections' /\ CalledAt'
<1> SUFFICES ASSUME Base, Next PROVE Sections' /\ CalledAt'
  OBVIOUS
<1> /\ parent \in ParentRows /\ child \in [Children -> ChildRows] /\ lock \in [Procs -> Replicas \union {Free, Gone}]
    /\ runs \subseteq Runs /\ step \in Steps /\ found \in [Replicas -> Procs] /\ cancel \in Cancels
  BY DEF Base, Types
<1> Sections /\ Started /\ CalledAt
  BY DEF Base
<1> USE Numbers, NamesAssumption
<1> DEFINE Others(x) == \A y \in Procs \ {x} : lock'[y] = lock[y]
<1>1. ASSUME NEW g, Take(g) PROVE Sections'
  <2>1. g \in Runs /\ g.of \in Procs /\ g.at \in Replicas
    BY <1>1 DEF Take, Runs
  <2>2. UNCHANGED <<parent, child>>
    BY <1>1 DEF Take, rows
  <2>3. CASE UNCHANGED <<lock, step>>
    BY <2>2, <2>3 DEF Sections, Held
  <2>4. CASE g.of = 0 /\ parent.status = "running" /\ lock' = [lock EXCEPT ![0] = g.at] /\ step' = [NotStepping EXCEPT !.pc = "top", !.kids = parent.kids]
    <3>1. step'.pc = "top" /\ step'.of = 0 /\ lock'[0] = g.at /\ Others(0)
      BY <2>4 DEF NotStepping
    <3> QED BY <2>1, <2>2, <2>4, <3>1 DEF Sections, Held
  <2>5. CASE g.of # 0 /\ child[g.of].status = "running" /\ lock[g.of] = Free /\ lock' = [lock EXCEPT ![g.of] = g.at] /\ UNCHANGED step
    BY <2>1, <2>2, <2>5 DEF Sections, Held, Steps
  <2> QED BY <1>1, <2>3, <2>4, <2>5 DEF Take, Status
<1>2. ASSUME Cycle PROVE Sections'
  BY <1>2 DEF Cycle, Sections, Held, Steps, rows
<1>3. ASSUME Look PROVE Sections'
  <2>1. UNCHANGED <<parent, lock>> /\ step.pc = "look" /\ step.of = 0
    BY <1>3 DEF Look, Sections
  <2>2. \A c \in Children : Held(c) => child'[c] = child[c]
    BY <1>3 DEF Look, Sections
  <2>3. \/ step'.pc \in {"look", "done"} /\ step'.of = 0
        \/ step'.pc \in {"start", "wait"} /\ step'.of # 0
    <3>1. \A k \in 1..Calls : Settle(k) => step'.pc = "look" /\ step'.of = 0
      BY DEF Settle, Steps
    <3>2. \A c \in Procs : Suspend(c) => step'.pc = "wait" /\ step'.of = c
      BY DEF Suspend, Steps
    <3>3. \A k \in 1..Calls : step.kids[k] \in Procs
      BY DEF Steps, KidMaps
    <3>4. \A k \in 1..Calls, n \in Children :
            step' = [step EXCEPT !.pc = "start", !.kids[k] = n, !.of = n] => step'.pc = "start" /\ step'.of = n
      BY DEF Steps
    <3>5. step' = [step EXCEPT !.pc = "done"] => step'.pc = "done" /\ step'.of = step.of
      BY DEF Steps
    <3>6. \/ step' = [step EXCEPT !.pc = "done"]
          \/ \E k \in 1..Calls :
               \/ Settle(k)
               \/ step.kids[k] # 0 /\ Suspend(step.kids[k])
               \/ \E n \in Children : step' = [step EXCEPT !.pc = "start", !.kids[k] = n, !.of = n]
      BY <1>3, Zenon DEF Look
    <3>7. CASE step' = [step EXCEPT !.pc = "done"]
      BY <2>1, <3>5, <3>7
    <3>8. ASSUME NEW k \in 1..Calls, Settle(k) PROVE step'.pc = "look" /\ step'.of = 0
      BY <3>1, <3>8
    <3>9. ASSUME NEW k \in 1..Calls, step.kids[k] # 0, Suspend(step.kids[k]) PROVE step'.pc = "wait" /\ step'.of # 0
      BY <3>2, <3>3, <3>9
    <3>10. ASSUME NEW k \in 1..Calls, NEW n \in Children,
                  step' = [step EXCEPT !.pc = "start", !.kids[k] = n, !.of = n]
           PROVE  step'.pc = "start" /\ step'.of # 0
      BY <3>4, <3>10, Numbers
    <3> QED BY <3>6, <3>7, <3>8, <3>9, <3>10
  <2> QED BY <2>1, <2>2, <2>3 DEF Sections, Held
<1>4. ASSUME TakeNested PROVE Sections'
  <2>1. UNCHANGED <<parent, child>> /\ step.pc = "start" /\ step.of \in Children /\ lock[step.of] = Free
    BY <1>4 DEF TakeNested, Sections, Steps, rows
  <2>2. \/ lock' = lock /\ step'.pc \in {"look", "wait"} /\ (step'.of # 0 <=> step'.pc = "wait")
        \/ lock' = [lock EXCEPT ![step.of] = lock[0]] /\ step'.pc = "child" /\ step'.of = step.of /\ child[step.of].status = "running"
    BY <1>4, <2>1 DEF TakeNested, Settle, Suspend, Steps
  <2> QED BY <2>1, <2>2 DEF Sections, Held
<1>5. ASSUME SaveParent PROVE Sections'
  <2>1. CASE step.pc = "retry"
    <3>1. parent'.status = parent.status /\ UNCHANGED <<child, lock>> /\ step'.pc = "top" /\ step'.of = 0
      BY <1>5, <2>1 DEF SaveParent, ParentRows, NotStepping
    <3> QED BY <2>1, <3>1 DEF Sections, Held
  <2>2. CASE step.pc # "retry"
    <3>1. UNCHANGED child /\ lock' = [lock EXCEPT ![0] = Free] /\ step'.pc = "none" /\ step'.of = 0
      BY <1>5, <2>2 DEF SaveParent, Unlock, NotStepping
    <3> QED BY <3>1 DEF Sections, Held
  <2> QED BY <2>1, <2>2
<1>6. ASSUME LeaveParent PROVE Sections'
  <2>1. UNCHANGED <<parent, child>> /\ step'.pc = "none" /\ step'.of = 0
    BY <1>6 DEF LeaveParent, NotStepping, rows
  <2>2. lock'[0] = Free /\ \A c \in Children : lock'[c] \in {lock[c], Free}
    BY <1>6 DEF LeaveParent
  <2> QED BY <2>1, <2>2 DEF Sections, Held
<1>7. ASSUME NEW c \in Children, ChildNext(c) PROVE Sections'
  <2>1. UNCHANGED parent /\ lock[c] \in Replicas /\ lock' = [lock EXCEPT ![c] = Free] /\ \A d \in Children \ {c} : child'[d] = child[d]
    BY <1>7 DEF ChildNext, ChildEnds, ChildAsks, ChildGivesUp, ChildCut, EndRun, Unlock, SetStatus
  <2>2. CASE Nested(c)
    <3>1. \/ step'.pc \in {"look", "retry"} /\ step'.of = 0
          \/ step'.pc = "wait" /\ step'.of = c
      <4>1. Settle(child[c].call) \/ Suspend(c) \/ step' = [step EXCEPT !.pc = "retry", !.of = 0]
        BY <1>7, <2>2, ChildRuns
      <4>2. ASSUME Settle(child[c].call) PROVE step'.pc = "look" /\ step'.of = 0
        BY <4>2, MoveFields
      <4>3. CASE Suspend(c)
        BY <4>3, MoveFields
      <4>4. ASSUME step' = [step EXCEPT !.pc = "retry", !.of = 0] PROVE step'.pc = "retry" /\ step'.of = 0
        BY <4>4, MoveFields
      <4> QED BY <4>1, <4>2, <4>3, <4>4
    <3> QED BY <2>1, <2>2, <3>1 DEF Sections, Held, Nested
  <2>3. CASE ~Nested(c)
    <3>1. UNCHANGED step
      BY <1>7, <2>3 DEF ChildNext, ChildEnds, ChildAsks, ChildGivesUp, ChildCut, EndRun
    <3> QED BY <2>1, <2>3, <3>1 DEF Sections, Held, Nested
  <2> QED BY <2>2, <2>3
<1>8. ASSUME NEW r \in Replicas, NEW c \in Children, Submit(r, c) PROVE Sections'
  BY <1>8 DEF Submit, SetStatus, Sections, Held
<1>9. ASSUME NEW r \in Replicas, NEW c \in Children, ResumeParent(r, c) PROVE Sections'
  <2>1. UNCHANGED <<child, lock, step>> /\ ~Held(0)
    BY <1>9 DEF ResumeParent, ParentFree, Held
  <2> QED BY <2>1 DEF Sections, Held
<1>10. ASSUME NEW r \in Replicas, FailOrphan(r) PROVE Sections'
  <2>1. found[r] \in Children /\ lock[found[r]] = Free /\ UNCHANGED <<parent, lock, step>>
    BY <1>10 DEF FailOrphan
  <2>2. \A c \in Children : Held(c) => child'[c] = child[c]
    BY <1>10, <2>1 DEF FailOrphan, SetStatus, Held
  <2> QED BY <2>1, <2>2 DEF Sections, Held
<1>11. ASSUME CancelNext PROVE Sections'
  <2>1. CASE CancelLists
    BY <2>1 DEF CancelLists, Sections, Held, rows
  <2>2. CASE CancelSaves
    <3>1. UNCHANGED <<lock, step>> /\ lock[cancel.of] = Free /\ cancel.of \in Procs
      BY <2>2 DEF CancelSaves, Cancels
    <3>2. Held(0) => UNCHANGED parent
      BY <2>2, <3>1 DEF CancelSaves, Held, rows
    <3>3. \A c \in Children : Held(c) => child'[c] = child[c]
      BY <2>2, <3>1 DEF CancelSaves, SetStatus, Held, rows
    <3> QED BY <3>1, <3>2, <3>3 DEF Sections, Held
  <2> QED BY <1>11, <2>1, <2>2 DEF CancelNext
<1>12. ASSUME NEW r \in Replicas, StopReplica(r) PROVE Sections'
  <2>1. UNCHANGED <<parent, child>> /\ \A x \in Procs : lock'[x] = IF lock[x] = r THEN Gone ELSE lock[x]
    BY <1>12 DEF StopReplica, rows
  <2>2. IF lock[0] = r THEN step'.pc = "none" /\ step'.of = 0 ELSE step' = step
    BY <1>12 DEF StopReplica, NotStepping
  <2>3. step.of \in Procs
    BY DEF Steps
  <2> QED BY <2>1, <2>2, <2>3 DEF Sections, Held
<1>13. ASSUME NEW x \in Procs, Lapse(x) PROVE Sections'
  <2>1. UNCHANGED <<parent, child, step>> /\ lock' = [lock EXCEPT ![x] = Free] /\ ~Held(x)
    BY <1>13 DEF Lapse, Unlock, Held, rows
  <2>2. step.of \in Procs
    BY DEF Steps
  <2> QED BY <2>1, <2>2 DEF Sections, Held
<1>14. ASSUME UNCHANGED <<parent, child, lock, step>> PROVE Sections'
  BY <1>14 DEF Sections, Held
<1>15. CalledAt'
  <2>1. CASE UNCHANGED cancel
    BY <2>1 DEF CalledAt
  <2>2. ASSUME NEW r \in Replicas, NEW x \in Procs, Cancel(r, x) PROVE CalledAt'
    BY <2>2 DEF Cancel, CalledAt
  <2>3. CASE CancelNext
    <3>1. cancel' = NotCancelling \/ cancel'.at = cancel.at
      BY <2>3 DEF CancelNext, CancelSaves, CancelLists, GoOn, Cancels
    <3>2. NotCancelling.pc = "none" /\ cancel.pc # "none"
      BY <2>3 DEF NotCancelling, CancelNext, CancelSaves, CancelLists
    <3> QED BY <3>1, <3>2 DEF CalledAt
  <2>4. ASSUME NEW r \in Replicas, StopReplica(r) PROVE CalledAt'
    BY <2>4 DEF StopReplica, NotCancelling, CalledAt
  <2> QED BY <2>1, <2>2, <2>3, <2>4
          DEF Next, RunNext, Begin, Take, ParentNext, Cycle, Look, TakeNested, LeaveParent, SaveParent, ChildNext, ChildEnds, ChildAsks,
              ChildGivesUp, ChildCut, EndRun, Signal, RecoverNext, RecoverOrphan, FailOrphan, Lapse, ResumeParent, Submit
<1> QED BY <1>1, <1>2, <1>3, <1>4, <1>5, <1>6, <1>7, <1>8, <1>9, <1>10, <1>11, <1>12, <1>13, <1>14, <1>15
        DEF Next, RunNext, Begin, ParentNext, Signal, RecoverNext, RecoverOrphan, Cancel, rows

LEMMA BaseStep == Base /\ [Next]_vars => Base'
<1>1. Base /\ Next => Base'
  BY TypesStep, StartedStep, SectionsStep DEF Base
<1>2. Base /\ UNCHANGED vars => Base'
  BY DEF Base, Types, Sections, Started, CalledAt, Held, vars, rows
<1> QED BY <1>1, <1>2

-----------------------------------------------------------------------------
(* The wake-up of the parent.                                               *)

\* Also while the parent is on its way to wait: the lock keeps resumeParent behind its save.
WillWaitOn(c) == WaitsOn(c) \/ (step.pc = "wait" /\ step.of = c)
Waking(c) == c \in lost \/ \E r \in Replicas : <<r, c>> \in wakes
WakeInv == \A c \in Children : WillWaitOn(c) /\ Ended(child[c].status) => Waking(c)

\* A parent begins to wait on a child that did not end.
LEMMA WaitsOnLive ==
  ASSUME Base, Next, NEW c \in Children, WillWaitOn(c)'
  PROVE  WillWaitOn(c) \/ ~Ended(child'[c].status)
<1> /\ parent \in ParentRows /\ step \in Steps /\ Sections
  BY DEF Base, Types
<1> USE Numbers
<1>1. CASE UNCHANGED <<parent, step>>
  BY <1>1 DEF WillWaitOn, WaitsOn
<1>2. CASE Look
  <2>1. UNCHANGED parent
    BY <1>2 DEF Look
  <2>2. ASSUME step'.pc = "wait" /\ step'.of = c PROVE Live(child[c].status) /\ UNCHANGED child
    <3>1. ASSUME NEW k \in 1..Calls, Suspend(step.kids[k]), UNCHANGED child, Live(child[step.kids[k]].status)
          PROVE Live(child[c].status) /\ UNCHANGED child
      BY <2>2, <3>1, MoveFields
    <3>2. \A k \in 1..Calls : ~Settle(k)
      BY <2>2, MoveFields
    <3>3. step' # [step EXCEPT !.pc = "done"]
      BY <2>2 DEF Steps
    <3>4. \A k \in 1..Calls, n \in Children : step' # [step EXCEPT !.pc = "start", !.kids[k] = n, !.of = n]
      BY <2>2 DEF Steps
    <3> QED BY <1>2, <3>1, <3>2, <3>3, <3>4 DEF Look
  <2> QED BY <2>1, <2>2 DEF WillWaitOn, WaitsOn, Live, Ended
<1>3. CASE TakeNested
  <2>1. UNCHANGED <<parent, child>>
    BY <1>3 DEF TakeNested, rows
  <2>2. ASSUME step'.pc = "wait" /\ step'.of = c PROVE child[c].status = "waiting"
    BY <1>3, <2>2, MoveFields DEF TakeNested, Steps
  <2> QED BY <2>1, <2>2 DEF WillWaitOn, WaitsOn, Ended
<1>4. CASE SaveParent
  <2>1. CASE step.pc = "retry"
    BY <1>4, <2>1 DEF SaveParent, WillWaitOn, WaitsOn, NotStepping, ParentRows
  <2>2. CASE step.pc # "retry"
    BY <1>4, <2>2 DEF SaveParent, WillWaitOn, WaitsOn, NotStepping
  <2> QED BY <2>1, <2>2
<1>5. CASE LeaveParent \/ Cycle
  BY <1>5 DEF LeaveParent, Cycle, WillWaitOn, WaitsOn, NotStepping, rows, Steps
<1>6. ASSUME NEW d \in Children, ChildNext(d) PROVE WillWaitOn(c) \/ ~Ended(child'[c].status)
  <2>1. UNCHANGED parent
    BY <1>6, ChildRuns
  <2>2. ASSUME step'.pc = "wait" /\ step'.of = c, ~(step.pc = "wait" /\ step.of = c) PROVE ~Ended(child'[c].status)
    <3>1. Nested(d) /\ Suspend(c) /\ c = d
      BY <1>6, <2>2, ChildRuns, MoveFields
    <3>2. child[c].status = "running"
      BY <1>6, <3>1, ChildRuns DEF Sections, Held
    <3>3. ~Settle(child[c].call)
      BY <2>2, MoveFields
    <3>4. SetStatus(c, "waiting") \/ UNCHANGED child
      BY <1>6, <3>1, <3>3, ChildRuns
    <3>5. child \in [Children -> ChildRows]
      BY DEF Base, Types
    <3> QED BY <3>2, <3>4, <3>5 DEF SetStatus, Ended, ChildRows
  <2> QED BY <2>1, <2>2 DEF WillWaitOn, WaitsOn
<1>7. ASSUME NEW g, Take(g) PROVE WillWaitOn(c)
  BY <1>7 DEF Take, WillWaitOn, WaitsOn, NotStepping, rows
<1>8. ASSUME NEW r \in Replicas, NEW d \in Children, ResumeParent(r, d) PROVE WillWaitOn(c)
  BY <1>8 DEF ResumeParent, WillWaitOn, WaitsOn, ParentRows
<1>9. ASSUME CancelNext PROVE WillWaitOn(c)
  BY <1>9 DEF CancelNext, CancelSaves, CancelLists, WillWaitOn, WaitsOn, rows
<1>10. ASSUME NEW r \in Replicas, StopReplica(r) PROVE WillWaitOn(c)
  BY <1>10 DEF StopReplica, WillWaitOn, WaitsOn, NotStepping, rows
<1> QED BY <1>1, <1>2, <1>3, <1>4, <1>5, <1>6, <1>7, <1>8, <1>9, <1>10
        DEF Next, RunNext, Begin, ParentNext, Signal, RecoverNext, RecoverOrphan, FailOrphan, Cancel, Lapse, Submit, rows

\* A child ends with a goroutine that wakes its parent.
LEMMA EndsWake ==
  ASSUME Base, Next, NEW c \in Children, Ended(child'[c].status)
  PROVE  Ended(child[c].status) \/ \E r \in Replicas : <<r, c>> \in wakes'
<1> child \in [Children -> ChildRows] /\ found \in [Replicas -> Procs] /\ cancel \in Cancels /\ Sections /\ CalledAt
  BY DEF Base, Types
<1> USE Numbers
<1>1. CASE Look
  <2>1. UNCHANGED child \/ \E k \in 1..Calls, n \in Children : child' = [child EXCEPT ![n] = [status |-> "running", call |-> k]]
    BY <1>1 DEF Look
  <2>2. ASSUME NEW k \in 1..Calls, NEW n \in Children, child' = [child EXCEPT ![n] = [status |-> "running", call |-> k]]
        PROVE  child'[c] = child[c] \/ child'[c].status = "running"
    BY <2>2
  <2> QED BY <2>1, <2>2 DEF Ended
<1>2. ASSUME NEW d \in Children, ChildNext(d) PROVE Ended(child[c].status) \/ \E r \in Replicas : <<r, c>> \in wakes'
  <2>1. CASE UNCHANGED child
    BY <2>1
  <2>2. CASE SetStatus(d, "completed") /\ lock[d] \in Replicas /\ wakes' = Woken(lock[d], d)
    BY <2>2 DEF SetStatus, Woken
  <2>3. CASE SetStatus(d, "waiting")
    BY <2>3 DEF SetStatus, Ended
  <2> QED BY <1>2, <2>1, <2>2, <2>3, ChildRuns
<1>3. ASSUME NEW r \in Replicas, FailOrphan(r) PROVE Ended(child[c].status) \/ \E q \in Replicas : <<q, c>> \in wakes'
  BY <1>3 DEF FailOrphan, SetStatus, Woken
<1>4. CASE CancelSaves
  <2>1. cancel.at \in Replicas /\ (cancel.of # 0 => cancel.of \in Children)
    BY <1>4 DEF CancelSaves, CalledAt, Cancels
  <2>2. CASE UNCHANGED child
    BY <2>2
  <2>3. CASE cancel.of # 0 /\ SetStatus(cancel.of, "cancelled") /\ wakes' = Woken(cancel.at, cancel.of)
    BY <2>1, <2>3 DEF SetStatus, Woken
  <2> QED BY <1>4, <2>2, <2>3 DEF CancelSaves, rows
<1>5. ASSUME NEW r \in Replicas, NEW d \in Children, Submit(r, d) PROVE Ended(child[c].status)
  BY <1>5 DEF Submit, SetStatus, Ended
<1>6. CASE UNCHANGED child
  BY <1>6
<1> QED BY <1>1, <1>2, <1>3, <1>4, <1>5, <1>6
        DEF Next, RunNext, Begin, Take, ParentNext, Cycle, TakeNested, SaveParent, LeaveParent, Signal, RecoverNext, RecoverOrphan,
            CancelNext, CancelLists, Cancel, Lapse, ResumeParent, StopReplica, rows

\* A wake-up on its way for the end of a child goes nowhere but to a parent that does not wait on it, or is lost.
LEMMA WakesKept ==
  ASSUME Base, Next, NEW c \in Children, Waking(c), Ended(child[c].status), WillWaitOn(c)'
  PROVE  Waking(c)'
<1> USE DEF Waking
<1>1. ASSUME NEW r \in Replicas, NEW d \in Children, ResumeParent(r, d) PROVE Waking(c)'
  <2>1. CASE c # d
    BY <1>1, <2>1 DEF ResumeParent
  <2>2. CASE c = d /\ lost' # lost \union {c}
    <3>1. ~Held(0) /\ UNCHANGED step
      BY <1>1, NamesAssumption DEF ResumeParent, ParentFree, Held
    <3>2. ~WaitsOn(c)'
      BY <1>1, <2>2 DEF ResumeParent, WaitsOn, Base, Types, ParentRows
    <3> QED BY <3>1, <3>2 DEF WillWaitOn, Base, Sections
  <2>3. CASE lost' = lost \union {c}
    BY <2>3
  <2> QED BY <2>1, <2>2, <2>3
<1>2. ASSUME NEW r \in Replicas, StopReplica(r) PROVE Waking(c)'
  BY <1>2 DEF StopReplica
<1>3. CASE wakes \subseteq wakes' /\ lost \subseteq lost'
  BY <1>3
<1>4. CASE CancelSaves
  <2>1. wakes \subseteq wakes' /\ lost \subseteq lost'
    BY <1>4 DEF CancelSaves, Woken
  <2> QED BY <1>3, <2>1
<1>5. ASSUME NEW d \in Children, ChildNext(d) PROVE wakes \subseteq wakes' /\ lost \subseteq lost'
  BY <1>5, ChildRuns DEF Woken
<1>6. ASSUME NEW d \in Children, Signal(d) PROVE wakes \subseteq wakes' /\ lost \subseteq lost'
  BY <1>6 DEF Signal, Woken
<1>7. ASSUME NEW r \in Replicas, FailOrphan(r) PROVE wakes \subseteq wakes' /\ lost \subseteq lost'
  BY <1>7 DEF FailOrphan, Woken
<1>8. CASE UNCHANGED <<wakes, lost>>
  BY <1>8
<1> HIDE DEF Waking
<1> QED BY <1>1, <1>2, <1>3, <1>4, <1>5, <1>6, <1>7, <1>8
        DEF Next, RunNext, Begin, Take, ParentNext, Cycle, Look, TakeNested, SaveParent, LeaveParent, RecoverNext, RecoverOrphan,
            CancelNext, CancelLists, Cancel, Lapse, Submit

LEMMA WakeStep == Base /\ WakeInv /\ [Next]_vars => WakeInv'
<1>1. ASSUME Base, WakeInv, Next, NEW c \in Children, WillWaitOn(c)', Ended(child'[c].status) PROVE Waking(c)'
  <2>1. WillWaitOn(c)
    BY <1>1, WaitsOnLive
  <2>2. CASE Ended(child[c].status)
    BY <1>1, <2>1, <2>2, WakesKept DEF WakeInv
  <2>3. CASE ~Ended(child[c].status)
    BY <1>1, <2>3, EndsWake DEF Waking
  <2> QED BY <2>2, <2>3
<1>2. ASSUME WakeInv, UNCHANGED vars PROVE WakeInv'
  BY <1>2 DEF WakeInv, WillWaitOn, WaitsOn, Waking, vars, rows
<1> QED BY <1>1, <1>2 DEF WakeInv

\* The types of all but the counters, and what a held lock says of the row it guards (Run, runChildStep).
THEOREM SubProcessesBase == Spec => []Base
BY InitBase, BaseStep, PTL DEF Spec

\* The end of a child is never missed by a parent that waits on it (runChildStep, save, resumeParent).
THEOREM WakesOnTheirWay == Spec => []WakeOnItsWay
<1>1. Init => WakeInv
  BY DEF Init, WakeInv, Ended
<1>2. WakeInv => WakeOnItsWay
  BY DEF WakeInv, WakeOnItsWay, WillWaitOn, Waking
<1> QED BY <1>1, <1>2, SubProcessesBase, WakeStep, PTL DEF Spec
-----------------------------------------------------------------------------
(* The cascade of Cancel.                                                   *)

\* What is left of the cascade: all the children, those listed, or those lost.
Left(c) == c \in lost \/ cancel.pc = "list" \/ (cancel.pc = "lock" /\ c \in cancel.todo \union {cancel.of})
Cascade ==
  /\ cancel.pc = "list" => parent.status = "cancelled"
  /\ parent.status = "cancelled" =>
       /\ ~(cancel.pc = "lock" /\ cancel.of = 0)
       /\ \A c \in Children : Live(child[c].status) => Left(c)

\* Nothing but the save of Cancel makes the parent cancelled, and it stays so.
LEMMA ParentCancelled ==
  ASSUME Base, Next
  PROVE  /\ parent.status = "cancelled" => parent'.status = "cancelled"
         /\ parent'.status = "cancelled" => parent.status = "cancelled" \/ (CancelSaves /\ cancel.of = 0 /\ cancel'.pc = "list")
<1> parent \in ParentRows /\ cancel \in Cancels /\ Sections
  BY DEF Base, Types
<1>1. CASE SaveParent
  <2>1. parent.status = "running"
    BY <1>1, Numbers DEF SaveParent, Sections, Held
  <2>2. parent'.status \in {"completed", "waiting", parent.status}
    BY <1>1 DEF SaveParent, ParentRows
  <2> QED BY <2>1, <2>2
<1>2. ASSUME NEW r \in Replicas, NEW c \in Children, ResumeParent(r, c)
      PROVE  parent' = parent \/ (parent.status = "waiting" /\ parent'.status = "running")
  BY <1>2 DEF ResumeParent, WaitsOn, ParentRows
<1>3. ASSUME CancelSaves, parent' # parent
      PROVE  Live(parent.status) /\ parent'.status = "cancelled" /\ cancel.of = 0 /\ cancel'.pc = "list"
  BY <1>3 DEF CancelSaves, Status, Cancels, rows
<1>4. ASSUME NEW c \in Children, ChildNext(c) PROVE UNCHANGED parent
  BY <1>4, ChildRuns
<1>5. CASE CancelSaves
  BY <1>3, <1>5 DEF Live
<1>6. CASE UNCHANGED parent
  BY <1>6
<1> QED BY <1>1, <1>2, <1>4, <1>5, <1>6
        DEF Next, RunNext, Begin, Take, ParentNext, Cycle, Look, TakeNested, LeaveParent, Signal, RecoverNext, RecoverOrphan,
            FailOrphan, CancelNext, CancelLists, Cancel, Lapse, Submit, StopReplica, rows

\* A child that is live was, or a run of the parent has just started it.
LEMMA LiveBefore ==
  ASSUME Base, Next, NEW c \in Children, Live(child'[c].status)
  PROVE  Live(child[c].status) \/ (Look /\ Held(0))
<1> child \in [Children -> ChildRows] /\ found \in [Replicas -> Procs] /\ cancel \in Cancels /\ Sections
  BY DEF Base, Types
<1> USE Numbers DEF Live
<1>1. CASE Look
  BY <1>1 DEF Look, Sections
<1>2. ASSUME NEW d \in Children, ChildNext(d) PROVE Live(child[c].status)
  <2>1. child[d].status = "running"
    BY <1>2, ChildRuns DEF Sections, Held
  <2>2. UNCHANGED child \/ SetStatus(d, "completed") \/ SetStatus(d, "waiting")
    BY <1>2, ChildRuns
  <2> QED BY <2>1, <2>2 DEF SetStatus
<1>3. ASSUME NEW r \in Replicas, FailOrphan(r) PROVE Live(child[c].status)
  BY <1>3 DEF FailOrphan, SetStatus
<1>4. ASSUME NEW r \in Replicas, NEW d \in Children, Submit(r, d) PROVE Live(child[c].status)
  BY <1>4 DEF Submit, SetStatus
<1>5. CASE CancelSaves
  <2>1. UNCHANGED child \/ (cancel.of # 0 /\ SetStatus(cancel.of, "cancelled"))
    BY <1>5 DEF CancelSaves, rows
  <2>2. cancel.of # 0 => cancel.of \in Children
    BY DEF Cancels
  <2>3. CASE cancel.of # 0 /\ SetStatus(cancel.of, "cancelled")
    BY <2>2, <2>3 DEF SetStatus
  <2> QED BY <2>1, <2>3
<1>6. CASE UNCHANGED child
  BY <1>6
<1> QED BY <1>1, <1>2, <1>3, <1>4, <1>5, <1>6
        DEF Next, RunNext, Begin, Take, ParentNext, Cycle, TakeNested, SaveParent, LeaveParent, Signal, RecoverNext, RecoverOrphan,
            CancelNext, CancelLists, Cancel, Lapse, ResumeParent, StopReplica, rows

\* A call of Cancel goes on with the children that are left.
LEMMA GoesOn ==
  ASSUME cancel \in Cancels, NEW todo, NEW marks, GoOn(todo, marks)
  PROVE  /\ \A c \in todo : cancel'.pc = "lock" /\ c \in cancel'.todo \union {cancel'.of}
         /\ cancel'.pc = "lock" => cancel'.of \in todo
         /\ cancel'.pc # "list"
<1>1. CASE todo = {} /\ cancel' = NotCancelling
  BY <1>1 DEF NotCancelling
<1>2. ASSUME NEW d \in todo, cancel' = [cancel EXCEPT !.pc = "lock", !.of = d, !.todo = todo \ {d}]
      PROVE  /\ \A c \in todo : cancel'.pc = "lock" /\ c \in cancel'.todo \union {cancel'.of}
             /\ cancel'.pc = "lock" => cancel'.of \in todo
             /\ cancel'.pc # "list"
  <2>1. cancel'.pc = "lock" /\ cancel'.of = d /\ cancel'.todo = todo \ {d}
    BY <1>2 DEF Cancels
  <2> QED BY <2>1
<1> QED BY <1>1, <1>2 DEF GoOn

LEMMA LeftKept ==
  ASSUME Base, Cascade, Next, parent.status = "cancelled",
         NEW c \in Children, Live(child[c].status), Left(c), Live(child'[c].status)
  PROVE  Left(c)'
<1> cancel \in Cancels /\ lost \subseteq Children /\ child \in [Children -> ChildRows]
  BY DEF Base, Types
<1> USE Numbers
<1>1. CASE CancelSaves
  <2>1. cancel.pc = "lock" /\ cancel.of \in Children
    BY <1>1 DEF CancelSaves, Cascade, Cancels
  <2>2. c \in lost \/ c \in cancel.todo \/ c = cancel.of
    BY <2>1 DEF Left
  <2>3. CASE Ended(Status(cancel.of)) /\ GoOn(cancel.todo, cancelling \ {cancel.of}) /\ UNCHANGED lost
    <3>1. c # cancel.of
      BY <2>1, <2>3 DEF Status, Live, Ended
    <3> QED BY <2>2, <2>3, <3>1, GoesOn DEF Left
  <2>4. CASE SetStatus(cancel.of, "cancelled") /\ GoOn(cancel.todo, cancelling \ {cancel.of}) /\ UNCHANGED lost
    <3>1. c # cancel.of
      BY <2>1, <2>4 DEF SetStatus, Live
    <3> QED BY <2>2, <2>4, <3>1, GoesOn DEF Left
  <2>5. CASE lost' = lost \union Missed
    BY <2>1, <2>2, <2>5 DEF Missed, Left
  <2> QED BY <1>1, <2>1, <2>3, <2>4, <2>5 DEF CancelSaves
<1>2. CASE CancelLists
  <2>1. c \in LiveChildren
    BY DEF LiveChildren
  <2> QED BY <1>2, <2>1, GoesOn DEF CancelLists, Left
<1>3. ASSUME NEW r \in Replicas, NEW x \in Procs, Cancel(r, x) PROVE Left(c)'
  BY <1>3 DEF Cancel, Left
<1>4. ASSUME NEW r \in Replicas, StopReplica(r) PROVE Left(c)'
  <2>1. CASE cancel.at = r
    <3>1. c \in lost \/ c \in Missed
      BY DEF Left, Missed, Cascade, Cancels
    <3> QED BY <1>4, <2>1, <3>1 DEF StopReplica, Left
  <2>2. CASE cancel.at # r
    BY <1>4, <2>2 DEF StopReplica, Left
  <2> QED BY <2>1, <2>2
<1>5. CASE UNCHANGED cancel /\ lost \subseteq lost'
  BY <1>5 DEF Left
<1>6. ASSUME NEW d \in Children, ChildNext(d) PROVE UNCHANGED <<cancel, lost>>
  BY <1>6, ChildRuns
<1>7. ASSUME NEW r \in Replicas, NEW d \in Children, ResumeParent(r, d) PROVE UNCHANGED cancel /\ lost \subseteq lost'
  BY <1>7 DEF ResumeParent
<1> QED BY <1>1, <1>2, <1>3, <1>4, <1>5, <1>6, <1>7
        DEF Next, RunNext, Begin, Take, ParentNext, Cycle, Look, TakeNested, SaveParent, LeaveParent, Signal, RecoverNext,
            RecoverOrphan, FailOrphan, CancelNext, Lapse, Submit

\* Cancel comes to list the children after its save, and goes on with children only.
LEMMA CancelMoves ==
  ASSUME Base, Next
  PROVE  /\ cancel'.pc = "list" => cancel.pc = "list" \/ (CancelSaves /\ cancel.of = 0 /\ parent'.status = "cancelled")
         /\ cancel'.pc = "lock" /\ cancel'.of = 0 => (cancel.pc = "lock" /\ cancel.of = 0) \/ Live(parent.status)
<1> cancel \in Cancels
  BY DEF Base, Types
<1> USE Numbers
<1>1. CASE CancelSaves
  <2>1. CASE GoOn(cancel.todo, cancelling \ {cancel.of})
    BY <1>1, <2>1, GoesOn DEF Cancels
  <2>2. CASE cancel' = NotCancelling
    BY <2>2 DEF NotCancelling
  <2>3. CASE cancel.of = 0 /\ cancel' = [cancel EXCEPT !.pc = "list"] /\ parent' = [status |-> "cancelled", on |-> 0, kids |-> NoKids]
    BY <1>1, <2>3 DEF Cancels
  <2> QED BY <1>1, <2>1, <2>2, <2>3 DEF CancelSaves
<1>2. CASE CancelLists
  BY <1>2, GoesOn DEF CancelLists, LiveChildren
<1>3. ASSUME NEW r \in Replicas, NEW x \in Procs, Cancel(r, x)
      PROVE cancel'.pc = "lock" /\ cancel'.of = x /\ Live(Status(x))
  BY <1>3 DEF Cancel
<1>4. ASSUME NEW r \in Replicas, StopReplica(r) PROVE cancel' = cancel \/ cancel'.pc = "none"
  BY <1>4 DEF StopReplica, NotCancelling
<1>5. ASSUME NEW c \in Children, ChildNext(c) PROVE UNCHANGED cancel
  BY <1>5, ChildRuns
<1>6. CASE UNCHANGED cancel
  BY <1>6
<1> QED BY <1>1, <1>2, <1>3, <1>4, <1>5, <1>6
        DEF Next, RunNext, Begin, Take, ParentNext, Cycle, Look, TakeNested, SaveParent, LeaveParent, Signal, RecoverNext,
            RecoverOrphan, FailOrphan, CancelNext, Lapse, Submit, ResumeParent, Status

LEMMA CascadeStep == Base /\ Cascade /\ [Next]_vars => Cascade'
<1>1. ASSUME Base, Cascade, Next PROVE Cascade'
  <2>1. cancel'.pc = "list" => parent'.status = "cancelled"
    BY <1>1, CancelMoves, ParentCancelled DEF Cascade
  <2>2. ASSUME parent'.status = "cancelled", parent.status # "cancelled"
        PROVE  cancel'.pc = "list"
    BY <1>1, <2>2, ParentCancelled
  <2>3. ASSUME parent.status = "cancelled"
        PROVE  ~(cancel'.pc = "lock" /\ cancel'.of = 0)
    BY <1>1, <2>3, CancelMoves DEF Cascade, Live
  <2>4. ASSUME parent.status = "cancelled", NEW c \in Children, Live(child'[c].status)
        PROVE  Left(c)'
    <3>1. ~Held(0)
      BY <1>1, <2>4 DEF Base, Sections
    <3>2. Live(child[c].status)
      BY <1>1, <2>4, <3>1, LiveBefore
    <3> QED BY <1>1, <2>4, <3>2, LeftKept DEF Cascade
  <2> QED BY <2>1, <2>2, <2>3, <2>4 DEF Cascade, Left
<1>2. ASSUME Cascade, UNCHANGED vars PROVE Cascade'
  BY <1>2 DEF Cascade, Left, vars, rows
<1> QED BY <1>1, <1>2

\* Once Cancel of the parent is over, none of its children is live, but those a stop or a failed write kept it from
\* (Cancel, Store.List by ParentID).
THEOREM CancelTakesAll == Spec => []CancelTakesChildren
<1>1. Init => Cascade
  BY DEF Init, Cascade, NotCancelling
<1>2. Cascade => CancelTakesChildren
  BY DEF Cascade, CancelTakesChildren, Left
<1> QED BY <1>1, <1>2, SubProcessesBase, CascadeStep, PTL DEF Spec
-----------------------------------------------------------------------------
(* One live child for a call.                                               *)

\* The kids of a run, or of the row of a parent that is not run, are children started for their call.
KidsFor(rs, kids) == \A k \in 1..Calls : kids[k] # 0 => rs[kids[k]].call = k
Kids == IF step.pc = "none" THEN parent.kids ELSE step.kids
KidsInv ==
  /\ KidsFor(child, step.kids) /\ KidsFor(child, parent.kids)
  /\ step.of # 0 => \E k \in 1..Calls : step.kids[k] = step.of
  /\ step.pc = "done" => 1..Calls \subseteq step.done
  /\ (cancel.pc # "none" /\ cancel.of = 0) \/ 0 \in cancelling => spent.parent

Quiet == spent.stops = 0 /\ spent.faults = 0 /\ ~spent.parent
OneLive == \A c \in Children : Live(child[c].status) => Kids[child[c].call] = c
DoneEnded == \A k \in step.done : step.kids[k] # 0 /\ Ended(child[step.kids[k]].status)
OneInv == Quiet => OneLive /\ DoneEnded

\* What runChildStep finds: a call settled, a child to wait on, or a new child.
Finds(kids, of, done) == step'.kids = kids /\ step'.of = of /\ step'.done = done
SettlesOne(k) == step.kids[k] # 0 /\ Ended(child[step.kids[k]].status) /\ step'.pc = "look" /\ Finds(step.kids, 0, step.done \union {k})
WaitsOnOne(k) == step.kids[k] # 0 /\ step'.pc = "wait" /\ Finds(step.kids, step.kids[k], step.done)
StartsOne(k, n) ==
  /\ step.kids[k] = 0 /\ k \notin step.done /\ child[n].status = "none"
  /\ child' = [child EXCEPT ![n] = [status |-> "running", call |-> k]]
  /\ step'.pc = "start" /\ Finds([step.kids EXCEPT ![k] = n], n, step.done)

LEMMA LookMoves ==
  ASSUME Base, Look
  PROVE  /\ UNCHANGED <<parent, cancel, cancelling, spent>> /\ step.pc = "look" /\ step.of = 0
         /\ \/ UNCHANGED child /\ step'.pc = "done" /\ Finds(step.kids, 0, step.done) /\ 1..Calls \subseteq step.done
            \/ UNCHANGED child /\ \E k \in 1..Calls : SettlesOne(k) \/ WaitsOnOne(k)
            \/ \E k \in 1..Calls, n \in Children : StartsOne(k, n)
<1> step \in Steps /\ Sections
  BY DEF Base, Types
<1>1. UNCHANGED <<parent, cancel, cancelling, spent>> /\ step.pc = "look" /\ step.of = 0
  BY DEF Look, Sections
<1>2. ASSUME step' = [step EXCEPT !.pc = "done"] PROVE step'.pc = "done" /\ Finds(step.kids, 0, step.done)
  BY <1>1, <1>2 DEF Finds, Steps
<1>3. ASSUME NEW k \in 1..Calls, step.kids[k] # 0, Ended(child[step.kids[k]].status), Settle(k) PROVE SettlesOne(k)
  BY <1>3, MoveFields DEF SettlesOne, Finds
<1>4. ASSUME NEW k \in 1..Calls, step.kids[k] # 0, Suspend(step.kids[k]) PROVE WaitsOnOne(k)
  BY <1>4, MoveFields DEF WaitsOnOne, Finds
<1>5. ASSUME NEW k \in 1..Calls, NEW n \in Children, step' = [step EXCEPT !.pc = "start", !.kids[k] = n, !.of = n]
      PROVE  step'.pc = "start" /\ Finds([step.kids EXCEPT ![k] = n], n, step.done)
  BY <1>5 DEF Steps, Finds
<1>6. CASE UNCHANGED child /\ step' = [step EXCEPT !.pc = "done"] /\ {k \in 1..Calls : k \notin step.done} = {}
  BY <1>1, <1>2, <1>6
<1>7. ASSUME NEW k \in 1..Calls, k \notin step.done,
             \/ step.kids[k] # 0 /\ Ended(child[step.kids[k]].status) /\ Settle(k) /\ UNCHANGED child
             \/ step.kids[k] # 0 /\ Live(child[step.kids[k]].status) /\ Suspend(step.kids[k]) /\ UNCHANGED child
             \/ /\ step.kids[k] = 0
                /\ \E n \in Children :
                     /\ child[n].status = "none" /\ \A m \in 1..n - 1 : child[m].status # "none"
                     /\ child' = [child EXCEPT ![n] = [status |-> "running", call |-> k]]
                     /\ step' = [step EXCEPT !.pc = "start", !.kids[k] = n, !.of = n]
      PROVE  \/ UNCHANGED child /\ (SettlesOne(k) \/ WaitsOnOne(k))
             \/ \E n \in Children : StartsOne(k, n)
  BY <1>3, <1>4, <1>5, <1>7 DEF StartsOne
<1> QED BY <1>1, <1>6, <1>7 DEF Look

\* What the other steps do with the run of the parent and with the kids of its row.
TakesKids == step.pc = "none" /\ step'.pc = "top" /\ Finds(parent.kids, 0, {}) /\ UNCHANGED parent
Settled == step.of # 0 /\ step'.done = step.done \union {child[step.of].call} /\ (Ended(child'[step.of].status) \/ Fault)
RunsOn ==
  /\ step.pc # "none" /\ step'.pc \notin {"none", "done"} /\ step'.kids = step.kids /\ UNCHANGED parent
  /\ step'.of \in {0, step.of} /\ (step'.done = step.done \/ Settled)
RunEnds == step'.pc = "none" /\ Finds(NoKids, 0, {})
Saves ==
  /\ step.pc # "none"
  /\ \/ step.pc = "done" /\ RunEnds /\ parent'.kids = NoKids
     \/ RunEnds /\ parent'.kids = step.kids
     \/ step'.pc = "top" /\ Finds(step.kids, 0, {}) /\ parent'.kids = step.kids
StopsRun == (LeaveParent \/ \E r \in Replicas : StopReplica(r)) /\ RunEnds /\ UNCHANGED parent
CancelsParent == CancelSaves /\ cancel.of = 0 /\ UNCHANGED step /\ parent'.kids = NoKids
SameRun == UNCHANGED step /\ parent'.kids = parent.kids
Moves == TakesKids \/ RunsOn \/ Saves \/ StopsRun \/ CancelsParent \/ SameRun

LEMMA RunMoves == Base /\ KidsInv /\ Next => Look \/ Moves
<1> SUFFICES ASSUME Base, KidsInv, Next PROVE Look \/ Moves
  OBVIOUS
<1> step \in Steps /\ parent \in ParentRows /\ child \in [Children -> ChildRows] /\ Sections
  BY DEF Base, Types
<1> USE Numbers, NamesAssumption
<1>0. NotStepping.pc = "none" /\ NotStepping.kids = NoKids /\ NotStepping.of = 0 /\ NotStepping.done = {}
  BY DEF NotStepping
<1>1. ASSUME NEW g, Take(g) PROVE Moves
  <2>1. CASE UNCHANGED step
    BY <1>1, <2>1 DEF Take, Moves, SameRun, rows
  <2>2. CASE g.of = 0 /\ lock[0] = Free /\ step' = [NotStepping EXCEPT !.pc = "top", !.kids = parent.kids]
    <3>1. step'.pc = "top" /\ Finds(parent.kids, 0, {})
      BY <2>2 DEF NotStepping, Finds
    <3>2. step.pc = "none"
      BY <2>2 DEF Sections, Held
    <3> QED BY <1>1, <3>1, <3>2 DEF Take, rows, Moves, TakesKids
  <2> QED BY <1>1, <2>1, <2>2 DEF Take
<1>2. CASE Cycle
  <2>1. step.pc = "top" /\ UNCHANGED parent /\ step'.pc = "look" /\ step'.kids = step.kids /\ step'.of = step.of /\ step'.done = step.done
    BY <1>2 DEF Cycle, Steps, rows
  <2> QED BY <2>1 DEF Moves, RunsOn
<1>3. ASSUME NEW c \in Children, step.of = c, step.pc # "none", UNCHANGED parent,
             \/ Settle(child[c].call) /\ (Ended(child'[c].status) \/ Fault)
             \/ Suspend(c)
             \/ step' = [step EXCEPT !.pc = "retry", !.of = 0]
             \/ step' = [step EXCEPT !.pc = "child"]
      PROVE  Moves
  <2>1. CASE Settle(child[c].call) /\ (Ended(child'[c].status) \/ Fault)
    <3>1. step'.pc = "look" /\ step'.of = 0 /\ step'.kids = step.kids /\ step'.done = step.done \union {child[c].call}
      BY <2>1, MoveFields
    <3>2. Settled
      BY <1>3, <2>1, <3>1 DEF Settled
    <3> QED BY <1>3, <3>1, <3>2 DEF Moves, RunsOn
  <2>2. CASE Suspend(c)
    <3>1. step'.pc = "wait" /\ step'.of = c /\ step'.kids = step.kids /\ step'.done = step.done
      BY <2>2, MoveFields
    <3> QED BY <1>3, <3>1 DEF Moves, RunsOn
  <2>3. CASE step' = [step EXCEPT !.pc = "retry", !.of = 0]
    <3>1. step'.pc = "retry" /\ step'.of = 0 /\ step'.kids = step.kids /\ step'.done = step.done
      BY <2>3, MoveFields
    <3> QED BY <1>3, <3>1 DEF Moves, RunsOn
  <2>4. CASE step' = [step EXCEPT !.pc = "child"]
    <3>1. step'.pc = "child" /\ step'.of = step.of /\ step'.kids = step.kids /\ step'.done = step.done
      BY <2>4 DEF Steps
    <3> QED BY <1>3, <3>1 DEF Moves, RunsOn
  <2> QED BY <1>3, <2>1, <2>2, <2>3, <2>4
<1>4. CASE TakeNested
  <2>1. step.of \in Children /\ step.pc # "none" /\ UNCHANGED <<parent, child>>
    BY <1>4 DEF TakeNested, Sections, Steps, rows
  <2> QED BY <1>3, <1>4, <2>1 DEF TakeNested
<1>5. ASSUME NEW c \in Children, ChildNext(c) PROVE Moves
  <2>1. CASE ~Nested(c)
    BY <1>5, <2>1, ChildRuns DEF Moves, SameRun
  <2>2. CASE Nested(c)
    <3>1. UNCHANGED parent /\ step.of = c /\ step.pc # "none"
      BY <1>5, <2>2, ChildRuns DEF Nested
    <3>2. SetStatus(c, "completed") => Ended(child'[c].status)
      BY DEF SetStatus, Ended, ChildRows
    <3>3. \/ Settle(child[c].call) /\ (SetStatus(c, "completed") \/ Fault)
          \/ Suspend(c) \/ step' = [step EXCEPT !.pc = "retry", !.of = 0]
      BY <1>5, <2>2 DEF ChildNext, ChildEnds, ChildAsks, ChildGivesUp, ChildCut, EndRun
    <3> QED BY <1>3, <3>1, <3>2, <3>3
  <2> QED BY <2>1, <2>2
<1>6. CASE SaveParent
  <2>1. CASE step.pc = "retry"
    <3>1. parent'.kids = step.kids
      BY <1>6, <2>1 DEF SaveParent, ParentRows, Kept
    <3>2. step'.pc = "top" /\ Finds(step.kids, 0, {})
      BY <1>6, <2>1 DEF SaveParent, NotStepping, Finds, Kept
    <3> QED BY <2>1, <3>1, <3>2 DEF Saves, Moves
  <2>2. CASE step.pc # "retry"
    <3>1. RunEnds
      BY <1>0, <1>6, <2>2 DEF SaveParent, RunEnds, Finds
    <3>2. \/ step.pc = "done" /\ parent'.kids = NoKids
          \/ step.pc = "wait" /\ parent'.kids = step.kids
      BY <1>6, <2>2 DEF SaveParent
    <3> QED BY <3>1, <3>2 DEF Saves, Moves
  <2> QED BY <2>1, <2>2
<1>7. CASE LeaveParent
  BY <1>0, <1>7 DEF LeaveParent, rows, Moves, StopsRun, RunEnds, Finds
<1>8. ASSUME NEW r \in Replicas, StopReplica(r) PROVE Moves
  <2>1. UNCHANGED parent /\ (step' = step \/ step' = NotStepping)
    BY <1>8 DEF StopReplica, rows
  <2> QED BY <1>0, <1>8, <2>1 DEF Moves, StopsRun, SameRun, RunEnds, Finds
<1>9. CASE CancelSaves
  <2>1. UNCHANGED step /\ (UNCHANGED parent \/ (cancel.of = 0 /\ parent' = [status |-> "cancelled", on |-> 0, kids |-> NoKids]))
    BY <1>9 DEF CancelSaves, rows
  <2> QED BY <1>9, <2>1 DEF Moves, SameRun, CancelsParent
<1>10. ASSUME NEW r \in Replicas, NEW c \in Children, ResumeParent(r, c) PROVE Moves
  BY <1>10 DEF ResumeParent, Moves, SameRun, ParentRows
<1>11. CASE UNCHANGED <<parent, step>>
  BY <1>11 DEF Moves, SameRun
<1> QED BY <1>1, <1>2, <1>4, <1>5, <1>6, <1>7, <1>8, <1>9, <1>10, <1>11
        DEF Next, RunNext, Begin, ParentNext, Signal, RecoverNext, RecoverOrphan, FailOrphan, CancelNext, CancelLists, Cancel,
            Lapse, Submit, rows

\* A child keeps its call, and its end.
LEMMA ChildKept ==
  ASSUME Base, Next, NEW c \in Children, child[c].status # "none"
  PROVE  child'[c].call = child[c].call /\ (Ended(child[c].status) => Ended(child'[c].status))
<1> child \in [Children -> ChildRows] /\ found \in [Replicas -> Procs] /\ cancel \in Cancels /\ Sections
  BY DEF Base, Types
<1> USE Numbers
<1>1. ASSUME NEW d \in Children, Live(child[d].status), NEW s, SetStatus(d, s)
      PROVE  child'[c].call = child[c].call /\ (Ended(child[c].status) => Ended(child'[c].status))
  BY <1>1 DEF SetStatus, Live, Ended, ChildRows
<1>2. CASE UNCHANGED child
  BY <1>2
<1>3. CASE Look
  <2>1. \A k \in 1..Calls, n \in Children : StartsOne(k, n) => child'[c] = child[c]
    BY DEF StartsOne
  <2> QED BY <1>2, <1>3, <2>1, LookMoves
<1>4. ASSUME NEW d \in Children, ChildNext(d)
      PROVE  UNCHANGED child \/ (Live(child[d].status) /\ (SetStatus(d, "completed") \/ SetStatus(d, "waiting")))
  BY <1>4, ChildRuns DEF Sections, Held, Live
<1>5. ASSUME NEW r \in Replicas, FailOrphan(r)
      PROVE  UNCHANGED child \/ (found[r] \in Children /\ Live(child[found[r]].status) /\ SetStatus(found[r], "failed"))
  BY <1>5 DEF FailOrphan, Live
<1>6. ASSUME NEW r \in Replicas, NEW d \in Children, Submit(r, d)
      PROVE  Live(child[d].status) /\ SetStatus(d, "running")
  BY <1>6 DEF Submit, Live
<1>7. ASSUME CancelSaves
      PROVE  UNCHANGED child \/ (cancel.of \in Children /\ Live(child[cancel.of].status) /\ SetStatus(cancel.of, "cancelled"))
  BY <1>7 DEF CancelSaves, Status, Cancels, rows
<1> QED BY <1>1, <1>2, <1>3, <1>4, <1>5, <1>6, <1>7
        DEF Next, RunNext, Begin, Take, ParentNext, Cycle, TakeNested, SaveParent, LeaveParent, Signal, RecoverNext, RecoverOrphan,
            CancelNext, CancelLists, Cancel, Lapse, ResumeParent, StopReplica, rows
\* What was called off stays so; a quiet state had no fault, no stop and no Cancel of the parent before it.
LEMMA SpentMoves ==
  ASSUME Base, Next
  PROVE  /\ spent.parent => spent'.parent
         /\ Quiet' => Quiet /\ ~Fault /\ \A r \in Replicas : ~StopReplica(r)
<1> spent \in Spents
  BY DEF Base, Types
<1> DEFINE Kept1 == spent'.stops = spent.stops /\ spent'.faults = spent.faults /\ (spent.parent => spent'.parent)
<1>1. ASSUME Spend("faults", MaxFaults) PROVE spent'.faults # 0 /\ spent'.parent = spent.parent
  <2>1. spent.faults \in Nat /\ spent'.faults = spent.faults + 1
    BY <1>1, BoundsAssumption DEF Spend, Spents
  <2> QED BY <1>1, <2>1 DEF Spend, Spents
<1>2. ASSUME Spend("stops", MaxStops) PROVE spent'.stops # 0 /\ spent'.parent = spent.parent
  <2>1. spent.stops \in Nat /\ spent'.stops = spent.stops + 1
    BY <1>2, BoundsAssumption DEF Spend, Spents
  <2> QED BY <1>2, <2>1 DEF Spend, Spents
<1>3. ASSUME Spend("asks", MaxAsks) \/ Spend("signals", MaxSignals) \/ UNCHANGED spent PROVE Kept1
  BY <1>3 DEF Spend, Spents
<1>4. ASSUME NEW r \in Replicas, NEW x \in Procs, Cancel(r, x) PROVE Kept1
  BY <1>4 DEF Cancel, Spents
<1>5. ASSUME NEW c \in Children, ChildNext(c) PROVE UNCHANGED spent \/ Spend("faults", MaxFaults) \/ Spend("asks", MaxAsks)
  BY <1>5 DEF ChildNext, ChildEnds, ChildAsks, ChildGivesUp, ChildCut, Fault
<1>6. ASSUME NEW r \in Replicas, StopReplica(r) PROVE Spend("stops", MaxStops)
  BY <1>6 DEF StopReplica
<1>7. \/ Kept1
      \/ Spend("faults", MaxFaults)
      \/ Spend("stops", MaxStops)
  BY <1>3, <1>4, <1>5, <1>6
     DEF Next, RunNext, Begin, Take, ParentNext, Cycle, Look, TakeNested, SaveParent, LeaveParent, Signal, RecoverNext, RecoverOrphan,
         FailOrphan, CancelNext, CancelSaves, CancelLists, Lapse, ResumeParent, Submit, Fault
<1> QED BY <1>1, <1>2, <1>6, <1>7 DEF Quiet, Fault

\* Kids that are for their call stay so.
LEMMA KidsKept ==
  ASSUME Base, Next
  PROVE  \A kids \in KidMaps : KidsFor(child, kids) => KidsFor(child', kids)
<1> TAKE kids \in KidMaps
<1> SUFFICES ASSUME KidsFor(child, kids), NEW k \in 1..Calls, kids[k] # 0 PROVE child'[kids[k]].call = k
  BY DEF KidsFor
<1>1. kids[k] \in Children /\ child[kids[k]].call = k /\ k # 0
  BY Numbers, BoundsAssumption DEF KidMaps, KidsFor
<1>2. child[kids[k]].status # "none"
  BY <1>1 DEF Base, Started
<1> QED BY <1>1, <1>2, ChildKept

LEMMA KidsStep ==
  ASSUME Base, KidsInv, Next
  PROVE  KidsFor(child', step'.kids) /\ KidsFor(child', parent'.kids)
<1> step \in Steps /\ parent \in ParentRows /\ child \in [Children -> ChildRows]
  BY DEF Base, Types
<1>1. step.kids \in KidMaps /\ parent.kids \in KidMaps
  BY DEF Steps, ParentRows
<1>2. KidsFor(child', step.kids) /\ KidsFor(child', parent.kids)
  BY <1>1, KidsKept DEF KidsInv
<1>3. KidsFor(child', NoKids)
  BY DEF KidsFor, NoKids
<1>4. CASE Moves
  BY <1>2, <1>3, <1>4
     DEF Moves, TakesKids, RunsOn, Saves, StopsRun, CancelsParent, SameRun, RunEnds, Finds
<1>5. CASE Look
  <2>1. UNCHANGED parent
    BY <1>5, LookMoves
  <2>2. CASE step'.kids = step.kids
    BY <1>2, <2>1, <2>2
  <2>3. ASSUME NEW k \in 1..Calls, NEW n \in Children, StartsOne(k, n) PROVE KidsFor(child', step'.kids)
    <3>1. step'.kids = [step.kids EXCEPT ![k] = n] /\ child'[n].call = k
      BY <2>3 DEF StartsOne, Finds
    <3>2. \A j \in 1..Calls : step'.kids[j] = IF j = k THEN n ELSE step.kids[j]
      BY <1>1, <3>1 DEF KidMaps
    <3> QED BY <1>2, <3>1, <3>2 DEF KidsFor
  <2> QED BY <1>2, <1>5, <2>1, <2>2, <2>3, LookMoves DEF SettlesOne, WaitsOnOne, Finds
<1> QED BY <1>4, <1>5, RunMoves

LEMMA OfStep ==
  ASSUME Base, KidsInv, Next
  PROVE  /\ step'.of # 0 => \E k \in 1..Calls : step'.kids[k] = step'.of
         /\ step'.pc = "done" => 1..Calls \subseteq step'.done
<1> step \in Steps
  BY DEF Base, Types
<1>1. CASE Moves
  BY <1>1 DEF Moves, TakesKids, RunsOn, Saves, StopsRun, CancelsParent, SameRun, RunEnds, Finds, KidsInv
<1>2. CASE Look
  <2>1. \A k \in 1..Calls, n \in Children : StartsOne(k, n) => step'.kids[k] = step'.of /\ step'.pc # "done"
    BY DEF StartsOne, Finds, Steps, KidMaps
  <2>2. \A k \in 1..Calls : WaitsOnOne(k) => step'.kids[k] = step'.of /\ step'.pc # "done"
    BY DEF WaitsOnOne, Finds
  <2>3. \A k \in 1..Calls : SettlesOne(k) => step'.of = 0 /\ step'.pc # "done"
    BY DEF SettlesOne, Finds
  <2> QED BY <1>2, <2>1, <2>2, <2>3, LookMoves DEF Finds
<1> QED BY <1>1, <1>2, RunMoves

\* A call of Cancel that is at the parent, or marked it, was of the parent.
LEMMA MarkStep ==
  ASSUME Base, KidsInv, Next
  PROVE  (cancel'.pc # "none" /\ cancel'.of = 0) \/ 0 \in cancelling' => spent'.parent
<1> cancel \in Cancels /\ spent \in Spents
  BY DEF Base, Types
<1> USE Numbers
<1> DEFINE Marked == (cancel.pc # "none" /\ cancel.of = 0) \/ 0 \in cancelling
           Marks == (cancel'.pc # "none" /\ cancel'.of = 0) \/ 0 \in cancelling'
<1>1. ASSUME NEW todo \in SUBSET Children, NEW marks \in SUBSET cancelling, GoOn(todo, marks), Marks PROVE Marked
  <2>1. CASE todo = {} /\ cancel' = NotCancelling /\ cancelling' = marks
    BY <1>1, <2>1 DEF NotCancelling
  <2>2. ASSUME NEW c \in todo, cancel' = [cancel EXCEPT !.pc = "lock", !.of = c, !.todo = todo \ {c}], cancelling' = marks \union {c}
        PROVE  Marked
    <3>1. cancel'.of = c /\ c # 0
      BY <2>2 DEF Cancels
    <3> QED BY <1>1, <2>2, <3>1
  <2> QED BY <1>1, <2>1, <2>2 DEF GoOn
<1>2. ASSUME NEW r \in Replicas, NEW x \in Procs, Cancel(r, x), Marks PROVE Marked \/ spent'.parent
  <2>1. cancel'.of = x /\ cancelling' = cancelling \union {x}
    BY <1>2 DEF Cancel
  <2>2. x = 0 => spent'.parent
    BY <1>2 DEF Cancel, Spents
  <2> QED BY <1>2, <2>1, <2>2
<1>3. ASSUME CancelSaves, Marks PROVE Marked
  <2>1. cancel.todo \in SUBSET Children /\ cancelling \ {cancel.of} \in SUBSET cancelling /\ cancel.pc = "lock"
    BY <1>3 DEF CancelSaves, Cancels
  <2>2. CASE GoOn(cancel.todo, cancelling \ {cancel.of})
    BY <1>1, <1>3, <2>1, <2>2
  <2>3. CASE cancel.of = 0
    BY <2>1, <2>3
  <2>4. CASE cancel' = NotCancelling /\ cancelling' = cancelling \ {cancel.of}
    BY <1>3, <2>4 DEF NotCancelling
  <2> QED BY <1>3, <2>2, <2>3, <2>4 DEF CancelSaves
<1>4. ASSUME CancelLists, Marks PROVE Marked
  BY <1>1, <1>4 DEF CancelLists, LiveChildren
<1>5. ASSUME NEW r \in Replicas, StopReplica(r), Marks PROVE Marked
  BY <1>5 DEF StopReplica, NotCancelling
<1>6. ASSUME NEW c \in Children, ChildNext(c) PROVE UNCHANGED <<cancel, cancelling>>
  <2>1. UNCHANGED cancel
    BY <1>6, ChildRuns
  <2>2. UNCHANGED cancelling
    BY <1>6, ChildRuns
  <2> QED BY <2>1, <2>2
<1>7. CASE UNCHANGED <<cancel, cancelling>>
  BY <1>7, SpentMoves DEF KidsInv
<1>8. Marked => spent'.parent
  BY SpentMoves DEF KidsInv
<1> QED BY <1>2, <1>3, <1>4, <1>5, <1>6, <1>7, <1>8
        DEF Next, RunNext, Begin, Take, ParentNext, Cycle, Look, TakeNested, SaveParent, LeaveParent, Signal, RecoverNext, RecoverOrphan,
            FailOrphan, CancelNext, Lapse, ResumeParent, Submit

LEMMA KidsInvStep == Base /\ KidsInv /\ [Next]_vars => KidsInv'
<1>1. ASSUME Base, KidsInv, Next PROVE KidsInv'
  BY <1>1, KidsStep, OfStep, MarkStep DEF KidsInv, KidsFor
<1>2. ASSUME KidsInv, UNCHANGED vars PROVE KidsInv'
  BY <1>2 DEF KidsInv, KidsFor, vars, rows
<1> QED BY <1>1, <1>2

\* In quiet a call that is settled has its child ended.
LEMMA DoneStep ==
  ASSUME Base, KidsInv, Quiet', DoneEnded, Next
  PROVE  DoneEnded'
<1> step \in Steps /\ child \in [Children -> ChildRows] /\ Sections /\ Started
  BY DEF Base, Types
<1>1. ASSUME NEW k \in step.done PROVE step.kids[k] \in Children /\ step.kids[k] # 0 /\ Ended(child'[step.kids[k]].status)
  <2>1. k \in 1..Calls /\ step.kids[k] \in Children /\ Ended(child[step.kids[k]].status)
    BY <1>1, Numbers DEF DoneEnded, Steps, KidMaps
  <2> QED BY <2>1, Numbers, ChildKept DEF Ended
<1>2. CASE step'.done = {}
  BY <1>2 DEF DoneEnded
<1>3. CASE step'.done = step.done /\ step'.kids = step.kids
  BY <1>1, <1>3 DEF DoneEnded
<1>4. CASE RunsOn /\ Settled
  <2>1. PICK k \in 1..Calls : step.kids[k] = step.of
    BY <1>4 DEF Settled, KidsInv
  <2>2. child[step.of].call = k /\ step.of # 0
    BY <1>4, <2>1 DEF Settled, KidsInv, KidsFor
  <2>3. Ended(child'[step.of].status)
    BY <1>4, SpentMoves DEF Settled
  <2> QED BY <1>1, <1>4, <2>1, <2>2, <2>3 DEF RunsOn, Settled, DoneEnded
<1>5. CASE Moves
  BY <1>2, <1>3, <1>4, <1>5 DEF Moves, TakesKids, RunsOn, Saves, StopsRun, CancelsParent, SameRun, RunEnds, Finds
<1>6. CASE Look
  <2>1. ASSUME NEW k \in 1..Calls, SettlesOne(k), UNCHANGED child PROVE DoneEnded'
    BY <1>1, <2>1 DEF SettlesOne, Finds, DoneEnded
  <2>2. ASSUME NEW k \in 1..Calls, NEW n \in Children, StartsOne(k, n) PROVE DoneEnded'
    <3>1. step'.done = step.done /\ step'.kids = [step.kids EXCEPT ![k] = n] /\ k \notin step.done
      BY <2>2 DEF StartsOne, Finds
    <3>2. \A j \in step.done : step'.kids[j] = step.kids[j]
      BY <3>1 DEF Steps, KidMaps
    <3> QED BY <1>1, <3>1, <3>2 DEF DoneEnded
  <2>3. \A k \in 1..Calls : WaitsOnOne(k) => step'.done = step.done /\ step'.kids = step.kids
    BY DEF WaitsOnOne, Finds
  <2> QED BY <1>3, <1>6, <2>1, <2>2, <2>3, LookMoves DEF Finds
<1> QED BY <1>5, <1>6, RunMoves

\* In quiet the live children are those the parent, or its run, knows.
LEMMA LiveStep ==
  ASSUME Base, KidsInv, Quiet', OneLive, DoneEnded, Next
  PROVE  OneLive'
<1> step \in Steps /\ parent \in ParentRows /\ child \in [Children -> ChildRows] /\ Sections /\ Started
  BY DEF Base, Types
<1> SUFFICES ASSUME NEW c \in Children, Live(child'[c].status) PROVE Kids'[child'[c].call] = c
  BY DEF OneLive
<1>1. CASE ~Look
  <2>1. Live(child[c].status)
    BY <1>1, LiveBefore
  <2>2. child'[c].call = child[c].call /\ child[c].call \in 1..Calls
    BY <2>1, ChildKept, BoundsAssumption DEF Live, Started, ChildRows
  <2>3. Kids[child[c].call] = c
    BY <2>1 DEF OneLive
  <2>4. CASE Kids' = Kids
    BY <2>2, <2>3, <2>4
  <2>5. ~StopsRun /\ ~CancelsParent
    <3>1. ~spent.parent /\ ~Fault /\ \A r \in Replicas : ~StopReplica(r)
      BY SpentMoves DEF Quiet
    <3>2. ~LeaveParent
      BY <3>1 DEF LeaveParent, KidsInv
    <3>3. ~CancelsParent
      BY <3>1 DEF CancelsParent, CancelSaves, KidsInv
    <3> QED BY <3>1, <3>2, <3>3 DEF StopsRun
  <2>6. ~(step.pc = "done" /\ Saves)
    BY <2>1, <2>2, <2>3 DEF KidsInv, DoneEnded, Kids, Live, Ended
  <2>7. Kids' = Kids
    BY <1>1, <2>5, <2>6, RunMoves DEF Moves, TakesKids, RunsOn, Saves, SameRun, RunEnds, Finds, Kids
  <2> QED BY <2>4, <2>7
<1>2. CASE Look
  <2>1. step.pc = "look" /\ Kids = step.kids
    BY <1>2, LookMoves DEF Kids
  <2>2. CASE UNCHANGED child /\ step'.pc # "none" /\ step'.kids = step.kids
    BY <2>1, <2>2 DEF OneLive, Kids
  <2>3. ASSUME NEW k \in 1..Calls, NEW n \in Children, StartsOne(k, n) PROVE Kids'[child'[c].call] = c
    <3>1. Kids' = [step.kids EXCEPT ![k] = n] /\ step.kids[k] = 0 /\ step.kids \in [1..Calls -> Procs]
      BY <2>3 DEF StartsOne, Finds, Kids, Steps, KidMaps
    <3>2. CASE c = n
      <4>1. child'[c].call = k
        BY <2>3, <3>2 DEF StartsOne
      <4> QED BY <3>1, <3>2, <4>1
    <3>3. CASE c # n
      <4>1. child'[c] = child[c]
        BY <2>3, <3>3 DEF StartsOne
      <4>2. step.kids[child[c].call] = c /\ c # 0
        BY <2>1, <4>1, Numbers DEF OneLive
      <4>3. child[c].call # k
        BY <3>1, <4>2
      <4>4. child[c].call \in 1..Calls
        BY <4>1, BoundsAssumption DEF Live, Started, ChildRows
      <4> QED BY <3>1, <4>1, <4>2, <4>3, <4>4
    <3> QED BY <3>2, <3>3
  <2> QED BY <1>2, <2>2, <2>3, LookMoves DEF SettlesOne, WaitsOnOne, Finds
<1> QED BY <1>1, <1>2

LEMMA OneStep == Base /\ KidsInv /\ OneInv /\ [Next]_vars => OneInv'
<1>1. ASSUME Base, KidsInv, OneInv, Next, Quiet' PROVE OneLive' /\ DoneEnded'
  BY <1>1, SpentMoves, DoneStep, LiveStep DEF OneInv
<1>2. ASSUME OneInv, UNCHANGED vars PROVE OneInv'
  BY <1>2 DEF OneInv, Quiet, OneLive, DoneEnded, Kids, vars, rows
<1> QED BY <1>1, <1>2 DEF OneInv

\* Without a stop, a failed write or a Cancel of the parent, a call of the action has one live child at most, for any
\* number of calls and of children (runChildStep, settleAction).
THEOREM OneLiveChild == Spec => []OneChildPerCall
<1>1. Init => KidsInv /\ OneInv
  BY Numbers DEF Init, KidsInv, KidsFor, OneInv, OneLive, DoneEnded, NotStepping, NotCancelling, NoKids, Live
<1>2. OneInv => OneChildPerCall
  BY DEF OneInv, Quiet, OneLive, OneChildPerCall
<1> QED BY <1>1, <1>2, SubProcessesBase, KidsInvStep, OneStep, PTL DEF Spec
-----------------------------------------------------------------------------
(* The places of a replica.                                                 *)

\* The runs that count at r before they have their lock, and the locks r holds but for a child within a run.
Rooms(r) == {g \in runs : g.at = r /\ g.pc # "new"}
Locks(r) == {x \in Procs : lock[x] = r /\ ~Nested(x)}
Numbered == inflight \in [Replicas -> Int]
PlaceInv == IsFiniteSet(runs) /\ Numbered /\ PlacesCounted

\* What a step does with the places of r.
Place(r, n, rooms, locks) == inflight'[r] = n /\ Rooms(r)' = rooms /\ Locks(r)' = locks
SamePlaces(r) == Place(r, inflight[r], Rooms(r), Locks(r))
RunLeaves(r) == \E g \in Rooms(r) : Place(r, inflight[r] - 1, Rooms(r) \ {g}, Locks(r))
RunComes(r) == \E g \in Runs \ Rooms(r) : Place(r, inflight[r] + 1, Rooms(r) \union {g}, Locks(r))
RunHolds(r) == \E g \in Rooms(r), x \in Procs \ Locks(r) : Place(r, inflight[r], Rooms(r) \ {g}, Locks(r) \union {x})
RunDone(r) == \E x \in Locks(r) : Place(r, inflight[r] - 1, Rooms(r), Locks(r) \ {x})
NoPlaces(r) == Place(r, 0, {}, {})
PlaceMoves(r) == SamePlaces(r) \/ RunLeaves(r) \/ RunComes(r) \/ RunHolds(r) \/ RunDone(r) \/ NoPlaces(r)

LEMMA RoomsKept == ASSUME NEW r, UNCHANGED runs PROVE Rooms(r)' = Rooms(r)
BY DEF Rooms

LEMMA LocksKept == ASSUME NEW r, UNCHANGED <<lock, step>> PROVE Locks(r)' = Locks(r)
BY DEF Locks, Nested

LEMMA RunFields ==
  ASSUME NEW g \in Runs, NEW l \in {"new", "lock"}
  PROVE  LET h == [g EXCEPT !.pc = l] IN h \in Runs /\ h.at = g.at /\ h.of = g.of /\ h.pc = l
BY DEF Runs

\* A lock held within the run of the parent is at its replica.
LEMMA NestedAt == ASSUME Base, NEW x, Nested(x) PROVE lock[x] = lock[0] /\ lock[0] \in Replicas /\ x \in Children
BY Numbers DEF Nested, Base, Sections, Held, Types, Steps

LEMMA PlacesBegin ==
  ASSUME Base, Numbered, NEW r \in Replicas, NEW g, Begin(g)
  PROVE  PlaceMoves(r)
<1> runs \subseteq Runs /\ g \in Runs /\ g \in runs /\ g.at \in Replicas
  BY DEF Base, Types, Begin, Runs
<1>1. Locks(r)' = Locks(r)
  BY LocksKept DEF Begin
<1>2. ASSUME g.pc = "reserved", runs' = (runs \ {g}) \union {[g EXCEPT !.pc = "new"]}, GiveBack(g.at) PROVE PlaceMoves(r)
  <2>1. [g EXCEPT !.pc = "new"].pc = "new"
    BY RunFields
  <2>2. Rooms(r)' = Rooms(r) \ {g}
    BY <1>2, <2>1 DEF Rooms
  <2>3. CASE r = g.at
    <3>1. g \in Rooms(r) /\ inflight'[r] = inflight[r] - 1
      BY <1>2, <2>3 DEF Rooms, GiveBack, Numbered
    <3> QED BY <1>1, <2>2, <3>1 DEF PlaceMoves, RunLeaves, Place
  <2>4. CASE r # g.at
    <3>1. Rooms(r)' = Rooms(r) /\ inflight'[r] = inflight[r]
      BY <1>2, <2>2, <2>4 DEF Rooms, GiveBack, Numbered
    <3> QED BY <1>1, <3>1 DEF PlaceMoves, SamePlaces, Place
  <2> QED BY <2>3, <2>4
<1>3. ASSUME NEW h, h = [g EXCEPT !.pc = "lock"], g.pc = "new", h \notin runs, runs' = (runs \ {g}) \union {h},
             inflight' = [inflight EXCEPT ![g.at] = @ + 1]
      PROVE  PlaceMoves(r)
  <2>1. h \in Runs /\ h.at = g.at /\ h.pc = "lock"
    BY <1>3, RunFields
  <2>2. CASE r = g.at
    <3>1. h \notin Rooms(r) /\ inflight'[r] = inflight[r] + 1
      BY <1>3, <2>2 DEF Rooms, Numbered
    <3>2. Rooms(r)' = Rooms(r) \union {h}
      BY <1>3, <2>1, <2>2 DEF Rooms
    <3> QED BY <1>1, <2>1, <3>1, <3>2 DEF PlaceMoves, RunComes, Place
  <2>3. CASE r # g.at
    <3>1. Rooms(r)' = Rooms(r) /\ inflight'[r] = inflight[r]
      BY <1>3, <2>1, <2>3 DEF Rooms, Numbered
    <3> QED BY <1>1, <3>1 DEF PlaceMoves, SamePlaces, Place
  <2> QED BY <2>2, <2>3
<1> QED BY <1>2, <1>3 DEF Begin

LEMMA PlacesTake ==
  ASSUME Base, Numbered, NEW r \in Replicas, NEW g, Take(g)
  PROVE  PlaceMoves(r)
<1> runs \subseteq Runs /\ g \in Runs /\ g \in runs /\ g.at \in Replicas /\ g.of \in Procs /\ g.pc = "lock"
  BY DEF Base, Types, Take, Runs
<1> /\ lock[g.of] = Free /\ runs' = runs \ {g} /\ lock \in [Procs -> Replicas \union {Free, Gone}] /\ Free \notin Replicas
  BY NamesAssumption DEF Take, Base, Types
<1>1. Rooms(r)' = Rooms(r) \ {g}
  BY DEF Rooms
<1>2. CASE Uncount(g.at) /\ UNCHANGED <<lock, step>>
  <2>1. Locks(r)' = Locks(r)
    BY <1>2, LocksKept
  <2>2. CASE r = g.at
    <3>1. g \in Rooms(r) /\ inflight'[r] = inflight[r] - 1
      BY <1>2, <2>2 DEF Rooms, Uncount, Numbered
    <3> QED BY <1>1, <2>1, <3>1 DEF PlaceMoves, RunLeaves, Place
  <2>3. CASE r # g.at
    <3>1. Rooms(r)' = Rooms(r) /\ inflight'[r] = inflight[r]
      BY <1>1, <1>2, <2>3 DEF Rooms, Uncount, Numbered
    <3> QED BY <2>1, <3>1 DEF PlaceMoves, SamePlaces, Place
  <2> QED BY <2>2, <2>3
<1>3. CASE /\ lock' = [lock EXCEPT ![g.of] = g.at] /\ UNCHANGED inflight
           /\ step' = IF g.of = 0 THEN [NotStepping EXCEPT !.pc = "top", !.kids = parent.kids] ELSE step
  <2>1. ~Nested(g.of)
    BY NestedAt
  <2>2. \A x \in Procs : Nested(x)' <=> Nested(x)
    <3>1. CASE g.of = 0
      <4>1. step'.pc = "top" /\ step.pc = "none"
        BY <1>3, <3>1 DEF NotStepping, Base, Sections, Held
      <4> QED BY <4>1 DEF Nested
    <3>2. CASE g.of # 0
      BY <1>3, <3>2 DEF Nested
    <3> QED BY <3>1, <3>2
  <2>3. CASE r = g.at
    <3>1. g \in Rooms(r) /\ g.of \notin Locks(r)
      BY <2>3 DEF Rooms, Locks
    <3>2. Locks(r)' = Locks(r) \union {g.of}
      BY <1>3, <2>1, <2>2, <2>3 DEF Locks
    <3> QED BY <1>1, <1>3, <3>1, <3>2 DEF PlaceMoves, RunHolds, Place
  <2>4. CASE r # g.at
    <3>1. Rooms(r)' = Rooms(r)
      BY <1>1, <2>4 DEF Rooms
    <3>2. Locks(r)' = Locks(r)
      BY <1>3, <2>2, <2>4 DEF Locks
    <3> QED BY <1>3, <3>1, <3>2 DEF PlaceMoves, SamePlaces, Place
  <2> QED BY <2>3, <2>4
<1> QED BY <1>2, <1>3 DEF Take

\* A run that has its lock ends: the lock goes, and the place with it.
LEMMA PlacesEnd ==
  ASSUME Base, Numbered, NEW r \in Replicas, NEW x \in Procs, lock[x] \in Replicas, ~Nested(x),
         UNCHANGED runs, Uncount(lock[x]), Locks(r)' = Locks(r) \ {x}
  PROVE  PlaceMoves(r)
<1>1. Rooms(r)' = Rooms(r)
  BY RoomsKept
<1>2. CASE r = lock[x]
  <2>1. x \in Locks(r) /\ inflight'[r] = inflight[r] - 1
    BY <1>2 DEF Locks, Uncount, Numbered
  <2> QED BY <1>1, <2>1 DEF PlaceMoves, RunDone, Place
<1>3. CASE r # lock[x]
  <2>1. Locks(r)' = Locks(r) /\ inflight'[r] = inflight[r]
    BY <1>3 DEF Locks, Uncount, Numbered
  <2> QED BY <1>1, <2>1 DEF PlaceMoves, SamePlaces, Place
<1> QED BY <1>2, <1>3

LEMMA PlacesParent ==
  ASSUME Base, Numbered, NEW r \in Replicas, ParentNext
  PROVE  PlaceMoves(r)
<1> /\ lock \in [Procs -> Replicas \union {Free, Gone}] /\ step \in Steps /\ Sections /\ UNCHANGED runs
    /\ Free \notin Replicas
  BY NamesAssumption DEF Base, Types, ParentNext, Cycle, Look, TakeNested, SaveParent, LeaveParent
<1> USE Numbers
<1>1. Rooms(r)' = Rooms(r)
  BY RoomsKept
<1>2. ASSUME Locks(r)' = Locks(r), UNCHANGED inflight PROVE PlaceMoves(r)
  BY <1>1, <1>2 DEF PlaceMoves, SamePlaces, Place
<1>3. ASSUME UNCHANGED lock, step.pc # "child", step'.pc # "child" PROVE Locks(r)' = Locks(r)
  BY <1>3 DEF Locks, Nested
<1>4. CASE Cycle
  BY <1>2, <1>3, <1>4 DEF Cycle, Steps
<1>5. CASE Look
  <2>1. step.pc = "look" /\ step'.pc # "child"
    BY <1>5, LookMoves DEF SettlesOne, WaitsOnOne, StartsOne
  <2> QED BY <1>2, <1>3, <1>5, <2>1 DEF Look
<1>6. CASE TakeNested
  <2>1. step.pc = "start" /\ UNCHANGED inflight /\ step.of \in Children /\ lock[step.of] = Free
    BY <1>6 DEF TakeNested, Sections, Steps
  <2>2. CASE lock' = [lock EXCEPT ![step.of] = lock[0]] /\ step' = [step EXCEPT !.pc = "child"]
    <3>1. step'.pc = "child" /\ step'.of = step.of
      BY <2>2 DEF Steps
    <3>2. Locks(r)' = Locks(r)
      BY <2>1, <2>2, <3>1 DEF Locks, Nested
    <3> QED BY <1>2, <2>1, <3>2
  <2>3. CASE UNCHANGED lock /\ (Settle(child[step.of].call) \/ Suspend(step.of))
    <3>1. step'.pc # "child"
      BY <2>3, MoveFields
    <3> QED BY <1>2, <1>3, <2>1, <2>3, <3>1
  <2> QED BY <1>6, <2>2, <2>3 DEF TakeNested
<1>7. CASE SaveParent
  <2>1. CASE step.pc = "retry"
    <3>1. step'.pc = "top" /\ UNCHANGED <<lock, inflight>>
      BY <1>7, <2>1 DEF SaveParent, NotStepping
    <3> QED BY <1>2, <1>3, <2>1, <3>1
  <2>2. CASE step.pc # "retry"
    <3>1. step.pc \in {"done", "wait"} /\ lock[0] \in Replicas /\ lock' = [lock EXCEPT ![0] = Free] /\ Uncount(lock[0]) /\ step'.pc = "none"
      BY <1>7, <2>2 DEF SaveParent, Unlock, NotStepping, Sections, Held
    <3>2. Locks(r)' = Locks(r) \ {0} /\ ~Nested(0)
      BY <3>1 DEF Locks, Nested
    <3> QED BY <3>1, <3>2, PlacesEnd
  <2> QED BY <2>1, <2>2
<1>8. CASE LeaveParent
  <2>1. step.pc # "none" /\ lock[0] \in Replicas /\ Uncount(lock[0]) /\ step'.pc = "none"
    BY <1>8 DEF LeaveParent, NotStepping, Sections, Held
  <2>2. \A x \in Procs : lock'[x] = IF x = 0 \/ Nested(x) THEN Free ELSE lock[x]
    BY <1>8 DEF LeaveParent, Nested
  <2>3. ~Nested(0)
    BY NestedAt
  <2>4. Locks(r)' = Locks(r) \ {0}
    BY <2>1, <2>2, <2>3 DEF Locks, Nested
  <2> QED BY <2>1, <2>3, <2>4, PlacesEnd
<1> QED BY <1>4, <1>5, <1>6, <1>7, <1>8 DEF ParentNext

LEMMA PlacesChild ==
  ASSUME Base, Numbered, NEW r \in Replicas, NEW c \in Children, ChildNext(c)
  PROVE  PlaceMoves(r)
<1> /\ lock \in [Procs -> Replicas \union {Free, Gone}] /\ step \in Steps /\ UNCHANGED runs /\ Free \notin Replicas /\ c \in Procs
    /\ lock[c] \in Replicas /\ lock' = [lock EXCEPT ![c] = Free]
  BY NamesAssumption, ChildRuns, Numbers DEF Base, Types, Unlock
<1>1. CASE Nested(c)
  <2>1. UNCHANGED inflight /\ (Settle(child[c].call) \/ Suspend(c) \/ step' = [step EXCEPT !.pc = "retry", !.of = 0])
    BY <1>1, ChildRuns
  <2>2. step'.pc # "child"
    BY <2>1, MoveFields
  <2>3. Locks(r)' = Locks(r)
    BY <1>1, <2>2 DEF Locks, Nested
  <2> QED BY <2>1, <2>3, RoomsKept DEF PlaceMoves, SamePlaces, Place
<1>2. CASE ~Nested(c)
  <2>1. UNCHANGED step /\ Uncount(lock[c])
    BY <1>2, ChildRuns
  <2>2. Locks(r)' = Locks(r) \ {c}
    BY <2>1 DEF Locks, Nested
  <2> QED BY <1>2, <2>1, <2>2, PlacesEnd
<1> QED BY <1>1, <1>2

LEMMA PlacesStop ==
  ASSUME Base, Numbered, NEW r \in Replicas, NEW q \in Replicas, StopReplica(q)
  PROVE  PlaceMoves(r)
<1> /\ lock \in [Procs -> Replicas \union {Free, Gone}] /\ step \in Steps /\ Gone \notin Replicas
    /\ runs' = {g \in runs : g.at # q} /\ inflight' = [inflight EXCEPT ![q] = 0]
    /\ lock' = [x \in Procs |-> IF lock[x] = q THEN Gone ELSE lock[x]]
    /\ step' = IF lock[0] = q THEN NotStepping ELSE step
  BY NamesAssumption DEF Base, Types, StopReplica
<1>1. CASE r = q
  <2>1. Rooms(r)' = {} /\ inflight'[r] = 0
    BY <1>1 DEF Rooms, Numbered
  <2>2. Locks(r)' = {}
    BY <1>1 DEF Locks
  <2> QED BY <2>1, <2>2 DEF PlaceMoves, NoPlaces, Place
<1>2. CASE r # q
  <2>1. Rooms(r)' = Rooms(r) /\ inflight'[r] = inflight[r]
    BY <1>2 DEF Rooms, Numbered
  <2>2. \A x \in Procs : lock[x] = r => (Nested(x)' <=> Nested(x))
    <3>1. CASE lock[0] = q
      <4>1. step'.pc = "none"
        BY <3>1 DEF NotStepping
      <4>2. \A x \in Procs : lock[x] = r => ~Nested(x)
        BY <1>2, <3>1, NestedAt
      <4> QED BY <4>1, <4>2 DEF Nested
    <3>2. CASE lock[0] # q
      BY <3>2 DEF Nested
    <3> QED BY <3>1, <3>2
  <2>3. Locks(r)' = Locks(r)
    BY <1>2, <2>2 DEF Locks
  <2> QED BY <2>1, <2>3 DEF PlaceMoves, SamePlaces, Place
<1> QED BY <1>1, <1>2

LEMMA PlacesMove ==
  ASSUME Base, Numbered, Next, NEW r \in Replicas
  PROVE  PlaceMoves(r)
<1> runs \subseteq Runs /\ lock \in [Procs -> Replicas \union {Free, Gone}]
  BY DEF Base, Types
<1>1. CASE UNCHANGED <<runs, lock, step, inflight>>
  BY <1>1, RoomsKept, LocksKept DEF PlaceMoves, SamePlaces, Place
<1>2. ASSUME NEW q \in Replicas, NEW x \in Procs, runs' = runs \union Scheduled(q, x), UNCHANGED <<lock, step, inflight>>
      PROVE  PlaceMoves(r)
  <2>1. Rooms(r)' = Rooms(r)
    BY <1>2 DEF Scheduled, Rooms
  <2> QED BY <1>2, <2>1, LocksKept DEF PlaceMoves, SamePlaces, Place
<1>3. ASSUME NEW q \in Replicas, NEW c \in Children, Submit(q, c) \/ ResumeParent(q, c) PROVE PlaceMoves(r)
  BY <1>1, <1>2, <1>3, Numbers DEF Submit, ResumeParent
<1>4. ASSUME NEW q \in Replicas, NEW x \in Procs, RecoverOrphan(q, x) PROVE PlaceMoves(r)
  <2>1. Locks(r)' = Locks(r)
    BY <1>4, LocksKept DEF RecoverOrphan
  <2>2. CASE UNCHANGED <<runs, inflight>>
    BY <2>1, <2>2, RoomsKept DEF PlaceMoves, SamePlaces, Place
  <2>3. ASSUME NEW g, g = [at |-> q, of |-> x, pc |-> "reserved"], runs' = runs \union {g}, inflight' = [inflight EXCEPT ![q] = @ + 1]
        PROVE  PlaceMoves(r)
    <3>1. g \in Runs /\ g \notin runs /\ g.at = q /\ g.pc = "reserved"
      BY <1>4, <2>3 DEF RecoverOrphan, Runs
    <3>2. CASE r = q
      <4>1. Rooms(r)' = Rooms(r) \union {g} /\ g \notin Rooms(r)
        BY <2>3, <3>1, <3>2 DEF Rooms
      <4>2. inflight'[r] = inflight[r] + 1
        BY <2>3, <3>2 DEF Numbered
      <4> QED BY <2>1, <3>1, <4>1, <4>2 DEF PlaceMoves, RunComes, Place
    <3>3. CASE r # q
      <4>1. Rooms(r)' = Rooms(r) /\ inflight'[r] = inflight[r]
        BY <2>3, <3>1, <3>3 DEF Rooms, Numbered
      <4> QED BY <2>1, <4>1 DEF PlaceMoves, SamePlaces, Place
    <3> QED BY <3>2, <3>3
  <2> QED BY <1>4, <2>2, <2>3 DEF RecoverOrphan
<1>5. ASSUME NEW x \in Procs, Lapse(x) PROVE PlaceMoves(r)
  <2>1. Locks(r)' = Locks(r)
    BY <1>5, NamesAssumption DEF Lapse, Unlock, Locks, Nested
  <2> QED BY <1>5, <2>1, RoomsKept DEF Lapse, PlaceMoves, SamePlaces, Place
<1> QED BY <1>1, <1>3, <1>4, <1>5, PlacesBegin, PlacesTake, PlacesParent, PlacesChild, PlacesStop
        DEF Next, RunNext, Signal, RecoverNext, FailOrphan, CancelNext, CancelSaves, CancelLists, Cancel

LEMMA FiniteRuns == Base /\ IsFiniteSet(runs) /\ Next => IsFiniteSet(runs')
<1> SUFFICES ASSUME Base, IsFiniteSet(runs), Next PROVE IsFiniteSet(runs')
  OBVIOUS
<1>1. ASSUME NEW g, runs' \subseteq runs \union {g} PROVE IsFiniteSet(runs')
  BY <1>1, FS_AddElement, FS_Subset
<1>2. ASSUME NEW g, Begin(g) \/ Take(g) PROVE IsFiniteSet(runs')
  <2>1. \E h : runs' \subseteq runs \union {h}
    BY <1>2 DEF Begin, Take
  <2> QED BY <1>1, <2>1
<1>3. ASSUME NEW q \in Replicas, NEW c \in Children, Submit(q, c) \/ ResumeParent(q, c) PROVE IsFiniteSet(runs')
  BY <1>1, <1>3 DEF Submit, ResumeParent, Scheduled
<1>4. ASSUME NEW q \in Replicas, NEW x \in Procs, RecoverOrphan(q, x) PROVE IsFiniteSet(runs')
  BY <1>1, <1>4 DEF RecoverOrphan
<1>5. ASSUME NEW q \in Replicas, StopReplica(q) PROVE IsFiniteSet(runs')
  BY <1>1, <1>5 DEF StopReplica
<1>6. ASSUME NEW c \in Children, ChildNext(c) PROVE UNCHANGED runs
  BY <1>6, ChildRuns
<1>7. CASE UNCHANGED runs
  BY <1>7
<1> QED BY <1>2, <1>3, <1>4, <1>5, <1>6, <1>7
        DEF Next, RunNext, ParentNext, Cycle, Look, TakeNested, SaveParent, LeaveParent, Signal, RecoverNext,
            FailOrphan, CancelNext, CancelSaves, CancelLists, Cancel, Lapse

LEMMA NumberedStep == Base /\ Numbered /\ Next => Numbered'
<1> SUFFICES ASSUME Base, Numbered, Next PROVE Numbered'
  OBVIOUS
<1> runs \subseteq Runs
  BY DEF Base, Types
<1>1. ASSUME NEW g, Begin(g) \/ Take(g) PROVE Numbered'
  BY <1>1 DEF Begin, Take, GiveBack, Uncount, Numbered
<1>2. CASE ParentNext
  <2>1. UNCHANGED inflight \/ Uncount(lock[0])
    BY <1>2 DEF ParentNext, Cycle, Look, TakeNested, SaveParent, LeaveParent
  <2> QED BY <2>1 DEF Uncount, Numbered
<1>3. ASSUME NEW c \in Children, ChildNext(c) PROVE Numbered'
  BY <1>3, ChildRuns DEF Uncount, Numbered
<1>4. ASSUME NEW r \in Replicas, NEW x \in Procs, RecoverOrphan(r, x) PROVE Numbered'
  BY <1>4 DEF RecoverOrphan, Numbered
<1>5. ASSUME NEW r \in Replicas, StopReplica(r) PROVE Numbered'
  BY <1>5 DEF StopReplica, Numbered
<1>6. CASE UNCHANGED inflight
  BY <1>6 DEF Numbered
<1> QED BY <1>1, <1>2, <1>3, <1>4, <1>5, <1>6
        DEF Next, RunNext, Signal, RecoverNext, FailOrphan, CancelNext, CancelSaves, CancelLists, Cancel, Lapse, Submit, ResumeParent

LEMMA FinitePlaces == ASSUME NEW r, IsFiniteSet(runs) PROVE IsFiniteSet(Rooms(r)) /\ IsFiniteSet(Locks(r))
<1>1. Rooms(r) \in SUBSET runs
  BY DEF Rooms
<1>2. IsFiniteSet(Procs) /\ Locks(r) \in SUBSET Procs
  BY FS_Interval, BoundsAssumption DEF Procs, Locks
<1> QED BY <1>1, <1>2, FS_Subset

\* Sizes of two finite sets that lose or gain an element.
LEMMA Sizes ==
  ASSUME NEW S, NEW T, IsFiniteSet(S), IsFiniteSet(T)
  PROVE  /\ Cardinality(S) \in Nat /\ Cardinality(T) \in Nat
         /\ \A g \in S : Cardinality(S \ {g}) = Cardinality(S) - 1
         /\ \A x \in T : Cardinality(T \ {x}) = Cardinality(T) - 1
         /\ \A g : g \notin S => Cardinality(S \union {g}) = Cardinality(S) + 1
         /\ \A x : x \notin T => Cardinality(T \union {x}) = Cardinality(T) + 1
         /\ Cardinality({}) = 0
BY FS_CardinalityType, FS_RemoveElement, FS_AddElement, FS_EmptySet

LEMMA PlaceStep == Base /\ PlaceInv /\ [Next]_vars => PlaceInv'
<1>1. ASSUME Base, PlaceInv, Next PROVE PlaceInv'
  <2>1. ASSUME NEW r \in Replicas PROVE inflight'[r] = Cardinality(Rooms(r)') + Cardinality(Locks(r)')
    <3>1. inflight[r] = Cardinality(Rooms(r)) + Cardinality(Locks(r))
      BY <1>1 DEF PlaceInv, PlacesCounted, Rooms, Locks
    <3>2. PlaceMoves(r)
      BY <1>1, PlacesMove DEF PlaceInv
    <3>3. IsFiniteSet(Rooms(r)) /\ IsFiniteSet(Locks(r))
      BY <1>1, FinitePlaces DEF PlaceInv
    <3> DEFINE S == Rooms(r)  T == Locks(r)
    <3>4. /\ Cardinality(S) \in Nat /\ Cardinality(T) \in Nat
          /\ \A g \in S : Cardinality(S \ {g}) = Cardinality(S) - 1
          /\ \A x \in T : Cardinality(T \ {x}) = Cardinality(T) - 1
          /\ \A g : g \notin S => Cardinality(S \union {g}) = Cardinality(S) + 1
          /\ \A x : x \notin T => Cardinality(T \union {x}) = Cardinality(T) + 1
          /\ Cardinality({}) = 0
      BY <3>3, Sizes
    <3>5. CASE SamePlaces(r)
      BY <3>1, <3>5 DEF SamePlaces, Place
    <3>6. CASE RunLeaves(r)
      BY <3>1, <3>4, <3>6 DEF RunLeaves, Place
    <3>7. CASE RunComes(r)
      BY <3>1, <3>4, <3>7 DEF RunComes, Place
    <3>8. CASE RunHolds(r)
      <4>1. PICK g \in S, x \in Procs \ T : Place(r, inflight[r], S \ {g}, T \union {x})
        BY <3>8 DEF RunHolds
      <4>2. Cardinality(S \ {g}) = Cardinality(S) - 1 /\ Cardinality(T \union {x}) = Cardinality(T) + 1
        BY <3>4
      <4>3. inflight'[r] = inflight[r] /\ Rooms(r)' = S \ {g} /\ Locks(r)' = T \union {x}
        BY <4>1 DEF Place
      <4> QED BY <3>1, <3>4, <4>2, <4>3
    <3>9. CASE RunDone(r)
      BY <3>1, <3>4, <3>9 DEF RunDone, Place
    <3>10. CASE NoPlaces(r)
      BY <3>4, <3>10 DEF NoPlaces, Place
    <3> QED BY <3>2, <3>5, <3>6, <3>7, <3>8, <3>9, <3>10 DEF PlaceMoves
  <2>2. PlacesCounted'
    BY <2>1 DEF PlacesCounted, Rooms, Locks
  <2> QED BY <1>1, <2>2, FiniteRuns, NumberedStep DEF PlaceInv
<1>2. ASSUME PlaceInv, UNCHANGED vars PROVE PlaceInv'
  BY <1>2 DEF PlaceInv, Numbered, PlacesCounted, Nested, vars, rows
<1> QED BY <1>1, <1>2

LEMMA PlaceInit == Init => PlaceInv
<1> SUFFICES ASSUME Init PROVE PlaceInv
  OBVIOUS
<1>1. IsFiniteSet(runs)
  BY FS_Singleton DEF Init
<1>2. \A r \in Replicas : Rooms(r) = {} /\ Locks(r) = {}
  BY NamesAssumption DEF Init, Rooms, Locks
<1>3. Cardinality({}) = 0
  BY FS_EmptySet
<1>4. ASSUME NEW r \in Replicas PROVE inflight[r] = Cardinality(Rooms(r)) + Cardinality(Locks(r))
  <2>1. inflight[r] = 0
    BY DEF Init
  <2> QED BY <1>2, <1>3, <2>1
<1>5. PlacesCounted
  BY <1>4 DEF PlacesCounted, Rooms, Locks
<1> QED BY <1>1, <1>5 DEF Init, PlaceInv, Numbered

\* The runs are finite, and each replica counts them (runCounted, recover).
THEOREM SubProcessesPlaces == Spec => []PlaceInv
BY PlaceInit, PlaceStep, SubProcessesBase, PTL DEF Spec

\* The places a replica counts are those of its runs (Engine.inflight, runCounted, recover).
THEOREM PlacesAreRuns == Spec => []PlacesCounted
<1>1. PlaceInv => PlacesCounted
  BY DEF PlaceInv
<1> QED BY <1>1, SubProcessesPlaces, PTL

\* Every variable is of its type; a count of runs is never below zero.
THEOREM SubProcessesTypes == Spec => []TypeOK
<1>1. Base /\ PlaceInv => TypeOK
  <2> SUFFICES ASSUME Base, PlaceInv PROVE TypeOK
    OBVIOUS
  <2>1. ASSUME NEW r \in Replicas PROVE inflight[r] \in Nat
    <3>1. inflight[r] = Cardinality(Rooms(r)) + Cardinality(Locks(r))
      BY DEF PlaceInv, PlacesCounted, Rooms, Locks
    <3>2. Cardinality(Rooms(r)) \in Nat /\ Cardinality(Locks(r)) \in Nat
      BY FinitePlaces, FS_CardinalityType DEF PlaceInv
    <3> QED BY <3>1, <3>2
  <2>2. Counted
    BY <2>1 DEF Counted, PlaceInv, Numbered
  <2> QED BY <2>2, TypesAndCounts DEF Base
<1> QED BY <1>1, SubProcessesBase, SubProcessesPlaces, PTL
=============================================================================
