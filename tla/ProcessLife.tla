----------------------------- MODULE ProcessLife -----------------------------
(***************************************************************************)
(* What the engine promises of one process, whatever the number of its     *)
(* replicas (ADR 0124): as if a single executor worked on it.  The process *)
(* runs, stops for a person or for want of a plan, and ends once; its      *)
(* executions write on the change only while it runs, the submissions of a *)
(* person only while it waits; it goes on with one whole submission, later *)
(* than the one it took before, and completes only with the work of an     *)
(* execution on the change.  A submission cut before it was taken leaves   *)
(* its entries: the person who submits again writes them again.            *)
(***************************************************************************)
EXTENDS Naturals

CONSTANTS Execs, Answers,    \* the executions, the submissions
          Pieces             \* the entries a whole one writes, its record aside

VARIABLES status, taken,     \* of the process; the submission it took last
          entries, answers   \* on the change, per execution and per submission

vars == <<status, taken, entries, answers>>

Ended == {"completed", "failed", "superseded", "cancelled"}

Init ==
  /\ status = "running" /\ taken = 0
  /\ entries = [e \in Execs |-> 0] /\ answers = [n \in Answers |-> 0]

\* The executor writes an entry on the change.
Work ==
  /\ status = "running"
  /\ \E e \in Execs : entries[e] < Pieces /\ entries' = [entries EXCEPT ![e] = @ + 1]
  /\ UNCHANGED <<status, taken, answers>>

\* A submission writes an entry, its record the last.
Submit ==
  /\ status = "waiting"
  /\ \E n \in Answers : answers[n] <= Pieces /\ answers' = [answers EXCEPT ![n] = @ + 1]
  /\ UNCHANGED <<status, taken, entries>>

\* The run waits for a person, sees no plan, or gives up.
Stop ==
  /\ status = "running"
  /\ status' \in {"waiting", "stuck", "failed"}
  /\ UNCHANGED <<taken, entries, answers>>

Complete ==
  /\ status = "running" /\ \E e \in Execs : entries[e] = Pieces
  /\ status' = "completed"
  /\ UNCHANGED <<taken, entries, answers>>

\* The person has answered.
Resume ==
  /\ status = "waiting"
  /\ status' = "running"
  /\ \E n \in Answers : n > taken /\ answers[n] >= Pieces /\ taken' = n
  /\ UNCHANGED <<entries, answers>>

Cancel ==
  /\ status \notin Ended
  /\ status' = "cancelled"
  /\ UNCHANGED <<taken, entries, answers>>

Next == Work \/ Submit \/ Stop \/ Complete \/ Resume \/ Cancel

Spec == Init /\ [][Next]_vars
=============================================================================
