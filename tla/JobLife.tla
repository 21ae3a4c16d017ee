------------------------------ MODULE JobLife ------------------------------
(***************************************************************************)
(* What the job service promises of each job (ADR 0149): its life, and the *)
(* events that tell it, written with the change they tell.  A job is       *)
(* queued once, started at most once, ended once; it asks only while it    *)
(* runs and a request is answered at most once; an ended job never comes   *)
(* back.                                                                   *)
(***************************************************************************)
EXTENDS Naturals, Sequences

CONSTANT Jobs

VARIABLES status, events     \* per job

vars == <<status, events>>

Init == status = [j \in Jobs |-> "absent"] /\ events = [j \in Jobs |-> <<>>]

Tell(j, e) == events' = [events EXCEPT ![j] = Append(@, e)]
Become(j, s) == status' = [status EXCEPT ![j] = s]

Create(j) == status[j] = "absent" /\ Become(j, "queued") /\ Tell(j, "created")
Start(j) == status[j] = "queued" /\ Become(j, "running") /\ Tell(j, "started")
End(j) ==
  /\ \/ status[j] = "running" /\ \E s \in {"done", "failed", "cancelled"} : Become(j, s)
     \/ status[j] = "queued" /\ Become(j, "cancelled")
  /\ Tell(j, "ended")
Ask(j) == status[j] = "running" /\ Tell(j, "asked") /\ UNCHANGED status
Answer(j) ==
  /\ status[j] = "running" /\ events[j][Len(events[j])] = "asked"
  /\ Tell(j, "answered")
  /\ UNCHANGED status
Purge(j) ==
  /\ status[j] \in {"done", "failed", "cancelled"}
  /\ Become(j, "purged")
  /\ UNCHANGED events

Next == \E j \in Jobs : Create(j) \/ Start(j) \/ End(j) \/ Ask(j) \/ Answer(j) \/ Purge(j)

Spec == Init /\ [][Next]_vars
=============================================================================
