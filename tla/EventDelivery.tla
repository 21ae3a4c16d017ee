---------------------------- MODULE EventDelivery ----------------------------
(***************************************************************************)
(* What an outbox promises of the events of a service (ADR 0136): each     *)
(* sink gets the events of a fact in the order the fact was written, none  *)
(* skipped.  An event may come again later; an event that was marked       *)
(* published has reached every sink.                                       *)
(***************************************************************************)
EXTENDS Naturals, Sequences

CONSTANTS Keys, Sinks, Msgs

VARIABLES
  events,      \* per fact, its events in the order of its writes
  got,         \* per sink and fact, the events the sink has had
  published    \* the events the service holds for delivered

vars == <<events, got, published>>

Init ==
  /\ events = [k \in Keys |-> <<>>]
  /\ got = [s \in Sinks |-> [k \in Keys |-> <<>>]]
  /\ published = {}

Write ==
  /\ \E k \in Keys, m \in Msgs : events' = [events EXCEPT ![k] = Append(@, m)]
  /\ UNCHANGED <<got, published>>

\* Some sinks get the next event of a fact.
Deliver ==
  /\ \E k \in Keys, to \in SUBSET Sinks :
       /\ \A s \in to : Len(got[s][k]) < Len(events[k])
       /\ got' = [s \in Sinks |-> IF s \in to
                                  THEN [got[s] EXCEPT ![k] = Append(@, events[k][Len(@) + 1])]
                                  ELSE got[s]]
  /\ UNCHANGED <<events, published>>

Had(s, m) == \E k \in Keys : \E i \in 1..Len(got[s][k]) : got[s][k][i] = m

Publish ==
  /\ published \subseteq published'
  /\ published' \subseteq {m \in Msgs : \A s \in Sinks : Had(s, m)}
  /\ UNCHANGED <<events, got>>

Next == Write \/ Deliver \/ Publish

Spec == Init /\ [][Next]_vars
=============================================================================
