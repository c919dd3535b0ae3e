----------------------------- MODULE EventRelay -----------------------------
(***************************************************************************)
(* What message-service promises about the event of a committed write: it  *)
(* is owed until it is published or given up, published events stay        *)
(* published, and nothing is given up before something disturbed the relay.*)
(***************************************************************************)
CONSTANT Events

VARIABLES
    state,      \* per event
    disturbed   \* whether more has gone wrong than the relay makes up for

vars == <<state, disturbed>>

States == {"none", "owed", "published", "abandoned"}

Init ==
    /\ state = [e \in Events |-> "none"]
    /\ disturbed = FALSE

\* The write of event e is committed.
Owe(e) ==
    /\ state[e] = "none"
    /\ state' = [state EXCEPT ![e] = "owed"]

\* The first copy of event e enters the topic.
Publish(e) ==
    /\ state[e] = "owed"
    /\ state' = [state EXCEPT ![e] = "published"]

\* Nothing will publish the events of S any more (a crash takes several), or
\* ever starts to.
Abandon(S) ==
    /\ disturbed'
    /\ \A e \in S : state[e] \in {"none", "owed"}
    /\ state' = [e \in Events |-> IF e \in S THEN "abandoned" ELSE state[e]]

Next ==
    /\ disturbed' \in {disturbed, TRUE}
    /\ \/ \E e \in Events : Owe(e) \/ Publish(e)
       \/ \E S \in SUBSET Events : Abandon(S)
       \/ UNCHANGED state

Spec == Init /\ [][Next]_vars

\* No event stays owed.
Settles ==
    \A e \in Events : (state[e] = "owed") ~> (state[e] \in {"published", "abandoned"})
=============================================================================
