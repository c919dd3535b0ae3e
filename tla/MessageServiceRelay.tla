------------------------ MODULE MessageServiceRelay ------------------------
(***************************************************************************)
(* MessageService implements EventRelay: the handlers' direct publish and  *)
(* the outbox with its worker, together, relay the events of committed     *)
(* writes.                                                                 *)
(***************************************************************************)
EXTENDS MessageService

\* The relay makes up for a broker that fails at most MaxRetries times, but not
\* for a failing SaveToOutbox or a crash before the event is published or saved.
Disturbed == crashes > 0 \/ dbErrors > 0 \/ kafkaErrors > MaxRetries

\* Somebody still has to publish the event of r.
Owed(r) ==
    \/ pc[r] \in {"publish", "save"}
    \/ pc[r] = "done" /\ r \in Pending

RelayState(r) ==
    CASE Logged(r)                         -> "published"
      [] ~Logged(r) /\ ~Committed(r)       -> "none"
      [] ~Logged(r) /\ Committed(r) /\ Owed(r)  -> "owed"
      [] ~Logged(r) /\ Committed(r) /\ ~Owed(r) -> "abandoned"

Relay == INSTANCE EventRelay WITH
            Events <- Requests,
            state <- [r \in Requests |-> RelayState(r)],
            disturbed <- Disturbed

\* The event of a committed write is published or still owed, an event once
\* published or given up stays so, and events are given up only when Disturbed.
ImplementsRelay == Relay!Spec

\* With fair handlers and a fair worker no event stays owed for ever: the
\* worker publishes its row or marks it failed, however many faults occur.
RelaySettles == Relay!Settles

\* What was committed is eventually in the topic, unless Disturbed.
EventuallyPublished ==
    \A r \in Requests : (pc[r] = "publish") ~> Logged(r) \/ Disturbed
=============================================================================
