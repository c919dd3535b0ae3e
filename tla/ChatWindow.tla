----------------------------- MODULE ChatWindow -----------------------------
(***************************************************************************)
(* The open ChatWindow of a message's recipient, fed with the events of the*)
(* topic in order, next to the tables of message-service.  Its handler is  *)
(* async: new and altered contents are decrypted before they are shown, so *)
(* a later event may be handled while an earlier one is being decrypted.   *)
(***************************************************************************)
EXTENDS MessageService

VARIABLES
    view,        \* per message: the content its recipient sees, or None
    next,        \* the position in the topic of the next event to arrive
    decrypting,  \* positions of the events awaiting decryption
    raced        \* history: messages with an event that arrived while another
                 \* event of the same message was being decrypted, and those
                 \* two requests were about at the same time

window == <<view, next, decrypting, raced>>

WInit ==
    /\ Init
    /\ view = [m \in Requests |-> None]
    /\ next = 1
    /\ decrypting = {}
    /\ raced = {}

Event(i) == call[log[i]]

\* The handler runs up to its first await, or to its end for a deletion.
Arrive ==
    /\ next <= Len(log)
    /\ next' = next + 1
    /\ LET c == Event(next) IN
       /\ raced' = raced \cup
             {m \in {c.msg} : \E i \in decrypting : Event(i).msg = m}
       /\ \/ /\ c.op = "delete"
             /\ view' = [view EXCEPT ![c.msg] = None]
             /\ UNCHANGED decrypting
          \/ /\ c.op \in {"send", "alter"}
             /\ decrypting' = decrypting \cup {next}
             /\ UNCHANGED view
          \/ /\ c.op = "read"
             /\ UNCHANGED <<view, decrypting>>
    /\ UNCHANGED vars

\* Mutant: an alteration, too, is for messages that are not there.
ShowMissing(i) ==
    LET c == Event(i) IN
    IF view[c.msg] = None THEN [view EXCEPT ![c.msg] = c.content] ELSE view

\* A new message is added if it is not there, an altered one replaced if it is.
Show(i) ==
    LET c == Event(i) IN
    IF (c.op = "send") = (view[c.msg] = None)
    THEN [view EXCEPT ![c.msg] = c.content]
    ELSE view

Decrypted(i) ==
    /\ i \in decrypting
    /\ decrypting' = decrypting \ {i}
    /\ view' = Show(i)
    /\ UNCHANGED <<vars, next, raced>>

\* Messages two requests in flight are about.
Contended ==
    {m \in Requests : \E r, s \in Requests :
        /\ r # s /\ InFlight(r) /\ InFlight(s)
        /\ call[r].msg = m /\ call[s].msg = m}

WNext ==
    \/ /\ Next
       /\ raced' = raced \cup Contended'
       /\ UNCHANGED <<view, next, decrypting>>
    \/ Arrive
    \/ \E i \in decrypting : Decrypted(i)

WSpec == WInit /\ [][WNext]_<<vars, window>>

-----------------------------------------------------------------------------
Quiet ==
    /\ Pending = {} /\ \A r \in Requests : ~InFlight(r)
    /\ next > Len(log) /\ decrypting = {}

\* Messages with an event that went through the outbox: it enters the topic
\* after newer events of the same message, a "sent" after its "deleted".
Retried == {call[r].msg : r \in {s \in Requests : outbox[s] # None}}

\* Messages with an event that was lost in a crash, or with a statement that
\* failed.
Lost == {call[r].msg : r \in {s \in Requests : pc[s] = "lost"}}

\* When nothing is in flight, the recipient sees the messages of the table
\* with their current contents and without the deleted ones, but for those
\* whose events were retried, lost or raced: two requests of different connections
\* on one message may publish in another order than they committed.
ViewConverges ==
    Quiet => \A m \in Requests \ (Retried \cup Lost \cup raced) :
                view[m] = IF Stored(m) THEN messages[m].content ELSE None
=============================================================================
