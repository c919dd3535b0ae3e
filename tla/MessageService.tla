--------------------------- MODULE MessageService ---------------------------
(***************************************************************************)
(* The direct-message half of message-service: the gRPC handlers that send,*)
(* delete, alter and read messages, the Postgres tables they write, the    *)
(* Kafka topic "messages.sent" they publish to, and the outbox worker that *)
(* retries what could not be published.                                    *)
(*                                                                         *)
(* A request is one handler goroutine.  It runs Begin (validation and the  *)
(* read before the write), Commit (the write), Publish (Kafka), and, when  *)
(* publishing failed, SaveToOutbox; between two steps any other request,   *)
(* the worker or a crash of the process may run.  The message id and the   *)
(* outbox row id a request generates (uuid.New) are the request itself.    *)
(* A log entry or an outbox row r carries the event of request r, whose    *)
(* fields are those of call[r].                                            *)
(***************************************************************************)
EXTENDS Integers, Sequences, FiniteSets

CONSTANTS
    Users,           \* user ids
    Requests,        \* handler goroutines, also message ids and outbox row ids
    Contents,        \* encrypted contents
    MaxRetries,      \* NewOutboxWorker: maxRetries (5 in the code)
    BatchLimit,      \* the limit of GetPendingEvents (100 in the code)
    OneSession,      \* TRUE: a user has one gateway connection (serial requests)
    MaxKafkaErrors,  \* bound: publish attempts that return an error
    MaxDbErrors,     \* bound: Postgres statements that return an error
    MaxCrashes,      \* bound: crashes of the process
    None             \* no row, no call, no content

ASSUME MaxRetriesAssumption == MaxRetries \in Nat
ASSUME BatchLimitAssumption == BatchLimit \in Nat \ {0}
ASSUME FaultsAssumption ==
    /\ MaxKafkaErrors \in Nat
    /\ MaxDbErrors \in Nat
    /\ MaxCrashes \in Nat

VARIABLES
    messages,     \* table messages
    chats,        \* table chats: the set of its (user_id, companion_id) keys
    outbox,       \* table outbox_events
    log,          \* the Kafka topic, a sequence of requests (their events)
    pc, call,     \* per request: the next step, and its arguments and locals
    batch, wpc,   \* the worker: rows still to handle, and its next step
    clock,        \* time.Now()
    kafkaErrors, dbErrors, crashes   \* faults so far

store   == <<messages, chats>>
worker  == <<batch, wpc>>
faults  == <<kafkaErrors, dbErrors, crashes>>
vars    == <<messages, chats, outbox, log, pc, call, batch, wpc, clock,
             kafkaErrors, dbErrors, crashes>>

\* MessageStatusSent, MessageStatusRead; nothing sets MessageStatusDelivered.
Sent == 0
Read == 2

Ops == {"send", "delete", "alter", "read"}

MessageRow ==
    [sender: Users, recipient: Users, content: Contents,
     created: Nat, status: {Sent, Read}]

\* user is the caller, peer the user the event is pushed to.
Call ==
    [op: Ops, user: Users, peer: Users, msg: Requests,
     content: Contents \cup {None}, created: Nat]

OutboxRow ==
    [retry: Nat, status: {"pending", "completed", "failed"}, at: Nat]

\* What the worker keeps of a row it has read.
BatchEntry == [row: Requests, retry: Nat]

\* "failed": returned an error or crashed with nothing written.
\* "lost":   written, but neither published by the handler nor in the outbox.
Steps == {"new", "commit", "publish", "save", "done", "lost", "failed"}

ASSUME NoneAssumption ==
    /\ None \notin Contents
    /\ None \notin MessageRow
    /\ None \notin Call
    /\ None \notin OutboxRow

TypeOK ==
    /\ messages \in [Requests -> MessageRow \cup {None}]
    /\ chats \subseteq Users \X Users
    /\ outbox \in [Requests -> OutboxRow \cup {None}]
    /\ log \in Seq(Requests)
    /\ pc \in [Requests -> Steps]
    /\ call \in [Requests -> Call \cup {None}]
    /\ batch \subseteq BatchEntry
    /\ wpc \in {"publish", "mark", "retry"}
    /\ clock \in Nat
    /\ kafkaErrors \in Nat /\ dbErrors \in Nat /\ crashes \in Nat

-----------------------------------------------------------------------------
Stored(m)    == messages[m] # None
InFlight(r)  == pc[r] \in {"commit", "publish", "save"}
Committed(r) == pc[r] \in {"publish", "save", "done", "lost"}
Logged(r)    == \E i \in 1..Len(log) : log[i] = r
Pending      == {r \in Requests : outbox[r] # None /\ outbox[r].status = "pending"}

Init ==
    /\ messages = [m \in Requests |-> None]
    /\ chats = {}
    /\ outbox = [r \in Requests |-> None]
    /\ log = <<>>
    /\ pc = [r \in Requests |-> "new"]
    /\ call = [r \in Requests |-> None]
    /\ batch = {}
    /\ wpc = "publish"
    /\ clock = 0
    /\ kafkaErrors = 0 /\ dbErrors = 0 /\ crashes = 0

-----------------------------------------------------------------------------
(* The start of a handler.                                                 *)

\* HandleWebSocket serves the frames of one connection one after the other.
SessionFree(u) ==
    OneSession => \A r \in Requests : InFlight(r) => call[r].user # u

\* Mutant: the handler publishes and forgets to write.
BeginPublishing(r, c) ==
    /\ pc[r] = "new"
    /\ SessionFree(c.user)
    /\ pc' = [pc EXCEPT ![r] = "publish"]
    /\ call' = [call EXCEPT ![r] = c]
    /\ UNCHANGED <<store, outbox, log, worker, faults>>

\* A new request runs to its first write, with c as its arguments and locals.
Begin(r, c) ==
    /\ pc[r] = "new"
    /\ SessionFree(c.user)
    /\ pc' = [pc EXCEPT ![r] = "commit"]
    /\ call' = [call EXCEPT ![r] = c]
    /\ UNCHANGED <<store, outbox, log, worker, faults>>

\* SendMessage builds the message: a new id and CreatedAt = now.
BeginSend(r) ==
    \E u, v \in Users, x \in Contents :
        /\ Begin(r, [op |-> "send", user |-> u, peer |-> v, msg |-> r,
                     content |-> x, created |-> clock])
        /\ clock' = clock + 1

\* DeleteMessage and AlterMessage read the message and check its sender.
BeginDelete(r) ==
    \E m \in Requests :
        /\ Stored(m)
        /\ Begin(r, [op |-> "delete", user |-> messages[m].sender,
                     peer |-> messages[m].recipient, msg |-> m,
                     content |-> None, created |-> 0])
        /\ UNCHANGED clock

BeginAlter(r) ==
    \E m \in Requests, u \in Users, x \in Contents :
        /\ Stored(m)
        /\ messages[m].sender = u
        /\ Begin(r, [op |-> "alter", user |-> u,
                     peer |-> messages[m].recipient, msg |-> m,
                     content |-> x, created |-> 0])
        /\ UNCHANGED clock

\* MarkAsRead reads the last message; its event goes to that message's sender.
\* The chat a client names is the one of the message, and its own.
BeginRead(r) ==
    \E m \in Requests, u \in Users :
        /\ Stored(m)
        /\ u \in {messages[m].sender, messages[m].recipient}
        /\ Begin(r, [op |-> "read", user |-> u, peer |-> messages[m].sender,
                     msg |-> m, content |-> None, created |-> 0])
        /\ UNCHANGED clock

-----------------------------------------------------------------------------
(* The write: one statement or transaction.                                *)

\* CreateWithChats: one transaction inserts the message and both chat rows.
CreateWithChats(c) ==
    /\ messages' = [messages EXCEPT ![c.msg] =
                       [sender |-> c.user, recipient |-> c.peer,
                        content |-> c.content, created |-> c.created,
                        status |-> Sent]]
    /\ chats' = chats \cup {<<c.user, c.peer>>, <<c.peer, c.user>>}

\* Delete: no error when the row is already gone.
Delete(c) ==
    /\ messages' = [messages EXCEPT ![c.msg] = None]
    /\ UNCHANGED chats

\* Mutant: an upsert of the row as the handler read it.
AlterUpsert(c) ==
    /\ messages' = [messages EXCEPT ![c.msg] =
                       [sender |-> c.user, recipient |-> c.peer,
                        content |-> c.content, created |-> c.created,
                        status |-> Sent]]
    /\ UNCHANGED chats

\* Alter: an UPDATE, which changes no row when the message is gone.
Alter(c) ==
    /\ messages' = IF Stored(c.msg)
                   THEN [messages EXCEPT ![c.msg].content = c.content]
                   ELSE messages
    /\ UNCHANGED chats

\* Mutant: the messages of both users of the chat.
MarkedReadOfChat(c, m) ==
    LET last == messages[c.msg] IN
    /\ Stored(c.msg)
    /\ Stored(m)
    /\ {messages[m].sender, messages[m].recipient} = {last.sender, last.recipient}
    /\ messages[m].created <= last.created

\* The rows UpdateStatusBatch selects: the reader's messages of the chat, up
\* to the last one; none if that one has been deleted meanwhile.
MarkedRead(c, m) ==
    LET last == messages[c.msg] IN
    /\ Stored(c.msg)
    /\ Stored(m)
    /\ {messages[m].sender, messages[m].recipient} = {last.sender, last.recipient}
    /\ messages[m].recipient = c.user
    /\ messages[m].created <= last.created

UpdateStatusBatch(c) ==
    /\ messages' = [m \in Requests |->
                       IF MarkedRead(c, m)
                       THEN [messages[m] EXCEPT !.status = Read]
                       ELSE messages[m]]
    /\ UNCHANGED chats

Write(c) ==
    \/ c.op = "send"   /\ CreateWithChats(c)
    \/ c.op = "delete" /\ Delete(c)
    \/ c.op = "alter"  /\ Alter(c)
    \/ c.op = "read"   /\ UpdateStatusBatch(c)

Commit(r) ==
    /\ pc[r] = "commit"
    /\ Write(call[r])
    /\ pc' = [pc EXCEPT ![r] = "publish"]
    /\ UNCHANGED <<outbox, log, call, worker, clock, faults>>

\* The write returns an error, and so does the handler: nothing was written,
\* or only the acknowledgement was lost.
CommitFails(r) ==
    /\ pc[r] = "commit"
    /\ dbErrors < MaxDbErrors
    /\ dbErrors' = dbErrors + 1
    /\ \/ UNCHANGED store /\ pc' = [pc EXCEPT ![r] = "failed"]
       \/ Write(call[r])  /\ pc' = [pc EXCEPT ![r] = "lost"]
    /\ UNCHANGED <<outbox, log, call, worker, clock, kafkaErrors, crashes>>

-----------------------------------------------------------------------------
(* Publishing.                                                             *)

\* WriteMessages of r's event succeeds.
PublishOK(r) ==
    /\ log' = Append(log, r)
    /\ UNCHANGED kafkaErrors

\* WriteMessages returns an error; the broker may still have the event.
PublishError(r) ==
    /\ kafkaErrors < MaxKafkaErrors
    /\ kafkaErrors' = kafkaErrors + 1
    /\ log' \in {log, Append(log, r)}

\* Mutant: the error of the producer is only logged.
PublishAndForget(r) ==
    /\ pc[r] = "publish"
    /\ PublishOK(r) \/ PublishError(r)
    /\ pc' = [pc EXCEPT ![r] = "done"]
    /\ UNCHANGED <<store, outbox, call, worker, clock, dbErrors, crashes>>

Publish(r) ==
    /\ pc[r] = "publish"
    /\ \/ PublishOK(r) /\ pc' = [pc EXCEPT ![r] = "done"]
       \/ PublishError(r) /\ pc' = [pc EXCEPT ![r] = "save"]
    /\ UNCHANGED <<store, outbox, call, worker, clock, dbErrors, crashes>>

\* The error of SaveToOutbox is logged or ignored: the handler succeeds.
SaveToOutbox(r) ==
    /\ pc[r] = "save"
    /\ \/ /\ outbox' = [outbox EXCEPT ![r] =
                           [retry |-> 0, status |-> "pending", at |-> clock]]
          /\ clock' = clock + 1
          /\ pc' = [pc EXCEPT ![r] = "done"]
          /\ UNCHANGED dbErrors
       \/ /\ dbErrors < MaxDbErrors
          /\ dbErrors' = dbErrors + 1
          /\ pc' = [pc EXCEPT ![r] = "lost"]
          /\ UNCHANGED <<outbox, clock>>
    /\ UNCHANGED <<store, log, call, worker, kafkaErrors, crashes>>

-----------------------------------------------------------------------------
(* The outbox worker, a single goroutine.                                  *)

\* Mutant: only rows never tried.
PollFresh ==
    /\ batch = {}
    /\ \E r \in Pending :
          /\ outbox[r].retry = 0
          /\ batch' = {[row |-> r, retry |-> 0]}
    /\ UNCHANGED <<store, outbox, log, pc, call, wpc, clock, faults>>

\* GetPendingEvents: the BatchLimit oldest pending rows, with their counts.
Poll ==
    /\ batch = {}
    /\ \E rows \in SUBSET Pending :
          /\ rows # {}
          /\ \A r \in rows, s \in Pending \ rows : outbox[r].at < outbox[s].at
          /\ Cardinality(rows) <= BatchLimit
          /\ rows = Pending \/ Cardinality(rows) = BatchLimit
          /\ batch' = {[row |-> r, retry |-> outbox[r].retry] : r \in rows}
    /\ UNCHANGED <<store, outbox, log, pc, call, wpc, clock, faults>>

\* The event of the batch the loop of processEvents is at.
Current(e) ==
    /\ e \in batch
    /\ \A f \in batch : outbox[e.row].at <= outbox[f.row].at

\* The last statement on e: it updates the row to new, or fails unnoticed.
Finish(e, new) ==
    /\ \/ outbox' = [outbox EXCEPT ![e.row] = new] /\ UNCHANGED dbErrors
       \/ /\ dbErrors < MaxDbErrors
          /\ dbErrors' = dbErrors + 1
          /\ UNCHANGED outbox
    /\ batch' = batch \ {e}
    /\ wpc' = "publish"
    /\ UNCHANGED <<store, log, pc, call, clock, kafkaErrors, crashes>>

\* Mutant: one retry too few.
MarkEventFailedEarly(e) ==
    /\ Current(e) /\ wpc = "publish" /\ e.retry + 1 >= MaxRetries
    /\ Finish(e, [outbox[e.row] EXCEPT !.status = "failed"])

MarkEventFailed(e) ==
    /\ Current(e) /\ wpc = "publish" /\ e.retry >= MaxRetries
    /\ Finish(e, [outbox[e.row] EXCEPT !.status = "failed"])

PublishEvent(e) ==
    /\ Current(e) /\ wpc = "publish" /\ e.retry < MaxRetries
    /\ \/ PublishOK(e.row) /\ wpc' = "mark"
       \/ PublishError(e.row) /\ wpc' = "retry"
    /\ UNCHANGED <<store, outbox, pc, call, batch, clock, dbErrors, crashes>>

\* Mutant: the row stays pending.
MarkNothing(e) ==
    /\ Current(e) /\ wpc = "mark"
    /\ Finish(e, outbox[e.row])

MarkEventProcessed(e) ==
    /\ Current(e) /\ wpc = "mark"
    /\ Finish(e, [outbox[e.row] EXCEPT !.status = "completed"])

IncrementRetryCount(e) ==
    /\ Current(e) /\ wpc = "retry"
    /\ Finish(e, [outbox[e.row] EXCEPT !.retry = @ + 1])

-----------------------------------------------------------------------------
\* The process stops and restarts: goroutines are lost, the stores are not.
Crash ==
    /\ crashes < MaxCrashes
    /\ crashes' = crashes + 1
    /\ pc' = [r \in Requests |-> CASE pc[r] = "commit" -> "failed"
                                   [] pc[r] \in {"publish", "save"} -> "lost"
                                   [] OTHER -> pc[r]]
    /\ batch' = {}
    /\ wpc' = "publish"
    /\ UNCHANGED <<store, outbox, log, call, clock, kafkaErrors, dbErrors>>

Handler(r) ==
    \/ Commit(r)
    \/ CommitFails(r)
    \/ Publish(r)
    \/ SaveToOutbox(r)

ProcessEvent(e) ==
    \/ MarkEventFailed(e) \/ PublishEvent(e)
    \/ MarkEventProcessed(e) \/ IncrementRetryCount(e)

Worker == Poll \/ \E e \in batch : ProcessEvent(e)

Next ==
    \/ \E r \in Requests :
          BeginSend(r) \/ BeginDelete(r) \/ BeginAlter(r) \/ BeginRead(r)
    \/ \E r \in Requests : Handler(r)
    \/ Worker
    \/ Crash

\* Users need not call; started goroutines run, and the ticker keeps firing.
Fairness ==
    /\ \A r \in Requests : WF_vars(Handler(r))
    /\ WF_vars(Worker)

Spec == Init /\ [][Next]_vars
FairSpec == Spec /\ Fairness

-----------------------------------------------------------------------------
(* Safety.                                                                 *)

\* The topic tells the truth about the table: a message whose "sent" is in the
\* topic is stored unless a delete was committed, and one whose "deleted" is
\* in the topic is gone for good.
LogFollowsCommit ==
    \A r \in Requests : Logged(r) =>
        /\ call[r].op = "send" =>
              \/ Stored(r)
              \/ \E d \in Requests : /\ call[d] # None /\ call[d].op = "delete"
                                    /\ call[d].msg = r /\ Committed(d)
        /\ call[r].op = "delete" => ~Stored(call[r].msg)

\* A handler that returned success and did not hit a failing SaveToOutbox or
\* a crash left its event in the topic or in the outbox.
DoneIsAccounted ==
    \A r \in Requests : pc[r] = "done" => Logged(r) \/ outbox[r] # None

\* The worker closes a row rightly: a completed row's event is in the topic,
\* a failed row has used up its retries, and no row is tried more often.
OutboxOutcome ==
    \A r \in Requests : outbox[r] # None =>
        /\ outbox[r].status = "completed" => Logged(r)
        /\ outbox[r].status = "failed" => outbox[r].retry = MaxRetries
        /\ outbox[r].retry <= MaxRetries

\* Each extra copy of an event in the topic is paid for by a fault: an error
\* whose write succeeded, a MarkEventProcessed that failed, or a crash.
Copies(r) == Cardinality({i \in 1..Len(log) : log[i] = r})
DuplicatesNeedFaults ==
    \A r \in Requests : Copies(r) <= 1 + kafkaErrors + dbErrors + crashes

\* A message is marked read only by its recipient having read it or a later
\* message of the same chat.
ReadIsJustified ==
    \A m \in Requests : Stored(m) /\ messages[m].status = Read =>
        \E r \in Requests :
            /\ call[r] # None /\ call[r].op = "read" /\ Committed(r)
            /\ call[r].user = messages[m].recipient
            /\ call[call[r].msg].created >= messages[m].created
            /\ {call[call[r].msg].user, call[call[r].msg].peer}
                  = {messages[m].sender, messages[m].recipient}

(* Steps.                                                                  *)

\* A deleted message never comes back, whatever handlers were in flight.
NoResurrection ==
    [][\A m \in Requests :
          Committed(m) /\ ~Stored(m) => ~Stored(m)']_vars
=============================================================================
