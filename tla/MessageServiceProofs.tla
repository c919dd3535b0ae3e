------------------------ MODULE MessageServiceProofs ------------------------
(***************************************************************************)
(* Proofs about MessageService: types, what the topic says of the tables,  *)
(* what the outbox worker does, and what may happen to a message; that it  *)
(* implements EventRelay (MessageServiceRelay); and that the window of a   *)
(* recipient ends up like the table (ChatWindow).                          *)
(***************************************************************************)
EXTENDS MessageServiceRelay, ChatWindow, FiniteSetTheorems, TLAPS

\* A request has a call once it has begun; what is to be written has a content.
CallInv ==
    \A r \in Requests : pc[r] # "new" =>
        /\ call[r] \in Call
        /\ call[r].op \in {"send", "alter"} => call[r].content \in Contents
        /\ call[r].op = "send" => call[r].msg = r

\* m is a message that was committed.
SentInv(m) == pc[m] # "new" /\ call[m].op = "send" /\ Committed(m)

\* A request other than a send is about a message that has been committed.
AboutInv ==
    \A r \in Requests : pc[r] # "new" /\ call[r].op # "send" => SentInv(call[r].msg)

\* A row is the message that was sent.
RowInv ==
    \A m \in Requests : Stored(m) =>
        /\ SentInv(m)
        /\ messages[m].sender = call[m].user
        /\ messages[m].recipient = call[m].peer
        /\ messages[m].created = call[m].created

\* What a committed request has done to the tables.
DeletedBy(m, d) ==
    pc[d] # "new" /\ call[d].op = "delete" /\ call[d].msg = m /\ Committed(d)

WrittenInv ==
    \A r \in Requests : Committed(r) =>
        /\ call[r].op = "send" => Stored(r) \/ \E d \in Requests : DeletedBy(r, d)
        /\ call[r].op = "delete" => ~Stored(call[r].msg)

\* An event is in the topic or in the outbox after the write.
EventInv ==
    \A r \in Requests :
        /\ Logged(r) => pc[r] \in {"save", "done", "lost"}
        /\ outbox[r] # None => pc[r] = "done"

\* Rows have different times, and a batch tells how the rows it was read from
\* still are.
OutboxInv ==
    /\ \A r \in Requests : outbox[r] # None => outbox[r].at < clock
    /\ \A r, s \in Requests :
          outbox[r] # None /\ outbox[s] # None /\ r # s => outbox[r].at # outbox[s].at
    /\ \A e \in batch : e.row \in Pending /\ outbox[e.row].retry = e.retry

\* The event the worker is at when it has published, or failed to.
WorkerInv ==
    wpc # "publish" => \E e \in batch :
        Current(e) /\ e.retry < MaxRetries /\ (wpc = "mark" => Logged(e.row))

\* Where the last copy of an event is not yet paid for.
AtMark(r) == wpc = "mark" /\ \E e \in batch : Current(e) /\ e.row = r

Faults == kafkaErrors + dbErrors + crashes

CopiesInv ==
    \A r \in Requests :
        /\ Copies(r) <= 1 + Faults
        /\ r \in Pending /\ ~AtMark(r) => Copies(r) <= Faults
        /\ pc[r] = "save" => Copies(r) <= Faults

IInv ==
    /\ TypeOK /\ CallInv /\ AboutInv /\ RowInv /\ WrittenInv /\ EventInv
    /\ OutboxInv /\ WorkerInv /\ CopiesInv
    /\ DoneIsAccounted /\ OutboxOutcome /\ ReadIsJustified

-----------------------------------------------------------------------------
(* What the steps do to requests and messages.                             *)

BeginStep(r) == BeginSend(r) \/ BeginDelete(r) \/ BeginAlter(r) \/ BeginRead(r)

LEMMA BeginEffect ==
    ASSUME TypeOK, NEW r \in Requests, BeginStep(r)
    PROVE  \E c \in Call :
              /\ pc[r] = "new"
              /\ pc' = [pc EXCEPT ![r] = "commit"]
              /\ call' = [call EXCEPT ![r] = c]
              /\ c.op \in {"send", "alter"} => c.content \in Contents
              /\ c.op = "send" => c.msg = r
              /\ c.op # "send" => Stored(c.msg)
              /\ clock' \in {clock, clock + 1}
              /\ UNCHANGED <<store, outbox, log, worker, faults>>
<1>. USE DEF Begin
<1>1. \A m \in Requests : Stored(m) => messages[m] \in MessageRow
    BY DEF TypeOK, Stored
<1>2. CASE BeginSend(r)
    <2>1. PICK u \in Users, v \in Users, x \in Contents :
              /\ Begin(r, [op |-> "send", user |-> u, peer |-> v, msg |-> r,
                           content |-> x, created |-> clock])
              /\ clock' = clock + 1
        BY <1>2 DEF BeginSend
    <2>. DEFINE c == [op |-> "send", user |-> u, peer |-> v, msg |-> r,
                      content |-> x, created |-> clock]
    <2>2. c \in Call
        BY DEF Call, Ops, TypeOK
    <2>. WITNESS c \in Call
    <2>. QED
        BY <2>1
<1>3. CASE BeginDelete(r)
    <2>1. PICK m \in Requests :
              /\ Stored(m)
              /\ Begin(r, [op |-> "delete", user |-> messages[m].sender,
                           peer |-> messages[m].recipient, msg |-> m,
                           content |-> None, created |-> 0])
              /\ UNCHANGED clock
        BY <1>3 DEF BeginDelete
    <2>. DEFINE c == [op |-> "delete", user |-> messages[m].sender,
                      peer |-> messages[m].recipient, msg |-> m,
                      content |-> None, created |-> 0]
    <2>2. c \in Call
        BY <1>1, <2>1 DEF Call, Ops, MessageRow
    <2>. WITNESS c \in Call
    <2>. QED
        BY <2>1
<1>4. CASE BeginAlter(r)
    <2>1. PICK m \in Requests, u \in Users, x \in Contents :
              /\ Stored(m)
              /\ Begin(r, [op |-> "alter", user |-> u,
                           peer |-> messages[m].recipient, msg |-> m,
                           content |-> x, created |-> 0])
              /\ UNCHANGED clock
        BY <1>4 DEF BeginAlter
    <2>. DEFINE c == [op |-> "alter", user |-> u,
                      peer |-> messages[m].recipient, msg |-> m,
                      content |-> x, created |-> 0]
    <2>2. c \in Call
        BY <1>1, <2>1 DEF Call, Ops, MessageRow
    <2>. WITNESS c \in Call
    <2>. QED
        BY <2>1
<1>5. CASE BeginRead(r)
    <2>1. PICK m \in Requests, u \in Users :
              /\ Stored(m)
              /\ Begin(r, [op |-> "read", user |-> u, peer |-> messages[m].sender,
                           msg |-> m, content |-> None, created |-> 0])
              /\ UNCHANGED clock
        BY <1>5 DEF BeginRead
    <2>. DEFINE c == [op |-> "read", user |-> u, peer |-> messages[m].sender,
                      msg |-> m, content |-> None, created |-> 0]
    <2>2. c \in Call
        BY <1>1, <2>1 DEF Call, Ops, MessageRow
    <2>. WITNESS c \in Call
    <2>. QED
        BY <2>1
<1>. QED
    BY <1>2, <1>3, <1>4, <1>5 DEF BeginStep

\* r writes, and goes on or loses the acknowledgement.
Writes(r) ==
    /\ pc[r] = "commit"
    /\ Write(call[r])
    /\ \E step \in {"publish", "lost"} : pc' = [pc EXCEPT ![r] = step]
    /\ UNCHANGED <<outbox, log, call, worker, clock, kafkaErrors, crashes>>
    /\ dbErrors' \in {dbErrors, dbErrors + 1}

\* Sender, recipient and time of m stay; it is marked read, or its status stays.
Keeps(r, m) ==
    /\ messages'[m].sender = messages[m].sender
    /\ messages'[m].recipient = messages[m].recipient
    /\ messages'[m].created = messages[m].created
    /\ \/ messages'[m].status = messages[m].status
       \/ call[r].op = "read" /\ MarkedRead(call[r], m)

LEMMA WriteEffect ==
    ASSUME TypeOK, CallInv, NEW r \in Requests, pc[r] = "commit", Write(call[r])
    PROVE  /\ messages' \in [Requests -> MessageRow \cup {None}]
           /\ chats' \subseteq Users \X Users
           /\ call[r].op = "send" =>
                 /\ messages'[r] \in MessageRow
                 /\ messages'[r].sender = call[r].user
                 /\ messages'[r].recipient = call[r].peer
                 /\ messages'[r].created = call[r].created
                 /\ messages'[r].status = Sent
           /\ call[r].op = "delete" => messages'[call[r].msg] = None
           /\ \A m \in Requests :
                 /\ messages[m] = None =>
                       messages'[m] = None \/ (call[r].op = "send" /\ m = r)
                 /\ messages[m] # None =>
                       \/ messages'[m] # None /\ Keeps(r, m)
                       \/ call[r].op = "send" /\ m = r
                       \/ call[r].op = "delete" /\ call[r].msg = m /\ messages'[m] = None
<1>. DEFINE c == call[r]
<1>1. /\ c \in Call
      /\ c.op \in {"send", "alter"} => c.content \in Contents
      /\ c.op = "send" => c.msg = r
    BY DEF CallInv
<1>2. /\ c.user \in Users /\ c.peer \in Users /\ c.msg \in Requests
      /\ c.created \in Nat
    BY <1>1 DEF Call
<1>3. /\ messages \in [Requests -> MessageRow \cup {None}] /\ chats \subseteq Users \X Users
      /\ None \notin MessageRow
    BY NoneAssumption DEF TypeOK
<1>4. CASE c.op = "send" /\ CreateWithChats(c)
    <2>. DEFINE row == [sender |-> c.user, recipient |-> c.peer,
                        content |-> c.content, created |-> c.created, status |-> Sent]
    <2>1. row \in MessageRow
        BY <1>1, <1>2, <1>4 DEF MessageRow
    <2>2. messages' = [messages EXCEPT ![r] = row]
        BY <1>1, <1>4 DEF CreateWithChats
    <2>3. messages'[r] = row
        BY <1>3, <2>2
    <2>4. /\ row.sender = c.user /\ row.recipient = c.peer
          /\ row.created = c.created /\ row.status = Sent
        OBVIOUS
    <2>5. \A m \in Requests \ {r} : messages'[m] = messages[m]
        BY <1>3, <2>2
    <2>6. chats' \subseteq Users \X Users
        BY <1>2, <1>3, <1>4 DEF CreateWithChats
    <2>7. messages' \in [Requests -> MessageRow \cup {None}]
        BY <1>3, <2>1, <2>2
    <2>8. \A m \in Requests \ {r} : Keeps(r, m)
        BY <2>5 DEF Keeps
    <2>. HIDE DEF row
    <2>. QED
        BY <1>4, <2>1, <2>3, <2>4, <2>5, <2>6, <2>7, <2>8
<1>5. CASE c.op = "delete" /\ Delete(c)
    BY <1>2, <1>3, <1>5 DEF Delete, Keeps
<1>6. CASE c.op = "alter" /\ Alter(c)
    <2>1. CASE ~Stored(c.msg)
        BY <1>3, <1>6, <2>1 DEF Alter, Keeps
    <2>2. CASE Stored(c.msg)
        <3>. DEFINE row == [messages[c.msg] EXCEPT !.content = c.content]
        <3>1. messages[c.msg] \in MessageRow
            BY <1>2, <1>3, <2>2 DEF Stored
        <3>2. row \in MessageRow
            BY <1>1, <1>6, <3>1 DEF MessageRow
        <3>3. /\ row.sender = messages[c.msg].sender
              /\ row.recipient = messages[c.msg].recipient
              /\ row.created = messages[c.msg].created
              /\ row.status = messages[c.msg].status
            BY <3>1 DEF MessageRow
        <3>4. messages' = [messages EXCEPT ![c.msg] = row]
            BY <1>6, <2>2 DEF Alter
        <3>5. chats' = chats
            BY <1>6 DEF Alter
        <3>. HIDE DEF row
        <3>6. \A m \in Requests : messages[m] # None => messages'[m] # None /\ Keeps(r, m)
            BY <1>2, <1>3, <3>2, <3>3, <3>4 DEF Keeps
        <3>7. \A m \in Requests : messages[m] = None => messages'[m] = None
            BY <1>2, <1>3, <3>1, <3>4
        <3>8. messages' \in [Requests -> MessageRow \cup {None}]
            BY <1>3, <3>2, <3>4
        <3>. QED
            BY <1>3, <1>6, <3>5, <3>6, <3>7, <3>8
    <2>. QED
        BY <2>1, <2>2
<1>7. CASE c.op = "read" /\ UpdateStatusBatch(c)
    <2>1. messages' = [m \in Requests |->
                          IF MarkedRead(c, m)
                          THEN [messages[m] EXCEPT !.status = Read]
                          ELSE messages[m]]
          /\ chats' = chats
        BY <1>7 DEF UpdateStatusBatch
    <2>2. ASSUME NEW m \in Requests, MarkedRead(c, m)
          PROVE  /\ messages[m] # None /\ messages'[m] \in MessageRow /\ Keeps(r, m)
        <3>1. messages[m] \in MessageRow
            BY <1>3, <2>2 DEF MarkedRead, Stored
        <3>2. messages'[m] = [messages[m] EXCEPT !.status = Read]
            BY <2>1, <2>2
        <3>. QED
            BY <1>3, <1>7, <2>2, <3>1, <3>2 DEF Keeps, MessageRow
    <2>3. ASSUME NEW m \in Requests, ~MarkedRead(c, m)
          PROVE  messages'[m] = messages[m]
        BY <2>1, <2>3
    <2>4. messages' \in [Requests -> MessageRow \cup {None}]
        BY <1>3, <2>1, <2>2, <2>3
    <2>. QED
        BY <1>3, <1>7, <2>1, <2>2, <2>3, <2>4 DEF Keeps
<1>. QED
    BY <1>4, <1>5, <1>6, <1>7 DEF Write

\* All other steps leave messages and calls alone, and which ones are committed.
Elsewhere ==
    /\ UNCHANGED <<store, call>>
    /\ \A r \in Requests :
          /\ pc'[r] = "new" <=> pc[r] = "new"
          /\ Committed(r)' <=> Committed(r)

LEMMA NextCases ==
    ASSUME TypeOK, [Next]_vars
    PROVE  \/ \E r \in Requests : BeginStep(r)
           \/ \E r \in Requests : Writes(r)
           \/ Elsewhere
<1>. USE DEF Elsewhere, Committed, store
<1>1. ASSUME NEW r \in Requests, Commit(r) PROVE Writes(r)
    BY <1>1 DEF Commit, Writes, faults
<1>2. ASSUME NEW r \in Requests, CommitFails(r) PROVE Writes(r) \/ Elsewhere
    BY <1>2 DEF CommitFails, Writes, TypeOK
<1>3. ASSUME NEW r \in Requests, Publish(r) \/ SaveToOutbox(r) PROVE Elsewhere
    BY <1>3 DEF Publish, SaveToOutbox, TypeOK
<1>4. CASE Worker
    BY <1>4 DEF Worker, Poll, ProcessEvent, MarkEventFailed, PublishEvent,
                MarkEventProcessed, IncrementRetryCount, Finish
<1>5. CASE Crash
    BY <1>5 DEF Crash, TypeOK
<1>6. CASE UNCHANGED vars
    BY <1>6 DEF vars
<1>. QED
    BY <1>1, <1>2, <1>3, <1>4, <1>5, <1>6 DEF Next, Handler, BeginStep

-----------------------------------------------------------------------------
(* Messages.                                                               *)

LEMMA BeginMessages ==
    ASSUME TypeOK, CallInv, AboutInv, RowInv, WrittenInv, ReadIsJustified,
           NEW r \in Requests, BeginStep(r)
    PROVE  /\ CallInv' /\ AboutInv' /\ RowInv' /\ WrittenInv' /\ ReadIsJustified'
           /\ messages' = messages /\ chats' = chats
           /\ pc' \in [Requests -> Steps] /\ call' \in [Requests -> Call \cup {None}]
<1>1. PICK c \in Call :
          /\ pc[r] = "new"
          /\ pc' = [pc EXCEPT ![r] = "commit"]
          /\ call' = [call EXCEPT ![r] = c]
          /\ c.op \in {"send", "alter"} => c.content \in Contents
          /\ c.op = "send" => c.msg = r
          /\ c.op # "send" => Stored(c.msg)
          /\ UNCHANGED store
    BY BeginEffect
<1>2. /\ pc \in [Requests -> Steps] /\ call \in [Requests -> Call \cup {None}]
      /\ c.msg \in Requests /\ None \notin Call
    BY NoneAssumption DEF TypeOK, Call
<1>3. /\ pc'[r] = "commit" /\ call'[r] = c
      /\ \A q \in Requests \ {r} : pc'[q] = pc[q] /\ call'[q] = call[q]
    BY <1>1, <1>2
<1>4. /\ \A q \in Requests : Committed(q)' <=> Committed(q)
      /\ \A q \in Requests : Committed(q) => q # r
      /\ \A q \in Requests : Stored(q)' <=> Stored(q)
    BY <1>1, <1>3 DEF Committed, Stored, store
<1>5. \A m \in Requests : SentInv(m) => SentInv(m)' /\ m # r
    BY <1>1, <1>3, <1>4 DEF SentInv
<1>6. CallInv'
    BY <1>1, <1>3 DEF CallInv
<1>7. AboutInv'
    <2>1. \A q \in Requests : pc[q] # "new" => call[q].msg \in Requests
        BY DEF CallInv, Call
    <2>. QED
        BY <1>1, <1>2, <1>3, <1>5, <2>1 DEF AboutInv, RowInv
<1>8. RowInv'
    BY <1>1, <1>3, <1>4, <1>5 DEF RowInv, store
<1>9. WrittenInv'
    <2>1. \A m, d \in Requests : DeletedBy(m, d) => DeletedBy(m, d)'
        BY <1>1, <1>3, <1>4 DEF DeletedBy
    <2>2. \A q \in Requests : Committed(q) => call[q].msg \in Requests
        BY DEF CallInv, Call, Committed
    <2>. QED
        BY <1>3, <1>4, <2>1, <2>2 DEF WrittenInv
<1>10. ReadIsJustified'
    <2>. SUFFICES ASSUME NEW m \in Requests, Stored(m), messages[m].status = Read
                  PROVE  \E q \in Requests :
                            /\ call'[q] # None /\ call'[q].op = "read" /\ Committed(q)'
                            /\ call'[q].user = messages'[m].recipient
                            /\ call'[call'[q].msg].created >= messages'[m].created
                            /\ {call'[call'[q].msg].user, call'[call'[q].msg].peer}
                                  = {messages'[m].sender, messages'[m].recipient}
        BY <1>1, <1>4 DEF ReadIsJustified, store
    <2>1. PICK q \in Requests :
              /\ call[q] # None /\ call[q].op = "read" /\ Committed(q)
              /\ call[q].user = messages[m].recipient
              /\ call[call[q].msg].created >= messages[m].created
              /\ {call[call[q].msg].user, call[call[q].msg].peer}
                    = {messages[m].sender, messages[m].recipient}
        BY DEF ReadIsJustified
    <2>2. SentInv(call[q].msg) /\ call[q].msg \in Requests
        BY <2>1 DEF AboutInv, CallInv, Call, Committed
    <2>3. call'[q] = call[q] /\ call'[call[q].msg] = call[call[q].msg]
        BY <1>3, <1>4, <1>5, <2>1, <2>2
    <2>. QED
        BY <1>1, <1>4, <2>1, <2>3 DEF store
<1>. QED
    BY <1>1, <1>2, <1>6, <1>7, <1>8, <1>9, <1>10 DEF store, Steps

LEMMA WriteMessages ==
    ASSUME TypeOK, CallInv, AboutInv, RowInv, WrittenInv, ReadIsJustified,
           NEW r \in Requests, Writes(r)
    PROVE  CallInv' /\ AboutInv' /\ RowInv' /\ WrittenInv' /\ ReadIsJustified'
<1>1. /\ pc[r] = "commit" /\ call' = call
      /\ \A q \in Requests \ {r} : pc'[q] = pc[q]
      /\ pc'[r] \in {"publish", "lost"}
    BY DEF Writes, TypeOK
<1>2. /\ None \notin MessageRow
      /\ call[r] \in Call /\ call[r].msg \in Requests
      /\ call[r].op = "send" => call[r].msg = r
    BY <1>1, NoneAssumption DEF CallInv, Call
<1>3. /\ call[r].op = "send" =>
            /\ messages'[r] \in MessageRow
            /\ messages'[r].sender = call[r].user
            /\ messages'[r].recipient = call[r].peer
            /\ messages'[r].created = call[r].created
            /\ messages'[r].status = Sent
      /\ call[r].op = "delete" => messages'[call[r].msg] = None
      /\ \A m \in Requests :
            /\ messages[m] = None =>
                  messages'[m] = None \/ (call[r].op = "send" /\ m = r)
            /\ messages[m] # None =>
                  \/ messages'[m] # None /\ Keeps(r, m)
                  \/ call[r].op = "send" /\ m = r
                  \/ call[r].op = "delete" /\ call[r].msg = m /\ messages'[m] = None
    BY <1>1, WriteEffect DEF Writes
<1>4. /\ \A q \in Requests : Committed(q)' <=> (Committed(q) \/ q = r)
      /\ ~Committed(r) /\ ~Stored(r)
      /\ \A q \in Requests : SentInv(q) => SentInv(q)' /\ q # r
    <2>1. \A q \in Requests : Committed(q)' <=> (Committed(q) \/ q = r)
        BY <1>1 DEF Committed
    <2>2. ~Committed(r)
        BY <1>1 DEF Committed
    <2>. QED
        BY <1>1, <2>1, <2>2 DEF SentInv, RowInv
<1>5. CallInv'
    BY <1>1 DEF CallInv
<1>6. AboutInv'
    <2>1. \A q \in Requests : pc[q] # "new" => call[q].msg \in Requests
        BY DEF CallInv, Call
    <2>. QED
        BY <1>1, <1>4, <2>1 DEF AboutInv
<1>7. RowInv'
    <2>. SUFFICES ASSUME NEW m \in Requests, Stored(m)'
                  PROVE  /\ SentInv(m)'
                         /\ messages'[m].sender = call[m].user
                         /\ messages'[m].recipient = call[m].peer
                         /\ messages'[m].created = call[m].created
        BY <1>1 DEF RowInv
    <2>1. CASE call[r].op = "send" /\ m = r
        BY <1>1, <1>3, <1>4, <2>1 DEF SentInv
    <2>2. CASE ~(call[r].op = "send" /\ m = r)
        <3>1. Stored(m) /\ Keeps(r, m)
            BY <1>3, <2>2 DEF Stored
        <3>. QED
            BY <1>4, <3>1 DEF RowInv, Keeps
    <2>. QED
        BY <2>1, <2>2
<1>8. WrittenInv'
    <2>1. \A m, d \in Requests : DeletedBy(m, d) => DeletedBy(m, d)'
        BY <1>1, <1>4 DEF DeletedBy
    <2>2. ASSUME NEW q \in Requests, Committed(q)', call[q].op = "send"
          PROVE  Stored(q)' \/ \E d \in Requests : DeletedBy(q, d)'
        <3>1. CASE q = r
            BY <1>2, <1>3, <2>2, <3>1 DEF Stored
        <3>2. CASE q # r /\ ~Stored(q)
            BY <1>4, <2>1, <2>2, <3>2 DEF WrittenInv
        <3>3. CASE q # r /\ Stored(q)
            <4>1. CASE messages'[q] = None
                <5>1. call[r].op = "delete" /\ call[r].msg = q
                    BY <1>3, <3>3, <4>1 DEF Stored
                <5>2. DeletedBy(q, r)'
                    BY <1>1, <1>4, <5>1 DEF DeletedBy
                <5>. QED
                    BY <5>2
            <4>2. CASE messages'[q] # None
                BY <4>2 DEF Stored
            <4>. QED
                BY <4>1, <4>2
        <3>. QED
            BY <3>1, <3>2, <3>3
    <2>3. ASSUME NEW q \in Requests, Committed(q)', call[q].op = "delete"
          PROVE  ~Stored(call[q].msg)'
        <3>1. call[q] \in Call /\ call[q].msg \in Requests /\ pc[q] # "new"
            BY <1>1, <1>4, <2>3 DEF CallInv, Call, Committed
        <3>2. call[q].msg # r \/ call[r].op # "send"
            BY <1>4, <2>3, <3>1 DEF AboutInv
        <3>3. CASE q = r
            BY <1>1, <1>3, <2>3, <3>3 DEF Stored
        <3>4. CASE q # r
            <4>1. ~Stored(call[q].msg)
                BY <1>4, <2>3, <3>4 DEF WrittenInv
            <4>. QED
                BY <1>1, <1>3, <3>1, <3>2, <4>1 DEF Stored
        <3>. QED
            BY <3>3, <3>4
    <2>. QED
        BY <1>1, <2>2, <2>3 DEF WrittenInv
<1>9. ReadIsJustified'
    <2>. SUFFICES ASSUME NEW m \in Requests, Stored(m)', messages'[m].status = Read
                  PROVE  \E q \in Requests :
                            /\ call[q] # None /\ call[q].op = "read" /\ Committed(q)'
                            /\ call[q].user = messages'[m].recipient
                            /\ call[call[q].msg].created >= messages'[m].created
                            /\ {call[call[q].msg].user, call[call[q].msg].peer}
                                  = {messages'[m].sender, messages'[m].recipient}
        BY <1>1 DEF ReadIsJustified
    <2>1. Stored(m) /\ Keeps(r, m)
        BY <1>3 DEF Stored, Sent, Read
    <2>2. CASE messages[m].status = Read
        BY <1>4, <2>1, <2>2 DEF ReadIsJustified, Keeps
    <2>3. CASE call[r].op = "read" /\ MarkedRead(call[r], m)
        <3>. DEFINE last == call[r].msg
        <3>1. /\ Stored(last) /\ last \in Requests
              /\ {messages[m].sender, messages[m].recipient}
                    = {messages[last].sender, messages[last].recipient}
              /\ messages[m].recipient = call[r].user
              /\ messages[m].created <= messages[last].created
            BY <1>2, <2>3 DEF MarkedRead
        <3>2. /\ messages[last].sender = call[last].user
              /\ messages[last].recipient = call[last].peer
              /\ messages[last].created = call[last].created
            BY <3>1 DEF RowInv
        <3>3. messages[last] \in MessageRow /\ messages[m] \in MessageRow
            BY <2>1, <3>1 DEF TypeOK, Stored
        <3>4. messages[last].created \in Nat /\ messages[m].created \in Nat
            BY <3>3 DEF MessageRow
        <3>5. call[last].created >= messages[m].created
            BY <3>1, <3>2, <3>4
        <3>6. call[r] # None /\ Committed(r)'
            BY <1>2, <1>4, NoneAssumption
        <3>. QED
            BY <2>1, <2>3, <3>1, <3>2, <3>5, <3>6 DEF Keeps
    <2>. QED
        BY <2>1, <2>2, <2>3 DEF Keeps
<1>. QED
    BY <1>5, <1>6, <1>7, <1>8, <1>9

LEMMA NextMessages ==
    ASSUME TypeOK, CallInv, AboutInv, RowInv, WrittenInv, ReadIsJustified, [Next]_vars
    PROVE  CallInv' /\ AboutInv' /\ RowInv' /\ WrittenInv' /\ ReadIsJustified'
<1>1. ASSUME Elsewhere
      PROVE  CallInv' /\ AboutInv' /\ RowInv' /\ WrittenInv' /\ ReadIsJustified'
    <2>1. /\ messages' = messages /\ call' = call
          /\ \A r \in Requests :
                /\ pc'[r] = "new" <=> pc[r] = "new"
                /\ Committed(r)' <=> Committed(r)
                /\ Stored(r)' <=> Stored(r)
        BY <1>1 DEF Elsewhere, store, Stored
    <2>2. \A m \in Requests : SentInv(m)' <=> SentInv(m)
        BY <2>1 DEF SentInv
    <2>3. \A m, d \in Requests : DeletedBy(m, d)' <=> DeletedBy(m, d)
        BY <2>1 DEF DeletedBy
    <2>4. \A q \in Requests : pc[q] # "new" => call[q].msg \in Requests
        BY DEF CallInv, Call
    <2>5. \A q \in Requests : Committed(q) => pc[q] # "new"
        BY DEF Committed
    <2>6. CallInv'
        BY <2>1 DEF CallInv
    <2>7. AboutInv'
        BY <2>1, <2>2, <2>4 DEF AboutInv
    <2>8. RowInv'
        BY <2>1, <2>2 DEF RowInv
    <2>9. WrittenInv'
        BY <2>1, <2>3, <2>4, <2>5 DEF WrittenInv
    <2>10. ReadIsJustified'
        BY <2>1 DEF ReadIsJustified
    <2>. QED
        BY <2>6, <2>7, <2>8, <2>9, <2>10
<1>. QED
    BY <1>1, NextCases, BeginMessages, WriteMessages

-----------------------------------------------------------------------------
(* What the steps do to the outbox and the topic.                          *)

\* The last statement on e, and what it makes of the row.
FinishStep(e) == MarkEventFailed(e) \/ MarkEventProcessed(e) \/ IncrementRetryCount(e)

LEMMA CurrentOne ==
    ASSUME TypeOK, OutboxInv, NEW e \in batch, NEW f \in batch, Current(e), Current(f)
    PROVE  e = f
<1>1. e \in BatchEntry /\ f \in BatchEntry
    BY DEF TypeOK
<1>2. /\ e.row \in Requests /\ outbox[e.row] \in OutboxRow
      /\ f.row \in Requests /\ outbox[f.row] \in OutboxRow
    BY NoneAssumption DEF TypeOK, OutboxInv, Pending
<1>3. outbox[e.row].at = outbox[f.row].at
    BY <1>2 DEF Current, OutboxRow
<1>4. e.row = f.row
    BY <1>2, <1>3, NoneAssumption DEF OutboxInv
<1>. QED
    BY <1>1, <1>4 DEF OutboxInv, BatchEntry

LEMMA FinishEffect ==
    ASSUME TypeOK, OutboxInv, WorkerInv, OutboxOutcome, NEW e \in batch, FinishStep(e)
    PROVE  /\ e.row \in Requests /\ outbox[e.row] \in OutboxRow /\ e.row \in Pending
           /\ \E row \in OutboxRow :
                 /\ \/ outbox' = [outbox EXCEPT ![e.row] = row] /\ dbErrors' = dbErrors
                    \/ outbox' = outbox /\ dbErrors' = dbErrors + 1
                 /\ row.at = outbox[e.row].at
                 /\ row.retry <= MaxRetries
                 /\ row.status = "failed" => row.retry = MaxRetries
                 /\ row.status = "completed" => Logged(e.row)
                 /\ wpc = "mark" => row.status = "completed"
                 /\ \/ row.retry = e.retry
                    \/ row.retry = e.retry + 1 /\ wpc = "retry" /\ Current(e)
           /\ batch' = batch \ {e}
           /\ wpc' = "publish"
           /\ UNCHANGED <<store, log, pc, call, clock, kafkaErrors, crashes>>
<1>. DEFINE old == outbox[e.row]
<1>1. /\ e \in BatchEntry /\ e.row \in Requests /\ e.row \in Pending
      /\ old \in OutboxRow /\ old.retry = e.retry /\ old.status = "pending"
    BY NoneAssumption DEF TypeOK, OutboxInv, Pending, BatchEntry
<1>2. old.retry \in Nat /\ old.retry <= MaxRetries /\ MaxRetries \in Nat
    BY <1>1, NoneAssumption, MaxRetriesAssumption DEF OutboxOutcome, OutboxRow
<1>3. wpc # "publish" => e.retry < MaxRetries /\ (wpc = "mark" => Logged(e.row))
    <2>. SUFFICES ASSUME wpc # "publish"
                  PROVE  e.retry < MaxRetries /\ (wpc = "mark" => Logged(e.row))
        OBVIOUS
    <2>1. PICK f \in batch :
              Current(f) /\ f.retry < MaxRetries /\ (wpc = "mark" => Logged(f.row))
        BY DEF WorkerInv
    <2>2. Current(e)
        BY DEF FinishStep, MarkEventFailed, MarkEventProcessed, IncrementRetryCount
    <2>. QED
        BY <2>1, <2>2, CurrentOne
<1>4. CASE MarkEventFailed(e)
    <2>. DEFINE row == [old EXCEPT !.status = "failed"]
    <2>1. /\ row \in OutboxRow /\ row.at = old.at /\ row.retry = old.retry
          /\ row.status = "failed"
        BY <1>1 DEF OutboxRow
    <2>2. old.retry = MaxRetries
        BY <1>1, <1>2, <1>4 DEF MarkEventFailed
    <2>3. Finish(e, row) /\ wpc = "publish"
        BY <1>4 DEF MarkEventFailed
    <2>. HIDE DEF row
    <2>. QED
        BY <1>1, <1>2, <1>4, <2>1, <2>2, <2>3 DEF Finish
<1>5. CASE MarkEventProcessed(e)
    <2>. DEFINE row == [old EXCEPT !.status = "completed"]
    <2>1. /\ row \in OutboxRow /\ row.at = old.at /\ row.retry = old.retry
          /\ row.status = "completed"
        BY <1>1 DEF OutboxRow
    <2>2. Finish(e, row) /\ Logged(e.row)
        BY <1>3, <1>5 DEF MarkEventProcessed
    <2>. HIDE DEF row
    <2>. QED
        BY <1>1, <1>2, <1>5, <2>1, <2>2 DEF Finish
<1>6. CASE IncrementRetryCount(e)
    <2>. DEFINE row == [old EXCEPT !.retry = @ + 1]
    <2>1. /\ row \in OutboxRow /\ row.at = old.at /\ row.retry = old.retry + 1
          /\ row.status = "pending"
        BY <1>1, <1>2 DEF OutboxRow
    <2>2. Finish(e, row) /\ old.retry < MaxRetries /\ wpc = "retry" /\ Current(e)
        BY <1>1, <1>3, <1>6 DEF IncrementRetryCount
    <2>. HIDE DEF row
    <2>. QED
        BY <1>1, <1>2, <1>6, <2>1, <2>2 DEF Finish
<1>. QED
    BY <1>4, <1>5, <1>6 DEF FinishStep

\* Append adds one event, and an error of the producer one or none.
LEMMA PublishEffect ==
    ASSUME TypeOK, NEW r \in Requests, PublishOK(r) \/ PublishError(r)
    PROVE  /\ log' \in Seq(Requests) /\ kafkaErrors' \in Nat
           /\ \/ log' = Append(log, r) /\ kafkaErrors' \in {kafkaErrors, kafkaErrors + 1}
              \/ log' = log /\ kafkaErrors' = kafkaErrors + 1
BY DEF TypeOK, PublishOK, PublishError

LEMMA NextTyped ==
    ASSUME TypeOK, CallInv, RowInv, EventInv, OutboxInv, WorkerInv, OutboxOutcome, [Next]_vars
    PROVE  TypeOK'
<1>. USE DEF TypeOK, store, worker, faults
<1>1. ASSUME NEW r \in Requests, BeginStep(r) PROVE TypeOK'
    <2>1. PICK c \in Call :
              /\ pc' = [pc EXCEPT ![r] = "commit"]
              /\ call' = [call EXCEPT ![r] = c]
              /\ clock' \in {clock, clock + 1}
              /\ UNCHANGED <<store, outbox, log, worker, faults>>
        BY <1>1, BeginEffect
    <2>. QED
        BY <2>1 DEF Steps
<1>2. ASSUME NEW r \in Requests, Writes(r) PROVE TypeOK'
    <2>1. /\ messages' \in [Requests -> MessageRow \cup {None}]
          /\ chats' \subseteq Users \X Users
        BY <1>2, WriteEffect DEF Writes
    <2>2. pc' \in [Requests -> Steps] /\ dbErrors' \in Nat
        BY <1>2 DEF Writes, Steps
    <2>. QED
        BY <1>2, <2>1, <2>2 DEF Writes
<1>3. ASSUME NEW r \in Requests, CommitFails(r) PROVE TypeOK' \/ Writes(r)
    BY <1>3 DEF CommitFails, Writes, Steps
<1>4. ASSUME NEW r \in Requests, Publish(r) PROVE TypeOK'
    <2>1. log' \in Seq(Requests) /\ kafkaErrors' \in Nat
        BY <1>4, PublishEffect DEF Publish
    <2>2. pc' \in [Requests -> Steps]
        BY <1>4 DEF Publish, Steps
    <2>. QED
        BY <1>4, <2>1, <2>2 DEF Publish
<1>5. ASSUME NEW r \in Requests, SaveToOutbox(r) PROVE TypeOK'
    BY <1>5 DEF SaveToOutbox, OutboxRow, Steps
<1>6. CASE Poll
    <2>1. PICK rows \in SUBSET Pending :
              batch' = {[row |-> r, retry |-> outbox[r].retry] : r \in rows}
        BY <1>6 DEF Poll
    <2>2. \A r \in Pending : r \in Requests /\ outbox[r].retry \in Nat
        BY NoneAssumption DEF Pending, OutboxRow
    <2>3. batch' \subseteq BatchEntry
        BY <2>1, <2>2 DEF BatchEntry
    <2>. QED
        BY <1>6, <2>3 DEF Poll
<1>7. ASSUME NEW e \in batch, PublishEvent(e) PROVE TypeOK'
    <2>1. e.row \in Requests
        BY DEF BatchEntry
    <2>2. log' \in Seq(Requests) /\ kafkaErrors' \in Nat
        BY <1>7, <2>1, PublishEffect DEF PublishEvent
    <2>. QED
        BY <1>7, <2>1, <2>2 DEF PublishEvent
<1>8. ASSUME NEW e \in batch, FinishStep(e) PROVE TypeOK'
    <2>1. PICK row \in OutboxRow :
              \/ outbox' = [outbox EXCEPT ![e.row] = row] /\ dbErrors' = dbErrors
              \/ outbox' = outbox /\ dbErrors' = dbErrors + 1
        BY <1>8, FinishEffect
    <2>. QED
        BY <1>8, <2>1, FinishEffect
<1>9. CASE Crash
    BY <1>9 DEF Crash, Steps
<1>10. CASE UNCHANGED vars
    BY <1>10 DEF vars
<1>11. ASSUME NEW r \in Requests, Commit(r) PROVE Writes(r)
    BY <1>11 DEF Commit, Writes
<1>. QED
    BY <1>1, <1>2, <1>3, <1>4, <1>5, <1>6, <1>7, <1>8, <1>9, <1>10, <1>11
       DEF Next, BeginStep, Handler, Worker, ProcessEvent, FinishStep

-----------------------------------------------------------------------------
(* Events.                                                                 *)

\* Steps that touch neither the outbox nor the topic nor the worker.
Still(r) ==
    /\ UNCHANGED <<outbox, log, batch, wpc>>
    /\ pc[r] \in {"new", "commit"}
    /\ pc'[r] \notin {"save", "done"}
    /\ \A q \in Requests \ {r} : pc'[q] = pc[q]
    /\ clock' \in {clock, clock + 1}
    /\ kafkaErrors' = kafkaErrors /\ crashes' = crashes
    /\ dbErrors' \in {dbErrors, dbErrors + 1}

LEMMA StillSteps ==
    ASSUME TypeOK, NEW r \in Requests, BeginStep(r) \/ Commit(r) \/ CommitFails(r)
    PROVE  Still(r)
<1>1. CASE BeginStep(r)
    BY <1>1, BeginEffect DEF Still, TypeOK, worker, faults
<1>2. CASE Commit(r) \/ CommitFails(r)
    BY <1>2 DEF Commit, CommitFails, Still, TypeOK, worker, faults
<1>. QED
    BY <1>1, <1>2

LEMMA EventCases ==
    ASSUME TypeOK, [Next]_vars
    PROVE  \/ \E r \in Requests : Still(r)
           \/ \E r \in Requests : Publish(r) \/ SaveToOutbox(r)
           \/ Poll
           \/ \E e \in batch : PublishEvent(e) \/ FinishStep(e)
           \/ Crash
           \/ UNCHANGED vars
BY StillSteps DEF Next, BeginStep, Handler, Worker, ProcessEvent, FinishStep

LEMMA LoggedGrows ==
    ASSUME TypeOK, NEW s \in Requests, log' = Append(log, s)
    PROVE  \A r \in Requests : Logged(r)' <=> Logged(r) \/ r = s
<1>1. log \in Seq(Requests)
    BY DEF TypeOK
<1>2. /\ Len(log') = Len(log) + 1 /\ log'[Len(log) + 1] = s
      /\ \A i \in 1..Len(log) : log'[i] = log[i]
    BY <1>1
<1>. QED
    BY <1>1, <1>2 DEF Logged

LEMMA NextEvents ==
    ASSUME TypeOK, EventInv, DoneIsAccounted, OutboxInv, WorkerInv, OutboxOutcome,
           [Next]_vars
    PROVE  EventInv' /\ DoneIsAccounted'
<1>. USE DEF EventInv, DoneIsAccounted
<1>1. ASSUME NEW r \in Requests, Still(r) PROVE EventInv' /\ DoneIsAccounted'
    BY <1>1 DEF Still, Logged
<1>2. ASSUME NEW r \in Requests, Publish(r) PROVE EventInv' /\ DoneIsAccounted'
    <2>1. /\ pc[r] = "publish" /\ outbox' = outbox
          /\ \A q \in Requests \ {r} : pc'[q] = pc[q]
          /\ \/ PublishOK(r) /\ pc'[r] = "done"
             \/ PublishError(r) /\ pc'[r] = "save"
        BY <1>2 DEF Publish, TypeOK
    <2>2. CASE log' = Append(log, r)
        BY <2>1, <2>2, LoggedGrows
    <2>3. CASE log' = log /\ pc'[r] = "save"
        BY <2>1, <2>3 DEF Logged
    <2>. QED
        BY <2>1, <2>2, <2>3 DEF PublishOK, PublishError
<1>3. ASSUME NEW r \in Requests, SaveToOutbox(r) PROVE EventInv' /\ DoneIsAccounted'
    <2>1. /\ pc[r] = "save" /\ log' = log
          /\ \A q \in Requests \ {r} : pc'[q] = pc[q] /\ outbox'[q] = outbox[q]
          /\ \/ pc'[r] = "done" /\ outbox'[r] \in OutboxRow
             \/ pc'[r] = "lost" /\ outbox'[r] = outbox[r]
        BY <1>3 DEF SaveToOutbox, TypeOK, OutboxRow
    <2>. QED
        BY <2>1, NoneAssumption DEF Logged
<1>4. CASE Poll
    BY <1>4 DEF Poll, Logged
<1>5. ASSUME NEW e \in batch, PublishEvent(e) PROVE EventInv' /\ DoneIsAccounted'
    <2>1. e.row \in Requests /\ outbox[e.row] # None
        BY DEF OutboxInv, Pending
    <2>2. pc' = pc /\ outbox' = outbox /\ (PublishOK(e.row) \/ PublishError(e.row))
        BY <1>5 DEF PublishEvent
    <2>3. CASE log' = Append(log, e.row)
        BY <2>1, <2>2, <2>3, LoggedGrows
    <2>4. CASE log' = log
        BY <2>2, <2>4 DEF Logged
    <2>. QED
        BY <2>2, <2>3, <2>4 DEF PublishOK, PublishError
<1>6. ASSUME NEW e \in batch, FinishStep(e) PROVE EventInv' /\ DoneIsAccounted'
    <2>1. /\ pc' = pc /\ log' = log
          /\ e.row \in Requests /\ outbox[e.row] # None
          /\ \A r \in Requests : outbox'[r] # None <=> outbox[r] # None
        BY <1>6, FinishEffect, NoneAssumption DEF TypeOK
    <2>. QED
        BY <2>1 DEF Logged
<1>7. CASE Crash
    BY <1>7 DEF Crash, TypeOK, Logged
<1>8. CASE UNCHANGED vars
    BY <1>8 DEF vars, Logged
<1>. QED
    BY <1>1, <1>2, <1>3, <1>4, <1>5, <1>6, <1>7, <1>8, EventCases

\* Rows, batch and worker stay.
LEMMA OutboxKept ==
    ASSUME TypeOK, OutboxInv, WorkerInv, OutboxOutcome,
           UNCHANGED <<outbox, batch, wpc>>, clock' \in {clock, clock + 1},
           \A r \in Requests : Logged(r) => Logged(r)'
    PROVE  OutboxInv' /\ WorkerInv' /\ OutboxOutcome'
<1>1. \A r \in Requests : outbox[r] # None => outbox[r].at < clock'
    BY DEF OutboxInv, TypeOK, OutboxRow
<1>2. OutboxInv'
    BY <1>1 DEF OutboxInv, Pending
<1>3. WorkerInv'
    <2>1. \A e \in batch : e.row \in Requests /\ (Current(e)' <=> Current(e))
        BY DEF Current, OutboxInv, Pending
    <2>. QED
        BY <2>1 DEF WorkerInv
<1>4. OutboxOutcome'
    BY DEF OutboxOutcome
<1>. QED
    BY <1>2, <1>3, <1>4

LEMMA NextOutbox ==
    ASSUME TypeOK, EventInv, OutboxInv, WorkerInv, OutboxOutcome, [Next]_vars
    PROVE  OutboxInv' /\ WorkerInv' /\ OutboxOutcome'
<1>1. ASSUME NEW r \in Requests, Still(r) PROVE OutboxInv' /\ WorkerInv' /\ OutboxOutcome'
    BY <1>1, OutboxKept DEF Still, Logged
<1>2. ASSUME NEW r \in Requests, Publish(r) PROVE OutboxInv' /\ WorkerInv' /\ OutboxOutcome'
    <2>1. \A q \in Requests : Logged(q) => Logged(q)'
        <3>1. log' = log \/ log' = Append(log, r)
            BY <1>2 DEF Publish, PublishOK, PublishError
        <3>. QED
            BY <3>1, LoggedGrows DEF Logged
    <2>. QED
        BY <1>2, <2>1, OutboxKept DEF Publish, worker
<1>3. ASSUME NEW r \in Requests, SaveToOutbox(r)
      PROVE  OutboxInv' /\ WorkerInv' /\ OutboxOutcome'
    <2>1. CASE outbox' = outbox
        BY <1>3, <2>1, OutboxKept DEF SaveToOutbox, worker, Logged
    <2>2. CASE outbox' # outbox
        <3>. DEFINE row == [retry |-> 0, status |-> "pending", at |-> clock]
        <3>1. /\ outbox' = [outbox EXCEPT ![r] = row] /\ clock' = clock + 1
              /\ UNCHANGED <<batch, wpc, log>>
            BY <1>3, <2>2 DEF SaveToOutbox, worker
        <3>2. outbox[r] = None
            BY <1>3 DEF SaveToOutbox, EventInv
        <3>3. /\ outbox'[r] = row /\ row # None
              /\ \A q \in Requests \ {r} : outbox'[q] = outbox[q]
            BY <3>1, NoneAssumption DEF TypeOK, OutboxRow
        <3>4. /\ row.at = clock /\ row.retry = 0 /\ row.status = "pending"
            OBVIOUS
        <3>. HIDE DEF row
        <3>5. \A q \in Requests : outbox[q] # None => outbox[q].at < clock
                                                      /\ outbox[q].at \in Nat
            BY DEF OutboxInv, TypeOK, OutboxRow
        <3>6. \A e \in batch : e.row \in Requests /\ e.row # r
            BY <3>2 DEF OutboxInv, Pending
        <3>7. OutboxInv'
            <4>1. \A q \in Requests : outbox'[q] # None => outbox'[q].at < clock'
                BY <3>1, <3>3, <3>4, <3>5 DEF TypeOK
            <4>2. \A p, q \in Requests :
                      outbox'[p] # None /\ outbox'[q] # None /\ p # q
                          => outbox'[p].at # outbox'[q].at
                BY <3>3, <3>4, <3>5 DEF OutboxInv, TypeOK
            <4>3. \A e \in batch' : e.row \in Pending' /\ outbox'[e.row].retry = e.retry
                BY <3>1, <3>3, <3>6 DEF OutboxInv, Pending
            <4>. QED
                BY <4>1, <4>2, <4>3 DEF OutboxInv
        <3>8. WorkerInv'
            BY <3>1, <3>3, <3>6 DEF WorkerInv, Current, Logged
        <3>9. OutboxOutcome'
            BY <3>1, <3>3, <3>4, MaxRetriesAssumption DEF OutboxOutcome, Logged
        <3>. QED
            BY <3>7, <3>8, <3>9
    <2>. QED
        BY <2>1, <2>2
<1>4. CASE Poll
    <2>1. PICK rows \in SUBSET Pending :
              batch' = {[row |-> r, retry |-> outbox[r].retry] : r \in rows}
        BY <1>4 DEF Poll
    <2>2. batch = {} /\ UNCHANGED <<outbox, wpc, clock, log>>
        BY <1>4 DEF Poll
    <2>3. OutboxInv'
        BY <2>1, <2>2 DEF OutboxInv, Pending
    <2>4. WorkerInv'
        BY <2>2 DEF WorkerInv
    <2>5. OutboxOutcome'
        BY <2>2 DEF OutboxOutcome, Logged
    <2>. QED
        BY <2>3, <2>4, <2>5
<1>5. ASSUME NEW e \in batch, PublishEvent(e) PROVE OutboxInv' /\ WorkerInv' /\ OutboxOutcome'
    <2>1. /\ Current(e) /\ e.retry < MaxRetries
          /\ UNCHANGED <<outbox, batch, clock>>
          /\ \/ PublishOK(e.row) /\ wpc' = "mark"
             \/ PublishError(e.row) /\ wpc' = "retry"
        BY <1>5 DEF PublishEvent
    <2>2. e.row \in Requests
        BY DEF OutboxInv, Pending
    <2>3. log' = log \/ log' = Append(log, e.row)
        BY <2>1 DEF PublishOK, PublishError
    <2>4. \A q \in Requests : Logged(q) => Logged(q)'
        BY <2>2, <2>3, LoggedGrows DEF Logged
    <2>5. OutboxInv' /\ OutboxOutcome'
        BY <2>1, <2>4 DEF OutboxInv, OutboxOutcome, Pending
    <2>6. Current(e)' /\ e \in batch'
        BY <2>1 DEF Current
    <2>7. wpc' = "mark" => Logged(e.row)'
        BY <2>1, <2>2, LoggedGrows DEF PublishOK
    <2>. QED
        BY <2>1, <2>5, <2>6, <2>7 DEF WorkerInv
<1>6. ASSUME NEW e \in batch, FinishStep(e) PROVE OutboxInv' /\ WorkerInv' /\ OutboxOutcome'
    <2>1. PICK row \in OutboxRow :
              /\ outbox' = [outbox EXCEPT ![e.row] = row] \/ outbox' = outbox
              /\ row.at = outbox[e.row].at
              /\ row.retry <= MaxRetries
              /\ row.status = "failed" => row.retry = MaxRetries
              /\ row.status = "completed" => Logged(e.row)
        BY <1>6, FinishEffect
    <2>2. /\ e.row \in Requests /\ outbox[e.row] \in OutboxRow
          /\ batch' = batch \ {e} /\ wpc' = "publish" /\ UNCHANGED <<log, clock>>
        BY <1>6, FinishEffect
    <2>3. /\ \A q \in Requests \ {e.row} : outbox'[q] = outbox[q]
          /\ outbox'[e.row] \in {row, outbox[e.row]}
          /\ outbox'[e.row] # None /\ outbox[e.row] # None
        BY <2>1, <2>2, NoneAssumption DEF TypeOK
    <2>4. \A f \in batch' : f.row \in Requests /\ f.row # e.row
        <3>1. \A f \in batch : f \in BatchEntry /\ f.row \in Requests
            BY DEF TypeOK, BatchEntry
        <3>2. \A f \in batch : f.row = e.row => f = e
            BY <3>1 DEF OutboxInv, BatchEntry
        <3>. QED
            BY <2>2, <3>1, <3>2
    <2>5. OutboxInv'
        <3>1. \A q \in Requests : outbox'[q] # None =>
                  outbox[q] # None /\ outbox'[q].at = outbox[q].at
            BY <2>1, <2>2, <2>3
        <3>2. \A f \in batch' : f.row \in Pending' /\ outbox'[f.row].retry = f.retry
            BY <2>2, <2>3, <2>4 DEF OutboxInv, Pending
        <3>. QED
            BY <2>2, <3>1, <3>2 DEF OutboxInv
    <2>6. WorkerInv'
        BY <2>2 DEF WorkerInv
    <2>7. OutboxOutcome'
        BY <2>1, <2>2, <2>3 DEF OutboxOutcome, Logged
    <2>. QED
        BY <2>5, <2>6, <2>7
<1>7. CASE Crash
    BY <1>7 DEF Crash, OutboxInv, WorkerInv, OutboxOutcome, Logged, Pending
<1>8. CASE UNCHANGED vars
    BY <1>8, OutboxKept DEF vars, Logged
<1>. QED
    BY <1>1, <1>2, <1>3, <1>4, <1>5, <1>6, <1>7, <1>8, EventCases

-----------------------------------------------------------------------------
(* Copies.                                                                 *)

LEMMA CopiesNat ==
    ASSUME TypeOK
    PROVE  \A r \in Requests : Copies(r) \in Nat
<1>. TAKE r \in Requests
<1>1. Len(log) \in Nat
    BY DEF TypeOK
<1>2. IsFiniteSet(1..Len(log))
    BY <1>1, FS_Interval
<1>3. IsFiniteSet({i \in 1..Len(log) : log[i] = r})
    BY <1>2, FS_Subset
<1>. QED
    BY <1>3, FS_CardinalityType DEF Copies

LEMMA CopiesGrow ==
    ASSUME TypeOK, NEW s \in Requests, log' = Append(log, s)
    PROVE  \A r \in Requests :
              Copies(r)' = IF r = s THEN Copies(r) + 1 ELSE Copies(r)
<1>. TAKE r \in Requests
<1>. DEFINE old == {i \in 1..Len(log) : log[i] = r}
            new == {i \in 1..Len(log') : log'[i] = r}
<1>1. log \in Seq(Requests) /\ Len(log) \in Nat
    BY DEF TypeOK
<1>2. /\ Len(log') = Len(log) + 1 /\ log'[Len(log) + 1] = s
      /\ \A i \in 1..Len(log) : log'[i] = log[i]
    BY <1>1
<1>3. IsFiniteSet(old)
    <2>1. IsFiniteSet(1..Len(log))
        BY <1>1, FS_Interval
    <2>. QED
        BY <2>1, FS_Subset
<1>4. CASE r = s
    <2>1. new = old \cup {Len(log) + 1}
        BY <1>1, <1>2, <1>4
    <2>2. Len(log) + 1 \notin old
        BY <1>1
    <2>3. Cardinality(old \cup {Len(log) + 1}) = Cardinality(old) + 1
        BY <1>3, <2>2, FS_AddElement
    <2>. QED
        BY <1>4, <2>1, <2>3 DEF Copies
<1>5. CASE r # s
    <2>1. new = old
        BY <1>1, <1>2, <1>5
    <2>. QED
        BY <1>5, <2>1 DEF Copies
<1>. QED
    BY <1>4, <1>5

LEMMA NoCopies ==
    ASSUME TypeOK, NEW r \in Requests, ~Logged(r)
    PROVE  Copies(r) = 0
<1>1. {i \in 1..Len(log) : log[i] = r} = {}
    BY DEF Logged
<1>. QED
    BY <1>1, FS_EmptySet DEF Copies

LEMMA NextCopies ==
    ASSUME TypeOK, EventInv, OutboxInv, WorkerInv, OutboxOutcome, CopiesInv, [Next]_vars
    PROVE  CopiesInv'
<1>1. /\ kafkaErrors \in Nat /\ dbErrors \in Nat /\ crashes \in Nat
      /\ \A r \in Requests : Copies(r) \in Nat
    BY CopiesNat DEF TypeOK
<1>2. \A r \in Requests : log' = log => Copies(r)' = Copies(r)
    BY DEF Copies
<1>3. ASSUME UNCHANGED <<outbox, batch, wpc>>
      PROVE  /\ \A r \in Requests : AtMark(r)' <=> AtMark(r)
             /\ Pending' = Pending
    BY <1>3 DEF AtMark, Current, Pending
<1>4. ASSUME NEW r \in Requests, Still(r) PROVE CopiesInv'
    <2>1. /\ log' = log /\ kafkaErrors' = kafkaErrors /\ crashes' = crashes
          /\ dbErrors' = dbErrors \/ dbErrors' = dbErrors + 1
        BY <1>4 DEF Still
    <2>2. Faults \in Nat /\ Faults' \in Nat /\ Faults <= Faults'
        BY <1>1, <2>1 DEF Faults
    <2>. QED
        BY <1>1, <1>2, <1>3, <1>4, <2>1, <2>2 DEF Still, CopiesInv
<1>5. ASSUME NEW r \in Requests, Publish(r) PROVE CopiesInv'
    <2>1. /\ pc[r] = "publish" /\ UNCHANGED <<outbox, batch, wpc, dbErrors, crashes>>
          /\ \A q \in Requests \ {r} : pc'[q] = pc[q]
          /\ \/ PublishOK(r) /\ pc'[r] = "done"
             \/ PublishError(r) /\ pc'[r] = "save"
        BY <1>5 DEF Publish, TypeOK, worker
    <2>2. Copies(r) = 0 /\ r \notin Pending
        BY <2>1, NoCopies DEF EventInv, Pending
    <2>3. /\ Copies(r)' <= 1 /\ Copies(r)' \in Nat
          /\ \A q \in Requests \ {r} : Copies(q)' = Copies(q)
        <3>1. log' = log \/ log' = Append(log, r)
            BY <2>1 DEF PublishOK, PublishError
        <3>. QED
            BY <1>1, <1>2, <2>2, <3>1, CopiesGrow
    <2>4. /\ Faults \in Nat /\ Faults' \in Nat /\ Faults <= Faults'
          /\ pc'[r] = "save" => Faults' >= 1
        BY <1>1, <2>1 DEF PublishOK, PublishError, Faults
    <2>. QED
        BY <1>1, <1>3, <2>1, <2>2, <2>3, <2>4 DEF CopiesInv
<1>6. ASSUME NEW r \in Requests, SaveToOutbox(r) PROVE CopiesInv'
    <2>1. /\ pc[r] = "save" /\ UNCHANGED <<log, batch, wpc, kafkaErrors, crashes>>
          /\ \A q \in Requests \ {r} : pc'[q] = pc[q] /\ outbox'[q] = outbox[q]
          /\ pc'[r] \in {"done", "lost"}
          /\ dbErrors' = dbErrors \/ dbErrors' = dbErrors + 1
        BY <1>6 DEF SaveToOutbox, TypeOK, worker
    <2>2. Copies(r) <= Faults /\ outbox[r] = None
        BY <2>1 DEF CopiesInv, EventInv
    <2>3. Faults \in Nat /\ Faults' \in Nat /\ Faults <= Faults'
        BY <1>1, <2>1 DEF Faults
    <2>4. \A q \in Requests \ {r} : (AtMark(q)' <=> AtMark(q)) /\ (q \in Pending' <=> q \in Pending)
        <3>1. \A e \in batch : e.row \in Requests \ {r}
            BY <2>2 DEF OutboxInv, Pending
        <3>2. \A e \in batch : Current(e)' <=> Current(e)
            BY <2>1, <3>1 DEF Current
        <3>. QED
            BY <2>1, <3>2 DEF AtMark, Pending
    <2>. QED
        BY <1>1, <1>2, <2>1, <2>2, <2>3, <2>4 DEF CopiesInv
<1>7. CASE Poll
    <2>1. batch = {} /\ UNCHANGED <<outbox, log, pc, faults>>
        BY <1>7 DEF Poll
    <2>2. \A r \in Requests : ~AtMark(r)
        BY <2>1 DEF AtMark
    <2>. QED
        BY <1>2, <2>1, <2>2 DEF CopiesInv, Faults, faults, Pending
<1>8. ASSUME NEW e \in batch, PublishEvent(e) PROVE CopiesInv'
    <2>1. /\ Current(e) /\ wpc = "publish" /\ UNCHANGED <<outbox, pc, batch, dbErrors, crashes>>
          /\ \/ PublishOK(e.row) /\ wpc' = "mark"
             \/ PublishError(e.row) /\ wpc' = "retry"
        BY <1>8 DEF PublishEvent
    <2>2. e.row \in Requests /\ e.row \in Pending /\ pc[e.row] = "done"
        BY DEF OutboxInv, Pending, EventInv
    <2>3. \A q \in Requests : ~AtMark(q)
        BY <2>1 DEF AtMark
    <2>4. Faults \in Nat /\ Faults' \in Nat /\ Faults <= Faults'
        BY <1>1, <2>1 DEF Faults, PublishOK, PublishError
    <2>5. \A q \in Requests \ {e.row} : Copies(q)' = Copies(q)
        BY <1>2, <2>1, <2>2, CopiesGrow DEF PublishOK, PublishError
    <2>6. Copies(e.row) <= Faults
        BY <2>2, <2>3 DEF CopiesInv
    <2>7. CASE PublishOK(e.row) /\ wpc' = "mark"
        <3>1. Copies(e.row)' = Copies(e.row) + 1
            BY <2>2, <2>7, CopiesGrow DEF PublishOK
        <3>2. AtMark(e.row)'
            BY <2>1, <2>7 DEF AtMark, Current
        <3>. QED
            BY <1>1, <2>1, <2>2, <2>3, <2>4, <2>5, <2>6, <3>1, <3>2 DEF CopiesInv, Pending
    <2>8. CASE PublishError(e.row)
        <3>1. Copies(e.row)' \in Nat /\ Copies(e.row)' <= Copies(e.row) + 1
            BY <1>1, <1>2, <2>2, <2>8, CopiesGrow DEF PublishError
        <3>2. Faults' = Faults + 1
            BY <1>1, <2>1, <2>8 DEF Faults, PublishError
        <3>3. Copies(e.row)' <= Faults'
            BY <1>1, <2>2, <2>4, <2>6, <3>1, <3>2
        <3>. QED
            BY <1>1, <2>1, <2>2, <2>3, <2>4, <2>5, <3>1, <3>3 DEF CopiesInv, Pending
    <2>. QED
        BY <2>1, <2>7, <2>8
<1>9. ASSUME NEW e \in batch, FinishStep(e) PROVE CopiesInv'
    <2>1. /\ e.row \in Requests /\ e.row \in Pending /\ outbox \in [Requests -> OutboxRow \cup {None}]
          /\ UNCHANGED <<log, pc, kafkaErrors, crashes>>
        BY <1>9, FinishEffect DEF TypeOK
    <2>2. PICK row \in OutboxRow :
              /\ \/ outbox' = [outbox EXCEPT ![e.row] = row] /\ dbErrors' = dbErrors
                 \/ outbox' = outbox /\ dbErrors' = dbErrors + 1
              /\ wpc = "mark" => row.status = "completed"
        BY <1>9, FinishEffect
    <2>3. Faults \in Nat /\ Faults' \in Nat /\ Faults <= Faults'
        BY <1>1, <2>1, <2>2 DEF Faults
    <2>4. \A q \in Requests \ {e.row} : ~AtMark(q)
        <3>1. Current(e)
            BY <1>9 DEF FinishStep, MarkEventFailed, MarkEventProcessed, IncrementRetryCount
        <3>. QED
            BY <3>1, CurrentOne DEF AtMark
    <2>5. \A q \in Requests \ {e.row} : q \in Pending' => q \in Pending
        BY <2>1, <2>2 DEF Pending
    <2>6. e.row \in Pending' => Copies(e.row) <= Faults'
        <3>1. CASE wpc # "mark"
            BY <1>1, <2>1, <2>3, <3>1 DEF CopiesInv, AtMark
        <3>2. CASE wpc = "mark" /\ outbox' = [outbox EXCEPT ![e.row] = row]
            <4>1. outbox'[e.row].status = "completed"
                BY <2>1, <2>2, <3>2
            <4>. QED
                BY <4>1 DEF Pending
        <3>3. CASE outbox' = outbox /\ dbErrors' = dbErrors + 1
            <4>1. Faults' = Faults + 1
                BY <1>1, <2>1, <3>3 DEF Faults
            <4>. QED
                BY <1>1, <2>1, <2>3, <4>1 DEF CopiesInv
        <3>. QED
            BY <2>2, <3>1, <3>2, <3>3
    <2>7. ASSUME NEW r \in Requests
          PROVE  /\ Copies(r)' <= 1 + Faults'
                 /\ r \in Pending' /\ ~AtMark(r)' => Copies(r)' <= Faults'
                 /\ pc'[r] = "save" => Copies(r)' <= Faults'
        <3>1. Copies(r)' = Copies(r) /\ pc'[r] = pc[r]
            BY <1>2, <2>1
        <3>2. r \in Pending' => Copies(r) <= Faults'
            BY <1>1, <2>3, <2>4, <2>5, <2>6 DEF CopiesInv
        <3>. QED
            BY <1>1, <2>3, <3>1, <3>2 DEF CopiesInv
    <2>. QED
        BY <2>7 DEF CopiesInv
<1>10. CASE Crash
    <2>1. log' = log /\ Faults' = Faults + 1 /\ Faults \in Nat
        BY <1>1, <1>10 DEF Crash, Faults
    <2>. QED
        BY <1>1, <1>2, <2>1 DEF CopiesInv
<1>11. CASE UNCHANGED vars
    BY <1>2, <1>3, <1>11 DEF vars, CopiesInv, Faults
<1>. QED
    BY <1>4, <1>5, <1>6, <1>7, <1>8, <1>9, <1>10, <1>11, EventCases

-----------------------------------------------------------------------------
(* Theorems.                                                               *)

LEMMA InitInv ==
    ASSUME Init
    PROVE  IInv
<1>1. TypeOK
    BY DEF Init, TypeOK, Steps
<1>2. \A r \in Requests : ~Logged(r) /\ ~Committed(r) /\ ~Stored(r)
    BY DEF Init, Logged, Committed, Stored
<1>3. CallInv /\ AboutInv /\ RowInv /\ WrittenInv /\ ReadIsJustified
    BY <1>2 DEF Init, CallInv, AboutInv, RowInv, WrittenInv, ReadIsJustified
<1>4. EventInv /\ DoneIsAccounted /\ OutboxInv /\ WorkerInv /\ OutboxOutcome
    BY <1>2 DEF Init, EventInv, DoneIsAccounted, OutboxInv, WorkerInv, OutboxOutcome
<1>5. CopiesInv
    <2>1. \A r \in Requests : Copies(r) = 0
        BY <1>1, <1>2, NoCopies
    <2>. QED
        BY <2>1 DEF Init, CopiesInv, Faults
<1>. QED
    BY <1>1, <1>3, <1>4, <1>5 DEF IInv

LEMMA NextInv ==
    ASSUME IInv, [Next]_vars
    PROVE  IInv'
BY NextTyped, NextMessages, NextEvents, NextOutbox, NextCopies DEF IInv

LEMMA Inductive == Spec => []IInv
BY InitInv, NextInv, PTL DEF Spec

\* Every variable keeps its type, for any users, requests and retries, and any
\* number of faults.
THEOREM TypeCorrect == Spec => []TypeOK
<1>1. IInv => TypeOK
    BY DEF IInv
<1>. QED
    BY Inductive, <1>1, PTL

\* What is in the topic was written before: a message whose "sent" is there is
\* stored or its deletion was committed, and one whose "deleted" is there is gone.
THEOREM LogFollows == Spec => []LogFollowsCommit
<1>1. ASSUME IInv PROVE LogFollowsCommit
    <2>. SUFFICES ASSUME NEW r \in Requests, Logged(r)
                  PROVE  /\ call[r].op = "send" =>
                               \/ Stored(r)
                               \/ \E d \in Requests :
                                     /\ call[d] # None /\ call[d].op = "delete"
                                     /\ call[d].msg = r /\ Committed(d)
                         /\ call[r].op = "delete" => ~Stored(call[r].msg)
        BY DEF LogFollowsCommit
    <2>1. Committed(r)
        BY <1>1 DEF IInv, EventInv, Committed
    <2>2. \A d \in Requests : DeletedBy(r, d) => call[d] # None
        BY <1>1, NoneAssumption DEF IInv, CallInv, DeletedBy
    <2>. QED
        BY <1>1, <2>1, <2>2 DEF IInv, WrittenInv, DeletedBy
<1>. QED
    BY Inductive, <1>1, PTL

\* A handler that returned success, and whose SaveToOutbox did not fail, left its
\* event in the topic or in the outbox.
THEOREM DoneAccounted == Spec => []DoneIsAccounted
<1>1. IInv => DoneIsAccounted
    BY DEF IInv
<1>. QED
    BY Inductive, <1>1, PTL

\* The outbox worker marks a row completed only when its event is in the topic,
\* and failed only when its retries are used up, whatever statements fail.
THEOREM OutboxRight == Spec => []OutboxOutcome
<1>1. IInv => OutboxOutcome
    BY DEF IInv
<1>. QED
    BY Inductive, <1>1, PTL

\* An event is in the topic at most once, and once more for each fault.
THEOREM DuplicatesPaid == Spec => []DuplicatesNeedFaults
<1>1. ASSUME IInv PROVE DuplicatesNeedFaults
    <2>1. /\ kafkaErrors \in Nat /\ dbErrors \in Nat /\ crashes \in Nat
          /\ \A r \in Requests : Copies(r) \in Nat /\ Copies(r) <= 1 + Faults
        BY <1>1, CopiesNat DEF IInv, TypeOK, CopiesInv
    <2>. QED
        BY <2>1 DEF DuplicatesNeedFaults, Faults
<1>. QED
    BY Inductive, <1>1, PTL

\* A message is marked read only because its recipient read it or a later one of
\* the chat, however MarkAsRead overlaps with sends and deletions.
THEOREM ReadJustified == Spec => []ReadIsJustified
<1>1. IInv => ReadIsJustified
    BY DEF IInv
<1>. QED
    BY Inductive, <1>1, PTL

\* A message that was deleted stays deleted, whichever handlers had read it
\* before (AlterMessage, MarkAsRead).
THEOREM Resurrection == Spec => NoResurrection
<1>1. ASSUME IInv, [Next]_vars, NEW m \in Requests, Committed(m), ~Stored(m)
      PROVE  ~Stored(m)'
    <2>1. ASSUME NEW r \in Requests, Writes(r) PROVE ~Stored(m)'
        <3>1. m # r
            BY <1>1, <2>1 DEF Writes, Committed
        <3>. QED
            BY <1>1, <2>1, <3>1, WriteEffect DEF IInv, Writes, Stored
    <2>2. ASSUME NEW r \in Requests, BeginStep(r) PROVE ~Stored(m)'
        BY <1>1, <2>2, BeginEffect DEF IInv, Stored, store
    <2>3. CASE Elsewhere
        BY <1>1, <2>3 DEF Elsewhere, Stored, store
    <2>. QED
        BY <1>1, <2>1, <2>2, <2>3, NextCases DEF IInv
<1>2. IInv /\ [Next]_vars =>
          [\A m \in Requests : Committed(m) /\ ~Stored(m) => ~Stored(m)']_vars
    BY <1>1
<1>. QED
    BY Inductive, <1>2, PTL DEF Spec, NoResurrection


-----------------------------------------------------------------------------
(* The relay.                                                              *)

\* A row was tried as often as the broker failed since the handler's first try.
RetryInv ==
    /\ \A r \in Requests :
          /\ pc[r] = "save" => kafkaErrors > 0
          /\ outbox[r] # None => kafkaErrors > outbox[r].retry
    /\ wpc = "retry" => \A e \in batch : Current(e) => kafkaErrors > e.retry + 1

\* A lost event was lost in a fault.
LostInv == \A r \in Requests : pc[r] = "lost" => dbErrors + crashes > 0

RelayInv == IInv /\ RetryInv /\ LostInv

LEMMA NextRetry ==
    ASSUME IInv, RetryInv, [Next]_vars
    PROVE  RetryInv'
<1>. USE DEF IInv
<1>1. /\ kafkaErrors \in Nat
      /\ \A r \in Requests : outbox[r] # None => outbox[r].retry \in Nat
      /\ \A e \in batch : e.retry \in Nat /\ e.row \in Requests
    BY DEF TypeOK, OutboxRow, BatchEntry
<1>2. ASSUME UNCHANGED <<outbox, batch, wpc>>, kafkaErrors' \in {kafkaErrors, kafkaErrors + 1},
             \A r \in Requests : pc'[r] = "save" => kafkaErrors' > 0
      PROVE  RetryInv'
    <2>1. \A e \in batch : Current(e)' <=> Current(e)
        BY <1>2 DEF Current
    <2>2. \A n \in Nat : kafkaErrors > n => kafkaErrors' > n
        BY <1>1, <1>2
    <2>3. \A r \in Requests : outbox[r] # None => kafkaErrors' > outbox[r].retry
        BY <1>1, <2>2 DEF RetryInv
    <2>4. wpc = "retry" => \A e \in batch : Current(e) => kafkaErrors' > e.retry + 1
        BY <1>1, <2>2 DEF RetryInv
    <2>. QED
        BY <1>2, <2>1, <2>3, <2>4 DEF RetryInv
<1>3. ASSUME NEW r \in Requests, Still(r) PROVE RetryInv'
    BY <1>2, <1>3 DEF Still, RetryInv
<1>4. ASSUME NEW r \in Requests, Publish(r) PROVE RetryInv'
    <2>1. /\ UNCHANGED <<outbox, batch, wpc>>
          /\ \A q \in Requests \ {r} : pc'[q] = pc[q]
          /\ \/ pc'[r] = "done" /\ kafkaErrors' = kafkaErrors
             \/ pc'[r] = "save" /\ kafkaErrors' = kafkaErrors + 1
        BY <1>4 DEF Publish, PublishOK, PublishError, worker, TypeOK
    <2>. QED
        BY <1>1, <1>2, <2>1 DEF RetryInv
<1>5. ASSUME NEW r \in Requests, SaveToOutbox(r) PROVE RetryInv'
    <2>1. /\ pc[r] = "save" /\ UNCHANGED <<batch, wpc, kafkaErrors>>
          /\ \A q \in Requests \ {r} : pc'[q] = pc[q] /\ outbox'[q] = outbox[q]
          /\ pc'[r] # "save"
          /\ outbox' = outbox \/ outbox'[r].retry = 0
        BY <1>5 DEF SaveToOutbox, worker, TypeOK
    <2>2. outbox[r] = None
        BY <2>1 DEF EventInv
    <2>3. \A e \in batch : e.row # r /\ outbox'[e.row] = outbox[e.row]
        BY <1>1, <2>1, <2>2 DEF OutboxInv, Pending
    <2>4. \A e \in batch : Current(e)' <=> Current(e)
        BY <2>1, <2>3 DEF Current
    <2>5. \A q \in Requests : outbox'[q] # None => kafkaErrors > outbox'[q].retry
        BY <1>1, <2>1 DEF RetryInv
    <2>. QED
        BY <2>1, <2>4, <2>5 DEF RetryInv
<1>6. CASE Poll
    <2>1. wpc = "publish" /\ UNCHANGED <<outbox, pc, wpc, kafkaErrors>>
        BY <1>6 DEF Poll, WorkerInv, TypeOK, faults
    <2>. QED
        BY <2>1 DEF RetryInv
<1>7. ASSUME NEW e \in batch, PublishEvent(e) PROVE RetryInv'
    <2>1. /\ Current(e) /\ UNCHANGED <<outbox, batch, pc>>
          /\ \/ wpc' = "mark" /\ kafkaErrors' = kafkaErrors
             \/ wpc' = "retry" /\ kafkaErrors' = kafkaErrors + 1
        BY <1>7 DEF PublishEvent, PublishOK, PublishError
    <2>2. kafkaErrors > e.retry
        BY <1>1 DEF RetryInv, OutboxInv, Pending
    <2>3. \A f \in batch : Current(f)' => f = e
        BY <2>1, CurrentOne DEF Current
    <2>4. \A n \in Nat : kafkaErrors > n => kafkaErrors' > n
        BY <1>1, <2>1
    <2>5. wpc' = "retry" => kafkaErrors' > e.retry + 1
        BY <1>1, <2>1, <2>2
    <2>6. \A r \in Requests :
             /\ pc[r] = "save" => kafkaErrors' > 0
             /\ outbox[r] # None => kafkaErrors' > outbox[r].retry
        BY <1>1, <2>4 DEF RetryInv
    <2>. QED
        BY <2>1, <2>3, <2>5, <2>6 DEF RetryInv
<1>8. ASSUME NEW e \in batch, FinishStep(e) PROVE RetryInv'
    <2>1. PICK row \in OutboxRow :
              /\ outbox' = [outbox EXCEPT ![e.row] = row] \/ outbox' = outbox
              /\ \/ row.retry = e.retry
                 \/ row.retry = e.retry + 1 /\ wpc = "retry" /\ Current(e)
        BY <1>8, FinishEffect
    <2>2. /\ e.row \in Requests /\ e.row \in Pending
          /\ wpc' = "publish" /\ UNCHANGED <<pc, kafkaErrors>>
        BY <1>8, FinishEffect
    <2>3. kafkaErrors > row.retry
        BY <1>1, <2>1, <2>2 DEF RetryInv, OutboxInv, Pending
    <2>4. \A q \in Requests : outbox'[q] = outbox[q] \/ outbox'[q] = row
        BY <2>1 DEF TypeOK
    <2>5. \A q \in Requests : outbox'[q] # None => kafkaErrors > outbox'[q].retry
        BY <2>3, <2>4 DEF RetryInv
    <2>. QED
        BY <2>2, <2>5 DEF RetryInv
<1>9. CASE Crash
    BY <1>9 DEF Crash, RetryInv, TypeOK
<1>10. CASE UNCHANGED vars
    BY <1>2, <1>10 DEF vars, RetryInv
<1>. QED
    BY <1>3, <1>4, <1>5, <1>6, <1>7, <1>8, <1>9, <1>10, EventCases

LEMMA NextLost ==
    ASSUME IInv, LostInv, [Next]_vars
    PROVE  LostInv'
<1>. USE DEF IInv, LostInv
<1>1. dbErrors \in Nat /\ crashes \in Nat
    BY DEF TypeOK
<1>2. ASSUME NEW r \in Requests, BeginStep(r) PROVE LostInv'
    <2>1. pc' = [pc EXCEPT ![r] = "commit"] /\ UNCHANGED <<dbErrors, crashes>>
        BY <1>2, BeginEffect DEF faults
    <2>. QED
        BY <2>1 DEF TypeOK
<1>3. ASSUME NEW r \in Requests, Handler(r) PROVE LostInv'
    <2>1. /\ \A q \in Requests \ {r} : pc'[q] = pc[q]
          /\ crashes' = crashes
          /\ \/ pc'[r] # "lost" /\ dbErrors' = dbErrors
             \/ dbErrors' = dbErrors + 1
        BY <1>3 DEF Handler, Commit, CommitFails, Publish, SaveToOutbox, TypeOK, faults
    <2>. QED
        BY <1>1, <2>1
<1>4. CASE Poll
    BY <1>4 DEF Poll, faults
<1>5. ASSUME NEW e \in batch, PublishEvent(e) PROVE LostInv'
    BY <1>5 DEF PublishEvent
<1>6. ASSUME NEW e \in batch, FinishStep(e) PROVE LostInv'
    <2>1. pc' = pc /\ crashes' = crashes /\ (dbErrors' = dbErrors \/ dbErrors' = dbErrors + 1)
        BY <1>6, FinishEffect
    <2>2. \A r \in Requests : pc'[r] = "lost" => dbErrors + crashes > 0
        BY <2>1
    <2>3. dbErrors + crashes > 0 => dbErrors' + crashes' > 0
        BY <1>1, <2>1
    <2>. QED
        BY <2>2, <2>3
<1>7. CASE Crash
    <2>1. crashes' = crashes + 1 /\ dbErrors' = dbErrors
        BY <1>7 DEF Crash
    <2>. QED
        BY <1>1, <2>1
<1>8. CASE UNCHANGED vars
    BY <1>8 DEF vars
<1>. QED
    BY <1>2, <1>3, <1>4, <1>5, <1>6, <1>7, <1>8
       DEF Next, BeginStep, Worker, ProcessEvent, FinishStep

LEMMA InductiveRelay == Spec => []RelayInv
<1>1. Init => RelayInv
    <2>. SUFFICES ASSUME Init PROVE RelayInv
        OBVIOUS
    <2>1. RetryInv /\ LostInv
        BY DEF Init, RetryInv, LostInv
    <2>. QED
        BY <2>1, InitInv DEF RelayInv
<1>2. RelayInv /\ [Next]_vars => RelayInv'
    BY NextInv, NextRetry, NextLost DEF RelayInv
<1>. QED
    BY <1>1, <1>2, PTL DEF Spec

RelayDef ==
    \A r \in Requests :
        /\ Logged(r) <=> RelayState(r) = "published"
        /\ ~Logged(r) /\ ~Committed(r) <=> RelayState(r) = "none"
        /\ ~Logged(r) /\ Committed(r) /\ Owed(r) <=> RelayState(r) = "owed"
        /\ ~Logged(r) /\ Committed(r) /\ ~Owed(r) <=> RelayState(r) = "abandoned"

LEMMA RelayIs == RelayDef
<1>. SUFFICES ASSUME NEW r \in Requests
              PROVE  /\ Logged(r) <=> RelayState(r) = "published"
                     /\ ~Logged(r) /\ ~Committed(r) <=> RelayState(r) = "none"
                     /\ ~Logged(r) /\ Committed(r) /\ Owed(r) <=> RelayState(r) = "owed"
                     /\ ~Logged(r) /\ Committed(r) /\ ~Owed(r) <=> RelayState(r) = "abandoned"
    BY DEF RelayDef
<1>1. CASE Logged(r)
    <2>1. RelayState(r) = "published"
        BY <1>1 DEF RelayState
    <2>. QED
        BY <1>1, <2>1
<1>2. CASE ~Logged(r) /\ ~Committed(r)
    <2>1. RelayState(r) = "none"
        BY <1>2 DEF RelayState
    <2>. QED
        BY <1>2, <2>1
<1>3. CASE ~Logged(r) /\ Committed(r) /\ Owed(r)
    <2>1. RelayState(r) = "owed"
        BY <1>3 DEF RelayState
    <2>. QED
        BY <1>3, <2>1
<1>4. CASE ~Logged(r) /\ Committed(r) /\ ~Owed(r)
    <2>1. RelayState(r) = "abandoned"
        BY <1>4 DEF RelayState
    <2>. QED
        BY <1>4, <2>1
<1>. QED
    BY <1>1, <1>2, <1>3, <1>4

LEMMA RelayIsNext == RelayDef'
BY RelayIs, PTL

\* An event is given up only when Disturbed.
GivenUp == \A r \in Requests : RelayState(r) = "abandoned" => Disturbed

LEMMA GivenUpDisturbed == RelayInv => GivenUp
<1>. SUFFICES ASSUME RelayInv, NEW r \in Requests, RelayState(r) = "abandoned"
              PROVE  Disturbed
    BY DEF GivenUp
<1>1. ~Logged(r) /\ Committed(r) /\ ~Owed(r)
    BY RelayIs DEF RelayDef
<1>2. kafkaErrors \in Nat /\ dbErrors \in Nat /\ crashes \in Nat
    BY DEF RelayInv, IInv, TypeOK
<1>3. CASE pc[r] = "lost"
    BY <1>2, <1>3 DEF RelayInv, LostInv, Disturbed
<1>4. CASE pc[r] = "done"
    <2>1. outbox[r] \in OutboxRow /\ outbox[r] # None
        BY <1>1, <1>4 DEF RelayInv, IInv, TypeOK, DoneIsAccounted
    <2>2. outbox[r].status = "failed"
        BY <1>1, <1>4, <2>1 DEF RelayInv, IInv, OutboxOutcome, OutboxRow, Owed, Pending
    <2>3. outbox[r].retry = MaxRetries /\ kafkaErrors > outbox[r].retry
        BY <2>1, <2>2 DEF RelayInv, IInv, OutboxOutcome, RetryInv
    <2>. QED
        BY <2>3 DEF Disturbed
<1>. QED
    BY <1>1, <1>3, <1>4 DEF Committed, Owed

LEMMA GivenUpNext == RelayInv' => GivenUp'
BY GivenUpDisturbed, PTL

\* What a step may do to the event of one request.
Moves(r) ==
    \/ RelayState(r)' = RelayState(r)
    \/ RelayState(r) = "none" /\ RelayState(r)' = "owed"
    \/ RelayState(r) = "owed" /\ RelayState(r)' = "published"
    \/ RelayState(r) \in {"none", "owed"} /\ RelayState(r)' = "abandoned"

LEMMA RelayStep ==
    ASSUME RelayInv', Disturbed => Disturbed', NEW r \in Requests, Moves(r),
           \A q \in Requests \ {r} : RelayState(q)' = RelayState(q)
    PROVE  Relay!Next
<1>. DEFINE old == [q \in Requests |-> RelayState(q)]
            new == [q \in Requests |-> RelayState(q)']
<1>1. Disturbed' \in {Disturbed, TRUE}
    BY DEF Disturbed
<1>2. new = [old EXCEPT ![r] = RelayState(r)'] /\ old[r] = RelayState(r)
    OBVIOUS
<1>. HIDE DEF old, new
<1>3. CASE RelayState(r)' = RelayState(r)
    BY <1>1, <1>2, <1>3 DEF Relay!Next, old, new
<1>4. CASE RelayState(r) = "none" /\ RelayState(r)' = "owed"
    BY <1>1, <1>2, <1>4 DEF Relay!Next, Relay!Owe, old, new
<1>5. CASE RelayState(r) = "owed" /\ RelayState(r)' = "published"
    BY <1>1, <1>2, <1>5 DEF Relay!Next, Relay!Publish, old, new
<1>6. CASE RelayState(r) \in {"none", "owed"} /\ RelayState(r)' = "abandoned"
    <2>1. Disturbed'
        BY <1>6, GivenUpNext DEF GivenUp
    <2>2. new = [q \in Requests |-> IF q \in {r} THEN "abandoned" ELSE old[q]]
        BY <1>2, <1>6 DEF old, new
    <2>3. Relay!Abandon({r})
        BY <1>2, <1>6, <2>1, <2>2 DEF Relay!Abandon, old, new
    <2>. QED
        BY <1>1, <2>3 DEF Relay!Next
<1>. QED
    BY <1>3, <1>4, <1>5, <1>6 DEF Moves

\* All that the event of a request is told from.
LEMMA RelaySame ==
    ASSUME NEW q \in Requests, Logged(q)' <=> Logged(q),
           Committed(q)' <=> Committed(q), Owed(q)' <=> Owed(q)
    PROVE  RelayState(q)' = RelayState(q)
<1>1. CASE Logged(q)
    BY <1>1, RelayIs, RelayIsNext DEF RelayDef
<1>2. CASE ~Logged(q) /\ ~Committed(q)
    BY <1>2, RelayIs, RelayIsNext DEF RelayDef
<1>3. CASE ~Logged(q) /\ Committed(q) /\ Owed(q)
    BY <1>3, RelayIs, RelayIsNext DEF RelayDef
<1>4. CASE ~Logged(q) /\ Committed(q) /\ ~Owed(q)
    BY <1>4, RelayIs, RelayIsNext DEF RelayDef
<1>. QED
    BY <1>1, <1>2, <1>3, <1>4

LEMMA RelayRow ==
    ASSUME NEW q \in Requests, Logged(q)' <=> Logged(q),
           pc'[q] = pc[q], outbox'[q] = outbox[q]
    PROVE  RelayState(q)' = RelayState(q)
<1>1. Committed(q)' <=> Committed(q)
    BY DEF Committed
<1>2. Owed(q)' <=> Owed(q)
    BY DEF Owed, Pending
<1>. QED
    BY <1>1, <1>2, RelaySame

\* The kinds of step: one that moves the event of one request, and a crash.
LEMMA DisturbedStays ==
    ASSUME IInv, [Next]_vars
    PROVE  Disturbed => Disturbed'
<1>1. kafkaErrors \in Nat /\ dbErrors \in Nat /\ crashes \in Nat /\ MaxRetries \in Nat
    BY MaxRetriesAssumption DEF IInv, TypeOK
<1>2. /\ kafkaErrors' = kafkaErrors \/ kafkaErrors' = kafkaErrors + 1
      /\ dbErrors' = dbErrors \/ dbErrors' = dbErrors + 1
      /\ crashes' = crashes \/ crashes' = crashes + 1
    <2>1. ASSUME NEW r \in Requests, BeginStep(r)
          PROVE  UNCHANGED <<kafkaErrors, dbErrors, crashes>>
        BY <2>1, BeginEffect DEF IInv, faults
    <2>2. ASSUME NEW r \in Requests, Handler(r)
          PROVE  /\ kafkaErrors' = kafkaErrors \/ kafkaErrors' = kafkaErrors + 1
                 /\ dbErrors' = dbErrors \/ dbErrors' = dbErrors + 1
                 /\ crashes' = crashes
        BY <2>2 DEF Handler, Commit, CommitFails, Publish, SaveToOutbox, PublishOK,
                    PublishError, faults
    <2>3. ASSUME NEW e \in batch, ProcessEvent(e)
          PROVE  /\ kafkaErrors' = kafkaErrors \/ kafkaErrors' = kafkaErrors + 1
                 /\ dbErrors' = dbErrors \/ dbErrors' = dbErrors + 1
                 /\ crashes' = crashes
        BY <2>3 DEF ProcessEvent, MarkEventFailed, PublishEvent, MarkEventProcessed,
                    IncrementRetryCount, Finish, PublishOK, PublishError
    <2>4. Poll => UNCHANGED <<kafkaErrors, dbErrors, crashes>>
        BY DEF Poll, faults
    <2>5. Crash => kafkaErrors' = kafkaErrors /\ dbErrors' = dbErrors /\ crashes' = crashes + 1
        BY DEF Crash
    <2>6. UNCHANGED vars => UNCHANGED <<kafkaErrors, dbErrors, crashes>>
        BY DEF vars
    <2>. QED
        BY <2>1, <2>2, <2>3, <2>4, <2>5, <2>6 DEF Next, BeginStep, Worker
<1>. QED
    BY <1>1, <1>2 DEF Disturbed

\* The crash gives up all events that handlers had in hand.
LEMMA CrashStep ==
    ASSUME RelayInv, Crash
    PROVE  Relay!Next
<1>. DEFINE S == {q \in Requests : pc[q] \in {"publish", "save"} /\ ~Logged(q)}
            old == [q \in Requests |-> RelayState(q)]
            new == [q \in Requests |-> RelayState(q)']
<1>1. /\ crashes' = crashes + 1 /\ crashes \in Nat /\ log' = log /\ outbox' = outbox
      /\ pc' = [r \in Requests |-> CASE pc[r] = "commit" -> "failed"
                                     [] pc[r] \in {"publish", "save"} -> "lost"
                                     [] OTHER -> pc[r]]
    BY DEF Crash, RelayInv, IInv, TypeOK
<1>2. Disturbed' /\ Disturbed' \in {Disturbed, TRUE}
    <2>1. crashes' > 0
        BY <1>1
    <2>2. Disturbed' = TRUE
        BY <2>1 DEF Disturbed
    <2>. QED
        BY <2>2
<1>3. ASSUME NEW q \in Requests
      PROVE  /\ pc[q] = "commit" => pc'[q] = "failed"
             /\ pc[q] \in {"publish", "save"} => pc'[q] = "lost"
             /\ pc[q] \notin {"commit", "publish", "save"} => pc'[q] = pc[q]
    BY <1>1
<1>4. ASSUME NEW q \in Requests PROVE Logged(q)' <=> Logged(q)
    BY <1>1 DEF Logged
<1>5. ASSUME NEW q \in S
      PROVE  RelayState(q) = "owed" /\ RelayState(q)' = "abandoned"
    <2>1. ~Logged(q) /\ Committed(q) /\ Owed(q)
        BY DEF Committed, Owed
    <2>2. ~Logged(q)' /\ Committed(q)' /\ ~Owed(q)'
        BY <1>3, <1>4 DEF Committed, Owed
    <2>. QED
        BY <2>1, <2>2, RelayIs, RelayIsNext DEF RelayDef
<1>6. ASSUME NEW q \in Requests \ S PROVE RelayState(q)' = RelayState(q)
    <2>1. Committed(q)' <=> Committed(q)
        BY <1>3 DEF Committed
    <2>2. CASE Logged(q)
        BY <1>4, <2>2, RelayIs, RelayIsNext DEF RelayDef
    <2>3. CASE ~Logged(q)
        <3>1. Owed(q)' <=> Owed(q)
            BY <1>1, <1>3, <2>3 DEF Owed, Pending
        <3>. QED
            BY <1>4, <2>1, <3>1, RelaySame
    <2>. QED
        BY <2>2, <2>3
<1>7. new = [q \in Requests |-> IF q \in S THEN "abandoned" ELSE old[q]]
    BY <1>5, <1>6
<1>8. S \in SUBSET Requests /\ \A q \in S : old[q] \in {"none", "owed"}
    BY <1>5
<1>. HIDE DEF S
<1>9. Relay!Abandon(S)
    BY <1>2, <1>7, <1>8 DEF Relay!Abandon
<1>. QED
    BY <1>2, <1>8, <1>9 DEF Relay!Next

LEMMA NextRelay ==
    ASSUME RelayInv, RelayInv', [Next]_vars
    PROVE  [Relay!Next]_Relay!vars
<1>. USE DEF RelayInv
<1>1. Disturbed => Disturbed'
    BY DisturbedStays
<1>2. \A r \in Requests : Logged(r) => pc[r] \in {"save", "done", "lost"}
    BY DEF IInv, EventInv
<1>3. ASSUME NEW r \in Requests, Still(r) PROVE Relay!Next
    <2>1. \A q \in Requests : Logged(q)' <=> Logged(q)
        BY <1>3 DEF Still, Logged
    <2>2. \A q \in Requests \ {r} : RelayState(q)' = RelayState(q)
        BY <1>3, <2>1, RelayRow DEF Still
    <2>3. ~Logged(r) /\ ~Committed(r)
        BY <1>2, <1>3 DEF Still, Committed
    <2>4. RelayState(r) = "none" /\ RelayState(r)' \in {"none", "owed", "abandoned"}
        BY <2>1, <2>3, RelayIs, RelayIsNext DEF RelayDef
    <2>. QED
        BY <1>1, <2>2, <2>4, RelayStep DEF Moves
<1>4. ASSUME NEW r \in Requests, Publish(r) PROVE Relay!Next
    <2>1. /\ pc[r] = "publish" /\ outbox' = outbox
          /\ \A q \in Requests \ {r} : pc'[q] = pc[q]
          /\ \/ PublishOK(r) /\ pc'[r] = "done"
             \/ PublishError(r) /\ pc'[r] = "save"
        BY <1>4 DEF Publish, IInv, TypeOK
    <2>2. log' = Append(log, r) \/ (log' = log /\ pc'[r] = "save")
        BY <2>1 DEF PublishOK, PublishError
    <2>3. \A q \in Requests \ {r} : Logged(q)' <=> Logged(q)
        BY <2>2, LoggedGrows DEF Logged, IInv
    <2>4. \A q \in Requests \ {r} : RelayState(q)' = RelayState(q)
        BY <2>1, <2>3, RelayRow
    <2>5. RelayState(r) = "owed"
        BY <1>2, <2>1, RelayIs DEF RelayDef, Committed, Owed
    <2>6. RelayState(r)' \in {"owed", "published"}
        <3>1. Committed(r)' /\ (log' = log => Owed(r)')
            BY <2>1, <2>2 DEF Committed, Owed
        <3>2. log' = Append(log, r) => Logged(r)'
            BY LoggedGrows DEF IInv
        <3>. QED
            BY <2>2, <3>1, <3>2, RelayIsNext DEF RelayDef
    <2>. QED
        BY <1>1, <2>4, <2>5, <2>6, RelayStep DEF Moves
<1>5. ASSUME NEW r \in Requests, SaveToOutbox(r) PROVE Relay!Next
    <2>1. /\ pc[r] = "save" /\ log' = log
          /\ \A q \in Requests \ {r} : pc'[q] = pc[q] /\ outbox'[q] = outbox[q]
          /\ \/ pc'[r] = "done" /\ outbox'[r] \in OutboxRow /\ outbox'[r].status = "pending"
             \/ pc'[r] = "lost"
        BY <1>5 DEF SaveToOutbox, IInv, TypeOK, OutboxRow
    <2>2. \A q \in Requests : Logged(q)' <=> Logged(q)
        BY <2>1 DEF Logged
    <2>3. \A q \in Requests \ {r} : RelayState(q)' = RelayState(q)
        BY <2>1, <2>2, RelayRow
    <2>4. Committed(r) /\ Owed(r) /\ Committed(r)'
        BY <2>1 DEF Committed, Owed
    <2>5. Moves(r)
        BY <2>2, <2>4, RelayIs, RelayIsNext DEF RelayDef, Moves
    <2>. QED
        BY <1>1, <2>3, <2>5, RelayStep
<1>6. CASE Poll \/ UNCHANGED vars
    <2>1. UNCHANGED <<outbox, log, pc, kafkaErrors, dbErrors, crashes>>
        BY <1>6 DEF Poll, vars, faults
    <2>2. \A q \in Requests : RelayState(q)' = RelayState(q)
        BY <2>1, RelayRow DEF Logged
    <2>3. Disturbed' = Disturbed
        BY <2>1 DEF Disturbed
    <2>. QED
        BY <2>2, <2>3 DEF Relay!vars
<1>7. ASSUME NEW e \in batch, PublishEvent(e) PROVE Relay!Next
    <2>1. /\ UNCHANGED <<pc, outbox>> /\ e.row \in Requests /\ e.row \in Pending
          /\ PublishOK(e.row) \/ PublishError(e.row)
        BY <1>7 DEF PublishEvent, IInv, OutboxInv, Pending
    <2>2. log' = Append(log, e.row) \/ log' = log
        BY <2>1 DEF PublishOK, PublishError
    <2>3. /\ \A q \in Requests \ {e.row} : Logged(q)' <=> Logged(q)
          /\ Logged(e.row) => Logged(e.row)'
        BY <2>1, <2>2, LoggedGrows DEF Logged, IInv
    <2>4. \A q \in Requests \ {e.row} : RelayState(q)' = RelayState(q)
        BY <2>1, <2>3, RelayRow
    <2>5. pc[e.row] = "done"
        BY <2>1 DEF IInv, EventInv, Pending
    <2>6. Committed(e.row) /\ Owed(e.row) /\ Committed(e.row)' /\ Owed(e.row)'
        BY <2>1, <2>5 DEF Committed, Owed, Pending
    <2>7. Moves(e.row)
        BY <2>1, <2>3, <2>6, RelayIs, RelayIsNext DEF RelayDef, Moves
    <2>. QED
        BY <1>1, <2>1, <2>4, <2>7, RelayStep
<1>8. ASSUME NEW e \in batch, FinishStep(e) PROVE Relay!Next
    <2>1. /\ UNCHANGED <<pc, log>> /\ e.row \in Requests /\ e.row \in Pending
          /\ \A q \in Requests \ {e.row} : outbox'[q] = outbox[q]
        BY <1>8, FinishEffect DEF IInv, TypeOK
    <2>2. \A q \in Requests : Logged(q)' <=> Logged(q)
        BY <2>1 DEF Logged
    <2>3. \A q \in Requests \ {e.row} : RelayState(q)' = RelayState(q)
        BY <2>1, <2>2, RelayRow
    <2>4. pc[e.row] = "done"
        BY <2>1 DEF IInv, EventInv, Pending
    <2>5. Committed(e.row) /\ Owed(e.row) /\ Committed(e.row)'
        BY <2>1, <2>4 DEF Committed, Owed
    <2>6. Moves(e.row)
        BY <2>1, <2>2, <2>5, RelayIs, RelayIsNext DEF RelayDef, Moves
    <2>. QED
        BY <1>1, <2>1, <2>3, <2>6, RelayStep
<1>9. CASE Crash
    BY <1>9, CrashStep
<1>. QED
    BY <1>3, <1>4, <1>5, <1>6, <1>7, <1>8, <1>9, EventCases DEF IInv

\* Handlers and outbox worker together relay the events of committed writes, for
\* any users, requests and retries: an event is published or owed, and given up
\* only after a failed statement, a crash, or more errors of the broker than
\* NewOutboxWorker's maxRetries.
THEOREM Relays == Spec => ImplementsRelay
<1>1. Init => Relay!Init
    <2>. SUFFICES ASSUME Init PROVE Relay!Init
        OBVIOUS
    <2>1. \A r \in Requests : ~Logged(r) /\ ~Committed(r)
        BY DEF Init, Logged, Committed
    <2>2. \A r \in Requests : RelayState(r) = "none"
        BY <2>1, RelayIs DEF RelayDef
    <2>3. Disturbed = FALSE
        BY MaxRetriesAssumption DEF Init, Disturbed
    <2>. QED
        BY <2>2, <2>3 DEF Relay!Init
<1>2. RelayInv /\ RelayInv' /\ [Next]_vars => [Relay!Next]_Relay!vars
    BY NextRelay
<1>. QED
    BY <1>1, <1>2, InductiveRelay, PTL DEF Spec, ImplementsRelay, Relay!Spec

-----------------------------------------------------------------------------
(* The window of the recipient.                                            *)

\* An event that adds, changes or removes m.
Relevant(m, i) == Event(i).msg = m /\ Event(i).op # "read"
Nothing(m, k) == \A i \in 1..k : ~Relevant(m, i)
\* The last such event of the first k.
Latest(m, k, i) ==
    i \in 1..k /\ Relevant(m, i) /\ \A j \in 1..k : j > i => ~Relevant(m, j)

\* The content of m in the table, and that which an event or a write leaves.
Content(m) == IF Stored(m) THEN messages[m].content ELSE None
Effect(r) == IF call[r].op = "delete" THEN None ELSE call[r].content

\* No event of m was held up, and none raced.
Clear(m) ==
    /\ m \notin raced
    /\ \A r \in Requests : pc[r] # "new" /\ call[r].msg = m =>
          pc[r] \notin {"save", "lost"} /\ outbox[r] = None

Publishing(m, r) == pc[r] = "publish" /\ call[r].msg = m /\ call[r].op # "read"

PlaceInv ==
    /\ next \in 1..Len(log) + 1
    /\ view \in [Requests -> Contents \cup {None}]
    /\ \A i \in decrypting : i \in 1..next - 1 /\ Event(i).op \in {"send", "alter"}

\* A request that is to change a message still finds it, unless another one is
\* about that message, too.
ReadyInv ==
    /\ Contended \subseteq raced
    /\ \A r \in Requests :
          pc[r] = "commit" /\ call[r].op # "send" /\ Clear(call[r].msg) =>
              Stored(call[r].msg)

\* The events of m: first it is sent, and last it is deleted.
OrderInv(m) ==
    /\ \A i, j \in 1..Len(log) :
          i < j /\ Relevant(m, i) /\ Relevant(m, j) =>
              Event(i).op # "delete" /\ Event(j).op # "send"
    /\ \A i \in 1..Len(log) :
          Relevant(m, i) /\ Event(i).op # "send" => ~Nothing(m, i - 1)

\* The table is as the last event left it, or the request that is about to
\* publish the next.
TableInv(m) ==
    /\ \A r \in Requests : Publishing(m, r) =>
          /\ Content(m) = Effect(r)
          /\ call[r].op = "send" <=> Nothing(m, Len(log))
          /\ \A i \in 1..Len(log) : Relevant(m, i) => Event(i).op # "delete"
    /\ (\A r \in Requests : ~Publishing(m, r)) =>
          \/ Nothing(m, Len(log)) /\ Content(m) = None
          \/ \E i \in 1..Len(log) : Latest(m, Len(log), i) /\ Content(m) = Effect(log[i])

\* The window is as the last event that arrived left it, or will leave it.
ViewInv(m) ==
    \/ Nothing(m, next - 1) /\ view[m] = None
    \/ \E i \in 1..next - 1 :
          /\ Latest(m, next - 1, i)
          /\ \A j \in decrypting : Relevant(m, j) => j = i
          /\ i \notin decrypting => view[m] = Effect(log[i])
          /\ i \in decrypting => (view[m] = None <=> Event(i).op = "send")

WindowInv ==
    /\ IInv /\ PlaceInv /\ ReadyInv
    /\ \A m \in Requests : Clear(m) => OrderInv(m) /\ TableInv(m) /\ ViewInv(m)

LEMMA ContentEffect ==
    ASSUME IInv, NEW r \in Requests, pc[r] = "commit", Write(call[r])
    PROVE  /\ \A m \in Requests : m # call[r].msg \/ call[r].op = "read" =>
                 Content(m)' = Content(m) /\ (Stored(m)' <=> Stored(m))
           /\ \A m \in Requests :
                 /\ m = call[r].msg
                 /\ \/ call[r].op \in {"send", "delete"}
                    \/ call[r].op = "alter" /\ Stored(m)
                 => Content(m)' = Effect(r)
<1>. DEFINE c == call[r]
<1>1. /\ c \in Call /\ c.msg \in Requests /\ c.op \in Ops
      /\ c.op = "send" => c.msg = r
      /\ messages \in [Requests -> MessageRow \cup {None}] /\ None \notin MessageRow
      /\ c.op \in {"send", "alter"} => c.content \in Contents
    BY NoneAssumption DEF IInv, CallInv, TypeOK, Call
<1>. HIDE DEF c
<1>2. CASE c.op = "send" /\ CreateWithChats(c)
    <2>. DEFINE row == [sender |-> c.user, recipient |-> c.peer, content |-> c.content,
                        created |-> c.created, status |-> Sent]
    <2>1. messages' = [messages EXCEPT ![c.msg] = row] /\ row.content = c.content
        BY <1>2 DEF CreateWithChats
    <2>2. row \in MessageRow
        BY <1>1, <1>2 DEF MessageRow, Call
    <2>. HIDE DEF row
    <2>3. /\ messages'[c.msg] = row /\ row # None
          /\ \A m \in Requests : m # c.msg => messages'[m] = messages[m]
        BY <1>1, <2>1, <2>2
    <2>. QED
        BY <1>1, <1>2, <2>1, <2>3 DEF Content, Effect, Stored, c
<1>3. CASE c.op = "delete" /\ Delete(c)
    <2>1. /\ messages'[c.msg] = None
          /\ \A m \in Requests : m # c.msg => messages'[m] = messages[m]
        BY <1>1, <1>3 DEF Delete
    <2>. QED
        BY <1>1, <1>3, <2>1 DEF Content, Effect, Stored, c
<1>4. CASE c.op = "alter" /\ Alter(c)
    <2>1. \A m \in Requests : m # c.msg => messages'[m] = messages[m]
        BY <1>1, <1>4 DEF Alter
    <2>2. ASSUME Stored(c.msg)
          PROVE  messages'[c.msg].content = c.content /\ messages'[c.msg] # None
        <3>1. messages[c.msg] \in MessageRow
            BY <1>1, <2>2 DEF Stored
        <3>2. messages'[c.msg] = [messages[c.msg] EXCEPT !.content = c.content]
            BY <1>1, <1>4, <2>2 DEF Alter
        <3>3. messages'[c.msg] \in MessageRow /\ messages'[c.msg].content = c.content
            BY <1>1, <1>4, <3>1, <3>2 DEF MessageRow
        <3>. QED
            BY <1>1, <3>3
    <2>. QED
        BY <1>1, <1>4, <2>1, <2>2 DEF Content, Effect, Stored, c
<1>5. CASE c.op = "read" /\ UpdateStatusBatch(c)
    <2>1. ASSUME NEW m \in Requests
          PROVE  \/ messages'[m] = messages[m]
                 \/ /\ messages[m] # None /\ messages'[m] # None
                    /\ messages'[m].content = messages[m].content
        <3>1. CASE MarkedRead(c, m)
            <4>1. messages[m] \in MessageRow /\ messages[m] # None
                BY <1>1, <3>1 DEF MarkedRead, Stored
            <4>2. messages'[m] = [messages[m] EXCEPT !.status = Read]
                BY <1>5, <3>1 DEF UpdateStatusBatch
            <4>3. messages'[m] \in MessageRow /\ messages'[m].content = messages[m].content
                BY <4>1, <4>2 DEF MessageRow
            <4>. QED
                BY <1>1, <4>1, <4>3
        <3>2. CASE ~MarkedRead(c, m)
            BY <1>5, <3>2 DEF UpdateStatusBatch
        <3>. QED
            BY <3>1, <3>2
    <2>2. \A m \in Requests : Content(m)' = Content(m) /\ (Stored(m)' <=> Stored(m))
        BY <2>1 DEF Content, Stored
    <2>. QED
        BY <1>5, <2>2 DEF c
<1>. QED
    BY <1>2, <1>3, <1>4, <1>5 DEF Write, c

\* The events of the topic are those of requests that have committed.
LEMMA EventTyped ==
    ASSUME IInv
    PROVE  /\ Len(log) \in Nat
           /\ \A i \in 1..Len(log) :
                 /\ log[i] \in Requests /\ Logged(log[i])
                 /\ pc[log[i]] \in {"save", "done", "lost"}
                 /\ Event(i) \in Call /\ Event(i).msg \in Requests /\ Event(i).op \in Ops
                 /\ Event(i).op \in {"send", "alter"} => Event(i).content \in Contents
<1>1. log \in Seq(Requests) /\ Len(log) \in Nat
    BY DEF IInv, TypeOK
<1>2. ASSUME NEW i \in 1..Len(log)
      PROVE  log[i] \in Requests /\ Logged(log[i])
    BY <1>1 DEF Logged
<1>3. ASSUME NEW i \in 1..Len(log)
      PROVE  pc[log[i]] \in {"save", "done", "lost"}
    BY <1>2 DEF IInv, EventInv
<1>. QED
    BY <1>1, <1>2, <1>3 DEF IInv, CallInv, Event, Call

\* The topic so far stays as it is.
LogStays ==
    /\ Len(log') \in Nat
    /\ \A i \in 1..Len(log) :
          i \in 1..Len(log') /\ log'[i] = log[i] /\ call'[log[i]] = call[log[i]]

LEMMA LogSame ==
    ASSUME IInv, log' = log, \A r \in Requests : pc[r] # "new" => call'[r] = call[r]
    PROVE  LogStays
BY EventTyped DEF LogStays

LEMMA LogAppends ==
    ASSUME IInv, NEW r \in Requests, log' = Append(log, r), call' = call
    PROVE  /\ LogStays /\ Len(log') = Len(log) + 1
           /\ log'[Len(log) + 1] = r
<1>1. log \in Seq(Requests) /\ Len(log) \in Nat
    BY DEF IInv, TypeOK
<1>2. /\ Len(log') = Len(log) + 1 /\ log'[Len(log) + 1] = r
      /\ \A i \in 1..Len(log) : log'[i] = log[i] /\ i \in 1..Len(log) + 1
    BY <1>1
<1>. QED
    BY <1>1, <1>2 DEF LogStays

LEMMA RelevantStays ==
    ASSUME IInv, LogStays, NEW m \in Requests
    PROVE  \A i \in 1..Len(log) :
              /\ i \in 1..Len(log') /\ log[i] \in Requests
              /\ Event(i)' = Event(i)
              /\ Relevant(m, i)' <=> Relevant(m, i)
              /\ Effect(log[i])' = Effect(log[i])
<1>. TAKE i \in 1..Len(log)
<1>1. i \in 1..Len(log') /\ log'[i] = log[i] /\ call'[log[i]] = call[log[i]]
    BY DEF LogStays
<1>. QED
    BY <1>1, EventTyped DEF Event, Relevant, Effect

\* Nothing new about m: its events, its content, and who is to publish one.
Steady(m) ==
    /\ LogStays
    /\ \A i \in 1..Len(log') : i \notin 1..Len(log) => ~Relevant(m, i)'
    /\ Content(m)' = Content(m)
    /\ \A r \in Requests :
          /\ Publishing(m, r)' <=> Publishing(m, r)
          /\ Publishing(m, r) => call'[r] = call[r]

LEMMA SteadyTable ==
    ASSUME IInv, NEW m \in Requests, OrderInv(m), TableInv(m), Steady(m)
    PROVE  OrderInv(m)' /\ TableInv(m)'
<1>1. \A i \in 1..Len(log) :
          /\ i \in 1..Len(log')
          /\ Event(i)' = Event(i)
          /\ Relevant(m, i)' <=> Relevant(m, i)
          /\ Effect(log[i])' = Effect(log[i])
    BY RelevantStays DEF Steady
<1>2. \A i \in 1..Len(log') : Relevant(m, i)' => i \in 1..Len(log)
    BY DEF Steady
<1>3. Len(log) \in Nat /\ Len(log') \in Nat
    BY EventTyped DEF Steady, LogStays
<1>4. Nothing(m, Len(log))' <=> Nothing(m, Len(log))
    <2>1. Nothing(m, Len(log))' <=> \A i \in 1..Len(log') : ~Relevant(m, i)'
        BY DEF Nothing
    <2>. QED
        BY <1>1, <1>2, <2>1 DEF Nothing
<1>5. OrderInv(m)'
    <2>1. ASSUME NEW i \in 1..Len(log'), NEW j \in 1..Len(log'),
                 i < j, Relevant(m, i)', Relevant(m, j)'
          PROVE  Event(i)'.op # "delete" /\ Event(j)'.op # "send"
        BY <1>1, <1>2, <2>1 DEF OrderInv
    <2>2. ASSUME NEW i \in 1..Len(log'), Relevant(m, i)', Event(i)'.op # "send"
          PROVE  \E j \in 1..i - 1 : Relevant(m, j)'
        <3>1. i \in 1..Len(log) /\ Relevant(m, i) /\ Event(i).op # "send"
            BY <1>1, <1>2, <2>2
        <3>2. PICK j \in 1..i - 1 : Relevant(m, j)
            BY <3>1 DEF OrderInv, Nothing
        <3>3. j \in 1..Len(log)
            BY <1>3, <3>1
        <3>. QED
            BY <1>1, <3>2, <3>3
    <2>. QED
        BY <2>1, <2>2 DEF OrderInv, Nothing
<1>6. ASSUME NEW r \in Requests, Publishing(m, r)'
      PROVE  /\ Content(m)' = Effect(r)'
             /\ call'[r].op = "send" <=> Nothing(m, Len(log))'
             /\ \A i \in 1..Len(log') : Relevant(m, i)' => Event(i)'.op # "delete"
    <2>1. Publishing(m, r) /\ call'[r] = call[r] /\ Content(m)' = Content(m)
        BY <1>6 DEF Steady
    <2>2. Effect(r)' = Effect(r)
        BY <2>1 DEF Effect
    <2>. QED
        BY <1>1, <1>2, <1>4, <2>1, <2>2 DEF TableInv
<1>7. ASSUME \A r \in Requests : ~Publishing(m, r)'
      PROVE  \/ Nothing(m, Len(log))' /\ Content(m)' = None
             \/ \E i \in 1..Len(log') :
                   /\ Relevant(m, i)'
                   /\ \A j \in 1..Len(log') : j > i => ~Relevant(m, j)'
                   /\ Content(m)' = Effect(log[i])'
    <2>1. Content(m)' = Content(m) /\ \A r \in Requests : ~Publishing(m, r)
        BY <1>7 DEF Steady
    <2>2. CASE Nothing(m, Len(log)) /\ Content(m) = None
        BY <1>4, <2>1, <2>2
    <2>3. CASE \E i \in 1..Len(log) : Latest(m, Len(log), i) /\ Content(m) = Effect(log[i])
        <3>1. PICK i \in 1..Len(log) :
                  /\ Relevant(m, i)
                  /\ \A j \in 1..Len(log) : j > i => ~Relevant(m, j)
                  /\ Content(m) = Effect(log[i])
            BY <2>3 DEF Latest
        <3>. QED
            BY <1>1, <1>2, <2>1, <3>1
    <2>. QED
        BY <2>1, <2>2, <2>3 DEF TableInv
<1>. QED
    BY <1>5, <1>6, <1>7 DEF TableInv, Latest

LEMMA ViewStays ==
    ASSUME IInv, PlaceInv, LogStays, UNCHANGED <<view, next, decrypting>>
    PROVE  PlaceInv' /\ \A m \in Requests : ViewInv(m) => ViewInv(m)'
<1>1. Len(log) \in Nat /\ Len(log') \in Nat /\ Len(log) <= Len(log')
    BY EventTyped DEF LogStays
<1>2. next \in 1..Len(log) + 1 /\ \A i \in 1..next - 1 : i \in 1..Len(log)
    BY <1>1 DEF PlaceInv
<1>3. PlaceInv'
    <2>1. \A i \in decrypting : Event(i)' = Event(i)
        BY <1>2 DEF PlaceInv, LogStays, Event
    <2>. QED
        BY <1>1, <1>2, <2>1 DEF PlaceInv
<1>4. ASSUME NEW m \in Requests, ViewInv(m)
      PROVE  ViewInv(m)'
    <2>1. \A i \in 1..next - 1 :
              /\ Event(i)' = Event(i)
              /\ Relevant(m, i)' <=> Relevant(m, i)
              /\ Effect(log[i])' = Effect(log[i])
        BY <1>2, RelevantStays
    <2>2. CASE Nothing(m, next - 1) /\ view[m] = None
        BY <2>1, <2>2 DEF ViewInv, Nothing
    <2>3. CASE \E i \in 1..next - 1 :
                  /\ Latest(m, next - 1, i)
                  /\ \A j \in decrypting : Relevant(m, j) => j = i
                  /\ i \notin decrypting => view[m] = Effect(log[i])
                  /\ i \in decrypting => (view[m] = None <=> Event(i).op = "send")
        <3>1. PICK i \in 1..next - 1 :
                  /\ Latest(m, next - 1, i)
                  /\ \A j \in decrypting : Relevant(m, j) => j = i
                  /\ i \notin decrypting => view[m] = Effect(log[i])
                  /\ i \in decrypting => (view[m] = None <=> Event(i).op = "send")
            BY <2>3
        <3>2. \A j \in decrypting : j \in 1..next - 1
            BY DEF PlaceInv
        <3>. QED
            BY <2>1, <3>1, <3>2 DEF ViewInv, Latest
    <2>. QED
        BY <1>4, <2>2, <2>3 DEF ViewInv
<1>. QED
    BY <1>3, <1>4

\* A call stays once its request has begun, and a lost event stays lost.
Onwards ==
    /\ raced \subseteq raced'
    /\ \A r \in Requests : pc[r] # "new" =>
          /\ pc'[r] # "new" /\ call'[r] = call[r]
          /\ pc[r] = "lost" => pc'[r] = "lost"
          /\ pc[r] = "save" => pc'[r] \in {"save", "lost"} \/ outbox'[r] # None
          /\ outbox[r] # None => outbox'[r] # None

LEMMA Clears ==
    ASSUME Onwards
    PROVE  \A m \in Requests : Clear(m)' => Clear(m)
<1>. SUFFICES ASSUME NEW m \in Requests, Clear(m)'
              PROVE  Clear(m)
    OBVIOUS
<1>1. m \notin raced
    BY DEF Clear, Onwards
<1>2. ASSUME NEW r \in Requests, pc[r] # "new", call[r].msg = m
      PROVE  pc[r] \notin {"save", "lost"} /\ outbox[r] = None
    <2>1. /\ pc'[r] # "new" /\ call'[r].msg = m
          /\ pc[r] = "lost" => pc'[r] = "lost"
          /\ pc[r] = "save" => pc'[r] \in {"save", "lost"} \/ outbox'[r] # None
          /\ outbox[r] # None => outbox'[r] # None
        BY <1>2 DEF Onwards
    <2>2. pc'[r] \notin {"save", "lost"} /\ outbox'[r] = None
        BY <2>1 DEF Clear
    <2>. QED
        BY <2>1, <2>2
<1>. QED
    BY <1>1, <1>2 DEF Clear

LEMMA NextOnwards ==
    ASSUME IInv, [Next]_vars, raced \subseteq raced'
    PROVE  Onwards
<1>. USE DEF Onwards
<1>1. ASSUME NEW r \in Requests, BeginStep(r) PROVE Onwards
    <2>1. PICK c \in Call :
              /\ pc[r] = "new"
              /\ pc' = [pc EXCEPT ![r] = "commit"]
              /\ call' = [call EXCEPT ![r] = c]
              /\ UNCHANGED <<store, outbox, log, worker, faults>>
        BY <1>1, BeginEffect DEF IInv
    <2>. QED
        BY <2>1 DEF IInv, TypeOK
<1>2. ASSUME NEW r \in Requests, Commit(r) \/ CommitFails(r) PROVE Onwards
    BY <1>2 DEF Commit, CommitFails, IInv, TypeOK
<1>3. ASSUME NEW r \in Requests, Publish(r) PROVE Onwards
    BY <1>3 DEF Publish, IInv, TypeOK
<1>4. ASSUME NEW r \in Requests, SaveToOutbox(r) PROVE Onwards
    <2>1. CASE /\ outbox' = [outbox EXCEPT ![r] =
                                [retry |-> 0, status |-> "pending", at |-> clock]]
               /\ pc' = [pc EXCEPT ![r] = "done"]
        <3>. DEFINE row == [retry |-> 0, status |-> "pending", at |-> clock]
        <3>1. row \in OutboxRow
            BY DEF OutboxRow, IInv, TypeOK
        <3>. HIDE DEF row
        <3>. QED
            BY <1>4, <2>1, <3>1, NoneAssumption DEF SaveToOutbox, IInv, TypeOK, row
    <2>2. CASE pc' = [pc EXCEPT ![r] = "lost"] /\ outbox' = outbox
        BY <1>4, <2>2 DEF SaveToOutbox, IInv, TypeOK
    <2>. QED
        BY <1>4, <2>1, <2>2 DEF SaveToOutbox
<1>5. CASE Poll
    BY <1>5 DEF Poll
<1>6. ASSUME NEW e \in batch, PublishEvent(e) PROVE Onwards
    BY <1>6 DEF PublishEvent
<1>7. ASSUME NEW e \in batch, FinishStep(e) PROVE Onwards
    <2>1. /\ e.row \in Requests
          /\ \E row \in OutboxRow :
                outbox' = [outbox EXCEPT ![e.row] = row] \/ outbox' = outbox
          /\ UNCHANGED <<pc, call>>
        BY <1>7, FinishEffect DEF IInv
    <2>. QED
        BY <2>1, NoneAssumption DEF IInv, TypeOK
<1>8. CASE Crash
    BY <1>8 DEF Crash, IInv, TypeOK
<1>9. CASE UNCHANGED vars
    BY <1>9 DEF vars
<1>. QED
    BY <1>1, <1>2, <1>3, <1>4, <1>5, <1>6, <1>7, <1>8, <1>9
       DEF Next, BeginStep, Handler, Worker, ProcessEvent, FinishStep

\* A request about a clear message is the only one in flight about it.
LEMMA Alone ==
    ASSUME ReadyInv, NEW m \in Requests, m \notin raced,
           NEW r \in Requests, InFlight(r), call[r].msg = m
    PROVE  \A s \in Requests : InFlight(s) /\ call[s].msg = m => s = r
BY DEF ReadyInv, Contended

\* Who is to write to a clear message finds its events as the write needs them.
LEMMA BeforeWrite ==
    ASSUME WindowInv, NEW m \in Requests, Clear(m),
           NEW r \in Requests, pc[r] = "commit", call[r].msg = m, call[r].op # "read"
    PROVE  /\ call[r].op = "send" <=> Nothing(m, Len(log))
           /\ \A i \in 1..Len(log) : Relevant(m, i) => Event(i).op # "delete"
           /\ call[r].op = "alter" => Stored(m)
<1>1. IInv /\ ReadyInv /\ call[r].op \in Ops
      /\ (call[r].op = "send" => m = r)
    BY DEF WindowInv, IInv, CallInv, Call
<1>2. CASE call[r].op = "send"
    <2>1. ASSUME NEW i \in 1..Len(log), Relevant(m, i)
          PROVE  FALSE
        <3>. DEFINE q == log[i]
        <3>1. q \in Requests /\ pc[q] \in {"save", "done", "lost"} /\ call[q].msg = r
            BY <1>1, <1>2, <2>1, EventTyped DEF Relevant, Event
        <3>2. call[q].op # "send"
            BY <1>1, <3>1 DEF IInv, CallInv
        <3>3. SentInv(r)
            BY <1>1, <3>1, <3>2 DEF IInv, AboutInv
        <3>. QED
            BY <3>3 DEF SentInv, Committed
    <2>. QED
        BY <1>2, <2>1 DEF Nothing
<1>3. CASE call[r].op # "send"
    <2>1. SentInv(m) /\ Stored(m)
        BY <1>1, <1>3 DEF IInv, AboutInv, ReadyInv
    <2>2. pc[m] # "new" /\ call[m].op = "send" /\ call[m].msg = m /\ m # r
        BY <1>1, <1>3, <2>1 DEF SentInv, IInv, CallInv
    <2>3. pc[m] \notin {"save", "lost"} /\ outbox[m] = None /\ m \notin raced
        BY <1>1, <2>2 DEF Clear
    <2>4. pc[m] # "publish"
        BY <1>1, <2>2, <2>3, Alone DEF InFlight
    <2>5. pc[m] = "done"
        BY <2>1, <2>3, <2>4 DEF SentInv, Committed
    <2>6. PICK i \in 1..Len(log) : log[i] = m
        BY <1>1, <2>3, <2>5 DEF IInv, DoneIsAccounted, Logged
    <2>7. Relevant(m, i)
        BY <2>2, <2>6 DEF Relevant, Event
    <2>8. ASSUME NEW j \in 1..Len(log), Relevant(m, j)
          PROVE  Event(j).op # "delete"
        <3>1. log[j] \in Requests /\ Committed(log[j]) /\ call[log[j]].msg = m
            BY <1>1, <2>8, EventTyped DEF Relevant, Event, Committed
        <3>. QED
            BY <1>1, <2>1, <3>1 DEF IInv, WrittenInv, Event
    <2>. QED
        BY <1>3, <2>1, <2>7, <2>8 DEF Nothing
<1>. QED
    BY <1>2, <1>3

LEMMA NextLog ==
    ASSUME IInv, [Next]_vars
    PROVE  LogStays
<1>1. \A r \in Requests : pc[r] # "new" => call'[r] = call[r]
    <2>1. ASSUME NEW r \in Requests, BeginStep(r)
          PROVE  \A q \in Requests : pc[q] # "new" => call'[q] = call[q]
        BY <2>1, BeginEffect DEF IInv, TypeOK
    <2>. QED
        BY <2>1, NextCases DEF Writes, Elsewhere, IInv
<1>2. log' = log \/ \E r \in Requests : log' = Append(log, r)
    <2>1. \A e \in batch : e.row \in Requests
        BY DEF IInv, OutboxInv, Pending
    <2>2. \A e \in batch : FinishStep(e) => log' = log
        BY FinishEffect DEF IInv
    <2>. QED
        BY <2>1, <2>2, EventCases
           DEF Still, Publish, PublishEvent, PublishOK, PublishError, SaveToOutbox,
               Poll, Crash, vars, IInv
<1>3. Len(log) \in Nat /\ log \in Seq(Requests)
    BY EventTyped DEF IInv, TypeOK
<1>4. Len(log') \in Nat /\ \A i \in 1..Len(log) : i \in 1..Len(log') /\ log'[i] = log[i]
    BY <1>2, <1>3
<1>5. \A i \in 1..Len(log) : call'[log[i]] = call[log[i]]
    BY <1>1, EventTyped
<1>. QED
    BY <1>4, <1>5 DEF LogStays

LEMMA WriteWindow ==
    ASSUME WindowInv, NEW r \in Requests, Writes(r), raced \subseteq raced',
           NEW m \in Requests, Clear(m), Clear(m)'
    PROVE  OrderInv(m)' /\ TableInv(m)'
<1>1. /\ IInv /\ OrderInv(m) /\ TableInv(m) /\ m \notin raced /\ ReadyInv
      /\ pc[r] = "commit" /\ Write(call[r]) /\ call' = call /\ log' = log
      /\ pc'[r] \in {"publish", "lost"} /\ outbox' = outbox
      /\ \A q \in Requests \ {r} : pc'[q] = pc[q]
    BY DEF WindowInv, Clear, Writes, IInv, TypeOK
<1>2. LogStays
    BY <1>1, LogSame
<1>3. Len(log) \in Nat
    BY <1>1, EventTyped
<1>4. call[r].op \in Ops /\ call[r].msg \in Requests
    BY <1>1 DEF IInv, CallInv, Call
<1>5. CASE m # call[r].msg \/ call[r].op = "read"
    <2>1. Content(m)' = Content(m)
        BY <1>1, <1>5, ContentEffect
    <2>2. \A q \in Requests : Publishing(m, q)' <=> Publishing(m, q)
        BY <1>1, <1>5 DEF Publishing
    <2>3. Steady(m)
        BY <1>1, <1>2, <2>1, <2>2 DEF Steady
    <2>. QED
        BY <1>1, <2>3, SteadyTable
<1>6. CASE m = call[r].msg /\ call[r].op # "read"
    <2>1. pc'[r] = "publish"
        BY <1>1, <1>6 DEF Clear
    <2>2. /\ call[r].op = "send" <=> Nothing(m, Len(log))
          /\ \A i \in 1..Len(log) : Relevant(m, i) => Event(i).op # "delete"
          /\ call[r].op = "alter" => Stored(m)
        BY <1>1, <1>6, BeforeWrite
    <2>3. Content(m)' = Effect(r) /\ Effect(r)' = Effect(r)
        <3>1. \/ call[r].op \in {"send", "delete"}
              \/ call[r].op = "alter" /\ Stored(m)
            BY <1>4, <1>6, <2>2 DEF Ops
        <3>2. Content(m)' = Effect(r)
            BY <1>1, <1>6, <3>1, ContentEffect
        <3>. QED
            BY <1>1, <3>2 DEF Effect
    <2>4. ASSUME NEW q \in Requests, Publishing(m, q)'
          PROVE  q = r
        <3>1. CASE q # r
            <4>1. InFlight(q) /\ call[q].msg = m /\ InFlight(r)
                BY <1>1, <2>4, <3>1 DEF Publishing, InFlight
            <4>. QED
                BY <1>1, <1>6, <4>1, Alone
        <3>. QED
            BY <3>1
    <2>5. /\ Len(log') = Len(log)
          /\ \A i \in 1..Len(log) :
                (Relevant(m, i)' <=> Relevant(m, i)) /\ Event(i)' = Event(i)
        BY <1>1, <1>2, RelevantStays
    <2>6. Nothing(m, Len(log))' <=> Nothing(m, Len(log))
        BY <2>5 DEF Nothing
    <2>7. OrderInv(m)'
        <3>1. \A i \in 1..Len(log) : \A j \in 1..i - 1 : j \in 1..Len(log)
            BY <1>3
        <3>. QED
            BY <1>1, <2>5, <3>1 DEF OrderInv, Nothing
    <2>8. Publishing(m, r)'
        BY <1>1, <1>6, <2>1 DEF Publishing
    <2>9. TableInv(m)'
        BY <1>1, <2>2, <2>3, <2>4, <2>5, <2>6, <2>8 DEF TableInv
    <2>. QED
        BY <2>7, <2>9
<1>. QED
    BY <1>5, <1>6

LEMMA PublishWindow ==
    ASSUME WindowInv, NEW r \in Requests, Publish(r), raced \subseteq raced',
           NEW m \in Requests, Clear(m), Clear(m)'
    PROVE  OrderInv(m)' /\ TableInv(m)'
<1>1. /\ IInv /\ OrderInv(m) /\ TableInv(m) /\ m \notin raced /\ ReadyInv
      /\ pc[r] = "publish" /\ call' = call /\ messages' = messages /\ outbox' = outbox
      /\ pc'[r] \in {"done", "save"}
      /\ \A q \in Requests \ {r} : pc'[q] = pc[q]
      /\ \/ log' = Append(log, r)
         \/ log' = log /\ pc'[r] = "save"
    BY DEF WindowInv, Clear, Publish, PublishOK, PublishError, IInv, TypeOK, store
<1>2. /\ LogStays
      /\ \/ log' = log /\ pc'[r] = "save"
         \/ Len(log') = Len(log) + 1 /\ log'[Len(log) + 1] = r
    BY <1>1, LogSame, LogAppends
<1>3. Len(log) \in Nat
    BY <1>1, EventTyped
<1>4. Content(m)' = Content(m)
    BY <1>1 DEF Content, Stored
<1>5. CASE m # call[r].msg \/ call[r].op = "read"
    <2>1. \A q \in Requests : Publishing(m, q)' <=> Publishing(m, q)
        BY <1>1, <1>5 DEF Publishing
    <2>2. \A i \in 1..Len(log') : i \notin 1..Len(log) => ~Relevant(m, i)'
        BY <1>1, <1>2, <1>3, <1>5 DEF Relevant, Event
    <2>3. Steady(m)
        BY <1>1, <1>2, <1>4, <2>1, <2>2 DEF Steady
    <2>. QED
        BY <1>1, <1>2, <2>3, SteadyTable
<1>6. CASE m = call[r].msg /\ call[r].op # "read"
    <2>. PICK k \in Nat : k = Len(log) + 1
        BY <1>3
    <2>1. /\ Len(log') = k /\ log'[k] = r /\ pc'[r] = "done"
          /\ k \in 1..k /\ \A i \in 1..k : i # k => i \in 1..Len(log)
        BY <1>1, <1>2, <1>3, <1>6 DEF Clear
    <2>2. Event(k)' = call[r] /\ Relevant(m, k)' /\ Effect(log[k])' = Effect(r)
        BY <1>1, <1>6, <2>1 DEF Event, Relevant, Effect
    <2>3. Publishing(m, r)
        BY <1>1, <1>6 DEF Publishing
    <2>4. /\ Content(m) = Effect(r)
          /\ call[r].op = "send" <=> Nothing(m, Len(log))
          /\ \A i \in 1..Len(log) : Relevant(m, i) => Event(i).op # "delete"
        BY <1>1, <2>3 DEF TableInv
    <2>5. \A q \in Requests : ~Publishing(m, q)'
        <3>1. \A q \in Requests : q # r /\ Publishing(m, q)' => InFlight(q) /\ call[q].msg = m
            BY <1>1 DEF Publishing, InFlight
        <3>2. InFlight(r)
            BY <1>1 DEF InFlight
        <3>. QED
            BY <1>1, <1>6, <2>1, <3>1, <3>2, Alone DEF Publishing
    <2>6. \A i \in 1..Len(log) :
              (Relevant(m, i)' <=> Relevant(m, i)) /\ Event(i)' = Event(i)
        BY <1>1, <1>2, RelevantStays
    <2>7. ASSUME NEW i \in 1..Len(log'), NEW j \in 1..Len(log'),
                 i < j, Relevant(m, i)', Relevant(m, j)'
          PROVE  Event(i)'.op # "delete" /\ Event(j)'.op # "send"
        <3>1. i \in 1..Len(log) /\ Relevant(m, i) /\ Event(i)' = Event(i)
            BY <1>3, <2>1, <2>6, <2>7
        <3>2. CASE j = k
            BY <2>2, <2>4, <3>1, <3>2 DEF Nothing
        <3>3. CASE j # k
            BY <1>1, <2>1, <2>6, <2>7, <3>1, <3>3 DEF OrderInv
        <3>. QED
            BY <3>2, <3>3
    <2>8. ASSUME NEW i \in 1..Len(log'), Relevant(m, i)', Event(i)'.op # "send"
          PROVE  \E j \in 1..i - 1 : Relevant(m, j)'
        <3>1. CASE i = k
            BY <1>3, <2>2, <2>4, <2>6, <2>8, <3>1 DEF Nothing
        <3>2. CASE i # k
            <4>1. i \in 1..Len(log) /\ \A j \in 1..i - 1 : j \in 1..Len(log)
                BY <1>3, <2>1, <3>2
            <4>2. PICK j \in 1..i - 1 : Relevant(m, j)
                BY <1>1, <2>6, <2>8, <4>1 DEF OrderInv, Nothing
            <4>. QED
                BY <2>6, <4>1, <4>2
        <3>. QED
            BY <3>1, <3>2
    <2>9. OrderInv(m)'
        BY <2>7, <2>8 DEF OrderInv, Nothing
    <2>10. \A j \in 1..Len(log') : ~(j > k)
        BY <1>3, <2>1
    <2>11. TableInv(m)'
        BY <1>4, <2>1, <2>2, <2>4, <2>5, <2>10 DEF TableInv, Latest
    <2>. QED
        BY <1>2, <2>9, <2>11
<1>. QED
    BY <1>5, <1>6

LEMMA NextTable ==
    ASSUME WindowInv, Next, raced' = raced \cup Contended', NEW m \in Requests, Clear(m)'
    PROVE  OrderInv(m)' /\ TableInv(m)'
<1>1. IInv /\ ReadyInv /\ raced \subseteq raced' /\ [Next]_vars
    BY DEF WindowInv
<1>2. Clear(m)
    BY <1>1, NextOnwards, Clears
<1>3. OrderInv(m) /\ TableInv(m) /\ Len(log) \in Nat
    BY <1>1, <1>2, EventTyped DEF WindowInv
<1>. LogStays
    BY <1>1, NextLog
<1>4. ASSUME NEW r \in Requests, BeginStep(r)
      PROVE  OrderInv(m)' /\ TableInv(m)'
    <2>1. PICK c \in Call :
              /\ pc[r] = "new"
              /\ pc' = [pc EXCEPT ![r] = "commit"]
              /\ call' = [call EXCEPT ![r] = c]
              /\ UNCHANGED <<store, outbox, log, worker, faults>>
        BY <1>1, <1>4, BeginEffect DEF IInv
    <2>2. /\ pc'[r] = "commit" /\ log' = log /\ messages' = messages
          /\ \A q \in Requests \ {r} : pc'[q] = pc[q] /\ call'[q] = call[q]
        BY <1>1, <2>1 DEF IInv, TypeOK, store
    <2>3. Content(m)' = Content(m)
        BY <2>2 DEF Content, Stored
    <2>4. \A q \in Requests : /\ Publishing(m, q)' <=> Publishing(m, q)
                              /\ Publishing(m, q) => call'[q] = call[q]
        BY <2>1, <2>2 DEF Publishing
    <2>5. Steady(m)
        BY <2>2, <2>3, <2>4 DEF Steady
    <2>. QED
        BY <1>1, <1>3, <2>5, SteadyTable
<1>5. ASSUME NEW r \in Requests, Writes(r)
      PROVE  OrderInv(m)' /\ TableInv(m)'
    BY <1>1, <1>2, <1>5, WriteWindow
<1>6. ASSUME NEW r \in Requests, Publish(r)
      PROVE  OrderInv(m)' /\ TableInv(m)'
    BY <1>1, <1>2, <1>6, PublishWindow
<1>7. ASSUME log' = log \/ \E q \in Requests : log' = Append(log, q) /\ outbox[q] # None,
             messages' = messages, call' = call,
             \A r \in Requests : pc'[r] = "publish" => pc[r] = "publish",
             \A r \in Requests : pc[r] = "publish" => pc'[r] \in {"publish", "lost"}
      PROVE  OrderInv(m)' /\ TableInv(m)'
    <2>1. \A i \in 1..Len(log') : i \notin 1..Len(log) => ~Relevant(m, i)'
        <3>1. CASE log' = log
            BY <3>1
        <3>2. CASE \E q \in Requests : log' = Append(log, q) /\ outbox[q] # None
            <4>1. PICK q \in Requests : log' = Append(log, q) /\ outbox[q] # None
                BY <3>2
            <4>2. Len(log') = Len(log) + 1 /\ log'[Len(log) + 1] = q
                BY <1>1, <1>7, <4>1, LogAppends
            <4>3. call[q].msg # m
                BY <1>1, <1>2, <4>1 DEF Clear, IInv, EventInv
            <4>. QED
                BY <1>3, <1>7, <4>2, <4>3 DEF Relevant, Event
        <3>. QED
            BY <1>7, <3>1, <3>2
    <2>2. Content(m)' = Content(m)
        BY <1>7 DEF Content, Stored
    <2>3. \A q \in Requests : Publishing(m, q)' <=> Publishing(m, q)
        BY <1>7 DEF Publishing, Clear
    <2>4. Steady(m)
        BY <1>7, <2>1, <2>2, <2>3 DEF Steady
    <2>. QED
        BY <1>1, <1>3, <2>1, <2>4, SteadyTable
<1>8. ASSUME NEW r \in Requests, CommitFails(r)
      PROVE  OrderInv(m)' /\ TableInv(m)'
    <2>1. CASE Writes(r)
        BY <1>5, <2>1
    <2>2. CASE UNCHANGED store /\ pc' = [pc EXCEPT ![r] = "failed"]
        BY <1>1, <1>7, <1>8, <2>2 DEF CommitFails, store, IInv, TypeOK
    <2>. QED
        BY <1>8, <2>1, <2>2 DEF CommitFails, Writes
<1>9. ASSUME NEW r \in Requests, SaveToOutbox(r)
      PROVE  OrderInv(m)' /\ TableInv(m)'
    BY <1>1, <1>7, <1>9 DEF SaveToOutbox, store, IInv, TypeOK
<1>10. CASE Poll
    BY <1>7, <1>10 DEF Poll, store
<1>11. ASSUME NEW e \in batch, PublishEvent(e)
       PROVE  OrderInv(m)' /\ TableInv(m)'
    <2>1. e.row \in Requests /\ outbox[e.row] # None
        BY <1>1 DEF IInv, OutboxInv, Pending
    <2>2. log' = log \/ log' = Append(log, e.row)
        BY <1>11 DEF PublishEvent, PublishOK, PublishError
    <2>. QED
        BY <1>7, <1>11, <2>1, <2>2 DEF PublishEvent, store
<1>12. ASSUME NEW e \in batch, FinishStep(e)
       PROVE  OrderInv(m)' /\ TableInv(m)'
    <2>1. UNCHANGED <<store, log, pc, call>>
        BY <1>1, <1>12, FinishEffect DEF IInv
    <2>. QED
        BY <1>7, <2>1 DEF store
<1>13. CASE Crash
    BY <1>1, <1>7, <1>13 DEF Crash, store, IInv, TypeOK
<1>14. ASSUME NEW r \in Requests, Commit(r) PROVE Writes(r)
    BY <1>14 DEF Commit, Writes, faults
<1>. QED
    BY <1>4, <1>5, <1>6, <1>8, <1>9, <1>10, <1>11, <1>12, <1>13, <1>14
       DEF Next, BeginStep, Handler, Worker, ProcessEvent, FinishStep

LEMMA NextReady ==
    ASSUME WindowInv, Next, raced' = raced \cup Contended'
    PROVE  ReadyInv'
<1>1. IInv /\ ReadyInv /\ raced \subseteq raced' /\ [Next]_vars
    BY DEF WindowInv
<1>2. \A m \in Requests : Clear(m)' => Clear(m)
    BY <1>1, NextOnwards, Clears
<1>. SUFFICES ASSUME NEW r \in Requests, NEW m \in Requests,
                     pc'[r] = "commit", call'[r].op # "send", call'[r].msg = m, Clear(m)'
              PROVE  messages'[m] # None
    <2>1. IInv'
        BY <1>1, NextInv
    <2>2. \A r \in Requests : pc'[r] = "commit" => call'[r].msg \in Requests
        BY <2>1 DEF IInv, CallInv, Call
    <2>. QED
        BY <2>2 DEF ReadyInv, Stored
<1>3. ASSUME pc[r] = "commit", call'[r] = call[r] PROVE Stored(m)
    BY <1>1, <1>2, <1>3 DEF ReadyInv
<1>4. ASSUME NEW q \in Requests, BeginStep(q) PROVE messages'[m] # None
    <2>1. PICK c \in Call :
              /\ pc' = [pc EXCEPT ![q] = "commit"]
              /\ call' = [call EXCEPT ![q] = c]
              /\ c.op # "send" => Stored(c.msg)
              /\ UNCHANGED store
        BY <1>1, <1>4, BeginEffect DEF IInv
    <2>2. CASE q = r
        BY <1>1, <2>1, <2>2 DEF IInv, TypeOK, store, Stored
    <2>3. CASE q # r
        BY <1>1, <1>3, <2>1, <2>3 DEF IInv, TypeOK, store, Stored
    <2>. QED
        BY <2>2, <2>3
<1>5. ASSUME NEW q \in Requests, Writes(q) PROVE messages'[m] # None
    <2>1. /\ q # r /\ pc[r] = "commit" /\ call' = call
          /\ pc[q] = "commit" /\ Write(call[q])
        BY <1>1, <1>5 DEF Writes, IInv, TypeOK
    <2>2. Stored(m) /\ m \notin raced /\ InFlight(r) /\ InFlight(q)
        BY <1>2, <1>3, <2>1 DEF Clear, InFlight
    <2>3. call[q].msg # m
        BY <1>1, <2>1, <2>2, Alone
    <2>4. Stored(m)'
        BY <1>1, <2>1, <2>2, <2>3, ContentEffect
    <2>. QED
        BY <2>4 DEF Stored
<1>6. ASSUME messages' = messages, call' = call,
             \A q \in Requests : pc'[q] = "commit" => pc[q] = "commit"
      PROVE  messages'[m] # None
    BY <1>3, <1>6 DEF Stored
<1>7. ASSUME NEW q \in Requests, CommitFails(q) PROVE messages'[m] # None
    <2>1. CASE Writes(q)
        BY <1>5, <2>1
    <2>2. CASE UNCHANGED store /\ pc' = [pc EXCEPT ![q] = "failed"]
        BY <1>1, <1>6, <1>7, <2>2 DEF CommitFails, store, IInv, TypeOK
    <2>. QED
        BY <1>7, <2>1, <2>2 DEF CommitFails, Writes
<1>8. ASSUME NEW q \in Requests, Publish(q) \/ SaveToOutbox(q) PROVE messages'[m] # None
    BY <1>1, <1>6, <1>8 DEF Publish, SaveToOutbox, store, IInv, TypeOK
<1>9. CASE Poll
    BY <1>6, <1>9 DEF Poll, store
<1>10. ASSUME NEW e \in batch, PublishEvent(e) PROVE messages'[m] # None
    BY <1>6, <1>10 DEF PublishEvent, store
<1>11. ASSUME NEW e \in batch, FinishStep(e) PROVE messages'[m] # None
    <2>1. UNCHANGED <<store, pc, call>>
        BY <1>1, <1>11, FinishEffect DEF IInv
    <2>. QED
        BY <1>6, <2>1 DEF store
<1>12. CASE Crash
    BY <1>1, <1>6, <1>12 DEF Crash, store, IInv, TypeOK
<1>13. ASSUME NEW q \in Requests, Commit(q) PROVE Writes(q)
    BY <1>13 DEF Commit, Writes, faults
<1>. QED
    BY <1>4, <1>5, <1>7, <1>8, <1>9, <1>10, <1>11, <1>12, <1>13
       DEF Next, BeginStep, Handler, Worker, ProcessEvent, FinishStep

\* The last event of a message is one.
LEMMA LatestOne ==
    ASSUME NEW m \in Requests, NEW k \in Nat,
           NEW i \in 1..k, NEW j \in 1..k, Latest(m, k, i), Latest(m, k, j)
    PROVE  i = j
BY DEF Latest

LEMMA ArriveWindow ==
    ASSUME WindowInv, Arrive
    PROVE  PlaceInv' /\ \A m \in Requests : Clear(m)' => ViewInv(m)'
<1>. PICK n \in Nat : n = next
    BY EventTyped DEF WindowInv, PlaceInv
<1>. DEFINE c == Event(n)
<1>1. /\ IInv /\ PlaceInv /\ UNCHANGED vars /\ next = n /\ next' = n + 1
      /\ n \in 1..Len(log) /\ Len(log) \in Nat
      /\ log' = log /\ call' = call
    BY EventTyped DEF WindowInv, PlaceInv, Arrive, vars
<1>2. /\ c.op \in Ops /\ c.msg \in Requests
      /\ c.op \in {"send", "alter"} => c.content \in Contents
    BY <1>1, EventTyped
<1>3. /\ raced' = raced \cup {m \in {c.msg} : \E i \in decrypting : Event(i).msg = m}
      /\ \/ /\ c.op = "delete"
            /\ view' = [view EXCEPT ![c.msg] = None]
            /\ decrypting' = decrypting
         \/ /\ c.op \in {"send", "alter"}
            /\ decrypting' = decrypting \cup {n}
            /\ view' = view
         \/ /\ c.op = "read"
            /\ view' = view /\ decrypting' = decrypting
    BY DEF Arrive
<1>. HIDE DEF c
<1>4. \A i \in Nat : Event(i)' = Event(i) /\ Effect(log[i])' = Effect(log[i])
    BY <1>1 DEF Event, Effect
<1>5. \A m \in Requests : \A i \in Nat : Relevant(m, i)' <=> Relevant(m, i)
    BY <1>4 DEF Relevant
<1>6. PlaceInv'
    <2>1. view' \in [Requests -> Contents \cup {None}]
        BY <1>1, <1>2, <1>3 DEF PlaceInv
    <2>2. \A i \in decrypting' : \/ i \in 1..n - 1 /\ Event(i).op \in {"send", "alter"}
                                 \/ i = n /\ Event(i).op \in {"send", "alter"}
        BY <1>1, <1>3 DEF PlaceInv, c
    <2>. QED
        BY <1>1, <1>4, <2>1, <2>2 DEF PlaceInv
<1>7. ASSUME NEW m \in Requests, Clear(m)'
      PROVE  ViewInv(m)'
    <2>1. m \notin raced' /\ Clear(m)
        <3>1. raced \subseteq raced' /\ [Next]_vars
            BY <1>1, <1>3
        <3>. QED
            BY <1>1, <1>7, <3>1, NextOnwards, Clears DEF Clear
    <2>2. OrderInv(m) /\ ViewInv(m)
        BY <2>1 DEF WindowInv
    <2>3. CASE ~Relevant(m, n)
        <3>1. view'[m] = view[m]
            BY <1>1, <1>2, <1>3, <2>3 DEF Relevant, c, PlaceInv
        <3>2. \A j \in decrypting' : Relevant(m, j) => j \in decrypting
            BY <1>3, <2>3
        <3>3. n \notin decrypting
            BY <1>1 DEF PlaceInv
        <3>4. \A i \in 1..n - 1 : i \in decrypting' <=> i \in decrypting
            BY <1>1, <1>3
        <3>5. \A i \in 1..n : i \in 1..n - 1 \/ i = n
            BY <1>1
        <3>6. CASE Nothing(m, n - 1) /\ view[m] = None
            BY <1>1, <1>5, <2>3, <3>1, <3>5, <3>6 DEF ViewInv, Nothing
        <3>7. ASSUME NEW i \in 1..n - 1,
                     Latest(m, n - 1, i),
                     \A j \in decrypting : Relevant(m, j) => j = i,
                     i \notin decrypting => view[m] = Effect(log[i]),
                     i \in decrypting => (view[m] = None <=> Event(i).op = "send")
              PROVE  ViewInv(m)'
            <4>1. i \in Nat /\ i \in 1..n
                BY <1>1
            <4>2. Latest(m, n, i)'
                <5>1. \A j \in 1..n : j > i => ~Relevant(m, j)
                    BY <2>3, <3>5, <3>7 DEF Latest
                <5>. QED
                    BY <1>5, <3>7, <4>1, <5>1 DEF Latest
            <4>3. \A j \in decrypting' : j \in Nat
                BY <1>1, <1>3 DEF PlaceInv
            <4>. QED
                BY <1>1, <1>4, <1>5, <3>1, <3>2, <3>4, <3>7, <4>1, <4>2, <4>3 DEF ViewInv
        <3>. QED
            BY <2>2, <3>6, <3>7 DEF ViewInv
    <2>4. CASE Relevant(m, n)
        <3>1. c.msg = m /\ c.op \in {"send", "alter", "delete"}
            BY <1>2, <2>4 DEF Relevant, c, Ops
        <3>2. \A j \in decrypting : ~Relevant(m, j)
            BY <1>3, <2>1, <3>1 DEF Relevant
        <3>3. Latest(m, n, n)'
            BY <1>1, <1>5, <2>4 DEF Latest
        <3>4. n \in 1..n /\ n \notin decrypting
            BY <1>1 DEF PlaceInv
        <3>5. \A j \in decrypting' : Relevant(m, j)' => j = n
            <4>1. \A j \in decrypting' : j \in Nat
                BY <1>1, <1>3 DEF PlaceInv
            <4>. QED
                BY <1>3, <1>5, <3>2, <4>1
        <3>6. CASE c.op = "delete"
            <4>1. Effect(log[n]) = None
                BY <3>6 DEF Effect, Event, c
            <4>2. view'[m] = None /\ decrypting' = decrypting
                BY <1>1, <1>3, <3>1, <3>6 DEF PlaceInv
            <4>. QED
                BY <1>1, <1>4, <3>3, <3>4, <3>5, <4>1, <4>2 DEF ViewInv
        <3>7. CASE c.op \in {"send", "alter"}
            <4>1. n \in decrypting' /\ view' = view
                BY <1>3, <3>7
            <4>2. view[m] = None <=> Event(n).op = "send"
                <5>1. CASE c.op = "send"
                    <6>1. \A j \in 1..n - 1 : ~Relevant(m, j)
                        BY <1>1, <2>2, <2>4, <5>1 DEF OrderInv, c
                    <6>. QED
                        BY <2>2, <5>1, <6>1 DEF ViewInv, Latest, c
                <5>2. CASE c.op = "alter"
                    <6>1. ~Nothing(m, n - 1)
                        BY <1>1, <2>2, <2>4, <5>2 DEF OrderInv, c
                    <6>2. PICK i \in 1..n - 1 :
                              /\ Latest(m, n - 1, i)
                              /\ i \notin decrypting => view[m] = Effect(log[i])
                        BY <2>2, <6>1 DEF ViewInv
                    <6>3. i \in 1..Len(log) /\ i < n /\ Relevant(m, i)
                        BY <1>1, <6>2 DEF Latest
                    <6>4. Event(i).op # "delete" /\ Event(i).op # "read"
                        BY <1>1, <2>2, <2>4, <6>3 DEF OrderInv, Relevant
                    <6>5. Event(i).op \in {"send", "alter"}
                        BY <1>1, <6>3, <6>4, EventTyped DEF Ops
                    <6>6. Event(i).content \in Contents
                        BY <1>1, <6>3, <6>5, EventTyped
                    <6>7. Effect(log[i]) \in Contents
                        BY <6>5, <6>6 DEF Effect, Event
                    <6>8. view[m] = Effect(log[i])
                        BY <3>2, <6>2, <6>3
                    <6>. QED
                        BY <5>2, <6>7, <6>8, NoneAssumption DEF c
                <5>. QED
                    BY <3>7, <5>1, <5>2
            <4>. QED
                BY <1>1, <1>4, <3>3, <3>4, <3>5, <4>1, <4>2 DEF ViewInv
        <3>. QED
            BY <3>1, <3>6, <3>7
    <2>. QED
        BY <2>3, <2>4
<1>. QED
    BY <1>6, <1>7

LEMMA DecryptedWindow ==
    ASSUME WindowInv, NEW k \in decrypting, Decrypted(k)
    PROVE  PlaceInv' /\ \A m \in Requests : Clear(m)' => ViewInv(m)'
<1>. DEFINE c == Event(k)
<1>1. /\ IInv /\ PlaceInv /\ UNCHANGED vars /\ next' = next /\ raced' = raced
      /\ log' = log /\ call' = call /\ decrypting' = decrypting \ {k}
      /\ k \in 1..next - 1 /\ next \in Nat /\ k \in 1..Len(log)
    BY EventTyped DEF WindowInv, PlaceInv, Decrypted, vars
<1>2. c.op \in {"send", "alter"} /\ c.msg \in Requests /\ c.content \in Contents
    BY <1>1, EventTyped DEF PlaceInv
<1>3. /\ (c.op = "send") = (view[c.msg] = None) =>
            view' = [view EXCEPT ![c.msg] = c.content]
      /\ ~((c.op = "send") = (view[c.msg] = None)) => view' = view
    BY DEF Decrypted, Show
<1>4. \A i \in Nat : Event(i)' = Event(i) /\ Effect(log[i])' = Effect(log[i])
    BY <1>1 DEF Event, Effect
<1>5. \A m \in Requests : \A i \in Nat : Relevant(m, i)' <=> Relevant(m, i)
    BY <1>4 DEF Relevant
<1>. HIDE DEF c
<1>6. PlaceInv'
    <2>1. view' \in [Requests -> Contents \cup {None}]
        BY <1>1, <1>2, <1>3 DEF PlaceInv
    <2>. QED
        BY <1>1, <1>4, <2>1 DEF PlaceInv
<1>7. ASSUME NEW m \in Requests, Clear(m)'
      PROVE  ViewInv(m)'
    <2>1. Clear(m)
        <3>1. raced \subseteq raced' /\ [Next]_vars
            BY <1>1
        <3>. QED
            BY <1>1, <1>7, <3>1, NextOnwards, Clears
    <2>2. ViewInv(m)
        BY <2>1 DEF WindowInv
    <2>3. CASE c.msg # m
        <3>1. view'[m] = view[m]
            BY <1>1, <1>2, <1>3, <2>3 DEF PlaceInv
        <3>2. CASE Nothing(m, next - 1) /\ view[m] = None
            BY <1>1, <1>5, <3>1, <3>2 DEF ViewInv, Nothing
        <3>3. ASSUME NEW i \in 1..next - 1,
                     Latest(m, next - 1, i),
                     \A j \in decrypting : Relevant(m, j) => j = i,
                     i \notin decrypting => view[m] = Effect(log[i]),
                     i \in decrypting => (view[m] = None <=> Event(i).op = "send")
              PROVE  ViewInv(m)'
            <4>1. i # k /\ i \in Nat
                BY <1>1, <2>3, <3>3 DEF Latest, Relevant, c
            <4>2. i \in decrypting' <=> i \in decrypting
                BY <1>1, <4>1
            <4>3. Latest(m, next - 1, i)'
                BY <1>1, <1>5, <3>3 DEF Latest
            <4>4. \A j \in decrypting' : Relevant(m, j)' => j = i
                BY <1>1, <1>5, <3>3 DEF PlaceInv
            <4>. QED
                BY <1>1, <1>4, <3>1, <3>3, <4>1, <4>2, <4>3, <4>4 DEF ViewInv
        <3>. QED
            BY <2>2, <3>2, <3>3 DEF ViewInv
    <2>4. CASE c.msg = m
        <3>1. Relevant(m, k)
            BY <1>2, <2>4 DEF Relevant, c
        <3>2. /\ Latest(m, next - 1, k)
              /\ \A j \in decrypting : Relevant(m, j) => j = k
              /\ view[m] = None <=> c.op = "send"
            BY <1>1, <2>2, <3>1 DEF ViewInv, Nothing, c
        <3>3. view'[m] = c.content
            BY <1>1, <1>2, <1>3, <2>4, <3>2 DEF PlaceInv
        <3>4. Effect(log[k]) = c.content
            BY <1>2 DEF Effect, Event, c
        <3>5. Latest(m, next - 1, k)' /\ k \in 1..next' - 1 /\ k \notin decrypting'
            BY <1>1, <1>5, <3>2 DEF Latest
        <3>6. \A j \in decrypting' : Relevant(m, j)' => j = k
            BY <1>1, <1>5, <3>2 DEF PlaceInv
        <3>. QED
            BY <1>1, <1>4, <3>3, <3>4, <3>5, <3>6 DEF ViewInv
    <2>. QED
        BY <2>3, <2>4
<1>. QED
    BY <1>6, <1>7

LEMMA InitWindow ==
    ASSUME WInit
    PROVE  WindowInv
<1>1. IInv
    BY InitInv DEF WInit
<1>2. /\ Len(log) = 0 /\ next = 1 /\ decrypting = {} /\ raced = {}
      /\ view = [m \in Requests |-> None] /\ messages = [m \in Requests |-> None]
      /\ \A r \in Requests : pc[r] = "new"
    BY DEF WInit, Init
<1>3. PlaceInv
    BY <1>2 DEF PlaceInv
<1>4. ReadyInv
    BY <1>2 DEF ReadyInv, Contended, InFlight
<1>5. \A m \in Requests : OrderInv(m)
    BY <1>2 DEF OrderInv
<1>6. \A m \in Requests : TableInv(m)
    BY <1>2 DEF TableInv, Publishing, Nothing, Content, Stored
<1>7. \A m \in Requests : ViewInv(m)
    BY <1>2 DEF ViewInv, Nothing
<1>. QED
    BY <1>1, <1>3, <1>4, <1>5, <1>6, <1>7 DEF WindowInv

\* The window's own steps leave the service and the requests alone.
LEMMA WindowSame ==
    ASSUME WindowInv, UNCHANGED vars, raced \subseteq raced'
    PROVE  /\ IInv' /\ ReadyInv' /\ LogStays
           /\ \A m \in Requests : Clear(m)' => OrderInv(m)' /\ TableInv(m)'
<1>1. IInv /\ ReadyInv /\ [Next]_vars
    BY DEF WindowInv
<1>2. IInv' /\ LogStays /\ \A m \in Requests : Clear(m)' => Clear(m)
    BY <1>1, NextInv, NextLog, NextOnwards, Clears
<1>3. /\ pc' = pc /\ call' = call /\ log' = log /\ messages' = messages
    BY DEF vars
<1>4. ReadyInv'
    <2>1. Contended' = Contended
        BY <1>3 DEF Contended, InFlight
    <2>2. ASSUME NEW r \in Requests, NEW m \in Requests,
                 pc[r] = "commit", call[r].op # "send", call[r].msg = m, Clear(m)'
          PROVE  messages[m] # None
        BY <1>1, <1>2, <2>2 DEF ReadyInv, Stored
    <2>3. \A r \in Requests : pc[r] = "commit" => call[r].msg \in Requests
        BY <1>1 DEF IInv, CallInv, Call
    <2>. QED
        BY <1>1, <1>3, <2>1, <2>2, <2>3 DEF ReadyInv, Stored
<1>5. ASSUME NEW m \in Requests, Clear(m)'
      PROVE  OrderInv(m)' /\ TableInv(m)'
    <2>1. Steady(m)
        BY <1>2, <1>3 DEF Steady, Content, Stored, Publishing
    <2>. QED
        BY <1>1, <1>2, <1>5, <2>1, SteadyTable DEF WindowInv
<1>. QED
    BY <1>2, <1>4, <1>5

LEMMA WindowStep ==
    ASSUME WindowInv, [WNext]_<<vars, window>>
    PROVE  WindowInv'
<1>1. IInv /\ PlaceInv /\ ReadyInv
    BY DEF WindowInv
<1>2. ASSUME Next, raced' = raced \cup Contended', UNCHANGED <<view, next, decrypting>>
      PROVE  WindowInv'
    <2>1. IInv' /\ ReadyInv' /\ LogStays
        BY <1>1, <1>2, NextInv, NextReady, NextLog
    <2>2. \A m \in Requests : Clear(m)' => OrderInv(m)' /\ TableInv(m)'
        BY <1>2, NextTable
    <2>3. PlaceInv' /\ \A m \in Requests : ViewInv(m) => ViewInv(m)'
        BY <1>1, <1>2, <2>1, ViewStays
    <2>4. \A m \in Requests : Clear(m)' => Clear(m)
        BY <1>1, <1>2, NextOnwards, Clears
    <2>. QED
        BY <2>1, <2>2, <2>3, <2>4 DEF WindowInv
<1>3. CASE Arrive
    <2>1. UNCHANGED vars /\ raced \subseteq raced'
        BY <1>3 DEF Arrive
    <2>. QED
        BY <1>3, <2>1, WindowSame, ArriveWindow DEF WindowInv
<1>4. ASSUME NEW i \in decrypting, Decrypted(i) PROVE WindowInv'
    <2>1. UNCHANGED vars /\ raced \subseteq raced'
        BY <1>4 DEF Decrypted
    <2>. QED
        BY <1>4, <2>1, WindowSame, DecryptedWindow DEF WindowInv
<1>5. CASE UNCHANGED <<vars, window>>
    <2>1. UNCHANGED vars /\ UNCHANGED <<view, next, decrypting>> /\ raced' = raced
        BY <1>5 DEF window
    <2>2. IInv' /\ ReadyInv' /\ LogStays
          /\ \A m \in Requests : Clear(m)' => OrderInv(m)' /\ TableInv(m)'
        BY <2>1, WindowSame
    <2>3. PlaceInv' /\ \A m \in Requests : ViewInv(m) => ViewInv(m)'
        BY <1>1, <2>1, <2>2, ViewStays
    <2>4. \A m \in Requests : Clear(m)' => Clear(m)
        BY <1>1, <2>1, NextOnwards, Clears
    <2>. QED
        BY <2>2, <2>3, <2>4 DEF WindowInv
<1>. QED
    BY <1>2, <1>3, <1>4, <1>5 DEF WNext

LEMMA InductiveWindow == WSpec => []WindowInv
BY InitWindow, WindowStep, PTL DEF WSpec

\* Whatever the order in which the events of the topic arrive at the window and
\* are decrypted, and whatever faults there are: when nothing is in flight, the
\* recipient sees every message as the table has it, but for those with an event
\* that was retried, lost or raced with another one.
THEOREM Converges == WSpec => []ViewConverges
<1>1. WindowInv => ViewConverges
    <2>. SUFFICES ASSUME WindowInv, Quiet, NEW m \in Requests \ (Retried \cup Lost \cup raced)
                  PROVE  view[m] = Content(m)
        BY DEF ViewConverges, Content
    <2>1. IInv /\ PlaceInv /\ m \in Requests
        BY DEF WindowInv
    <2>2. Len(log) \in Nat /\ next = Len(log) + 1 /\ decrypting = {}
        BY <2>1, EventTyped DEF Quiet, PlaceInv
    <2>3. Clear(m)
        BY DEF Clear, Quiet, InFlight, Retried, Lost
    <2>4. TableInv(m) /\ ViewInv(m)
        BY <2>1, <2>3 DEF WindowInv
    <2>5. \/ Nothing(m, Len(log)) /\ Content(m) = None
          \/ \E i \in 1..Len(log) : Latest(m, Len(log), i) /\ Content(m) = Effect(log[i])
        BY <2>4 DEF TableInv, Publishing, Quiet, InFlight
    <2>6. \/ Nothing(m, Len(log)) /\ view[m] = None
          \/ \E i \in 1..Len(log) : Latest(m, Len(log), i) /\ view[m] = Effect(log[i])
        BY <2>2, <2>4 DEF ViewInv
    <2>7. \A i \in 1..Len(log) : Latest(m, Len(log), i) => ~Nothing(m, Len(log))
        BY DEF Latest, Nothing
    <2>. QED
        BY <2>1, <2>2, <2>5, <2>6, <2>7, LatestOne
<1>. QED
    BY InductiveWindow, <1>1, PTL
=============================================================================
