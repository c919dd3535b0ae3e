--------------------------- MODULE ClientRequests ---------------------------
(***************************************************************************)
(* The requests of the browser (messages.ts) over the sockets of           *)
(* WebSocketClient.  Answers carry no id: each request subscribes a handler *)
(* that takes the first frame of its type, or the first error, for its own *)
(* answer.  The handlers belong to the client and outlive connections.     *)
(***************************************************************************)
EXTENDS WebSocketClient

VARIABLES
    state,     \* per request: new, pending, resolved, rejected
    handlers,  \* the requests whose handler is subscribed
    op, conn,  \* per request: its operation, the connection it was sent on
    by,        \* per request: the frame it was settled with
    got        \* history: the frames received, per connection

requests == <<state, handlers, op, conn, by, got>>
client == <<websocket, requests>>
vars == <<session, client>>

States == {"new", "pending", "resolved", "rejected"}

TypeOK ==
    /\ SessionTypeOK /\ WebSocketTypeOK
    /\ state \in [Requests -> States]
    /\ handlers \subseteq {r \in Requests : state[r] # "new"}
    /\ op \in [Requests -> Ops \cup {None}] /\ conn \in [Requests -> Conns \cup {None}]
    /\ by \in [Requests -> Frame \cup {None}]
    /\ got \in [Conns -> Seq(Frame)]

Init ==
    /\ GInit /\ WInit
    /\ state = [r \in Requests |-> "new"]
    /\ handlers = {}
    /\ op = [r \in Requests |-> None] /\ conn = [r \in Requests |-> None]
    /\ by = [r \in Requests |-> None]
    /\ got = [c \in Conns |-> <<>>]

-----------------------------------------------------------------------------
(* Requests.                                                               *)

\* Once waitForConnection has returned, a request is sent, and its handler
\* subscribed.
Send(r) ==
    /\ CanSend
    /\ \A s \in Requests : state[s] = "new" <=> s >= r
    /\ \E o \in Ops :
          /\ Emit(ws, [id |-> r, op |-> o])
          /\ op' = [op EXCEPT ![r] = o]
    /\ state' = [state EXCEPT ![r] = "pending"]
    /\ conn' = [conn EXCEPT ![r] = ws]
    /\ handlers' = handlers \cup {r}
    /\ UNCHANGED <<websocket, by, got>>

\* The promise is rejected; the handler stays.
Timeout(r) ==
    /\ state[r] = "pending"
    /\ state' = [state EXCEPT ![r] = "rejected"]
    /\ UNCHANGED <<session, websocket, handlers, op, conn, by, got>>

\* getChats does not look at errors.
Accepts(r, frame) ==
    \/ frame.type = AnswerType[op[r]]
    \/ frame.type = "error" /\ op[r] # "get_chats"

\* Every frame goes to every handler.
Takers(frame) == {r \in handlers : Accepts(r, frame)}

\* handleMessage, on whichever socket: the handlers that accept the frame
\* unsubscribe, and settle the requests that have not timed out.
Receive(c) ==
    /\ ready[c] = "open"
    /\ down[c] # <<>>
    /\ TakeIn(c, 1)
    /\ LET frame == Head(down[c])
           settled == {r \in Takers(frame) : state[r] = "pending"}
       IN  /\ got' = [got EXCEPT ![c] = Append(@, frame)]
           /\ handlers' = handlers \ Takers(frame)
           /\ by' = [r \in Requests |-> IF r \in settled THEN frame ELSE by[r]]
           /\ state' = [r \in Requests |->
                 IF r \notin settled THEN state[r]
                 ELSE IF frame.type = "error" THEN "rejected" ELSE "resolved"]
    /\ UNCHANGED <<websocket, op, conn>>

Next ==
    \/ /\ \/ \E c \in Conns :
                \/ PageConnects(c) \/ TimerFires(c) \/ HandleOpen(c)
                \/ HandleClose(c) \/ HandleError(c)
          \/ Disconnect
       /\ UNCHANGED requests
    \/ \E c \in Conns : Receive(c)
    \/ \E r \in Requests : Send(r) \/ Timeout(r)
    \/ \E c \in Conns : Gateway(c) /\ UNCHANGED client

\* Goroutines are scheduled, the calls they make return, and the browser
\* handles what comes.  Requests, pushes and faults need not happen.
Fairness ==
    \A c \in Conns :
        /\ WF_vars(Reader(c) /\ UNCHANGED client)
        /\ WF_vars(Service(c) /\ UNCHANGED client)
        /\ WF_vars(Forwarder(c) /\ UNCHANGED client)
        /\ WF_vars(Writer(c) /\ UNCHANGED client)
        /\ WF_vars((HandleClose(c) /\ UNCHANGED requests) \/ Receive(c))

Spec == Init /\ [][Next]_vars
FairSpec == Spec /\ Fairness

-----------------------------------------------------------------------------
(* Safety.                                                                 *)

IsAnswer(frame) == frame.about # None

\* What a goroutine has in hand, as a sequence.
InHand(frame) == IF frame = None THEN <<>> ELSE <<frame>>

\* All frames that came or are to come from the gateway on c, in order.
Outgoing(c) == got[c] \o down[c] \o send[c]

Ids(frames) == [i \in 1..Len(frames) |-> frames[i].id]
Abouts(frames) == [i \in 1..Len(frames) |-> frames[i].about]
Numbers(frames) == [i \in 1..Len(frames) |-> frames[i].n]

\* The request the service is at.
InService(c) ==
    CASE service[c] = "calling"   -> <<serviceHas[c].id>>
      [] service[c] = "answering" -> <<serviceHas[c].about>>
      [] OTHER                    -> <<>>

\* The requests on their way through the session to an answer, and all of its
\* requests, the answered ones first, with None for pushes; and its pushes, with
\* 0 for answers.
Unanswered(c) ==
    InService(c) \o Ids(recv[c]) \o Ids(InHand(readerHas[c])) \o Ids(up[c])
RequestsOn(c) == Abouts(Outgoing(c)) \o Unanswered(c)
PushesOn(c) == Numbers(Outgoing(c)) \o Numbers(InHand(forwarderHas[c]))

SentOn(c) == {r \in Requests : conn[r] = c}

\* But for skip, the sequence has the members of S, each once and in order.
Lists(seq, S, skip) ==
    /\ S = {seq[i] : i \in 1..Len(seq)} \ {skip}
    /\ \A i, j \in 1..Len(seq) :
          i < j /\ seq[i] # skip /\ seq[j] # skip => seq[i] < seq[j]

\* No goroutine of a session that lives loses, repeats or reorders a frame:
\* the answers that came, the ones on their way, and the requests not yet
\* answered are the requests that were sent, in order; and in spite of two
\* goroutines putting frames into send, pushes come in order, too.
FramesAreKept ==
    \A c \in Conns : live[c] /\ socket[c] = "open" =>
        /\ Lists(RequestsOn(c), SentOn(c), None)
        /\ Lists(PushesOn(c), 1..pushes[c], 0)

\* A request that is settled with the answer to another request is settled
\* with that of an earlier one; or its own connection had ended before; or its
\* own answer was an error that it did not look at.
EarlierAnswers ==
    \A r \in Requests : by[r] # None /\ IsAnswer(by[r]) /\ by[r].about # r =>
        \/ by[r].about < r
        \/ conn[by[r].about] # conn[r]
        \/ \E i \in 1..Len(got[conn[r]]) :
              got[conn[r]][i].about = r /\ ~Accepts(r, got[conn[r]][i])

(* Liveness.                                                               *)

\* While its connection lives, every request is answered: reader, service,
\* forwarder and writer do not block each other.
RequestsAreAnswered ==
    \A r \in Requests :
        state[r] = "pending" ~>
            \/ \E c \in Conns : \E i \in 1..Len(got[c]) : got[c][i].about = r
            \/ conn[r] # None /\ (~live[conn[r]] \/ socket[conn[r]] # "open")

Ended(c) == reader[c] = "ended" /\ service[c] = "ended" /\ writer[c] = "ended"
                /\ forwarder[c] \in {"off", "ended"}

\* sendResponse waits for room that a writer that has ended does not make.
StuckInSend(c) ==
    service[c] = "answering" /\ Len(send[c]) = Capacity /\ writer[c] = "ended"

\* When the socket is closed all goroutines of the connection end, unless the
\* channel was full when the writer ended.
ClosedSessionsEnd ==
    \A c \in Conns : socket[c] = "closed" ~> Ended(c) \/ StuckInSend(c)

=============================================================================
