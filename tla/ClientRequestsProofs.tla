------------------------ MODULE ClientRequestsProofs ------------------------
(***************************************************************************)
(* Proofs about ClientRequests.  First the websocket client: what it shows,*)
(* when it reconnects, and what a logout leaves; of the gateway and of the *)
(* requests that takes only the end of the sockets.  Then the gateway's    *)
(* session and the requests: what is on its way keeps its order, and which *)
(* answers a request can take.                                             *)
(***************************************************************************)
EXTENDS ClientRequests, SequenceTheorems, TLAPS

\* The part of the types that the client is about.
SocketsTyped ==
    /\ ready \in [Conns -> {"none", "connecting", "open", "closed", "leaving"}]
    /\ socket \in [Conns -> {"new", "open", "closed"}]
    /\ ws \in Conns \cup {None}
    /\ timer \in BOOLEAN /\ replaced \in BOOLEAN
    /\ ended \in {"no", "clean", "unclean"}
    /\ attempts \in 0..MaxReconnectAttempts
    /\ failures \in Nat

\* A socket in use was made, and an open one was upgraded.
UsedInv ==
    /\ ws # None => ready[ws] \in {"connecting", "open", "closed"}
    /\ \A c \in Conns : ready[c] = "open" => socket[c] # "new"

Alive(c) == ready[c] \in {"connecting", "open"}

\* If no socket was replaced, only the one in use can be open or opening, and
\* one that is left behind is alone, with no reconnection to come.
SingleInv ==
    ~replaced => \A c \in Conns :
        /\ Alive(c) => c = ws
        /\ ready[c] = "leaving" =>
              /\ ws = None /\ ~timer /\ ended = "unclean"
              /\ \A d \in Conns \ {c} : ready[d] \in {"none", "closed"}

\* A failure that was not retried used up the attempts.
AttemptsInv == attempts <= failures

IInv ==
    /\ SocketsTyped /\ UsedInv /\ SingleInv /\ AttemptsInv
    /\ StatusIsCurrent /\ ClosedIsRetried /\ LogoutIsFinal

-----------------------------------------------------------------------------
(* The steps, as far as the client is concerned.                           *)

\* Sockets only ever close.
Closing ==
    /\ socket' \in [Conns -> {"new", "open", "closed"}]
    /\ \A c \in Conns : socket[c] # "new" => socket'[c] # "new"

LEMMA GatewayCloses ==
    ASSUME SocketsTyped, NEW c \in Conns, Gateway(c)
    PROVE  Closing
<1>1. socket' = socket \/ socket' = [socket EXCEPT ![c] = "closed"]
    BY DEF Gateway, Reader, Service, Forwarder, Writer, ReadMessage, ReadFails,
           PutRecv, ReaderDone, ConnectRealtime, TakeRecv, CallService,
           SendResponse, ServiceDone, ForwardPush, ForwarderDone, Write,
           WriteFails, WriterDone, ReceivePush, StreamEnds, Break, Return, Set
<1>. QED
    BY <1>1 DEF SocketsTyped, Closing

\* Steps that leave the client alone.
Elsewhere == Closing /\ UNCHANGED websocket

LEMMA NextCases ==
    ASSUME SocketsTyped, [Next]_vars
    PROVE  \/ \E c \in Conns :
                 PageConnects(c) \/ TimerFires(c) \/ HandleOpen(c)
                    \/ HandleClose(c) \/ HandleError(c)
           \/ Disconnect
           \/ Elsewhere
<1>1. ASSUME NEW c \in Conns, Receive(c) PROVE Elsewhere
    BY <1>1 DEF Receive, TakeIn, Elsewhere, Closing, SocketsTyped
<1>2. ASSUME NEW r \in Requests, Send(r) \/ Timeout(r) PROVE Elsewhere
    BY <1>2 DEF Send, Timeout, Emit, Elsewhere, Closing, SocketsTyped, session
<1>3. ASSUME NEW c \in Conns, Gateway(c), UNCHANGED client PROVE Elsewhere
    BY <1>3, GatewayCloses DEF Elsewhere, client
<1>4. CASE UNCHANGED vars
    BY <1>4 DEF vars, client, session, Elsewhere, Closing, SocketsTyped
<1>. QED
    BY <1>1, <1>2, <1>3, <1>4 DEF Next

\* A new socket takes the place of one that is not open.
LEMMA NewSocketKeeps ==
    ASSUME IInv, NEW c \in Conns, Opens, NewSocket(c), UNCHANGED session,
           timer' \in BOOLEAN,
           ended = "no" \/ timer, ~replaced => ended # "clean"
    PROVE  IInv'
<1>. USE NoneAssumption, BoundsAssumption DEF Conns
<1>1. /\ SocketsTyped /\ UsedInv /\ SingleInv /\ AttemptsInv
      /\ c \in Nat /\ c # None
    BY DEF IInv
<1>2. /\ ready' = [ready EXCEPT ![c] = "connecting"] /\ ready[c] = "none"
      /\ ws' = c /\ status' = "connecting"
      /\ replaced' = (replaced \/ (ws # None /\ ready[ws] = "connecting"))
      /\ UNCHANGED <<attempts, ended, failures, socket>>
    BY <1>1 DEF NewSocket, Set, session
<1>3. /\ ready'[c] = "connecting"
      /\ \A d \in Conns \ {c} : ready'[d] = ready[d]
    BY <1>1, <1>2 DEF SocketsTyped
<1>4. SocketsTyped' /\ UsedInv' /\ AttemptsInv'
    BY <1>1, <1>2, <1>3 DEF SocketsTyped, UsedInv, AttemptsInv
<1>5. ~replaced' => \A d \in Conns : ready[d] \notin {"connecting", "open", "leaving"}
    <2>. SUFFICES ASSUME ~replaced', NEW d \in Conns
                  PROVE  ready[d] \notin {"connecting", "open", "leaving"}
        OBVIOUS
    <2>1. ~replaced /\ ~(ws # None /\ ready[ws] \in {"connecting", "open"})
        BY <1>2 DEF Opens, IsOpen
    <2>2. ~Alive(d)
        BY <1>1, <2>1 DEF SingleInv, Alive
    <2>3. ready[d] # "leaving"
        BY <1>1, <2>1 DEF SingleInv
    <2>. QED
        BY <2>2, <2>3 DEF Alive
<1>6. SingleInv'
    BY <1>2, <1>3, <1>5 DEF SingleInv, Alive
<1>7. StatusIsCurrent' /\ ClosedIsRetried' /\ LogoutIsFinal'
    BY <1>2, <1>3 DEF StatusIsCurrent, ClosedIsRetried, LogoutIsFinal, IsOpen
<1>. QED
    BY <1>4, <1>6, <1>7 DEF IInv

\* A socket ends: the client retries or has used up its attempts.
LEMMA SocketEndsKeeps ==
    ASSUME IInv, NEW c \in Conns, SocketEnds(c), socket' = socket,
           ready[c] \in {"connecting", "open", "leaving"}
    PROVE  IInv'
<1>. USE NoneAssumption, AttemptsAssumption DEF Conns
<1>1. /\ SocketsTyped /\ UsedInv /\ SingleInv /\ AttemptsInv /\ ClosedIsRetried
      /\ LogoutIsFinal /\ c # None
      /\ attempts \in Nat /\ failures \in Nat
    BY DEF IInv, SocketsTyped
<1>2. /\ ready' = [ready EXCEPT ![c] = "closed"]
      /\ status' = "disconnected" /\ failures' = failures + 1
      /\ \/ attempts < MaxReconnectAttempts /\ timer' = TRUE /\ attempts' = attempts + 1
         \/ attempts >= MaxReconnectAttempts /\ timer' = timer /\ attempts' = attempts
      /\ UNCHANGED <<ws, replaced, ended>>
    BY <1>1 DEF SocketEnds, Retry, Set
<1>3. /\ ready'[c] = "closed"
      /\ \A d \in Conns \ {c} : ready'[d] = ready[d]
    BY <1>1, <1>2 DEF SocketsTyped
<1>4. /\ attempts' \in 0..MaxReconnectAttempts /\ failures' \in Nat /\ timer' \in BOOLEAN
      /\ attempts' <= failures'
    <2>1. attempts <= failures /\ attempts <= MaxReconnectAttempts /\ MaxReconnectAttempts \in Nat
        BY <1>1 DEF SocketsTyped, AttemptsInv
    <2>2. timer' \in BOOLEAN
        BY <1>1, <1>2 DEF SocketsTyped
    <2>3. attempts' \in 0..MaxReconnectAttempts /\ failures' \in Nat /\ attempts' <= failures'
        BY <1>1, <1>2, <2>1
    <2>. QED
        BY <2>2, <2>3
<1>5. SocketsTyped' /\ AttemptsInv'
    BY <1>1, <1>2, <1>4 DEF SocketsTyped, AttemptsInv
<1>6. UsedInv'
    BY <1>1, <1>2, <1>3 DEF UsedInv, SocketsTyped
<1>7. ~replaced => \A d \in Conns \ {c} : ready[d] \in {"none", "closed"}
    BY <1>1 DEF SingleInv, Alive, SocketsTyped
<1>8. SingleInv'
    BY <1>2, <1>3, <1>7 DEF SingleInv, Alive
<1>9. StatusIsCurrent'
    BY <1>1, <1>2, <1>3, <1>7 DEF StatusIsCurrent, IsOpen, SocketsTyped
<1>10. ClosedIsRetried'
    <2>1. timer' \/ failures' > MaxReconnectAttempts
        BY <1>1, <1>2 DEF AttemptsInv, SocketsTyped
    <2>. QED
        BY <2>1 DEF ClosedIsRetried
<1>11. LogoutIsFinal'
    BY <1>1, <1>2 DEF LogoutIsFinal, SingleInv
<1>. QED
    BY <1>5, <1>6, <1>8, <1>9, <1>10, <1>11 DEF IInv

LEMMA DisconnectKeeps ==
    ASSUME IInv, Disconnect
    PROVE  IInv'
<1>. USE NoneAssumption DEF Conns
<1>1. /\ SocketsTyped /\ UsedInv /\ SingleInv /\ AttemptsInv
      /\ ended = "no" /\ CloseSocket
      /\ timer' = FALSE /\ ws' = None /\ status' = "disconnected"
      /\ UNCHANGED <<attempts, replaced, failures>>
    BY DEF IInv, Disconnect
<1>2. CASE IsOpen /\ socket[ws] = "open"
    <2>1. /\ ready' = [ready EXCEPT ![ws] = "closed"] /\ ended' = "clean"
          /\ socket' = [socket EXCEPT ![ws] = "closed"] /\ ws \in Conns
          /\ ready[ws] = "open"
        BY <1>1, <1>2 DEF CloseSocket, Break, Set, IsOpen, SocketsTyped
    <2>2. /\ ready'[ws] = "closed"
          /\ \A d \in Conns \ {ws} : ready'[d] = ready[d]
        BY <1>1, <2>1 DEF SocketsTyped
    <2>3. SocketsTyped' /\ UsedInv' /\ AttemptsInv'
        BY <1>1, <2>1, <2>2 DEF SocketsTyped, UsedInv, AttemptsInv
    <2>4. ~replaced => \A d \in Conns : ready'[d] \in {"none", "closed"}
        BY <1>1, <2>1, <2>2 DEF SingleInv, Alive, SocketsTyped
    <2>5. SingleInv' /\ StatusIsCurrent' /\ ClosedIsRetried' /\ LogoutIsFinal'
        BY <1>1, <2>1, <2>4
           DEF SingleInv, Alive, StatusIsCurrent, ClosedIsRetried, LogoutIsFinal, IsOpen
    <2>. QED
        BY <2>3, <2>5 DEF IInv
<1>3. CASE /\ ~(IsOpen /\ socket[ws] = "open")
           /\ ws # None
           /\ ready[ws] = "connecting" \/ (IsOpen /\ socket[ws] = "closed")
    <2>1. /\ ready' = [ready EXCEPT ![ws] = "leaving"] /\ ended' = "unclean"
          /\ UNCHANGED socket /\ ws \in Conns
          /\ ready[ws] \in {"connecting", "open"}
        BY <1>1, <1>3 DEF CloseSocket, Set, IsOpen, SocketsTyped, session
    <2>2. /\ ready'[ws] = "leaving"
          /\ \A d \in Conns \ {ws} : ready'[d] = ready[d]
        BY <1>1, <2>1 DEF SocketsTyped
    <2>3. SocketsTyped' /\ UsedInv' /\ AttemptsInv'
        BY <1>1, <2>1, <2>2 DEF SocketsTyped, UsedInv, AttemptsInv
    <2>4. ~replaced => \A d \in Conns \ {ws} : ready'[d] \in {"none", "closed"}
        BY <1>1, <2>1, <2>2 DEF SingleInv, Alive, SocketsTyped
    <2>5. SingleInv' /\ StatusIsCurrent' /\ ClosedIsRetried' /\ LogoutIsFinal'
        BY <1>1, <2>1, <2>2, <2>4
           DEF SingleInv, Alive, StatusIsCurrent, ClosedIsRetried, LogoutIsFinal, IsOpen
    <2>. QED
        BY <2>3, <2>5 DEF IInv
<1>4. CASE ws = None \/ ready[ws] = "closed"
    <2>1. ended' = "clean" /\ UNCHANGED <<socket, ready>>
        BY <1>1, <1>4 DEF CloseSocket, IsOpen, session
    <2>2. SocketsTyped' /\ UsedInv' /\ AttemptsInv'
        BY <1>1, <2>1 DEF SocketsTyped, UsedInv, AttemptsInv
    <2>3. ~replaced => \A d \in Conns : ready[d] \in {"none", "closed"}
        BY <1>1, <1>4 DEF SingleInv, Alive, SocketsTyped
    <2>4. SingleInv' /\ StatusIsCurrent' /\ ClosedIsRetried' /\ LogoutIsFinal'
        BY <1>1, <2>1, <2>3
           DEF SingleInv, Alive, StatusIsCurrent, ClosedIsRetried, LogoutIsFinal, IsOpen
    <2>. QED
        BY <2>2, <2>4 DEF IInv
<1>5. ws # None /\ ready[ws] # "closed" => IsOpen \/ ready[ws] = "connecting"
    BY <1>1 DEF UsedInv, IsOpen
<1>6. IsOpen => socket[ws] \in {"open", "closed"}
    BY <1>1 DEF UsedInv, IsOpen, SocketsTyped
<1>. QED
    BY <1>2, <1>3, <1>4, <1>5, <1>6

LEMMA NextInv ==
    ASSUME IInv, [Next]_vars
    PROVE  IInv'
<1>. USE NoneAssumption DEF Conns
<1>1. ASSUME NEW c \in Conns, PageConnects(c) PROVE IInv'
    BY <1>1, NewSocketKeeps DEF PageConnects, IInv, SocketsTyped
<1>2. ASSUME NEW c \in Conns, TimerFires(c) PROVE IInv'
    <2>1. timer /\ timer' = FALSE /\ UNCHANGED session
        BY <1>2 DEF TimerFires
    <2>2. ~replaced => ended # "clean"
        BY <2>1 DEF IInv, LogoutIsFinal
    <2>3. CASE Opens /\ NewSocket(c)
        BY <2>1, <2>2, <2>3, NewSocketKeeps
    <2>4. CASE ~Opens /\ UNCHANGED <<ready, ws, status, attempts, replaced, ended, failures>>
        <3>1. IsOpen /\ socket' = socket
            BY <2>1, <2>4 DEF Opens, session
        <3>2. SocketsTyped' /\ UsedInv' /\ AttemptsInv'
            BY <2>1, <2>4, <3>1 DEF IInv, SocketsTyped, UsedInv, AttemptsInv
        <3>3. SingleInv' /\ StatusIsCurrent' /\ ClosedIsRetried' /\ LogoutIsFinal'
            BY <2>1, <2>4, <3>1
               DEF IInv, SingleInv, Alive, StatusIsCurrent, ClosedIsRetried,
                   LogoutIsFinal, IsOpen
        <3>. QED
            BY <3>2, <3>3 DEF IInv
    <2>. QED
        BY <1>2, <2>3, <2>4 DEF TimerFires
<1>3. ASSUME NEW c \in Conns, HandleOpen(c) PROVE IInv'
    <2>1. /\ SocketsTyped /\ UsedInv /\ SingleInv /\ ClosedIsRetried /\ LogoutIsFinal
          /\ c # None
        BY DEF IInv
    <2>2. /\ ready[c] = "connecting" /\ ready' = [ready EXCEPT ![c] = "open"]
          /\ socket' = [socket EXCEPT ![c] = "open"]
          /\ status' = "connected" /\ attempts' = 0 /\ failures' = 0
          /\ UNCHANGED <<ws, timer, replaced, ended>>
        BY <1>3 DEF HandleOpen, Upgrade, Set
    <2>3. /\ ready'[c] = "open" /\ socket'[c] = "open"
          /\ \A d \in Conns \ {c} : ready'[d] = ready[d] /\ socket'[d] = socket[d]
        BY <2>1, <2>2 DEF SocketsTyped
    <2>4. SocketsTyped' /\ UsedInv' /\ AttemptsInv'
        BY <2>1, <2>2, <2>3, AttemptsAssumption DEF SocketsTyped, UsedInv, AttemptsInv
    <2>5. ~replaced => ws = c
        BY <2>1, <2>2 DEF SingleInv, Alive
    <2>6. SingleInv'
        BY <2>1, <2>2, <2>3 DEF SingleInv, Alive
    <2>7. StatusIsCurrent' /\ ClosedIsRetried' /\ LogoutIsFinal'
        BY <2>1, <2>2, <2>3, <2>5
           DEF StatusIsCurrent, ClosedIsRetried, LogoutIsFinal, IsOpen
    <2>. QED
        BY <2>4, <2>6, <2>7 DEF IInv
<1>4. ASSUME NEW c \in Conns, HandleClose(c) PROVE IInv'
    BY <1>4, SocketEndsKeeps DEF HandleClose, TakeIn
<1>5. ASSUME NEW c \in Conns, HandleError(c) PROVE IInv'
    BY <1>5, SocketEndsKeeps DEF HandleError, session
<1>6. CASE Disconnect
    BY <1>6, DisconnectKeeps
<1>7. CASE Elsewhere
    <2>1. UNCHANGED <<ready, ws, status, attempts, timer, replaced, ended, failures>>
        BY <1>7 DEF Elsewhere, websocket, socketVars
    <2>2. SocketsTyped' /\ UsedInv'
        BY <1>7, <2>1 DEF IInv, Elsewhere, Closing, SocketsTyped, UsedInv
    <2>3. AttemptsInv' /\ SingleInv' /\ StatusIsCurrent' /\ ClosedIsRetried' /\ LogoutIsFinal'
        BY <2>1 DEF IInv, AttemptsInv, SingleInv, Alive, StatusIsCurrent,
                    ClosedIsRetried, LogoutIsFinal, IsOpen
    <2>. QED
        BY <2>2, <2>3 DEF IInv
<1>. QED
    BY <1>1, <1>2, <1>3, <1>4, <1>5, <1>6, <1>7, NextCases DEF IInv

LEMMA InitInv ==
    ASSUME Init
    PROVE  IInv
<1>1. SocketsTyped
    <2>1. attempts \in 0..MaxReconnectAttempts
        BY AttemptsAssumption DEF Init, WInit
    <2>. QED
        BY <2>1 DEF Init, GInit, WInit, SocketsTyped
<1>2. UsedInv /\ SingleInv /\ AttemptsInv
    BY DEF Init, GInit, WInit, UsedInv, SingleInv, AttemptsInv, Alive
<1>3. StatusIsCurrent /\ ClosedIsRetried /\ LogoutIsFinal
    BY DEF Init, WInit, StatusIsCurrent, ClosedIsRetried, LogoutIsFinal, IsOpen
<1>. QED
    BY <1>1, <1>2, <1>3 DEF IInv

LEMMA Inductive == Spec => []IInv
BY InitInv, NextInv, PTL DEF Spec

-----------------------------------------------------------------------------
\* What the client shows is the state of its socket (handleOpen, handleClose),
\* unless connect() replaced a socket that was being opened.
THEOREM StatusCurrent == Spec => []StatusIsCurrent
<1>1. IInv => StatusIsCurrent
    BY DEF IInv
<1>. QED
    BY Inductive, <1>1, PTL

\* A client whose socket has ended reconnects, for any number of sockets and
\* attempts (scheduleReconnect), until the attempts are used up.
THEOREM ClosedRetried == Spec => []ClosedIsRetried
<1>1. IInv => ClosedIsRetried
    BY DEF IInv
<1>. QED
    BY Inductive, <1>1, PTL

\* A logout that closed an open socket, or found none, is the end: no socket and
\* no timer is left (disconnect).
THEOREM LogoutFinal == Spec => []LogoutIsFinal
<1>1. IInv => LogoutIsFinal
    BY DEF IInv
<1>. QED
    BY Inductive, <1>1, PTL

-----------------------------------------------------------------------------
(* The types.                                                              *)

\* A step of one connection of the gateway types what it changes.
LEMMA ReaderTyped ==
    ASSUME SessionTypeOK, NEW c \in Conns, Reader(c)
    PROVE  SessionTypeOK'
<1>. USE NoneAssumption, BoundsAssumption DEF Set, Cancel, channels, wires, readerVars, serviceVars, forwarderVars
<1>1. up[c] \in Seq(Request) /\ recv[c] \in Seq(Request)
    BY DEF SessionTypeOK
<1>2. CASE ReadMessage(c)
    <2>1. Head(up[c]) \in Request /\ Tail(up[c]) \in Seq(Request)
        BY <1>1, <1>2, HeadTailProperties DEF ReadMessage
    <2>. QED
        BY <1>2, <2>1 DEF ReadMessage, SessionTypeOK
<1>3. CASE ReadFails(c)
    BY <1>3 DEF ReadFails, SessionTypeOK
<1>4. CASE PutRecv(c)
    <2>1. readerHas[c] \in Request
        BY <1>4 DEF PutRecv, SessionTypeOK
    <2>2. /\ Append(recv[c], readerHas[c]) \in Seq(Request)
          /\ Len(Append(recv[c], readerHas[c])) <= Capacity
        BY <1>1, <1>4, <2>1, AppendProperties, LenProperties DEF PutRecv
    <2>. QED
        BY <1>4, <2>2 DEF PutRecv, SessionTypeOK
<1>5. CASE ReaderDone(c)
    BY <1>5 DEF ReaderDone, SessionTypeOK
<1>. QED
    BY <1>2, <1>3, <1>4, <1>5 DEF Reader

LEMMA ServiceTyped ==
    ASSUME SessionTypeOK, NEW c \in Conns, Service(c),
           service[c] = "connecting" => forwarder[c] = "off"
    PROVE  SessionTypeOK'
<1>. USE NoneAssumption, BoundsAssumption
     DEF Set, Cancel, Return, channels, wires, readerVars, serviceVars, forwarderVars
<1>1. /\ send[c] \in Seq(Frame) /\ recv[c] \in Seq(Request)
      /\ Len(recv[c]) <= Capacity
    BY DEF SessionTypeOK
<1>2. Request \cap Answer = {}
    BY DEF Request, Answer
<1>3. CASE ConnectRealtime(c)
    <2>1. serviceHas[c] \notin Request /\ serviceHas[c] \notin Answer
        BY <1>3 DEF ConnectRealtime, SessionTypeOK
    <2>2. faults' \in 0..MaxFaults
        BY <1>3 DEF ConnectRealtime, Fault, SessionTypeOK
    <2>3. CASE /\ service' = [service EXCEPT ![c] = "idle"]
               /\ forwarder' = [forwarder EXCEPT ![c] = "receiving"]
               /\ UNCHANGED <<socket, live, faults>>
        <3>1. service[c] = "connecting" /\ forwarder[c] = "off"
            BY <1>3 DEF ConnectRealtime
        <3>2. UNCHANGED <<wires, channels, readerVars, serviceHas, forwarderHas, writer,
                          pushes, breaks>>
            BY <1>3 DEF ConnectRealtime
        <3>. QED
            BY <2>1, <2>3, <3>1, <3>2 DEF SessionTypeOK
    <2>4. CASE Return(c) /\ UNCHANGED forwarder
        BY <1>3, <2>1, <2>2, <2>4 DEF ConnectRealtime, SessionTypeOK
    <2>. QED
        BY <1>3, <2>3, <2>4 DEF ConnectRealtime
<1>4. CASE TakeRecv(c)
    <2>1. /\ Head(recv[c]) \in Request /\ Tail(recv[c]) \in Seq(Request)
          /\ Len(Tail(recv[c])) <= Capacity
        BY <1>1, <1>4, HeadTailProperties, LenProperties DEF TakeRecv
    <2>. QED
        BY <1>2, <1>4, <2>1 DEF TakeRecv, SessionTypeOK
<1>5. CASE CallService(c)
    <2>1. serviceHas[c] \in Request
        BY <1>5 DEF CallService, SessionTypeOK
    <2>2. PICK type \in {AnswerType[o] : o \in Ops} \cup {"error"} : AnswerWith(c, type)
        BY <1>5, <2>1 DEF CallService, CallFails, Request
    <2>3. [type |-> type, about |-> serviceHas[c].id, n |-> 0] \in Answer
        BY <2>1 DEF Answer, Request
    <2>4. faults' \in 0..MaxFaults
        BY <1>5 DEF CallService, CallFails, Fault, SessionTypeOK
    <2>5. /\ service' = [service EXCEPT ![c] = "answering"]
          /\ serviceHas' \in [Conns -> Request \cup Answer \cup {None}]
          /\ serviceHas'[c] \in Answer
          /\ \A d \in Conns \ {c} : serviceHas'[d] = serviceHas[d]
        BY <1>5, <2>2, <2>3 DEF CallService, AnswerWith, SessionTypeOK
    <2>6. \A d \in Conns :
             /\ service'[d] = "calling" <=> serviceHas'[d] \in Request
             /\ service'[d] = "answering" <=> serviceHas'[d] \in Answer
        BY <1>2, <2>5 DEF SessionTypeOK
    <2>. QED
        BY <1>5, <2>4, <2>5, <2>6 DEF CallService, SessionTypeOK
<1>6. CASE SendResponse(c)
    <2>1. serviceHas[c] \in Answer
        BY <1>6 DEF SendResponse, SessionTypeOK
    <2>2. /\ Append(send[c], serviceHas[c]) \in Seq(Frame)
          /\ Len(Append(send[c], serviceHas[c])) <= Capacity
        BY <1>1, <1>6, <2>1, AppendProperties, LenProperties DEF SendResponse, Frame
    <2>. QED
        BY <1>6, <2>2 DEF SendResponse, SessionTypeOK, Frame
<1>7. CASE ServiceDone(c)
    BY <1>7 DEF ServiceDone, SessionTypeOK
<1>. QED
    BY <1>3, <1>4, <1>5, <1>6, <1>7 DEF Service

LEMMA ForwarderTyped ==
    ASSUME SessionTypeOK, NEW c \in Conns,
           Forwarder(c) \/ ReceivePush(c) \/ StreamEnds(c)
    PROVE  SessionTypeOK'
<1>. USE NoneAssumption, BoundsAssumption
     DEF Set, Cancel, channels, wires, readerVars, serviceVars, forwarderVars
<1>1. send[c] \in Seq(Frame) /\ pushes[c] \in 0..MaxPushes
    BY DEF SessionTypeOK
<1>2. CASE ForwardPush(c)
    <2>1. forwarderHas[c] \in Push
        BY <1>2 DEF ForwardPush, SessionTypeOK
    <2>2. /\ Append(send[c], forwarderHas[c]) \in Seq(Frame)
          /\ Len(Append(send[c], forwarderHas[c])) <= Capacity
        BY <1>1, <1>2, <2>1, AppendProperties, LenProperties DEF ForwardPush, Frame
    <2>. QED
        BY <1>2, <2>2 DEF ForwardPush, SessionTypeOK, Frame
<1>3. CASE ForwarderDone(c)
    BY <1>3 DEF ForwarderDone, SessionTypeOK
<1>4. CASE ReceivePush(c)
    <2>1. PICK type \in PushTypes :
             forwarderHas' = Set(forwarderHas, c,
                                 [type |-> type, about |-> None, n |-> pushes[c] + 1])
        BY <1>4 DEF ReceivePush
    <2>2. /\ pushes[c] + 1 \in 1..MaxPushes
          /\ [type |-> type, about |-> None, n |-> pushes[c] + 1] \in Push
        BY <1>1, <1>4 DEF ReceivePush, Push
    <2>. QED
        BY <1>4, <2>1, <2>2 DEF ReceivePush, SessionTypeOK, Frame
<1>5. CASE StreamEnds(c)
    BY <1>5 DEF StreamEnds, Fault, SessionTypeOK
<1>. QED
    BY <1>2, <1>3, <1>4, <1>5 DEF Forwarder

LEMMA WriterTyped ==
    ASSUME SessionTypeOK, NEW c \in Conns, Writer(c) \/ Break(c)
    PROVE  SessionTypeOK'
<1>. USE NoneAssumption, BoundsAssumption
     DEF Set, Cancel, channels, wires, readerVars, serviceVars, forwarderVars
<1>1. send[c] \in Seq(Frame) /\ down[c] \in Seq(Frame) /\ Len(send[c]) <= Capacity
    BY DEF SessionTypeOK
<1>2. ASSUME send[c] # <<>>
      PROVE  /\ Tail(send[c]) \in Seq(Frame) /\ Len(Tail(send[c])) <= Capacity
             /\ Append(down[c], Head(send[c])) \in Seq(Frame)
    BY <1>1, <1>2, HeadTailProperties, AppendProperties, LenProperties
<1>3. CASE Write(c)
    BY <1>2, <1>3 DEF Write, SessionTypeOK
<1>4. CASE WriteFails(c)
    BY <1>2, <1>4 DEF WriteFails, SessionTypeOK
<1>5. CASE WriterDone(c)
    BY <1>5 DEF WriterDone, SessionTypeOK
<1>6. CASE Break(c)
    BY <1>6 DEF Break, SessionTypeOK
<1>. QED
    BY <1>3, <1>4, <1>5, <1>6 DEF Writer

LEMMA GatewayTyped ==
    ASSUME SessionTypeOK, NEW c \in Conns, Gateway(c),
           service[c] = "connecting" => forwarder[c] = "off"
    PROVE  SessionTypeOK'
BY ReaderTyped, ServiceTyped, ForwarderTyped, WriterTyped DEF Gateway

\* What the client does to the session.
LEMMA TakeInTyped ==
    ASSUME SessionTypeOK, NEW c \in Conns, NEW n \in Nat, TakeIn(c, n)
    PROVE  SessionTypeOK'
<1>1. down[c] \in Seq(Frame) /\ Len(down[c]) \in Nat
    BY LenProperties DEF SessionTypeOK
<1>2. SubSeq(down[c], n + 1, Len(down[c])) \in Seq(Frame)
    <2>1. \A i \in n + 1..Len(down[c]) : down[c][i] \in Frame
        BY <1>1, ElementOfSeq
    <2>. QED
        BY <1>1, <2>1, SubSeqProperties
<1>. QED
    BY <1>2 DEF TakeIn, Set, SessionTypeOK, channels, readerVars, serviceVars, forwarderVars

LEMMA EmitTyped ==
    ASSUME SessionTypeOK, NEW c \in Conns, NEW request \in Request, Emit(c, request)
    PROVE  SessionTypeOK'
<1>1. Append(up[c], request) \in Seq(Request)
    BY AppendProperties DEF SessionTypeOK
<1>. QED
    BY <1>1 DEF Emit, Set, SessionTypeOK, channels, readerVars, serviceVars, forwarderVars

LEMMA UpgradeTyped ==
    ASSUME SessionTypeOK, NEW c \in Conns, Upgrade(c), reader[c] = "off", service[c] = "off"
    PROVE  SessionTypeOK'
BY NoneAssumption
   DEF Upgrade, Set, SessionTypeOK, wires, channels, forwarderVars

-----------------------------------------------------------------------------
(* What is on its way, and what has come.                                  *)

\* Requests are numbered in the order of their sockets' upgrades and sends.
SentInv ==
    /\ \A r, s \in Requests : r < s /\ state[r] = "new" => state[s] = "new"
    /\ \A r \in Requests :
          /\ state[r] = "new" <=> conn[r] = None
          /\ state[r] # "new" => op[r] \in Ops /\ socket[conn[r]] # "new"

\* Before the upgrade nothing runs and nothing is on its way, and the forwarder
\* is started by the service.
StartInv ==
    \A c \in Conns :
        /\ socket[c] = "new" =>
              /\ up[c] = <<>> /\ recv[c] = <<>> /\ send[c] = <<>>
              /\ down[c] = <<>> /\ got[c] = <<>> /\ pushes[c] = 0
              /\ reader[c] = "off" /\ service[c] = "off" /\ writer[c] = "off"
        /\ service[c] \in {"off", "connecting"} => forwarder[c] = "off"

\* No goroutine cancels the context of a session whose socket is open.
OpenInv == \A c \in Conns : socket[c] = "open" => live[c]

\* A sequence of requests of S in which each comes after all smaller ones.
Leads(seq, S) ==
    /\ \A i \in 1..Len(seq) : seq[i] # None => seq[i] \in S
    /\ \A i \in 1..Len(seq) : \A r \in S :
          seq[i] # None /\ r < seq[i] => \E j \in 1..i - 1 : seq[j] = r

\* The answers that have come to the browser, on a session that lives or not.
Arrived(c) == Abouts(got[c] \o down[c])
ArrivedInv == \A c \in Conns : Leads(Arrived(c), SentOn(c))

\* A handler is subscribed until an answer comes that it accepts.
HandlersInv ==
    \A r \in handlers : \A c \in Conns : \A i \in 1..Len(got[c]) :
        got[c][i].about = r => ~Accepts(r, got[c][i])

\* Only requests that were sent are settled, with answers to such requests.
SettledInv ==
    \A r \in Requests : by[r] # None =>
        /\ state[r] # "new"
        /\ IsAnswer(by[r]) => state[by[r].about] # "new"

RInv ==
    /\ IInv /\ TypeOK /\ SentInv /\ StartInv /\ OpenInv
    /\ FramesAreKept /\ ArrivedInv /\ HandlersInv /\ SettledInv /\ EarlierAnswers

-----------------------------------------------------------------------------
(* Sequences.                                                              *)

LEMMA AboutsProperties ==
    ASSUME NEW s \in Seq(Frame)
    PROVE  /\ Abouts(s) \in Seq(Requests \cup {None})
           /\ Len(Abouts(s)) = Len(s)
           /\ \A i \in 1..Len(s) : Abouts(s)[i] = s[i].about
<1>1. Len(s) \in Nat /\ \A i \in 1..Len(s) : s[i] \in Frame
    BY LenProperties, ElementOfSeq
<1>2. \A i \in 1..Len(s) : s[i].about \in Requests \cup {None}
    BY <1>1 DEF Frame, Answer, Push
<1>. QED
    BY <1>1, <1>2 DEF Abouts

LEMMA NumbersProperties ==
    ASSUME NEW s \in Seq(Frame)
    PROVE  /\ Numbers(s) \in Seq(Nat)
           /\ Len(Numbers(s)) = Len(s)
           /\ \A i \in 1..Len(s) : Numbers(s)[i] = s[i].n
<1>1. Len(s) \in Nat /\ \A i \in 1..Len(s) : s[i] \in Frame
    BY LenProperties, ElementOfSeq
<1>2. \A i \in 1..Len(s) : s[i].n \in Nat
    BY <1>1, BoundsAssumption DEF Frame, Answer, Push
<1>. QED
    BY <1>1, <1>2 DEF Numbers

LEMMA IdsProperties ==
    ASSUME NEW s \in Seq(Request)
    PROVE  /\ Ids(s) \in Seq(Requests \cup {None})
           /\ Len(Ids(s)) = Len(s)
           /\ \A i \in 1..Len(s) : Ids(s)[i] = s[i].id
<1>1. Len(s) \in Nat /\ \A i \in 1..Len(s) : s[i] \in Request
    BY LenProperties, ElementOfSeq
<1>2. \A i \in 1..Len(s) : s[i].id \in Requests \cup {None}
    BY <1>1 DEF Request
<1>. QED
    BY <1>1, <1>2 DEF Ids

\* A sequence is a concatenation if its elements are.
LEMMA IsConcat ==
    ASSUME NEW U, NEW s \in Seq(U), NEW t \in Seq(U), NEW u \in Seq(U),
           Len(u) = Len(s) + Len(t),
           \A i \in 1..Len(s) : u[i] = s[i],
           \A i \in 1..Len(t) : u[Len(s) + i] = t[i]
    PROVE  u = s \o t
<1>1. /\ s \o t \in Seq(U) /\ Len(s \o t) = Len(s) + Len(t)
      /\ \A i \in 1..Len(s) + Len(t) : (s \o t)[i] = IF i <= Len(s) THEN s[i] ELSE t[i - Len(s)]
    BY ConcatProperties
<1>2. Len(s) \in Nat /\ Len(t) \in Nat
    BY LenProperties
<1>3. \A i \in 1..Len(u) : u[i] = (s \o t)[i]
    <2>1. TAKE i \in 1..Len(u)
    <2>2. CASE i <= Len(s)
        BY <1>1, <1>2, <2>2
    <2>3. CASE i > Len(s)
        <3>1. i - Len(s) \in 1..Len(t) /\ Len(s) + (i - Len(s)) = i
            BY <1>2, <2>3
        <3>. QED
            BY <1>1, <1>2, <2>3, <3>1
    <2>. QED
        BY <1>2, <2>2, <2>3
<1>. QED
    BY <1>1, <1>3, SeqEqual

\* They distribute over concatenation.
LEMMA AboutsConcat ==
    ASSUME NEW s \in Seq(Frame), NEW t \in Seq(Frame)
    PROVE  Abouts(s \o t) = Abouts(s) \o Abouts(t)
<1>1. /\ s \o t \in Seq(Frame) /\ Len(s \o t) = Len(s) + Len(t)
      /\ \A i \in 1..Len(s) + Len(t) : (s \o t)[i] = IF i <= Len(s) THEN s[i] ELSE t[i - Len(s)]
    BY ConcatProperties
<1>2. /\ Len(s) \in Nat /\ Len(t) \in Nat
      /\ Len(Abouts(s)) = Len(s) /\ Len(Abouts(t)) = Len(t) /\ Len(Abouts(s \o t)) = Len(s) + Len(t)
      /\ Abouts(s) \in Seq(Requests \cup {None}) /\ Abouts(t) \in Seq(Requests \cup {None})
      /\ Abouts(s \o t) \in Seq(Requests \cup {None})
    BY <1>1, AboutsProperties, LenProperties
<1>3. \A i \in 1..Len(s) : Abouts(s \o t)[i] = Abouts(s)[i]
    <2>1. TAKE i \in 1..Len(s)
    <2>2. i \in 1..Len(s) + Len(t) /\ i <= Len(s)
        BY <1>2
    <2>. QED
        BY <1>1, <2>2, AboutsProperties
<1>4. \A i \in 1..Len(t) : Abouts(s \o t)[Len(s) + i] = Abouts(t)[i]
    <2>1. TAKE i \in 1..Len(t)
    <2>2. /\ Len(s) + i \in 1..Len(s) + Len(t) /\ ~(Len(s) + i <= Len(s))
          /\ (Len(s) + i) - Len(s) = i
        BY <1>2
    <2>3. Abouts(s \o t)[Len(s) + i] = (s \o t)[Len(s) + i].about
        BY <1>1, <2>2, AboutsProperties
    <2>4. (s \o t)[Len(s) + i] = t[i]
        BY <1>1, <2>2
    <2>. QED
        BY <2>3, <2>4, AboutsProperties
<1>5. /\ \A i \in 1..Len(Abouts(s)) : Abouts(s \o t)[i] = Abouts(s)[i]
      /\ \A i \in 1..Len(Abouts(t)) : Abouts(s \o t)[Len(Abouts(s)) + i] = Abouts(t)[i]
      /\ Len(Abouts(s \o t)) = Len(Abouts(s)) + Len(Abouts(t))
    BY <1>2, <1>3, <1>4
<1>. QED
    BY <1>2, <1>5, IsConcat

LEMMA NumbersConcat ==
    ASSUME NEW s \in Seq(Frame), NEW t \in Seq(Frame)
    PROVE  Numbers(s \o t) = Numbers(s) \o Numbers(t)
<1>1. /\ s \o t \in Seq(Frame) /\ Len(s \o t) = Len(s) + Len(t)
      /\ \A i \in 1..Len(s) + Len(t) : (s \o t)[i] = IF i <= Len(s) THEN s[i] ELSE t[i - Len(s)]
    BY ConcatProperties
<1>2. /\ Len(s) \in Nat /\ Len(t) \in Nat
      /\ Len(Numbers(s)) = Len(s) /\ Len(Numbers(t)) = Len(t) /\ Len(Numbers(s \o t)) = Len(s) + Len(t)
      /\ Numbers(s) \in Seq(Nat) /\ Numbers(t) \in Seq(Nat)
      /\ Numbers(s \o t) \in Seq(Nat)
    BY <1>1, NumbersProperties, LenProperties
<1>3. \A i \in 1..Len(s) : Numbers(s \o t)[i] = Numbers(s)[i]
    <2>1. TAKE i \in 1..Len(s)
    <2>2. i \in 1..Len(s) + Len(t) /\ i <= Len(s)
        BY <1>2
    <2>. QED
        BY <1>1, <2>2, NumbersProperties
<1>4. \A i \in 1..Len(t) : Numbers(s \o t)[Len(s) + i] = Numbers(t)[i]
    <2>1. TAKE i \in 1..Len(t)
    <2>2. /\ Len(s) + i \in 1..Len(s) + Len(t) /\ ~(Len(s) + i <= Len(s))
          /\ (Len(s) + i) - Len(s) = i
        BY <1>2
    <2>3. Numbers(s \o t)[Len(s) + i] = (s \o t)[Len(s) + i].n
        BY <1>1, <2>2, NumbersProperties
    <2>4. (s \o t)[Len(s) + i] = t[i]
        BY <1>1, <2>2
    <2>. QED
        BY <2>3, <2>4, NumbersProperties
<1>5. /\ \A i \in 1..Len(Numbers(s)) : Numbers(s \o t)[i] = Numbers(s)[i]
      /\ \A i \in 1..Len(Numbers(t)) : Numbers(s \o t)[Len(Numbers(s)) + i] = Numbers(t)[i]
      /\ Len(Numbers(s \o t)) = Len(Numbers(s)) + Len(Numbers(t))
    BY <1>2, <1>3, <1>4
<1>. QED
    BY <1>2, <1>5, IsConcat

LEMMA IdsConcat ==
    ASSUME NEW s \in Seq(Request), NEW t \in Seq(Request)
    PROVE  Ids(s \o t) = Ids(s) \o Ids(t)
<1>1. /\ s \o t \in Seq(Request) /\ Len(s \o t) = Len(s) + Len(t)
      /\ \A i \in 1..Len(s) + Len(t) : (s \o t)[i] = IF i <= Len(s) THEN s[i] ELSE t[i - Len(s)]
    BY ConcatProperties
<1>2. /\ Len(s) \in Nat /\ Len(t) \in Nat
      /\ Len(Ids(s)) = Len(s) /\ Len(Ids(t)) = Len(t) /\ Len(Ids(s \o t)) = Len(s) + Len(t)
      /\ Ids(s) \in Seq(Requests \cup {None}) /\ Ids(t) \in Seq(Requests \cup {None})
      /\ Ids(s \o t) \in Seq(Requests \cup {None})
    BY <1>1, IdsProperties, LenProperties
<1>3. \A i \in 1..Len(s) : Ids(s \o t)[i] = Ids(s)[i]
    <2>1. TAKE i \in 1..Len(s)
    <2>2. i \in 1..Len(s) + Len(t) /\ i <= Len(s)
        BY <1>2
    <2>. QED
        BY <1>1, <2>2, IdsProperties
<1>4. \A i \in 1..Len(t) : Ids(s \o t)[Len(s) + i] = Ids(t)[i]
    <2>1. TAKE i \in 1..Len(t)
    <2>2. /\ Len(s) + i \in 1..Len(s) + Len(t) /\ ~(Len(s) + i <= Len(s))
          /\ (Len(s) + i) - Len(s) = i
        BY <1>2
    <2>3. Ids(s \o t)[Len(s) + i] = (s \o t)[Len(s) + i].id
        BY <1>1, <2>2, IdsProperties
    <2>4. (s \o t)[Len(s) + i] = t[i]
        BY <1>1, <2>2
    <2>. QED
        BY <2>3, <2>4, IdsProperties
<1>5. /\ \A i \in 1..Len(Ids(s)) : Ids(s \o t)[i] = Ids(s)[i]
      /\ \A i \in 1..Len(Ids(t)) : Ids(s \o t)[Len(Ids(s)) + i] = Ids(t)[i]
      /\ Len(Ids(s \o t)) = Len(Ids(s)) + Len(Ids(t))
    BY <1>2, <1>3, <1>4
<1>. QED
    BY <1>2, <1>5, IsConcat

\* One frame, and none.
LEMMA OneFrame ==
    ASSUME NEW f \in Frame
    PROVE  /\ <<f>> \in Seq(Frame)
           /\ Abouts(<<f>>) = <<f.about>> /\ Numbers(<<f>>) = <<f.n>>
           /\ InHand(f) = <<f>>
BY NoneAssumption DEF Abouts, Numbers, InHand

LEMMA OneRequest ==
    ASSUME NEW q \in Request
    PROVE  <<q>> \in Seq(Request) /\ Ids(<<q>>) = <<q.id>> /\ InHand(q) = <<q>>
BY NoneAssumption DEF Ids, InHand

LEMMA NoFrame ==
    /\ Abouts(<<>>) = <<>> /\ Numbers(<<>>) = <<>> /\ Ids(<<>>) = <<>>
    /\ InHand(None) = <<>>
BY DEF Abouts, Numbers, Ids, InHand

\* The first of a sequence.
LEMMA HeadFirst ==
    ASSUME NEW U, NEW s \in Seq(U), s # <<>>
    PROVE  /\ Head(s) \in U /\ Tail(s) \in Seq(U) /\ <<Head(s)>> \in Seq(U)
           /\ s = <<Head(s)>> \o Tail(s)
<1>1. Head(s) \in U /\ Tail(s) \in Seq(U) /\ <<Head(s)>> \in Seq(U)
    BY HeadTailProperties
<1>2. /\ <<Head(s)>> \o Tail(s) \in Seq(U)
      /\ Len(<<Head(s)>> \o Tail(s)) = 1 + Len(Tail(s))
      /\ \A i \in 1..1 + Len(Tail(s)) : (<<Head(s)>> \o Tail(s))[i] =
            IF i <= 1 THEN <<Head(s)>>[i] ELSE Tail(s)[i - 1]
    BY <1>1, ConcatProperties
<1>3. /\ Len(s) \in Nat \ {0} /\ Len(Tail(s)) = Len(s) - 1
      /\ \A i \in 1..Len(Tail(s)) : Tail(s)[i] = s[i + 1]
    BY HeadTailProperties, EmptySeq
<1>4. \A i \in 1..Len(s) : s[i] = (<<Head(s)>> \o Tail(s))[i]
    <2>1. TAKE i \in 1..Len(s)
    <2>2. CASE i = 1
        BY <1>2, <1>3, <2>2
    <2>3. CASE i # 1
        <3>1. i - 1 \in 1..Len(Tail(s)) /\ i \in 1..1 + Len(Tail(s)) /\ ~(i <= 1)
            BY <1>3, <2>3
        <3>2. (i - 1) + 1 = i
            OBVIOUS
        <3>. QED
            BY <1>2, <1>3, <3>1, <3>2
    <2>. QED
        BY <2>2, <2>3
<1>. QED
    BY <1>1, <1>2, <1>3, <1>4, SeqEqual

\* What skip stands for may come anywhere in a list.
LEMMA ListsInsert ==
    ASSUME NEW U, NEW a \in Seq(U), NEW b \in Seq(U), NEW skip \in U, NEW S,
           Lists(a \o b, S, skip)
    PROVE  Lists((a \o <<skip>>) \o b, S, skip)
<1>. DEFINE w == a \o b
            v == (a \o <<skip>>) \o b
<1>1. Len(a) \in Nat /\ Len(b) \in Nat
    BY LenProperties
<1>2. /\ w \in Seq(U) /\ Len(w) = Len(a) + Len(b)
      /\ \A i \in 1..Len(a) + Len(b) : w[i] = IF i <= Len(a) THEN a[i] ELSE b[i - Len(a)]
    BY ConcatProperties
<1>2a. Lists(w, S, skip)
    OBVIOUS
<1>3. /\ a \o <<skip>> \in Seq(U) /\ Len(a \o <<skip>>) = Len(a) + 1
      /\ \A i \in 1..Len(a) : (a \o <<skip>>)[i] = a[i]
      /\ (a \o <<skip>>)[Len(a) + 1] = skip
    BY AppendProperties, AppendIsConcat
<1>4. /\ Len(v) = Len(a) + 1 + Len(b)
      /\ \A i \in 1..Len(a) + 1 + Len(b) : v[i] =
            IF i <= Len(a) + 1 THEN (a \o <<skip>>)[i] ELSE b[i - (Len(a) + 1)]
    BY <1>1, <1>3, ConcatProperties
<1>. HIDE DEF w, v
<1>5. ASSUME NEW i \in 1..Len(a)
      PROVE  i \in 1..Len(w) /\ i \in 1..Len(v) /\ v[i] = w[i]
    <2>1. i \in 1..Len(a) + Len(b) /\ i \in 1..Len(a) + 1 + Len(b)
          /\ i <= Len(a) /\ i <= Len(a) + 1
        BY <1>1
    <2>2. w[i] = a[i] /\ v[i] = (a \o <<skip>>)[i] /\ (a \o <<skip>>)[i] = a[i]
        BY <1>2, <1>3, <1>4, <2>1
    <2>. QED
        BY <1>2, <1>4, <2>1, <2>2
<1>6. v[Len(a) + 1] = skip
    BY <1>1, <1>3, <1>4
<1>7. \A i \in Len(a) + 2..Len(v) : i - 1 \in 1..Len(w) /\ v[i] = w[i - 1]
    <2>1. TAKE i \in Len(a) + 2..Len(v)
    <2>2. /\ i - 1 \in 1..Len(a) + Len(b) /\ ~(i - 1 <= Len(a))
          /\ (i - 1) - Len(a) = i - (Len(a) + 1)
          /\ i \in 1..Len(a) + 1 + Len(b) /\ ~(i <= Len(a) + 1)
        BY <1>1, <1>4
    <2>. QED
        BY <1>2, <1>4, <2>2
<1>8. \A i \in 1..Len(w) : \E j \in 1..Len(v) : v[j] = w[i]
    <2>1. TAKE i \in 1..Len(w)
    <2>2. CASE i <= Len(a)
        BY <1>1, <1>2, <1>5, <2>2
    <2>3. CASE i > Len(a)
        <3>1. i + 1 \in Len(a) + 2..Len(v) /\ i + 1 \in 1..Len(v) /\ (i + 1) - 1 = i
            BY <1>1, <1>2, <1>4, <2>3
        <3>. QED
            BY <1>7, <3>1
    <2>. QED
        BY <1>1, <1>2, <2>2, <2>3
<1>9. \A i \in 1..Len(v) : v[i] # skip =>
         \/ i <= Len(a) /\ i \in 1..Len(w) /\ v[i] = w[i]
         \/ i > Len(a) + 1 /\ i - 1 \in 1..Len(w) /\ v[i] = w[i - 1]
    <2>1. TAKE i \in 1..Len(v)
    <2>2. i \in 1..Len(a) \/ i = Len(a) + 1 \/ i \in Len(a) + 2..Len(v)
        BY <1>1, <1>4
    <2>. QED
        BY <1>1, <1>5, <1>6, <1>7, <2>2
<1>10. S = {v[i] : i \in 1..Len(v)} \ {skip}
    <2>1. S = {w[i] : i \in 1..Len(w)} \ {skip}
        BY <1>2a DEF Lists
    <2>2. ASSUME NEW s \in S PROVE s \in {v[i] : i \in 1..Len(v)} \ {skip}
        BY <1>8, <2>1
    <2>3. ASSUME NEW i \in 1..Len(v), v[i] # skip PROVE v[i] \in S
        BY <1>9, <2>1, <2>3
    <2>. QED
        BY <2>2, <2>3
<1>11. \A i, j \in 1..Len(v) : i < j /\ v[i] # skip /\ v[j] # skip => v[i] < v[j]
    <2>1. SUFFICES ASSUME NEW i \in 1..Len(v), NEW j \in 1..Len(v), i < j,
                          v[i] # skip, v[j] # skip
                   PROVE  v[i] < v[j]
        OBVIOUS
    <2>2. PICK k \in 1..Len(w) :
              v[i] = w[k] /\ ((i <= Len(a) /\ k = i) \/ (i > Len(a) + 1 /\ k = i - 1))
        BY <1>9, <2>1
    <2>3. PICK l \in 1..Len(w) :
              v[j] = w[l] /\ ((j <= Len(a) /\ l = j) \/ (j > Len(a) + 1 /\ l = j - 1))
        BY <1>9, <2>1
    <2>4. k < l
        BY <1>1, <1>2, <1>4, <2>1, <2>2, <2>3
    <2>. QED
        BY <1>2a, <2>1, <2>2, <2>3, <2>4 DEF Lists
<1>. QED
    BY <1>10, <1>11 DEF Lists, v

\* A new last member.
LEMMA ListsAppend ==
    ASSUME NEW U, NEW w \in Seq(U), NEW skip, NEW S, NEW x \in U,
           Lists(w, S, skip), x # skip, \A s \in S : s < x
    PROVE  Lists(w \o <<x>>, S \cup {x}, skip)
<1>. DEFINE v == w \o <<x>>
<1>1. Len(w) \in Nat
    BY LenProperties
<1>2. /\ Len(v) = Len(w) + 1
      /\ \A i \in 1..Len(w) : v[i] = w[i]
      /\ v[Len(w) + 1] = x
    BY AppendProperties, AppendIsConcat
<1>. HIDE DEF v
<1>3. S \cup {x} = {v[i] : i \in 1..Len(v)} \ {skip}
    <2>1. \A i \in 1..Len(v) : i \in 1..Len(w) \/ i = Len(w) + 1
        BY <1>1, <1>2
    <2>2. \A i \in 1..Len(w) : i \in 1..Len(v)
        BY <1>1, <1>2
    <2>3. Len(w) + 1 \in 1..Len(v)
        BY <1>1, <1>2
    <2>. QED
        BY <1>2, <2>1, <2>2, <2>3 DEF Lists
<1>4. \A i, j \in 1..Len(v) : i < j /\ v[i] # skip /\ v[j] # skip => v[i] < v[j]
    <2>1. SUFFICES ASSUME NEW i \in 1..Len(v), NEW j \in 1..Len(v), i < j,
                          v[i] # skip, v[j] # skip
                   PROVE  v[i] < v[j]
        OBVIOUS
    <2>2. i \in 1..Len(w) /\ v[i] = w[i] /\ v[i] \in S
        BY <1>1, <1>2, <2>1 DEF Lists
    <2>3. CASE j = Len(w) + 1
        BY <1>2, <2>2, <2>3
    <2>4. CASE j # Len(w) + 1
        <3>1. j \in 1..Len(w) /\ v[j] = w[j]
            BY <1>1, <1>2, <2>4
        <3>. QED
            BY <2>1, <2>2, <3>1 DEF Lists
    <2>. QED
        BY <2>3, <2>4
<1>. QED
    BY <1>3, <1>4 DEF Lists, v

\* The answers that have come are the first of the requests that were sent.
LEMMA ListsLead ==
    ASSUME NEW w \in Seq(Requests \cup {None}), NEW S \in SUBSET Requests, Lists(w, S, None)
    PROVE  Leads(w, S)
<1>1. \A i \in 1..Len(w) : w[i] # None => w[i] \in S
    BY DEF Lists
<1>2. ASSUME NEW i \in 1..Len(w), NEW r \in S, w[i] # None, r < w[i]
      PROVE  \E j \in 1..i - 1 : w[j] = r
    <2>1. PICK j \in 1..Len(w) : w[j] = r
        BY DEF Lists
    <2>2. r \in Nat /\ w[i] \in Nat /\ r # None /\ Len(w) \in Nat
        BY <1>1, <1>2, NoneAssumption, LenProperties DEF Requests
    <2>3. ~(i < j)
        BY <1>2, <2>1, <2>2 DEF Lists
    <2>4. i # j
        BY <1>2, <2>1, <2>2
    <2>. QED
        BY <2>1, <2>2, <2>3, <2>4
<1>. QED
    BY <1>1, <1>2 DEF Leads

LEMMA LeadsPrefix ==
    ASSUME NEW U, NEW a \in Seq(U), NEW b \in Seq(U), NEW S, Leads(a \o b, S)
    PROVE  Leads(a, S)
<1>1. Len(a) \in Nat /\ Len(b) \in Nat
    BY LenProperties
<1>2. /\ Len(a \o b) = Len(a) + Len(b)
      /\ \A i \in 1..Len(a) : (a \o b)[i] = a[i]
    BY <1>1, ConcatProperties
<1>3. \A i \in 1..Len(a) : i \in 1..Len(a \o b) /\ \A j \in 1..i - 1 : j \in 1..Len(a)
    BY <1>1, <1>2
<1>. QED
    BY <1>2, <1>3 DEF Leads

LEMMA LeadsMore ==
    ASSUME NEW w, NEW S \in SUBSET Requests, NEW x \in Requests, Leads(w, S),
           \A s \in S : s < x
    PROVE  Leads(w, S \cup {x})
<1>1. \A s \in S : ~(x < s)
    BY DEF Requests
<1>. QED
    BY <1>1 DEF Leads

-----------------------------------------------------------------------------
(* What a step does to the frames of a connection.                         *)

LEMMA ConnTyped ==
    ASSUME TypeOK, NEW c \in Conns
    PROVE  /\ got[c] \in Seq(Frame) /\ down[c] \in Seq(Frame) /\ send[c] \in Seq(Frame)
           /\ up[c] \in Seq(Request) /\ recv[c] \in Seq(Request)
           /\ InHand(readerHas[c]) \in Seq(Request)
           /\ InHand(forwarderHas[c]) \in Seq(Frame)
           /\ InService(c) \in Seq(Requests \cup {None})
           /\ Ids(recv[c]) \in Seq(Requests \cup {None})
           /\ Ids(InHand(readerHas[c])) \in Seq(Requests \cup {None})
           /\ Ids(up[c]) \in Seq(Requests \cup {None})
<1>1. /\ got[c] \in Seq(Frame) /\ down[c] \in Seq(Frame) /\ send[c] \in Seq(Frame)
      /\ up[c] \in Seq(Request) /\ recv[c] \in Seq(Request)
    BY DEF TypeOK, SessionTypeOK
<1>2. InHand(readerHas[c]) \in Seq(Request)
    BY OneRequest DEF TypeOK, SessionTypeOK, InHand
<1>3. InHand(forwarderHas[c]) \in Seq(Frame)
    <2>1. forwarderHas[c] \in Frame \cup {None}
        BY DEF TypeOK, SessionTypeOK, Frame
    <2>. QED
        BY <2>1, OneFrame, NoFrame, EmptySeq
<1>4. InService(c) \in Seq(Requests \cup {None})
    <2>1. service[c] = "calling" => serviceHas[c].id \in Requests
        BY DEF TypeOK, SessionTypeOK, Request
    <2>2. service[c] = "answering" => serviceHas[c].about \in Requests
        BY DEF TypeOK, SessionTypeOK, Answer
    <2>3. CASE service[c] = "calling"
        BY <2>1, <2>3 DEF InService
    <2>4. CASE service[c] = "answering"
        BY <2>2, <2>4 DEF InService
    <2>5. CASE service[c] \notin {"calling", "answering"}
        BY <2>5, EmptySeq DEF InService
    <2>. QED
        BY <2>3, <2>4, <2>5
<1>. QED
    BY <1>1, <1>2, <1>3, <1>4, IdsProperties

LEMMA PathsTyped ==
    ASSUME TypeOK, NEW c \in Conns
    PROVE  /\ got[c] \o down[c] \in Seq(Frame) /\ Outgoing(c) \in Seq(Frame)
           /\ Unanswered(c) \in Seq(Requests \cup {None})
           /\ Abouts(Outgoing(c)) \in Seq(Requests \cup {None})
           /\ RequestsOn(c) \in Seq(Requests \cup {None})
           /\ Numbers(Outgoing(c)) \in Seq(Nat)
           /\ Numbers(InHand(forwarderHas[c])) \in Seq(Nat)
           /\ PushesOn(c) \in Seq(Nat)
<1>1. got[c] \o down[c] \in Seq(Frame)
    BY ConnTyped, ConcatProperties
<1>2. Outgoing(c) \in Seq(Frame)
    BY <1>1, ConnTyped, ConcatProperties DEF Outgoing
<1>3. InService(c) \o Ids(recv[c]) \in Seq(Requests \cup {None})
    BY ConnTyped, ConcatProperties
<1>4. InService(c) \o Ids(recv[c]) \o Ids(InHand(readerHas[c])) \in Seq(Requests \cup {None})
    BY <1>3, ConnTyped, ConcatProperties
<1>5. Unanswered(c) \in Seq(Requests \cup {None})
    BY <1>4, ConnTyped, ConcatProperties DEF Unanswered
<1>6. /\ Abouts(Outgoing(c)) \in Seq(Requests \cup {None})
      /\ Numbers(Outgoing(c)) \in Seq(Nat)
      /\ Numbers(InHand(forwarderHas[c])) \in Seq(Nat)
    BY <1>2, ConnTyped, AboutsProperties, NumbersProperties
<1>7. RequestsOn(c) \in Seq(Requests \cup {None})
    BY <1>5, <1>6, ConcatProperties DEF RequestsOn
<1>8. PushesOn(c) \in Seq(Nat)
    BY <1>6, ConcatProperties DEF PushesOn
<1>. QED
    BY <1>1, <1>2, <1>5, <1>6, <1>7, <1>8

\* Taking the first of a sequence in hand, and putting it at the end of one.
LEMMA Taken ==
    ASSUME NEW U, NEW a \in Seq(U), NEW b \in Seq(U), NEW x \in U
    PROVE  (a \o <<>>) \o (<<x>> \o b) = (a \o <<x>>) \o b
BY ConcatEmptySeq, ConcatAssociative

LEMMA Put ==
    ASSUME NEW U, NEW a \in Seq(U), NEW b \in Seq(U), NEW d \in Seq(U), NEW x \in U
    PROVE  ((a \o b) \o <<x>>) \o d = ((a \o (b \o <<x>>)) \o <<>>) \o d
<1>1. <<x>> \in Seq(U) /\ a \o (b \o <<x>>) \in Seq(U)
    BY ConcatProperties
<1>. QED
    BY <1>1, ConcatEmptySeq, ConcatAssociative

LEMMA ReaderKeeps ==
    ASSUME TypeOK, NEW c \in Conns, Reader(c), UNCHANGED got, ~ReaderDone(c)
    PROVE  Unanswered(c)' = Unanswered(c) /\ Outgoing(c)' = Outgoing(c)
<1>. DEFINE U == Requests \cup {None}
            Front == InService(c) \o Ids(recv[c])
<1>1. InService(c)' = InService(c) /\ UNCHANGED <<down, send>>
    BY DEF Reader, ReadMessage, ReadFails, PutRecv, ReaderDone, InService,
           serviceVars, wires, channels
<1>2. Outgoing(c)' = Outgoing(c)
    BY <1>1 DEF Outgoing
<1>3. InService(c) \in Seq(U) /\ Ids(recv[c]) \in Seq(U) /\ Front \in Seq(U)
    BY ConnTyped, ConcatProperties
<1>4. CASE ReadMessage(c)
    <2>1. /\ up[c] # <<>> /\ up'[c] = Tail(up[c]) /\ readerHas'[c] = Head(up[c])
          /\ recv' = recv /\ readerHas[c] = None
        BY <1>4 DEF ReadMessage, Set, TypeOK, SessionTypeOK, channels
    <2>2. /\ Head(up[c]) \in Request /\ Tail(up[c]) \in Seq(Request)
          /\ up[c] = <<Head(up[c])>> \o Tail(up[c])
        BY <2>1, ConnTyped, HeadFirst
    <2>3. /\ Head(up[c]).id \in U /\ Ids(Tail(up[c])) \in Seq(U)
          /\ Ids(up[c]) = <<Head(up[c]).id>> \o Ids(Tail(up[c]))
        BY <2>2, IdsConcat, OneRequest, IdsProperties DEF Request
    <2>4. /\ Ids(InHand(readerHas[c])) = <<>>
          /\ Ids(InHand(readerHas'[c])) = <<Head(up[c]).id>>
        BY <2>1, <2>2, OneRequest, NoFrame
    <2>5. Unanswered(c) = (Front \o <<>>) \o (<<Head(up[c]).id>> \o Ids(Tail(up[c])))
        BY <2>3, <2>4 DEF Unanswered
    <2>6. Unanswered(c)' = (Front \o <<Head(up[c]).id>>) \o Ids(Tail(up[c]))
        BY <1>1, <2>1, <2>4 DEF Unanswered
    <2>. QED
        BY <1>2, <1>3, <2>3, <2>5, <2>6, Taken
<1>5. CASE PutRecv(c)
    <2>1. /\ readerHas[c] \in Request /\ readerHas'[c] = None /\ up' = up
          /\ recv'[c] = Append(recv[c], readerHas[c])
        BY <1>5 DEF PutRecv, Set, TypeOK, SessionTypeOK, wires
    <2>2. Ids(recv'[c]) = Ids(recv[c]) \o <<readerHas[c].id>>
        <3>1. recv[c] \in Seq(Request) /\ <<readerHas[c]>> \in Seq(Request)
            BY <2>1, ConnTyped
        <3>2. recv'[c] = recv[c] \o <<readerHas[c]>>
            BY <2>1, <3>1, AppendIsConcat
        <3>3. Ids(recv[c] \o <<readerHas[c]>>) = Ids(recv[c]) \o Ids(<<readerHas[c]>>)
            BY <3>1, IdsConcat
        <3>. QED
            BY <2>1, <3>2, <3>3, OneRequest
    <2>3. /\ Ids(InHand(readerHas[c])) = <<readerHas[c].id>>
          /\ Ids(InHand(readerHas'[c])) = <<>> /\ readerHas[c].id \in U
        BY <2>1, OneRequest, NoFrame DEF Request
    <2>4. Unanswered(c) = ((InService(c) \o Ids(recv[c])) \o <<readerHas[c].id>>) \o Ids(up[c])
        BY <2>3 DEF Unanswered
    <2>5. Unanswered(c)' =
             ((InService(c) \o (Ids(recv[c]) \o <<readerHas[c].id>>)) \o <<>>) \o Ids(up[c])
        BY <1>1, <2>1, <2>2, <2>3 DEF Unanswered
    <2>6. Ids(up[c]) \in Seq(U)
        BY ConnTyped
    <2>7. ((InService(c) \o Ids(recv[c])) \o <<readerHas[c].id>>) \o Ids(up[c])
             = ((InService(c) \o (Ids(recv[c]) \o <<readerHas[c].id>>)) \o <<>>) \o Ids(up[c])
        BY <1>3, <2>3, <2>6, Put
    <2>. QED
        BY <1>2, <2>4, <2>5, <2>7
<1>6. CASE ReadFails(c)
    BY <1>1, <1>2, <1>6 DEF ReadFails, Unanswered, wires, channels
<1>7. ReadMessage(c) \/ PutRecv(c) \/ ReadFails(c)
    BY DEF Reader
<1>. QED
    BY <1>4, <1>5, <1>6, <1>7


LEMMA ServiceKeeps ==
    ASSUME TypeOK, NEW c \in Conns, TakeRecv(c) \/ CallService(c), UNCHANGED got
    PROVE  Unanswered(c)' = Unanswered(c) /\ Outgoing(c)' = Outgoing(c)
<1>. DEFINE U == Requests \cup {None}
<1>1. UNCHANGED <<down, send, up, readerHas>>
    BY DEF TakeRecv, CallService, wires, channels, readerVars
<1>2. Outgoing(c)' = Outgoing(c)
    BY <1>1 DEF Outgoing
<1>3. CASE TakeRecv(c)
    <2>1. /\ recv[c] # <<>> /\ recv'[c] = Tail(recv[c]) /\ serviceHas'[c] = Head(recv[c])
          /\ service[c] = "idle" /\ service'[c] = "calling"
        BY <1>3 DEF TakeRecv, Set, TypeOK, SessionTypeOK
    <2>2. /\ Head(recv[c]) \in Request /\ Tail(recv[c]) \in Seq(Request)
          /\ recv[c] = <<Head(recv[c])>> \o Tail(recv[c])
        BY <2>1, ConnTyped, HeadFirst
    <2>3. /\ Head(recv[c]).id \in U /\ Ids(Tail(recv[c])) \in Seq(U)
          /\ Ids(recv[c]) = <<Head(recv[c]).id>> \o Ids(Tail(recv[c]))
        BY <2>2, IdsConcat, OneRequest, IdsProperties DEF Request
    <2>4. InService(c) = <<>> /\ InService(c)' = <<Head(recv[c]).id>>
        BY <2>1 DEF InService
    <2>5. InService(c) \o Ids(recv[c]) = InService(c)' \o Ids(recv'[c])
        <3>1. Ids(recv[c]) \in Seq(U)
            BY ConnTyped
        <3>. QED
            BY <2>1, <2>3, <2>4, <3>1, ConcatEmptySeq
    <2>. QED
        BY <1>1, <1>2, <2>5 DEF Unanswered
<1>4. CASE CallService(c)
    <2>1. /\ service[c] = "calling" /\ service'[c] = "answering" /\ recv' = recv
          /\ serviceHas'[c].about = serviceHas[c].id
        BY <1>4 DEF CallService, CallFails, AnswerWith, Set, channels, TypeOK, SessionTypeOK
    <2>2. InService(c)' = InService(c)
        BY <2>1 DEF InService
    <2>. QED
        BY <1>1, <1>2, <2>1, <2>2 DEF Unanswered
<1>. QED
    BY <1>3, <1>4

\* The answer of the service, and a push, are put behind the frames for the client.
LEMMA SendResponseKeeps ==
    ASSUME TypeOK, NEW c \in Conns, SendResponse(c), UNCHANGED got
    PROVE  /\ serviceHas[c] \in Answer
           /\ Outgoing(c)' = Outgoing(c) \o <<serviceHas[c]>>
           /\ Unanswered(c) = <<serviceHas[c].about>> \o Unanswered(c)'
           /\ Unanswered(c)' \in Seq(Requests \cup {None})
<1>. DEFINE U == Requests \cup {None}
<1>1. /\ serviceHas[c] \in Answer
      /\ send'[c] = Append(send[c], serviceHas[c])
      /\ service[c] = "answering" /\ service'[c] = "idle"
      /\ UNCHANGED <<up, down, recv, readerHas>>
    BY DEF SendResponse, Set, wires, readerVars, TypeOK, SessionTypeOK
<1>2. serviceHas[c] \in Frame /\ serviceHas[c].about \in U
    BY <1>1 DEF Frame, Answer
<1>3. Outgoing(c)' = Outgoing(c) \o <<serviceHas[c]>>
    <2>1. send'[c] = send[c] \o <<serviceHas[c]>> /\ <<serviceHas[c]>> \in Seq(Frame)
        BY <1>1, <1>2, ConnTyped, AppendIsConcat, OneFrame
    <2>. DEFINE come == got[c] \o down[c]
                frame == <<serviceHas[c]>>
                sent == send[c]
    <2>2. Outgoing(c)' = come \o (sent \o frame)
        BY <1>1, <2>1 DEF Outgoing
    <2>3. /\ come \in Seq(Frame) /\ sent \in Seq(Frame) /\ frame \in Seq(Frame)
          /\ Outgoing(c) = come \o sent
        BY <2>1, ConnTyped, PathsTyped DEF Outgoing
    <2>. HIDE DEF come, frame, sent
    <2>4. (come \o sent) \o frame = come \o (sent \o frame)
        BY <2>3, ConcatAssociative
    <2>. QED
        BY <2>2, <2>3, <2>4 DEF frame
<1>4. InService(c) = <<serviceHas[c].about>> /\ InService(c)' = <<>>
    BY <1>1 DEF InService
<1>. DEFINE x == <<serviceHas[c].about>>
            a == Ids(recv[c])
            b == Ids(InHand(readerHas[c]))
            d == Ids(up[c])
<1>5. /\ x \in Seq(U) /\ a \in Seq(U) /\ b \in Seq(U) /\ d \in Seq(U)
      /\ a \o b \in Seq(U) /\ (a \o b) \o d \in Seq(U)
    BY <1>2, ConnTyped, ConcatProperties
<1>6. Unanswered(c) = ((x \o a) \o b) \o d
    BY <1>4 DEF Unanswered
<1>7. Unanswered(c)' = ((<<>> \o a) \o b) \o d
    BY <1>1, <1>4 DEF Unanswered
<1>. HIDE DEF x, a, b, d
<1>8. ((x \o a) \o b) \o d = x \o ((a \o b) \o d)
    <2>1. (x \o a) \o b = x \o (a \o b)
        BY <1>5, ConcatAssociative
    <2>. DEFINE e == a \o b
    <2>2. x \in Seq(U) /\ e \in Seq(U) /\ d \in Seq(U)
        BY <1>5
    <2>. HIDE DEF e, U
    <2>3. (x \o e) \o d = x \o (e \o d)
        BY <2>2, ConcatAssociative
    <2>. QED
        BY <2>1, <2>3 DEF e
<1>9. ((<<>> \o a) \o b) \o d = (a \o b) \o d
    BY <1>5, ConcatEmptySeq
<1>. QED
    BY <1>1, <1>3, <1>5, <1>6, <1>7, <1>8, <1>9 DEF x

LEMMA ForwardPushKeeps ==
    ASSUME TypeOK, NEW c \in Conns, ForwardPush(c), UNCHANGED got
    PROVE  /\ forwarderHas[c] \in Push /\ forwarderHas'[c] = None
           /\ Outgoing(c)' = Outgoing(c) \o <<forwarderHas[c]>>
           /\ Unanswered(c)' = Unanswered(c)
<1>1. /\ forwarderHas[c] \in Push /\ forwarderHas'[c] = None
      /\ send'[c] = Append(send[c], forwarderHas[c])
      /\ UNCHANGED <<up, down, recv, readerHas, service, serviceHas>>
    BY DEF ForwardPush, Set, wires, readerVars, serviceVars, TypeOK, SessionTypeOK
<1>2. Outgoing(c)' = Outgoing(c) \o <<forwarderHas[c]>>
    <2>0. forwarderHas[c] \in Frame /\ send[c] \in Seq(Frame)
        BY <1>1, ConnTyped DEF Frame
    <2>1. send'[c] = send[c] \o <<forwarderHas[c]>> /\ <<forwarderHas[c]>> \in Seq(Frame)
        BY <1>1, <2>0, AppendIsConcat, OneFrame
    <2>. DEFINE come == got[c] \o down[c]
                frame == <<forwarderHas[c]>>
                sent == send[c]
    <2>2. Outgoing(c)' = come \o (sent \o frame)
        BY <1>1, <2>1 DEF Outgoing
    <2>3. /\ come \in Seq(Frame) /\ sent \in Seq(Frame) /\ frame \in Seq(Frame)
          /\ Outgoing(c) = come \o sent
        BY <2>1, ConnTyped, PathsTyped DEF Outgoing
    <2>. HIDE DEF come, frame, sent
    <2>4. (come \o sent) \o frame = come \o (sent \o frame)
        BY <2>3, ConcatAssociative
    <2>. QED
        BY <2>2, <2>3, <2>4 DEF frame
<1>. QED
    BY <1>1, <1>2 DEF Unanswered, InService

\* A frame that is written, or received, keeps its place.
LEMMA WriteKeeps ==
    ASSUME TypeOK, NEW c \in Conns, Write(c), socket[c] = "open", UNCHANGED got
    PROVE  Outgoing(c)' = Outgoing(c) /\ Unanswered(c)' = Unanswered(c)
<1>1. /\ send[c] # <<>> /\ send'[c] = Tail(send[c])
      /\ down'[c] = Append(down[c], Head(send[c]))
      /\ UNCHANGED <<up, recv, readerHas, service, serviceHas>>
    BY DEF Write, Set, readerVars, serviceVars, TypeOK, SessionTypeOK
<1>2. /\ Head(send[c]) \in Frame /\ Tail(send[c]) \in Seq(Frame)
      /\ <<Head(send[c])>> \in Seq(Frame)
      /\ send[c] = <<Head(send[c])>> \o Tail(send[c])
    BY <1>1, ConnTyped, HeadFirst
<1>3. /\ down'[c] = down[c] \o <<Head(send[c])>>
      /\ got[c] \in Seq(Frame) /\ down[c] \in Seq(Frame)
      /\ got[c] \o down[c] \in Seq(Frame)
    BY <1>1, <1>2, ConnTyped, PathsTyped, AppendIsConcat
<1>. DEFINE have == got[c]
            wire == down[c]
            come == have \o wire
            first == <<Head(send[c])>>
            rest == Tail(send[c])
<1>4. /\ Outgoing(c)' = (have \o (wire \o first)) \o rest
      /\ Outgoing(c) = come \o (first \o rest)
    BY <1>1, <1>2, <1>3 DEF Outgoing
<1>5. have \in Seq(Frame) /\ wire \in Seq(Frame) /\ first \in Seq(Frame)
    BY <1>2, <1>3
<1>6. come \in Seq(Frame) /\ first \in Seq(Frame) /\ rest \in Seq(Frame)
    BY <1>2, <1>3
<1>. HIDE DEF first, rest, have, wire
<1>7. have \o (wire \o first) = come \o first
    BY <1>5, ConcatAssociative
<1>. HIDE DEF come
<1>8. (come \o first) \o rest = come \o (first \o rest)
    BY <1>6, ConcatAssociative
<1>. QED
    BY <1>1, <1>4, <1>7, <1>8 DEF Unanswered, InService

LEMMA ReceiveKeeps ==
    ASSUME TypeOK, NEW c \in Conns, Receive(c)
    PROVE  /\ Head(down[c]) \in Frame /\ down[c] # <<>>
           /\ got' = [got EXCEPT ![c] = Append(@, Head(down[c]))]
           /\ down' = [down EXCEPT ![c] = Tail(down[c])]
           /\ got'[c] \o down'[c] = got[c] \o down[c]
           /\ Outgoing(c)' = Outgoing(c) /\ Unanswered(c)' = Unanswered(c)
<1>1. /\ down[c] # <<>> /\ down[c] \in Seq(Frame) /\ got[c] \in Seq(Frame)
      /\ got' = [got EXCEPT ![c] = Append(@, Head(down[c]))]
      /\ down' = [down EXCEPT ![c] = SubSeq(down[c], 1 + 1, Len(down[c]))]
      /\ UNCHANGED <<up, recv, send, readerHas, service, serviceHas>>
    BY ConnTyped DEF Receive, TakeIn, Set, channels, readerVars, serviceVars
<1>2. SubSeq(down[c], 1 + 1, Len(down[c])) = Tail(down[c])
    BY <1>1, TailIsSubSeq
<1>3. /\ Head(down[c]) \in Frame /\ Tail(down[c]) \in Seq(Frame)
      /\ <<Head(down[c])>> \in Seq(Frame)
      /\ down[c] = <<Head(down[c])>> \o Tail(down[c])
    BY <1>1, HeadFirst
<1>4. /\ got'[c] = got[c] \o <<Head(down[c])>> /\ down'[c] = Tail(down[c])
    BY <1>1, <1>2, <1>3, AppendIsConcat DEF TypeOK, SessionTypeOK
<1>5. got'[c] \o down'[c] = got[c] \o down[c]
    <2>. DEFINE first == <<Head(down[c])>>
                rest == Tail(down[c])
                have == got[c]
    <2>1. first \in Seq(Frame) /\ rest \in Seq(Frame) /\ have \in Seq(Frame)
        BY <1>1, <1>3
    <2>2. got'[c] \o down'[c] = (have \o first) \o rest /\ down[c] = first \o rest
        BY <1>3, <1>4
    <2>. HIDE DEF first, rest, have
    <2>3. (have \o first) \o rest = have \o (first \o rest)
        BY <2>1, ConcatAssociative
    <2>. QED
        BY <2>2, <2>3 DEF have
<1>. QED
    BY <1>1, <1>2, <1>3, <1>5 DEF Outgoing, Unanswered, InService

-----------------------------------------------------------------------------
(* The frames of a session that lives are kept.                            *)

Kept(c) ==
    /\ Lists(RequestsOn(c), SentOn(c), None)
    /\ Lists(PushesOn(c), 1..pushes[c], 0)

\* Frames that stay, or only go on to the next stage.
LEMMA MovesKeep ==
    ASSUME NEW c \in Conns, Kept(c), Unanswered(c)' = Unanswered(c),
           Outgoing(c)' = Outgoing(c), SentOn(c)' = SentOn(c),
           forwarderHas'[c] = forwarderHas[c], pushes'[c] = pushes[c]
    PROVE  Kept(c)'
<1>1. RequestsOn(c)' = RequestsOn(c)
    BY DEF RequestsOn
<1>2. PushesOn(c)' = PushesOn(c)
    BY DEF PushesOn
<1>. QED
    BY <1>1, <1>2 DEF Kept

\* All of a connection that the frames are in.
Same(c) ==
    /\ up'[c] = up[c] /\ down'[c] = down[c] /\ got'[c] = got[c]
    /\ recv'[c] = recv[c] /\ send'[c] = send[c] /\ readerHas'[c] = readerHas[c]
    /\ service'[c] = service[c] /\ serviceHas'[c] = serviceHas[c]
    /\ forwarderHas'[c] = forwarderHas[c] /\ pushes'[c] = pushes[c]

LEMMA SameKeeps ==
    ASSUME NEW c \in Conns, Same(c)
    PROVE  /\ Unanswered(c)' = Unanswered(c) /\ Outgoing(c)' = Outgoing(c)
           /\ Arrived(c)' = Arrived(c)
           /\ Kept(c) /\ SentOn(c)' = SentOn(c) => Kept(c)'
<1>1. Unanswered(c)' = Unanswered(c) /\ Outgoing(c)' = Outgoing(c) /\ Arrived(c)' = Arrived(c)
    BY DEF Same, Unanswered, InService, Outgoing, Arrived
<1>. QED
    BY <1>1, MovesKeep DEF Same

\* The answer comes to stand where its request stood.
LEMMA AnswerKeeps ==
    ASSUME TypeOK, NEW c \in Conns, Kept(c), SendResponse(c), UNCHANGED <<got, conn>>
    PROVE  Kept(c)'
<1>. DEFINE U == Requests \cup {None}
            a == Abouts(Outgoing(c))
            x == <<serviceHas[c].about>>
            b == Unanswered(c)'
            m == Numbers(Outgoing(c))
            k == Numbers(InHand(forwarderHas[c]))
<1>1. /\ serviceHas[c] \in Frame /\ serviceHas[c].about \in U /\ serviceHas[c].n = 0
      /\ Outgoing(c) \in Seq(Frame) /\ <<serviceHas[c]>> \in Seq(Frame)
      /\ Outgoing(c)' = Outgoing(c) \o <<serviceHas[c]>>
      /\ Unanswered(c) = x \o b /\ b \in Seq(U) /\ UNCHANGED <<forwarderHas, pushes>>
    BY SendResponseKeeps, PathsTyped, OneFrame DEF Frame, Answer, SendResponse, forwarderVars
<1>2. Abouts(Outgoing(c))' = a \o x /\ Numbers(Outgoing(c))' = m \o <<0>>
    BY <1>1, AboutsConcat, NumbersConcat, OneFrame
<1>3. a \in Seq(U) /\ x \in Seq(U) /\ m \in Seq(Nat) /\ k \in Seq(Nat)
    BY <1>1, PathsTyped
<1>4. RequestsOn(c)' = (a \o x) \o b /\ RequestsOn(c) = a \o (x \o b)
    BY <1>1, <1>2 DEF RequestsOn
<1>5. PushesOn(c)' = (m \o <<0>>) \o k /\ PushesOn(c) = m \o k
    BY <1>1, <1>2 DEF PushesOn
<1>6. SentOn(c)' = SentOn(c)
    BY DEF SentOn
<1>. HIDE DEF a, b, x, m, k
<1>7. (a \o x) \o b = a \o (x \o b)
    <2>1. b \in Seq(U)
        BY <1>1
    <2>. QED
        BY <1>3, <2>1, ConcatAssociative
<1>8. Lists((m \o <<0>>) \o k, 1..pushes[c], 0)
    <2>1. Lists(m \o k, 1..pushes[c], 0) /\ 0 \in Nat
        BY <1>5 DEF Kept
    <2>. QED
        BY <1>3, <2>1, ListsInsert
<1>. QED
    BY <1>1, <1>4, <1>5, <1>6, <1>7, <1>8 DEF Kept

\* A push comes to stand between two answers.
LEMMA PushKeeps ==
    ASSUME TypeOK, NEW c \in Conns, Kept(c), ForwardPush(c), UNCHANGED <<got, conn>>
    PROVE  Kept(c)'
<1>. DEFINE U == Requests \cup {None}
            a == Abouts(Outgoing(c))
            b == Unanswered(c)
            m == Numbers(Outgoing(c))
            x == <<forwarderHas[c].n>>
<1>1. /\ forwarderHas[c] \in Frame /\ forwarderHas[c].about = None /\ forwarderHas[c].n \in Nat
      /\ Outgoing(c) \in Seq(Frame) /\ <<forwarderHas[c]>> \in Seq(Frame)
      /\ Outgoing(c)' = Outgoing(c) \o <<forwarderHas[c]>>
      /\ Unanswered(c)' = b /\ forwarderHas'[c] = None /\ pushes' = pushes
    <2>1. /\ forwarderHas[c] \in Push /\ Outgoing(c) \in Seq(Frame)
          /\ Outgoing(c)' = Outgoing(c) \o <<forwarderHas[c]>>
          /\ Unanswered(c)' = b /\ forwarderHas'[c] = None
        BY ForwardPushKeeps, PathsTyped
    <2>2. /\ forwarderHas[c] \in Frame /\ forwarderHas[c].about = None
          /\ forwarderHas[c].n \in Nat
        BY <2>1 DEF Frame, Push
    <2>3. pushes' = pushes
        BY DEF ForwardPush
    <2>. QED
        BY <2>1, <2>2, <2>3, OneFrame
<1>2. Abouts(Outgoing(c))' = a \o <<None>> /\ Numbers(Outgoing(c))' = m \o x
    <2>1. /\ Abouts(<<forwarderHas[c]>>) = <<None>>
          /\ Numbers(<<forwarderHas[c]>>) = x
        BY <1>1, OneFrame
    <2>2. /\ Abouts(Outgoing(c) \o <<forwarderHas[c]>>) = a \o Abouts(<<forwarderHas[c]>>)
          /\ Numbers(Outgoing(c) \o <<forwarderHas[c]>>) = m \o Numbers(<<forwarderHas[c]>>)
        BY <1>1, AboutsConcat, NumbersConcat
    <2>. QED
        BY <1>1, <2>1, <2>2
<1>3. a \in Seq(U) /\ b \in Seq(U) /\ m \in Seq(Nat) /\ x \in Seq(Nat)
    BY <1>1, PathsTyped
<1>4. RequestsOn(c)' = (a \o <<None>>) \o b /\ RequestsOn(c) = a \o b
    BY <1>1, <1>2 DEF RequestsOn
<1>5. PushesOn(c)' = (m \o x) \o <<>> /\ PushesOn(c) = m \o x
    BY <1>1, <1>2, OneFrame, NoFrame DEF PushesOn
<1>6. SentOn(c)' = SentOn(c)
    BY DEF SentOn
<1>. HIDE DEF a, b, m, x
<1>7. (m \o x) \o <<>> = m \o x
    <2>1. m \o x \in Seq(Nat)
        BY <1>3, ConcatProperties
    <2>. QED
        BY <2>1, ConcatEmptySeq
<1>8. Lists((a \o <<None>>) \o b, SentOn(c), None)
    <2>1. Lists(a \o b, SentOn(c), None) /\ None \in U
        BY <1>4 DEF Kept
    <2>. QED
        BY <1>3, <2>1, ListsInsert
<1>. QED
    BY <1>1, <1>4, <1>5, <1>6, <1>7, <1>8 DEF Kept

\* A push that is received is the last one.
LEMMA ReceivePushKeeps ==
    ASSUME TypeOK, NEW c \in Conns, Kept(c), ReceivePush(c), UNCHANGED <<got, conn>>
    PROVE  Kept(c)'
<1>. DEFINE m == Numbers(Outgoing(c))
            n == pushes[c] + 1
<1>1. PICK type \in PushTypes :
         forwarderHas' = Set(forwarderHas, c, [type |-> type, about |-> None, n |-> n])
    BY DEF ReceivePush
<1>2. /\ pushes[c] \in 0..MaxPushes /\ pushes[c] < MaxPushes /\ forwarder[c] = "receiving"
      /\ forwarderHas[c] = None
      /\ pushes'[c] = n
      /\ UNCHANGED <<down, send, recv, up, readerHas, service, serviceHas>>
    BY DEF ReceivePush, Set, TypeOK, SessionTypeOK, wires, channels, readerVars, serviceVars
<1>3. forwarderHas'[c] = [type |-> type, about |-> None, n |-> n]
    BY <1>1 DEF Set, TypeOK, SessionTypeOK
<1>4. forwarderHas'[c] \in Frame /\ forwarderHas'[c].n = n
    <2>1. n \in 1..MaxPushes
        BY <1>2, BoundsAssumption
    <2>. QED
        BY <1>3, <2>1 DEF Frame, Push
<1>5. /\ Outgoing(c)' = Outgoing(c) /\ Unanswered(c)' = Unanswered(c) /\ SentOn(c)' = SentOn(c)
    BY <1>2 DEF Outgoing, Unanswered, InService, SentOn
<1>6. PushesOn(c)' = m \o <<n>> /\ PushesOn(c) = m \o <<>>
    BY <1>2, <1>4, <1>5, OneFrame, NoFrame DEF PushesOn
<1>7. m \in Seq(Nat) /\ n \in Nat
    BY <1>2, PathsTyped
<1>8. Lists(m, 1..pushes[c], 0)
    BY <1>6, <1>7, ConcatEmptySeq DEF Kept
<1>9. 1..pushes'[c] = 1..pushes[c] \cup {n} /\ n # 0 /\ \A i \in 1..pushes[c] : i < n
    BY <1>2
<1>. HIDE DEF m, n
<1>10. Lists(m \o <<n>>, 1..pushes[c] \cup {n}, 0)
    BY <1>7, <1>8, <1>9, ListsAppend
<1>11. RequestsOn(c)' = RequestsOn(c)
    BY <1>5 DEF RequestsOn
<1>. QED
    BY <1>5, <1>6, <1>9, <1>10, <1>11 DEF Kept

LEMMA GatewayKeeps ==
    ASSUME TypeOK, OpenInv, FramesAreKept, NEW c \in Conns, Gateway(c),
           UNCHANGED client, socket'[c] = "open"
    PROVE  Kept(c)'
<1>1. got' = got /\ conn' = conn
    BY DEF client, requests
<1>2. socket[c] = "open" /\ live[c]
    <2>1. socket' = socket \/ socket' = [socket EXCEPT ![c] = "closed"]
        BY DEF Gateway, Reader, Service, Forwarder, Writer, ReadMessage, ReadFails,
               PutRecv, ReaderDone, ConnectRealtime, TakeRecv, CallService,
               SendResponse, ServiceDone, ForwardPush, ForwarderDone, Write,
               WriteFails, WriterDone, ReceivePush, StreamEnds, Break, Return, Set
    <2>. QED
        BY <2>1 DEF OpenInv, TypeOK, SessionTypeOK
<1>3. Kept(c) /\ SentOn(c)' = SentOn(c)
    BY <1>1, <1>2 DEF FramesAreKept, Kept, SentOn
<1>4. CASE Reader(c)
    <2>1. ~ReaderDone(c) /\ UNCHANGED <<forwarderHas, pushes>>
        BY <1>2, <1>4 DEF Reader, ReadMessage, ReadFails, PutRecv, ReaderDone, forwarderVars
    <2>. QED
        BY <1>1, <1>3, <1>4, <2>1, ReaderKeeps, MovesKeep
<1>5. CASE ConnectRealtime(c)
    <2>1. /\ service' = [service EXCEPT ![c] = "idle"] /\ service[c] = "connecting"
          /\ UNCHANGED <<up, down, recv, send, readerHas, serviceHas, forwarderHas, pushes>>
        BY <1>2, <1>5 DEF ConnectRealtime, Return, Set, wires, channels, readerVars,
                          TypeOK, SessionTypeOK
    <2>2. Outgoing(c)' = Outgoing(c) /\ Unanswered(c)' = Unanswered(c)
        BY <1>1, <2>1 DEF Outgoing, Unanswered, InService, TypeOK, SessionTypeOK
    <2>. QED
        BY <1>1, <1>3, <2>1, <2>2, MovesKeep
<1>6. CASE TakeRecv(c) \/ CallService(c)
    <2>1. UNCHANGED <<forwarderHas, pushes>>
        BY <1>6 DEF TakeRecv, CallService, forwarderVars
    <2>. QED
        BY <1>1, <1>3, <1>6, <2>1, ServiceKeeps, MovesKeep
<1>7. CASE SendResponse(c)
    BY <1>1, <1>3, <1>7, AnswerKeeps
<1>8. CASE ForwardPush(c)
    BY <1>1, <1>3, <1>8, PushKeeps
<1>9. CASE ReceivePush(c)
    BY <1>1, <1>3, <1>9, ReceivePushKeeps
<1>10. CASE StreamEnds(c)
    <2>1. UNCHANGED <<up, down, recv, send, readerHas, service, serviceHas, forwarderHas, pushes>>
        BY <1>10 DEF StreamEnds, wires, channels, readerVars, serviceVars
    <2>2. Outgoing(c)' = Outgoing(c) /\ Unanswered(c)' = Unanswered(c)
        BY <1>1, <2>1 DEF Outgoing, Unanswered, InService
    <2>. QED
        BY <1>1, <1>3, <2>1, <2>2, MovesKeep
<1>11. CASE Write(c)
    <2>1. UNCHANGED <<forwarderHas, pushes>>
        BY <1>11 DEF Write, forwarderVars
    <2>. QED
        BY <1>1, <1>2, <1>3, <1>11, <2>1, WriteKeeps, MovesKeep
<1>12. ~ServiceDone(c) /\ ~ForwarderDone(c) /\ ~WriteFails(c) /\ ~WriterDone(c) /\ ~Break(c)
    BY <1>2 DEF ServiceDone, ForwarderDone, WriteFails, WriterDone, Break, Set,
                TypeOK, SessionTypeOK
<1>. QED
    BY <1>4, <1>5, <1>6, <1>7, <1>8, <1>9, <1>10, <1>11, <1>12
       DEF Gateway, Service, Forwarder, Writer

\* The other connections do not change, and no socket becomes new again.
LEMMA GatewayLocal ==
    ASSUME TypeOK, NEW c \in Conns, Gateway(c), UNCHANGED client
    PROVE  /\ \A d \in Conns \ {c} :
                 /\ Same(d) /\ socket'[d] = socket[d] /\ live'[d] = live[d]
                 /\ reader'[d] = reader[d] /\ forwarder'[d] = forwarder[d]
                 /\ writer'[d] = writer[d]
           /\ socket'[c] = socket[c] \/ socket'[c] = "closed"
<1>. USE DEF Set, Cancel, Return, channels, wires, readerVars, serviceVars, forwarderVars
<1>1. got' = got
    BY DEF client, requests
<1>2. CASE Reader(c)
    BY <1>1, <1>2 DEF Reader, ReadMessage, ReadFails, PutRecv, ReaderDone, Same, TypeOK, SessionTypeOK
<1>3. CASE Service(c)
    <2>1. CASE ConnectRealtime(c)
        BY <1>1, <2>1 DEF ConnectRealtime, Same, TypeOK, SessionTypeOK
    <2>2. CASE CallService(c)
        BY <1>1, <2>2 DEF CallService, CallFails, AnswerWith, Same, TypeOK, SessionTypeOK
    <2>3. CASE TakeRecv(c) \/ SendResponse(c) \/ ServiceDone(c)
        BY <1>1, <2>3 DEF TakeRecv, SendResponse, ServiceDone, Same, TypeOK, SessionTypeOK
    <2>. QED
        BY <1>3, <2>1, <2>2, <2>3 DEF Service
<1>4. CASE Forwarder(c) \/ ReceivePush(c) \/ StreamEnds(c)
    BY <1>1, <1>4 DEF Forwarder, ForwardPush, ForwarderDone, ReceivePush, StreamEnds,
                      Same, TypeOK, SessionTypeOK
<1>5. CASE Writer(c) \/ Break(c)
    BY <1>1, <1>5 DEF Writer, Write, WriteFails, WriterDone, Break, Same, TypeOK, SessionTypeOK
<1>. QED
    BY <1>2, <1>3, <1>4, <1>5 DEF Gateway

\* What the gateway does to the connection itself, but for its frames.
LEMMA GatewayOwn ==
    ASSUME TypeOK, StartInv, OpenInv, NEW c \in Conns, Gateway(c), UNCHANGED client
    PROVE  /\ socket[c] # "new"
           /\ service'[c] \in {"off", "connecting"} => forwarder'[c] = "off"
           /\ socket'[c] = "open" => live'[c]
           /\ socket'[c] # "open" => Arrived(c)' = Arrived(c)
<1>. USE DEF Set, Cancel, Return, channels, wires, readerVars, serviceVars, forwarderVars
<1>1. socket[c] # "new"
    <2>1. ASSUME socket[c] = "new"
          PROVE  /\ reader[c] = "off" /\ service[c] = "off" /\ forwarder[c] = "off"
                 /\ writer[c] = "off"
        BY <2>1 DEF StartInv
    <2>. QED
        BY <2>1 DEF Gateway, Reader, Service, Forwarder, Writer, ReadMessage, ReadFails,
               PutRecv, ReaderDone, ConnectRealtime, TakeRecv, CallService,
               SendResponse, ServiceDone, ForwardPush, ForwarderDone, Write,
               WriteFails, WriterDone, ReceivePush, StreamEnds, Break
<1>2. service'[c] \in {"off", "connecting"} => forwarder'[c] = "off"
    BY DEF StartInv, Gateway, Reader, Service, Forwarder, Writer, ReadMessage, ReadFails,
           PutRecv, ReaderDone, ConnectRealtime, TakeRecv, CallService,
           SendResponse, ServiceDone, ForwardPush, ForwarderDone, Write,
           WriteFails, WriterDone, ReceivePush, StreamEnds, Break, TypeOK, SessionTypeOK
<1>3. socket'[c] = "open" => live'[c]
    BY DEF OpenInv, Gateway, Reader, Service, Forwarder, Writer, ReadMessage, ReadFails,
           PutRecv, ReaderDone, ConnectRealtime, TakeRecv, CallService,
           SendResponse, ServiceDone, ForwardPush, ForwarderDone, Write,
           WriteFails, WriterDone, ReceivePush, StreamEnds, Break, TypeOK, SessionTypeOK
<1>4. ASSUME socket'[c] # "open" PROVE down' = down
    BY <1>4 DEF Gateway, Reader, Service, Forwarder, Writer, ReadMessage, ReadFails,
           PutRecv, ReaderDone, ConnectRealtime, TakeRecv, CallService,
           SendResponse, ServiceDone, ForwardPush, ForwarderDone, Write,
           WriteFails, WriterDone, ReceivePush, StreamEnds, Break, TypeOK, SessionTypeOK
<1>. QED
    BY <1>1, <1>2, <1>3, <1>4 DEF Arrived, client, requests

-----------------------------------------------------------------------------
(* The answers that have come.                                             *)

LEMMA ListedArrived ==
    ASSUME NEW g \in Seq(Frame), NEW d \in Seq(Frame), NEW s \in Seq(Frame),
           NEW u \in Seq(Requests \cup {None}), NEW S \in SUBSET Requests,
           Lists(Abouts((g \o d) \o s) \o u, S, None)
    PROVE  Leads(Abouts(g \o d), S)
<1>. DEFINE U == Requests \cup {None}
            a == Abouts(g \o d)
            b == Abouts(s)
<1>1. g \o d \in Seq(Frame)
    BY ConcatProperties
<1>2. Abouts((g \o d) \o s) = a \o b /\ a \in Seq(U) /\ b \in Seq(U)
    BY <1>1, AboutsConcat, AboutsProperties
<1>. HIDE DEF a, b
<1>3. a \o b \in Seq(U) /\ (a \o b) \o u \in Seq(U)
    BY <1>2, ConcatProperties
<1>4. Leads((a \o b) \o u, S)
    BY <1>2, <1>3, ListsLead
<1>. DEFINE ab == a \o b
<1>5. ab \in Seq(U) /\ Leads(ab \o u, S)
    BY <1>3, <1>4
<1>. HIDE DEF ab
<1>6. Leads(ab, S)
    BY <1>5, LeadsPrefix
<1>7. Leads(a \o b, S)
    BY <1>6 DEF ab
<1>8. Leads(a, S)
    BY <1>2, <1>7, LeadsPrefix
<1>. QED
    BY <1>8 DEF a

OpenArrived == \A c \in Conns : Kept(c) => Leads(Arrived(c), SentOn(c))

LEMMA KeptArrived == TypeOK => OpenArrived
<1>. SUFFICES ASSUME TypeOK, NEW c \in Conns, Kept(c)
              PROVE  Leads(Arrived(c), SentOn(c))
    BY DEF OpenArrived
<1>1. /\ got[c] \in Seq(Frame) /\ down[c] \in Seq(Frame) /\ send[c] \in Seq(Frame)
      /\ Unanswered(c) \in Seq(Requests \cup {None})
      /\ SentOn(c) \in SUBSET Requests
    BY ConnTyped, PathsTyped DEF SentOn
<1>2. Lists(Abouts((got[c] \o down[c]) \o send[c]) \o Unanswered(c), SentOn(c), None)
    BY DEF Kept, RequestsOn, Outgoing
<1>. QED
    BY <1>1, <1>2, ListedArrived DEF Arrived

\* The rest of the invariant is about the requests only.
LEMMA RequestsSame ==
    ASSUME HandlersInv, SettledInv, EarlierAnswers, UNCHANGED requests
    PROVE  HandlersInv' /\ SettledInv' /\ EarlierAnswers'
BY DEF HandlersInv, SettledInv, EarlierAnswers, Accepts, IsAnswer, requests

\* What is left to show of the sockets.
SocketsKeep ==
    /\ \A c \in Conns : socket[c] # "new" => socket'[c] # "new"
    /\ StartInv' /\ OpenInv'
    /\ \A c \in Conns : socket'[c] = "open" => Kept(c)'
    /\ \A c \in Conns : socket'[c] # "open" => Leads(Arrived(c), SentOn(c))'

LEMMA SocketsRest ==
    ASSUME SentInv, TypeOK', OpenArrived', UNCHANGED requests, SocketsKeep
    PROVE  SentInv' /\ StartInv' /\ OpenInv' /\ FramesAreKept' /\ ArrivedInv'
<1>1. SentInv'
    BY NoneAssumption DEF SentInv, SocketsKeep, requests, TypeOK
<1>2. FramesAreKept'
    BY DEF SocketsKeep, FramesAreKept, Kept
<1>3. ArrivedInv'
    BY DEF SocketsKeep, ArrivedInv, OpenArrived
<1>. QED
    BY <1>1, <1>2, <1>3 DEF SocketsKeep

LEMMA GatewayStep ==
    ASSUME TypeOK, StartInv, OpenInv, FramesAreKept, ArrivedInv,
           NEW c \in Conns, Gateway(c), UNCHANGED client
    PROVE  SocketsKeep
<1>1. conn' = conn /\ got' = got /\ \A d \in Conns : SentOn(d)' = SentOn(d)
    BY DEF client, requests, SentOn
<1>2. \A d \in Conns \ {c} :
          /\ Same(d) /\ socket'[d] = socket[d] /\ live'[d] = live[d]
          /\ reader'[d] = reader[d] /\ forwarder'[d] = forwarder[d]
          /\ writer'[d] = writer[d]
    BY GatewayLocal
<1>3. /\ socket[c] # "new" /\ socket'[c] # "new"
      /\ service'[c] \in {"off", "connecting"} => forwarder'[c] = "off"
      /\ socket'[c] = "open" => live'[c]
      /\ socket'[c] # "open" => Arrived(c)' = Arrived(c)
    BY GatewayLocal, GatewayOwn
<1>4. StartInv'
    BY <1>1, <1>2, <1>3 DEF StartInv, Same
<1>5. OpenInv'
    BY <1>2, <1>3 DEF OpenInv
<1>6. ASSUME NEW d \in Conns, socket'[d] = "open" PROVE Kept(d)'
    <2>1. CASE d = c
        BY <1>6, <2>1, GatewayKeeps
    <2>2. CASE d # c
        <3>1. Kept(d)
            BY <1>2, <1>6, <2>2 DEF FramesAreKept, OpenInv, Kept
        <3>. QED
            BY <1>1, <1>2, <2>2, <3>1, SameKeeps
    <2>. QED
        BY <2>1, <2>2
<1>7. ASSUME NEW d \in Conns, socket'[d] # "open" PROVE Leads(Arrived(d), SentOn(d))'
    <2>1. Arrived(d)' = Arrived(d)
        BY <1>2, <1>3, <1>7, SameKeeps
    <2>. QED
        BY <1>1, <2>1 DEF ArrivedInv
<1>. QED
    BY <1>2, <1>3, <1>4, <1>5, <1>6, <1>7 DEF SocketsKeep

LEMMA UpgradeStep ==
    ASSUME TypeOK, SentInv, StartInv, OpenInv, FramesAreKept, ArrivedInv,
           NEW c \in Conns, Upgrade(c), UNCHANGED requests
    PROVE  SocketsKeep
<1>1. \A d \in Conns : SentOn(d)' = SentOn(d)
    BY DEF requests, SentOn
<1>2. /\ socket[c] = "new" /\ socket' = [socket EXCEPT ![c] = "open"]
      /\ live' = [live EXCEPT ![c] = TRUE]
      /\ reader' = [reader EXCEPT ![c] = "reading"]
      /\ writer' = [writer EXCEPT ![c] = "running"]
      /\ service' = [service EXCEPT ![c] = "connecting"]
      /\ UNCHANGED <<up, down, got, recv, send, readerHas, serviceHas, forwarder,
                     forwarderHas, pushes>>
    BY DEF Upgrade, Set, wires, channels, forwarderVars, requests
<1>3. /\ socket'[c] = "open" /\ live'[c] /\ service'[c] = "connecting"
      /\ \A d \in Conns \ {c} : /\ Same(d) /\ socket'[d] = socket[d] /\ live'[d] = live[d]
                                /\ reader'[d] = reader[d] /\ writer'[d] = writer[d]
    BY <1>2 DEF TypeOK, SessionTypeOK, Same
<1>4. StartInv'
    BY <1>2, <1>3 DEF StartInv, Same
<1>5. OpenInv'
    BY <1>3 DEF OpenInv
<1>6. Kept(c)'
    <2>1. /\ up[c] = <<>> /\ recv[c] = <<>> /\ send[c] = <<>>
          /\ down[c] = <<>> /\ got[c] = <<>> /\ pushes[c] = 0
          /\ reader[c] = "off" /\ service[c] = "off" /\ forwarder[c] = "off"
        BY <1>2 DEF StartInv
    <2>2. readerHas[c] = None /\ forwarderHas[c] = None
        BY <2>1 DEF TypeOK, SessionTypeOK
    <2>3. Outgoing(c)' = <<>>
        BY <1>2, <2>1 DEF Outgoing
    <2>4. Unanswered(c)' = <<>>
        BY <1>2, <1>3, <2>1, <2>2, NoFrame DEF Unanswered, InService
    <2>5. RequestsOn(c)' = <<>> /\ PushesOn(c)' = <<>>
        BY <1>2, <2>2, <2>3, <2>4, NoFrame DEF RequestsOn, PushesOn
    <2>6. SentOn(c) = {}
        BY <1>2, NoneAssumption DEF SentOn, SentInv, Conns
    <2>7. pushes'[c] = 0
        BY <1>2, <2>1
    <2>8. Lists(<<>>, {}, None) /\ Lists(<<>>, 1..0, 0)
        BY DEF Lists
    <2>. QED
        BY <1>1, <2>5, <2>6, <2>7, <2>8 DEF Kept
<1>7. ASSUME NEW d \in Conns \ {c}, socket'[d] = "open" PROVE Kept(d)'
    <2>1. Kept(d)
        BY <1>3, <1>7 DEF FramesAreKept, OpenInv, Kept
    <2>. QED
        BY <1>1, <1>3, <2>1, SameKeeps
<1>8. ASSUME NEW d \in Conns, socket'[d] # "open" PROVE Leads(Arrived(d), SentOn(d))'
    <2>1. Arrived(d)' = Arrived(d)
        BY <1>3, <1>8, SameKeeps
    <2>. QED
        BY <1>1, <2>1 DEF ArrivedInv
<1>. QED
    BY <1>3, <1>4, <1>5, <1>6, <1>7, <1>8 DEF SocketsKeep

\* The rest of the frames is lost with the socket.
LEMMA CloseStep ==
    ASSUME TypeOK, StartInv, OpenInv, FramesAreKept, ArrivedInv,
           NEW c \in Conns, HandleClose(c), UNCHANGED requests
    PROVE  SocketsKeep
<1>1. \A d \in Conns : SentOn(d)' = SentOn(d)
    BY DEF requests, SentOn
<1>2. /\ socket[c] = "closed"
      /\ down' = [down EXCEPT ![c] = SubSeq(down[c], Len(down[c]) + 1, Len(down[c]))]
      /\ UNCHANGED <<socket, live, up, got, recv, send, reader, readerHas, service,
                     serviceHas, forwarder, forwarderHas, writer, pushes>>
    BY DEF HandleClose, TakeIn, Set, channels, readerVars, serviceVars, forwarderVars, requests
<1>3. \A d \in Conns \ {c} : Same(d)
    BY <1>2 DEF TypeOK, SessionTypeOK, Same
<1>4. StartInv' /\ OpenInv'
    BY <1>2, <1>3 DEF StartInv, OpenInv, Same
<1>5. ASSUME NEW d \in Conns, socket'[d] = "open" PROVE Kept(d)'
    <2>1. Kept(d) /\ d # c
        BY <1>2, <1>5 DEF FramesAreKept, OpenInv, Kept
    <2>. QED
        BY <1>1, <1>3, <2>1, SameKeeps
<1>6. Leads(Arrived(c), SentOn(c))'
    <2>1. got[c] \in Seq(Frame) /\ down[c] \in Seq(Frame) /\ Len(down[c]) \in Nat
        BY ConnTyped, LenProperties
    <2>2. down'[c] = <<>>
        BY <1>2, <2>1, SubSeqEmpty DEF TypeOK, SessionTypeOK
    <2>3. Arrived(c)' = Abouts(got[c])
        BY <1>2, <2>1, <2>2, ConcatEmptySeq DEF Arrived
    <2>4. Leads(Abouts(got[c]) \o Abouts(down[c]), SentOn(c))
        BY <2>1, AboutsConcat DEF ArrivedInv, Arrived
    <2>5. Leads(Abouts(got[c]), SentOn(c))
        BY <2>1, <2>4, AboutsProperties, LeadsPrefix
    <2>. QED
        BY <1>1, <2>3, <2>5
<1>7. ASSUME NEW d \in Conns \ {c} PROVE Leads(Arrived(d), SentOn(d))'
    BY <1>1, <1>3, SameKeeps DEF ArrivedInv
<1>. QED
    BY <1>2, <1>4, <1>5, <1>6, <1>7 DEF SocketsKeep

\* The socket is closed under the goroutines, or nothing happens to the session.
LEMMA BreakStep ==
    ASSUME TypeOK, StartInv, OpenInv, FramesAreKept, ArrivedInv, UNCHANGED requests,
           UNCHANGED session \/ \E c \in Conns : Break(c)
    PROVE  SocketsKeep
<1>1. \A d \in Conns : SentOn(d)' = SentOn(d)
    BY DEF requests, SentOn
<1>2. /\ UNCHANGED <<live, up, down, got, recv, send, reader, readerHas, service,
                     serviceHas, forwarder, forwarderHas, writer, pushes>>
      /\ \A d \in Conns : socket'[d] # socket[d] => socket[d] # "new" /\ socket'[d] = "closed"
    BY DEF Break, Set, wires, channels, readerVars, serviceVars, forwarderVars,
           requests, session, TypeOK, SessionTypeOK
<1>3. \A d \in Conns : Same(d)
    BY <1>2 DEF Same
<1>4. StartInv' /\ OpenInv'
    BY <1>2 DEF StartInv, OpenInv
<1>5. ASSUME NEW d \in Conns, socket'[d] = "open" PROVE Kept(d)'
    <2>1. Kept(d)
        BY <1>2, <1>5 DEF FramesAreKept, OpenInv, Kept
    <2>. QED
        BY <1>1, <1>3, <2>1, SameKeeps
<1>6. ASSUME NEW d \in Conns PROVE Leads(Arrived(d), SentOn(d))'
    BY <1>1, <1>3, SameKeeps DEF ArrivedInv
<1>. QED
    BY <1>2, <1>4, <1>5, <1>6 DEF SocketsKeep

-----------------------------------------------------------------------------
(* What the requests do.                                                   *)

RequestsKeep ==
    /\ TypeOK' /\ SentInv' /\ StartInv' /\ OpenInv' /\ FramesAreKept'
    /\ ArrivedInv' /\ HandlersInv' /\ SettledInv' /\ EarlierAnswers'

LEMMA ReceiveTyped ==
    ASSUME TypeOK, NEW c \in Conns, Receive(c)
    PROVE  TypeOK'
<1>. DEFINE frame == Head(down[c])
            settled == {r \in Takers(frame) : state[r] = "pending"}
<1>1. /\ frame \in Frame /\ got' = [got EXCEPT ![c] = Append(@, frame)]
      /\ TakeIn(c, 1) /\ handlers' = handlers \ Takers(frame)
      /\ by' = [r \in Requests |-> IF r \in settled THEN frame ELSE by[r]]
      /\ state' = [r \in Requests |->
            IF r \notin settled THEN state[r]
            ELSE IF frame.type = "error" THEN "rejected" ELSE "resolved"]
      /\ UNCHANGED <<websocket, op, conn>>
    BY ReceiveKeeps DEF Receive
<1>2. SessionTypeOK'
    BY <1>1, TakeInTyped DEF TypeOK
<1>3. WebSocketTypeOK'
    BY <1>1 DEF TypeOK, WebSocketTypeOK, websocket, socketVars
<1>4. got' \in [Conns -> Seq(Frame)]
    <2>1. Append(got[c], frame) \in Seq(Frame)
        BY <1>1, ConnTyped, AppendProperties
    <2>. QED
        BY <1>1, <2>1 DEF TypeOK
<1>. HIDE DEF frame
<1>5. by' \in [Requests -> Frame \cup {None}] /\ state' \in [Requests -> States]
    BY <1>1 DEF TypeOK, States
<1>6. handlers' \subseteq {r \in Requests : state'[r] # "new"}
    BY <1>1 DEF TypeOK
<1>. QED
    BY <1>1, <1>2, <1>3, <1>4, <1>5, <1>6 DEF TypeOK

\* The next frame to come is the first of those on their way.
LEMMA NextArrival ==
    ASSUME NEW g \in Seq(Frame), NEW d \in Seq(Frame), d # <<>>
    PROVE  /\ Len(g) + 1 \in 1..Len(Abouts(g \o d))
           /\ Abouts(g \o d)[Len(g) + 1] = Head(d).about
           /\ \A i \in 1..Len(g) : Abouts(g \o d)[i] = g[i].about
<1>1. Len(g) \in Nat /\ Len(d) \in Nat \ {0} /\ d[1] = Head(d)
    BY EmptySeq, LenProperties
<1>2. /\ g \o d \in Seq(Frame)
      /\ Len(g \o d) = Len(g) + Len(d)
      /\ \A i \in 1..Len(g) + Len(d) : (g \o d)[i] = IF i <= Len(g) THEN g[i] ELSE d[i - Len(g)]
    BY ConcatProperties
<1>3. Len(g) + 1 \in 1..Len(g) + Len(d) /\ ~(Len(g) + 1 <= Len(g)) /\ (Len(g) + 1) - Len(g) = 1
    BY <1>1
<1>4. (g \o d)[Len(g) + 1] = Head(d)
    BY <1>1, <1>2, <1>3
<1>5. \A i \in 1..Len(g) : i \in 1..Len(g) + Len(d) /\ (g \o d)[i] = g[i]
    BY <1>1, <1>2
<1>6. /\ Len(Abouts(g \o d)) = Len(g) + Len(d)
      /\ \A i \in 1..Len(g) + Len(d) : Abouts(g \o d)[i] = (g \o d)[i].about
    BY <1>2, AboutsProperties
<1>. QED
    BY <1>3, <1>4, <1>5, <1>6

LEMMA ReceiveStep ==
    ASSUME RInv, NEW c \in Conns, Receive(c)
    PROVE  RequestsKeep
<1>. DEFINE frame == Head(down[c])
            settled == {r \in Takers(frame) : state[r] = "pending"}
            new == Len(got[c]) + 1
<1>. USE DEF RInv
<1>1. /\ frame \in Frame /\ got' = [got EXCEPT ![c] = Append(@, frame)]
      /\ down' = [down EXCEPT ![c] = Tail(down[c])]
      /\ Arrived(c)' = Arrived(c) /\ Outgoing(c)' = Outgoing(c)
      /\ Unanswered(c)' = Unanswered(c)
    BY ReceiveKeeps DEF Arrived
<1>2. /\ ready[c] = "open" /\ handlers' = handlers \ Takers(frame)
      /\ by' = [r \in Requests |-> IF r \in settled THEN frame ELSE by[r]]
      /\ state' = [r \in Requests |->
            IF r \notin settled THEN state[r]
            ELSE IF frame.type = "error" THEN "rejected" ELSE "resolved"]
      /\ UNCHANGED <<op, conn>>
      /\ UNCHANGED <<socket, live, up, recv, send, reader, readerHas, service,
                     serviceHas, forwarder, forwarderHas, writer, pushes>>
    BY DEF Receive, TakeIn, channels, readerVars, serviceVars, forwarderVars
<1>3. /\ got[c] \in Seq(Frame) /\ Len(got[c]) \in Nat
      /\ Len(got'[c]) = new /\ got'[c][new] = frame
      /\ \A i \in 1..Len(got[c]) : got'[c][i] = got[c][i]
      /\ \A d \in Conns \ {c} : got'[d] = got[d] /\ down'[d] = down[d]
    BY <1>1, ConnTyped, AppendProperties, LenProperties DEF TypeOK, SessionTypeOK
<1>4. /\ new \in 1..Len(Arrived(c)) /\ Arrived(c)[new] = frame.about
      /\ \A i \in 1..Len(got[c]) : Arrived(c)[i] = got[c][i].about
    <2>1. got[c] \in Seq(Frame) /\ down[c] \in Seq(Frame) /\ down[c] # <<>>
        BY ConnTyped, ReceiveKeeps
    <2>. QED
        BY <2>1, NextArrival DEF Arrived
<1>5. settled \subseteq Takers(frame) /\ settled \subseteq handlers /\ settled \subseteq Requests
    BY DEF Takers, TypeOK
<1>. HIDE DEF frame, new
<1>6. ASSUME NEW d \in Conns, NEW i \in 1..Len(got'[d])
      PROVE  \/ i \in 1..Len(got[d]) /\ got'[d][i] = got[d][i]
             \/ d = c /\ i = new /\ got'[d][i] = frame
    BY <1>3, <1>6 DEF new
<1>7. SentInv'
    BY <1>2 DEF SentInv, TypeOK
<1>8. StartInv' /\ OpenInv'
    <2>1. socket[c] # "new"
        BY <1>2 DEF IInv, UsedInv
    <2>. QED
        BY <1>2, <1>3, <2>1 DEF StartInv, OpenInv
<1>9. \A d \in Conns : SentOn(d)' = SentOn(d)
    BY <1>2 DEF SentOn
<1>10. \A d \in Conns \ {c} : Same(d)
    BY <1>2, <1>3 DEF Same
<1>11. FramesAreKept'
    <2>1. ASSUME NEW d \in Conns, live'[d], socket'[d] = "open" PROVE Kept(d)'
        <3>1. Kept(d)
            BY <1>2, <2>1 DEF FramesAreKept, Kept
        <3>2. CASE d = c
            BY <1>1, <1>2, <1>9, <3>1, <3>2, MovesKeep
        <3>3. CASE d # c
            BY <1>9, <1>10, <3>1, <3>3, SameKeeps
        <3>. QED
            BY <3>2, <3>3
    <2>. QED
        BY <2>1 DEF FramesAreKept, Kept
<1>12. ArrivedInv'
    <2>1. ASSUME NEW d \in Conns PROVE Leads(Arrived(d), SentOn(d))'
        <3>1. Arrived(d)' = Arrived(d)
            BY <1>1, <1>10, SameKeeps
        <3>. QED
            BY <1>9, <3>1 DEF ArrivedInv
    <2>. QED
        BY <2>1 DEF ArrivedInv
<1>13. HandlersInv'
    <2>1. SUFFICES ASSUME NEW r \in handlers', NEW d \in Conns, NEW i \in 1..Len(got'[d]),
                          got'[d][i].about = r
                   PROVE  ~Accepts(r, got'[d][i])
        BY <1>2 DEF HandlersInv, Accepts
    <2>2. r \in handlers /\ ~Accepts(r, frame)
        BY <1>2, <2>1 DEF Takers
    <2>. QED
        BY <1>6, <2>1, <2>2 DEF HandlersInv
<1>14. ASSUME IsAnswer(frame) PROVE frame.about \in SentOn(c) /\ state[frame.about] # "new"
    <2>1. frame.about \in SentOn(c)
        BY <1>4, <1>14 DEF IsAnswer, ArrivedInv, Leads
    <2>. QED
        BY <2>1, NoneAssumption DEF SentOn, SentInv, Conns
<1>15. SettledInv'
    <2>1. \A r \in Requests : state[r] # "new" => state'[r] # "new"
        BY <1>2
    <2>2. SUFFICES ASSUME NEW r \in Requests, by'[r] # None
                   PROVE  /\ state'[r] # "new"
                          /\ IsAnswer(by'[r]) => state'[by'[r].about] # "new"
        BY DEF SettledInv, IsAnswer
    <2>3. CASE r \in settled
        <3>1. by'[r] = frame /\ state[r] # "new"
            BY <1>2, <2>3
        <3>2. IsAnswer(frame) => frame.about \in Requests
            BY <1>14 DEF SentOn
        <3>. QED
            BY <1>14, <2>1, <3>1, <3>2
    <2>4. CASE r \notin settled
        <3>1. by'[r] = by[r] /\ by[r] # None
            BY <1>2, <2>2, <2>4
        <3>2. IsAnswer(by[r]) => by[r].about \in Requests
            BY <3>1 DEF IsAnswer, TypeOK, Frame, Answer, Push
        <3>. QED
            BY <2>1, <3>1, <3>2 DEF SettledInv
    <2>. QED
        BY <2>3, <2>4
<1>16. EarlierAnswers'
    <2>1. SUFFICES ASSUME NEW r \in Requests, by'[r] # None, IsAnswer(by'[r]), by'[r].about # r
                   PROVE  \/ by'[r].about < r
                          \/ conn[by'[r].about] # conn[r]
                          \/ \E i \in 1..Len(got'[conn[r]]) :
                                /\ got'[conn[r]][i].about = r
                                /\ ~Accepts(r, got'[conn[r]][i])
        BY <1>2 DEF EarlierAnswers, IsAnswer, Accepts
    <2>2. CASE r \notin settled
        <3>1. by'[r] = by[r] /\ state[r] # "new" /\ conn[r] \in Conns
            BY <1>2, <2>1, <2>2, NoneAssumption DEF SettledInv, SentInv, TypeOK
        <3>2. \A i \in 1..Len(got[conn[r]]) :
                 /\ i \in 1..Len(got'[conn[r]])
                 /\ got'[conn[r]][i] = got[conn[r]][i]
            BY <1>3, <3>1 DEF new
        <3>. QED
            BY <2>1, <3>1, <3>2 DEF EarlierAnswers
    <2>3. CASE r \in settled /\ conn[r] = c
        <3>1. by'[r] = frame /\ r \in handlers /\ r \in SentOn(c)
            BY <1>2, <1>5, <2>3 DEF SentOn
        <3>2. frame.about \in SentOn(c)
            BY <1>14, <2>1, <3>1
        <3>3. CASE r < frame.about
            <4>1. PICK j \in 1..new - 1 : Arrived(c)[j] = r
                BY <1>4, <2>1, <3>1, <3>3 DEF ArrivedInv, Leads, IsAnswer
            <4>2. j \in 1..Len(got[c])
                BY <1>3 DEF new
            <4>3. got[c][j].about = r
                BY <1>4, <4>1, <4>2
            <4>4. j \in 1..Len(got'[c]) /\ got'[c][j] = got[c][j]
                BY <1>3, <4>2 DEF new
            <4>. QED
                BY <2>3, <3>1, <4>2, <4>3, <4>4 DEF HandlersInv
        <3>4. CASE frame.about < r
            BY <3>1, <3>4
        <3>. QED
            BY <2>1, <3>1, <3>2, <3>3, <3>4 DEF SentOn, Requests
    <2>4. CASE r \in settled /\ conn[r] # c
        <3>1. by'[r] = frame
            BY <1>2, <2>4
        <3>2. conn[frame.about] = c
            BY <1>14, <2>1, <3>1 DEF SentOn
        <3>. QED
            BY <2>4, <3>1, <3>2
    <2>. QED
        BY <2>2, <2>3, <2>4
<1>. QED
    BY <1>7, <1>8, <1>11, <1>12, <1>13, <1>15, <1>16, ReceiveTyped DEF RequestsKeep

\* What was received has come.
LEMMA GotArrived ==
    ASSUME TypeOK, NEW d \in Conns, NEW i \in 1..Len(got[d])
    PROVE  i \in 1..Len(Arrived(d)) /\ Arrived(d)[i] = got[d][i].about
<1>. DEFINE g == got[d]
            n == down[d]
            m == g \o n
<1>1. g \in Seq(Frame) /\ n \in Seq(Frame) /\ m \in Seq(Frame)
    BY ConnTyped, PathsTyped
<1>2. Len(g) \in Nat /\ Len(n) \in Nat
    BY <1>1, LenProperties
<1>3. i \in 1..Len(g)
    OBVIOUS
<1>4. Len(m) = Len(g) + Len(n)
    BY <1>1, ConcatProperties
<1>5. \A k \in 1..Len(g) + Len(n) : m[k] = IF k <= Len(g) THEN g[k] ELSE n[k - Len(g)]
    BY <1>1, ConcatProperties
<1>6. Abouts(m) = Arrived(d)
    BY DEF Arrived
<1>7. Len(Abouts(m)) = Len(m) /\ \A k \in 1..Len(m) : Abouts(m)[k] = m[k].about
    BY <1>1, AboutsProperties
<1>. HIDE DEF g, n, m
<1>8. i \in 1..Len(g) + Len(n) /\ i <= Len(g)
    BY <1>2, <1>3
<1>9. m[i] = g[i]
    BY <1>5, <1>8
<1>10. i \in 1..Len(Abouts(m)) /\ Abouts(m)[i] = g[i].about
    BY <1>4, <1>7, <1>8, <1>9
<1>. QED
    BY <1>6, <1>10 DEF g

LEMMA SendStep ==
    ASSUME RInv, NEW r \in Requests, NEW c \in Conns, c = ws, Send(r)
    PROVE  RequestsKeep
<1>. USE DEF RInv
<1>1. PICK o \in Ops : /\ Emit(c, [id |-> r, op |-> o])
                       /\ op' = [op EXCEPT ![r] = o]
    BY DEF Send
<1>2. /\ ready[c] = "open" /\ socket[c] # "new"
      /\ \A s \in Requests : state[s] = "new" <=> s >= r
      /\ state' = [state EXCEPT ![r] = "pending"]
      /\ conn' = [conn EXCEPT ![r] = c]
      /\ handlers' = handlers \cup {r}
      /\ UNCHANGED <<websocket, by, got>>
    BY DEF Send, CanSend, IsOpen, TypeOK, WebSocketTypeOK, IInv, UsedInv
<1>3. /\ up' = IF socket[c] = "open"
               THEN [up EXCEPT ![c] = Append(up[c], [id |-> r, op |-> o])] ELSE up
      /\ UNCHANGED <<socket, live, down, recv, send, reader, readerHas, service,
                     serviceHas, forwarder, forwarderHas, writer, pushes>>
    BY <1>1 DEF Emit, Set, channels, readerVars, serviceVars, forwarderVars
<1>4. /\ state[r] = "new" /\ conn[r] = None /\ r \notin handlers /\ by[r] = None
      /\ \A s \in Requests \ {r} : /\ state'[s] = state[s] /\ conn'[s] = conn[s]
                                   /\ op'[s] = op[s]
      /\ state'[r] = "pending" /\ conn'[r] = c /\ op'[r] = o
    BY <1>1, <1>2 DEF TypeOK, SentInv, SettledInv, Requests
<1>5. [id |-> r, op |-> o] \in Request
    BY DEF Request
<1>6. TypeOK'
    <2>1. SessionTypeOK'
        BY <1>1, <1>2, <1>5, EmitTyped DEF TypeOK
    <2>2. WebSocketTypeOK'
        BY <1>2 DEF TypeOK, WebSocketTypeOK, websocket, socketVars
    <2>3. op' \in [Requests -> Ops \cup {None}] /\ conn' \in [Requests -> Conns \cup {None}]
        BY <1>1, <1>2 DEF TypeOK
    <2>4. state' \in [Requests -> States] /\ handlers' \subseteq {s \in Requests : state'[s] # "new"}
        BY <1>2, <1>4 DEF TypeOK, States
    <2>. QED
        BY <1>2, <2>1, <2>2, <2>3, <2>4 DEF TypeOK
<1>7. SentInv'
    <2>1. \A s, t \in Requests : s < t /\ state'[s] = "new" => state'[t] = "new"
        BY <1>2, <1>4 DEF Requests
    <2>2. \A s \in Requests :
             /\ state'[s] = "new" <=> conn'[s] = None
             /\ state'[s] # "new" => op'[s] \in Ops /\ socket'[conn'[s]] # "new"
        BY <1>2, <1>3, <1>4, NoneAssumption DEF SentInv, Conns
    <2>. QED
        BY <2>1, <2>2 DEF SentInv
<1>8. /\ SentOn(c)' = SentOn(c) \cup {r}
      /\ \A d \in Conns \ {c} : SentOn(d)' = SentOn(d)
    <2>1. r \notin SentOn(c) /\ \A d \in Conns : conn[r] # d
        BY <1>2, <1>4, NoneAssumption DEF SentOn, Conns
    <2>2. \A s \in Requests : conn'[s] = IF s = r THEN c ELSE conn[s]
        BY <1>4
    <2>3. SentOn(c)' = {s \in Requests : conn'[s] = c}
        BY DEF SentOn
    <2>4. \A s \in Requests : conn'[s] = c <=> s = r \/ conn[s] = c
        BY <2>2
    <2>5. SentOn(c)' = SentOn(c) \cup {r}
        BY <2>3, <2>4 DEF SentOn
    <2>6. \A d \in Conns \ {c} : \A s \in Requests : conn'[s] = d <=> conn[s] = d
        BY <2>1, <2>2
    <2>7. \A d \in Conns \ {c} : SentOn(d)' = SentOn(d)
        BY <2>6 DEF SentOn
    <2>. QED
        BY <2>5, <2>7
<1>9. \A s \in SentOn(c) : s < r
    BY <1>2, NoneAssumption DEF SentOn, SentInv, Requests, Conns
<1>10. /\ \A d \in Conns \ {c} : Same(d)
       /\ \A d \in Conns : Arrived(d)' = Arrived(d) /\ Outgoing(d)' = Outgoing(d)
    BY <1>2, <1>3 DEF Same, Arrived, Outgoing, TypeOK, SessionTypeOK
<1>11. StartInv' /\ OpenInv'
    <2>1. \A d \in Conns : socket[d] = "new" => up'[d] = up[d]
        BY <1>2, <1>3 DEF TypeOK, SessionTypeOK
    <2>. QED
        BY <1>2, <1>3, <2>1 DEF StartInv, OpenInv
<1>12. ASSUME socket[c] = "open" PROVE Kept(c)'
    <2>. DEFINE U == Requests \cup {None}
                x == <<r>>
                front == InService(c) \o Ids(recv[c]) \o Ids(InHand(readerHas[c]))
                ids == Ids(up[c])
                out == Abouts(Outgoing(c))
                un == Unanswered(c)
    <2>1. Kept(c)
        BY <1>2, <1>12 DEF FramesAreKept, OpenInv, Kept
    <2>2. /\ Ids(up'[c]) = ids \o x /\ x \in Seq(U)
        <3>1. /\ up[c] \in Seq(Request) /\ <<[id |-> r, op |-> o]>> \in Seq(Request)
              /\ Ids(<<[id |-> r, op |-> o]>>) = x
            BY <1>2, <1>5, ConnTyped, OneRequest
        <3>2. up'[c] = up[c] \o <<[id |-> r, op |-> o]>>
            BY <1>2, <1>3, <1>5, <1>12, <3>1, AppendIsConcat DEF TypeOK, SessionTypeOK
        <3>3. Ids(up[c] \o <<[id |-> r, op |-> o]>>) = ids \o Ids(<<[id |-> r, op |-> o]>>)
            BY <3>1, IdsConcat
        <3>4. x \in Seq(U)
            OBVIOUS
        <3>. QED
            BY <3>1, <3>2, <3>3, <3>4
    <2>3. /\ front \in Seq(U) /\ ids \in Seq(U) /\ out \in Seq(U) /\ un \in Seq(U)
        <3>1. InService(c) \o Ids(recv[c]) \in Seq(U) /\ Ids(InHand(readerHas[c])) \in Seq(U)
            BY <1>2, ConnTyped, ConcatProperties
        <3>2. front \in Seq(U)
            BY <3>1, ConcatProperties
        <3>. QED
            BY <1>2, <3>2, ConnTyped, PathsTyped
    <2>4. /\ un = front \o ids /\ Unanswered(c)' = front \o (ids \o x)
          /\ RequestsOn(c) = out \o un /\ RequestsOn(c)' = out \o Unanswered(c)'
          /\ PushesOn(c)' = PushesOn(c)
        <3>1. InService(c)' = InService(c)
            BY <1>3 DEF InService
        <3>2. Unanswered(c)' = front \o (ids \o x)
            BY <1>3, <2>2, <3>1 DEF Unanswered
        <3>. QED
            BY <1>2, <1>3, <1>10, <3>2 DEF Unanswered, RequestsOn, PushesOn
    <2>. HIDE DEF front, ids, out, un, x
    <2>a. x \in Seq(U) /\ front \in Seq(U) /\ ids \in Seq(U)
        BY <2>2, <2>3
    <2>b. x \in Seq(U) /\ out \in Seq(U) /\ un \in Seq(U)
        BY <2>2, <2>3
    <2>5. (front \o ids) \o x = front \o (ids \o x)
        BY <2>a, ConcatAssociative
    <2>6. (out \o un) \o x = out \o (un \o x)
        BY <2>b, ConcatAssociative
    <2>7. RequestsOn(c)' = RequestsOn(c) \o x
        BY <2>4, <2>5, <2>6
    <2>8. Lists(RequestsOn(c) \o <<r>>, SentOn(c) \cup {r}, None)
        <3>1. RequestsOn(c) \in Seq(U) /\ r \in U /\ r # None
            BY <1>2, PathsTyped, NoneAssumption DEF Requests
        <3>. QED
            BY <1>9, <2>1, <3>1, ListsAppend DEF Kept
    <2>. QED
        BY <1>3, <1>8, <2>1, <2>4, <2>7, <2>8 DEF Kept, x
<1>13. FramesAreKept'
    <2>1. ASSUME NEW d \in Conns \ {c}, live'[d], socket'[d] = "open" PROVE Kept(d)'
        BY <1>3, <1>8, <1>10, <2>1, SameKeeps DEF FramesAreKept, Kept
    <2>. QED
        BY <1>3, <1>12, <2>1 DEF FramesAreKept, Kept
<1>14. ArrivedInv'
    <2>1. Leads(Arrived(c), SentOn(c) \cup {r})
        BY <1>2, <1>9, LeadsMore DEF ArrivedInv, SentOn
    <2>2. \A d \in Conns : Leads(Arrived(d), SentOn(d))'
        BY <1>8, <1>10, <2>1 DEF ArrivedInv
    <2>. QED
        BY <2>2 DEF ArrivedInv
<1>15. HandlersInv'
    <2>1. ASSUME NEW s \in handlers', NEW d \in Conns, NEW i \in 1..Len(got[d]),
                 got[d][i].about = s
          PROVE  s # r /\ ~Accepts(s, got[d][i])
        <3>1. i \in 1..Len(Arrived(d)) /\ Arrived(d)[i] = s
            BY <2>1, GotArrived
        <3>2. r \notin SentOn(d) /\ r # None
            BY <1>4, NoneAssumption DEF SentOn, Conns, Requests
        <3>3. s # r
            BY <3>1, <3>2 DEF ArrivedInv, Leads
        <3>. QED
            BY <1>2, <2>1, <3>3 DEF HandlersInv
    <2>2. \A s \in Requests \ {r} : op'[s] = op[s]
        BY <1>4
    <2>3. \A s \in handlers' : s \in Requests
        BY <1>6 DEF TypeOK
    <2>4. ASSUME NEW s \in handlers', NEW d \in Conns, NEW i \in 1..Len(got[d]),
                 got[d][i].about = s
          PROVE  ~Accepts(s, got[d][i])'
        <3>1. ~Accepts(s, got[d][i]) /\ op'[s] = op[s]
            BY <2>1, <2>2, <2>3, <2>4
        <3>. QED
            BY <1>2, <3>1 DEF Accepts
    <2>. QED
        BY <1>2, <2>4 DEF HandlersInv
<1>16. SettledInv'
    <2>1. SUFFICES ASSUME NEW s \in Requests, by[s] # None
                   PROVE  /\ state'[s] # "new"
                          /\ IsAnswer(by[s]) => state'[by[s].about] # "new"
        BY <1>2 DEF SettledInv, IsAnswer
    <2>2. IsAnswer(by[s]) => by[s].about \in Requests
        BY <2>1 DEF IsAnswer, TypeOK, Frame, Answer, Push
    <2>. QED
        BY <1>4, <2>1, <2>2 DEF SettledInv
<1>17. EarlierAnswers'
    <2>1. SUFFICES ASSUME NEW s \in Requests, by[s] # None, IsAnswer(by[s]), by[s].about # s
                   PROVE  \/ by[s].about < s
                          \/ conn'[by[s].about] # conn'[s]
                          \/ \E i \in 1..Len(got[conn'[s]]) :
                                /\ got[conn'[s]][i].about = s
                                /\ ~Accepts(s, got[conn'[s]][i])
        BY <1>2, <1>4 DEF EarlierAnswers, IsAnswer, Accepts
    <2>2. s # r /\ by[s].about \in Requests /\ by[s].about # r
        BY <1>4, <2>1 DEF SettledInv, IsAnswer, TypeOK, Frame, Answer, Push
    <2>3. conn'[s] = conn[s] /\ conn'[by[s].about] = conn[by[s].about] /\ op'[s] = op[s]
        BY <1>4, <2>2
    <2>. QED
        BY <2>1, <2>3 DEF EarlierAnswers
<1>. QED
    BY <1>6, <1>7, <1>11, <1>13, <1>14, <1>15, <1>16, <1>17 DEF RequestsKeep

\* A promise is rejected, and nothing else happens.
LEMMA TimeoutStep ==
    ASSUME RInv, NEW r \in Requests, Timeout(r)
    PROVE  RequestsKeep
<1>. USE DEF RInv
<1>1. /\ state[r] = "pending" /\ state' = [state EXCEPT ![r] = "rejected"]
      /\ UNCHANGED <<session, websocket, handlers, op, conn, by, got>>
    BY DEF Timeout
<1>2. \A s \in Requests : state'[s] = "new" <=> state[s] = "new"
    BY <1>1 DEF TypeOK
<1>3. TypeOK'
    <2>1. SessionTypeOK' /\ WebSocketTypeOK'
        BY <1>1 DEF TypeOK, SessionTypeOK, WebSocketTypeOK, session, websocket, socketVars
    <2>2. state' \in [Requests -> States] /\ handlers' \subseteq {s \in Requests : state'[s] # "new"}
        BY <1>1, <1>2 DEF TypeOK, States
    <2>. QED
        BY <1>1, <2>1, <2>2 DEF TypeOK
<1>4. SentInv'
    BY <1>1, <1>2 DEF SentInv, session
<1>5. StartInv' /\ OpenInv'
    BY <1>1 DEF StartInv, OpenInv, session
<1>6. \A d \in Conns : Same(d) /\ SentOn(d)' = SentOn(d)
    BY <1>1 DEF Same, SentOn, session
<1>7. ASSUME NEW d \in Conns, live'[d], socket'[d] = "open" PROVE Kept(d)'
    <2>1. Kept(d)
        BY <1>1, <1>7 DEF FramesAreKept, Kept, session
    <2>. QED
        BY <1>6, <2>1, SameKeeps
<1>8. FramesAreKept'
    BY <1>7 DEF FramesAreKept, Kept
<1>9. \A d \in Conns : Leads(Arrived(d), SentOn(d))'
    BY <1>6, SameKeeps DEF ArrivedInv
<1>10. ArrivedInv'
    BY <1>9 DEF ArrivedInv
<1>11. HandlersInv' /\ EarlierAnswers'
    BY <1>1 DEF HandlersInv, EarlierAnswers, Accepts, IsAnswer
<1>12. SettledInv'
    <2>1. \A s \in Requests : by[s] # None /\ IsAnswer(by[s]) => by[s].about \in Requests
        BY DEF IsAnswer, TypeOK, Frame, Answer, Push
    <2>. QED
        BY <1>1, <1>2, <2>1 DEF SettledInv, IsAnswer
<1>. QED
    BY <1>3, <1>4, <1>5, <1>8, <1>10, <1>11, <1>12 DEF RequestsKeep

LEMMA KeptArrivedNext == TypeOK' => OpenArrived'
BY KeptArrived, PTL

\* Steps that leave the requests alone.
LEMMA SocketsStep ==
    ASSUME RInv, TypeOK', UNCHANGED requests, SocketsKeep
    PROVE  RequestsKeep
BY KeptArrivedNext, SocketsRest, RequestsSame DEF RInv, RequestsKeep

\* Of the types of the client, all but the status are those of its sockets.
LEMMA SocketsType ==
    ASSUME IInv', TypeOK, SessionTypeOK', UNCHANGED requests,
           status' \in {"connecting", "connected", "disconnected"}
    PROVE  TypeOK'
BY DEF IInv, SocketsTyped, TypeOK, WebSocketTypeOK, requests

LEMMA ClientStep ==
    ASSUME RInv, IInv', UNCHANGED requests,
           \/ \E c \in Conns :
                 \/ PageConnects(c) \/ TimerFires(c) \/ HandleOpen(c)
                 \/ HandleClose(c) \/ HandleError(c)
           \/ Disconnect
    PROVE  RequestsKeep
<1>. USE DEF RInv
<1>0. SessionTypeOK /\ status \in {"connecting", "connected", "disconnected"}
    BY DEF TypeOK, WebSocketTypeOK
<1>1. ASSUME NEW c \in Conns, PageConnects(c) \/ TimerFires(c) \/ HandleError(c)
      PROVE  RequestsKeep
    <2>1. UNCHANGED session /\ status' \in {"connecting", "connected", "disconnected"}
        BY <1>0, <1>1 DEF PageConnects, TimerFires, HandleError, NewSocket, SocketEnds
    <2>2. SessionTypeOK'
        BY <1>0, <2>1 DEF SessionTypeOK, session
    <2>. QED
        BY <2>1, <2>2, SocketsType, BreakStep, SocketsStep
<1>2. ASSUME NEW c \in Conns, HandleOpen(c) PROVE RequestsKeep
    <2>1. Upgrade(c) /\ status' = "connected"
        BY <1>2 DEF HandleOpen
    <2>2. reader[c] = "off" /\ service[c] = "off"
        BY <2>1 DEF Upgrade, StartInv
    <2>3. SessionTypeOK'
        BY <1>0, <2>1, <2>2, UpgradeTyped
    <2>4. TypeOK'
        BY <2>1, <2>3, SocketsType
    <2>5. SocketsKeep
        BY <2>1, UpgradeStep
    <2>. QED
        BY <2>4, <2>5, SocketsStep
<1>3. ASSUME NEW c \in Conns, HandleClose(c) PROVE RequestsKeep
    <2>1. TakeIn(c, Len(down[c])) /\ status' = "disconnected"
        BY <1>3 DEF HandleClose, SocketEnds
    <2>2. Len(down[c]) \in Nat
        BY ConnTyped, LenProperties
    <2>3. SessionTypeOK'
        BY <1>0, <2>1, <2>2, TakeInTyped
    <2>4. TypeOK'
        BY <2>1, <2>3, SocketsType
    <2>5. SocketsKeep
        BY <1>3, CloseStep
    <2>. QED
        BY <2>4, <2>5, SocketsStep
<1>4. CASE Disconnect
    <2>1. status' = "disconnected" /\ CloseSocket
        BY <1>4 DEF Disconnect
    <2>2. /\ ws # None => ws \in Conns /\ ready[ws] \in {"connecting", "open", "closed"}
          /\ IsOpen => socket[ws] \in {"open", "closed"}
        BY DEF IInv, SocketsTyped, UsedInv, IsOpen
    <2>3. UNCHANGED session \/ \E c \in Conns : Break(c)
        <3>1. CASE IsOpen /\ socket[ws] = "open"
            <4>1. Break(ws) /\ ws \in Conns
                BY <2>1, <2>2, <3>1 DEF CloseSocket, IsOpen
            <4>. QED
                BY <4>1
        <3>2. CASE ~(IsOpen /\ socket[ws] = "open")
            BY <2>1, <2>2, <3>2 DEF CloseSocket, IsOpen
        <3>. QED
            BY <3>1, <3>2
    <2>4. SessionTypeOK'
        <3>1. ASSUME NEW c \in Conns, Break(c) PROVE SessionTypeOK'
            BY <1>0, <3>1, BoundsAssumption
               DEF Break, Set, SessionTypeOK, wires, channels, readerVars, serviceVars, forwarderVars
        <3>2. CASE UNCHANGED session
            BY <1>0, <3>2 DEF SessionTypeOK, session
        <3>. QED
            BY <2>3, <3>1, <3>2
    <2>5. TypeOK'
        BY <2>1, <2>4, SocketsType
    <2>6. SocketsKeep
        BY <2>3, BreakStep
    <2>. QED
        BY <2>5, <2>6, SocketsStep
<1>. QED
    BY <1>1, <1>2, <1>3, <1>4

LEMMA GatewayMoves ==
    ASSUME RInv, IInv', NEW c \in Conns, Gateway(c), UNCHANGED client
    PROVE  RequestsKeep
<1>. USE DEF RInv
<1>1. SessionTypeOK /\ (service[c] = "connecting" => forwarder[c] = "off")
    BY DEF TypeOK, StartInv
<1>2. SessionTypeOK'
    BY <1>1, GatewayTyped
<1>3. UNCHANGED requests /\ status' = status
    BY DEF client, websocket
<1>4. TypeOK'
    BY <1>2, <1>3, SocketsType DEF TypeOK, WebSocketTypeOK
<1>5. SocketsKeep
    BY GatewayStep
<1>. QED
    BY <1>3, <1>4, <1>5, SocketsStep

LEMMA RequestsInv ==
    ASSUME RInv, [Next]_vars
    PROVE  RInv'
<1>1. IInv'
    BY NextInv DEF RInv
<1>2. ASSUME NEW r \in Requests, Send(r) PROVE RequestsKeep
    <2>1. ws \in Conns
        BY <1>2 DEF Send, CanSend, IsOpen, RInv, TypeOK, WebSocketTypeOK
    <2>2. PICK c \in Conns : c = ws
        BY <2>1
    <2>. QED
        BY <1>2, <2>2, SendStep
<1>3. ASSUME UNCHANGED vars PROVE RequestsKeep
    <2>1. UNCHANGED requests /\ UNCHANGED session /\ status' = status
        BY <1>3 DEF vars, client, websocket
    <2>2. SessionTypeOK'
        BY <2>1 DEF RInv, TypeOK, SessionTypeOK, session
    <2>3. TypeOK'
        BY <1>1, <2>1, <2>2, SocketsType DEF RInv, TypeOK, WebSocketTypeOK
    <2>4. SocketsKeep
        BY <2>1, BreakStep DEF RInv
    <2>. QED
        BY <2>1, <2>3, <2>4, SocketsStep
<1>4. ASSUME NEW c \in Conns, Receive(c) PROVE RequestsKeep
    BY <1>4, ReceiveStep
<1>5. ASSUME NEW r \in Requests, Timeout(r) PROVE RequestsKeep
    BY <1>5, TimeoutStep
<1>6. ASSUME NEW c \in Conns, Gateway(c), UNCHANGED client PROVE RequestsKeep
    BY <1>1, <1>6, GatewayMoves
<1>7. ASSUME \/ \E c \in Conns :
                   \/ PageConnects(c) \/ TimerFires(c) \/ HandleOpen(c)
                   \/ HandleClose(c) \/ HandleError(c)
             \/ Disconnect,
             UNCHANGED requests
      PROVE  RequestsKeep
    BY <1>1, <1>7, ClientStep
<1>8. RequestsKeep
    BY <1>2, <1>3, <1>4, <1>5, <1>6, <1>7 DEF Next
<1>. QED
    BY <1>1, <1>8 DEF RInv, RequestsKeep

LEMMA InitRequests ==
    ASSUME Init
    PROVE  RInv
<1>1. IInv
    BY InitInv
<1>2. TypeOK
    <2>1. SessionTypeOK
        <3>1. /\ socket \in [Conns -> {"new", "open", "closed"}] /\ live \in [Conns -> BOOLEAN]
              /\ up \in [Conns -> Seq(Request)] /\ recv \in [Conns -> Seq(Request)]
              /\ down \in [Conns -> Seq(Frame)] /\ send \in [Conns -> Seq(Frame)]
            BY EmptySeq DEF Init, GInit
        <3>2. pushes \in [Conns -> 0..MaxPushes] /\ faults \in 0..MaxFaults /\ breaks \in 0..MaxBreaks
            BY BoundsAssumption DEF Init, GInit
        <3>3. \A c \in Conns : Len(recv[c]) <= Capacity /\ Len(send[c]) <= Capacity
            BY BoundsAssumption, EmptySeq DEF Init, GInit
        <3>4. \A c \in Conns :
                 /\ reader[c] = "off" /\ readerHas[c] = None /\ service[c] = "off"
                 /\ serviceHas[c] = None /\ forwarder[c] = "off" /\ forwarderHas[c] = None
            BY DEF Init, GInit
        <3>5. /\ reader \in [Conns -> {"off", "reading", "putting", "ended"}]
              /\ readerHas \in [Conns -> Request \cup {None}]
              /\ service \in
                    [Conns -> {"off", "connecting", "idle", "calling", "answering", "ended"}]
              /\ serviceHas \in [Conns -> Request \cup Answer \cup {None}]
              /\ forwarder \in [Conns -> {"off", "receiving", "putting", "ended"}]
              /\ forwarderHas \in [Conns -> Push \cup {None}]
              /\ writer \in [Conns -> {"off", "running", "ended"}]
            BY DEF Init, GInit
        <3>6. None \notin Request /\ None \notin Answer
            BY NoneAssumption DEF Frame
        <3>7. \A c \in Conns :
                 /\ reader[c] = "putting" <=> readerHas[c] # None
                 /\ service[c] = "calling" <=> serviceHas[c] \in Request
                 /\ service[c] = "answering" <=> serviceHas[c] \in Answer
                 /\ forwarder[c] = "putting" <=> forwarderHas[c] # None
            BY <3>4, <3>6
        <3>. QED
            BY <3>1, <3>2, <3>3, <3>5, <3>7 DEF SessionTypeOK
    <2>2. WebSocketTypeOK
        BY <1>1 DEF IInv, SocketsTyped, Init, WInit, WebSocketTypeOK
    <2>3. got \in [Conns -> Seq(Frame)]
        BY EmptySeq DEF Init
    <2>. QED
        BY <2>1, <2>2, <2>3 DEF Init, TypeOK, States
<1>3. SentInv /\ StartInv /\ OpenInv
    BY DEF Init, GInit, SentInv, StartInv, OpenInv
<1>4. FramesAreKept
    BY DEF Init, GInit, FramesAreKept
<1>5. ArrivedInv
    <2>1. ASSUME NEW c \in Conns PROVE Leads(Arrived(c), SentOn(c))
        <3>1. Arrived(c) = <<>>
            BY NoFrame DEF Init, GInit, Arrived
        <3>. QED
            BY <3>1 DEF Leads
    <2>. QED
        BY <2>1 DEF ArrivedInv
<1>6. HandlersInv /\ SettledInv /\ EarlierAnswers
    BY DEF Init, HandlersInv, SettledInv, EarlierAnswers
<1>. QED
    BY <1>1, <1>2, <1>3, <1>4, <1>5, <1>6 DEF RInv

LEMMA InductiveRequests == Spec => []RInv
BY InitRequests, RequestsInv, PTL DEF Spec

-----------------------------------------------------------------------------
\* The types of the goroutines, channels, sockets and handlers, for any number
\* of connections and requests and any capacity of the channels.
THEOREM TypeCorrect == Spec => []TypeOK
<1>1. RInv => TypeOK
    BY DEF RInv
<1>. QED
    BY InductiveRequests, <1>1, PTL

\* The four goroutines of a session that lives neither lose nor repeat nor
\* reorder a frame (handler.go): in service, in the channels, in a goroutine's
\* hands and on the wire, all requests and all pushes are there in order.
THEOREM FramesKept == Spec => []FramesAreKept
<1>1. RInv => FramesAreKept
    BY DEF RInv
<1>. QED
    BY InductiveRequests, <1>1, PTL

\* Answers without ids (messages.ts): a request takes its own answer, or that of
\* an earlier one, unless its connection had ended or it ignores its error.
THEOREM EarlierAnswered == Spec => []EarlierAnswers
<1>1. RInv => EarlierAnswers
    BY DEF RInv
<1>. QED
    BY InductiveRequests, <1>1, PTL
=============================================================================
