--------------------------- MODULE GatewaySession ---------------------------
(***************************************************************************)
(* The websocket connections of one user at the api-gateway.  Each has four*)
(* goroutines: the reader and the writer of the socket, the service, which *)
(* answers the frames of the client one by one, and the forwarder, which   *)
(* passes on what realtime-service pushes.  They share the buffered        *)
(* channels recv and send and one context.  A request of the client is told*)
(* by its id and operation; the id is not part of the frame, and the code  *)
(* does not have it.                                                       *)
(***************************************************************************)
EXTENDS Naturals, Sequences

CONSTANTS
    MaxRequests, \* bound: frames the client sends
    Ops,         \* their operations, of those in AnswerType
    PushTypes,   \* the types of the events realtime-service pushes
    MaxConns,    \* bound: connections, one after the other
    Capacity,    \* of recv and send; 256 in the code
    MaxPushes,   \* bound: pushes on each connection
    MaxFaults,   \* bound: failing calls and streams, while the context lives
    MaxBreaks,   \* bound: sockets that break or that the client closes
    None         \* no frame

\* One operation of each kind that the client tells apart: one whose answer is
\* a type of its own, one whose answer has the type of an event, and one that
\* ignores errors.
AnswerType ==
    [send_message |-> "message_sent", delete_message |-> "message_deleted",
     get_chats |-> "chats"]

ASSUME BoundsAssumption ==
    /\ Ops \subseteq DOMAIN AnswerType
    /\ Capacity \in Nat \ {0}
    /\ MaxRequests \in Nat /\ MaxConns \in Nat /\ MaxPushes \in Nat
    /\ MaxFaults \in Nat /\ MaxBreaks \in Nat

Conns == 1..MaxConns

\* Numbered in the order in which they are sent.
Requests == 1..MaxRequests

Request == [id: Requests, op: Ops]
\* An answer to a request, or a push with its number on the connection.
Answer == [type: {AnswerType[op] : op \in Ops} \cup {"error"}, about: Requests, n: {0}]
Push == [type: PushTypes, about: {None}, n: 1..MaxPushes]
Frame == Answer \cup Push

ASSUME NoneAssumption == None \notin Nat \cup Request \cup Frame

VARIABLES
    socket,      \* per connection: new, open, closed
    live,        \* whether the context has not been cancelled
    up, down,    \* frames on their way to the gateway, and to the client
    recv, send,  \* the channels
    reader, readerHas,        \* the goroutines, and what each has in hand
    service, serviceHas,
    forwarder, forwarderHas,
    writer,
    pushes,      \* number of pushes received from realtime-service
    faults, breaks

channels == <<recv, send>>
wires == <<up, down>>
readerVars == <<reader, readerHas>>
serviceVars == <<service, serviceHas>>
forwarderVars == <<forwarder, forwarderHas>>
session == <<socket, live, up, down, recv, send, reader, readerHas, service,
             serviceHas, forwarder, forwarderHas, writer, pushes, faults, breaks>>

GInit ==
    /\ socket = [c \in Conns |-> "new"]
    /\ live = [c \in Conns |-> FALSE]
    /\ up = [c \in Conns |-> <<>>] /\ down = [c \in Conns |-> <<>>]
    /\ recv = [c \in Conns |-> <<>>] /\ send = [c \in Conns |-> <<>>]
    /\ reader = [c \in Conns |-> "off"] /\ readerHas = [c \in Conns |-> None]
    /\ service = [c \in Conns |-> "off"] /\ serviceHas = [c \in Conns |-> None]
    /\ forwarder = [c \in Conns |-> "off"] /\ forwarderHas = [c \in Conns |-> None]
    /\ writer = [c \in Conns |-> "off"]
    /\ pushes = [c \in Conns |-> 0]
    /\ faults = 0 /\ breaks = 0

SessionTypeOK ==
    /\ socket \in [Conns -> {"new", "open", "closed"}] /\ live \in [Conns -> BOOLEAN]
    /\ up \in [Conns -> Seq(Request)] /\ recv \in [Conns -> Seq(Request)]
    /\ down \in [Conns -> Seq(Frame)] /\ send \in [Conns -> Seq(Frame)]
    /\ reader \in [Conns -> {"off", "reading", "putting", "ended"}]
    /\ readerHas \in [Conns -> Request \cup {None}]
    /\ service \in
          [Conns -> {"off", "connecting", "idle", "calling", "answering", "ended"}]
    /\ serviceHas \in [Conns -> Request \cup Answer \cup {None}]
    /\ forwarder \in [Conns -> {"off", "receiving", "putting", "ended"}]
    /\ forwarderHas \in [Conns -> Push \cup {None}]
    /\ writer \in [Conns -> {"off", "running", "ended"}]
    /\ pushes \in [Conns -> 0..MaxPushes]
    /\ faults \in 0..MaxFaults /\ breaks \in 0..MaxBreaks
    /\ \A c \in Conns :
          /\ Len(recv[c]) <= Capacity /\ Len(send[c]) <= Capacity
          /\ reader[c] = "putting" <=> readerHas[c] # None
          /\ service[c] = "calling" <=> serviceHas[c] \in Request
          /\ service[c] = "answering" <=> serviceHas[c] \in Answer
          /\ forwarder[c] = "putting" <=> forwarderHas[c] # None

-----------------------------------------------------------------------------
Set(f, c, v) == [f EXCEPT ![c] = v]
Cancel(c) == live' = Set(live, c, FALSE)
Fault == faults < MaxFaults /\ faults' = faults + 1

\* Handle returns: the deferred cancel and conn.Close.
Return(c) ==
    /\ service' = Set(service, c, "ended")
    /\ socket' = Set(socket, c, "closed")
    /\ Cancel(c)

-----------------------------------------------------------------------------
(* The socket.                                                             *)

\* The upgrade, and the goroutines of Handle.
Upgrade(c) ==
    /\ socket[c] = "new"
    /\ socket' = Set(socket, c, "open")
    /\ live' = Set(live, c, TRUE)
    /\ reader' = Set(reader, c, "reading")
    /\ writer' = Set(writer, c, "running")
    /\ service' = Set(service, c, "connecting")
    /\ UNCHANGED <<wires, channels, readerHas, serviceHas, forwarderVars, pushes,
                   faults, breaks>>

\* The client sends a frame; on a socket that is closed by now it is lost.
Emit(c, request) ==
    /\ up' = IF socket[c] = "open" THEN Set(up, c, Append(up[c], request)) ELSE up
    /\ UNCHANGED <<socket, live, down, channels, readerVars, serviceVars,
                   forwarderVars, writer, pushes, faults, breaks>>

\* The client takes in the first n frames that have come.
TakeIn(c, n) ==
    /\ down' = Set(down, c, SubSeq(down[c], n + 1, Len(down[c])))
    /\ UNCHANGED <<socket, live, up, channels, readerVars, serviceVars,
                   forwarderVars, writer, pushes, faults, breaks>>

Break(c) ==
    /\ socket[c] = "open"
    /\ breaks < MaxBreaks
    /\ breaks' = breaks + 1
    /\ socket' = Set(socket, c, "closed")
    /\ UNCHANGED <<live, wires, channels, readerVars, serviceVars, forwarderVars,
                   writer, pushes, faults>>

-----------------------------------------------------------------------------
(* The reader.                                                             *)

ReadMessage(c) ==
    /\ reader[c] = "reading"
    /\ up[c] # <<>>
    /\ up' = Set(up, c, Tail(up[c]))
    /\ readerHas' = Set(readerHas, c, Head(up[c]))
    /\ reader' = Set(reader, c, "putting")
    /\ UNCHANGED <<socket, live, down, channels, serviceVars, forwarderVars,
                   writer, pushes, faults, breaks>>

\* A socket that is closed may still have frames to read, or not.
ReadFails(c) ==
    /\ reader[c] = "reading"
    /\ socket[c] = "closed"
    /\ reader' = Set(reader, c, "ended")
    /\ Cancel(c)
    /\ UNCHANGED <<socket, wires, channels, readerHas, serviceVars, forwarderVars,
                   writer, pushes, faults, breaks>>

\* Mutant: what does not fit is dropped.
PutRecvOrDrop(c) ==
    /\ reader[c] = "putting"
    /\ recv' = IF Len(recv[c]) < Capacity
               THEN Set(recv, c, Append(recv[c], readerHas[c])) ELSE recv
    /\ readerHas' = Set(readerHas, c, None)
    /\ reader' = Set(reader, c, "reading")
    /\ UNCHANGED <<socket, live, wires, send, serviceVars, forwarderVars, writer,
                   pushes, faults, breaks>>

PutRecv(c) ==
    /\ reader[c] = "putting"
    /\ Len(recv[c]) < Capacity
    /\ recv' = Set(recv, c, Append(recv[c], readerHas[c]))
    /\ readerHas' = Set(readerHas, c, None)
    /\ reader' = Set(reader, c, "reading")
    /\ UNCHANGED <<socket, live, wires, send, serviceVars, forwarderVars, writer,
                   pushes, faults, breaks>>

\* Mutant: a reader that waits for room does not look at the context.
ReaderWaits(c) == FALSE /\ UNCHANGED session

ReaderDone(c) ==
    /\ reader[c] = "putting"
    /\ ~live[c]
    /\ readerHas' = Set(readerHas, c, None)
    /\ reader' = Set(reader, c, "ended")
    /\ UNCHANGED <<socket, live, wires, channels, serviceVars, forwarderVars,
                   writer, pushes, faults, breaks>>

-----------------------------------------------------------------------------
(* The service.                                                            *)

\* Connect to realtime-service, which starts the forwarder.
ConnectRealtime(c) ==
    /\ service[c] = "connecting"
    /\ \/ /\ service' = Set(service, c, "idle")
          /\ forwarder' = Set(forwarder, c, "receiving")
          /\ UNCHANGED <<socket, live, faults>>
       \/ /\ Fault
          /\ Return(c)
          /\ UNCHANGED forwarder
    /\ UNCHANGED <<wires, channels, readerVars, serviceHas, forwarderHas, writer,
                   pushes, breaks>>

\* Mutant: a frame is served as soon as there is one, in any order.
TakeAnyRecv(c) ==
    /\ service[c] = "idle"
    /\ \E i \in 1..Len(recv[c]) :
          /\ serviceHas' = Set(serviceHas, c, recv[c][i])
          /\ recv' = Set(recv, c, SubSeq(recv[c], 1, i - 1)
                                    \o SubSeq(recv[c], i + 1, Len(recv[c])))
    /\ service' = Set(service, c, "calling")
    /\ UNCHANGED <<socket, live, wires, send, readerVars, forwarderVars, writer,
                   pushes, faults, breaks>>

TakeRecv(c) ==
    /\ service[c] = "idle"
    /\ recv[c] # <<>>
    /\ serviceHas' = Set(serviceHas, c, Head(recv[c]))
    /\ recv' = Set(recv, c, Tail(recv[c]))
    /\ service' = Set(service, c, "calling")
    /\ UNCHANGED <<socket, live, wires, send, readerVars, forwarderVars, writer,
                   pushes, faults, breaks>>

AnswerWith(c, type) ==
    serviceHas' = Set(serviceHas, c, [type |-> type, about |-> serviceHas[c].id, n |-> 0])

\* The call returns an error, or the context is cancelled.
CallFails(c) ==
    /\ AnswerWith(c, "error")
    /\ IF live[c] THEN Fault ELSE UNCHANGED faults

\* The call of another service: its answer, or an error.
CallService(c) ==
    /\ service[c] = "calling"
    /\ \/ AnswerWith(c, AnswerType[serviceHas[c].op]) /\ UNCHANGED faults
       \/ CallFails(c)
    /\ service' = Set(service, c, "answering")
    /\ UNCHANGED <<socket, live, wires, channels, readerVars, forwarderVars, writer,
                   pushes, breaks>>

\* sendResponse waits for room, whatever the context.
SendResponse(c) ==
    /\ service[c] = "answering"
    /\ Len(send[c]) < Capacity
    /\ send' = Set(send, c, Append(send[c], serviceHas[c]))
    /\ serviceHas' = Set(serviceHas, c, None)
    /\ service' = Set(service, c, "idle")
    /\ UNCHANGED <<socket, live, wires, recv, readerVars, forwarderVars, writer,
                   pushes, faults, breaks>>

ServiceDone(c) ==
    /\ service[c] = "idle"
    /\ ~live[c]
    /\ Return(c)
    /\ UNCHANGED <<wires, channels, readerVars, serviceHas, forwarderVars, writer,
                   pushes, faults, breaks>>

-----------------------------------------------------------------------------
(* The forwarder.                                                          *)

ReceivePush(c) ==
    /\ forwarder[c] = "receiving"
    /\ live[c]
    /\ pushes[c] < MaxPushes
    /\ pushes' = Set(pushes, c, pushes[c] + 1)
    /\ \E type \in PushTypes :
          forwarderHas' = Set(forwarderHas, c,
                              [type |-> type, about |-> None, n |-> pushes[c] + 1])
    /\ forwarder' = Set(forwarder, c, "putting")
    /\ UNCHANGED <<socket, live, wires, channels, readerVars, serviceVars, writer,
                   faults, breaks>>

\* Mutant: what does not fit is dropped.
ForwardPushOrDrop(c) ==
    /\ forwarder[c] = "putting"
    /\ send' = IF Len(send[c]) < Capacity
               THEN Set(send, c, Append(send[c], forwarderHas[c])) ELSE send
    /\ forwarderHas' = Set(forwarderHas, c, None)
    /\ forwarder' = Set(forwarder, c, "receiving")
    /\ UNCHANGED <<socket, live, wires, recv, readerVars, serviceVars, writer,
                   pushes, faults, breaks>>

ForwardPush(c) ==
    /\ forwarder[c] = "putting"
    /\ Len(send[c]) < Capacity
    /\ send' = Set(send, c, Append(send[c], forwarderHas[c]))
    /\ forwarderHas' = Set(forwarderHas, c, None)
    /\ forwarder' = Set(forwarder, c, "receiving")
    /\ UNCHANGED <<socket, live, wires, recv, readerVars, serviceVars, writer,
                   pushes, faults, breaks>>

\* The context is cancelled.
ForwarderDone(c) ==
    /\ forwarder[c] \in {"receiving", "putting"}
    /\ ~live[c]
    /\ forwarderHas' = Set(forwarderHas, c, None)
    /\ forwarder' = Set(forwarder, c, "ended")
    /\ UNCHANGED <<socket, live, wires, channels, readerVars, serviceVars, writer,
                   pushes, faults, breaks>>

\* The stream ends: the forwarder returns, and nothing else happens.
StreamEnds(c) ==
    /\ forwarder[c] = "receiving"
    /\ Fault
    /\ forwarder' = Set(forwarder, c, "ended")
    /\ UNCHANGED <<socket, live, wires, channels, readerVars, serviceVars,
                   forwarderHas, writer, pushes, breaks>>

-----------------------------------------------------------------------------
(* The writer.                                                             *)

\* A write on a socket that is closed may go unnoticed.
Write(c) ==
    /\ writer[c] = "running"
    /\ send[c] # <<>>
    /\ send' = Set(send, c, Tail(send[c]))
    /\ down' = IF socket[c] = "open"
               THEN Set(down, c, Append(down[c], Head(send[c]))) ELSE down
    /\ UNCHANGED <<socket, live, up, recv, readerVars, serviceVars, forwarderVars,
                   writer, pushes, faults, breaks>>

WriteFails(c) ==
    /\ writer[c] = "running"
    /\ send[c] # <<>>
    /\ socket[c] = "closed"
    /\ send' = Set(send, c, Tail(send[c]))
    /\ writer' = Set(writer, c, "ended")
    /\ Cancel(c)
    /\ UNCHANGED <<socket, wires, recv, readerVars, serviceVars, forwarderVars,
                   pushes, faults, breaks>>

WriterDone(c) ==
    /\ writer[c] = "running"
    /\ ~live[c]
    /\ writer' = Set(writer, c, "ended")
    /\ UNCHANGED <<socket, live, wires, channels, readerVars, serviceVars,
                   forwarderVars, pushes, faults, breaks>>

Reader(c) == ReadMessage(c) \/ ReadFails(c) \/ PutRecv(c) \/ ReaderDone(c)
Service(c) ==
    \/ ConnectRealtime(c) \/ TakeRecv(c) \/ CallService(c) \/ SendResponse(c)
    \/ ServiceDone(c)
Forwarder(c) == ForwardPush(c) \/ ForwarderDone(c)
Writer(c) == Write(c) \/ WriteFails(c) \/ WriterDone(c)

Gateway(c) ==
    \/ Reader(c) \/ Service(c) \/ Forwarder(c) \/ Writer(c)
    \/ ReceivePush(c) \/ StreamEnds(c) \/ Break(c)
=============================================================================
