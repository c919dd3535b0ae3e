--------------------------- MODULE WebSocketClient ---------------------------
(***************************************************************************)
(* The websocket client of the browser (websocket.ts): the socket it uses, *)
(* the status it shows, and the reconnection.  The sockets are numbered in *)
(* the order they are made; each that opens is a connection of             *)
(* GatewaySession.  The events of a socket are handled whether or not the  *)
(* client still uses it.                                                   *)
(***************************************************************************)
EXTENDS GatewaySession

CONSTANT MaxReconnectAttempts  \* 5 in the code

ASSUME AttemptsAssumption == MaxReconnectAttempts \in Nat

VARIABLES
    ready,     \* per socket, its readyState: none, connecting, open, closed;
               \* leaving between close() and an end that is not clean
    ws,        \* the socket the client uses, or None
    status,    \* connecting, connected, disconnected
    attempts,  \* reconnectAttempts
    timer,     \* whether the reconnect timer is set
    replaced,  \* history: a socket was replaced while it was being opened
    ended,     \* history: whether and how the client was disconnected: no,
               \* clean, or unclean
    failures   \* history: sockets that ended since the last one opened

socketVars == <<ws, attempts, timer, replaced, ended, failures>>
websocket == <<ready, status, socketVars>>

WebSocketTypeOK ==
    /\ ready \in [Conns -> {"none", "connecting", "open", "closed", "leaving"}]
    /\ ws \in Conns \cup {None}
    /\ status \in {"connecting", "connected", "disconnected"}
    /\ attempts \in 0..MaxReconnectAttempts
    /\ timer \in BOOLEAN /\ replaced \in BOOLEAN
    /\ ended \in {"no", "clean", "unclean"}
    /\ failures \in Nat

WInit ==
    /\ ready = [c \in Conns |-> "none"]
    /\ ws = None
    /\ status = "disconnected"
    /\ attempts = 0
    /\ timer = FALSE /\ replaced = FALSE
    /\ ended = "no"
    /\ failures = 0

-----------------------------------------------------------------------------
IsOpen == ws # None /\ ready[ws] = "open"

\* send() throws otherwise.
CanSend == status = "connected" /\ IsOpen

\* Mutant: the open socket is not looked at.
AlwaysOpens == TRUE

\* connect() returns at once if the socket is open.
Opens == ~IsOpen

\* connect(): a new socket takes the place of the one in use.
NewSocket(c) ==
    /\ \A d \in Conns : ready[d] = "none" <=> d >= c
    /\ ready' = Set(ready, c, "connecting")
    /\ ws' = c
    /\ status' = "connecting"
    /\ replaced' = (replaced \/ (ws # None /\ ready[ws] = "connecting"))
    /\ UNCHANGED <<attempts, ended, failures>>

\* ChatsPage connects whenever a chat is selected.
PageConnects(c) ==
    /\ ended = "no"
    /\ Opens
    /\ NewSocket(c)
    /\ UNCHANGED <<session, timer>>

TimerFires(c) ==
    /\ timer
    /\ timer' = FALSE
    /\ \/ Opens /\ NewSocket(c)
       \/ ~Opens /\ UNCHANGED <<ready, ws, status, attempts, replaced, ended, failures>>
    /\ UNCHANGED session

\* handleOpen, of whichever socket.
HandleOpen(c) ==
    /\ ready[c] = "connecting"
    /\ Upgrade(c)
    /\ ready' = Set(ready, c, "open")
    /\ status' = "connected"
    /\ attempts' = 0
    /\ failures' = 0
    /\ UNCHANGED <<ws, timer, replaced, ended>>

\* Mutant: one attempt too few.
RetryLess ==
    IF attempts + 1 < MaxReconnectAttempts
    THEN timer' = TRUE /\ attempts' = attempts + 1
    ELSE UNCHANGED <<timer, attempts>>

\* scheduleReconnect, unless the attempts are used up.
Retry ==
    IF attempts < MaxReconnectAttempts
    THEN timer' = TRUE /\ attempts' = attempts + 1
    ELSE UNCHANGED <<timer, attempts>>

\* handleClose after a socket has broken, of whichever socket; the gateway
\* never closes with a code that forbids to reconnect.
SocketEnds(c) ==
    /\ ready' = Set(ready, c, "closed")
    /\ status' = "disconnected"
    /\ failures' = failures + 1
    /\ Retry
    /\ UNCHANGED <<ws, replaced, ended>>

\* Frames that have not come by now are lost.
HandleClose(c) ==
    /\ ready[c] = "open"
    /\ socket[c] = "closed"
    /\ TakeIn(c, Len(down[c]))
    /\ SocketEnds(c)

\* A socket that could not be opened, or was closed before it opened or after
\* it had broken.
HandleError(c) ==
    /\ ready[c] \in {"connecting", "leaving"}
    /\ SocketEnds(c)
    /\ UNCHANGED session

\* close(): an open socket ends with the code 1000, and that is all.
CloseSocket ==
    CASE IsOpen /\ socket[ws] = "open" ->
            /\ Break(ws)
            /\ ready' = Set(ready, ws, "closed")
            /\ ended' = "clean"
      [] ws # None /\ (ready[ws] = "connecting" \/ (IsOpen /\ socket[ws] = "closed")) ->
            /\ ready' = Set(ready, ws, "leaving")
            /\ ended' = "unclean"
            /\ UNCHANGED session
      [] ws = None \/ ready[ws] = "closed" ->
            /\ ended' = "clean"
            /\ UNCHANGED <<session, ready>>

\* Mutant: the reconnect timer goes on.
DisconnectKeepsTimer ==
    /\ ended = "no"
    /\ CloseSocket
    /\ ws' = None
    /\ status' = "disconnected"
    /\ UNCHANGED <<timer, attempts, replaced, failures>>

\* disconnect(), in a logout.
Disconnect ==
    /\ ended = "no"
    /\ timer' = FALSE
    /\ CloseSocket
    /\ ws' = None
    /\ status' = "disconnected"
    /\ UNCHANGED <<attempts, replaced, failures>>

-----------------------------------------------------------------------------
\* As long as no socket was replaced while it was being opened, the client shows
\* that it is connected exactly when its socket is open, and so send() works
\* whenever waitForConnection() has returned.
StatusIsCurrent == ~replaced => (status = "connected" <=> IsOpen)

\* A client whose socket has ended reconnects: its timer is set, or more sockets
\* in a row have failed than it retries, or one was replaced.
ClosedIsRetried ==
    ws # None /\ ready[ws] = "closed" =>
        timer \/ failures > MaxReconnectAttempts \/ replaced

\* After a logout no socket is left and none is opened any more, unless the
\* logout closed one that was not open on both sides, or one had been replaced.
LogoutIsFinal ==
    ended = "clean" /\ ~replaced =>
        ~timer /\ \A c \in Conns : ready[c] \in {"none", "closed"}
=============================================================================
