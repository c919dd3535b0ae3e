-------------------------- MODULE RealtimeService --------------------------
(***************************************************************************)
(* realtime-service: the Hub with the stream of each connected user, the   *)
(* presence keys in Redis, and the Kafka consumer that pushes the events of*)
(* the topic to the streams.  A connection is one call of ConnectionStream,*)
(* a goroutine; between two of its steps (a Redis command or a section     *)
(* under one of the two mutexes) the other goroutines run.                 *)
(***************************************************************************)
EXTENDS Integers, Sequences, FiniteSets, Folds

CONSTANTS
    Users,           \* user ids
    Connections,     \* calls of ConnectionStream; a reconnect is a new one
    MaxTurns,        \* bound: pushes that the events of the topic call for
    MaxRedisErrors,  \* bound: Redis commands that return an error
    MaxCrashes,      \* bound: crashes of the process
    None             \* no stream, no heartbeat, no event

ASSUME BoundsAssumption ==
    MaxTurns \in Nat /\ MaxRedisErrors \in Nat /\ MaxCrashes \in Nat
ASSUME UsersAssumption == IsFiniteSet(Users)
ASSUME NoneAssumption == None \notin Connections /\ None \notin Nat

VARIABLES
    owner, pc,       \* per connection: its user and its next step
    streams,         \* Hub.streams
    cancelFuncs,     \* Hub.cancelFuncs: the connection whose heartbeat it stops
    beating,         \* the connections whose heartbeat goroutine runs
    missed,          \* those whose heartbeat failed to extend the present key
    online,          \* Redis: the users with a key user:<id>:online
    topic,           \* the topic: for each event whom it is pushed to, in order
    pos, committed,  \* the consumer: next offset to read, offset committed
    hand,            \* the offset being pushed, or None
    turn, target,    \* how many of its users had their turn; the stream looked
                     \* up for the last of them, or None
    received,        \* per connection, while its client is there: what was
                     \* pushed to it
    alone,           \* history: the connections that no other connection of
                     \* their user overlaps
    handled,         \* history: the offsets the consumer is done with
    redisErrors, crashes

connection == <<owner, pc, alone>>
hub == <<streams, cancelFuncs, beating>>
presence == <<online, missed>>
consumer == <<topic, pos, committed, hand, turn, target, handled>>
faults == <<redisErrors, crashes>>
vars == <<owner, pc, streams, cancelFuncs, beating, missed, online, topic, pos,
          committed, hand, turn, target, received, handled, alone, redisErrors,
          crashes>>

\* Whom an event is pushed to: the members of a group but its sender, or one
\* user, or a recipient and then the sender, who can be the same.
Addressed ==
    {<<r, s>> : r, s \in Users}
        \cup {l \in UNION {[1..n -> Users] : n \in 1..Cardinality(Users)} :
                 \A i, j \in DOMAIN l : l[i] = l[j] => i = j}

Turns == MapThenFoldSet(+, 0, LAMBDA o : Len(topic[o]),
                        LAMBDA S : CHOOSE o \in S : TRUE, DOMAIN topic)

\* A push: the offset of the event, and the turn of its user.
Pushed == [event : 1..Len(topic), turn : Nat]

Steps == {"new", "setOnline", "insert", "arm", "status", "open",
          "cancel", "delete", "setOffline", "ended"}

TypeOK ==
    /\ owner \in [Connections -> Users \cup {None}]
    /\ pc \in [Connections -> Steps]
    /\ streams \in [Users -> Connections \cup {None}]
    /\ cancelFuncs \in [Users -> Connections \cup {None}]
    /\ beating \subseteq Connections
    /\ missed \subseteq Connections
    /\ online \subseteq Users
    /\ topic \in Seq(Seq(Users))
    /\ pos \in 1..(Len(topic) + 1)
    /\ committed \in 0..(pos - 1)
    /\ hand \in 1..Len(topic) \cup {None}
    /\ turn \in Nat
    /\ target \in Connections \cup {None}
    /\ received \in [Connections -> Seq(Pushed)]
    /\ handled \subseteq 1..Len(topic)
    /\ alone \subseteq Connections
    /\ redisErrors \in Nat /\ crashes \in Nat

Init ==
    /\ owner = [c \in Connections |-> None]
    /\ pc = [c \in Connections |-> "new"]
    /\ streams = [u \in Users |-> None]
    /\ cancelFuncs = [u \in Users |-> None]
    /\ beating = {} /\ missed = {}
    /\ online = {}
    /\ topic = <<>>
    /\ pos = 1 /\ committed = 0
    /\ hand = None /\ turn = 0 /\ target = None
    /\ received = [c \in Connections |-> <<>>]
    /\ handled = {}
    /\ alone = {}
    /\ redisErrors = 0 /\ crashes = 0

-----------------------------------------------------------------------------
(* ConnectionStream, with RegisterConnection and UnregisterConnection.     *)

Goto(c, from, to) ==
    /\ pc[c] = from
    /\ pc' = [pc EXCEPT ![c] = to]

\* A client is authenticated and sends its first message.
Connect(c) ==
    /\ Goto(c, "new", "setOnline")
    /\ \E u \in Users :
          LET others == {d \in Connections : owner[d] = u /\ pc[d] # "ended"} IN
          /\ owner' = [owner EXCEPT ![c] = u]
          /\ alone' = IF others = {} THEN alone \cup {c} ELSE alone \ others
    /\ UNCHANGED <<hub, presence, consumer, received, faults>>

\* The heartbeats that failed before the key was set or extended do not count.
Extended(u) == {c \in missed : owner[c] # u}

SetOnline(c) ==
    /\ Goto(c, "setOnline", "insert")
    /\ online' = online \cup {owner[c]}
    /\ missed' = Extended(owner[c])
    /\ UNCHANGED <<owner, alone, hub, consumer, received, faults>>

\* An error of SetOnline refuses the connection, nothing else is undone.
SetOnlineFails(c) ==
    /\ Goto(c, "setOnline", "ended")
    /\ redisErrors < MaxRedisErrors
    /\ redisErrors' = redisErrors + 1
    /\ \/ UNCHANGED presence
       \/ online' = online \cup {owner[c]} /\ missed' = Extended(owner[c])
    /\ UNCHANGED <<owner, alone, hub, consumer, received, crashes>>

InsertStream(c) ==
    /\ Goto(c, "insert", "arm")
    /\ streams' = [streams EXCEPT ![owner[c]] = c]
    /\ UNCHANGED <<owner, alone, cancelFuncs, beating, presence, consumer, received, faults>>

\* The heartbeat of an older connection loses its cancel function.
StartHeartbeat(c) ==
    /\ Goto(c, "arm", "status")
    /\ cancelFuncs' = [cancelFuncs EXCEPT ![owner[c]] = c]
    /\ beating' = beating \cup {c}
    /\ UNCHANGED <<owner, alone, streams, presence, consumer, received, faults>>

\* The client has disconnected, or the stream is broken.
Leave(c, from, to) ==
    /\ Goto(c, from, to)
    /\ received' = [received EXCEPT ![c] = <<>>]

\* Mutant: without the deferred UnregisterConnection.
SendStatusOrReturn(c) ==
    /\ \/ Goto(c, "status", "open") /\ UNCHANGED received
       \/ Leave(c, "status", "ended")
    /\ UNCHANGED <<owner, alone, hub, presence, consumer, faults>>

\* The status is sent, or the client has gone already.
SendStatus(c) ==
    /\ \/ Goto(c, "status", "open") /\ UNCHANGED received
       \/ Leave(c, "status", "cancel")
    /\ UNCHANGED <<owner, alone, hub, presence, consumer, faults>>

\* Recv returns.
Close(c) ==
    /\ Leave(c, "open", "cancel")
    /\ UNCHANGED <<owner, alone, hub, presence, consumer, faults>>

\* UnregisterConnection: whichever connection of the user is registered now.
CancelHeartbeat(c) ==
    /\ Goto(c, "cancel", "delete")
    /\ beating' = beating \ {cancelFuncs[owner[c]]}
    /\ missed' = missed \ {cancelFuncs[owner[c]]}
    /\ cancelFuncs' = [cancelFuncs EXCEPT ![owner[c]] = None]
    /\ UNCHANGED <<owner, alone, streams, online, consumer, received, faults>>

DeleteStream(c) ==
    /\ Goto(c, "delete", "setOffline")
    /\ streams' = [streams EXCEPT ![owner[c]] = None]
    /\ UNCHANGED <<owner, alone, cancelFuncs, beating, presence, consumer, received, faults>>

\* The error of SetOffline is dropped; the key stays until it expires.
SetOffline(c) ==
    /\ Goto(c, "setOffline", "ended")
    /\ \/ online' = online \ {owner[c]} /\ UNCHANGED redisErrors
       \/ /\ redisErrors < MaxRedisErrors
          /\ redisErrors' = redisErrors + 1
          /\ UNCHANGED online
    /\ UNCHANGED <<owner, alone, hub, missed, consumer, received, crashes>>

-----------------------------------------------------------------------------
(* Heartbeats and expiry.                                                  *)

\* Mutants: the heartbeat gives up when the key is gone; it looks at nothing.
TickUntilOffline(c) ==
    /\ c \in beating
    /\ streams[owner[c]] = None \/ owner[c] \notin online
    /\ beating' = beating \ {c}
    /\ UNCHANGED <<connection, streams, cancelFuncs, presence, consumer, received, faults>>

TickForever(c) == c \in beating /\ UNCHANGED vars

\* A tick of c's heartbeat ends it if its user has no stream; else ExtendTTL
\* extends the key, if there is one.  One that has gone is not set again.
Tick(c) ==
    /\ c \in beating
    /\ \/ /\ streams[owner[c]] = None
          /\ beating' = beating \ {c}
          /\ missed' = missed \ {c}
       \/ /\ streams[owner[c]] # None
          /\ missed' = IF owner[c] \in online THEN Extended(owner[c]) ELSE missed
          /\ UNCHANGED beating
    /\ UNCHANGED <<connection, streams, cancelFuncs, online, consumer, received, faults>>

\* ExtendTTL returns an error, which the heartbeat drops; one error stands for
\* an outage that can last until the key expires.
TickFails(c) ==
    /\ c \in beating \ missed /\ streams[owner[c]] # None
    /\ redisErrors < MaxRedisErrors
    /\ redisErrors' = redisErrors + 1
    /\ missed' = missed \cup {c}
    /\ UNCHANGED <<connection, hub, online, consumer, received, crashes>>

\* Mutant: a key lives for less than a tick.
KeyExpiresEarly(u) ==
    /\ u \in online
    /\ online' = online \ {u}
    /\ UNCHANGED <<connection, hub, missed, consumer, received, faults>>

\* A key lives for ten ticks: one that was just set does not expire, nor one
\* that a heartbeat extends.
KeyExpires(u) ==
    /\ u \in online
    /\ \A c \in Connections : owner[c] = u =>
          (c \in beating => c \in missed) /\ pc[c] \notin {"insert", "arm"}
    /\ online' = online \ {u}
    /\ UNCHANGED <<connection, hub, missed, consumer, received, faults>>

-----------------------------------------------------------------------------
(* The consumer, a single goroutine.                                       *)

\* message-service publishes an event.  One that addresses nobody is left out.
Produce ==
    /\ \E l \in Addressed :
          /\ Turns + Len(l) <= MaxTurns
          /\ topic' = Append(topic, l)
    /\ UNCHANGED <<connection, hub, presence, pos, committed, hand, turn, target,
                   received, handled, faults>>

\* ReadMessage hands out the event and queues the commit of its offset.
ReadMessage ==
    /\ hand = None
    /\ pos <= Len(topic)
    /\ hand' = pos
    /\ turn' = 0
    /\ pos' = pos + 1
    /\ UNCHANGED <<connection, hub, presence, topic, committed, target,
                   received, handled, faults>>

\* CommitInterval: queued commits are flushed now and then.
FlushCommits ==
    /\ committed < pos - 1
    /\ committed' = pos - 1
    /\ UNCHANGED <<connection, hub, presence, topic, pos, hand, turn, target,
                   received, handled, faults>>

\* GetStream, for the next user; one without a stream is passed over.
LookUp ==
    /\ hand # None /\ target = None
    /\ turn < Len(topic[hand])
    /\ turn' = turn + 1
    /\ target' = streams[topic[hand][turn']]
    /\ UNCHANGED <<connection, hub, presence, topic, pos, committed, hand,
                   received, handled, faults>>

\* Mutant: the stream is not let go of.
PushAgain ==
    /\ target # None
    /\ Len(received[target]) <= MaxTurns
    /\ pc[target] \in {"arm", "status", "open"}
    /\ received' = [received EXCEPT ![target] = Append(@, [event |-> hand, turn |-> turn])]
    /\ UNCHANGED <<connection, hub, presence, topic, pos, committed, hand, turn,
                   target, handled, faults>>

\* Send on the stream looked up.  The connection may have ended meanwhile:
\* the error is logged.
Push ==
    /\ target # None
    /\ received' = IF pc[target] \in {"arm", "status", "open"}
                   THEN [received EXCEPT ![target] = Append(@, [event |-> hand, turn |-> turn])]
                   ELSE received
    /\ target' = None
    /\ UNCHANGED <<connection, hub, presence, topic, pos, committed, hand, turn,
                   handled, faults>>

\* The loop turns to the next event; also, at any point before the first
\* push, when the members of a group cannot be fetched.
NextEvent ==
    /\ hand # None /\ target = None
    /\ turn \in {0, Len(topic[hand])}
    /\ handled' = handled \cup {hand}
    /\ hand' = None
    /\ turn' = 0
    /\ UNCHANGED <<connection, hub, presence, topic, pos, committed, target,
                   received, faults>>

-----------------------------------------------------------------------------
\* Mutant: the consumer has no group and starts at the end of the topic.
CrashToLatest ==
    /\ crashes < MaxCrashes
    /\ crashes' = crashes + 1
    /\ pc' = [c \in Connections |-> IF pc[c] = "new" THEN "new" ELSE "ended"]
    /\ streams' = [u \in Users |-> None]
    /\ cancelFuncs' = [u \in Users |-> None]
    /\ beating' = {} /\ missed' = {}
    /\ pos' = Len(topic) + 1
    /\ hand' = None /\ turn' = 0 /\ target' = None
    /\ received' = [c \in Connections |-> <<>>]
    /\ UNCHANGED <<owner, alone, online, topic, committed, handled, redisErrors>>

\* The process stops and restarts: hub, streams and heartbeats are gone, the
\* Redis keys stay, and the consumer goes on after the committed offset.
Crash ==
    /\ crashes < MaxCrashes
    /\ crashes' = crashes + 1
    /\ pc' = [c \in Connections |-> IF pc[c] = "new" THEN "new" ELSE "ended"]
    /\ streams' = [u \in Users |-> None]
    /\ cancelFuncs' = [u \in Users |-> None]
    /\ beating' = {} /\ missed' = {}
    /\ pos' = committed + 1
    /\ hand' = None /\ turn' = 0 /\ target' = None
    /\ received' = [c \in Connections |-> <<>>]
    /\ UNCHANGED <<owner, alone, online, topic, committed, handled, redisErrors>>

Handler(c) ==
    \/ SetOnline(c) \/ SetOnlineFails(c) \/ InsertStream(c) \/ StartHeartbeat(c)
    \/ SendStatus(c) \/ CancelHeartbeat(c) \/ DeleteStream(c) \/ SetOffline(c)

Consumer == ReadMessage \/ LookUp \/ Push \/ NextEvent

Next ==
    \/ \E c \in Connections : Connect(c) \/ Close(c) \/ Handler(c)
    \/ \E c \in Connections : Tick(c) \/ TickFails(c)
    \/ \E u \in Users : KeyExpires(u)
    \/ Produce \/ FlushCommits \/ Consumer
    \/ Crash

\* Clients need neither connect nor close; goroutines run, tickers fire and
\* Redis expires keys.
Fairness ==
    /\ \A c \in Connections : WF_vars(Handler(c)) /\ WF_vars(Tick(c))
    /\ \A u \in Users : WF_vars(KeyExpires(u))
    /\ WF_vars(Consumer)

Spec == Init /\ [][Next]_vars
FairSpec == Spec /\ Fairness

-----------------------------------------------------------------------------
(* Safety.                                                                 *)

\* The hub never holds the stream of a connection whose handler has returned,
\* however connections of one user overlap.
StreamsAreLive ==
    \A u \in Users : streams[u] # None =>
        owner[streams[u]] = u /\ pc[streams[u]] \notin {"setOffline", "ended"}

\* A connection of u is being registered or unregistered.
Changing(u) ==
    \E c \in Connections :
        owner[c] = u /\ pc[c] \in {"setOnline", "insert", "arm", "cancel", "delete", "setOffline"}

\* While the hub holds a stream of a user some heartbeat of the user runs: the
\* cancellation of a heartbeat that is not one's own is followed by the removal
\* of the stream.
StreamsAreExtended ==
    \A u \in Users : streams[u] # None /\ ~Changing(u) =>
        \E c \in beating : owner[c] = u

\* A client gets the events in the order of the topic, although the consumer
\* reads events again after a crash; and an event comes again only where it
\* addresses the user again, as one whose recipient is its sender does.
PushesAreInOrder ==
    \A c \in Connections : \A i, j \in 1..Len(received[c]) :
        LET p == received[c][i]
            q == received[c][j]
        IN  /\ topic[p.event][p.turn] = owner[c]
            /\ i < j => p.event < q.event \/ (p.event = q.event /\ p.turn < q.turn)

\* The consumer passes over at most one event for each crash, the one it had
\* in hand: offsets are committed before the event is pushed.
SkipsNeedCrashes ==
    Cardinality((1..(pos - 1)) \ (handled \cup {hand})) <= crashes

\* A connection that no other one of its user overlaps is served as it should:
\* the hub pushes to it and would stop its heartbeat, which runs, and the user
\* is shown online, unless its heartbeat failed to extend the key.  Earlier
\* connections, their heartbeats and crashes do not matter; whatever else goes
\* wrong for an open connection is due to an overlap.
AloneIsServed ==
    \A c \in alone : pc[c] = "open" =>
        /\ streams[owner[c]] = c
        /\ cancelFuncs[owner[c]] = c
        /\ c \in beating
        /\ owner[c] \in online \/ c \in missed

(* Liveness.                                                               *)

Connected(u) == \E c \in Connections : owner[c] = u /\ pc[c] # "ended"

\* A user without a connection is offline in the end: if SetOffline failed or
\* the process crashed, no heartbeat keeps the key from expiring.
PresenceDecays ==
    \A u \in Users : (u \in online /\ ~Connected(u)) ~> (u \notin online \/ Connected(u))

=============================================================================
