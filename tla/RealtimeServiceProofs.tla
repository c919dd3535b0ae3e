------------------------ MODULE RealtimeServiceProofs ------------------------
(***************************************************************************)
(* Proofs about RealtimeService: types, the hub and its heartbeats, the    *)
(* service of a connection without overlaps, and the order and the gaps of *)
(* what the consumer pushes.                                               *)
(***************************************************************************)
EXTENDS RealtimeService, FiniteSetTheorems, TLAPS

\* A connection has a user once it has connected.
OwnerInv == \A c \in Connections : pc[c] # "new" => owner[c] \in Users

\* The hub holds a stream, and the cancellation of a heartbeat, under the user
\* of the connection, and the stream only while the handler is registered.
HubInv ==
    \A u \in Users :
        /\ streams[u] # None =>
              /\ owner[streams[u]] = u
              /\ pc[streams[u]] \in {"arm", "status", "open", "cancel", "delete"}
        /\ cancelFuncs[u] # None =>
              owner[cancelFuncs[u]] = u /\ pc[cancelFuncs[u]] # "new"

\* Of all connections of its user only c may not have ended.
Only(c) ==
    \A d \in Connections \ {c} : owner[d] = owner[c] => pc[d] = "ended"

\* What a connection without overlaps has reached at each of its steps.
Served(c) ==
    /\ pc[c] \in {"insert", "arm"} => owner[c] \in online
    /\ pc[c] \in {"status", "open"} => owner[c] \in online \/ c \in missed
    /\ pc[c] \in {"arm", "status", "open"} => streams[owner[c]] = c
    /\ pc[c] \in {"status", "open"} => cancelFuncs[owner[c]] = c /\ c \in beating

AloneInv ==
    \A c \in alone : pc[c] # "new" /\ (pc[c] # "ended" => Only(c) /\ Served(c))

\* A heartbeat is cancelled under a stream only by a handler that removes it.
BeatInv ==
    \A c \in Connections :
        pc[c] \in {"status", "open"} /\ streams[owner[c]] = c =>
            \/ c \in beating
            \/ \E d \in Connections : owner[d] = owner[c] /\ pc[d] = "delete"

\* What the consumer has in hand, and whose turn it is.
HandInv ==
    /\ hand # None => hand = pos - 1 /\ turn \in 0..Len(topic[hand])
    /\ target # None => /\ hand # None
                        /\ turn \in 1..Len(topic[hand])
                        /\ pc[target] # "new"
                        /\ owner[target] = topic[hand][turn]

\* A connection has got events before the one in hand, and that one at turns
\* that are over.
ReceivedInv ==
    \A c \in Connections :
        /\ pc[c] = "new" => received[c] = <<>>
        /\ \A i \in 1..Len(received[c]) :
              /\ received[c][i].event < pos
              /\ received[c][i].event = hand =>
                    /\ received[c][i].turn <= turn
                    /\ received[c][i].turn = turn => target = None

\* The offsets that were read and passed over.
Skipped == (1..(pos - 1)) \ (handled \cup {hand})

IInv ==
    /\ TypeOK /\ OwnerInv /\ HubInv /\ AloneInv /\ BeatInv
    /\ HandInv /\ ReceivedInv /\ PushesAreInOrder /\ SkipsNeedCrashes

-----------------------------------------------------------------------------
(* Types.                                                                  *)

HubTypeOK ==
    /\ owner \in [Connections -> Users \cup {None}]
    /\ pc \in [Connections -> Steps]
    /\ streams \in [Users -> Connections \cup {None}]
    /\ cancelFuncs \in [Users -> Connections \cup {None}]
    /\ beating \subseteq Connections
    /\ missed \subseteq Connections
    /\ online \subseteq Users
    /\ alone \subseteq Connections
    /\ redisErrors \in Nat /\ crashes \in Nat

ConsumerTypeOK ==
    /\ topic \in Seq(Seq(Users))
    /\ pos \in 1..(Len(topic) + 1)
    /\ committed \in 0..(pos - 1)
    /\ hand \in 1..Len(topic) \cup {None}
    /\ turn \in Nat
    /\ target \in Connections \cup {None}
    /\ received \in [Connections -> Seq(Pushed)]
    /\ handled \subseteq 1..Len(topic)

LEMMA InitTyped ==
    ASSUME Init
    PROVE  TypeOK
BY BoundsAssumption DEF Init, Pushed, TypeOK, Steps

LEMMA ConnectionTyped ==
    ASSUME TypeOK, OwnerInv, NEW c \in Connections,
           Connect(c) \/ Close(c) \/ Handler(c) \/ Tick(c) \/ TickFails(c)
    PROVE  HubTypeOK'
<1>. USE DEF HubTypeOK, connection, hub, presence, faults
<1>. HubTypeOK
    BY DEF TypeOK
<1>1. CASE Connect(c)
    <2>1. PICK u \in Users : owner' = [owner EXCEPT ![c] = u]
        BY <1>1 DEF Connect
    <2>2. owner' \in [Connections -> Users \cup {None}]
        BY <2>1
    <2>3. pc' \in [Connections -> Steps]
        BY <1>1 DEF Connect, Goto, Steps
    <2>4. alone' \subseteq Connections
        BY <1>1 DEF Connect
    <2>. QED
        BY <1>1, <2>2, <2>3, <2>4 DEF Connect
<1>2. CASE Close(c) \/ SendStatus(c)
    BY <1>2 DEF Close, SendStatus, Leave, Goto, Steps
<1>3. CASE SetOnline(c) \/ SetOnlineFails(c) \/ SetOffline(c)
    <2>1. pc' \in [Connections -> Steps]
        BY <1>3 DEF SetOnline, SetOnlineFails, SetOffline, Goto, Steps
    <2>2. owner[c] \in Users
        BY <1>3 DEF SetOnline, SetOnlineFails, SetOffline, Goto, OwnerInv
    <2>3. online' \subseteq Users /\ missed' \subseteq Connections /\ redisErrors' \in Nat
        BY <1>3, <2>2 DEF Extended, SetOnline, SetOnlineFails, SetOffline
    <2>. QED
        BY <1>3, <2>1, <2>3 DEF SetOnline, SetOnlineFails, SetOffline
<1>4. CASE InsertStream(c) \/ StartHeartbeat(c)
    <2>1. pc' \in [Connections -> Steps]
        BY <1>4 DEF InsertStream, StartHeartbeat, Goto, Steps
    <2>2. streams' \in [Users -> Connections \cup {None}]
          /\ cancelFuncs' \in [Users -> Connections \cup {None}]
        BY <1>4 DEF InsertStream, StartHeartbeat
    <2>. QED
        BY <1>4, <2>1, <2>2 DEF InsertStream, StartHeartbeat
<1>5. CASE CancelHeartbeat(c) \/ DeleteStream(c)
    <2>1. pc' \in [Connections -> Steps]
        BY <1>5 DEF CancelHeartbeat, DeleteStream, Goto, Steps
    <2>2. streams' \in [Users -> Connections \cup {None}]
          /\ cancelFuncs' \in [Users -> Connections \cup {None}]
        BY <1>5 DEF CancelHeartbeat, DeleteStream
    <2>. QED
        BY <1>5, <2>1, <2>2 DEF CancelHeartbeat, DeleteStream
<1>6. CASE Tick(c)
    BY <1>6 DEF Tick, Extended
<1>7. CASE TickFails(c)
    BY <1>7 DEF TickFails
<1>. QED
    BY <1>1, <1>2, <1>3, <1>4, <1>5, <1>6, <1>7 DEF Handler

\* The steps of connections leave the consumer alone; of what was pushed they
\* drop what a client got that goes.
LEMMA ReceivedKept ==
    ASSUME TypeOK, UNCHANGED topic,
           \/ UNCHANGED received
           \/ \E c \in Connections : received' = [received EXCEPT ![c] = <<>>]
    PROVE  /\ received' \in [Connections -> Seq(Pushed')]
           /\ \A c \in Connections : received'[c] = received[c] \/ received'[c] = <<>>
<1>1. Pushed' = Pushed
    BY DEF Pushed
<1>2. received \in [Connections -> Seq(Pushed)] /\ <<>> \in Seq(Pushed)
    BY DEF TypeOK
<1>. QED
    BY <1>1, <1>2

LEMMA ConsumerKept ==
    ASSUME TypeOK, UNCHANGED consumer,
           \/ UNCHANGED received
           \/ \E c \in Connections : received' = [received EXCEPT ![c] = <<>>]
    PROVE  ConsumerTypeOK'
<1>1. received' \in [Connections -> Seq(Pushed')]
    BY ReceivedKept DEF consumer
<1>. QED
    BY <1>1 DEF TypeOK, ConsumerTypeOK, consumer

LEMMA HubKept ==
    ASSUME TypeOK, UNCHANGED <<connection, hub, presence, faults>>
    PROVE  HubTypeOK'
BY DEF TypeOK, HubTypeOK, connection, hub, presence, faults

LEMMA AddressedTyped == Addressed \subseteq Seq(Users)
<1>1. \A n \in Nat : [1..n -> Users] \subseteq Seq(Users)
    OBVIOUS
<1>2. 1..Cardinality(Users) \subseteq Nat
    BY UsersAssumption, FS_CardinalityType
<1>3. \A r, s \in Users : <<r, s>> \in Seq(Users)
    OBVIOUS
<1>4. ASSUME NEW l \in Addressed PROVE l \in Seq(Users)
    <2>1. \/ \E r, s \in Users : l = <<r, s>>
          \/ \E n \in 1..Cardinality(Users) : l \in [1..n -> Users]
        BY DEF Addressed
    <2>. QED
        BY <1>1, <1>2, <1>3, <2>1
<1>. QED
    BY <1>4

LEMMA ConsumerTyped ==
    ASSUME TypeOK, HandInv, Produce \/ FlushCommits \/ Consumer
    PROVE  ConsumerTypeOK'
<1>. USE DEF ConsumerTypeOK
<1>. ConsumerTypeOK
    BY DEF TypeOK
<1>1. CASE Produce
    <2>1. PICK l \in Addressed : topic' = Append(topic, l)
        BY <1>1 DEF Produce
    <2>2. topic' \in Seq(Seq(Users)) /\ Len(topic') = Len(topic) + 1
        BY <2>1, AddressedTyped
    <2>3. Seq(Pushed) \subseteq Seq(Pushed')
        <3>1. Pushed \subseteq Pushed'
            BY <2>2 DEF Pushed
        <3>. QED
            BY <3>1
    <2>4. received' \in [Connections -> Seq(Pushed')]
        BY <1>1, <2>3 DEF Produce
    <2>. QED
        BY <1>1, <2>2, <2>4 DEF Produce
<1>0. UNCHANGED topic => Pushed' = Pushed
    BY DEF Pushed
<1>2. CASE FlushCommits
    BY <1>0, <1>2 DEF FlushCommits
<1>3. CASE ReadMessage
    BY <1>0, <1>3 DEF ReadMessage
<1>4. CASE LookUp
    <2>1. target' \in Connections \cup {None} /\ turn' \in Nat
        BY <1>4 DEF LookUp, TypeOK
    <2>. QED
        BY <1>0, <1>4, <2>1 DEF LookUp
<1>5. CASE Push
    <2>1. target \in Connections /\ hand \in 1..Len(topic)
        BY <1>5 DEF Push, HandInv
    <2>2. [event |-> hand, turn |-> turn] \in Pushed
        BY <2>1 DEF Pushed
    <2>3. Append(received[target], [event |-> hand, turn |-> turn]) \in Seq(Pushed)
        BY <2>1, <2>2
    <2>4. received' \in [Connections -> Seq(Pushed)]
        BY <1>5, <2>3 DEF Push
    <2>. QED
        BY <1>0, <1>5, <2>4 DEF Push
<1>6. CASE NextEvent
    BY <1>0, <1>6 DEF NextEvent
<1>. QED
    BY <1>1, <1>2, <1>3, <1>4, <1>5, <1>6 DEF Consumer

LEMMA NextTyped ==
    ASSUME TypeOK, OwnerInv, HandInv, [Next]_vars
    PROVE  TypeOK'
<1>1. TypeOK' <=> HubTypeOK' /\ ConsumerTypeOK'
    BY DEF TypeOK, HubTypeOK, ConsumerTypeOK
<1>2. ASSUME NEW c \in Connections, Connect(c) \/ Close(c) \/ Handler(c) \/ Tick(c) \/ TickFails(c)
      PROVE  TypeOK'
    <2>1. /\ UNCHANGED consumer
          /\ \/ UNCHANGED received
             \/ received' = [received EXCEPT ![c] = <<>>]
        BY <1>2 DEF Connect, Close, Handler, Tick, TickFails, SetOnline, SetOnlineFails,
                    InsertStream, StartHeartbeat, SendStatus, Leave, CancelHeartbeat,
                    DeleteStream, SetOffline
    <2>. QED
        BY <1>1, <1>2, <2>1, ConnectionTyped, ConsumerKept
<1>3. ASSUME NEW u \in Users, KeyExpires(u) PROVE TypeOK'
    <2>1. HubTypeOK'
        BY <1>3 DEF KeyExpires, TypeOK, HubTypeOK, connection, hub, presence, faults
    <2>. QED
        BY <1>1, <1>3, <2>1, ConsumerKept DEF KeyExpires
<1>4. CASE Produce \/ FlushCommits \/ Consumer
    <2>1. UNCHANGED <<connection, hub, presence, faults>>
        BY <1>4 DEF Produce, FlushCommits, Consumer, ReadMessage, LookUp, Push, NextEvent
    <2>. QED
        BY <1>1, <1>4, <2>1, ConsumerTyped, HubKept
<1>5. CASE Crash
    <2>1. HubTypeOK'
        BY <1>5 DEF Crash, TypeOK, HubTypeOK, Steps
    <2>2. ConsumerTypeOK'
        BY <1>5 DEF Crash, TypeOK, ConsumerTypeOK
    <2>. QED
        BY <1>1, <2>1, <2>2
<1>6. CASE UNCHANGED vars
    BY <1>6 DEF vars, TypeOK, Pushed
<1>. QED
    BY <1>2, <1>3, <1>4, <1>5, <1>6 DEF Next

-----------------------------------------------------------------------------
(* The hub.                                                                *)

ConnectionStep(c) == Connect(c) \/ Close(c) \/ Handler(c) \/ Tick(c) \/ TickFails(c)

\* What the consumer does, and an expiring key, leave the hub alone.
LEMMA OthersKeepHub ==
    ASSUME \/ Produce \/ FlushCommits \/ Consumer
           \/ \E u \in Users : KeyExpires(u)
           \/ UNCHANGED vars
    PROVE  UNCHANGED <<connection, hub>>
BY DEF Produce, FlushCommits, Consumer, ReadMessage, LookUp, Push, NextEvent,
       KeyExpires, vars, connection, hub, consumer, faults

LEMMA NextOwned ==
    ASSUME TypeOK, OwnerInv, [Next]_vars
    PROVE  OwnerInv'
<1>. USE DEF OwnerInv
<1>1. ASSUME NEW c \in Connections, ConnectionStep(c) PROVE OwnerInv'
    <2>1. CASE Connect(c)
        BY <2>1 DEF Connect, Goto, TypeOK
    <2>2. CASE ~Connect(c)
        <3>1. /\ UNCHANGED owner
              /\ pc[c] # "new" \/ UNCHANGED pc
              /\ \A d \in Connections \ {c} : pc'[d] = pc[d]
            BY <1>1, <2>2 DEF TypeOK, ConnectionStep, Close, Handler, Tick, TickFails, SetOnline,
                  SetOnlineFails, InsertStream, StartHeartbeat, SendStatus, Leave,
                  CancelHeartbeat, DeleteStream, SetOffline, Goto, connection
        <3>. QED
            BY <3>1
    <2>. QED
        BY <2>1, <2>2
<1>2. CASE UNCHANGED <<connection, hub>>
    BY <1>2 DEF connection
<1>3. CASE Crash
    BY <1>3 DEF Crash, TypeOK
<1>. QED
    BY <1>1, <1>2, <1>3, OthersKeepHub DEF Next, ConnectionStep

LEMMA NextHub ==
    ASSUME TypeOK, OwnerInv, HubInv, [Next]_vars
    PROVE  HubInv'
<1>. USE DEF HubInv
<1>1. ASSUME NEW c \in Connections, ConnectionStep(c) PROVE HubInv'
    <2>. SUFFICES ASSUME NEW u \in Users
                  PROVE  /\ streams'[u] # None =>
                               /\ owner'[streams'[u]] = u
                               /\ pc'[streams'[u]] \in
                                     {"arm", "status", "open", "cancel", "delete"}
                         /\ cancelFuncs'[u] # None =>
                               /\ owner'[cancelFuncs'[u]] = u
                               /\ pc'[cancelFuncs'[u]] # "new"
        OBVIOUS
    <2>1. /\ streams[u] \in Connections \cup {None}
          /\ cancelFuncs[u] \in Connections \cup {None}
          /\ c # None /\ owner \in [Connections -> Users \cup {None}]
          /\ pc \in [Connections -> Steps]
          /\ streams \in [Users -> Connections \cup {None}]
          /\ cancelFuncs \in [Users -> Connections \cup {None}]
        BY NoneAssumption DEF TypeOK
    <2>2. CASE Connect(c)
        <3>1. PICK v \in Users : owner' = [owner EXCEPT ![c] = v]
            BY <2>2 DEF Connect
        <3>2. streams[u] # c /\ pc[c] = "new"
            BY <2>1, <2>2 DEF Connect, Goto
        <3>3. cancelFuncs[u] # c
            BY <2>1, <2>2 DEF Connect, Goto
        <3>. QED
            BY <2>1, <2>2, <3>1, <3>2, <3>3 DEF Connect, Goto, hub
    <2>3. CASE InsertStream(c)
        BY <2>1, <2>3 DEF InsertStream, Goto
    <2>4. CASE StartHeartbeat(c)
        BY <2>1, <2>4 DEF StartHeartbeat, Goto
    <2>5. CASE CancelHeartbeat(c)
        BY <2>1, <2>5 DEF CancelHeartbeat, Goto
    <2>6. CASE DeleteStream(c)
        BY <2>1, <2>6 DEF DeleteStream, Goto
    <2>7. CASE Close(c) \/ SetOnline(c) \/ SendStatus(c)
        BY <2>1, <2>7 DEF Close, SetOnline, SendStatus, Leave, Goto, hub
    <2>8. CASE SetOnlineFails(c) \/ SetOffline(c)
        BY <2>1, <2>8 DEF SetOnlineFails, SetOffline, Goto, hub
    <2>9. CASE Tick(c) \/ TickFails(c)
        BY <2>1, <2>9 DEF Tick, TickFails, connection, hub
    <2>. QED
        BY <1>1, <2>2, <2>3, <2>4, <2>5, <2>6, <2>7, <2>8, <2>9
           DEF ConnectionStep, Handler
<1>2. CASE UNCHANGED <<connection, hub>>
    BY <1>2 DEF connection, hub
<1>3. CASE Crash
    BY <1>3 DEF Crash
<1>. QED
    BY <1>1, <1>2, <1>3, OthersKeepHub DEF Next, ConnectionStep

\* What a step of d does to the connection c that no other one overlaps.
LEMMA AloneStep ==
    ASSUME TypeOK, OwnerInv, HubInv, AloneInv,
           NEW c \in alone, NEW d \in Connections, c # d,
           Close(d) \/ Handler(d) \/ Tick(d) \/ TickFails(d)
    PROVE  /\ pc'[c] # "new" /\ UNCHANGED owner
           /\ pc'[c] # "ended" => Only(c)' /\ Served(c)'
<1>1. /\ pc \in [Connections -> Steps] /\ c \in Connections /\ c # None
      /\ owner \in [Connections -> Users \cup {None}]
      /\ streams \in [Users -> Connections \cup {None}]
      /\ cancelFuncs \in [Users -> Connections \cup {None}]
    BY NoneAssumption DEF TypeOK
<1>2. /\ UNCHANGED owner /\ pc'[c] = pc[c]
      /\ \A e \in Connections : pc[e] = "ended" => pc'[e] = "ended"
    BY <1>1 DEF Close, Handler, Tick, TickFails, SetOnline, SetOnlineFails, InsertStream,
                StartHeartbeat, SendStatus, Leave, CancelHeartbeat, DeleteStream,
                SetOffline, Goto, connection
<1>3. pc[c] # "new" /\ owner[c] \in Users
    BY <1>1 DEF AloneInv, OwnerInv
<1>. SUFFICES ASSUME pc[c] # "ended" PROVE Only(c)' /\ Served(c)'
    BY <1>2, <1>3
<1>4. Only(c) /\ Served(c)
    BY DEF AloneInv
<1>5. Only(c)'
    BY <1>2, <1>4 DEF Only
<1>6. CASE pc[d] = "ended"
    <2>1. Tick(d) \/ TickFails(d)
        BY <1>6 DEF Close, Handler, SetOnline, SetOnlineFails, InsertStream,
                    StartHeartbeat, SendStatus, Leave, CancelHeartbeat, DeleteStream,
                    SetOffline, Goto
    <2>. QED
        BY <1>1, <1>2, <1>4, <1>5, <2>1 DEF Tick, TickFails, Extended, Served, connection, hub
<1>7. CASE pc[d] # "ended"
    <2>1. owner[d] # owner[c]
        BY <1>1, <1>4, <1>7 DEF Only
    <2>2. owner'[c] = owner[c] /\ streams'[owner[c]] = streams[owner[c]]
        BY <1>1, <1>2, <1>3, <2>1
           DEF Close, Handler, Tick, TickFails, SetOnline, SetOnlineFails, InsertStream,
               StartHeartbeat, SendStatus, Leave, CancelHeartbeat, DeleteStream,
               SetOffline, Goto, hub
    <2>3. cancelFuncs'[owner[c]] = cancelFuncs[owner[c]]
        BY <1>1, <1>3, <2>1
           DEF Close, Handler, Tick, TickFails, SetOnline, SetOnlineFails, InsertStream,
               StartHeartbeat, SendStatus, Leave, CancelHeartbeat, DeleteStream,
               SetOffline, Goto, hub
    <2>4. owner[c] \in online => owner[c] \in online'
        BY <1>1, <1>3, <2>1
           DEF Close, Handler, Tick, TickFails, SetOnline, SetOnlineFails, InsertStream,
               StartHeartbeat, SendStatus, Leave, CancelHeartbeat, DeleteStream,
               SetOffline, Goto, presence
    <2>5. ASSUME c \in beating PROVE c \in beating'
        <3>1. CASE CancelHeartbeat(d)
            <4>1. owner[d] \in Users
                BY <3>1 DEF CancelHeartbeat, Goto, OwnerInv
            <4>2. cancelFuncs[owner[d]] # c
                BY <1>1, <2>1, <4>1 DEF HubInv
            <4>. QED
                BY <2>5, <3>1, <4>2 DEF CancelHeartbeat
        <3>2. CASE ~CancelHeartbeat(d)
            BY <2>5, <3>2
               DEF Close, Handler, Tick, TickFails, SetOnline, SetOnlineFails, InsertStream,
                   StartHeartbeat, SendStatus, Leave, DeleteStream, SetOffline, hub
        <3>. QED
            BY <3>1, <3>2
    <2>6. ASSUME c \in missed PROVE c \in missed' \/ owner[c] \in online'
        <3>1. CASE CancelHeartbeat(d)
            <4>1. owner[d] \in Users
                BY <3>1 DEF CancelHeartbeat, Goto, OwnerInv
            <4>2. cancelFuncs[owner[d]] # c
                BY <1>1, <2>1, <4>1 DEF HubInv
            <4>. QED
                BY <2>6, <3>1, <4>2 DEF CancelHeartbeat
        <3>2. CASE ~CancelHeartbeat(d)
            BY <1>1, <2>1, <2>6, <3>2
               DEF Close, Handler, Tick, TickFails, SetOnline, SetOnlineFails, InsertStream,
                   StartHeartbeat, SendStatus, Leave, DeleteStream, SetOffline, presence,
                   Extended
        <3>. QED
            BY <3>1, <3>2
    <2>. QED
        BY <1>2, <1>4, <1>5, <2>2, <2>3, <2>4, <2>5, <2>6 DEF Served
<1>. QED
    BY <1>6, <1>7

\* The steps of the handler itself.
LEMMA AloneOwnStep ==
    ASSUME TypeOK, OwnerInv, HubInv, AloneInv, NEW c \in alone,
           Close(c) \/ Handler(c) \/ Tick(c) \/ TickFails(c)
    PROVE  /\ pc'[c] # "new" /\ UNCHANGED owner
           /\ pc'[c] # "ended" => Only(c)' /\ Served(c)'
<1>1. /\ pc \in [Connections -> Steps] /\ c \in Connections /\ c # None
      /\ owner \in [Connections -> Users \cup {None}]
      /\ streams \in [Users -> Connections \cup {None}]
      /\ cancelFuncs \in [Users -> Connections \cup {None}]
    BY NoneAssumption DEF TypeOK
<1>2. pc[c] # "new" /\ owner[c] \in Users
    BY <1>1 DEF AloneInv, OwnerInv
<1>3. /\ UNCHANGED owner /\ pc'[c] # "new"
      /\ \A e \in Connections \ {c} : pc'[e] = pc[e]
    BY <1>1, <1>2
       DEF Close, Handler, Tick, TickFails, SetOnline, SetOnlineFails, InsertStream,
           StartHeartbeat, SendStatus, Leave, CancelHeartbeat, DeleteStream,
           SetOffline, Goto, connection
<1>. SUFFICES ASSUME pc'[c] # "ended" PROVE Only(c)' /\ Served(c)'
    BY <1>3
<1>4. pc[c] # "ended" \/ Tick(c) \/ TickFails(c)
    BY DEF Close, Handler, SetOnline, SetOnlineFails, InsertStream,
           StartHeartbeat, SendStatus, Leave, CancelHeartbeat, DeleteStream,
           SetOffline, Goto
<1>5. pc[c] # "ended"
    BY <1>4 DEF Tick, TickFails, connection
<1>6. Only(c) /\ Served(c)
    BY <1>5 DEF AloneInv
<1>7. Only(c)'
    BY <1>3, <1>6 DEF Only
<1>8. CASE SetOnline(c) \/ InsertStream(c) \/ StartHeartbeat(c)
    BY <1>1, <1>2, <1>6, <1>7, <1>8
       DEF SetOnline, InsertStream, StartHeartbeat, Goto, Served, hub, presence
<1>9. CASE SendStatus(c) \/ Close(c)
    BY <1>1, <1>2, <1>6, <1>7, <1>9 DEF SendStatus, Leave, Close, Goto, Served, hub, presence
<1>10. CASE SetOnlineFails(c) \/ CancelHeartbeat(c) \/ DeleteStream(c) \/ SetOffline(c)
    BY <1>1, <1>2, <1>7, <1>10
       DEF SetOnlineFails, CancelHeartbeat, DeleteStream, SetOffline, Goto, Served
<1>11. CASE Tick(c)
    <2>1. streams[owner[c]] # c \/ UNCHANGED beating
        BY <1>1, <1>11 DEF Tick
    <2>2. c \in missed => c \in missed' \/ owner[c] \in online' \/ streams[owner[c]] = None
        BY <1>1, <1>11 DEF Tick
    <2>. QED
        BY <1>1, <1>6, <1>7, <1>11, <2>1, <2>2 DEF Tick, Served, connection
<1>12. CASE TickFails(c)
    BY <1>1, <1>6, <1>7, <1>12 DEF TickFails, Served, connection, hub
<1>. QED
    BY <1>8, <1>9, <1>10, <1>11, <1>12 DEF Handler

LEMMA NextAlone ==
    ASSUME TypeOK, OwnerInv, HubInv, AloneInv, [Next]_vars
    PROVE  AloneInv'
<1>1. ASSUME NEW d \in Connections, Close(d) \/ Handler(d) \/ Tick(d) \/ TickFails(d)
      PROVE  AloneInv'
    <2>1. UNCHANGED alone
        BY <1>1 DEF Close, Handler, Tick, TickFails, SetOnline, SetOnlineFails, InsertStream,
                    StartHeartbeat, SendStatus, Leave, CancelHeartbeat, DeleteStream,
                    SetOffline, connection
    <2>. QED
        BY <1>1, <2>1, AloneStep, AloneOwnStep DEF AloneInv, TypeOK
<1>2. ASSUME NEW d \in Connections, Connect(d) PROVE AloneInv'
    <2>1. PICK u \in Users :
              /\ owner' = [owner EXCEPT ![d] = u]
              /\ alone' = IF {e \in Connections : owner[e] = u /\ pc[e] # "ended"} = {}
                          THEN alone \cup {d}
                          ELSE alone \ {e \in Connections : owner[e] = u /\ pc[e] # "ended"}
        BY <1>2 DEF Connect
    <2>2. /\ pc[d] = "new" /\ pc' = [pc EXCEPT ![d] = "setOnline"]
          /\ UNCHANGED <<hub, presence>>
        BY <1>2 DEF Connect, Goto
    <2>3. ASSUME NEW c \in alone', c # d
          PROVE  pc'[c] # "new" /\ (pc'[c] # "ended" => Only(c)' /\ Served(c)')
        <3>1. c \in alone /\ pc'[c] = pc[c] /\ owner'[c] = owner[c]
            BY <2>1, <2>2, <2>3 DEF TypeOK
        <3>2. pc[c] # "ended" => owner[c] # u
            BY <2>1, <2>3, <3>1 DEF TypeOK
        <3>3. pc[c] # "ended" => Only(c)'
            BY <2>1, <2>2, <3>1, <3>2 DEF TypeOK, AloneInv, Only
        <3>. QED
            BY <2>2, <3>1, <3>3 DEF AloneInv, Served, hub, presence
    <2>4. ASSUME d \in alone'
          PROVE  pc'[d] # "new" /\ Only(d)' /\ Served(d)'
        <3>1. pc'[d] = "setOnline" /\ owner'[d] = u
            BY <2>1, <2>2 DEF TypeOK
        <3>2. d \notin alone
            BY <2>2 DEF AloneInv
        <3>3. {e \in Connections : owner[e] = u /\ pc[e] # "ended"} = {}
            BY <2>1, <2>4, <3>2
        <3>4. Only(d)'
            BY <2>1, <2>2, <3>1, <3>3 DEF Only, TypeOK
        <3>. QED
            BY <3>1, <3>4 DEF Served
    <2>. QED
        BY <2>3, <2>4 DEF AloneInv
<1>3. ASSUME NEW u \in Users, KeyExpires(u) PROVE AloneInv'
    <2>. SUFFICES ASSUME NEW c \in alone, pc[c] # "ended" PROVE Served(c)'
        BY <1>3 DEF KeyExpires, AloneInv, Only, connection
    <2>1. Served(c) /\ c \in Connections
        BY DEF AloneInv, TypeOK
    <2>. QED
        BY <1>3, <2>1 DEF KeyExpires, Served, connection, hub
<1>4. CASE Produce \/ FlushCommits \/ Consumer \/ UNCHANGED vars
    <2>1. UNCHANGED <<connection, hub, presence>>
        BY <1>4 DEF Produce, FlushCommits, Consumer, ReadMessage, LookUp, Push,
                    NextEvent, vars, connection, hub, presence
    <2>. QED
        BY <2>1 DEF AloneInv, Only, Served, connection, hub, presence
<1>5. CASE Crash
    <2>1. \A c \in alone : pc'[c] = "ended"
        BY <1>5 DEF Crash, AloneInv, TypeOK
    <2>. QED
        BY <1>5, <2>1 DEF Crash, AloneInv
<1>. QED
    BY <1>1, <1>2, <1>3, <1>4, <1>5 DEF Next

LEMMA NextBeat ==
    ASSUME TypeOK, OwnerInv, HubInv, BeatInv, [Next]_vars
    PROVE  BeatInv'
<1>1. ASSUME NEW d \in Connections, ConnectionStep(d), NEW c \in Connections,
             pc'[c] \in {"status", "open"}, streams'[owner'[c]] = c
      PROVE  \/ c \in beating'
             \/ \E e \in Connections : owner'[e] = owner'[c] /\ pc'[e] = "delete"
    <2>1. /\ pc \in [Connections -> Steps] /\ c # None
          /\ owner \in [Connections -> Users \cup {None}]
          /\ streams \in [Users -> Connections \cup {None}]
          /\ cancelFuncs \in [Users -> Connections \cup {None}]
        BY NoneAssumption DEF TypeOK
    <2>2. CASE StartHeartbeat(d) /\ d = c
        BY <2>2 DEF StartHeartbeat
    <2>3. CASE ~(StartHeartbeat(d) /\ d = c)
        <3>1. pc[c] \in {"status", "open"} /\ owner'[c] = owner[c] /\ owner[c] \in Users
            BY <1>1, <2>1, <2>3
               DEF ConnectionStep, Connect, Close, Handler, Tick, TickFails, SetOnline,
                   SetOnlineFails, InsertStream, StartHeartbeat, SendStatus, Leave,
                   CancelHeartbeat, DeleteStream, SetOffline, Goto, connection,
                   OwnerInv
        <3>2. streams[owner[c]] = c
            BY <1>1, <2>1, <3>1
               DEF ConnectionStep, Connect, Close, Handler, Tick, TickFails, SetOnline,
                   SetOnlineFails, InsertStream, StartHeartbeat, SendStatus, Leave,
                   CancelHeartbeat, DeleteStream, SetOffline, Goto, hub
        <3>3. CASE c \in beating
            <4>1. CASE c \in beating'
                BY <4>1
            <4>2. CASE CancelHeartbeat(d) /\ cancelFuncs[owner[d]] = c
                <5>1. owner[d] = owner[c] /\ owner'[d] = owner[d] /\ pc'[d] = "delete"
                    BY <2>1, <4>2 DEF CancelHeartbeat, Goto, OwnerInv, HubInv
                <5>. QED
                    BY <3>1, <5>1
            <4>3. CASE Tick(d) /\ d = c
                BY <1>1, <2>1, <3>2, <3>3, <4>3 DEF Tick
            <4>. QED
                BY <1>1, <3>3, <4>1, <4>2, <4>3
                   DEF ConnectionStep, Connect, Close, Handler, Tick, TickFails, SetOnline,
                       SetOnlineFails, InsertStream, StartHeartbeat, SendStatus, Leave,
                       CancelHeartbeat, DeleteStream, SetOffline, hub
        <3>4. CASE c \notin beating
            <4>1. PICK e \in Connections : owner[e] = owner[c] /\ pc[e] = "delete"
                BY <3>1, <3>2, <3>4 DEF BeatInv
            <4>2. ~DeleteStream(e)
                BY <1>1, <2>1, <3>1, <4>1 DEF DeleteStream
            <4>3. pc'[e] = "delete" /\ owner'[e] = owner[e]
                BY <1>1, <2>1, <4>1, <4>2
                   DEF ConnectionStep, Connect, Close, Handler, Tick, TickFails, SetOnline,
                       SetOnlineFails, InsertStream, StartHeartbeat, SendStatus, Leave,
                       CancelHeartbeat, DeleteStream, SetOffline, Goto, connection
            <4>. QED
                BY <3>1, <4>1, <4>3
        <3>. QED
            BY <3>3, <3>4
    <2>. QED
        BY <2>2, <2>3
<1>2. CASE UNCHANGED <<connection, hub>>
    BY <1>2 DEF BeatInv, connection, hub
<1>3. CASE Crash
    BY <1>3 DEF Crash, BeatInv, TypeOK
<1>. QED
    BY <1>1, <1>2, <1>3, OthersKeepHub DEF Next, ConnectionStep, BeatInv

-----------------------------------------------------------------------------
(* The consumer.                                                           *)

LEMMA ConnectionsKeepConsumer ==
    ASSUME \/ \E c \in Connections : ConnectionStep(c)
           \/ \E u \in Users : KeyExpires(u)
           \/ UNCHANGED vars
    PROVE  UNCHANGED <<consumer, crashes>>
BY DEF ConnectionStep, Connect, Close, Handler, Tick, TickFails, SetOnline, SetOnlineFails,
       InsertStream, StartHeartbeat, SendStatus, Leave, CancelHeartbeat, DeleteStream,
       SetOffline, KeyExpires, vars, consumer, faults

\* Of what the consumer has to do with, the other steps change only this.
LEMMA ConnectionsMove ==
    ASSUME TypeOK, \/ \E c \in Connections : ConnectionStep(c)
                   \/ \E u \in Users : KeyExpires(u)
                   \/ UNCHANGED vars
    PROVE  \A c \in Connections :
              /\ pc[c] = "new" => \/ pc'[c] = "new"
                                  \/ pc'[c] = "setOnline"
              /\ pc[c] # "new" => pc'[c] # "new" /\ owner'[c] = owner[c]
              /\ pc[c] = "ended" => pc'[c] = "ended"
BY DEF TypeOK, ConnectionStep, Connect, Close, Handler, Tick, TickFails, SetOnline,
       SetOnlineFails, InsertStream, StartHeartbeat, SendStatus, Leave, CancelHeartbeat,
       DeleteStream, SetOffline, Goto, KeyExpires, vars, connection

\* A client that goes leaves nothing behind; the others keep what they got.
LEMMA ConnectionsDrop ==
    ASSUME TypeOK, \/ \E c \in Connections : ConnectionStep(c)
                   \/ \E u \in Users : KeyExpires(u)
                   \/ UNCHANGED vars
    PROVE  \A c \in Connections : received'[c] = received[c] \/ received'[c] = <<>>
<1>1. \/ UNCHANGED received
      \/ \E c \in Connections : received' = [received EXCEPT ![c] = <<>>]
    BY DEF ConnectionStep, Connect, Close, Handler, Tick, TickFails, SetOnline,
           SetOnlineFails, InsertStream, StartHeartbeat, SendStatus, Leave,
           CancelHeartbeat, DeleteStream, SetOffline, KeyExpires, vars
<1>2. UNCHANGED topic
    BY ConnectionsKeepConsumer DEF consumer
<1>. QED
    BY <1>1, <1>2, ReceivedKept

\* What the topic holds stays as it is.
LEMMA ProduceKeeps ==
    ASSUME TypeOK, Produce
    PROVE  /\ Len(topic') = Len(topic) + 1
           /\ \A o \in 1..Len(topic) : topic'[o] = topic[o]
<1>1. PICK l \in Addressed : topic' = Append(topic, l)
    BY DEF Produce
<1>2. l \in Seq(Users) /\ topic \in Seq(Seq(Users))
    BY AddressedTyped DEF TypeOK
<1>. QED
    BY <1>1, <1>2

LEMMA NextHand ==
    ASSUME TypeOK, OwnerInv, HubInv, HandInv, [Next]_vars
    PROVE  HandInv'
<1>. USE DEF HandInv
<1>1. ASSUME \/ \E c \in Connections : ConnectionStep(c)
             \/ \E u \in Users : KeyExpires(u)
             \/ UNCHANGED vars
      PROVE  HandInv'
    <2>1. UNCHANGED <<hand, pos, target, turn, topic>>
        BY <1>1, ConnectionsKeepConsumer DEF consumer
    <2>2. target # None => pc[target] # "new"
        OBVIOUS
    <2>. QED
        BY <1>1, <2>1, <2>2, ConnectionsMove DEF TypeOK
<1>2. CASE Produce
    <2>1. hand # None => hand \in 1..Len(topic) /\ topic'[hand] = topic[hand]
        BY <1>2, ProduceKeeps DEF TypeOK
    <2>2. UNCHANGED <<hand, pos, target, turn, pc, owner>>
        BY <1>2 DEF Produce, connection
    <2>. QED
        BY <2>1, <2>2
<1>3. CASE FlushCommits
    BY <1>3 DEF FlushCommits, connection
<1>4. CASE ReadMessage
    <2>1. topic[pos] \in Seq(Users)
        BY <1>4 DEF ReadMessage, TypeOK
    <2>. QED
        BY <1>4, <2>1 DEF ReadMessage, TypeOK, connection
<1>5. CASE LookUp
    <2>1. hand # None /\ topic[hand] \in Seq(Users) /\ turn \in 0..Len(topic[hand])
        BY <1>5 DEF LookUp, TypeOK
    <2>2. turn' = turn + 1 /\ turn' \in 1..Len(topic[hand]) /\ topic[hand][turn'] \in Users
        BY <1>5, <2>1 DEF LookUp
    <2>3. target' = streams[topic[hand][turn']]
        BY <1>5 DEF LookUp
    <2>4. target' # None => owner[target'] = topic[hand][turn'] /\ pc[target'] # "new"
        BY <2>2, <2>3 DEF HubInv
    <2>. QED
        BY <1>5, <2>1, <2>2, <2>4 DEF LookUp, connection
<1>6. CASE Push \/ NextEvent
    BY <1>6 DEF Push, NextEvent, TypeOK, connection
<1>7. CASE Crash
    BY <1>7 DEF Crash
<1>. QED
    BY <1>1, <1>2, <1>3, <1>4, <1>5, <1>6, <1>7 DEF Next, ConnectionStep, Consumer

\* A push, in its numbers.
LEMMA PushesTyped ==
    ASSUME TypeOK, NEW c \in Connections
    PROVE  /\ received[c] \in Seq(Pushed)
           /\ \A i \in 1..Len(received[c]) :
                 /\ received[c][i] \in Pushed
                 /\ received[c][i].event \in 1..Len(topic)
                 /\ received[c][i].event \in Nat
                 /\ received[c][i].turn \in Nat
<1>1. received[c] \in Seq(Pushed)
    BY DEF TypeOK
<1>2. \A i \in 1..Len(received[c]) : received[c][i] \in Pushed
    BY <1>1
<1>. QED
    BY <1>1, <1>2 DEF Pushed

\* A push that is over: of an earlier event, or of an earlier turn.
Past(p) ==
    /\ p.event < pos
    /\ p.event = hand => p.turn <= turn /\ (p.turn = turn => target = None)

LEMMA PastStays ==
    ASSUME TypeOK, NEW p \in Pushed, Past(p), Produce \/ FlushCommits \/ Consumer
    PROVE  Past(p)'
<1>. USE DEF Past
<1>1. pos \in Nat /\ turn \in Nat
    BY DEF TypeOK
<1>2. p.event \in Nat /\ p.turn \in Nat /\ p.event # None
    BY NoneAssumption DEF Pushed
<1>3. CASE Produce \/ FlushCommits
    BY <1>3 DEF Produce, FlushCommits
<1>4. CASE ReadMessage
    BY <1>1, <1>2, <1>4 DEF ReadMessage
<1>5. CASE LookUp
    BY <1>1, <1>2, <1>5 DEF LookUp
<1>6. CASE Push
    BY <1>6 DEF Push
<1>7. CASE NextEvent
    BY <1>2, <1>7 DEF NextEvent
<1>. QED
    BY <1>3, <1>4, <1>5, <1>6, <1>7 DEF Consumer

LEMMA NextReceived ==
    ASSUME TypeOK, OwnerInv, HubInv, HandInv, ReceivedInv, [Next]_vars
    PROVE  ReceivedInv'
<1>. SUFFICES ASSUME NEW c \in Connections
              PROVE  /\ pc'[c] = "new" => received'[c] = <<>>
                     /\ \A i \in 1..Len(received'[c]) : Past(received[c][i])'
    BY DEF ReceivedInv, Past
<1>0. /\ pc[c] = "new" => received[c] = <<>>
      /\ \A i \in 1..Len(received[c]) : Past(received[c][i])
    BY DEF ReceivedInv, Past
<1>1. pos \in Nat /\ turn \in Nat /\ (hand # None => hand \in Nat)
    BY DEF TypeOK
<1>3. \A i \in 1..Len(received[c]) : received[c][i] \in Pushed
    BY PushesTyped
<1>4. ASSUME \/ \E d \in Connections : ConnectionStep(d)
             \/ \E u \in Users : KeyExpires(u)
             \/ UNCHANGED vars
      PROVE  /\ pc'[c] = "new" => received'[c] = <<>>
             /\ \A i \in 1..Len(received'[c]) : Past(received[c][i])'
    <2>1. UNCHANGED <<pos, hand, turn, target>>
        BY <1>4, ConnectionsKeepConsumer DEF consumer
    <2>2. received'[c] = received[c] \/ received'[c] = <<>>
        BY <1>4, ConnectionsDrop
    <2>3. pc'[c] = "new" => pc[c] = "new"
        BY <1>4, ConnectionsMove
    <2>4. CASE received'[c] = <<>>
        BY <2>4
    <2>5. CASE received'[c] = received[c]
        BY <1>0, <2>1, <2>3, <2>5 DEF Past
    <2>. QED
        BY <2>2, <2>4, <2>5
<1>5. CASE /\ Produce \/ FlushCommits \/ Consumer
           /\ received'[c] = received[c]
    <2>1. UNCHANGED pc
        BY <1>5 DEF Produce, FlushCommits, Consumer, ReadMessage, LookUp, Push,
                    NextEvent, connection
    <2>2. ASSUME NEW i \in 1..Len(received[c]) PROVE Past(received[c][i])'
        <3>1. PICK p \in Pushed : p = received[c][i]
            BY <1>3
        <3>2. Past(p)'
            BY <1>0, <1>5, <3>1, PastStays
        <3>. QED
            BY <1>5, <3>1, <3>2 DEF Past
    <2>. QED
        BY <1>0, <1>5, <2>1, <2>2
<1>6. CASE Push /\ received'[c] # received[c]
    <2>1. /\ received'[c] = Append(received[c], [event |-> hand, turn |-> turn])
          /\ target = c /\ target' = None
          /\ UNCHANGED <<pc, pos, hand, turn>>
        BY <1>6 DEF Push, TypeOK, connection
    <2>2. pc[c] # "new" /\ hand = pos - 1 /\ hand \in 1..Len(topic)
        BY <1>6, <2>1 DEF Push, HandInv, TypeOK
    <2>3. [event |-> hand, turn |-> turn] \in Pushed
        BY <1>1, <2>2 DEF Pushed
    <2>4. \A i \in 1..Len(received'[c]) :
              \/ received'[c][i] = [event |-> hand, turn |-> turn]
              \/ i \in 1..Len(received[c]) /\ received'[c][i] = received[c][i]
        BY <2>1, <2>3, PushesTyped
    <2>5. ASSUME NEW i \in 1..Len(received'[c]) PROVE Past(received[c][i])'
        <3>1. CASE received'[c][i] = [event |-> hand, turn |-> turn]
            BY <1>1, <2>1, <2>2, <3>1 DEF Past
        <3>2. CASE i \in 1..Len(received[c]) /\ received'[c][i] = received[c][i]
            <4>1. PICK p \in Pushed : p = received[c][i]
                BY <1>3, <3>2
            <4>2. Past(p)'
                BY <1>0, <1>6, <3>2, <4>1, PastStays DEF Consumer
            <4>. QED
                BY <3>2, <4>1, <4>2 DEF Past
        <3>. QED
            BY <2>4, <3>1, <3>2
    <2>. QED
        BY <2>1, <2>2, <2>5
<1>7. CASE Crash
    BY <1>7 DEF Crash
<1>8. ASSUME Produce \/ FlushCommits \/ ReadMessage \/ LookUp \/ NextEvent
      PROVE  received'[c] = received[c]
    BY <1>8 DEF Produce, FlushCommits, ReadMessage, LookUp, NextEvent
<1>. QED
    BY <1>4, <1>5, <1>6, <1>7, <1>8 DEF Next, ConnectionStep, Consumer

Before(p, q) == p.event < q.event \/ (p.event = q.event /\ p.turn < q.turn)

LEMMA NextInOrder ==
    ASSUME TypeOK, HandInv, ReceivedInv, PushesAreInOrder, [Next]_vars
    PROVE  PushesAreInOrder'
<1>. SUFFICES ASSUME NEW c \in Connections
              PROVE  /\ \A i \in 1..Len(received'[c]) :
                           topic'[received'[c][i].event][received'[c][i].turn] = owner'[c]
                     /\ \A i, j \in 1..Len(received'[c]) :
                           i < j => Before(received'[c][i], received'[c][j])
    BY DEF PushesAreInOrder, Before
<1>0. /\ \A i \in 1..Len(received[c]) :
            topic[received[c][i].event][received[c][i].turn] = owner[c]
      /\ \A i, j \in 1..Len(received[c]) :
            i < j => Before(received[c][i], received[c][j])
    BY DEF PushesAreInOrder, Before
<1>2. CASE \/ \E d \in Connections : ConnectionStep(d)
           \/ \E u \in Users : KeyExpires(u)
           \/ UNCHANGED vars
    <2>1. received'[c] = <<>> \/ received'[c] = received[c]
        BY <1>2, ConnectionsDrop
    <2>2. UNCHANGED topic
        BY <1>2, ConnectionsKeepConsumer DEF consumer
    <2>3. pc[c] # "new" => owner'[c] = owner[c]
        BY <1>2, ConnectionsMove
    <2>4. CASE received'[c] = received[c] /\ pc[c] # "new"
        BY <1>0, <2>2, <2>3, <2>4
    <2>5. CASE received'[c] = <<>>
        BY <2>5
    <2>. QED
        BY <2>1, <2>4, <2>5 DEF ReceivedInv
<1>3. CASE Produce
    <2>1. \A i \in 1..Len(received[c]) :
              topic'[received[c][i].event] = topic[received[c][i].event]
        BY <1>3, PushesTyped, ProduceKeeps
    <2>2. UNCHANGED <<received, owner>>
        BY <1>3 DEF Produce, connection
    <2>. QED
        BY <1>0, <2>1, <2>2
<1>4. CASE FlushCommits \/ ReadMessage \/ LookUp \/ NextEvent
    <2>1. UNCHANGED <<received, owner, topic>>
        BY <1>4 DEF FlushCommits, ReadMessage, LookUp, NextEvent, connection
    <2>. QED
        BY <1>0, <2>1
<1>5. CASE Push /\ received'[c] = received[c]
    <2>1. UNCHANGED <<owner, topic>>
        BY <1>5 DEF Push, connection
    <2>. QED
        BY <1>0, <1>5, <2>1
<1>6. CASE Push /\ received'[c] # received[c]
    <2>. DEFINE new == [event |-> hand, turn |-> turn]
    <2>1. /\ received'[c] = Append(received[c], new)
          /\ target = c /\ c # None
          /\ UNCHANGED <<owner, topic>>
        BY <1>6, NoneAssumption DEF Push, TypeOK, connection
    <2>2. /\ hand = pos - 1 /\ hand \in 1..Len(topic)
          /\ topic[new.event][new.turn] = owner[c]
        BY <1>6, <2>1 DEF HandInv, TypeOK
    <2>3. new \in Pushed
        BY <2>2 DEF Pushed, TypeOK
    <2>4. \A i \in 1..Len(received[c]) : Before(received[c][i], new)
        <3>1. TAKE i \in 1..Len(received[c])
        <3>2. received[c][i].event \in Nat /\ received[c][i].turn \in Nat
            BY PushesTyped
        <3>3. /\ received[c][i].event < pos
              /\ received[c][i].event = hand =>
                    received[c][i].turn <= turn /\ received[c][i].turn # turn
            BY <2>1 DEF ReceivedInv
        <3>. QED
            BY <2>2, <3>2, <3>3 DEF TypeOK, Before
    <2>. HIDE DEF new
    <2>5. received[c] \in Seq(Pushed) /\ Len(received'[c]) = Len(received[c]) + 1
        BY <2>1, <2>3, PushesTyped
    <2>6. \A i \in 1..Len(received[c]) : received'[c][i] = received[c][i]
        BY <2>1, <2>3, <2>5
    <2>7. received'[c][Len(received[c]) + 1] = new
        BY <2>1, <2>3, <2>5
    <2>8. ASSUME NEW i \in 1..Len(received'[c])
          PROVE  topic'[received'[c][i].event][received'[c][i].turn] = owner'[c]
        <3>1. CASE i \in 1..Len(received[c])
            BY <1>0, <2>1, <2>6, <3>1
        <3>2. CASE i = Len(received[c]) + 1
            BY <2>1, <2>2, <2>7, <3>2
        <3>. QED
            BY <2>5, <2>8, <3>1, <3>2
    <2>9. ASSUME NEW i \in 1..Len(received'[c]), NEW j \in 1..Len(received'[c]), i < j
          PROVE  Before(received'[c][i], received'[c][j])
        <3>1. i \in 1..Len(received[c])
            BY <2>5, <2>9
        <3>2. CASE j \in 1..Len(received[c])
            BY <1>0, <2>6, <2>9, <3>1, <3>2
        <3>3. CASE j = Len(received[c]) + 1
            BY <2>4, <2>6, <2>7, <3>1, <3>3
        <3>. QED
            BY <2>5, <2>9, <3>2, <3>3
    <2>. QED
        BY <2>8, <2>9
<1>7. CASE Crash
    BY <1>7 DEF Crash
<1>. QED
    BY <1>2, <1>3, <1>4, <1>5, <1>6, <1>7 DEF Next, ConnectionStep, Consumer

LEMMA SkippedFinite ==
    ASSUME TypeOK
    PROVE  IsFiniteSet(Skipped) /\ Cardinality(Skipped) \in Nat
<1>1. pos - 1 \in Int
    BY DEF TypeOK
<1>2. IsFiniteSet(1..(pos - 1))
    BY <1>1, FS_Interval
<1>3. IsFiniteSet(Skipped)
    BY <1>2, FS_Subset DEF Skipped
<1>. QED
    BY <1>3, FS_CardinalityType

LEMMA NextSkips ==
    ASSUME TypeOK, HandInv, SkipsNeedCrashes, [Next]_vars
    PROVE  SkipsNeedCrashes'
<1>. USE DEF SkipsNeedCrashes
<1>1. /\ pos \in Nat \ {0} /\ committed \in 0..(pos - 1)
      /\ None \notin 1..pos /\ crashes \in Nat
      /\ Cardinality(Skipped) <= crashes
    BY NoneAssumption DEF TypeOK, Skipped
<1>2. ASSUME Skipped' = Skipped, crashes' = crashes PROVE SkipsNeedCrashes'
    BY <1>1, <1>2 DEF Skipped
<1>3. CASE ReadMessage
    <2>1. \A x : x \in Skipped' <=> x \in Skipped
        <3>1. /\ hand = None /\ hand' = pos /\ pos' = pos + 1
              /\ handled' = handled /\ crashes' = crashes
            BY <1>3 DEF ReadMessage, faults
        <3>2. Skipped = 1..(pos - 1) \ handled
            BY <1>1, <3>1 DEF Skipped
        <3>3. Skipped' = 1..pos \ (handled \cup {pos})
            BY <1>1, <3>1 DEF Skipped
        <3>. QED
            BY <1>1, <3>2, <3>3
    <2>. QED
        BY <1>2, <1>3, <2>1 DEF ReadMessage, faults
<1>4. CASE NextEvent
    <2>1. Skipped' = Skipped
        BY <1>1, <1>4 DEF NextEvent, Skipped
    <2>. QED
        BY <1>2, <1>4, <2>1 DEF NextEvent, faults
<1>5. CASE Crash
    <2>1. Skipped' \subseteq Skipped \cup {hand}
        BY <1>1, <1>5 DEF Crash, Skipped
    <2>2. /\ IsFiniteSet(Skipped \cup {hand})
          /\ Cardinality(Skipped \cup {hand}) <= Cardinality(Skipped) + 1
          /\ Cardinality(Skipped) \in Nat
          /\ Cardinality(Skipped \cup {hand}) \in Nat
        <3>1. IsFiniteSet(Skipped) /\ Cardinality(Skipped) \in Nat
            BY SkippedFinite
        <3>2. IsFiniteSet(Skipped \cup {hand})
            BY <3>1, FS_AddElement
        <3>3. Cardinality(Skipped \cup {hand}) =
                 IF hand \in Skipped THEN Cardinality(Skipped)
                 ELSE Cardinality(Skipped) + 1
            BY <3>1, FS_AddElement
        <3>4. Cardinality(Skipped \cup {hand}) \in Nat
            BY <3>2, FS_CardinalityType
        <3>. QED
            BY <3>1, <3>2, <3>3, <3>4
    <2>3. Cardinality(Skipped') <= Cardinality(Skipped \cup {hand})
          /\ Cardinality(Skipped') \in Nat
        <3>1. IsFiniteSet(Skipped') /\ Cardinality(Skipped') <= Cardinality(Skipped \cup {hand})
            BY <2>1, <2>2, FS_Subset
        <3>. QED
            BY <3>1, FS_CardinalityType
    <2>4. crashes' = crashes + 1
        BY <1>5 DEF Crash
    <2>5. Cardinality(Skipped') <= crashes'
        BY <1>1, <2>2, <2>3, <2>4
    <2>. QED
        BY <2>5 DEF Skipped
<1>6. CASE UNCHANGED <<pos, hand, handled, crashes>>
    BY <1>2, <1>6 DEF Skipped
<1>. QED
    BY <1>3, <1>4, <1>5, <1>6, ConnectionsKeepConsumer
       DEF Next, Consumer, Produce, FlushCommits, LookUp, Push, ConnectionStep,
           consumer, faults

-----------------------------------------------------------------------------
(* Theorems.                                                               *)

LEMMA InitInv ==
    ASSUME Init
    PROVE  IInv
<1>1. TypeOK
    BY InitTyped
<1>2. OwnerInv /\ HubInv /\ AloneInv /\ BeatInv /\ HandInv
    BY DEF Init, OwnerInv, HubInv, AloneInv, BeatInv, HandInv
<1>3. ReceivedInv /\ PushesAreInOrder
    BY DEF Init, ReceivedInv, PushesAreInOrder
<1>4. SkipsNeedCrashes
    <2>1. (1..(pos - 1)) \ (handled \cup {hand}) = {}
        BY DEF Init
    <2>. QED
        BY <2>1, FS_EmptySet DEF Init, SkipsNeedCrashes
<1>. QED
    BY <1>1, <1>2, <1>3, <1>4 DEF IInv

LEMMA NextInv ==
    ASSUME IInv, [Next]_vars
    PROVE  IInv'
BY NextTyped, NextOwned, NextHub, NextAlone, NextBeat, NextHand, NextReceived,
   NextInOrder, NextSkips
   DEF IInv

LEMMA Inductive == Spec => []IInv
BY InitInv, NextInv, PTL DEF Spec

\* Every variable keeps its type, for any users and connections, and any number
\* of events, failing Redis commands and crashes.
THEOREM TypeCorrect == Spec => []TypeOK
<1>1. IInv => TypeOK
    BY DEF IInv
<1>. QED
    BY Inductive, <1>1, PTL

\* The hub never holds the stream of a handler that has returned
\* (RegisterConnection, UnregisterConnection), however many connections of a
\* user overlap.
THEOREM StreamsLive == Spec => []StreamsAreLive
<1>1. IInv => StreamsAreLive
    BY DEF IInv, HubInv, StreamsAreLive
<1>. QED
    BY Inductive, <1>1, PTL

\* While no connection of a user is being registered or unregistered, a stream
\* in the hub has a heartbeat that extends the presence key.
THEOREM StreamsExtended == Spec => []StreamsAreExtended
<1>1. ASSUME IInv PROVE StreamsAreExtended
    <2>. SUFFICES ASSUME NEW u \in Users, streams[u] # None, ~Changing(u)
                  PROVE  \E c \in beating : owner[c] = u
        BY DEF StreamsAreExtended
    <2>1. streams[u] \in Connections /\ owner[streams[u]] = u
        BY <1>1 DEF IInv, HubInv, TypeOK
    <2>2. pc[streams[u]] \in {"status", "open"}
        BY <1>1, <2>1 DEF IInv, HubInv, Changing
    <2>3. streams[u] \in beating
        BY <1>1, <2>1, <2>2 DEF IInv, BeatInv, Changing
    <2>. QED
        BY <2>1, <2>3
<1>. QED
    BY Inductive, <1>1, PTL

\* A connection without overlaps is registered, has its heartbeat and is shown
\* online unless that heartbeat failed to extend the key, whatever earlier connections, failing Redis commands and crashes left.
THEOREM AloneServed == Spec => []AloneIsServed
<1>1. IInv => AloneIsServed
    BY DEF IInv, AloneInv, Served, AloneIsServed
<1>. QED
    BY Inductive, <1>1, PTL

\* No client gets an event before an earlier one, or again but where the event
\* addresses its user again, although the consumer reads events again after a
\* crash.
THEOREM PushesInOrder == Spec => []PushesAreInOrder
<1>1. IInv => PushesAreInOrder
    BY DEF IInv
<1>. QED
    BY Inductive, <1>1, PTL

\* The consumer passes over at most one event for each crash.
THEOREM SkipsCrash == Spec => []SkipsNeedCrashes
<1>1. IInv => SkipsNeedCrashes
    BY DEF IInv
<1>. QED
    BY Inductive, <1>1, PTL

=============================================================================
