------------------------------ MODULE ChatList ------------------------------
(***************************************************************************)
(* The list of chats in ChatsPage.  loadChats, the handler of the websocket *)
(* and handleNewChat replace or update the same list, each after awaits of *)
(* its own; the effect that subscribes the handler and loads the list runs *)
(* again whenever the object of the selected chat is another one.  A chat  *)
(* is told by the companion; until a load a new one has a temporary id.    *)
(* Order and previews of the chats, and the remounting of the window       *)
(* (chatUpdateTrigger) are left out.                                       *)
(***************************************************************************)
EXTENDS Naturals, Sequences

CONSTANTS
    Companions,
    MaxMessages,   \* bound: messages from the companions
    MaxLoads,      \* bound: calls of loadChats, and get_chats requests, at once
    None           \* nothing

Loads == 1..MaxLoads

\* Ids of chats.
Temp(c) == <<"temp", c>>
Real(c) == <<"chat", c>>
Ids == {Temp(c) : c \in Companions} \cup {Real(c) : c \in Companions}

\* What the page knows of a chat.
Chat == [id: Ids, companion: Companions, unread: Nat]
ChatOf(id, c) == [id |-> id, companion |-> c, unread |-> 0]

\* A call of loadChats, with the rows it got.
Load == [step: {"idle", "waiting", "decrypting"}, rows: SUBSET Companions]
NoLoad == [step |-> "idle", rows |-> {}]

\* handleNewChat: the companion, and the list of the render it was called in.
NoNewChat == [companion |-> None, chats |-> {}]

ASSUME NoneAssumption == None \notin Companions \cup Ids
ASSUME LoadsAssumption == MaxLoads \in Nat \ {0}

VARIABLES
    rows,        \* the server: companions with a chat
    inbox,       \* new_message frames on their way, per companion
    messages,    \* how many messages were sent so far
    asked,       \* get_chats requests on their way
    answers,     \* chats frames on their way: rows
    chats,       \* the list
    selected,    \* selectedChatId
    loading,     \* whether the list is hidden
    due,         \* the effect that initializes the connection is to run
    initializing,\* the load of its last run, or None: it has resolved
    leaked,      \* a handler of an earlier run is subscribed for good
    load,        \* the calls of loadChats
    processed,   \* processedMessagesRef
    updating,    \* messages of known chats being decrypted, per companion
    adopting,    \* companions whose new chat gets its key
    newChat,     \* the call of handleNewChat
    unseen,      \* history: messages of chats in the list that came, or were
                 \* being decrypted, since the chat was last opened
    disturbed    \* history: "load": loads overlapped or a call failed, "reverted":
                 \* a new chat brought back an older list

server == <<rows, inbox, messages>>
wire == <<asked, answers>>
effect == <<due, initializing, leaked>>
work == <<updating, adopting, newChat>>
history == <<unseen, disturbed>>
vars == <<rows, inbox, messages, asked, answers, chats, selected, loading, due,
          initializing, leaked, load, processed, updating, adopting, newChat,
          unseen, disturbed>>

\* The effect has run for the first time, and the request is sent.
Init ==
    /\ rows \in SUBSET Companions
    /\ inbox = [c \in Companions |-> 0]
    /\ messages = 0
    /\ asked = 1 /\ answers = <<>>
    /\ chats = {}
    /\ selected = None
    /\ loading = TRUE
    /\ due = FALSE /\ initializing = 1 /\ leaked = FALSE
    /\ load = [l \in Loads |-> IF l = 1 THEN [NoLoad EXCEPT !.step = "waiting"] ELSE NoLoad]
    /\ processed = {}
    /\ updating = [c \in Companions |-> 0]
    /\ adopting = {}
    /\ newChat = NoNewChat
    /\ unseen = [c \in Companions |-> 0]
    /\ disturbed = {}

TypeOK ==
    /\ rows \subseteq Companions
    /\ inbox \in [Companions -> Nat] /\ messages \in Nat
    /\ asked \in Nat /\ answers \in Seq(SUBSET Companions)
    /\ chats \subseteq Chat
    /\ selected \in Ids \cup {None}
    /\ loading \in BOOLEAN /\ due \in BOOLEAN /\ leaked \in BOOLEAN
    /\ initializing \in Loads \cup {None}
    /\ load \in [Loads -> Load]
    /\ processed \subseteq Companions /\ adopting \subseteq Companions
    /\ updating \in [Companions -> Nat]
    /\ newChat \in [companion: Companions \cup {None}, chats: SUBSET Chat]
    /\ unseen \in [Companions -> Nat]
    /\ disturbed \subseteq {"load", "reverted"}

-----------------------------------------------------------------------------
(* selectedChat is looked up by id in the list, and is another object after *)
(* each update of its chat: the effect runs again.                         *)

Listed(id, list) == \E chat \in list : chat.id = id

SelectedChanges(updated) ==
    due' = (due \/ Listed(selected, chats) # Listed(selected, chats')
                \/ (selected \in updated /\ Listed(selected, chats')))

-----------------------------------------------------------------------------
(* loadChats.                                                              *)

Disturb(event, happened) ==
    disturbed' = IF happened THEN disturbed \cup {event} ELSE disturbed

Free(l) == load[l].step = "idle" /\ \A k \in Loads : k < l => load[k].step # "idle"

\* The request is sent; another load may be under way.
StartLoad(l) ==
    /\ Free(l)
    /\ asked + Len(answers) < MaxLoads
    /\ load' = [load EXCEPT ![l] = [step |-> "waiting", rows |-> {}]]
    /\ asked' = asked + 1
    /\ loading' = TRUE
    /\ Disturb("load", asked + Len(answers) > 0
                         \/ \E k \in Loads : load[k].step # "idle")
    /\ UNCHANGED answers

\* message-service reads the rows ...
GetChats ==
    /\ asked > 0
    /\ asked' = asked - 1
    /\ answers' = Append(answers, rows)
    /\ UNCHANGED <<server, chats, selected, loading, effect, load, processed, work, history>>

\* ... and the answer is taken by every call of getChats that waits for one.
Answered ==
    /\ answers # <<>>
    /\ answers' = Tail(answers)
    /\ load' = [l \in Loads |->
          IF load[l].step = "waiting"
          THEN [load[l] EXCEPT !.step = "decrypting", !.rows = Head(answers)]
          ELSE load[l]]
    /\ UNCHANGED <<server, asked, chats, selected, loading, effect, processed, work, history>>

\* The initial load of the last run resolves initializeConnection, and with it
\* sets cleanup.
EndLoad(l) ==
    /\ load' = [load EXCEPT ![l] = NoLoad]
    /\ loading' = FALSE
    /\ initializing' = IF initializing = l THEN None ELSE initializing

\* Keys and previews are there: the list is replaced.
Loaded(l) ==
    /\ load[l].step = "decrypting"
    /\ chats' = {ChatOf(Real(c), c) : c \in load[l].rows}
    /\ SelectedChanges(Ids)
    /\ EndLoad(l)
    /\ UNCHANGED <<server, wire, selected, leaked, processed, work, history>>

\* The request is lost, or answered with an error, which getChats does not look
\* at: after its timeout the list stays as it is.
LoadFails(l) ==
    /\ load[l].step = "waiting"
    /\ EndLoad(l)
    /\ asked' \in {asked, IF asked = 0 THEN 0 ELSE asked - 1}
    /\ Disturb("load", TRUE)
    /\ UNCHANGED <<server, answers, chats, selected, due, leaked, processed, work, unseen>>

-----------------------------------------------------------------------------
(* The effect: the cleanup of the last run, if that has resolved, then      *)
(* another handler and another load.                                       *)

RunEffect ==
    /\ due
    /\ due' = FALSE
    /\ leaked' = (leaked \/ initializing # None)
    /\ \E l \in Loads : StartLoad(l) /\ initializing' = l
    /\ UNCHANGED <<server, chats, selected, processed, work, unseen>>

-----------------------------------------------------------------------------
(* The handler of the websocket.                                           *)

\* A message is sent; both users have a row from then on.
Incoming(c) ==
    /\ messages < MaxMessages
    /\ messages' = messages + 1
    /\ rows' = rows \cup {c}
    /\ inbox' = [inbox EXCEPT ![c] = @ + 1]
    /\ UNCHANGED <<wire, chats, selected, loading, effect, load, processed, work, history>>

\* Mutant: every handler that is subscribed counts the message.
RunsAll(c) == IF leaked THEN 2 ELSE 1

\* How many handlers deal with the message: the first one marks it as processed.
\* A pushed message has no id, so that its key is the same for all of a chat.
Runs(c) == IF c \in processed THEN 0 ELSE 1

\* new_message: up to the first await.
NewMessage(c) ==
    /\ inbox[c] > 0
    /\ inbox' = [inbox EXCEPT ![c] = @ - 1]
    /\ processed' = processed \cup {c}
    /\ IF Listed(Real(c), chats)
       THEN /\ updating' = [updating EXCEPT ![c] = @ + Runs(c)]
            /\ unseen' = [unseen EXCEPT ![c] = @ + 1]
            /\ UNCHANGED adopting
       ELSE /\ adopting' = IF Runs(c) > 0 THEN adopting \cup {c} ELSE adopting
            /\ UNCHANGED <<updating, unseen>>
    /\ UNCHANGED <<rows, messages, wire, chats, selected, loading, effect, load, newChat,
                   disturbed>>

\* Decrypted: unless the chat is open it has one more unread message.
Counted(chat) == [chat EXCEPT !.unread = IF selected = chat.id THEN 0 ELSE @ + 1]

Updated(c) ==
    /\ updating[c] > 0
    /\ updating' = [updating EXCEPT ![c] = @ - 1]
    /\ chats' = {IF chat.id = Real(c) THEN Counted(chat) ELSE chat : chat \in chats}
    /\ SelectedChanges({Real(c)})
    /\ UNCHANGED <<server, wire, selected, loading, initializing, leaked, load, processed,
                   adopting, newChat, history>>

\* The content cannot be decrypted.
UpdateFails(c) ==
    /\ updating[c] > 0
    /\ updating' = [updating EXCEPT ![c] = @ - 1]
    /\ UNCHANGED <<server, wire, chats, selected, loading, effect, load, processed,
                   adopting, newChat, history>>

\* Mutant: the list is not loaded again.
AdoptOnly(c) ==
    /\ c \in adopting
    /\ adopting' = adopting \ {c}
    /\ rows' = rows \cup {c}
    /\ UNCHANGED <<inbox, messages, wire, chats, selected, loading, effect, load,
                   processed, updating, newChat, history>>

\* A message of a chat that is not in the list: its key is saved, and the list
\* loaded again.
Adopt(c) ==
    /\ c \in adopting
    /\ adopting' = adopting \ {c}
    /\ rows' = rows \cup {c}
    /\ \E l \in Loads : StartLoad(l)
    /\ UNCHANGED <<inbox, messages, chats, selected, effect, processed, updating,
                   newChat, unseen>>

AdoptFails(c) ==
    /\ c \in adopting
    /\ adopting' = adopting \ {c}
    /\ Disturb("load", TRUE)
    /\ UNCHANGED <<server, wire, chats, selected, loading, effect, load, processed,
                   updating, newChat, unseen>>

\* The preview of an adopted chat, that of a message of one's own
\* (message_sent), or the online status of a companion: another object for the
\* chat.
Refresh(c) ==
    /\ \E chat \in chats : chat.companion = c
    /\ UNCHANGED chats
    /\ SelectedChanges({Real(c), Temp(c)})
    /\ UNCHANGED <<server, wire, selected, loading, initializing, leaked, load, processed,
                   work, history>>

-----------------------------------------------------------------------------
(* The user.                                                               *)

\* The list is not shown while it is loading.
SelectChat(c) ==
    /\ ~loading
    /\ \E chat \in chats :
          /\ chat.companion = c
          /\ selected' = chat.id
          /\ chats' = (chats \ {chat}) \cup {[chat EXCEPT !.unread = 0]}
    /\ unseen' = [unseen EXCEPT ![c] = updating[c]]
    /\ due' = TRUE
    /\ UNCHANGED <<server, wire, loading, initializing, leaked, load, processed, work,
                   disturbed>>

BackToChats ==
    /\ selected # None
    /\ selected' = None
    /\ due' = (due \/ Listed(selected, chats))
    /\ UNCHANGED <<server, wire, chats, loading, initializing, leaked, load, processed,
                   work, history>>

\* handleNewChat, up to the first await: a user from the search without a chat
\* in the list of this render.
StartNewChat(c) ==
    /\ newChat = NoNewChat
    /\ \A chat \in chats : chat.companion # c
    /\ newChat' = [companion |-> c, chats |-> chats]
    /\ UNCHANGED <<server, wire, chats, selected, loading, effect, load, processed,
                   updating, adopting, history>>

\* The search leads to the chat that is there.
FindChat(c) ==
    /\ \E chat \in chats : chat.companion = c /\ selected' = chat.id
    /\ due' = (due \/ selected' # selected)
    /\ UNCHANGED <<server, wire, chats, loading, initializing, leaked, load, processed,
                   work, history>>

\* Mutant: the chat is put before the list as it is now.
AddToCurrent(c) == {ChatOf(Temp(c), c)} \cup chats

\* The chat is put before the list of that render.
AddToRendered(c) == {ChatOf(Temp(c), c)} \cup newChat.chats

\* The key is saved, and with it the row; the chat is shown under a temporary
\* id and selected.
AddNewChat(c) ==
    /\ newChat.companion = c
    /\ rows' = rows \cup {c}
    /\ chats' = AddToRendered(c)
    /\ selected' = Temp(c)
    /\ due' = TRUE
    /\ newChat' = NoNewChat
    /\ Disturb("reverted", chats # newChat.chats)
    /\ UNCHANGED <<inbox, messages, wire, loading, initializing, leaked, load, processed,
                   updating, adopting, unseen>>

NewChatFails ==
    /\ newChat # NoNewChat
    /\ newChat' = NoNewChat
    /\ UNCHANGED <<server, wire, chats, selected, loading, effect, load, processed,
                   updating, adopting, history>>

Next ==
    \/ GetChats \/ Answered \/ RunEffect \/ BackToChats \/ NewChatFails
    \/ \E l \in Loads : Loaded(l) \/ LoadFails(l)
    \/ \E c \in Companions :
          \/ Incoming(c) \/ NewMessage(c) \/ Updated(c) \/ UpdateFails(c)
          \/ Adopt(c) \/ AdoptFails(c) \/ Refresh(c)
          \/ SelectChat(c) \/ StartNewChat(c) \/ FindChat(c) \/ AddNewChat(c)

Spec == Init /\ [][Next]_vars

-----------------------------------------------------------------------------
\* The list has one chat for each companion, although a chat has two ids in
\* turn and a load may end, or a new message adopt the chat, while
\* handleNewChat saves its key.
ChatsAreDistinct ==
    \A x, y \in chats : x.companion = y.companion => x = y

\* No chat shows more unread messages than came since it was opened, however
\* many handlers earlier runs of the effect have left behind; but a new chat
\* may bring back an older list.
UnreadIsBacked ==
    "reverted" \notin disturbed =>
        \A chat \in chats : chat.unread <= unseen[chat.companion]

\* When nothing is under way, the list has all chats of the server, those of
\* companions who wrote meanwhile included, unless a call failed, two loads
\* overlapped (the later one takes the answer to the earlier one, or ends
\* first), or a new chat was added to a list that had changed since.
Quiet ==
    /\ asked = 0 /\ answers = <<>> /\ ~due
    /\ \A l \in Loads : load[l] = NoLoad
    /\ adopting = {} /\ newChat = NoNewChat
    /\ \A c \in Companions : inbox[c] = 0

ListIsComplete ==
    Quiet /\ disturbed = {} => \A c \in rows : \E chat \in chats : chat.companion = c
=============================================================================
