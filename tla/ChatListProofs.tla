--------------------------- MODULE ChatListProofs ---------------------------
(***************************************************************************)
(* Proofs about ChatList: types, and that the list has each chat once, none *)
(* with too many unread messages, and in the end all of them.              *)
(***************************************************************************)
EXTENDS ChatList, SequenceTheorems, TLAPS

Shown(c) == \E chat \in chats : chat.companion = c

\* The list, and the one a new chat is to be put before, have each chat once.
Distinct(list) ==
    \A x, y \in list : x.companion = y.companion => x = y

ChatIsNew == \A chat \in newChat.chats : chat.companion # newChat.companion

DistinctInv ==
    /\ Distinct(chats) /\ Distinct(newChat.chats) /\ ChatIsNew
    /\ \A chat \in chats \cup newChat.chats :
          chat.id \in {Temp(chat.companion), Real(chat.companion)}

\* Messages being decrypted will count, and are not seen yet.
CountedInv ==
    /\ \A c \in Companions : updating[c] <= unseen[c]
    /\ "reverted" \notin disturbed => \A chat \in chats :
          chat.unread + updating[chat.companion] <= unseen[chat.companion]

Idle(l) == load[l].step = "idle"
AllIdle == \A l \in Loads : Idle(l)

\* Undisturbed, there is one load at most, with one request or one answer.
OneLoad ==
    \/ AllIdle /\ asked = 0 /\ answers = <<>>
    \/ \E l \in Loads :
          /\ \A k \in Loads \ {l} : Idle(k)
          /\ \/ load[l].step = "waiting" /\ asked = 1 /\ answers = <<>>
             \/ load[l].step = "waiting" /\ asked = 0 /\ Len(answers) = 1
             \/ load[l].step = "decrypting" /\ asked = 0 /\ answers = <<>>

\* What is under way will not take the chat off the list, or has it.
WillBeShown(c) ==
    asked = 0 =>
        /\ answers # <<>> => c \in Head(answers)
        /\ \A l \in Loads : load[l].step = "decrypting" => c \in load[l].rows
        /\ answers = <<>> /\ AllIdle => Shown(c)

\* A chat of the server is shown when all has ended, or something under way
\* starts another load.
ChatIsComing(c) ==
    WillBeShown(c) \/ due \/ c \in adopting \/ (inbox[c] > 0 /\ c \notin processed)

\* What a load has read is there still.
ReadInv ==
    /\ answers # <<>> => Head(answers) \subseteq rows
    /\ \A l \in Loads : load[l].step = "decrypting" => load[l].rows \subseteq rows

\* Only companions with a row have messages or a chat with a permanent id,
\* which no later load loses.
RowsInv ==
    \A c \in Companions :
        /\ inbox[c] > 0 \/ c \in processed => c \in rows
        /\ Listed(Real(c), chats) => c \in rows /\ WillBeShown(c)
        /\ c \in rows => ChatIsComing(c)

CompleteInv == disturbed = {} => OneLoad /\ ReadInv /\ RowsInv

IInv == TypeOK /\ DistinctInv /\ CountedInv /\ CompleteInv

-----------------------------------------------------------------------------
(* Types.                                                                  *)

LEMMA IdsAreDifferent ==
    ASSUME NEW c \in Companions
    PROVE  /\ Temp(c) \in Ids /\ Real(c) \in Ids
           /\ \A d \in Companions : Temp(c) # Real(d) /\ (Real(c) = Real(d) => c = d)
BY DEF Temp, Real, Ids

LEMMA ChatOfTyped ==
    ASSUME NEW c \in Companions, NEW id \in Ids
    PROVE  ChatOf(id, c) \in Chat
BY DEF ChatOf, Chat

LEMMA StartLoadTyped ==
    ASSUME TypeOK, NEW l \in Loads, StartLoad(l)
    PROVE  /\ load' \in [Loads -> Load] /\ asked' \in Nat
           /\ loading' = TRUE /\ disturbed' \subseteq {"load", "reverted"}
           /\ answers' = answers
BY DEF TypeOK, StartLoad, Load, Disturb

LEMMA EndLoadTyped ==
    ASSUME TypeOK, NEW l \in Loads, EndLoad(l)
    PROVE  /\ load' \in [Loads -> Load] /\ loading' = FALSE
           /\ initializing' \in Loads \cup {None}
BY DEF TypeOK, EndLoad, Load, NoLoad

LEMMA SelectionTyped ==
    ASSUME TypeOK, NEW updated, SelectedChanges(updated)
    PROVE  due' \in BOOLEAN
BY DEF TypeOK, SelectedChanges, Listed

LEMMA LoadStepsTyped ==
    ASSUME TypeOK,
           GetChats \/ Answered \/ RunEffect
              \/ \E l \in Loads : Loaded(l) \/ LoadFails(l)
    PROVE  TypeOK'
<1>1. CASE GetChats
    BY <1>1 DEF GetChats, TypeOK, server, effect, work, history
<1>2. CASE Answered
    <2>1. Head(answers) \in SUBSET Companions /\ Tail(answers) \in Seq(SUBSET Companions)
        BY <1>2, HeadTailProperties DEF Answered, TypeOK
    <2>2. load' \in [Loads -> Load]
        BY <1>2, <2>1 DEF Answered, TypeOK, Load
    <2>. QED
        BY <1>2, <2>1, <2>2 DEF Answered, TypeOK, server, effect, work, history
<1>3. CASE RunEffect
    BY <1>3, StartLoadTyped DEF RunEffect, TypeOK, server, work
<1>4. ASSUME NEW l \in Loads, Loaded(l) PROVE TypeOK'
    <2>1. load[l].rows \subseteq Companions
        BY DEF TypeOK, Load
    <2>2. chats' \subseteq Chat
        BY <1>4, <2>1, ChatOfTyped, IdsAreDifferent DEF Loaded
    <2>3. due' \in BOOLEAN
        BY <1>4, SelectionTyped DEF Loaded
    <2>4. EndLoad(l)
        BY <1>4 DEF Loaded
    <2>. QED
        BY <1>4, <2>2, <2>3, <2>4, EndLoadTyped
        DEF Loaded, TypeOK, server, wire, work, history
<1>5. ASSUME NEW l \in Loads, LoadFails(l) PROVE TypeOK'
    <2>1. EndLoad(l) /\ asked' \in Nat /\ disturbed' \subseteq {"load", "reverted"}
        BY <1>5 DEF LoadFails, TypeOK, Disturb
    <2>. QED
        BY <1>5, <2>1, EndLoadTyped DEF LoadFails, TypeOK, server, work
<1>. QED
    BY <1>1, <1>2, <1>3, <1>4, <1>5

LEMMA MessageStepsTyped ==
    ASSUME TypeOK, NEW c \in Companions,
           \/ Incoming(c) \/ NewMessage(c) \/ Updated(c) \/ UpdateFails(c)
           \/ Adopt(c) \/ AdoptFails(c) \/ Refresh(c)
    PROVE  TypeOK'
<1>1. CASE Incoming(c)
    BY <1>1 DEF Incoming, TypeOK, wire, effect, work, history
<1>2. CASE NewMessage(c)
    <2>1. Runs(c) \in Nat
        BY DEF Runs
    <2>2. /\ inbox' \in [Companions -> Nat] /\ updating' \in [Companions -> Nat]
          /\ unseen' \in [Companions -> Nat]
        <3>1. /\ inbox \in [Companions -> Nat] /\ updating \in [Companions -> Nat]
              /\ unseen \in [Companions -> Nat]
            BY DEF TypeOK
        <3>2. inbox' \in [Companions -> Nat]
            BY <1>2, <3>1 DEF NewMessage
        <3>3. CASE Listed(Real(c), chats)
            BY <1>2, <2>1, <3>1, <3>2, <3>3 DEF NewMessage
        <3>4. CASE ~Listed(Real(c), chats)
            BY <1>2, <3>1, <3>2, <3>4 DEF NewMessage
        <3>. QED
            BY <3>3, <3>4
    <2>3. processed' \subseteq Companions /\ adopting' \subseteq Companions
        BY <1>2 DEF NewMessage, TypeOK
    <2>. QED
        BY <1>2, <2>2, <2>3 DEF NewMessage, TypeOK, wire, effect
<1>3. CASE Updated(c)
    <2>1. chats' \subseteq Chat
        <3>1. \A chat \in Chat : Counted(chat) \in Chat
            BY DEF Counted, Chat
        <3>. QED
            BY <1>3, <3>1 DEF Updated, TypeOK
    <2>2. due' \in BOOLEAN
        BY <1>3, SelectionTyped DEF Updated
    <2>3. updating' \in [Companions -> Nat]
        BY <1>3 DEF Updated, TypeOK
    <2>4. UNCHANGED <<server, wire, selected, loading, initializing, leaked, load,
                      processed, adopting, newChat, unseen, disturbed>>
        BY <1>3 DEF Updated, history
    <2>. QED
        BY <2>1, <2>2, <2>3, <2>4 DEF TypeOK, server, wire
<1>4. CASE UpdateFails(c)
    BY <1>4 DEF UpdateFails, TypeOK, server, wire, effect, history
<1>5. CASE Adopt(c)
    BY <1>5, StartLoadTyped DEF Adopt, TypeOK, effect
<1>6. CASE AdoptFails(c)
    BY <1>6 DEF AdoptFails, Disturb, TypeOK, server, wire, effect
<1>7. CASE Refresh(c)
    BY <1>7, SelectionTyped DEF Refresh, TypeOK, server, wire, work, history
<1>. QED
    BY <1>1, <1>2, <1>3, <1>4, <1>5, <1>6, <1>7

LEMMA UserStepsTyped ==
    ASSUME TypeOK,
           \/ BackToChats \/ NewChatFails
           \/ \E c \in Companions :
                 SelectChat(c) \/ StartNewChat(c) \/ FindChat(c) \/ AddNewChat(c)
    PROVE  TypeOK'
<1>1. CASE BackToChats
    BY <1>1 DEF BackToChats, Listed, TypeOK, server, wire, work, history
<1>2. CASE NewChatFails
    BY <1>2 DEF NewChatFails, NoNewChat, TypeOK, server, wire, effect, history
<1>3. ASSUME NEW c \in Companions, SelectChat(c) PROVE TypeOK'
    <2>1. PICK chat \in chats :
             /\ selected' = chat.id
             /\ chats' = (chats \ {chat}) \cup {[chat EXCEPT !.unread = 0]}
        BY <1>3 DEF SelectChat
    <2>2. chat \in Chat /\ chat.id \in Ids
        BY DEF TypeOK, Chat
    <2>3. [chat EXCEPT !.unread = 0] \in Chat
        BY <2>2 DEF Chat
    <2>. QED
        BY <1>3, <2>1, <2>2, <2>3 DEF SelectChat, TypeOK, server, wire, work
<1>4. ASSUME NEW c \in Companions, StartNewChat(c) PROVE TypeOK'
    BY <1>4 DEF StartNewChat, TypeOK, server, wire, effect, history
<1>5. ASSUME NEW c \in Companions, FindChat(c) PROVE TypeOK'
    BY <1>5 DEF FindChat, TypeOK, Chat, server, wire, work, history
<1>6. ASSUME NEW c \in Companions, AddNewChat(c) PROVE TypeOK'
    <2>1. newChat.chats \subseteq Chat
        BY DEF TypeOK
    <2>2. chats' \subseteq Chat /\ selected' \in Ids
        BY <1>6, <2>1, ChatOfTyped, IdsAreDifferent DEF AddNewChat, AddToRendered
    <2>. QED
        BY <1>6, <2>2 DEF AddNewChat, NoNewChat, Disturb, TypeOK, wire
<1>. QED
    BY <1>1, <1>2, <1>3, <1>4, <1>5, <1>6

LEMMA NextTyped ==
    ASSUME TypeOK, [Next]_vars
    PROVE  TypeOK'
<1>1. CASE UNCHANGED vars
    BY <1>1 DEF vars, TypeOK
<1>2. CASE Next
    BY <1>2, LoadStepsTyped, MessageStepsTyped, UserStepsTyped DEF Next
<1>. QED
    BY <1>1, <1>2

-----------------------------------------------------------------------------
(* Each chat once.                                                         *)

\* Other fields of a chat may change.
LEMMA SameChats ==
    ASSUME TypeOK, DistinctInv, UNCHANGED newChat,
           \E f \in [chats -> Chat] :
              /\ \A chat \in chats : /\ f[chat].companion = chat.companion
                                     /\ f[chat].id = chat.id
              /\ chats' = {f[chat] : chat \in chats}
    PROVE  DistinctInv'
<1>1. PICK f \in [chats -> Chat] :
          /\ \A chat \in chats : /\ f[chat].companion = chat.companion
                                 /\ f[chat].id = chat.id
          /\ chats' = {f[chat] : chat \in chats}
    OBVIOUS
<1>2. Distinct(chats')
    BY <1>1 DEF DistinctInv, Distinct
<1>3. \A chat \in chats' : chat.id \in {Temp(chat.companion), Real(chat.companion)}
    BY <1>1 DEF DistinctInv
<1>. QED
    BY <1>2, <1>3 DEF DistinctInv, ChatIsNew

\* Messages that were decrypted count.
LEMMA UpdatedChats ==
    ASSUME TypeOK, NEW c \in Companions, Updated(c)
    PROVE  \E f \in [chats -> Chat] :
              /\ \A chat \in chats :
                    /\ f[chat].companion = chat.companion /\ f[chat].id = chat.id
                    /\ f[chat].unread \in {0, chat.unread, chat.unread + 1}
                    /\ f[chat].unread # 0 /\ f[chat].unread # chat.unread
                          => chat.id = Real(c)
              /\ chats' = {f[chat] : chat \in chats}
<1>. DEFINE f == [chat \in chats |-> IF chat.id = Real(c) THEN Counted(chat) ELSE chat]
<1>1. \A chat \in Chat :
         /\ Counted(chat) \in Chat
         /\ Counted(chat).companion = chat.companion /\ Counted(chat).id = chat.id
         /\ Counted(chat).unread \in {0, chat.unread + 1}
    BY DEF Counted, Chat
<1>2. chats \subseteq Chat
    BY DEF TypeOK
<1>3. f \in [chats -> Chat]
    BY <1>1, <1>2
<1>4. chats' = {f[chat] : chat \in chats}
    BY DEF Updated
<1>. QED
    BY <1>1, <1>2, <1>3, <1>4

\* A chat that is opened has no unread messages.
LEMMA SelectedChats ==
    ASSUME TypeOK, NEW c \in Companions, SelectChat(c)
    PROVE  \E f \in [chats -> Chat], opened \in chats :
              /\ opened.companion = c
              /\ \A chat \in chats :
                    /\ f[chat].companion = chat.companion /\ f[chat].id = chat.id
                    /\ f[chat].unread = IF chat = opened THEN 0 ELSE chat.unread
              /\ chats' = {f[chat] : chat \in chats}
<1>1. PICK opened \in chats :
         /\ opened.companion = c
         /\ chats' = (chats \ {opened}) \cup {[opened EXCEPT !.unread = 0]}
    BY DEF SelectChat
<1>. DEFINE f == [chat \in chats |-> IF chat = opened
                                     THEN [chat EXCEPT !.unread = 0] ELSE chat]
<1>2. chats \subseteq Chat
    BY DEF TypeOK
<1>3. \A chat \in Chat : [chat EXCEPT !.unread = 0] \in Chat
    BY DEF Chat
<1>4. f \in [chats -> Chat]
    BY <1>2, <1>3
<1>5. chats' = {f[chat] : chat \in chats}
    BY <1>1
<1>6. \A chat \in chats :
         /\ f[chat].companion = chat.companion /\ f[chat].id = chat.id
         /\ f[chat].unread = IF chat = opened THEN 0 ELSE chat.unread
    BY <1>2 DEF Chat
<1>. QED
    BY <1>1, <1>4, <1>5, <1>6

LEMMA NewListed ==
    ASSUME TypeOK, DistinctInv, NEW c \in Companions, AddNewChat(c)
    PROVE  DistinctInv'
<1>1. chats' = {ChatOf(Temp(c), c)} \cup newChat.chats
    BY DEF AddNewChat, AddToRendered
<1>2. newChat.companion = c /\ newChat' = NoNewChat
    BY DEF AddNewChat
<1>3. Distinct(chats')
    BY <1>1, <1>2 DEF DistinctInv, Distinct, ChatIsNew, ChatOf
<1>4. \A chat \in chats' : chat.id \in {Temp(chat.companion), Real(chat.companion)}
    BY <1>1 DEF DistinctInv, ChatOf
<1>. QED
    BY <1>2, <1>3, <1>4 DEF DistinctInv, Distinct, ChatIsNew, NoNewChat

LEMMA NextDistinct ==
    ASSUME TypeOK, DistinctInv, [Next]_vars
    PROVE  DistinctInv'
<1>1. ASSUME UNCHANGED <<chats, newChat>> PROVE DistinctInv'
    BY <1>1 DEF DistinctInv, Distinct, ChatIsNew
<1>2. CASE GetChats \/ Answered \/ RunEffect \/ BackToChats
    BY <1>1, <1>2 DEF GetChats, Answered, RunEffect, BackToChats, work
<1>3. CASE NewChatFails
    BY <1>3 DEF NewChatFails, NoNewChat, DistinctInv, Distinct, ChatIsNew
<1>4. ASSUME NEW l \in Loads, Loaded(l) PROVE DistinctInv'
    BY <1>4 DEF Loaded, ChatOf, work, DistinctInv, Distinct, ChatIsNew
<1>5. ASSUME NEW l \in Loads, LoadFails(l) PROVE DistinctInv'
    BY <1>1, <1>5 DEF LoadFails, work
<1>6. ASSUME NEW c \in Companions,
             \/ Incoming(c) \/ NewMessage(c) \/ UpdateFails(c) \/ Adopt(c)
             \/ AdoptFails(c) \/ Refresh(c) \/ FindChat(c)
      PROVE  DistinctInv'
    BY <1>1, <1>6 DEF Incoming, NewMessage, UpdateFails, Adopt, AdoptFails, Refresh,
                      FindChat, work
<1>7. ASSUME NEW c \in Companions, Updated(c) PROVE DistinctInv'
    <2>1. UNCHANGED newChat
        BY <1>7 DEF Updated
    <2>. QED
        BY <1>7, <2>1, UpdatedChats, SameChats
<1>8. ASSUME NEW c \in Companions, SelectChat(c) PROVE DistinctInv'
    <2>1. UNCHANGED newChat
        BY <1>8 DEF SelectChat, work
    <2>. QED
        BY <1>8, <2>1, SelectedChats, SameChats
<1>9. ASSUME NEW c \in Companions, StartNewChat(c) PROVE DistinctInv'
    BY <1>9 DEF StartNewChat, DistinctInv, Distinct, ChatIsNew
<1>10. ASSUME NEW c \in Companions, AddNewChat(c) PROVE DistinctInv'
    BY <1>10, NewListed
<1>11. CASE UNCHANGED vars
    BY <1>1, <1>11 DEF vars
<1>. QED
    BY <1>2, <1>3, <1>4, <1>5, <1>6, <1>7, <1>8, <1>9, <1>10, <1>11 DEF Next

-----------------------------------------------------------------------------
(* Unread messages.                                                        *)

LEMMA CountersTyped ==
    ASSUME TypeOK
    PROVE  /\ updating \in [Companions -> Nat] /\ unseen \in [Companions -> Nat]
           /\ chats \subseteq Chat
           /\ \A chat \in Chat : chat.unread \in Nat /\ chat.companion \in Companions
BY DEF TypeOK, Chat

\* A message of a chat in the list is unseen, and may be counted once.
LEMMA ArrivalCounted ==
    ASSUME TypeOK, CountedInv, NEW c \in Companions, NewMessage(c)
    PROVE  CountedInv'
<1>1. CASE Listed(Real(c), chats)
    <2>1. /\ updating' = [updating EXCEPT ![c] = @ + Runs(c)]
          /\ unseen' = [unseen EXCEPT ![c] = @ + 1]
          /\ UNCHANGED <<chats, disturbed>>
        BY <1>1 DEF NewMessage
    <2>2. Runs(c) \in {0, 1}
        BY DEF Runs
    <2>3. \A d \in Companions : \A n \in Nat :
             n + updating[d] <= unseen[d] => n + updating'[d] <= unseen'[d]
        BY <2>1, <2>2, CountersTyped
    <2>4. \A d \in Companions : updating'[d] <= unseen'[d]
        BY <2>1, <2>2, CountersTyped DEF CountedInv
    <2>. QED
        BY <2>1, <2>3, <2>4, CountersTyped DEF CountedInv
<1>2. CASE ~Listed(Real(c), chats)
    BY <1>2 DEF NewMessage, CountedInv
<1>. QED
    BY <1>1, <1>2

\* It is counted when it has been decrypted.
LEMMA UpdateCounted ==
    ASSUME TypeOK, DistinctInv, CountedInv, NEW c \in Companions, Updated(c)
    PROVE  CountedInv'
<1>1. /\ updating[c] > 0 /\ updating' = [updating EXCEPT ![c] = @ - 1]
      /\ UNCHANGED <<unseen, disturbed>>
    BY DEF Updated, history
<1>2. \A d \in Companions : updating'[d] <= unseen'[d]
    BY <1>1, CountersTyped DEF CountedInv
<1>3. ASSUME "reverted" \notin disturbed, NEW after \in chats'
      PROVE  after.unread + updating'[after.companion] <= unseen'[after.companion]
    <2>1. PICK chat \in chats :
             /\ after.companion = chat.companion
             /\ after.unread \in {0, chat.unread, chat.unread + 1}
             /\ after.unread # 0 /\ after.unread # chat.unread => chat.id = Real(c)
        BY UpdatedChats
    <2>2. chat.companion \in Companions /\ chat.unread \in Nat
        BY CountersTyped
    <2>3. chat.unread + updating[chat.companion] <= unseen[chat.companion]
        BY <1>3 DEF CountedInv
    <2>4. CASE chat.companion = c
        <3>1. updating'[c] = updating[c] - 1 /\ updating[c] \in Nat /\ unseen[c] \in Nat
            BY <1>1, CountersTyped
        <3>2. updating'[c] <= unseen'[c]
            BY <1>2
        <3>. QED
            BY <1>1, <2>1, <2>2, <2>3, <2>4, <3>1, <3>2
    <2>5. CASE chat.companion # c
        <3>1. chat.id # Real(c)
            BY <2>2, <2>5, IdsAreDifferent DEF DistinctInv
        <3>2. updating'[chat.companion] = updating[chat.companion]
            BY <1>1, <2>2, <2>5, CountersTyped
        <3>3. after.unread \in {0, chat.unread}
            BY <2>1, <3>1
        <3>. QED
            BY <1>1, <1>2, <2>1, <2>2, <2>3, <3>2, <3>3, CountersTyped
    <2>. QED
        BY <2>4, <2>5
<1>. QED
    BY <1>1, <1>2, <1>3 DEF CountedInv

LEMMA SelectionCounted ==
    ASSUME TypeOK, DistinctInv, CountedInv, NEW c \in Companions, SelectChat(c)
    PROVE  CountedInv'
<1>1. unseen' = [unseen EXCEPT ![c] = updating[c]] /\ UNCHANGED <<updating, disturbed>>
    BY DEF SelectChat, work
<1>2. \A d \in Companions : updating'[d] <= unseen'[d]
    BY <1>1, CountersTyped DEF CountedInv
<1>3. ASSUME "reverted" \notin disturbed, NEW after \in chats'
      PROVE  after.unread + updating'[after.companion] <= unseen'[after.companion]
    <2>1. PICK opened \in chats, chat \in chats :
             /\ opened.companion = c
             /\ after.companion = chat.companion
             /\ after.unread = IF chat = opened THEN 0 ELSE chat.unread
        BY SelectedChats
    <2>2. chat.companion \in Companions /\ chat.unread \in Nat
        BY CountersTyped
    <2>3. chat.unread + updating[chat.companion] <= unseen[chat.companion]
        BY <1>3 DEF CountedInv
    <2>4. CASE chat = opened
        <3>1. after.unread = 0 /\ updating[chat.companion] \in Nat
            BY <2>1, <2>2, <2>4, CountersTyped
        <3>. QED
            BY <1>1, <1>2, <2>1, <2>2, <3>1
    <2>5. CASE chat # opened
        <3>1. chat.companion # c
            BY <2>1, <2>5 DEF DistinctInv, Distinct
        <3>. QED
            BY <1>1, <2>1, <2>2, <2>3, <2>5, <3>1, CountersTyped
    <2>. QED
        BY <2>4, <2>5
<1>. QED
    BY <1>1, <1>2, <1>3 DEF CountedInv

LEMMA NewListedCounted ==
    ASSUME TypeOK, CountedInv, NEW c \in Companions, AddNewChat(c)
    PROVE  CountedInv'
<1>1. /\ UNCHANGED <<updating, unseen>>
      /\ "reverted" \notin disturbed' =>
            "reverted" \notin disturbed /\ chats' = {ChatOf(Temp(c), c)} \cup chats
    BY DEF AddNewChat, AddToRendered, Disturb
<1>2. ChatOf(Temp(c), c).unread = 0 /\ ChatOf(Temp(c), c).companion = c
    BY DEF ChatOf
<1>. QED
    BY <1>1, <1>2, CountersTyped DEF CountedInv

LEMMA NextCounted ==
    ASSUME TypeOK, DistinctInv, CountedInv, [Next]_vars
    PROVE  CountedInv'
<1>1. ASSUME UNCHANGED <<chats, updating, unseen>>,
             "reverted" \in disturbed => "reverted" \in disturbed'
      PROVE  CountedInv'
    BY <1>1 DEF CountedInv
<1>2. CASE GetChats \/ Answered \/ RunEffect \/ BackToChats \/ NewChatFails
    BY <1>1, <1>2 DEF GetChats, Answered, RunEffect, StartLoad, Disturb, BackToChats,
                      NewChatFails, work, history
<1>3. ASSUME NEW l \in Loads, Loaded(l) PROVE CountedInv'
    <2>1. \A chat \in chats' : chat.unread = 0 /\ chat.companion \in Companions
        BY <1>3 DEF Loaded, ChatOf, TypeOK, Load
    <2>2. UNCHANGED <<updating, unseen>>
        BY <1>3 DEF Loaded, work, history
    <2>. QED
        BY <2>1, <2>2, CountersTyped DEF CountedInv
<1>4. ASSUME NEW l \in Loads, LoadFails(l) PROVE CountedInv'
    BY <1>1, <1>4 DEF LoadFails, Disturb, work
<1>5. ASSUME NEW c \in Companions,
             \/ Incoming(c) \/ Adopt(c) \/ AdoptFails(c) \/ Refresh(c)
             \/ FindChat(c) \/ StartNewChat(c)
      PROVE  CountedInv'
    BY <1>1, <1>5 DEF Incoming, Adopt, StartLoad, AdoptFails, Disturb, Refresh,
                      FindChat, StartNewChat, work, history
<1>6. ASSUME NEW c \in Companions, UpdateFails(c) PROVE CountedInv'
    <2>1. /\ updating[c] > 0 /\ updating' = [updating EXCEPT ![c] = @ - 1]
          /\ UNCHANGED <<chats, unseen, disturbed>>
        BY <1>6 DEF UpdateFails, history
    <2>. QED
        BY <2>1, CountersTyped DEF CountedInv
<1>7. ASSUME NEW c \in Companions,
             NewMessage(c) \/ Updated(c) \/ SelectChat(c) \/ AddNewChat(c)
      PROVE  CountedInv'
    BY <1>7, ArrivalCounted, UpdateCounted, SelectionCounted, NewListedCounted
<1>8. CASE UNCHANGED vars
    BY <1>1, <1>8 DEF vars
<1>. QED
    BY <1>2, <1>3, <1>4, <1>5, <1>6, <1>7, <1>8 DEF Next

-----------------------------------------------------------------------------
(* All chats in the end.                                                   *)

Complete == OneLoad /\ ReadInv /\ RowsInv

\* Nothing is taken off the list, and no load takes a step.
LEMMA OthersKeep ==
    ASSUME Complete, UNCHANGED <<inbox, processed, wire, load, adopting>>,
           rows \subseteq rows', due' \/ rows' = rows, due => due',
           \A c \in Companions : /\ Listed(Real(c), chats') => Listed(Real(c), chats)
                                 /\ Shown(c) => Shown(c)'
    PROVE  Complete'
<1>1. OneLoad' /\ ReadInv'
    BY DEF Complete, OneLoad, ReadInv, AllIdle, Idle, wire
<1>2. \A c \in Companions : WillBeShown(c) => WillBeShown(c)'
    BY DEF WillBeShown, AllIdle, Idle, wire
<1>3. RowsInv'
    BY <1>2 DEF Complete, RowsInv, ChatIsComing
<1>. QED
    BY <1>1, <1>3 DEF Complete

\* The rows will be read.
LEMMA StartLoadKeeps ==
    ASSUME TypeOK, disturbed = {} => Complete, disturbed' = {}, NEW l \in Loads, StartLoad(l),
           rows \subseteq rows', UNCHANGED <<inbox, processed, chats>>
    PROVE  Complete'
<1>1. disturbed = {} /\ AllIdle
    BY DEF StartLoad, Disturb, AllIdle, Idle
<1>2. Complete /\ asked = 0 /\ answers = <<>>
    BY <1>1 DEF Complete, OneLoad, AllIdle, Idle
<1>3. /\ asked' = 1 /\ answers' = <<>>
      /\ load' = [load EXCEPT ![l] = [step |-> "waiting", rows |-> {}]]
    BY <1>2 DEF StartLoad
<1>4. load'[l].step = "waiting" /\ \A k \in Loads \ {l} : load'[k].step = "idle"
    BY <1>1, <1>3 DEF AllIdle, Idle, TypeOK
<1>5. OneLoad' /\ ReadInv'
    BY <1>1, <1>3, <1>4 DEF OneLoad, ReadInv, AllIdle, Idle
<1>6. \A c \in Companions : WillBeShown(c)'
    BY <1>3 DEF WillBeShown
<1>7. RowsInv'
    BY <1>2, <1>6 DEF Complete, RowsInv, ChatIsComing
<1>. QED
    BY <1>5, <1>7 DEF Complete

LEMMA GetChatsKeeps ==
    ASSUME TypeOK, Complete, GetChats
    PROVE  Complete'
<1>1. PICK l \in Loads :
         /\ \A k \in Loads \ {l} : Idle(k)
         /\ load[l].step = "waiting" /\ asked = 1 /\ answers = <<>>
    BY DEF Complete, OneLoad, GetChats
<1>2. /\ asked' = 0 /\ answers' = <<rows>>
      /\ UNCHANGED <<rows, inbox, chats, due, load, processed, adopting>>
    BY <1>1 DEF GetChats, server, effect, work
<1>3. OneLoad' /\ ReadInv'
    BY <1>1, <1>2 DEF OneLoad, ReadInv, Idle
<1>4. \A c \in rows : WillBeShown(c)'
    BY <1>1, <1>2 DEF WillBeShown, Idle, AllIdle
<1>5. RowsInv'
    BY <1>2, <1>4 DEF Complete, RowsInv, ChatIsComing
<1>. QED
    BY <1>3, <1>5 DEF Complete

LEMMA AnsweredKeeps ==
    ASSUME TypeOK, Complete, Answered
    PROVE  Complete'
<1>1. PICK l \in Loads :
         /\ \A k \in Loads \ {l} : Idle(k)
         /\ load[l].step = "waiting" /\ asked = 0 /\ Len(answers) = 1
    BY DEF Complete, OneLoad, Answered
<1>2. Tail(answers) = <<>>
    <2>1. answers \in Seq(SUBSET Companions) /\ answers # <<>>
        BY DEF TypeOK, Answered
    <2>2. Tail(answers) \in Seq(SUBSET Companions) /\ Len(Tail(answers)) = 0
        BY <1>1, <2>1, HeadTailProperties
    <2>. QED
        BY <2>2, EmptySeq
<1>3. /\ answers # <<>> /\ answers' = <<>>
      /\ UNCHANGED <<rows, inbox, asked, chats, due, processed, adopting>>
    BY <1>2 DEF Answered, server, effect, work
<1>4. /\ load'[l].step = "decrypting" /\ load'[l].rows = Head(answers)
      /\ \A k \in Loads \ {l} : load'[k] = load[k]
    BY <1>1 DEF Answered, Idle, TypeOK, Load
<1>5. OneLoad' /\ ReadInv'
    BY <1>1, <1>3, <1>4 DEF Complete, OneLoad, ReadInv, Idle
<1>6. \A c \in Companions : WillBeShown(c) => WillBeShown(c)'
    BY <1>1, <1>3, <1>4 DEF WillBeShown, Idle, AllIdle
<1>7. RowsInv'
    BY <1>3, <1>6 DEF Complete, RowsInv, ChatIsComing
<1>. QED
    BY <1>5, <1>7 DEF Complete

LEMMA LoadedKeeps ==
    ASSUME TypeOK, Complete, NEW l \in Loads, Loaded(l)
    PROVE  Complete'
<1>1. /\ \A k \in Loads \ {l} : Idle(k)
      /\ load[l].step = "decrypting" /\ asked = 0 /\ answers = <<>>
    BY DEF Complete, OneLoad, Loaded, Idle, AllIdle
<1>2. /\ chats' = {ChatOf(Real(c), c) : c \in load[l].rows}
      /\ due => due'
      /\ UNCHANGED <<rows, inbox, asked, answers, processed, adopting>>
    BY DEF Loaded, SelectedChanges, server, wire, work
<1>3. load[l].rows \subseteq rows /\ load[l].rows \subseteq Companions
    BY <1>1 DEF Complete, ReadInv, TypeOK, Load
<1>4. AllIdle'
    BY <1>1 DEF Loaded, EndLoad, NoLoad, AllIdle, Idle, TypeOK
<1>5. OneLoad' /\ ReadInv'
    BY <1>1, <1>2, <1>4 DEF OneLoad, ReadInv, AllIdle, Idle
<1>6. \A c \in load[l].rows : Shown(c)' /\ WillBeShown(c)'
    <2>1. ASSUME NEW c \in load[l].rows PROVE Shown(c)'
        <3>1. ChatOf(Real(c), c) \in chats' /\ ChatOf(Real(c), c).companion = c
            BY <1>2 DEF ChatOf
        <3>. QED
            BY <3>1 DEF Shown
    <2>. QED
        BY <1>1, <1>2, <1>4, <2>1 DEF WillBeShown, AllIdle, Idle
<1>7. \A c \in Companions : WillBeShown(c) => c \in load[l].rows
    BY <1>1 DEF WillBeShown
<1>8. \A c \in Companions : Listed(Real(c), chats') => c \in load[l].rows
    BY <1>2, <1>3, IdsAreDifferent DEF Listed, ChatOf
<1>9. RowsInv'
    BY <1>2, <1>3, <1>6, <1>7, <1>8 DEF Complete, RowsInv, ChatIsComing
<1>. QED
    BY <1>5, <1>9 DEF Complete

LEMMA IncomingKeeps ==
    ASSUME TypeOK, Complete, NEW c \in Companions, Incoming(c)
    PROVE  Complete'
<1>1. /\ rows' = rows \cup {c} /\ inbox' = [inbox EXCEPT ![c] = @ + 1]
      /\ UNCHANGED <<asked, answers, chats, due, load, processed, adopting>>
    BY DEF Incoming, wire, effect, work
<1>2. OneLoad' /\ ReadInv'
    BY <1>1 DEF Complete, OneLoad, ReadInv, AllIdle, Idle
<1>3. \A d \in Companions : WillBeShown(d)' <=> WillBeShown(d)
    BY <1>1 DEF WillBeShown, AllIdle, Idle, Shown
<1>4. /\ \A d \in Companions \ {c} : inbox'[d] = inbox[d]
      /\ inbox'[c] > 0
    BY <1>1 DEF TypeOK
<1>5. RowsInv'
    BY <1>1, <1>3, <1>4 DEF Complete, RowsInv, ChatIsComing
<1>. QED
    BY <1>2, <1>5 DEF Complete

LEMMA NewMessageKeeps ==
    ASSUME TypeOK, Complete, NEW c \in Companions, NewMessage(c)
    PROVE  Complete'
<1>1. /\ inbox[c] > 0 /\ inbox' = [inbox EXCEPT ![c] = @ - 1]
      /\ processed' = processed \cup {c}
      /\ Listed(Real(c), chats) \/ c \in processed \/ c \in adopting'
      /\ adopting \subseteq adopting'
      /\ UNCHANGED <<rows, asked, answers, chats, due, load>>
    BY DEF NewMessage, Runs, wire, effect
<1>2. OneLoad' /\ ReadInv'
    BY <1>1 DEF Complete, OneLoad, ReadInv, AllIdle, Idle
<1>3. \A d \in Companions : WillBeShown(d)' <=> WillBeShown(d)
    BY <1>1 DEF WillBeShown, AllIdle, Idle, Shown
<1>4. \A d \in Companions \ {c} : inbox'[d] = inbox[d]
    BY <1>1 DEF TypeOK
<1>5. RowsInv'
    BY <1>1, <1>3, <1>4 DEF Complete, RowsInv, ChatIsComing
<1>. QED
    BY <1>2, <1>5 DEF Complete

\* Other fields of a chat may change.
LEMMA SameListed ==
    ASSUME NEW f \in [chats -> Chat],
           \A chat \in chats : /\ f[chat].companion = chat.companion
                               /\ f[chat].id = chat.id,
           chats' = {f[chat] : chat \in chats},
           NEW c \in Companions
    PROVE  /\ Listed(Real(c), chats') => Listed(Real(c), chats)
           /\ Shown(c) => Shown(c)'
BY DEF Listed, Shown

LEMMA UserStepsKeep ==
    ASSUME TypeOK, Complete, disturbed' = {},
           \/ BackToChats \/ NewChatFails
           \/ \E c \in Companions :
                 \/ SelectChat(c) \/ StartNewChat(c) \/ FindChat(c) \/ AddNewChat(c)
                 \/ Updated(c) \/ UpdateFails(c) \/ Refresh(c)
    PROVE  Complete'
<1>. DEFINE Keeps == /\ UNCHANGED <<rows, inbox, processed, wire, load, adopting, chats>>
                     /\ due => due'
<1>0. ASSUME Keeps PROVE Complete'
    <2>1. \A c \in Companions : /\ Listed(Real(c), chats') => Listed(Real(c), chats)
                                /\ Shown(c) => Shown(c)'
        BY <1>0 DEF Shown
    <2>. QED
        BY <1>0, <2>1, OthersKeep
<1>1. CASE BackToChats \/ NewChatFails
    <2>1. UNCHANGED <<rows, inbox, processed, wire, load, adopting, chats>>
        BY <1>1 DEF BackToChats, NewChatFails, server, work
    <2>2. due => due'
        BY <1>1 DEF BackToChats, NewChatFails, effect
    <2>. QED
        BY <1>0, <2>1, <2>2
<1>2. ASSUME NEW c \in Companions,
             StartNewChat(c) \/ FindChat(c) \/ UpdateFails(c) \/ Refresh(c)
      PROVE  Complete'
    <2>1. UNCHANGED <<rows, inbox, processed, wire, load, adopting, chats>>
        BY <1>2 DEF StartNewChat, FindChat, UpdateFails, Refresh, server, work
    <2>2. due => due'
        BY <1>2 DEF StartNewChat, FindChat, UpdateFails, Refresh, SelectedChanges, effect
    <2>. QED
        BY <1>0, <2>1, <2>2
<1>3. ASSUME NEW c \in Companions, Updated(c) PROVE Complete'
    <2>1. \A d \in Companions : /\ Listed(Real(d), chats') => Listed(Real(d), chats)
                                /\ Shown(d) => Shown(d)'
        BY <1>3, UpdatedChats, SameListed
    <2>2. /\ UNCHANGED <<rows, inbox, processed, wire, load, adopting>>
          /\ due => due'
        BY <1>3 DEF Updated, SelectedChanges, server
    <2>. QED
        BY <2>1, <2>2, OthersKeep
<1>4. ASSUME NEW c \in Companions, SelectChat(c) PROVE Complete'
    <2>1. \A d \in Companions : /\ Listed(Real(d), chats') => Listed(Real(d), chats)
                                /\ Shown(d) => Shown(d)'
        BY <1>4, SelectedChats, SameListed
    <2>2. UNCHANGED <<rows, inbox, processed, wire, load, adopting>> /\ due'
        BY <1>4 DEF SelectChat, server, work
    <2>. QED
        BY <2>1, <2>2, OthersKeep
<1>5. ASSUME NEW c \in Companions, AddNewChat(c) PROVE Complete'
    <2>1. chats' = {ChatOf(Temp(c), c)} \cup chats
        BY <1>5 DEF AddNewChat, AddToRendered, Disturb
    <2>2. \A d \in Companions : /\ Listed(Real(d), chats') => Listed(Real(d), chats)
                                /\ Shown(d) => Shown(d)'
        BY <2>1, IdsAreDifferent DEF Listed, ChatOf, Shown
    <2>3. /\ UNCHANGED <<inbox, processed, wire, load, adopting>>
          /\ due' /\ rows \subseteq rows'
        BY <1>5 DEF AddNewChat
    <2>. QED
        BY <2>2, <2>3, OthersKeep
<1>. QED
    BY <1>1, <1>2, <1>3, <1>4, <1>5

LEMMA NextComplete ==
    ASSUME TypeOK, CompleteInv, [Next]_vars
    PROVE  CompleteInv'
<1>. SUFFICES ASSUME disturbed' = {} PROVE Complete'
    BY DEF CompleteInv, Complete
<1>1. disturbed = {} => Complete
    BY DEF CompleteInv, Complete
<1>2. CASE RunEffect
    BY <1>1, <1>2, StartLoadKeeps DEF RunEffect, server
<1>3. ASSUME NEW c \in Companions, Adopt(c) PROVE Complete'
    BY <1>1, <1>3, StartLoadKeeps DEF Adopt
<1>4. ASSUME NEW l \in Loads, LoadFails(l) PROVE FALSE
    BY <1>4 DEF LoadFails, Disturb
<1>5. ASSUME NEW c \in Companions, AdoptFails(c) PROVE FALSE
    BY <1>5 DEF AdoptFails, Disturb
<1>6. ASSUME NEW l \in Loads, Loaded(l) PROVE Complete'
    BY <1>1, <1>6, LoadedKeeps DEF Loaded, history
<1>7. CASE GetChats \/ Answered
    BY <1>1, <1>7, GetChatsKeeps, AnsweredKeeps DEF GetChats, Answered, history
<1>8. ASSUME NEW c \in Companions, Incoming(c) \/ NewMessage(c) PROVE Complete'
    BY <1>1, <1>8, IncomingKeeps, NewMessageKeeps DEF Incoming, NewMessage, history
<1>9. CASE \/ BackToChats \/ NewChatFails
           \/ \E c \in Companions :
                 \/ SelectChat(c) \/ StartNewChat(c) \/ FindChat(c) \/ AddNewChat(c)
                 \/ Updated(c) \/ UpdateFails(c) \/ Refresh(c)
    <2>1. disturbed = {}
        BY <1>9 DEF BackToChats, NewChatFails, SelectChat, StartNewChat, FindChat,
                    AddNewChat, Updated, UpdateFails, Refresh, Disturb, history
    <2>. QED
        BY <1>1, <1>9, <2>1, UserStepsKeep
<1>10. CASE UNCHANGED vars
    BY <1>1, <1>10, OthersKeep DEF vars, wire, Shown
<1>. QED
    BY <1>2, <1>3, <1>4, <1>5, <1>6, <1>7, <1>8, <1>9, <1>10 DEF Next

-----------------------------------------------------------------------------
(* The theorems.                                                           *)

LEMMA InitInv ==
    ASSUME Init
    PROVE  IInv
<1>1. TypeOK
    <2>1. 1 \in Loads /\ NoLoad \in Load
        BY LoadsAssumption DEF Loads, NoLoad, Load
    <2>2. [NoLoad EXCEPT !.step = "waiting"] \in Load
        BY DEF NoLoad, Load
    <2>3. load \in [Loads -> Load]
        BY <2>1, <2>2 DEF Init
    <2>4. /\ answers \in Seq(SUBSET Companions)
          /\ newChat \in [companion: Companions \cup {None}, chats: SUBSET Chat]
        BY DEF Init, NoNewChat
    <2>. QED
        BY <2>1, <2>3, <2>4 DEF Init, TypeOK
<1>2. DistinctInv /\ CountedInv
    BY DEF Init, DistinctInv, Distinct, ChatIsNew, CountedInv, NoNewChat
<1>3. OneLoad /\ ReadInv /\ RowsInv
    BY LoadsAssumption DEF Init, OneLoad, ReadInv, RowsInv, Idle, Listed, Loads, NoLoad,
                           ChatIsComing, WillBeShown
<1>. QED
    BY <1>1, <1>2, <1>3 DEF IInv, CompleteInv

LEMMA Inductive == Spec => []IInv
<1>1. IInv /\ [Next]_vars => IInv'
    BY NextTyped, NextDistinct, NextCounted, NextComplete DEF IInv
<1>. QED
    BY InitInv, <1>1, PTL DEF Spec

\* Every variable of ChatList keeps its type, for any companions and bounds.
THEOREM TypeCorrect == Spec => []TypeOK
<1>1. IInv => TypeOK
    BY DEF IInv
<1>. QED
    BY Inductive, <1>1, PTL

\* The list of ChatsPage has no companion twice, whichever loads, adoptions and
\* calls of handleNewChat overlap.
THEOREM Distinctness == Spec => []ChatsAreDistinct
<1>1. IInv => ChatsAreDistinct
    BY DEF IInv, DistinctInv, Distinct, ChatsAreDistinct
<1>. QED
    BY Inductive, <1>1, PTL

\* No chat shows more unread messages than came, however many handlers the
\* effect of ChatsPage leaves subscribed, unless a new chat brought back an
\* older list.
THEOREM UnreadBacked == Spec => []UnreadIsBacked
<1>1. IInv => UnreadIsBacked
    BY CountersTyped DEF IInv, CountedInv, UnreadIsBacked
<1>. QED
    BY Inductive, <1>1, PTL

\* When everything has ended and nothing overlapped or failed, the list of
\* ChatsPage has every chat of the server.
THEOREM ListComplete == Spec => []ListIsComplete
<1>1. ASSUME IInv PROVE ListIsComplete
    <2>. SUFFICES ASSUME Quiet, disturbed = {}, NEW c \in rows PROVE Shown(c)
        BY DEF ListIsComplete, Shown
    <2>1. TypeOK /\ RowsInv
        BY <1>1 DEF IInv, CompleteInv
    <2>2. c \in Companions /\ inbox[c] = 0
        BY <2>1 DEF TypeOK, Quiet
    <2>3. WillBeShown(c)
        BY <2>1, <2>2 DEF RowsInv, ChatIsComing, Quiet
    <2>. QED
        BY <2>3 DEF WillBeShown, Quiet, AllIdle, Idle, NoLoad
<1>. QED
    BY Inductive, <1>1, PTL
=============================================================================
