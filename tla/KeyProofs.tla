----------------------------- MODULE KeyProofs ------------------------------
(***************************************************************************)
(* Proofs about the keys of the browsers: KeyAgreement (types, and that    *)
(* messages stay readable) and KeyStorage (types, that the key in use is   *)
(* the one of the session, and that a key that is announced can be         *)
(* restored).                                                              *)
(***************************************************************************)
EXTENDS KeyAgreement, KeyStorage, TLAPS

-----------------------------------------------------------------------------
(* KeyAgreement.                                                           *)

\* The browser lags behind the server only between the two ends of a change.
VersionsInv ==
    \A u \in Users :
        public[u] = IF change[u].step \in {"update", "answer"}
                    THEN private[u] + 1 ELSE private[u]

\* A key on its way is the one both key pairs give now, and so is every key
\* stored meanwhile.
SavesAreCurrent ==
    \A u \in Users, o \in Origins : saving[u][o] # None =>
        /\ OnChats(u)
        /\ saving[u][o].key = public /\ saving[u][o].under = private[u]
        /\ \A v \in Users : encrypted[v] # None => encrypted[v].key = public

\* The rows hold one key; while one of them has none, it is the current one.
RowsAgree ==
    \A u, v \in Users : encrypted[u] # None =>
        /\ encrypted[u].under =
              IF change[u].step = "answer" THEN public[u] ELSE private[u]
        /\ encrypted[v] # None => encrypted[u].key = encrypted[v].key
        /\ encrypted[v] = None => encrypted[u].key = public

\* Messages are encrypted with it.
MessagesAgree ==
    \A m \in sent : encrypted[m.from] # None /\ encrypted[m.from].key = m.key

\* The list shows it, and a password change has collected it.
CopiesAgree ==
    \A u \in Users :
        /\ listed[u] \in Encrypted =>
              encrypted[u] # None /\ listed[u].key = encrypted[u].key
        /\ change[u].step \in {"write", "update"} =>
              change[u].collected =
                  IF encrypted[u] = None THEN None ELSE encrypted[u].key

Agreement == SavesAreCurrent /\ RowsAgree /\ MessagesAgree /\ CopiesAgree

IInv == TypeOK /\ VersionsInv /\ (~unsettled => Agreement)

-----------------------------------------------------------------------------
(* Types.                                                                  *)

LEMMA PeerIsOther ==
    ASSUME NEW u \in Users
    PROVE  Peer(u) \in Users /\ \A v \in Users : v = u \/ v = Peer(u)
BY UsersAssumption DEF Users, Peer

\* A derived key is an encrypted_key.
LEMMA DerivedTyped ==
    ASSUME TypeOK, NEW u \in Users
    PROVE  Derived(u) \in Encrypted
<1>1. private[u] \in Nat /\ public[Peer(u)] \in Nat
    BY PeerIsOther DEF TypeOK
<1>2. DeriveChatKey(u, private[u], public[Peer(u)]) \in ChatKey
    BY <1>1 DEF DeriveChatKey, ChatKey
<1>. QED
    BY <1>1, <1>2 DEF Derived, Encrypted

LEMMA DeriveTyped ==
    ASSUME TypeOK, NEW u \in Users, NEW o \in Origins, Derive(u, o)
    PROVE  /\ saving' \in [Users -> [Origins -> Encrypted \cup {None}]]
           /\ unsettled' \in BOOLEAN
<1>1. Derived(u) \in Encrypted
    BY DerivedTyped
<1>2. saving' = [saving EXCEPT ![u][o] = Derived(u)]
    BY DEF Derive
<1>3. saving' \in [Users -> [Origins -> Encrypted \cup {None}]]
    BY <1>1, <1>2 DEF TypeOK
<1>4. unsettled' \in BOOLEAN
    BY DEF Derive, TypeOK
<1>. QED
    BY <1>3, <1>4

LEMMA GotoTyped ==
    ASSUME TypeOK, NEW u \in Users, NEW from,
           NEW to \in {"idle", "write", "update", "answer"}, Goto(u, from, to)
    PROVE  change' \in [Users -> Change]
<1>. DEFINE c == [change[u] EXCEPT !.step = to]
<1>1. c \in Change
    BY DEF TypeOK, Change
<1>2. change' = [change EXCEPT ![u] = c]
    BY DEF Goto
<1>. QED
    BY <1>1, <1>2 DEF TypeOK

LEMMA InitTyped ==
    ASSUME Init
    PROVE  TypeOK
<1>1. change \in [Users -> Change] /\ unsettled \in BOOLEAN
    BY DEF Init, Change
<1>2. saving \in [Users -> [Origins -> Encrypted \cup {None}]]
    BY DEF Init
<1>3. public \in [Users -> Nat] /\ private \in [Users -> Nat]
    BY DEF Init
<1>. QED
    BY <1>1, <1>2, <1>3 DEF Init, TypeOK

LEMMA NextTyped ==
    ASSUME TypeOK, [Next]_vars
    PROVE  TypeOK'
<1>. USE DEF TypeOK, page, table, traffic
<1>1. ASSUME NEW u \in Users, LoadChats(u) PROVE TypeOK'
    <2>1. CASE Derive(u, "load") /\ UNCHANGED listed
        BY <1>1, <2>1, DeriveTyped DEF LoadChats, Origins
    <2>2. CASE listed' = [listed EXCEPT ![u] = encrypted[u]] /\ UNCHANGED <<saving, unsettled>>
        BY <1>1, <2>2 DEF LoadChats
    <2>. QED
        BY <1>1, <2>1, <2>2 DEF LoadChats
<1>2. ASSUME NEW u \in Users, HandleNewChat(u) PROVE TypeOK'
    BY <1>2, DeriveTyped DEF HandleNewChat, Origins
<1>3. ASSUME NEW u \in Users, NewMessage(u) PROVE TypeOK'
    <2>1. inbox' \in [Users -> Nat]
        BY <1>3 DEF NewMessage
    <2>2. CASE Derive(u, "event")
        BY <1>3, <2>1, <2>2, DeriveTyped DEF NewMessage, Origins
    <2>3. CASE UNCHANGED <<saving, unsettled>>
        BY <1>3, <2>1, <2>3 DEF NewMessage
    <2>. QED
        BY <1>3, <2>2, <2>3 DEF NewMessage
<1>4. ASSUME NEW u \in Users, NEW o \in Origins, SaveChatKeys(u, o) \/ SaveFails(u, o)
      PROVE  TypeOK'
    <2>1. saving[u][o] \in Encrypted
        BY <1>4 DEF SaveChatKeys, SaveFails
    <2>2. rows' \subseteq Users /\ encrypted' \in [Users -> Encrypted \cup {None}]
        BY <1>4, <2>1 DEF SaveChatKeys, SaveFails
    <2>3. listed' \in [Users -> Encrypted \cup {NoKey, None}]
        BY <1>4, <2>1 DEF SaveChatKeys, SaveFails
    <2>4. saving' \in [Users -> [Origins -> Encrypted \cup {None}]]
        <3>1. saving' = [saving EXCEPT ![u][o] = None]
            BY <1>4 DEF SaveChatKeys, SaveFails
        <3>. QED
            BY <3>1
    <2>. QED
        BY <1>4, <2>2, <2>3, <2>4 DEF SaveChatKeys, SaveFails
<1>5. ASSUME NEW u \in Users, Leave(u) PROVE TypeOK'
    BY <1>5 DEF Leave
<1>6. ASSUME NEW u \in Users, Send(u) PROVE TypeOK'
    <2>1. listed[u] \in Encrypted
        BY <1>6 DEF Send, Decrypts
    <2>2. [from |-> u, key |-> listed[u].key] \in Message
        BY <2>1 DEF Message, Encrypted
    <2>3. inbox' \in [Users -> Nat]
        BY <1>6, PeerIsOther DEF Send
    <2>. QED
        BY <1>6, <2>2, <2>3 DEF Send
<1>7. ASSUME NEW u \in Users, Collect(u) PROVE TypeOK'
    <2>1. (IF Decrypts(encrypted[u], private[u]) THEN encrypted[u].key ELSE None)
              \in ChatKey \cup {None}
        BY DEF Decrypts, Encrypted
    <2>2. change' \in [Users -> Change]
        <3>. DEFINE c == [step |-> "write",
                          collected |-> IF Decrypts(encrypted[u], private[u])
                                        THEN encrypted[u].key ELSE None]
        <3>1. c \in Change
            BY <2>1 DEF Change
        <3>2. change' = [change EXCEPT ![u] = c]
            BY <1>7 DEF Collect
        <3>. QED
            BY <3>1, <3>2
    <2>3. unsettled' \in BOOLEAN
        BY <1>7 DEF Collect, InFlight
    <2>. QED
        BY <1>7, <2>2, <2>3 DEF Collect
<1>8. ASSUME NEW u \in Users, WritePassword(u) PROVE TypeOK'
    <2>1. change' \in [Users -> Change]
        BY <1>8, GotoTyped DEF WritePassword
    <2>2. public' \in [Users -> Nat]
        BY <1>8 DEF WritePassword
    <2>3. unsettled' \in BOOLEAN
        BY <1>8 DEF WritePassword
    <2>. QED
        BY <1>8, <2>1, <2>2, <2>3 DEF WritePassword
<1>9. ASSUME NEW u \in Users, UpdateChatKeys(u) PROVE TypeOK'
    <2>1. change' \in [Users -> Change] /\ change[u].collected \in ChatKey \cup {None}
        BY <1>9, GotoTyped DEF UpdateChatKeys, Change
    <2>2. encrypted' \in [Users -> Encrypted \cup {None}]
        <3>1. CASE change[u].collected = None
            BY <1>9, <3>1 DEF UpdateChatKeys
        <3>2. CASE change[u].collected # None
            <4>1. [key |-> change[u].collected, under |-> public[u]] \in Encrypted
                BY <2>1, <3>2 DEF Encrypted
            <4>. QED
                BY <1>9, <3>2, <4>1 DEF UpdateChatKeys
        <3>. QED
            BY <3>1, <3>2
    <2>. QED
        BY <1>9, <2>1, <2>2 DEF UpdateChatKeys
<1>10. ASSUME NEW u \in Users, Answer(u) PROVE TypeOK'
    <2>1. change' \in [Users -> Change]
        BY <1>10, GotoTyped DEF Answer
    <2>. QED
        BY <1>10, <2>1 DEF Answer
<1>11. CASE UNCHANGED vars
    BY <1>11 DEF vars
<1>. QED
    BY <1>1, <1>2, <1>3, <1>4, <1>5, <1>6, <1>7, <1>8, <1>9, <1>10, <1>11 DEF Next

\* Every variable keeps its type, whatever the number of password changes.
THEOREM TypeCorrect == Spec => []TypeOK
<1>1. Init => TypeOK
    BY InitTyped
<1>2. TypeOK /\ [Next]_vars => TypeOK'
    BY NextTyped
<1>. QED
    BY <1>1, <1>2, PTL DEF Spec

-----------------------------------------------------------------------------
(* Agreement.                                                              *)

\* While the chats are on the screen the browser derives the current key.
LEMMA DerivedIsCurrent ==
    ASSUME TypeOK, VersionsInv, NEW u \in Users, OnChats(u)
    PROVE  Derived(u).key = public /\ Derived(u).under = private[u]
<1>1. private[u] = public[u]
    BY DEF VersionsInv, OnChats
<1>2. public = [v \in Users |-> IF v = u THEN private[u] ELSE public[Peer(u)]]
    BY <1>1, PeerIsOther DEF TypeOK
<1>. QED
    BY <1>2 DEF Derived, DeriveChatKey

\* A derivation that leaves the chat settled saves the key all rows hold.
LEMMA DeriveAgrees ==
    ASSUME TypeOK, VersionsInv, SavesAreCurrent, RowsAgree,
           NEW u \in Users, NEW o \in Origins, Derive(u, o), ~unsettled',
           UNCHANGED <<public, private, encrypted, change>>
    PROVE  SavesAreCurrent'
<1>1. Derived(u).key = public /\ Derived(u).under = private[u] /\ OnChats(u)
    BY DerivedIsCurrent DEF Derive
<1>2. saving' = [saving EXCEPT ![u][o] = Derived(u)]
    BY DEF Derive
<1>3. encrypted[u] # None => encrypted[u].key = public
    BY <1>1 DEF Derive
<1>4. ASSUME NEW v \in Users, encrypted[v] # None PROVE encrypted[v].key = public
    BY <1>3, <1>4 DEF RowsAgree
<1>5. ASSUME NEW w \in Users, NEW p \in Origins, saving'[w][p] # None
      PROVE  OnChats(w) /\ saving'[w][p].key = public /\ saving'[w][p].under = private[w]
    <2>1. CASE w = u /\ p = o
        BY <1>1, <1>2, <2>1 DEF TypeOK
    <2>2. CASE ~(w = u /\ p = o)
        <3>1. saving'[w][p] = saving[w][p]
            BY <1>2, <2>2 DEF TypeOK
        <3>. QED
            BY <1>5, <3>1 DEF SavesAreCurrent
    <2>. QED
        BY <2>1, <2>2
<1>. QED
    BY <1>4, <1>5 DEF SavesAreCurrent, OnChats

LEMMA InitInv ==
    ASSUME Init
    PROVE  IInv
<1>1. TypeOK
    BY InitTyped
<1>2. \A u \in Users : change[u].step = "idle" /\ encrypted[u] = None /\ listed[u] = None
                        /\ public[u] = private[u]
    BY DEF Init
<1>3. VersionsInv
    BY <1>2 DEF VersionsInv
<1>4. SavesAreCurrent
    BY DEF Init, SavesAreCurrent
<1>5. RowsAgree /\ MessagesAgree
    BY <1>2 DEF Init, RowsAgree, MessagesAgree
<1>6. CopiesAgree
    BY <1>2, SentinelAssumption DEF CopiesAgree
<1>. QED
    BY <1>1, <1>3, <1>4, <1>5, <1>6 DEF IInv, Agreement

LEMMA NextVersions ==
    ASSUME TypeOK, VersionsInv, [Next]_vars
    PROVE  VersionsInv'
<1>1. CASE UNCHANGED <<public, private, change>>
    BY <1>1 DEF VersionsInv
<1>2. ASSUME NEW u \in Users, Collect(u) PROVE VersionsInv'
    BY <1>2 DEF Collect, OnChats, VersionsInv, TypeOK, Change
<1>3. ASSUME NEW u \in Users, WritePassword(u) PROVE VersionsInv'
    <2>1. CASE Goto(u, "write", "idle") /\ UNCHANGED <<public, unsettled>>
        BY <1>3, <2>1 DEF WritePassword, Goto, VersionsInv, TypeOK, Change
    <2>2. CASE Goto(u, "write", "update") /\ public' = [public EXCEPT ![u] = @ + 1]
        BY <1>3, <2>2 DEF WritePassword, Goto, VersionsInv, TypeOK, Change
    <2>. QED
        BY <1>3, <2>1, <2>2 DEF WritePassword
<1>4. ASSUME NEW u \in Users, UpdateChatKeys(u) PROVE VersionsInv'
    BY <1>4 DEF UpdateChatKeys, Goto, VersionsInv, TypeOK, Change
<1>5. ASSUME NEW u \in Users, Answer(u) PROVE VersionsInv'
    BY <1>5 DEF Answer, Goto, VersionsInv, TypeOK, Change
<1>. QED
    BY <1>1, <1>2, <1>3, <1>4, <1>5 DEF Next, vars, LoadChats, HandleNewChat, NewMessage,
       SaveChatKeys, SaveFails, Leave, Send

\* What is not concerned by a step that changes neither keys nor key pairs.
LEMMA KeysUnchanged ==
    ASSUME UNCHANGED <<public, private, encrypted, change>>
    PROVE  /\ RowsAgree => RowsAgree'
           /\ MessagesAgree /\ UNCHANGED sent => MessagesAgree'
           /\ CopiesAgree /\ UNCHANGED listed => CopiesAgree'
           /\ SavesAreCurrent /\ UNCHANGED saving => SavesAreCurrent'
<1>1. RowsAgree => RowsAgree'
    BY DEF RowsAgree
<1>2. MessagesAgree /\ UNCHANGED sent => MessagesAgree'
    BY DEF MessagesAgree
<1>3. CopiesAgree /\ UNCHANGED listed => CopiesAgree'
    BY DEF CopiesAgree
<1>4. SavesAreCurrent /\ UNCHANGED saving => SavesAreCurrent'
    BY DEF SavesAreCurrent, OnChats
<1>. QED
    BY <1>1, <1>2, <1>3, <1>4

\* A save that reaches the row writes the key both rows hold already, or the
\* current one.
LEMMA SaveAgrees ==
    ASSUME TypeOK, Agreement, NEW u \in Users, NEW o \in Origins,
           saving[u][o] # None,
           encrypted' = [encrypted EXCEPT ![u] = saving[u][o]],
           saving' = [saving EXCEPT ![u][o] = None],
           listed' \in {listed, [listed EXCEPT ![u] = saving[u][o]],
                        [listed EXCEPT ![u] = NoKey]},
           UNCHANGED <<public, private, change, sent>>
    PROVE  Agreement'
<1>. USE DEF Agreement
<1>1. /\ OnChats(u) /\ saving[u][o].key = public /\ saving[u][o].under = private[u]
      /\ saving[u][o] \in Encrypted
      /\ \A v \in Users : encrypted[v] # None => encrypted[v].key = public
    BY DEF SavesAreCurrent, TypeOK
<1>2. \A v \in Users : encrypted'[v] = IF v = u THEN saving[u][o] ELSE encrypted[v]
    BY DEF TypeOK
<1>3. \A v \in Users : encrypted'[v] # None => encrypted'[v].key = public
    BY <1>1, <1>2
<1>4. SavesAreCurrent'
    <2>1. ASSUME NEW w \in Users, NEW p \in Origins, saving'[w][p] # None
          PROVE  saving'[w][p] = saving[w][p]
        BY <2>1 DEF TypeOK
    <2>. QED
        BY <1>3, <2>1 DEF SavesAreCurrent, OnChats
<1>5. RowsAgree'
    BY <1>1, <1>2, <1>3 DEF RowsAgree, OnChats
<1>6. MessagesAgree'
    <2>1. ASSUME NEW m \in sent PROVE encrypted'[m.from] # None /\ encrypted'[m.from].key = m.key
        <3>1. m.from \in Users
            BY DEF TypeOK, Message
        <3>2. encrypted[m.from] # None /\ encrypted[m.from].key = m.key
            BY DEF MessagesAgree
        <3>. QED
            BY <1>1, <1>2, <1>3, <3>1, <3>2, SentinelAssumption
    <2>. QED
        BY <2>1 DEF MessagesAgree
<1>7. CopiesAgree'
    <2>1. ASSUME NEW v \in Users, listed'[v] \in Encrypted
          PROVE  encrypted'[v] # None /\ listed'[v].key = encrypted'[v].key
        <3>1. CASE listed'[v] = listed[v]
            <4>1. encrypted[v] # None /\ listed[v].key = encrypted[v].key
                BY <2>1, <3>1 DEF CopiesAgree
            <4>. QED
                BY <1>1, <1>2, <3>1, <4>1, SentinelAssumption
        <3>2. CASE listed'[v] # listed[v]
            <4>1. v = u /\ listed'[u] = saving[u][o]
                BY <2>1, <3>2, SentinelAssumption DEF TypeOK
            <4>. QED
                BY <1>1, <1>2, <4>1, SentinelAssumption
        <3>. QED
            BY <3>1, <3>2
    <2>2. ASSUME NEW v \in Users, change[v].step \in {"write", "update"}
          PROVE  change[v].collected = IF encrypted'[v] = None THEN None ELSE encrypted'[v].key
        BY <1>1, <1>2, <2>2 DEF CopiesAgree, OnChats
    <2>. QED
        BY <2>1, <2>2 DEF CopiesAgree
<1>. QED
    BY <1>4, <1>5, <1>6, <1>7

LEMMA NextAgreement ==
    ASSUME IInv, [Next]_vars, ~unsettled'
    PROVE  Agreement'
<1>1. TypeOK /\ VersionsInv /\ VersionsInv'
    BY NextVersions DEF IInv
<1>2. ~unsettled /\ Agreement
    BY DEF IInv, TypeOK, Next, vars, LoadChats, HandleNewChat, NewMessage, Derive, SaveChatKeys,
           SaveFails, Leave, Send, Collect, WritePassword, UpdateChatKeys, Answer
<1>3. ASSUME NEW u \in Users, LoadChats(u) PROVE Agreement'
    <2>. USE <1>3 DEF LoadChats, table, traffic
    <2>1. RowsAgree' /\ MessagesAgree'
        BY <1>2, KeysUnchanged DEF Agreement
    <2>2. CASE Derive(u, "load") /\ UNCHANGED listed
        BY <1>1, <1>2, <2>1, <2>2, DeriveAgrees, KeysUnchanged DEF Agreement, Origins
    <2>3. CASE listed' = [listed EXCEPT ![u] = encrypted[u]] /\ UNCHANGED <<saving, unsettled>>
        <3>1. CopiesAgree'
            BY <1>1, <1>2, <2>3, SentinelAssumption DEF Agreement, CopiesAgree, TypeOK
        <3>. QED
            BY <1>2, <2>1, <2>3, <3>1, KeysUnchanged DEF Agreement
    <2>. QED
        BY <2>2, <2>3
<1>4. ASSUME NEW u \in Users, HandleNewChat(u) PROVE Agreement'
    BY <1>1, <1>2, <1>4, DeriveAgrees, KeysUnchanged
       DEF HandleNewChat, Agreement, Origins, table, traffic
<1>5. ASSUME NEW u \in Users, NewMessage(u) PROVE Agreement'
    <2>1. CASE Derive(u, "event")
        BY <1>1, <1>2, <1>5, <2>1, DeriveAgrees, KeysUnchanged
           DEF NewMessage, Agreement, Origins, table
    <2>2. CASE UNCHANGED <<saving, unsettled>>
        BY <1>2, <1>5, <2>2, KeysUnchanged DEF NewMessage, Agreement, table
    <2>. QED
        BY <1>5, <2>1, <2>2 DEF NewMessage
<1>6. ASSUME NEW u \in Users, NEW o \in Origins, SaveChatKeys(u, o) PROVE Agreement'
    BY <1>1, <1>2, <1>6, SaveAgrees DEF SaveChatKeys, traffic
<1>7. ASSUME NEW u \in Users, NEW o \in Origins, SaveFails(u, o) PROVE Agreement'
    <2>1. listed' \in {listed, [listed EXCEPT ![u] = NoKey]}
        BY <1>7 DEF SaveFails
    <2>2. CASE encrypted' = [encrypted EXCEPT ![u] = saving[u][o]]
        BY <1>1, <1>2, <1>7, <2>1, <2>2, SaveAgrees DEF SaveFails, traffic
    <2>3. CASE UNCHANGED table
        <3>1. RowsAgree' /\ MessagesAgree'
            BY <1>2, <1>7, <2>3, KeysUnchanged DEF SaveFails, Agreement, table, traffic
        <3>2. \A w \in Users, p \in Origins : saving'[w][p] # None => saving'[w][p] = saving[w][p]
            BY <1>1, <1>7 DEF SaveFails, TypeOK
        <3>3. SavesAreCurrent'
            BY <1>2, <1>7, <2>3, <3>2 DEF SaveFails, Agreement, SavesAreCurrent, table, OnChats
        <3>4. CopiesAgree'
            BY <1>1, <1>2, <1>7, <2>1, <2>3, SentinelAssumption
               DEF SaveFails, Agreement, CopiesAgree, table, TypeOK
        <3>. QED
            BY <3>1, <3>3, <3>4 DEF Agreement
    <2>. QED
        BY <1>7, <2>2, <2>3 DEF SaveFails
<1>8. ASSUME NEW u \in Users, Leave(u) PROVE Agreement'
    <2>. USE <1>8 DEF Leave, table, traffic
    <2>1. RowsAgree' /\ MessagesAgree'
        BY <1>2, KeysUnchanged DEF Agreement
    <2>2. \A w \in Users, p \in Origins : saving'[w][p] # None => saving'[w][p] = saving[w][p]
        BY <1>1 DEF TypeOK
    <2>3. SavesAreCurrent'
        BY <1>2, <2>2 DEF Agreement, SavesAreCurrent, OnChats
    <2>4. CopiesAgree'
        BY <1>1, <1>2, SentinelAssumption DEF Agreement, CopiesAgree, TypeOK
    <2>. QED
        BY <2>1, <2>3, <2>4 DEF Agreement
<1>9. ASSUME NEW u \in Users, Send(u) PROVE Agreement'
    <2>1. encrypted[u] # None /\ listed[u].key = encrypted[u].key
        BY <1>2, <1>9 DEF Send, Decrypts, Agreement, CopiesAgree
    <2>2. MessagesAgree'
        BY <1>2, <1>9, <2>1 DEF Send, Agreement, MessagesAgree
    <2>. QED
        BY <1>2, <1>9, <2>2, KeysUnchanged DEF Send, Agreement, page
<1>10. ASSUME NEW u \in Users, Collect(u) PROVE Agreement'
    <2>. USE <1>10 DEF Collect, table, traffic
    <2>1. \A o \in Origins : saving[u][o] = None
        BY DEF InFlight
    <2>2. \A v \in Users : v # u => change'[v] = change[v]
        BY <1>1 DEF TypeOK
    <2>3. change'[u].step = "write"
          /\ change'[u].collected = IF Decrypts(encrypted[u], private[u])
                                    THEN encrypted[u].key ELSE None
        BY <1>1 DEF TypeOK
    <2>4. SavesAreCurrent'
        BY <1>2, <2>1, <2>2 DEF Agreement, SavesAreCurrent, OnChats
    <2>5. RowsAgree'
        BY <1>2, <2>2, <2>3 DEF Agreement, RowsAgree, OnChats
    <2>6. encrypted[u] # None => Decrypts(encrypted[u], private[u])
        BY <1>1, <1>2 DEF Agreement, RowsAgree, OnChats, Decrypts, TypeOK
    <2>7. encrypted[u] = None => ~Decrypts(encrypted[u], private[u])
        BY SentinelAssumption DEF Decrypts
    <2>8. \A v \in Users : listed'[v] \in Encrypted => v # u /\ listed'[v] = listed[v]
        BY <1>1, SentinelAssumption DEF TypeOK
    <2>9. CopiesAgree'
        BY <1>2, <2>2, <2>3, <2>6, <2>7, <2>8 DEF Agreement, CopiesAgree
    <2>10. MessagesAgree'
        BY <1>2 DEF Agreement, MessagesAgree
    <2>. QED
        BY <2>4, <2>5, <2>9, <2>10 DEF Agreement
<1>11. ASSUME NEW u \in Users, WritePassword(u) PROVE Agreement'
    <2>. USE <1>11 DEF WritePassword, table, traffic, page
    <2>1. MessagesAgree'
        BY <1>2 DEF Agreement, MessagesAgree
    <2>2. \A v \in Users : v # u => change'[v] = change[v]
        BY <1>1 DEF TypeOK, Goto
    <2>3. change[u].step = "write" /\ change'[u].collected = change[u].collected
          /\ change'[u].step \in {"idle", "update"}
        BY <1>1 DEF TypeOK, Goto, Change
    <2>4. CopiesAgree'
        BY <1>2, <2>2, <2>3 DEF Agreement, CopiesAgree
    <2>5. CASE UNCHANGED public
        <3>1. SavesAreCurrent'
            BY <1>2, <2>2, <2>3, <2>5 DEF Agreement, SavesAreCurrent, OnChats
        <3>2. RowsAgree'
            BY <1>2, <2>2, <2>3, <2>5 DEF Agreement, RowsAgree
        <3>. QED
            BY <2>1, <2>4, <3>1, <3>2 DEF Agreement
    <2>6. CASE Settled
        <3>1. SavesAreCurrent'
            BY <2>6 DEF Settled, InFlight, SavesAreCurrent
        <3>2. \A v \in Users : v # u => public'[v] = public[v]
            BY <1>1 DEF TypeOK
        <3>3. RowsAgree'
            BY <1>2, <2>2, <2>3, <2>6, <3>2 DEF Settled, Agreement, RowsAgree
        <3>. QED
            BY <2>1, <2>4, <3>1, <3>3 DEF Agreement
    <2>. QED
        BY <2>5, <2>6
<1>12. ASSUME NEW u \in Users, UpdateChatKeys(u) PROVE Agreement'
    <2>. USE <1>12 DEF UpdateChatKeys, page, traffic
    <2>1. \A v \in Users : v # u => change'[v] = change[v] /\ encrypted'[v] = encrypted[v]
        BY <1>1 DEF TypeOK, Goto
    <2>2. change[u].step = "update" /\ change'[u].step = "answer"
        BY <1>1 DEF TypeOK, Goto, Change
    <2>3. change[u].collected = IF encrypted[u] = None THEN None ELSE encrypted[u].key
        BY <1>2, <2>2 DEF Agreement, CopiesAgree
    <2>4. encrypted[u] # None => encrypted[u].key # None
        BY <1>1, SentinelAssumption DEF TypeOK, Encrypted
    <2>5. /\ encrypted[u] = None => encrypted'[u] = None
          /\ encrypted[u] # None => /\ encrypted'[u] # None
                                    /\ encrypted'[u].key = encrypted[u].key
                                    /\ encrypted'[u].under = public[u]
        <3>1. CASE encrypted[u] = None
            BY <2>3, <3>1
        <3>2. CASE encrypted[u] # None
            <4>. DEFINE e == [key |-> change[u].collected, under |-> public[u]]
            <4>1. encrypted' = [encrypted EXCEPT ![u] = e] /\ e.key = encrypted[u].key
                BY <2>3, <2>4, <3>2
            <4>2. e \in Encrypted
                BY <1>1, <2>3, <3>2 DEF TypeOK, Encrypted
            <4>3. encrypted'[u] = e
                BY <1>1, <4>1 DEF TypeOK
            <4>. QED
                BY <3>2, <4>1, <4>2, <4>3, SentinelAssumption
        <3>. QED
            BY <3>1, <3>2
    <2>6. SavesAreCurrent'
        BY <1>2, <2>1, <2>2, <2>5 DEF Agreement, SavesAreCurrent, OnChats
    <2>7. RowsAgree'
        BY <1>2, <2>1, <2>2, <2>5 DEF Agreement, RowsAgree
    <2>8. MessagesAgree'
        <3>1. \A m \in sent : m.from \in Users
            BY <1>1 DEF TypeOK, Message
        <3>. QED
            BY <1>2, <2>1, <2>5, <3>1 DEF Agreement, MessagesAgree
    <2>9. CopiesAgree'
        BY <1>2, <2>1, <2>2, <2>5 DEF Agreement, CopiesAgree
    <2>. QED
        BY <2>6, <2>7, <2>8, <2>9 DEF Agreement
<1>13. ASSUME NEW u \in Users, Answer(u) PROVE Agreement'
    <2>. USE <1>13 DEF Answer, page, traffic, table
    <2>1. \A v \in Users : v # u => change'[v] = change[v] /\ private'[v] = private[v]
        BY <1>1 DEF TypeOK, Goto
    <2>2. change[u].step = "answer" /\ change'[u].step = "idle" /\ private'[u] = public[u]
        BY <1>1 DEF TypeOK, Goto, Change
    <2>3. SavesAreCurrent'
        BY <1>2, <2>1, <2>2 DEF Agreement, SavesAreCurrent, OnChats
    <2>4. RowsAgree'
        BY <1>2, <2>1, <2>2 DEF Agreement, RowsAgree
    <2>5. MessagesAgree'
        BY <1>2 DEF Agreement, MessagesAgree
    <2>6. CopiesAgree'
        BY <1>2, <2>1, <2>2 DEF Agreement, CopiesAgree
    <2>. QED
        BY <2>3, <2>4, <2>5, <2>6 DEF Agreement
<1>14. CASE UNCHANGED vars
    BY <1>2, <1>14, KeysUnchanged DEF vars, Agreement
<1>. QED
    BY <1>3, <1>4, <1>5, <1>6, <1>7, <1>8, <1>9, <1>10, <1>11, <1>12, <1>13, <1>14 DEF Next

\* Messages stay readable for both users, whatever the number of password
\* changes and of messages, and whoever derives and saves keys meanwhile.
THEOREM StayReadable == Spec => []MessagesStayReadable
<1>1. Init => IInv
    BY InitInv
<1>2. IInv /\ [Next]_vars => IInv'
    BY NextTyped, NextVersions, NextAgreement DEF IInv
<1>3. IInv => MessagesStayReadable
    <2>1. ASSUME IInv, ~unsettled, NEW m \in sent, NEW u \in Users, encrypted[u] # None
          PROVE  encrypted[u].key = m.key /\ (OnChats(u) => encrypted[u].under = private[u])
        <3>1. m.from \in Users
            BY <2>1 DEF IInv, TypeOK, Message
        <3>2. encrypted[m.from] # None /\ encrypted[m.from].key = m.key
            BY <2>1 DEF IInv, Agreement, MessagesAgree
        <3>. QED
            BY <2>1, <3>1, <3>2 DEF IInv, Agreement, RowsAgree, OnChats
    <2>. QED
        BY <2>1 DEF MessagesStayReadable
<1>. QED
    BY <1>1, <1>2, <1>3, PTL DEF Spec

-----------------------------------------------------------------------------
(* KeyStorage.                                                             *)

Saving(t) == form[t].step \in {"put", "mark"}

\* A password change from the write of the new password to the clearing of the
\* old keys ...
Replaces(t) == form[t].does = "change" /\ form[t].step \in {"written", "forget", "erase"}

\* ... of the user who is logged in: his keys are the old ones.
Replacing == \E t \in Tasks : Replaces(t) /\ form[t].key.user = session

\* The key in the browser, be it readable or not.
Kept ==
    CASE storage_type = "persistent" -> IF idb # Nothing THEN idb ELSE private_key
      [] storage_type = "session"    -> private_key
      [] OTHER                       -> Nothing

\* The key is the one of the user who is logged in, if any.
Fits(k) == k # Nothing /\ session # Nothing => k = KeyOf(session)

\* The steps each task goes through.
TaskInv(t) ==
    /\ form[t].does = "none" => form[t] = Idle
    /\ form[t].step = "login" => form[t].does = "login"
    /\ form[t].step = "register" => form[t].does = "register"
    /\ form[t].step = "waiting" => form[t].does = "connect"
    /\ form[t].step \in ChangeSteps => form[t].does = "change"
    /\ Saving(t) => form[t].does \in {"login", "register", "change"}
    /\ Saving(t) \/ Replaces(t) \/ form[t].step = "answer" => form[t].key # Nothing
    /\ form[t].does = "change" => form[t].step # "revoke"

FormInv == \A t \in Tasks : TaskInv(t)

\* Who is logged in has registered.
SessionInv == session # Nothing => password[session] # Nothing

\* One task at a time saves a key: the tab has it, and nothing else is read.
SavingInv ==
    /\ \A t, o \in Tasks : Saving(t) /\ Saving(o) => t = o
    /\ \A t \in Tasks : Saving(t) =>
          /\ cached = form[t].key /\ reading = Nothing
          /\ form[t].step = "mark" => idb = form[t].key

\* The key of the tab and the key kept are those of the session, but while they
\* are replaced.
OwnerInv ==
    ~Replacing =>
        /\ Fits(cached) /\ Fits(reading)
        /\ (\A t \in Tasks : ~Saving(t)) => Fits(Kept)

\* There is a key where storage_type says.
StoredInv == storage_type # Nothing => Kept # Nothing

Clean == SavingInv /\ OwnerInv /\ StoredInv

StorageInv == StorageTypeOK /\ FormInv /\ SessionInv /\ (~lapsed => Clean)

-----------------------------------------------------------------------------
(* Types.                                                                  *)

LEMMA IdleTyped == Idle \in Form
BY DEF Idle, Form, Forms, Steps

LEMMA StorageInitTyped ==
    ASSUME StorageInit
    PROVE  StorageTypeOK
BY IdleTyped DEF StorageInit, StorageTypeOK

LEMMA KeyOfTyped ==
    ASSUME StorageTypeOK, NEW u \in Accounts, password[u] # Nothing
    PROVE  KeyOf(u) \in Key
BY DEF StorageTypeOK, KeyOf, Key

\* What a task is after each kind of step.
LEMMA GoOnTyped ==
    ASSUME form \in [Tasks -> Form], NEW t \in Tasks, NEW step \in Steps, GoOn(t, step)
    PROVE  /\ form' \in [Tasks -> Form]
           /\ form'[t].does = form[t].does /\ form'[t].step = step
           /\ form'[t].key = form[t].key /\ form'[t].old = form[t].old
           /\ \A o \in Tasks \ {t} : form'[o] = form[o]
<1>1. form[t] \in Form
    OBVIOUS
<1>2. [form[t] EXCEPT !.step = step] \in Form
    BY <1>1 DEF Form
<1>. QED
    BY <1>1, <1>2 DEF GoOn, Form

LEMMA FinishTyped ==
    ASSUME form \in [Tasks -> Form], NEW t \in Tasks, Finish(t)
    PROVE  /\ form' \in [Tasks -> Form]
           /\ form'[t] = Idle
           /\ \A o \in Tasks \ {t} : form'[o] = form[o]
BY IdleTyped DEF Finish

LEMMA SubmitTyped ==
    ASSUME form \in [Tasks -> Form], NEW t \in Tasks, NEW does \in Forms, NEW step \in Steps,
           Submit(t, does, step)
    PROVE  /\ form' \in [Tasks -> Form]
           /\ form'[t].does = does /\ form'[t].step = step
           /\ \A o \in Tasks \ {t} : form'[o] = form[o]
<1>1. [Idle EXCEPT !.does = does, !.step = step] \in Form
    BY IdleTyped DEF Form
<1>. QED
    BY <1>1 DEF Submit, Idle

\* A key is saved at once, or put into IndexedDB first.
LEMMA SaveKeyTyped ==
    ASSUME StorageTypeOK, NEW t \in Tasks, NEW k \in Key, NEW remember \in BOOLEAN,
           SaveKey(t, k, remember)
    PROVE  /\ form' \in [Tasks -> Form] /\ cached' = k
           /\ idb' = idb /\ readable' = readable
           /\ private_key' \in Key \cup {Nothing}
           /\ storage_type' \in {"persistent", "session", Nothing}
           /\ user_login' \in Accounts \cup {Nothing}
           /\ \/ /\ form'[t].step = "put" /\ form'[t].does = form[t].does
                 /\ form'[t].key = k
                 /\ UNCHANGED storage
              \/ /\ form'[t] = Idle
                 /\ private_key' = k /\ storage_type' = "session"
           /\ \A o \in Tasks \ {t} : form'[o] = form[o]
<1>1. form[t] \in Form /\ k.user \in Accounts
    BY DEF StorageTypeOK, Key
<1>2. CASE remember
    <2>1. [form[t] EXCEPT !.step = "put", !.key = k] \in Form
        BY <1>1 DEF Form, Steps
    <2>. QED
        BY <1>1, <1>2, <2>1 DEF SaveKey, StorageTypeOK, storage, Form
<1>3. CASE ~remember
    BY <1>1, <1>3, FinishTyped DEF SaveKey, SetLogin, StorageTypeOK
<1>. QED
    BY <1>2, <1>3

\* A change that is sent is one of the user of user_login.
LEMMA SendChangeTyped ==
    ASSUME StorageTypeOK, NEW t \in Tasks, SendChange(t)
    PROVE  /\ form' \in [Tasks -> Form]
           /\ form'[t].step = "answer" /\ form'[t].does = form[t].does
           /\ form'[t].key \in Key
           /\ \A o \in Tasks \ {t} : form'[o] = form[o]
<1>1. user_login \in Accounts /\ password[user_login] \in Passwords \cup {Nothing}
    BY DEF SendChange, StorageTypeOK
<1>2. PICK new \in Passwords :
          form' = [form EXCEPT ![t].step = "answer", ![t].old = password[user_login],
                               ![t].key = [user |-> user_login, password |-> new]]
    BY DEF SendChange
<1>3. [user |-> user_login, password |-> new] \in Key /\ form[t] \in Form
    BY <1>1 DEF Key, StorageTypeOK
<1>4. [form[t] EXCEPT !.step = "answer", !.old = password[user_login],
                      !.key = [user |-> user_login, password |-> new]] \in Form
    BY <1>1, <1>3 DEF Form, Steps, ChangeSteps
<1>. QED
    BY <1>2, <1>3, <1>4 DEF StorageTypeOK, Form

LEMMA StorageNextTyped ==
    ASSUME StorageTypeOK, FormInv, SessionInv, [StorageNext]_storage_vars
    PROVE  StorageTypeOK'
<1>. USE DEF StorageTypeOK, server, storage, Lapse, OtherSaves
<1>1. form \in [Tasks -> Form]
    OBVIOUS
<1>2. LogoutSteps \subseteq Steps /\ ChangeSteps \subseteq Steps
    BY DEF Steps
<1>3. ASSUME NEW t \in Tasks, Put(t) \/ Mark(t) \/ PutFails(t) PROVE StorageTypeOK'
    <2>1. form[t].key \in Key /\ form[t].key.user \in Accounts
        BY <1>3 DEF Put, Mark, PutFails, At, FormInv, TaskInv, Saving, Form, Key
    <2>2. CASE Put(t)
        BY <1>1, <1>2, <2>1, <2>2, GoOnTyped DEF Put, Steps
    <2>3. CASE Mark(t)
        BY <1>1, <2>1, <2>3, FinishTyped DEF Mark, SetLogin
    <2>4. CASE PutFails(t)
        BY <1>1, <2>1, <2>4, FinishTyped DEF PutFails, SetLogin
    <2>. QED
        BY <1>3, <2>2, <2>3, <2>4
<1>4. ASSUME NEW t \in Tasks, Revoke(t) PROVE StorageTypeOK'
    BY <1>1, <1>4, GoOnTyped DEF Revoke, Steps, LogoutSteps
<1>5. ASSUME NEW t \in Tasks, Forget(t) PROVE StorageTypeOK'
    BY <1>1, <1>5, GoOnTyped DEF Forget, Steps, LogoutSteps
<1>6. ASSUME NEW t \in Tasks, Erase(t) PROVE StorageTypeOK'
    <2>1. form' \in [Tasks -> Form] /\ cached' \in Key \cup {Nothing}
        <3>1. CASE form[t].does = "change"
            BY <1>1, <1>6, <3>1, GoOnTyped DEF Erase, Steps, Form
        <3>2. CASE form[t].does # "change"
            BY <1>1, <1>6, <3>2, GoOnTyped, FinishTyped DEF Erase, AfterLogout, Steps
        <3>. QED
            BY <3>1, <3>2
    <2>. QED
        BY <1>6, <2>1 DEF Erase
<1>7. ASSUME NEW t \in Tasks,
             \/ SubmitLogin(t) \/ SubmitRegister(t) \/ SubmitChange(t) \/ SubmitLogout(t)
             \/ Connect(t)
      PROVE  StorageTypeOK'
    <2>1. PICK does \in Forms, step \in Steps : Submit(t, does, step)
        BY <1>7 DEF SubmitLogin, SubmitRegister, SubmitChange, SubmitLogout, Connect, Forms,
                    Steps, LogoutSteps, ChangeSteps
    <2>. QED
        BY <1>1, <2>1, SubmitTyped DEF Submit
<1>8. ASSUME NEW t \in Tasks, NEW u \in Accounts, NEW remember \in BOOLEAN,
             LoggedIn(t, u, remember)
      PROVE  StorageTypeOK'
    BY <1>8, KeyOfTyped, SaveKeyTyped DEF LoggedIn
<1>9. ASSUME NEW t \in Tasks, NEW u \in Accounts, NEW remember \in BOOLEAN,
             Registered(t, u, remember)
      PROVE  StorageTypeOK'
    <2>1. PICK new \in Passwords :
              /\ password' = [password EXCEPT ![u] = new]
              /\ SaveKey(t, [user |-> u, password |-> new], remember)
        BY <1>9 DEF Registered
    <2>2. [user |-> u, password |-> new] \in Key
        BY DEF Key
    <2>. QED
        BY <1>9, <2>1, <2>2, SaveKeyTyped DEF Registered
<1>10. ASSUME NEW t \in Tasks, NEW u \in Accounts, Unheard(t, u) PROVE StorageTypeOK'
    BY <1>1, <1>10, FinishTyped DEF Unheard
<1>11. ASSUME NEW t \in Tasks, Refused(t) PROVE StorageTypeOK'
    BY <1>1, <1>11, FinishTyped DEF Refused
<1>12. ASSUME NEW t \in Tasks, SendChange(t) PROVE StorageTypeOK'
    BY <1>12, SendChangeTyped DEF SendChange
<1>13. ASSUME NEW t \in Tasks, At(t, "answer")
       PROVE  /\ form[t].key \in Key /\ ChangeOf(t) \in Changes
              /\ form[t].key.user \in Accounts /\ form[t].key.password \in Passwords
    BY <1>13 DEF At, FormInv, TaskInv, Form, Key, ChangeOf, Changes
<1>14. ASSUME NEW t \in Tasks, WriteChange(t) PROVE StorageTypeOK'
    BY <1>1, <1>13, <1>14, GoOnTyped DEF WriteChange, Steps, ChangeSteps
<1>15. ASSUME NEW t \in Tasks, Changed(t) PROVE StorageTypeOK'
    BY <1>1, <1>15, GoOnTyped DEF Changed, Steps, LogoutSteps
<1>16. ASSUME NEW t \in Tasks, Misanswered(t) PROVE StorageTypeOK'
    BY <1>1, <1>13, <1>16, FinishTyped DEF Misanswered
<1>17. ASSUME NEW t \in Tasks, NEW up \in BOOLEAN, Connected(t, up) PROVE StorageTypeOK'
    BY <1>1, <1>17, GoOnTyped, FinishTyped DEF Connected, Steps, LogoutSteps
<1>18. ASSUME NEW c \in underway, WriteLate(c) PROVE StorageTypeOK'
    BY <1>18 DEF WriteLate, Changes
<1>19. CASE FingerprintChanges \/ Restore \/ Decrypted \/ Expire
    BY <1>19 DEF FingerprintChanges, Restore, Decrypted, Expire
<1>20. CASE CloseTab
    BY <1>13, <1>20, IdleTyped DEF CloseTab
<1>21. CASE UNCHANGED storage_vars
    BY <1>21 DEF storage_vars
<1>. QED
    BY <1>3, <1>4, <1>5, <1>6, <1>7, <1>8, <1>9, <1>10, <1>11, <1>12, <1>14, <1>15, <1>16,
       <1>17, <1>18, <1>19, <1>20, <1>21 DEF StorageNext, Task

-----------------------------------------------------------------------------
(* The tasks.                                                              *)

LEMMA InitForm ==
    ASSUME StorageInit
    PROVE  FormInv /\ SessionInv
BY DEF StorageInit, FormInv, TaskInv, SessionInv, Saving, Replaces, Idle, ChangeSteps

\* A task that a step leaves alone keeps its invariant.
LEMMA OtherTasks ==
    ASSUME FormInv, NEW t \in Tasks, TaskInv(t)', \A o \in Tasks \ {t} : form'[o] = form[o]
    PROVE  FormInv'
BY DEF FormInv, TaskInv, Saving, Replaces

LEMMA IdleInv ==
    ASSUME NEW t \in Tasks, form'[t] = Idle
    PROVE  TaskInv(t)'
BY DEF TaskInv, Saving, Replaces, Idle, ChangeSteps

LEMMA NextForm ==
    ASSUME StorageTypeOK, FormInv, [StorageNext]_storage_vars
    PROVE  FormInv'
<1>1. form \in [Tasks -> Form]
    BY DEF StorageTypeOK
<1>2. CASE UNCHANGED form
    BY <1>2 DEF FormInv, TaskInv, Saving, Replaces
<1>3. ASSUME NEW t \in Tasks, Finish(t) PROVE FormInv'
    BY <1>1, <1>3, FinishTyped, IdleInv, OtherTasks
<1>4. ASSUME NEW t \in Tasks, Put(t) PROVE FormInv'
    <2>1. TaskInv(t)'
        BY <1>1, <1>4, GoOnTyped DEF Put, At, FormInv, TaskInv, Saving, Replaces, Steps,
                                     LogoutSteps, ChangeSteps
    <2>. QED
        BY <1>1, <1>4, <2>1, GoOnTyped, OtherTasks DEF Put, Steps
<1>5. ASSUME NEW t \in Tasks, NEW step \in LogoutSteps, GoOn(t, step),
             form[t].does \notin {"none", "change"}
      PROVE  FormInv'
    <2>1. step \in Steps
        BY DEF Steps
    <2>2. TaskInv(t)'
        BY <1>1, <1>5, <2>1, GoOnTyped DEF FormInv, TaskInv, Saving, Replaces, LogoutSteps,
                                           ChangeSteps, Idle
    <2>. QED
        BY <1>1, <1>5, <2>1, <2>2, GoOnTyped, OtherTasks
<1>6. ASSUME NEW t \in Tasks, Forget(t) PROVE FormInv'
    <2>1. TaskInv(t)'
        BY <1>1, <1>6, GoOnTyped DEF Forget, At, FormInv, TaskInv, Saving, Replaces, Steps,
                                     LogoutSteps, ChangeSteps, Idle
    <2>. QED
        BY <1>1, <1>6, <2>1, GoOnTyped, OtherTasks DEF Forget, Steps, LogoutSteps
<1>7. ASSUME NEW t \in Tasks, Erase(t) PROVE FormInv'
    <2>1. CASE form[t].does = "change"
        <3>1. GoOn(t, "put") /\ At(t, "erase")
            BY <1>7, <2>1 DEF Erase
        <3>2. TaskInv(t)'
            BY <1>1, <2>1, <3>1, GoOnTyped DEF At, FormInv, TaskInv, Saving, Replaces, Steps,
                                               LogoutSteps, ChangeSteps
        <3>. QED
            BY <1>1, <3>1, <3>2, GoOnTyped, OtherTasks DEF Steps
    <2>2. CASE form[t].does = "login"
        <3>1. GoOn(t, "login")
            BY <1>7, <2>2 DEF Erase, AfterLogout
        <3>2. TaskInv(t)'
            BY <1>1, <2>2, <3>1, GoOnTyped DEF FormInv, TaskInv, Saving, Replaces, Steps,
                                               LogoutSteps, ChangeSteps
        <3>. QED
            BY <1>1, <3>1, <3>2, GoOnTyped, OtherTasks DEF Steps
    <2>. QED
        BY <1>3, <1>7, <2>1, <2>2 DEF Erase, AfterLogout
<1>8. ASSUME NEW t \in Tasks,
             \/ SubmitLogin(t) \/ SubmitRegister(t) \/ SubmitChange(t) \/ SubmitLogout(t)
             \/ Connect(t)
      PROVE  FormInv'
    <2>1. PICK does \in Forms, step \in Steps :
              /\ Submit(t, does, step)
              /\ <<does, step>> \in {<<"login", "revoke">>, <<"register", "register">>,
                                     <<"change", "change">>, <<"logout", "revoke">>,
                                     <<"connect", "waiting">>}
        BY <1>8 DEF SubmitLogin, SubmitRegister, SubmitChange, SubmitLogout, Connect, Forms,
                    Steps, LogoutSteps, ChangeSteps
    <2>2. TaskInv(t)'
        BY <1>1, <2>1, SubmitTyped DEF TaskInv, Saving, Replaces, ChangeSteps
    <2>. QED
        BY <1>1, <2>1, <2>2, SubmitTyped, OtherTasks
<1>9. ASSUME NEW t \in Tasks, NEW k \in Key, NEW remember \in BOOLEAN, SaveKey(t, k, remember),
             form[t].does \in {"login", "register"}
      PROVE  FormInv'
    <2>1. k # Nothing
        BY NothingAssumption
    <2>2. TaskInv(t)'
        BY <1>9, <2>1, SaveKeyTyped, IdleInv DEF TaskInv, Saving, Replaces, ChangeSteps
    <2>. QED
        BY <1>9, <2>2, SaveKeyTyped, OtherTasks
<1>10. ASSUME NEW t \in Tasks, NEW u \in Accounts, NEW remember \in BOOLEAN,
              LoggedIn(t, u, remember) \/ Registered(t, u, remember)
       PROVE  FormInv'
    <2>1. form[t].does \in {"login", "register"}
        BY <1>10 DEF LoggedIn, Registered, At, FormInv, TaskInv
    <2>2. PICK k \in Key : SaveKey(t, k, remember)
        <3>1. CASE LoggedIn(t, u, remember)
            BY <3>1, KeyOfTyped DEF LoggedIn
        <3>2. CASE Registered(t, u, remember)
            BY <3>2 DEF Registered, Key
        <3>. QED
            BY <1>10, <3>1, <3>2
    <2>. QED
        BY <1>9, <2>1, <2>2
<1>11. ASSUME NEW t \in Tasks, SendChange(t) PROVE FormInv'
    <2>1. TaskInv(t)'
        BY <1>11, SendChangeTyped, NothingAssumption
           DEF SendChange, At, FormInv, TaskInv, Saving, Replaces, ChangeSteps, Idle
    <2>. QED
        BY <1>11, <2>1, SendChangeTyped, OtherTasks
<1>12. ASSUME NEW t \in Tasks, WriteChange(t) PROVE FormInv'
    <2>1. TaskInv(t)'
        BY <1>1, <1>12, GoOnTyped DEF WriteChange, At, FormInv, TaskInv, Saving, Replaces,
                                      Steps, LogoutSteps, ChangeSteps, Idle
    <2>. QED
        BY <1>1, <1>12, <2>1, GoOnTyped, OtherTasks DEF WriteChange, Steps, ChangeSteps
<1>13. ASSUME NEW t \in Tasks, Changed(t) PROVE FormInv'
    <2>1. TaskInv(t)'
        BY <1>1, <1>13, GoOnTyped DEF Changed, At, FormInv, TaskInv, Saving, Replaces, Steps,
                                      LogoutSteps, ChangeSteps, Idle
    <2>. QED
        BY <1>1, <1>13, <2>1, GoOnTyped, OtherTasks DEF Changed, Steps, LogoutSteps
<1>14. ASSUME NEW t \in Tasks, NEW up \in BOOLEAN, Connected(t, up) PROVE FormInv'
    <2>1. form[t].does = "connect"
        BY <1>14 DEF Connected, At, FormInv, TaskInv
    <2>. QED
        BY <1>3, <1>5, <1>14, <2>1 DEF Connected, LogoutSteps
<1>15. CASE CloseTab
    BY <1>15, IdleInv DEF CloseTab, FormInv
<1>16. ASSUME NEW t \in Tasks, Revoke(t) PROVE FormInv'
    BY <1>5, <1>16 DEF Revoke, At, FormInv, TaskInv, LogoutSteps, Idle
<1>. QED
    BY <1>2, <1>3, <1>4, <1>6, <1>7, <1>8, <1>10, <1>11, <1>12, <1>13, <1>14, <1>15, <1>16
       DEF StorageNext, Task, storage_vars, Mark, PutFails, Unheard, Refused, Misanswered,
           WriteLate, FingerprintChanges, Restore, Decrypted, Expire

LEMMA NextSession ==
    ASSUME StorageTypeOK, FormInv, SessionInv, [StorageNext]_storage_vars
    PROVE  SessionInv'
<1>. USE DEF StorageTypeOK, SessionInv, server, storage
<1>1. CASE session' \in {session, Nothing} /\ UNCHANGED password
    BY <1>1
<1>2. ASSUME NEW t \in Tasks, NEW u \in Accounts, NEW remember \in BOOLEAN,
             LoggedIn(t, u, remember) \/ Registered(t, u, remember)
      PROVE  SessionInv'
    BY <1>2, NothingAssumption DEF LoggedIn, Registered
<1>3. ASSUME NEW t \in Tasks, NEW u \in Accounts, Unheard(t, u) PROVE SessionInv'
    BY <1>3, NothingAssumption DEF Unheard
<1>4. ASSUME NEW t \in Tasks, WriteChange(t) PROVE SessionInv'
    <2>1. form[t].key \in Key
        BY <1>4 DEF WriteChange, At, FormInv, TaskInv, Form
    <2>2. form[t].key.password # Nothing
        BY <2>1, NothingAssumption DEF Key
    <2>. QED
        BY <1>4, <2>2 DEF WriteChange
<1>5. ASSUME NEW c \in underway, WriteLate(c) PROVE SessionInv'
    BY <1>5, NothingAssumption DEF WriteLate, Changes
<1>. QED
    BY <1>1, <1>2, <1>3, <1>4, <1>5
       DEF StorageNext, Task, storage_vars, Put, Mark, PutFails, Revoke, Forget, Erase,
           SubmitLogin, SubmitRegister, SubmitChange, SubmitLogout, Submit, Refused, SendChange,
           Changed, Misanswered, Connect, Connected, FingerprintChanges, Restore, Decrypted,
           CloseTab, Expire

\* Every variable keeps its type.
THEOREM StorageTypeCorrect == StorageSpec => []StorageTypeOK
<1>. DEFINE Typed == StorageTypeOK /\ FormInv /\ SessionInv
<1>1. StorageInit => Typed
    BY StorageInitTyped, InitForm
<1>2. Typed /\ [StorageNext]_storage_vars => Typed'
    BY StorageNextTyped, NextForm, NextSession
<1>3. Typed => StorageTypeOK
    OBVIOUS
<1>. QED
    BY <1>1, <1>2, <1>3, PTL DEF StorageSpec

-----------------------------------------------------------------------------
(* The key in use.                                                         *)

LEMMA InitStorageInv ==
    ASSUME StorageInit
    PROVE  StorageInv
<1>1. Clean
    BY DEF StorageInit, Clean, SavingInv, OwnerInv, StoredInv, Saving, Fits, Kept, Idle
<1>. QED
    BY <1>1, StorageInitTyped, InitForm DEF StorageInv

\* Once a key is no longer replaced it was not before.
LEMMA StaysReplaced ==
    ASSUME session' \in {session, Nothing}, ~Replacing', session' # Nothing,
           \A t \in Tasks : Replaces(t) => Replaces(t)' /\ form'[t].key = form[t].key
    PROVE  ~Replacing
BY DEF Replacing

\* A step that leaves the keys and the tasks that save and replace them alone, or
\* forgets the cached key while none saves it.
LEMMA QuietStep ==
    ASSUME Clean, session' \in {session, Nothing},
           UNCHANGED <<password, idb, private_key, storage_type, reading>>,
           \/ cached' = cached
           \/ cached' = Nothing /\ \A t \in Tasks : ~Saving(t),
           \A t \in Tasks : (Saving(t) <=> Saving(t)') /\ (Saving(t) => form'[t] = form[t]),
           \A t \in Tasks : Replaces(t) => Replaces(t)' /\ form'[t].key = form[t].key
    PROVE  Clean'
<1>1. SavingInv'
    BY DEF Clean, SavingInv, Saving
<1>2. OwnerInv'
    <2>1. CASE session' = Nothing
        BY <2>1 DEF OwnerInv, Fits
    <2>2. CASE session' # Nothing
        <3>1. ~Replacing' => ~Replacing
            BY <2>2, StaysReplaced
        <3>2. session' = session /\ Kept' = Kept
            BY <2>2 DEF Kept
        <3>. QED
            BY <3>1, <3>2 DEF Clean, OwnerInv, Fits, KeyOf
    <2>. QED
        BY <2>1, <2>2
<1>3. StoredInv'
    BY DEF Clean, StoredInv, Kept
<1>. QED
    BY <1>1, <1>2, <1>3 DEF Clean

\* The same for a step of one task.
LEMMA QuietTask ==
    ASSUME Clean, NEW t \in Tasks, \A o \in Tasks \ {t} : form'[o] = form[o],
           ~Saving(t), ~Saving(t)',
           Replaces(t) => Replaces(t)' /\ form'[t].key = form[t].key,
           session' \in {session, Nothing},
           UNCHANGED <<password, idb, private_key, storage_type, reading>>,
           cached' = cached \/ (cached' = Nothing /\ ~OtherSaves(t))
    PROVE  Clean'
<1>1. \A o \in Tasks : (Saving(o) <=> Saving(o)') /\ (Saving(o) => form'[o] = form[o])
    BY DEF Saving
<1>2. \A o \in Tasks : Replaces(o) => Replaces(o)' /\ form'[o].key = form[o].key
    BY DEF Replaces
<1>3. cached' = cached \/ (cached' = Nothing /\ \A o \in Tasks : ~Saving(o))
    BY DEF OtherSaves, Saving
<1>. QED
    BY <1>1, <1>2, <1>3, QuietStep

\* A key is saved for the user who has just logged in.
LEMMA SaveKeyClean ==
    ASSUME StorageTypeOK, Clean, NEW t \in Tasks, NEW u \in Accounts, NEW remember \in BOOLEAN,
           KeyOf(u)' \in Key, SaveKey(t, KeyOf(u)', remember), session' = u, reading' = Nothing,
           ~OtherSaves(t)
    PROVE  Clean'
<1>. DEFINE k == KeyOf(u)'
<1>1. k # Nothing /\ cached' = k /\ idb' = idb /\ \A o \in Tasks \ {t} : ~Saving(o)'
    BY NothingAssumption, SaveKeyTyped DEF OtherSaves, Saving
<1>2. Fits(cached)' /\ Fits(reading)'
    BY <1>1 DEF Fits, KeyOf
<1>3. CASE form'[t].step = "put" /\ form'[t].key = k /\ UNCHANGED storage
    <2>1. Saving(t)'
        BY <1>3 DEF Saving
    <2>2. SavingInv'
        BY <1>1, <1>3, <2>1 DEF SavingInv, Saving
    <2>3. StoredInv'
        BY <1>3 DEF Clean, StoredInv, Kept, storage
    <2>. QED
        BY <1>2, <2>1, <2>2, <2>3 DEF Clean, OwnerInv
<1>4. CASE form'[t] = Idle /\ private_key' = k /\ storage_type' = "session"
    <2>1. ~Saving(t)'
        BY <1>4 DEF Saving, Idle
    <2>2. Kept' = k
        BY <1>4 DEF Kept
    <2>3. Fits(Kept)'
        BY <2>2 DEF Fits, KeyOf
    <2>. QED
        BY <1>1, <1>2, <2>1, <2>2, <2>3 DEF Clean, SavingInv, OwnerInv, StoredInv
<1>. QED
    BY <1>3, <1>4, SaveKeyTyped

LEMMA NextClean ==
    ASSUME StorageInv, [StorageNext]_storage_vars, ~lapsed'
    PROVE  Clean'
<1>. USE DEF server, storage, Lapse
<1>1. StorageTypeOK /\ FormInv /\ SessionInv /\ form \in [Tasks -> Form]
    BY DEF StorageInv, StorageTypeOK
<1>2. ~lapsed /\ Clean
    BY DEF StorageInv, StorageTypeOK, StorageNext, Task, storage_vars, Put, Mark, PutFails,
           Revoke, Forget, Erase, SubmitLogin, SubmitRegister, SubmitChange, SubmitLogout,
           Submit, Refused, LoggedIn, Registered, Unheard, SendChange, WriteChange, Changed,
           Misanswered, WriteLate, FingerprintChanges, Restore, Decrypted, Connect, Connected,
           CloseTab, Expire
<1>3. ASSUME NEW t \in Tasks, Put(t) PROVE Clean'
    <2>1. /\ form[t].step = "put" /\ form'[t].step = "mark" /\ form'[t].key = form[t].key
          /\ form'[t].does = form[t].does
          /\ \A o \in Tasks \ {t} : form'[o] = form[o]
        BY <1>1, <1>3, GoOnTyped DEF Put, At, Steps
    <2>2. \A o \in Tasks : Saving(o) <=> Saving(o)'
        BY <2>1 DEF Saving
    <2>3. SavingInv'
        BY <1>2, <1>3, <2>1, <2>2 DEF Clean, SavingInv, Put, Saving
    <2>4. ~Replacing' => ~Replacing
        BY <1>3, <2>1 DEF Replacing, Replaces, Put
    <2>5. OwnerInv'
        BY <1>2, <1>3, <2>1, <2>2, <2>4 DEF Clean, OwnerInv, Fits, KeyOf, Put, Saving
    <2>6. form[t].key # Nothing
        BY <1>1, <2>1 DEF FormInv, TaskInv, Saving
    <2>7. StoredInv'
        BY <1>2, <1>3, <2>6 DEF Clean, StoredInv, Kept, Put
    <2>. QED
        BY <2>3, <2>5, <2>7 DEF Clean
<1>4. ASSUME NEW t \in Tasks, Mark(t) \/ PutFails(t) PROVE Clean'
    <2>1. /\ Saving(t) /\ form'[t] = Idle
          /\ \A o \in Tasks \ {t} : form'[o] = form[o]
        BY <1>1, <1>4, FinishTyped DEF Mark, PutFails, At, Saving
    <2>2. \A o \in Tasks : ~Saving(o)'
        BY <1>2, <2>1 DEF Clean, SavingInv, Saving, Idle
    <2>3. ~Replaces(t)
        BY <2>1 DEF Saving, Replaces
    <2>4. ~Replacing' => ~Replacing
        BY <1>4, <2>1, <2>3 DEF Replacing, Replaces, Mark, PutFails
    <2>5. cached = form[t].key /\ form[t].key # Nothing
        BY <1>1, <1>2, <2>1 DEF Clean, SavingInv, FormInv, TaskInv
    <2>6. Kept' = form[t].key
        <3>1. CASE Mark(t)
            BY <1>2, <2>1, <2>5, <3>1 DEF Mark, At, Kept, Clean, SavingInv
        <3>2. CASE PutFails(t)
            BY <1>2, <3>2 DEF PutFails, Kept
        <3>. QED
            BY <1>4, <3>1, <3>2
    <2>7. UNCHANGED <<password, session, cached, reading>>
        BY <1>4 DEF Mark, PutFails
    <2>. QED
        BY <1>2, <2>2, <2>4, <2>5, <2>6, <2>7
           DEF Clean, SavingInv, OwnerInv, StoredInv, Fits, KeyOf
<1>5. ASSUME NEW t \in Tasks, Revoke(t) PROVE Clean'
    <2>1. form[t].does # "change"
        BY <1>1, <1>5 DEF Revoke, At, FormInv, TaskInv
    <2>. QED
        BY <1>1, <1>2, <1>5, <2>1, GoOnTyped, QuietTask
           DEF Revoke, At, Saving, Replaces, Steps, LogoutSteps
<1>6. ASSUME NEW t \in Tasks, Forget(t) PROVE Clean'
    <2>1. /\ form[t].step = "forget" /\ form'[t].step = "erase"
          /\ form'[t].does = form[t].does /\ form'[t].key = form[t].key
          /\ \A o \in Tasks \ {t} : form'[o] = form[o]
        BY <1>1, <1>6, GoOnTyped DEF Forget, At, Steps, LogoutSteps
    <2>2. ~Saving(t) /\ ~Saving(t)' /\ (Replaces(t) => Replaces(t)')
        BY <2>1 DEF Saving, Replaces
    <2>. QED
        BY <1>2, <1>6, <2>1, <2>2, QuietTask DEF Forget
<1>7. ASSUME NEW t \in Tasks, Erase(t) PROVE Clean'
    <2>. UNCHANGED <<password, session, reading>> /\ Kept' = Nothing /\ storage_type' = Nothing
        BY <1>7, NothingAssumption DEF Erase, Kept
    <2>1. \A o \in Tasks : ~Saving(o)
        BY <1>2, <1>7 DEF Erase, At, Saving, OtherSaves
    <2>2. CASE form[t].does = "change"
        <3>1. GoOn(t, "put") /\ cached' = form[t].key /\ reading = Nothing
            BY <1>2, <1>7, <2>2 DEF Erase
        <3>2. /\ form'[t].step = "put" /\ form'[t].key = form[t].key
              /\ \A o \in Tasks \ {t} : form'[o] = form[o]
            BY <1>1, <3>1, GoOnTyped DEF Steps
        <3>3. SavingInv'
            BY <2>1, <3>1, <3>2 DEF SavingInv, Saving
        <3>4. session # Nothing => form[t].key = KeyOf(session)
            BY <1>2, <1>7, <2>2 DEF Erase
        <3>5. Fits(cached)' /\ Fits(reading)' /\ Fits(Kept)'
            BY <3>1, <3>4 DEF Fits, KeyOf
        <3>. QED
            BY <3>3, <3>5 DEF Clean, OwnerInv, StoredInv
    <2>3. CASE form[t].does # "change"
        <3>1. /\ form'[t].step \notin {"put", "mark"}
              /\ \A o \in Tasks \ {t} : form'[o] = form[o]
            BY <1>1, <1>7, <2>3, GoOnTyped, FinishTyped DEF Erase, AfterLogout, Idle, Steps
        <3>2. \A o \in Tasks : ~Saving(o)'
            BY <2>1, <3>1 DEF Saving
        <3>3. ~Replacing' => ~Replacing
            BY <2>3, <3>1 DEF Replacing, Replaces
        <3>4. cached' = cached
            BY <1>7, <2>3 DEF Erase
        <3>5. Fits(Kept)'
            BY DEF Fits
        <3>. QED
            BY <1>2, <3>2, <3>3, <3>4, <3>5 DEF Clean, SavingInv, OwnerInv, StoredInv, Fits, KeyOf
    <2>. QED
        BY <2>2, <2>3
<1>8. ASSUME NEW t \in Tasks,
             \/ SubmitLogin(t) \/ SubmitRegister(t) \/ SubmitChange(t) \/ SubmitLogout(t)
             \/ Connect(t)
      PROVE  Clean'
    <2>1. PICK does \in Forms, step \in Steps \ {"put", "mark"} : Submit(t, does, step)
        BY <1>8 DEF SubmitLogin, SubmitRegister, SubmitChange, SubmitLogout, Connect, Forms,
                    Steps, LogoutSteps, ChangeSteps
    <2>2. form[t] = Idle /\ form'[t].step = step /\ \A o \in Tasks \ {t} : form'[o] = form[o]
        BY <1>1, <2>1, SubmitTyped DEF Submit
    <2>3. ~Saving(t) /\ ~Saving(t)' /\ ~Replaces(t)
        BY <2>1, <2>2 DEF Saving, Replaces, Idle
    <2>. QED
        BY <1>2, <2>1, <2>2, <2>3, QuietTask DEF Submit
<1>9. ASSUME NEW t \in Tasks, NEW u \in Accounts, NEW remember \in BOOLEAN,
             LoggedIn(t, u, remember)
      PROVE  Clean'
    BY <1>1, <1>2, <1>9, KeyOfTyped, SaveKeyClean DEF LoggedIn, KeyOf
<1>10. ASSUME NEW t \in Tasks, NEW u \in Accounts, NEW remember \in BOOLEAN,
              Registered(t, u, remember)
       PROVE  Clean'
    <2>1. PICK new \in Passwords :
              /\ password' = [password EXCEPT ![u] = new]
              /\ SaveKey(t, [user |-> u, password |-> new], remember)
        BY <1>10 DEF Registered
    <2>2. KeyOf(u)' = [user |-> u, password |-> new] /\ KeyOf(u)' \in Key
        BY <1>1, <2>1 DEF KeyOf, Key, StorageTypeOK
    <2>. QED
        BY <1>1, <1>2, <1>10, <2>1, <2>2, SaveKeyClean DEF Registered
<1>11. ASSUME NEW t \in Tasks, NEW u \in Accounts, Unheard(t, u) PROVE Clean'
    <2>1. /\ ~Saving(t) /\ ~Saving(t)' /\ ~Replaces(t)
          /\ \A o \in Tasks \ {t} : form'[o] = form[o]
          /\ UNCHANGED <<idb, private_key, storage_type, cached, reading>>
        BY <1>1, <1>11, FinishTyped DEF Unheard, At, Saving, Replaces, Idle
    <2>2. CASE session' = session
        <3>1. session # Nothing => password'[session] = password[session]
            BY <1>1, <1>11, <2>2 DEF Unheard, SessionInv, StorageTypeOK
        <3>2. ~Replacing' => ~Replacing
            BY <2>1, <2>2 DEF Replacing, Replaces
        <3>3. Kept' = Kept /\ \A o \in Tasks : Saving(o)' <=> Saving(o)
            BY <2>1 DEF Kept, Saving
        <3>4. SavingInv'
            BY <1>2, <2>1, <3>3 DEF Clean, SavingInv, Saving
        <3>5. OwnerInv'
            BY <1>2, <2>1, <2>2, <3>1, <3>2, <3>3 DEF Clean, OwnerInv, Fits, KeyOf
        <3>. QED
            BY <1>2, <2>1, <3>3, <3>4, <3>5 DEF Clean, StoredInv
    <2>3. CASE session' # session
        <3>1. cached = Nothing /\ storage_type = Nothing /\ reading = Nothing
            BY <1>2, <1>11, <2>3 DEF Unheard, HasStoredKey
        <3>2. \A o \in Tasks : ~Saving(o)
            BY <1>1, <1>2, <3>1 DEF Clean, SavingInv, FormInv, TaskInv
        <3>3. \A o \in Tasks : ~Saving(o)'
            BY <2>1, <3>2 DEF Saving
        <3>4. cached' = Nothing /\ reading' = Nothing /\ storage_type' = Nothing /\ Kept' = Nothing
            BY <2>1, <3>1, NothingAssumption DEF Kept
        <3>. QED
            BY <3>3, <3>4 DEF Clean, SavingInv, OwnerInv, StoredInv, Fits
    <2>. QED
        BY <2>2, <2>3
<1>12. ASSUME NEW t \in Tasks, NEW step \in Steps \ {"put", "mark"}, GoOn(t, step),
              ~Saving(t), Replaces(t) => step \in {"written", "forget", "erase"},
              UNCHANGED <<server, storage, cached, reading>>
       PROVE  Clean'
    BY <1>1, <1>2, <1>12, GoOnTyped, QuietTask DEF Saving, Replaces
<1>13. ASSUME NEW t \in Tasks, Finish(t), ~Saving(t), ~Replaces(t),
              UNCHANGED <<password, session, storage, cached, reading>>
       PROVE  Clean'
    BY <1>1, <1>2, <1>13, FinishTyped, QuietTask DEF Saving, Idle
<1>14. ASSUME NEW t \in Tasks, Refused(t) \/ Misanswered(t) PROVE Clean'
    BY <1>2, <1>13, <1>14 DEF Refused, Misanswered, At, Saving, Replaces
<1>15. ASSUME NEW t \in Tasks, SendChange(t) PROVE Clean'
    BY <1>1, <1>2, <1>15, SendChangeTyped, QuietTask DEF SendChange, At, Saving, Replaces
<1>16. ASSUME NEW t \in Tasks, WriteChange(t) PROVE Clean'
    <2>1. /\ form[t].does = "change" /\ form[t].step = "answer" /\ form'[t].step = "written"
          /\ form'[t].does = "change" /\ form'[t].key = form[t].key
          /\ \A o \in Tasks \ {t} : form'[o] = form[o]
        BY <1>1, <1>16, GoOnTyped DEF WriteChange, At, FormInv, TaskInv, Steps, ChangeSteps
    <2>2. Kept' = Kept /\ \A o \in Tasks : Saving(o)' <=> Saving(o)
        BY <1>16, <2>1 DEF WriteChange, Kept, Saving
    <2>3. ~Replacing' => ~Replacing /\ form[t].key.user # session
        BY <1>16, <2>1 DEF WriteChange, Replacing, Replaces
    <2>4. form[t].key.user # session /\ session # Nothing => password'[session] = password[session]
        BY <1>1, <1>16 DEF WriteChange, StorageTypeOK
    <2>5. SavingInv'
        BY <1>2, <1>16, <2>1, <2>2 DEF WriteChange, Clean, SavingInv, Saving
    <2>6. OwnerInv'
        BY <1>2, <1>16, <2>2, <2>3, <2>4 DEF WriteChange, Clean, OwnerInv, Fits, KeyOf
    <2>. QED
        BY <1>2, <1>16, <2>2, <2>5, <2>6 DEF WriteChange, Clean, StoredInv
<1>17. ASSUME NEW t \in Tasks, Changed(t) PROVE Clean'
    BY <1>12, <1>17 DEF Changed, At, Saving, Steps, LogoutSteps
<1>18. ASSUME NEW t \in Tasks, NEW up \in BOOLEAN, Connected(t, up) PROVE Clean'
    BY <1>12, <1>13, <1>18 DEF Connected, At, Saving, Replaces, Steps, LogoutSteps
<1>19. ASSUME NEW c \in underway, WriteLate(c) PROVE Clean'
    BY <1>2, <1>19 DEF WriteLate
<1>20. CASE FingerprintChanges \/ Expire
    BY <1>2, <1>20, QuietStep DEF FingerprintChanges, Expire, Saving, Replaces
<1>21. CASE Restore \/ Decrypted
    <2>1. UNCHANGED <<password, session, idb, private_key, storage_type, form>>
        BY <1>21 DEF Restore, Decrypted
    <2>2. \A o \in Tasks : ~Saving(o) /\ ~Saving(o)'
        BY <1>1, <1>2, <1>21, <2>1 DEF Restore, Decrypted, Clean, SavingInv, Saving, FormInv,
                                       TaskInv
    <2>3. cached' \in {cached, reading, Kept} /\ reading' \in {reading, Kept, Nothing}
        <3>1. CASE Decrypted
            BY <3>1 DEF Decrypted
        <3>2. CASE Restore /\ reading' = idb /\ storage_type = "persistent" /\ idb # Nothing
                   /\ UNCHANGED cached
            BY <3>2 DEF Kept
        <3>3. CASE Restore /\ storage_type # Nothing /\ private_key # Nothing
                   /\ cached' = private_key /\ UNCHANGED reading
            <4>1. storage_type = "persistent" => idb = Nothing
                BY <1>2, <3>3 DEF Restore
            <4>2. Kept = private_key
                BY <1>1, <3>3, <4>1 DEF Kept, StorageTypeOK
            <4>. QED
                BY <3>3, <4>2
        <3>. QED
            BY <1>21, <3>1, <3>2, <3>3 DEF Restore
    <2>4. Kept' = Kept /\ Replacing' = Replacing
        BY <2>1 DEF Kept, Replacing, Replaces
    <2>5. OwnerInv'
        <3>1. CASE ~Replacing
            BY <1>2, <2>1, <2>2, <2>3, <2>4, <3>1 DEF Clean, OwnerInv, Fits, KeyOf
        <3>. QED
            BY <2>4, <3>1 DEF OwnerInv
    <2>. QED
        BY <1>2, <2>1, <2>2, <2>4, <2>5 DEF Clean, SavingInv, StoredInv
<1>22. CASE CloseTab
    <2>1. \A o \in Tasks : ~Saving(o)' /\ ~Replaces(o)
        BY <1>2, <1>22 DEF CloseTab, Saving, Replaces, Idle
    <2>2. storage_type # Nothing => \A o \in Tasks : ~Saving(o)
        BY <1>2, <1>22 DEF CloseTab, Saving
    <2>3. Kept' = Kept /\ cached' = Nothing /\ reading' = Nothing
          /\ storage_type' = storage_type /\ password' = password
          /\ session' \in {session, Nothing}
        BY <1>22 DEF CloseTab, Kept
    <2>4. Fits(Kept)
        <3>1. ~Replacing
            BY <2>1 DEF Replacing
        <3>2. CASE storage_type = Nothing
            BY <1>1, <3>2, NothingAssumption DEF Fits, Kept
        <3>. QED
            BY <1>2, <2>2, <3>1, <3>2 DEF Clean, OwnerInv
    <2>. QED
        BY <1>2, <2>1, <2>3, <2>4 DEF Clean, SavingInv, OwnerInv, StoredInv, Fits, KeyOf
<1>23. CASE UNCHANGED storage_vars
    BY <1>2, <1>23, QuietStep DEF storage_vars, Saving, Replaces
<1>. QED
    BY <1>3, <1>4, <1>5, <1>6, <1>7, <1>8, <1>9, <1>10, <1>11, <1>14, <1>15, <1>16, <1>17,
       <1>18, <1>19, <1>20, <1>21, <1>22, <1>23 DEF StorageNext, Task

LEMMA IInvHolds == StorageSpec => []StorageInv
<1>1. StorageInit => StorageInv
    BY InitStorageInv
<1>2. StorageInv /\ [StorageNext]_storage_vars => StorageInv'
    BY StorageNextTyped, NextForm, NextSession, NextClean DEF StorageInv
<1>. QED
    BY <1>1, <1>2, PTL DEF StorageSpec

LEMMA AtRestNothingRuns ==
    ASSUME FormInv, AtRest
    PROVE  (\A t \in Tasks : ~Saving(t)) /\ ~Replacing
BY DEF FormInv, TaskInv, AtRest, Saving, Replacing, Replaces, Idle

\* A key that can be read is the one that is kept.
LEMMA ReadableIsKept ==
    ASSUME StorageTypeOK, ~Unreadable
    PROVE  Stored = Kept
BY NothingAssumption DEF StorageTypeOK, Unreadable, Stored, Kept

\* The key that is used next is the one of the session, whatever the tasks do at
\* once.
THEOREM KeyOfSession == StorageSpec => []KeyIsOfSession
<1>1. StorageInv => KeyIsOfSession
    <2>1. ASSUME StorageInv, ~lapsed, AtRest, session # Nothing
          PROVE  /\ Stored # Nothing /\ ~Unreadable => Stored = KeyOf(session)
                 /\ cached # Nothing => cached = KeyOf(session)
        <3>1. Fits(cached) /\ Fits(Kept)
            BY <2>1, AtRestNothingRuns DEF StorageInv, Clean, OwnerInv
        <3>. QED
            BY <2>1, <3>1, ReadableIsKept DEF Fits, StorageInv
    <2>. QED
        BY <2>1 DEF KeyIsOfSession
<1>. QED
    BY <1>1, IInvHolds, PTL

\* A key that is announced can be restored, or the fingerprint has changed.
THEOREM StoredRestorable == StorageSpec => []StoredIsRestorable
<1>1. StorageInv => StoredIsRestorable
    BY ReadableIsKept DEF StorageInv, Clean, StoredInv, StoredIsRestorable, HasStoredKey
<1>. QED
    BY <1>1, IInvHolds, PTL
=============================================================================
