---------------------------- MODULE KeyAgreement ----------------------------
(***************************************************************************)
(* One conversation between Alice and Bob.  Each browser derives the key of*)
(* the chat from its private key and the other's public key (ECDH), at     *)
(* different moments, and stores it in its own row of the table chats,     *)
(* encrypted under its private key.  A password change replaces a key pair *)
(* and re-encrypts the stored key.  A key pair is told by its version, the *)
(* content of a chat key by the key pairs it was derived from.             *)
(***************************************************************************)
EXTENDS Naturals

CONSTANTS
    Alice, Bob,
    MaxVersion,    \* bound: password changes of each user
    MaxMessages,   \* bound: messages sent
    None,          \* nothing
    NoKey          \* a chat without an encrypted_key

Users == {Alice, Bob}
Peer(u) == IF u = Alice THEN Bob ELSE Alice

\* Who starts a derivation: loadChats, handleNewChat, the new_message handler.
Origins == {"load", "search", "event"}

\* What a private key and a public key give, the same on both sides: it is
\* told by the versions of the two key pairs.
ChatKey == [Users -> Nat]
DeriveChatKey(u, private_key, public_key) ==
    [v \in Users |-> IF v = u THEN private_key ELSE public_key]

\* encrypted_key: a chat key and the private key it is encrypted under.
Encrypted == [key: ChatKey, under: Nat]

Message == [from: Users, key: ChatKey]

\* A password change: its next step, and the chat key it could decrypt.
Change == [step: {"idle", "write", "update", "answer"},
           collected: ChatKey \cup {None}]

ASSUME UsersAssumption == Alice # Bob
ASSUME SentinelAssumption ==
    /\ None # NoKey
    /\ None \notin Encrypted /\ NoKey \notin Encrypted /\ None \notin ChatKey

VARIABLES
    public,      \* users.public_key
    private,     \* the private key the browser keeps
    rows,        \* the users who have a row for the chat
    encrypted,   \* the encrypted_key of the row, or None
    listed,      \* the chat in the list of ChatsPage: its encrypted_key, NoKey,
                 \* or None: not there
    saving,      \* per origin: the key on its way to SaveChatKeys, or None
    change,      \* the password change of the user
    inbox,       \* new_message events on their way to the user
    sent,        \* the messages of the chat
    sends,       \* how many there are
    unsettled    \* history: a key pair was replaced while the chat had not two
                 \* keys or one was being saved, or another key was derived

page == <<listed, saving>>
table == <<rows, encrypted>>
traffic == <<inbox, sent, sends>>
vars == <<public, private, rows, encrypted, listed, saving, change, inbox, sent,
          sends, unsettled>>

TypeOK ==
    /\ public \in [Users -> Nat]
    /\ private \in [Users -> Nat]
    /\ rows \subseteq Users
    /\ encrypted \in [Users -> Encrypted \cup {None}]
    /\ listed \in [Users -> Encrypted \cup {NoKey, None}]
    /\ saving \in [Users -> [Origins -> Encrypted \cup {None}]]
    /\ change \in [Users -> Change]
    /\ inbox \in [Users -> Nat]
    /\ sent \subseteq Message
    /\ sends \in Nat
    /\ unsettled \in BOOLEAN

Init ==
    /\ public = [u \in Users |-> 0]
    /\ private = [u \in Users |-> 0]
    /\ rows = {}
    /\ encrypted = [u \in Users |-> None]
    /\ listed = [u \in Users |-> None]
    /\ saving = [u \in Users |-> [o \in Origins |-> None]]
    /\ change = [u \in Users |-> [step |-> "idle", collected |-> None]]
    /\ inbox = [u \in Users |-> 0]
    /\ sent = {}
    /\ sends = 0
    /\ unsettled = FALSE

-----------------------------------------------------------------------------
\* ChatsPage is on the screen, not the page that changes the password.
OnChats(u) == change[u].step = "idle"

InFlight(u) == \E o \in Origins : saving[u][o] # None

\* Both users have a key, and none is on its way.
Settled == \A u \in Users : encrypted[u] # None /\ ~InFlight(u)

\* The key the browser of u derives now, encrypted for its row.
Derived(u) ==
    [key |-> DeriveChatKey(u, private[u], public[Peer(u)]), under |-> private[u]]

\* getUserPublicKey has answered: the key is derived and sent to be saved.
Derive(u, o) ==
    /\ OnChats(u)
    /\ saving[u][o] = None
    /\ saving' = [saving EXCEPT ![u][o] = Derived(u)]
    /\ unsettled' = (unsettled \/
          (encrypted[u] # None /\ encrypted[u].key # Derived(u).key))

-----------------------------------------------------------------------------
(* ChatsPage.                                                              *)

\* loadChats reads the rows; the list is replaced, so that a chat that has no
\* row yet is gone.  A chat without a key gets one before it is listed.
LoadChats(u) ==
    /\ OnChats(u)
    /\ IF u \in rows /\ encrypted[u] = None
       THEN Derive(u, "load") /\ UNCHANGED listed
       ELSE /\ listed' = [listed EXCEPT ![u] = encrypted[u]]
            /\ UNCHANGED <<saving, unsettled>>
    /\ UNCHANGED <<public, private, table, change, traffic>>

\* handleNewChat: a user found in the search with whom there is no chat in the
\* list as it was rendered.
HandleNewChat(u) ==
    /\ listed[u] = None
    /\ Derive(u, "search")
    /\ UNCHANGED <<public, private, table, listed, change, traffic>>

\* The new_message handler: the chat is looked for in the list, not in the
\* rows, and a list that has not been loaded yet has none.
NewMessage(u) ==
    /\ OnChats(u)
    /\ inbox[u] > 0
    /\ inbox' = [inbox EXCEPT ![u] = @ - 1]
    /\ \/ listed[u] = None /\ Derive(u, "event")
       \/ listed[u] # None /\ UNCHANGED <<saving, unsettled>>
    /\ UNCHANGED <<public, private, table, listed, change, sent, sends>>

\* SaveChatKeys, an upsert: the row gets the key, whether it had one or not.
\* The list shows it at once, or after the reload that follows.
SaveChatKeys(u, o) ==
    /\ saving[u][o] # None
    /\ rows' = rows \cup {u}
    /\ encrypted' = [encrypted EXCEPT ![u] = saving[u][o]]
    /\ listed' = IF OnChats(u) THEN [listed EXCEPT ![u] = saving[u][o]] ELSE listed
    /\ saving' = [saving EXCEPT ![u][o] = None]
    /\ UNCHANGED <<public, private, change, traffic, unsettled>>

\* The call fails, before or after the statement; loadChats lists the chat
\* without a key.
SaveFails(u, o) ==
    /\ saving[u][o] # None
    /\ \/ UNCHANGED table
       \/ /\ rows' = rows \cup {u}
          /\ encrypted' = [encrypted EXCEPT ![u] = saving[u][o]]
    /\ listed' = IF o = "load" /\ OnChats(u)
                 THEN [listed EXCEPT ![u] = NoKey] ELSE listed
    /\ saving' = [saving EXCEPT ![u][o] = None]
    /\ UNCHANGED <<public, private, change, traffic, unsettled>>

\* The page is left or reloaded; what it was saving goes on or is cut.
Leave(u) ==
    /\ listed[u] # None
    /\ listed' = [listed EXCEPT ![u] = None]
    /\ \/ UNCHANGED saving
       \/ saving' = [saving EXCEPT ![u] = [o \in Origins |-> None]]
    /\ UNCHANGED <<public, private, table, change, traffic, unsettled>>

-----------------------------------------------------------------------------
(* ChatWindow.                                                             *)

\* decryptChatKeyWithPrivateKey
Decrypts(key, private_key) == key \in Encrypted /\ key.under = private_key

\* The window has decrypted the key of the chat that is selected in the list;
\* CreateWithChats inserts rows for both users if there are none.
Send(u) ==
    /\ sends < MaxMessages
    /\ OnChats(u)
    /\ Decrypts(listed[u], private[u])
    /\ sent' = sent \cup {[from |-> u, key |-> listed[u].key]}
    /\ sends' = sends + 1
    /\ rows' = Users
    /\ inbox' = [inbox EXCEPT ![Peer(u)] = @ + 1]
    /\ UNCHANGED <<public, private, encrypted, page, change, unsettled>>

-----------------------------------------------------------------------------
(* ChangePasswordPage; failing calls of a change are the subject of        *)
(* ChatKeys.                                                               *)

Goto(u, from, to) ==
    /\ change[u].step = from
    /\ change' = [change EXCEPT ![u].step = to]

\* handleSubmit up to the request: the stored key is decrypted with the private
\* key of the browser, or skipped.
Collect(u) ==
    /\ OnChats(u)
    /\ public[u] < MaxVersion
    /\ change' = [change EXCEPT ![u] =
          [step |-> "write",
           collected |-> IF Decrypts(encrypted[u], private[u])
                         THEN encrypted[u].key ELSE None]]
    /\ listed' = [listed EXCEPT ![u] = None]
    /\ unsettled' = (unsettled \/ InFlight(u))
    /\ UNCHANGED <<public, private, table, saving, traffic>>

\* auth-service refuses the old password, or replaces the public key.
WritePassword(u) ==
    /\ \/ /\ Goto(u, "write", "idle")
          /\ UNCHANGED <<public, unsettled>>
       \/ /\ Goto(u, "write", "update")
          /\ public' = [public EXCEPT ![u] = @ + 1]
          /\ unsettled' = (unsettled \/ ~Settled)
    /\ UNCHANGED <<private, table, page, traffic>>

\* Mutant: the keys are derived anew instead of re-encrypted.
UpdateWithDerived(u) ==
    /\ Goto(u, "update", "answer")
    /\ encrypted' = [encrypted EXCEPT ![u] =
          [key |-> DeriveChatKey(u, public[u], public[Peer(u)]), under |-> public[u]]]
    /\ UNCHANGED <<public, private, rows, page, traffic, unsettled>>

\* UpdateChatKeys: the key as collected, encrypted under the new private key.
UpdateChatKeys(u) ==
    /\ Goto(u, "update", "answer")
    /\ encrypted' = IF change[u].collected = None THEN encrypted
                    ELSE [encrypted EXCEPT ![u] =
                             [key |-> change[u].collected, under |-> public[u]]]
    /\ UNCHANGED <<public, private, rows, page, traffic, unsettled>>

\* The browser keeps the new private key.
Answer(u) ==
    /\ Goto(u, "answer", "idle")
    /\ private' = [private EXCEPT ![u] = public[u]]
    /\ UNCHANGED <<public, table, page, traffic, unsettled>>

Next ==
    \E u \in Users :
        \/ LoadChats(u) \/ HandleNewChat(u) \/ NewMessage(u)
        \/ \E o \in Origins : SaveChatKeys(u, o) \/ SaveFails(u, o)
        \/ Leave(u) \/ Send(u)
        \/ Collect(u) \/ WritePassword(u) \/ UpdateChatKeys(u) \/ Answer(u)

Spec == Init /\ [][Next]_vars

-----------------------------------------------------------------------------
\* Messages stay readable for both users through any number of password
\* changes, and although each side derives the key on its own and saves it
\* over what its row holds: their rows hold the key each message was encrypted
\* with, under the private key of their browser.  It needs that no key pair is
\* replaced before both rows have their key (the other side would derive
\* another one), and that no key is derived anew for a chat that has an older
\* one (the handler of new_message does, while the list is not loaded).
MessagesStayReadable ==
    ~unsettled => \A m \in sent, u \in Users : encrypted[u] # None =>
        /\ encrypted[u].key = m.key
        /\ OnChats(u) => encrypted[u].under = private[u]
=============================================================================
