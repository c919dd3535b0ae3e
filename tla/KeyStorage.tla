----------------------------- MODULE KeyStorage -----------------------------
(***************************************************************************)
(* Where one browser keeps the private key: IndexedDB, localStorage and the *)
(* memory of the tab, with the forms that write it (login, registration,   *)
(* password change, logout) and the logout that ChatsPage starts when its  *)
(* connection fails.  Every await is a step, and as a page can be left     *)
(* while it waits, several of these tasks may run at once; the tab may be  *)
(* closed at any step, and IndexedDB may fail.  A key is told by the user  *)
(* and the password it comes from.                                         *)
(***************************************************************************)
CONSTANTS
    Accounts,
    Passwords,
    Tasks,             \* bound: submitted forms and connections at once
    Nothing            \* nothing

Key == [user: Accounts, password: Passwords]

LogoutSteps == {"revoke", "forget", "erase"}
ChangeSteps == {"change", "answer", "written"}
Steps == {"idle", "login", "register", "waiting", "put", "mark"} \cup LogoutSteps
         \cup ChangeSteps
Forms == {"none", "login", "register", "change", "logout", "connect"}

\* old is the password that a change replaces.
Form == [does: Forms, step: Steps, key: Key \cup {Nothing},
         old: Passwords \cup {Nothing}]
Idle == [does |-> "none", step |-> "idle", key |-> Nothing, old |-> Nothing]

Changes == [user: Accounts, old: Passwords \cup {Nothing}, new: Passwords]

ASSUME NothingAssumption ==
    Nothing \notin Accounts \cup Passwords \cup Key \cup {"persistent", "session"}

VARIABLES
    password,       \* auth-service: the password of the user, Nothing: not registered
    session,        \* the user of the cookies, or Nothing
    underway,       \* password changes that auth-service may still carry out
                    \* though nobody waits for them
    idb,            \* IndexedDB: the key, or Nothing
    readable,       \* the browser has the fingerprint that the key was put under
    private_key,    \* localStorage: the key, or Nothing
    storage_type,   \* localStorage: key_storage_type, or Nothing
    user_login,     \* localStorage: user_login, or Nothing
    cached,         \* the memory of the tab: cachedPrivateKey, or Nothing
    reading,        \* the key a restore has read and is decrypting, or Nothing
    form,           \* per task: the form or connection, and its step
    lapsed          \* history: one of the events of Lapse

storage == <<idb, readable, private_key, storage_type, user_login>>
server == <<password, session, underway>>
storage_vars == <<password, session, underway, idb, readable, private_key, storage_type,
          user_login, cached, reading, form, lapsed>>

StorageTypeOK ==
    /\ password \in [Accounts -> Passwords \cup {Nothing}]
    /\ session \in Accounts \cup {Nothing}
    /\ underway \subseteq Changes
    /\ idb \in Key \cup {Nothing}
    /\ readable \in BOOLEAN
    /\ private_key \in Key \cup {Nothing}
    /\ storage_type \in {"persistent", "session", Nothing}
    /\ user_login \in Accounts \cup {Nothing}
    /\ cached \in Key \cup {Nothing}
    /\ reading \in Key \cup {Nothing}
    /\ form \in [Tasks -> Form]
    /\ lapsed \in BOOLEAN

StorageInit ==
    /\ password = [u \in Accounts |-> Nothing]
    /\ session = Nothing /\ underway = {}
    /\ idb = Nothing /\ readable = TRUE /\ private_key = Nothing
    /\ storage_type = Nothing /\ user_login = Nothing
    /\ cached = Nothing /\ reading = Nothing
    /\ form = [t \in Tasks |-> Idle]
    /\ lapsed = FALSE

-----------------------------------------------------------------------------
\* The key in IndexedDB does not decrypt: the fingerprint has changed since.
Unreadable == storage_type = "persistent" /\ idb # Nothing /\ ~readable

\* What restorePrivateKeySecure gives a tab that has just been opened.
Stored ==
    CASE storage_type = "persistent" -> IF idb # Nothing /\ readable THEN idb
                                        ELSE private_key
      [] storage_type = "session"    -> private_key
      [] OTHER                       -> Nothing

\* hasStoredKeySecure
HasStoredKey == cached # Nothing \/ storage_type # Nothing

\* The key whose password the user u has now.
KeyOf(u) == [user |-> u, password |-> password[u]]

At(t, step) == form[t].step = step
GoOn(t, step) == form' = [form EXCEPT ![t].step = step]
Finish(t) == form' = [form EXCEPT ![t] = Idle]
Lapse(event) == lapsed' = (lapsed \/ event)

\* Another task has cached a key and is still storing it.
OtherSaves(t) == \E o \in Tasks \ {t} : form[o].step \in {"put", "mark"}

-----------------------------------------------------------------------------
(* savePrivateKeySecure: the key is cached, then put into IndexedDB, then  *)
(* storage_type tells where it is; without rememberMe it is all at once.   *)

\* The pages store the login when the key is saved; the password change has
\* none to store.
SetLogin(t, k) == user_login' = IF form[t].does = "change" THEN user_login ELSE k.user

SaveKey(t, k, remember) ==
    /\ cached' = k
    /\ IF remember
       THEN /\ form' = [form EXCEPT ![t].step = "put", ![t].key = k]
            /\ UNCHANGED storage
       ELSE /\ private_key' = k /\ storage_type' = "session" /\ SetLogin(t, k)
            /\ Finish(t)
            /\ UNCHANGED <<idb, readable>>

\* store.put succeeds ...
Put(t) ==
    /\ At(t, "put")
    /\ idb' = form[t].key /\ readable' = TRUE
    /\ GoOn(t, "mark")
    /\ UNCHANGED <<server, private_key, storage_type, user_login, cached, reading, lapsed>>

\* ... and storage_type says so.
Mark(t) ==
    /\ At(t, "mark")
    /\ storage_type' = "persistent"
    /\ SetLogin(t, form[t].key)
    /\ Finish(t)
    /\ UNCHANGED <<server, idb, readable, private_key, cached, reading, lapsed>>

\* IndexedDB fails: localStorage gets the key, while restore asks IndexedDB
\* first, which may have an older one.
PutFails(t) ==
    /\ At(t, "put")
    /\ private_key' = form[t].key /\ storage_type' = "persistent"
    /\ SetLogin(t, form[t].key)
    /\ Finish(t)
    /\ Lapse(idb # Nothing)
    /\ UNCHANGED <<server, idb, readable, cached, reading>>

-----------------------------------------------------------------------------
(* performLogout, of the forms "login" and "logout" and of a failed        *)
(* "connect"; after a password change clearKeys alone.                     *)

\* The logout API, which may fail.
Revoke(t) ==
    /\ At(t, "revoke")
    /\ session' \in {session, Nothing}
    /\ GoOn(t, "forget")
    /\ UNCHANGED <<password, underway, storage, cached, reading, lapsed>>

\* clearKeysSecure wipes the cached key, perhaps one that another task is storing
\* or that a restore will cache again ...
Forget(t) ==
    /\ At(t, "forget")
    /\ cached' = Nothing
    /\ GoOn(t, "erase")
    /\ Lapse(OtherSaves(t))
    /\ UNCHANGED <<server, storage, reading>>

AfterLogout(t) == IF form[t].does = "login" THEN GoOn(t, "login") ELSE Finish(t)

\* Mutant: storage_type stays.
EraseKeys(t) ==
    /\ At(t, "erase")
    /\ idb' \in {idb, Nothing}
    /\ private_key' = Nothing /\ user_login' = Nothing
    /\ AfterLogout(t)
    /\ UNCHANGED <<server, readable, storage_type, cached, reading, lapsed>>

\* ... and deletes the one in IndexedDB, which may fail; then localStorage is
\* cleared, and the task goes on: a password change with the new key.
Erase(t) ==
    /\ At(t, "erase")
    /\ idb' \in {idb, Nothing}
    /\ private_key' = Nothing /\ storage_type' = Nothing
    /\ IF form[t].does = "change"
       THEN /\ cached' = form[t].key
            /\ GoOn(t, "put")
            /\ UNCHANGED user_login
            /\ Lapse(\/ OtherSaves(t) \/ reading # Nothing
                     \/ session \notin {Nothing, form[t].key.user}
                     \/ form[t].key # KeyOf(form[t].key.user))
       ELSE /\ user_login' = Nothing
            /\ AfterLogout(t)
            /\ Lapse(OtherSaves(t))
            /\ UNCHANGED cached
    /\ UNCHANGED <<server, readable, reading>>

-----------------------------------------------------------------------------
(* The forms.  That of another page can be submitted while one waits.      *)

Submit(t, does, step) ==
    /\ form[t] = Idle
    /\ form' = [form EXCEPT ![t] = [Idle EXCEPT !.does = does, !.step = step]]
    /\ UNCHANGED <<server, storage, cached, reading, lapsed>>

\* LoginPage clears the data of the last user first, RegisterPage does not;
\* ChangePasswordPage needs a key and user_login.
SubmitLogin(t) == Submit(t, "login", "revoke")

SubmitRegister(t) == Submit(t, "register", "register")

SubmitChange(t) ==
    /\ cached # Nothing /\ user_login # Nothing
    /\ Submit(t, "change", "change")

\* The buttons of ChatsPage and of ChangePasswordPage, during a change as well.
SubmitLogout(t) == Submit(t, "logout", "revoke")

\* auth-service accepts, and the page saves the key it has derived.
LoggedIn(t, u, remember) ==
    /\ At(t, "login")
    /\ password[u] # Nothing
    /\ session' = u
    /\ SaveKey(t, KeyOf(u), remember)
    /\ Lapse(reading # Nothing \/ OtherSaves(t))
    /\ UNCHANGED <<password, underway, reading>>

Registered(t, u, remember) ==
    /\ At(t, "register")
    /\ password[u] = Nothing
    /\ \E new \in Passwords :
          /\ password' = [password EXCEPT ![u] = new]
          /\ SaveKey(t, [user |-> u, password |-> new], remember)
    /\ session' = u
    /\ Lapse(reading # Nothing \/ OtherSaves(t))
    /\ UNCHANGED <<underway, reading>>

\* auth-service has registered the user or logged him in, and the answer breaks
\* off, before or after the browser got the cookies.
Unheard(t, u) ==
    /\ \/ At(t, "login") /\ password[u] # Nothing /\ UNCHANGED password
       \/ /\ At(t, "register") /\ password[u] = Nothing
          /\ \E new \in Passwords : password' = [password EXCEPT ![u] = new]
    /\ session' \in {session, u}
    /\ Finish(t)
    /\ Lapse(session' # session /\ (HasStoredKey \/ reading # Nothing))
    /\ UNCHANGED <<underway, storage, cached, reading>>

\* A form is answered with an error, and auth-service has changed nothing.
Refused(t) ==
    /\ form[t].step \in {"login", "register", "change", "answer"}
    /\ Finish(t)
    /\ UNCHANGED <<server, storage, cached, reading, lapsed>>

-----------------------------------------------------------------------------
(* The password change.                                                    *)

\* The account is the one of user_login.
SendChange(t) ==
    /\ At(t, "change")
    /\ user_login # Nothing
    /\ \E new \in Passwords \ {password[user_login]} :
          form' = [form EXCEPT ![t].step = "answer", ![t].old = password[user_login],
                               ![t].key = [user |-> user_login, password |-> new]]
    /\ UNCHANGED <<server, storage, cached, reading, lapsed>>

\* auth-service checks the old password and writes the new one ...
WriteChange(t) ==
    /\ At(t, "answer")
    /\ password[form[t].key.user] = form[t].old
    /\ password' = [password EXCEPT ![form[t].key.user] = form[t].key.password]
    /\ GoOn(t, "written")
    /\ UNCHANGED <<session, underway, storage, cached, reading, lapsed>>

\* Mutant: the page keeps the old key.
ChangedAlone(t) ==
    /\ At(t, "written")
    /\ Finish(t)
    /\ UNCHANGED <<server, storage, cached, reading, lapsed>>

\* ... and the page has its answer: the old keys are cleared before the new one is
\* saved.
Changed(t) ==
    /\ At(t, "written")
    /\ GoOn(t, "forget")
    /\ UNCHANGED <<server, storage, cached, reading, lapsed>>

ChangeOf(t) == [user |-> form[t].key.user, old |-> form[t].old, new |-> form[t].key.password]

\* The answer is an error although the password is written (message-service has
\* failed, or the time is up), or will be when the time was up before.
Misanswered(t) ==
    /\ \/ At(t, "written") /\ UNCHANGED underway
       \/ At(t, "answer") /\ underway' = underway \cup {ChangeOf(t)}
    /\ Finish(t)
    /\ Lapse(At(t, "written"))
    /\ UNCHANGED <<password, session, storage, cached, reading>>

\* A change that nobody waits for.
WriteLate(c) ==
    /\ password[c.user] = c.old
    /\ password' = [password EXCEPT ![c.user] = c.new]
    /\ underway' = underway \ {c}
    /\ Lapse(TRUE)
    /\ UNCHANGED <<session, storage, cached, reading, form>>

-----------------------------------------------------------------------------
(* The tab.                                                                *)

\* The user agent, the language or the screen changes, perhaps back.
FingerprintChanges ==
    /\ readable' = ~readable
    /\ UNCHANGED <<server, idb, private_key, storage_type, user_login, cached, reading,
                   form, lapsed>>

\* restorePrivateKeySecure, from a page without a cached key.  The key of
\* IndexedDB is decrypted, or cannot be read.
Restore ==
    /\ cached = Nothing /\ reading = Nothing
    /\ \/ /\ storage_type = "persistent" /\ idb # Nothing /\ readable
          /\ reading' = idb
          /\ UNCHANGED cached
       \/ /\ storage_type # Nothing /\ private_key # Nothing
          /\ cached' = private_key
          /\ UNCHANGED reading
    /\ Lapse(storage_type = "persistent" /\ reading' = Nothing /\ idb # Nothing)
    /\ UNCHANGED <<server, storage, form>>

Decrypted ==
    /\ reading # Nothing
    /\ cached' = reading
    /\ reading' = Nothing
    /\ UNCHANGED <<server, storage, form, lapsed>>

\* initializeConnection of ChatsPage has its key and waits for the connection;
\* when it fails, the page logs out, whatever the user does meanwhile.
Connect(t) == cached # Nothing /\ Submit(t, "connect", "waiting")

Connected(t, up) ==
    /\ At(t, "waiting")
    /\ IF up THEN Finish(t) ELSE GoOn(t, "revoke")
    /\ UNCHANGED <<server, storage, cached, reading, lapsed>>

\* The tab is closed or reloaded, and what it waits for may still be carried out.
\* On ChatsPage, without rememberMe, the listener of beforeunload calls
\* performLogout, which gets as far as its first await.
CloseTab ==
    /\ session' \in IF storage_type = "persistent" THEN {session} ELSE {session, Nothing}
    /\ underway' = underway \cup {ChangeOf(t) : t \in {o \in Tasks : At(o, "answer")}}
    /\ cached' = Nothing /\ reading' = Nothing
    /\ form' = [t \in Tasks |-> Idle]
    /\ Lapse(\E t \in Tasks :
                \/ form[t].step \in {"put", "mark"} /\ storage_type # Nothing
                \/ form[t].does = "change" /\ form[t].step \in {"written", "forget", "erase"})
    /\ UNCHANGED <<password, storage>>

\* The cookies expire.
Expire ==
    /\ session' = Nothing
    /\ UNCHANGED <<password, underway, storage, cached, reading, form, lapsed>>

Task(t) ==
    \/ Put(t) \/ Mark(t) \/ PutFails(t)
    \/ Revoke(t) \/ Forget(t) \/ Erase(t)
    \/ SubmitLogin(t) \/ SubmitRegister(t) \/ SubmitChange(t) \/ SubmitLogout(t)
    \/ \E u \in Accounts, remember \in BOOLEAN :
          LoggedIn(t, u, remember) \/ Registered(t, u, remember)
    \/ \E u \in Accounts : Unheard(t, u)
    \/ Refused(t)
    \/ SendChange(t) \/ WriteChange(t) \/ Changed(t) \/ Misanswered(t)
    \/ Connect(t) \/ \E up \in BOOLEAN : Connected(t, up)

StorageNext ==
    \/ \E t \in Tasks : Task(t)
    \/ \E c \in underway : WriteLate(c)
    \/ FingerprintChanges \/ Restore \/ Decrypted \/ CloseTab \/ Expire

StorageSpec == StorageInit /\ [][StorageNext]_storage_vars

-----------------------------------------------------------------------------
\* No form runs; a connection may, and its logout.
AtRest == \A t \in Tasks : form[t].does \in {"none", "connect"}

\* The key that the pages use next is the one of the user who is logged in,
\* and of the password he has now: through changes of user, of the password and
\* of the place where the key is kept, closed tabs, deletes of IndexedDB that
\* fail, and a logout, a login or another change while one form waits.  A change
\* that is answered with an error though it is carried out, a task that clears or
\* replaces the key another one is storing, and a key under another fingerprint
\* are excluded, each where it happens.
KeyIsOfSession ==
    ~lapsed /\ AtRest /\ session # Nothing =>
        /\ Stored # Nothing /\ ~Unreadable => Stored = KeyOf(session)
        /\ cached # Nothing => cached = KeyOf(session)

\* HomePage sends nobody to the chats for whom there is no key to restore, unless
\* it is in IndexedDB under another fingerprint.
StoredIsRestorable ==
    ~lapsed /\ AtRest /\ HasStoredKey => cached # Nothing \/ Stored # Nothing \/ Unreadable
=============================================================================
