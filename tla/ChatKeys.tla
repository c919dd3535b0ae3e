------------------------------ MODULE ChatKeys ------------------------------
(***************************************************************************)
(* The stored chat keys of one user and the password change.  The private  *)
(* and public key and the auth hash are all derived from the password, so  *)
(* each of them is told here by the password.  The key of a chat is stored *)
(* on the server encrypted under the private key; which key it is does not *)
(* matter here, only what it is encrypted under.  A change goes from the   *)
(* browser, which re-encrypts the keys beforehand, through the saga of the *)
(* gateway to auth-service and then to message-service.                    *)
(***************************************************************************)
EXTENDS Naturals

CONSTANTS
    Companions,      \* the users the user may have chats with
    Devices,         \* browsers of the user
    Passwords,       \* passwords; FirstPassword is the one at the start
    FirstPassword,
    Changes,         \* submissions of the form of ChangePasswordPage
    MaxFaults,       \* bound: calls that return an error or time out
    None             \* no key, nothing

ASSUME PasswordsAssumption == FirstPassword \in Passwords /\ None \notin Passwords
ASSUME FaultsAssumption == MaxFaults \in Nat

VARIABLES
    password,    \* users.auth_hash and users.public_key
    encrypted,   \* chats.encrypted_key per companion: the private key it is
                 \* encrypted under, or None
    private,     \* per device: the private key it keeps, or None
    saving,      \* per device: the key it is about to save, or None
    pc, change,  \* per password change: its next step, its arguments and locals
    past,        \* history: the passwords the user has had
    discarded,   \* history: private keys a device dropped in a login or logout
    overlapped,  \* history: something was started while something was under way
    faults

keys == <<encrypted, private, saving>>
account == <<password, past>>
history == <<discarded, overlapped>>
vars == <<password, encrypted, private, saving, pc, change, past, discarded,
          overlapped, faults>>

Steps == {"new", "check", "write", "update", "answer", "done",
          "lateWrite", "lateUpdate", "failed"}

\* A key on its way to SaveChatKeys.
Saving == [peer: Companions, under: Passwords]

\* held is the private key the device restored; collected the chats whose keys
\* it could decrypt with it.
Change ==
    [device: Devices, old: Passwords, new: Passwords, held: Passwords,
     collected: SUBSET Companions]

TypeOK ==
    /\ password \in Passwords
    /\ encrypted \in [Companions -> Passwords \cup {None}]
    /\ private \in [Devices -> Passwords \cup {None}]
    /\ \A d \in Devices : saving[d] # None => saving[d] \in Saving
    /\ pc \in [Changes -> Steps]
    /\ \A r \in Changes : pc[r] # "new" => change[r] \in Change
    /\ past \subseteq Passwords
    /\ discarded \subseteq Passwords
    /\ overlapped \in BOOLEAN
    /\ faults \in Nat

Init ==
    /\ password = FirstPassword
    /\ encrypted = [v \in Companions |-> None]
    /\ private = [d \in Devices |-> None]
    /\ saving = [d \in Devices |-> None]
    /\ pc = [r \in Changes |-> "new"]
    /\ change = [r \in Changes |-> None]
    /\ past = {FirstPassword}
    /\ discarded = {}
    /\ overlapped = FALSE
    /\ faults = 0

-----------------------------------------------------------------------------
Open(r) == pc[r] \in {"check", "write", "update", "answer"}
InFlight(r) == Open(r) \/ pc[r] \in {"lateWrite", "lateUpdate"}

Busy ==
    \/ \E d \in Devices : saving[d] # None
    \/ \E r \in Changes : InFlight(r)

\* The user starts something.
Start == overlapped' = (overlapped \/ Busy)

Goto(r, from, to) ==
    /\ pc[r] = from
    /\ pc' = [pc EXCEPT ![r] = to]

\* secureStorage: what is saved is what is restored, from memory, IndexedDB or
\* localStorage; None once all of them are cleared.
Keep(d, key) == private' = [private EXCEPT ![d] = key]

-----------------------------------------------------------------------------
(* Logging in and creating chats.                                          *)

\* LoginPage drops whatever key the device has (performLogout), and keeps the
\* private key of the password if that is accepted.  Logging out drops it, too.
Login(d) ==
    /\ Start
    /\ \E key \in {password, None} \ {private[d]} : Keep(d, key)
    /\ discarded' = discarded \cup ({private[d]} \ {None})
    /\ UNCHANGED <<account, encrypted, saving, pc, change, faults>>

\* A chat of the list has no key, or is a new one: its key is derived and
\* encrypted under the private key of the device.
DeriveChatKey(d) ==
    /\ Start
    /\ private[d] # None /\ saving[d] = None
    /\ \E v \in Companions :
          /\ encrypted[v] = None
          /\ saving' = [saving EXCEPT ![d] = [peer |-> v, under |-> private[d]]]
    /\ UNCHANGED <<account, encrypted, private, pc, change, discarded, faults>>

\* SaveChatKeys, an upsert.
SaveChatKeys(d) ==
    /\ saving[d] # None
    /\ encrypted' = [encrypted EXCEPT ![saving[d].peer] = saving[d].under]
    /\ saving' = [saving EXCEPT ![d] = None]
    /\ UNCHANGED <<account, private, pc, change, history, faults>>

-----------------------------------------------------------------------------
(* The password change.                                                    *)

\* handleSubmit up to the request: the keys that do not decrypt under the
\* private key of the device are skipped.
Collect(r) ==
    \E d \in Devices, old, new \in Passwords :
        /\ Start
        /\ private[d] # None
        /\ old # new
        /\ Goto(r, "new", "check")
        /\ change' = [change EXCEPT ![r] =
              [device |-> d, old |-> old, new |-> new, held |-> private[d],
               collected |-> {v \in Companions : encrypted[v] = private[d]}]]
        /\ UNCHANGED <<account, keys, discarded, faults>>

\* UpdateChatKeys, one transaction over the collected chats.
SetKeys(r) ==
    encrypted' = [v \in Companions |->
        IF v \in change[r].collected THEN change[r].new ELSE encrypted[v]]

Checked(r) == IF password = change[r].old THEN "write" ELSE "failed"

\* Mutant: the keys are updated first, and the password is only checked then.
CheckOldHashAndKeys(r) ==
    /\ pc[r] = "check"
    /\ Goto(r, "check", Checked(r))
    /\ SetKeys(r)
    /\ UNCHANGED <<account, private, saving, change, history, faults>>

\* auth-service reads the user and compares the old hash.
CheckOldHash(r) ==
    /\ pc[r] = "check"
    /\ Goto(r, "check", Checked(r))
    /\ UNCHANGED <<account, keys, change, history, faults>>

\* UpdateAuthHashAndPublicKey, one transaction, whatever the hash is by now.
SetPassword(r) ==
    /\ password' = change[r].new
    /\ past' = past \cup {change[r].new}

\* Without keys to update the saga ends here.
WritePassword(r) ==
    /\ pc[r] = "write"
    /\ Goto(r, "write", IF change[r].collected = {} THEN "answer" ELSE "update")
    /\ SetPassword(r)
    /\ UNCHANGED <<keys, change, history, faults>>

\* Mutant: an error of UpdateChatKeys is only logged.
UpdateOrNot(r) ==
    /\ Goto(r, "update", "answer")
    /\ SetKeys(r) \/ UNCHANGED encrypted
    /\ UNCHANGED <<account, private, saving, change, history, faults>>

UpdateChatKeys(r) ==
    /\ Goto(r, "update", "answer")
    /\ SetKeys(r)
    /\ UNCHANGED <<account, private, saving, change, history, faults>>

\* The browser gets the answer and replaces the private key it keeps.
Answer(r) ==
    /\ Goto(r, "answer", "done")
    /\ Keep(change[r].device, change[r].new)
    /\ UNCHANGED <<account, encrypted, saving, change, history, faults>>

-----------------------------------------------------------------------------
(* Faults.                                                                 *)

\* A call returns an error or times out, and the change ends with an error;
\* a statement that was under way may still be executed.
ChangeFails(r) ==
    /\ faults < MaxFaults
    /\ faults' = faults + 1
    /\ Open(r)
    /\ pc' = [pc EXCEPT ![r] = CASE pc[r] = "write"  -> "lateWrite"
                                 [] pc[r] = "update" -> "lateUpdate"
                                 [] OTHER            -> "failed"]
    /\ UNCHANGED <<account, keys, change, history>>

Late(r) ==
    /\ \/ Goto(r, "lateWrite", "failed") /\ SetPassword(r) /\ UNCHANGED encrypted
       \/ Goto(r, "lateUpdate", "failed") /\ SetKeys(r) /\ UNCHANGED account
       \/ /\ pc[r] \in {"lateWrite", "lateUpdate"}
          /\ Goto(r, pc[r], "failed")
          /\ UNCHANGED <<account, encrypted>>
    /\ UNCHANGED <<private, saving, change, history, faults>>

\* SaveChatKeys fails or its answer is lost: the browser goes on without.
SaveFails(d) ==
    /\ faults < MaxFaults
    /\ faults' = faults + 1
    /\ saving[d] # None
    /\ saving' = [saving EXCEPT ![d] = None]
    /\ UNCHANGED <<account, encrypted, private, pc, change, history>>

Next ==
    \/ \E d \in Devices :
          Login(d) \/ DeriveChatKey(d) \/ SaveChatKeys(d) \/ SaveFails(d)
    \/ \E r \in Changes :
          \/ Collect(r) \/ CheckOldHash(r) \/ WritePassword(r)
          \/ UpdateChatKeys(r) \/ Answer(r) \/ ChangeFails(r) \/ Late(r)

Spec == Init /\ [][Next]_vars

-----------------------------------------------------------------------------
\* No stored key is under a password the user has not had: the saga changes
\* the password first, and touches the keys only when it knows that it did.
KeysUsePastPasswords ==
    \A v \in Companions : encrypted[v] # None => encrypted[v] \in past

\* A change was made from a device that kept another private key than that of
\* the password typed as the old one.
StaleChange == \E r \in Changes : pc[r] # "new" /\ change[r].held # change[r].old

\* No change from an up-to-date device loses a chat key, whichever of its
\* calls fail: every stored key can be decrypted under the user's password, or
\* under the private key some device keeps, unless that device has dropped it
\* in a login or logout.  A user who starts something before the last thing has
\* ended is excluded: a key saved while the password changes may be under a
\* private key nobody has any more.
KeysStayReadable ==
    \A v \in Companions : encrypted[v] # None =>
        \/ encrypted[v] = password
        \/ \E d \in Devices : private[d] = encrypted[v]
        \/ encrypted[v] \in discarded
        \/ overlapped
        \/ StaleChange

=============================================================================
