--------------------------- MODULE ChatKeysProofs ---------------------------
(***************************************************************************)
(* Proofs about ChatKeys, for any companions, devices, passwords and       *)
(* changes, and any number of faults.                                      *)
(***************************************************************************)
EXTENDS ChatKeys, TLAPS

-----------------------------------------------------------------------------
(* Type correctness.                                                       *)

\* TypeOK, of functions with the domains they should have.
Typed ==
    /\ TypeOK
    /\ saving = [d \in Devices |-> saving[d]]
    /\ change = [r \in Changes |-> change[r]]

LEMMA InitTyped == Init => Typed
<1> SUFFICES ASSUME Init PROVE Typed
  OBVIOUS
<1>1. \A d \in Devices : saving[d] = None
  BY DEF Init
<1>2. \A r \in Changes : pc[r] = "new"
  BY DEF Init
<1>3. pc \in [Changes -> Steps]
  BY DEF Init, Steps
<1>4. saving = [d \in Devices |-> saving[d]] /\ change = [r \in Changes |-> change[r]]
  BY DEF Init
<1> QED
  BY <1>1, <1>2, <1>3, <1>4, PasswordsAssumption DEF Init, Typed, TypeOK

LEMMA ChangeIsTyped ==
    ASSUME TypeOK, NEW r \in Changes, pc[r] # "new"
    PROVE  /\ change[r] \in Change
           /\ change[r].new \in Passwords
           /\ change[r].device \in Devices
BY DEF TypeOK, Change

\* SetKeys and SetPassword keep the types.
LEMMA SetKeysTyped ==
    ASSUME TypeOK, NEW r \in Changes, pc[r] # "new", SetKeys(r)
    PROVE  encrypted' \in [Companions -> Passwords \cup {None}]
BY ChangeIsTyped DEF SetKeys, TypeOK

LEMMA SetPasswordTyped ==
    ASSUME TypeOK, NEW r \in Changes, pc[r] # "new", SetPassword(r)
    PROVE  password' \in Passwords /\ past' \subseteq Passwords
BY ChangeIsTyped DEF SetPassword, TypeOK

\* A change that goes on keeps the types of the changes.
LEMMA GotoTyped ==
    ASSUME Typed, NEW r \in Changes, NEW from \in Steps \ {"new"},
           NEW to \in Steps, Goto(r, from, to), UNCHANGED change
    PROVE  /\ pc' \in [Changes -> Steps]
           /\ \A s \in Changes : pc'[s] # "new" => change'[s] \in Change
           /\ change' = [s \in Changes |-> change'[s]]
BY DEF Goto, Typed, TypeOK

LEMMA NextTyped == Typed /\ [Next]_vars => Typed'
<1> SUFFICES ASSUME Typed, [Next]_vars PROVE Typed'
  OBVIOUS
<1> USE DEF Typed
<1>1. ASSUME NEW d \in Devices, Login(d) PROVE Typed'
  BY <1>1 DEF Login, Keep, Start, Busy, TypeOK, account
<1>2. ASSUME NEW d \in Devices, DeriveChatKey(d) PROVE Typed'
  <2>1. PICK v \in Companions :
          saving' = [saving EXCEPT ![d] = [peer |-> v, under |-> private[d]]]
    BY <1>2 DEF DeriveChatKey
  <2>2. [peer |-> v, under |-> private[d]] \in Saving
    BY <1>2 DEF DeriveChatKey, Saving, TypeOK
  <2>3. \A e \in Devices : saving'[e] # None => saving'[e] \in Saving
    BY <2>1, <2>2 DEF TypeOK
  <2>4. overlapped' \in BOOLEAN
    BY <1>2 DEF DeriveChatKey, Start, TypeOK
  <2> QED
    BY <1>2, <2>1, <2>3, <2>4 DEF DeriveChatKey, TypeOK, account
<1>3. ASSUME NEW d \in Devices, SaveChatKeys(d) PROVE Typed'
  <2>1. saving[d].under \in Passwords
    BY <1>3 DEF SaveChatKeys, TypeOK, Saving
  <2>2. \A e \in Devices : saving'[e] # None => saving'[e] \in Saving
    BY <1>3 DEF SaveChatKeys, TypeOK
  <2> QED
    BY <1>3, <2>1, <2>2 DEF SaveChatKeys, TypeOK, account, history
<1>4. ASSUME NEW d \in Devices, SaveFails(d) PROVE Typed'
  <2>1. \A e \in Devices : saving'[e] # None => saving'[e] \in Saving
    BY <1>4 DEF SaveFails, TypeOK
  <2>2. faults' \in Nat
    BY <1>4 DEF SaveFails, TypeOK
  <2> QED
    BY <1>4, <2>1, <2>2 DEF SaveFails, TypeOK, account, history
<1>5. ASSUME NEW r \in Changes, Collect(r) PROVE Typed'
  <2>1. PICK d \in Devices, old \in Passwords, new \in Passwords :
          /\ private[d] # None
          /\ change' = [change EXCEPT ![r] =
                [device |-> d, old |-> old, new |-> new, held |-> private[d],
                 collected |-> {v \in Companions : encrypted[v] = private[d]}]]
          /\ Goto(r, "new", "check")
          /\ Start
          /\ UNCHANGED <<account, keys, discarded, faults>>
    BY <1>5 DEF Collect
  <2> DEFINE c == [device |-> d, old |-> old, new |-> new, held |-> private[d],
                   collected |-> {v \in Companions : encrypted[v] = private[d]}]
  <2>2. c \in Change
    BY <2>1 DEF Change, TypeOK
  <2>3. pc' \in [Changes -> Steps]
    BY <2>1 DEF Goto, TypeOK, Steps
  <2>4. \A s \in Changes : pc'[s] # "new" => change'[s] \in Change
    <3>1. change' = [change EXCEPT ![r] = c]
      BY <2>1
    <3> HIDE DEF c
    <3>2. change'[r] \in Change
      BY <3>1, <2>2
    <3>3. ASSUME NEW s \in Changes, s # r, pc'[s] # "new"
          PROVE  change'[s] \in Change
      BY <3>1, <3>3, <2>1 DEF Goto, TypeOK
    <3> QED
      BY <3>2, <3>3
  <2>5. change' = [s \in Changes |-> change'[s]]
    BY <2>1
  <2>6. overlapped' \in BOOLEAN
    BY <2>1 DEF Start, TypeOK
  <2> QED
    BY <2>1, <2>3, <2>4, <2>5, <2>6 DEF TypeOK, account, keys
<1>6. ASSUME NEW r \in Changes, CheckOldHash(r) PROVE Typed'
  <2>1. Checked(r) \in Steps
    BY DEF Checked, Steps
  <2>2. /\ pc' \in [Changes -> Steps]
        /\ \A s \in Changes : pc'[s] # "new" => change'[s] \in Change
        /\ change' = [s \in Changes |-> change'[s]]
    BY <1>6, <2>1, GotoTyped DEF CheckOldHash, Steps
  <2> QED
    BY <1>6, <2>2 DEF CheckOldHash, TypeOK, account, keys, history
<1>7. ASSUME NEW r \in Changes, WritePassword(r) PROVE Typed'
  <2>1. /\ pc' \in [Changes -> Steps]
        /\ \A s \in Changes : pc'[s] # "new" => change'[s] \in Change
        /\ change' = [s \in Changes |-> change'[s]]
    BY <1>7, GotoTyped DEF WritePassword, Steps
  <2>2. password' \in Passwords /\ past' \subseteq Passwords
    BY <1>7, SetPasswordTyped DEF WritePassword, Goto
  <2> QED
    BY <1>7, <2>1, <2>2 DEF WritePassword, TypeOK, keys, history
<1>8. ASSUME NEW r \in Changes, UpdateChatKeys(r) PROVE Typed'
  <2>1. /\ pc' \in [Changes -> Steps]
        /\ \A s \in Changes : pc'[s] # "new" => change'[s] \in Change
        /\ change' = [s \in Changes |-> change'[s]]
    BY <1>8, GotoTyped DEF UpdateChatKeys, Steps
  <2>2. encrypted' \in [Companions -> Passwords \cup {None}]
    BY <1>8, SetKeysTyped DEF UpdateChatKeys, Goto
  <2> QED
    BY <1>8, <2>1, <2>2 DEF UpdateChatKeys, TypeOK, account, history
<1>9. ASSUME NEW r \in Changes, Answer(r) PROVE Typed'
  <2>1. /\ pc' \in [Changes -> Steps]
        /\ \A s \in Changes : pc'[s] # "new" => change'[s] \in Change
        /\ change' = [s \in Changes |-> change'[s]]
    BY <1>9, GotoTyped DEF Answer, Keep, Steps
  <2>2. private' \in [Devices -> Passwords \cup {None}]
    BY <1>9, ChangeIsTyped DEF Answer, Keep, Goto, TypeOK
  <2> QED
    BY <1>9, <2>1, <2>2 DEF Answer, Keep, TypeOK, account, history
<1>10. ASSUME NEW r \in Changes, ChangeFails(r) PROVE Typed'
  <2>1. /\ pc' \in [Changes -> Steps]
        /\ \A s \in Changes : pc'[s] # "new" => change'[s] \in Change
    BY <1>10 DEF ChangeFails, Open, TypeOK, Steps
  <2>2. faults' \in Nat
    BY <1>10 DEF ChangeFails, TypeOK
  <2> QED
    BY <1>10, <2>1, <2>2 DEF ChangeFails, TypeOK, account, keys, history
<1>11. ASSUME NEW r \in Changes, Late(r) PROVE Typed'
  <2>1. pc[r] \in {"lateWrite", "lateUpdate"} /\ Goto(r, pc[r], "failed")
    BY <1>11 DEF Late, Goto
  <2>2. /\ pc' \in [Changes -> Steps]
        /\ \A s \in Changes : pc'[s] # "new" => change'[s] \in Change
        /\ change' = [s \in Changes |-> change'[s]]
    BY <1>11, <2>1, GotoTyped DEF Late, Steps
  <2>3. /\ password' \in Passwords /\ past' \subseteq Passwords
        /\ encrypted' \in [Companions -> Passwords \cup {None}]
    <3>1. CASE SetPassword(r) /\ UNCHANGED encrypted
      BY <3>1, <2>1, SetPasswordTyped DEF TypeOK
    <3>2. CASE SetKeys(r) /\ UNCHANGED account
      BY <3>2, <2>1, SetKeysTyped DEF TypeOK, account
    <3>3. CASE UNCHANGED <<account, encrypted>>
      BY <3>3 DEF TypeOK, account
    <3> QED
      BY <1>11, <3>1, <3>2, <3>3 DEF Late
  <2> QED
    BY <1>11, <2>2, <2>3 DEF Late, TypeOK, history
<1>12. CASE UNCHANGED vars
  BY <1>12 DEF vars, TypeOK
<1> QED
  BY <1>1, <1>2, <1>3, <1>4, <1>5, <1>6, <1>7, <1>8, <1>9, <1>10, <1>11, <1>12
     DEF Next

\* Every reachable state is of its type.
THEOREM TypeCorrect == Spec => []TypeOK
<1>1. Typed => TypeOK
  BY DEF Typed
<1> QED
  BY <1>1, InitTyped, NextTyped, PTL DEF Spec

-----------------------------------------------------------------------------
(* Keys and passwords.                                                     *)

\* Steps of a change at which auth-service may have written the new password
\* already.  A change that timed out while it was writing is not one of them.
Written == {"update", "lateUpdate"}

\* What a key may be encrypted under: a password the user has had.
KeysInv ==
    /\ password \in past
    /\ \A d \in Devices : private[d] # None => private[d] \in past
    /\ \A d \in Devices : saving[d] # None => saving[d].under \in past
    /\ \A r \in Changes : pc[r] \in Written \cup {"answer"} => change[r].new \in past
    /\ KeysUsePastPasswords

LEMMA InitKeys == Init => KeysInv
<1> SUFFICES ASSUME Init PROVE KeysInv
  OBVIOUS
<1>1. \A r \in Changes : pc[r] = "new"
  BY DEF Init
<1>2. password \in past
  BY DEF Init
<1>3. /\ \A d \in Devices : private[d] = None /\ saving[d] = None
      /\ \A v \in Companions : encrypted[v] = None
  BY DEF Init
<1> QED
  BY <1>1, <1>2, <1>3 DEF KeysInv, Written, KeysUsePastPasswords

\* A change that only updates pc keeps what is known of the changes, if it
\* goes where the new password has been written only after it was.
LEMMA GotoKeeps ==
    ASSUME Typed, KeysInv, NEW r \in Changes, NEW from, NEW to,
           Goto(r, from, to), UNCHANGED change, past \subseteq past',
           to \in Written \cup {"answer"} => change[r].new \in past'
    PROVE  \A s \in Changes :
              pc'[s] \in Written \cup {"answer"} => change'[s].new \in past'
<1> SUFFICES ASSUME NEW s \in Changes, pc'[s] \in Written \cup {"answer"}
             PROVE  change'[s].new \in past'
  OBVIOUS
<1>1. CASE s = r
  <2>1. pc'[s] = to
    BY <1>1 DEF Goto, Typed, TypeOK
  <2> QED
    BY <1>1, <2>1
<1>2. CASE s # r
  <2>1. pc'[s] = pc[s]
    BY <1>2 DEF Goto, Typed, TypeOK
  <2> QED
    BY <2>1 DEF KeysInv
<1> QED
  BY <1>1, <1>2

\* Keys updated to a past password are under past passwords.
LEMMA SetKeysKeeps ==
    ASSUME KeysUsePastPasswords, NEW r \in Changes, SetKeys(r),
           change[r].new \in past, UNCHANGED past
    PROVE  KeysUsePastPasswords'
BY DEF SetKeys, KeysUsePastPasswords

LEMMA NextKeys == Typed /\ KeysInv /\ [Next]_vars => KeysInv'
<1> SUFFICES ASSUME Typed, KeysInv, [Next]_vars PROVE KeysInv'
  OBVIOUS
<1>1. ASSUME NEW d \in Devices, Login(d) PROVE KeysInv'
  <2>1. \A e \in Devices : private'[e] # None => private'[e] \in past'
    BY <1>1 DEF Login, Keep, account, KeysInv, Typed, TypeOK
  <2> QED
    BY <1>1, <2>1 DEF Login, Keep, account, KeysInv, KeysUsePastPasswords
<1>2. ASSUME NEW d \in Devices, DeriveChatKey(d) PROVE KeysInv'
  <2>1. PICK v \in Companions :
          saving' = [saving EXCEPT ![d] = [peer |-> v, under |-> private[d]]]
    BY <1>2 DEF DeriveChatKey
  <2>2. private[d] \in past /\ UNCHANGED past
    BY <1>2 DEF DeriveChatKey, account, KeysInv
  <2>3. \A e \in Devices : saving'[e] # None => saving'[e].under \in past'
    BY <2>1, <2>2 DEF KeysInv, Typed
  <2> QED
    BY <1>2, <2>3 DEF DeriveChatKey, account, KeysInv, KeysUsePastPasswords
<1>3. ASSUME NEW d \in Devices, SaveChatKeys(d) PROVE KeysInv'
  <2>1. \A e \in Devices : saving'[e] # None => saving'[e].under \in past'
    BY <1>3 DEF SaveChatKeys, account, KeysInv, Typed
  <2>2. KeysUsePastPasswords'
    BY <1>3 DEF SaveChatKeys, account, KeysInv, KeysUsePastPasswords, Typed, TypeOK
  <2> QED
    BY <1>3, <2>1, <2>2 DEF SaveChatKeys, account, KeysInv
<1>4. ASSUME NEW d \in Devices, SaveFails(d) PROVE KeysInv'
  <2>1. \A e \in Devices : saving'[e] # None => saving'[e].under \in past'
    BY <1>4 DEF SaveFails, account, KeysInv, Typed
  <2> QED
    BY <1>4, <2>1 DEF SaveFails, account, KeysInv, KeysUsePastPasswords
<1>5. ASSUME NEW r \in Changes, Collect(r) PROVE KeysInv'
  <2>1. /\ Goto(r, "new", "check")
        /\ \A s \in Changes : s # r => change'[s] = change[s]
        /\ UNCHANGED <<account, keys>>
    BY <1>5 DEF Collect, Typed
  <2>2. ASSUME NEW s \in Changes, pc'[s] \in Written \cup {"answer"}
        PROVE  change'[s].new \in past'
    <3>1. s # r /\ pc'[s] = pc[s]
      BY <2>1, <2>2 DEF Goto, Typed, TypeOK, Written
    <3> QED
      BY <2>1, <2>2, <3>1 DEF KeysInv, account
  <2> QED
    BY <2>1, <2>2 DEF account, keys, KeysInv, KeysUsePastPasswords
<1>6. ASSUME NEW r \in Changes, CheckOldHash(r) PROVE KeysInv'
  <2>1. Checked(r) \notin Written \cup {"answer"}
    BY DEF Checked, Written
  <2>2. \A s \in Changes : pc'[s] \in Written \cup {"answer"} => change'[s].new \in past'
    BY <1>6, <2>1, GotoKeeps DEF CheckOldHash, account
  <2> QED
    BY <1>6, <2>2 DEF CheckOldHash, account, keys, KeysInv, KeysUsePastPasswords
<1>7. ASSUME NEW r \in Changes, WritePassword(r) PROVE KeysInv'
  <2>1. /\ past \subseteq past' /\ change[r].new \in past' /\ password' \in past'
        /\ UNCHANGED <<keys, change>>
    BY <1>7 DEF WritePassword, SetPassword
  <2>2. PICK to : Goto(r, "write", to)
    BY <1>7 DEF WritePassword
  <2>3. \A s \in Changes : pc'[s] \in Written \cup {"answer"} => change'[s].new \in past'
    BY <2>1, <2>2, GotoKeeps
  <2> QED
    BY <2>1, <2>3 DEF keys, KeysInv, KeysUsePastPasswords
<1>8. ASSUME NEW r \in Changes, UpdateChatKeys(r) PROVE KeysInv'
  <2>1. change[r].new \in past
    BY <1>8 DEF UpdateChatKeys, Goto, KeysInv, Written
  <2>2. \A s \in Changes : pc'[s] \in Written \cup {"answer"} => change'[s].new \in past'
    BY <1>8, <2>1, GotoKeeps DEF UpdateChatKeys, account
  <2>3. KeysUsePastPasswords'
    BY <1>8, <2>1, SetKeysKeeps DEF UpdateChatKeys, account, KeysInv
  <2> QED
    BY <1>8, <2>2, <2>3 DEF UpdateChatKeys, account, KeysInv
<1>9. ASSUME NEW r \in Changes, Answer(r) PROVE KeysInv'
  <2>1. change[r].new \in past
    BY <1>9 DEF Answer, Keep, Goto, KeysInv
  <2>2. \A s \in Changes : pc'[s] \in Written \cup {"answer"} => change'[s].new \in past'
    BY <1>9, <2>1, GotoKeeps DEF Answer, Keep, account
  <2>3. \A d \in Devices : private'[d] # None => private'[d] \in past'
    BY <1>9, <2>1 DEF Answer, Keep, account, KeysInv, Typed, TypeOK
  <2> QED
    BY <1>9, <2>2, <2>3 DEF Answer, Keep, account, KeysInv, KeysUsePastPasswords
<1>10. ASSUME NEW r \in Changes, ChangeFails(r) PROVE KeysInv'
  <2>1. UNCHANGED <<account, keys, change>>
    BY <1>10 DEF ChangeFails
  <2>2. ASSUME NEW s \in Changes, pc'[s] \in Written \cup {"answer"}
        PROVE  pc[s] \in Written \cup {"answer"}
    BY <1>10, <2>2 DEF ChangeFails, Typed, TypeOK, Written
  <2>3. \A s \in Changes : pc'[s] \in Written \cup {"answer"} => change'[s].new \in past'
    BY <2>1, <2>2 DEF KeysInv, account
  <2> QED
    BY <2>1, <2>3 DEF account, keys, KeysInv, KeysUsePastPasswords
<1>11. ASSUME NEW r \in Changes, Late(r) PROVE KeysInv'
  <2>1. /\ Goto(r, pc[r], "failed") /\ pc[r] \in {"lateWrite", "lateUpdate"}
        /\ UNCHANGED <<private, saving, change>>
    BY <1>11 DEF Late, Goto
  <2>2. past \subseteq past' /\ password' \in past'
    BY <1>11 DEF Late, SetPassword, account, KeysInv
  <2>3. KeysUsePastPasswords'
    <3>1. CASE UNCHANGED encrypted
      BY <3>1, <2>2 DEF KeysInv, KeysUsePastPasswords
    <3>2. CASE Goto(r, "lateUpdate", "failed") /\ SetKeys(r) /\ UNCHANGED account
      <4>1. change[r].new \in past
        BY <3>2 DEF Goto, KeysInv, Written
      <4> QED
        BY <3>2, <4>1, SetKeysKeeps DEF account, KeysInv
    <3> QED
      BY <1>11, <3>1, <3>2 DEF Late
  <2>4. \A s \in Changes : pc'[s] \in Written \cup {"answer"} => change'[s].new \in past'
    BY <2>1, <2>2, GotoKeeps DEF Written
  <2> QED
    BY <2>1, <2>2, <2>3, <2>4 DEF KeysInv
<1>12. CASE UNCHANGED vars
  BY <1>12 DEF vars, account, keys, history, KeysInv, KeysUsePastPasswords
<1> QED
  BY <1>1, <1>2, <1>3, <1>4, <1>5, <1>6, <1>7, <1>8, <1>9, <1>10, <1>11, <1>12
     DEF Next

\* However the calls of password changes interleave, time out and take effect
\* late, no stored key is under a password the user has not had.
THEOREM KeysUsePast == Spec => []KeysUsePastPasswords
<1>1. KeysInv => KeysUsePastPasswords
  BY DEF KeysInv
<1> QED
  BY <1>1, InitTyped, NextTyped, InitKeys, NextKeys, PTL DEF Spec

-----------------------------------------------------------------------------
(* Readability.  While the user does one thing at a time and changes the   *)
(* password from up-to-date devices only, what is under way fits the       *)
(* password, the private keys and the stored keys.                         *)

Undisturbed == ~overlapped /\ ~StaleChange

Readable(v) ==
    \/ encrypted[v] = password
    \/ \E d \in Devices : private[d] = encrypted[v]
    \/ encrypted[v] \in discarded

OneAtATime ==
    /\ \A r, s \in Changes : InFlight(r) /\ InFlight(s) => r = s
    /\ \A d, e \in Devices : saving[d] # None /\ saving[e] # None => d = e
    /\ \A r \in Changes, d \in Devices : ~(InFlight(r) /\ saving[d] # None)

SavingIsCurrent ==
    \A d \in Devices : saving[d] # None => saving[d].under = private[d]

UnderHeld(r) == {v \in Companions : encrypted[v] = change[r].held}

\* A change in flight: its device holds the private key of the old password,
\* which is that of the user until it is written, and it has collected exactly
\* the keys that are under it.
ChangeAgrees(r) ==
    /\ change[r].new # change[r].held
    /\ private[change[r].device] = change[r].held
    /\ pc[r] # "answer" => change[r].collected = UnderHeld(r)
    /\ pc[r] = "answer" => UnderHeld(r) = {}
    /\ pc[r] \in {"write", "lateWrite"} => password = change[r].held
    /\ pc[r] \in {"update", "answer", "lateUpdate"} => password = change[r].new

AllReadable == \A v \in Companions : encrypted[v] # None => Readable(v)
ChangesAgree == \A r \in Changes : InFlight(r) => ChangeAgrees(r)

Orderly == AllReadable /\ OneAtATime /\ SavingIsCurrent /\ ChangesAgree

ReadableInv == Undisturbed => Orderly

LEMMA InitReadable == Init => ReadableInv
<1> SUFFICES ASSUME Init PROVE Orderly
  BY DEF ReadableInv
<1>1. \A r \in Changes : ~InFlight(r)
  BY DEF Init, InFlight, Open
<1>2. /\ \A d \in Devices : saving[d] = None
      /\ \A v \in Companions : encrypted[v] = None
  BY DEF Init
<1> QED
  BY <1>1, <1>2 DEF Orderly, AllReadable, OneAtATime, SavingIsCurrent, ChangesAgree

\* What disturbed the order is not forgotten.
LEMMA UndisturbedBefore ==
    ASSUME Typed, [Next]_vars, Undisturbed'
    PROVE  Undisturbed
<1>1. overlapped => overlapped'
  BY DEF Next, Login, DeriveChatKey, SaveChatKeys, SaveFails, Collect, CheckOldHash,
         WritePassword, UpdateChatKeys, Answer, ChangeFails, Late, Start, history, vars
<1>2. ASSUME NEW r \in Changes, pc[r] # "new"
      PROVE  pc'[r] # "new" /\ change'[r] = change[r]
  <2>1. CASE UNCHANGED vars
    BY <2>1, <1>2 DEF vars
  <2>2. CASE \E d \in Devices :
               Login(d) \/ DeriveChatKey(d) \/ SaveChatKeys(d) \/ SaveFails(d)
    BY <2>2, <1>2 DEF Login, Keep, DeriveChatKey, SaveChatKeys, SaveFails
  <2>3. ASSUME NEW s \in Changes, Collect(s)
        PROVE  pc'[r] # "new" /\ change'[r] = change[r]
    BY <2>3, <1>2 DEF Collect, Goto, Typed, TypeOK
  <2>4. ASSUME NEW s \in Changes, NEW from, NEW to, to # "new", Goto(s, from, to),
               UNCHANGED change
        PROVE  pc'[r] # "new" /\ change'[r] = change[r]
    BY <2>4, <1>2 DEF Goto, Typed, TypeOK
  <2>5. ASSUME NEW s \in Changes,
               CheckOldHash(s) \/ WritePassword(s) \/ UpdateChatKeys(s) \/ Answer(s)
        PROVE  pc'[r] # "new" /\ change'[r] = change[r]
    BY <2>5, <2>4 DEF CheckOldHash, Checked, WritePassword, UpdateChatKeys, Answer
  <2>6. ASSUME NEW s \in Changes, ChangeFails(s)
        PROVE  pc'[r] # "new" /\ change'[r] = change[r]
    BY <2>6, <1>2 DEF ChangeFails, Typed, TypeOK
  <2>7. ASSUME NEW s \in Changes, Late(s)
        PROVE  pc'[r] # "new" /\ change'[r] = change[r]
    BY <2>7, <2>4 DEF Late
  <2> QED
    BY <2>1, <2>2, <2>3, <2>5, <2>6, <2>7 DEF Next
<1> QED
  BY <1>1, <1>2 DEF Undisturbed, StaleChange

\* Nothing is under way when the user starts something, unless overlapped.
LEMMA StartAlone ==
    ASSUME Start, ~overlapped'
    PROVE  /\ \A d \in Devices : saving[d] = None
           /\ \A r \in Changes : ~InFlight(r)
BY DEF Start, Busy

\* A step of the change r, the only thing under way.
LEMMA OnlyChange ==
    ASSUME Orderly, NEW r \in Changes, InFlight(r)
    PROVE  /\ \A s \in Changes : s # r => ~InFlight(s)
           /\ \A d \in Devices : saving[d] = None
BY DEF Orderly, OneAtATime

\* A step of r that leaves saving alone leaves at most r under way.
LEMMA StillOne ==
    ASSUME Typed, Orderly, NEW r \in Changes, InFlight(r),
           \A s \in Changes : s # r => pc'[s] = pc[s], UNCHANGED saving,
           InFlight(r)' => ChangeAgrees(r)', AllReadable'
    PROVE  Orderly'
<1>1. \A s \in Changes : InFlight(s)' => s = r
  BY OnlyChange DEF InFlight, Open
<1>2. \A d \in Devices : saving'[d] = None
  BY OnlyChange
<1> QED
  BY <1>1, <1>2 DEF Orderly, OneAtATime, SavingIsCurrent, ChangesAgree

\* The key a login drops is in discarded, all others stay.
LEMMA LoginReadable ==
    ASSUME Typed, Orderly, NEW d \in Devices, Login(d), ~overlapped'
    PROVE  Orderly'
<1>1. /\ \A e \in Devices : saving'[e] = None
      /\ \A r \in Changes : ~InFlight(r)'
  BY StartAlone DEF Login, Keep, InFlight, Open
<1>2. ASSUME NEW v \in Companions, encrypted'[v] # None
      PROVE  Readable(v)'
  <2>1. encrypted'[v] = encrypted[v] /\ password' = password /\ Readable(v)
    BY <1>2 DEF Login, Keep, account, Orderly, AllReadable
  <2>2. \A e \in Devices : e # d => private'[e] = private[e]
    BY DEF Login, Keep, Typed, TypeOK
  <2>3. discarded' = discarded \cup ({private[d]} \ {None})
    BY DEF Login, Keep
  <2> QED
    BY <1>2, <2>1, <2>2, <2>3 DEF Readable
<1> QED
  BY <1>1, <1>2 DEF Orderly, AllReadable, OneAtATime, SavingIsCurrent, ChangesAgree

LEMMA DeriveReadable ==
    ASSUME Typed, Orderly, NEW d \in Devices, DeriveChatKey(d), ~overlapped'
    PROVE  Orderly'
<1>1. /\ \A e \in Devices : saving[e] = None
      /\ \A r \in Changes : ~InFlight(r)'
  BY StartAlone DEF DeriveChatKey, InFlight, Open
<1>2. PICK v \in Companions :
        saving' = [saving EXCEPT ![d] = [peer |-> v, under |-> private[d]]]
  BY DEF DeriveChatKey
<1>3. /\ \A e \in Devices : e # d => saving'[e] = None
      /\ saving'[d].under = private[d]
  BY <1>1, <1>2 DEF Typed
<1>4. AllReadable'
  BY DEF DeriveChatKey, account, Orderly, AllReadable, Readable
<1>5. SavingIsCurrent'
  BY <1>3 DEF DeriveChatKey, SavingIsCurrent
<1> QED
  BY <1>1, <1>3, <1>4, <1>5 DEF Orderly, OneAtATime, ChangesAgree

\* A key is saved, or saving it fails.
LEMMA SaveReadable ==
    ASSUME Typed, Orderly, NEW d \in Devices, SaveChatKeys(d) \/ SaveFails(d)
    PROVE  Orderly'
<1>1. saving[d] # None
  BY DEF SaveChatKeys, SaveFails
<1>2. \A r \in Changes : ~InFlight(r)'
  BY <1>1 DEF SaveChatKeys, SaveFails, Orderly, OneAtATime, InFlight, Open
<1>3. \A e \in Devices : saving'[e] = None
  BY <1>1 DEF SaveChatKeys, SaveFails, Orderly, OneAtATime, Typed
<1>4. AllReadable'
  <2>1. CASE SaveFails(d)
    BY <2>1 DEF SaveFails, account, history, Orderly, AllReadable, Readable
  <2>2. CASE SaveChatKeys(d)
    <3> SUFFICES ASSUME NEW v \in Companions, encrypted'[v] # None
                 PROVE  Readable(v)'
      BY DEF AllReadable
    <3>1. CASE v = saving[d].peer
      <4>1. encrypted'[v] = private'[d]
        BY <2>2, <3>1, <1>1 DEF SaveChatKeys, Orderly, SavingIsCurrent, Typed, TypeOK
      <4> QED
        BY <4>1 DEF Readable
    <3>2. CASE v # saving[d].peer
      <4>1. encrypted'[v] = encrypted[v]
        BY <2>2, <3>2 DEF SaveChatKeys, Typed, TypeOK
      <4> QED
        BY <2>2, <4>1 DEF SaveChatKeys, account, history, Orderly, AllReadable, Readable
    <3> QED
      BY <3>1, <3>2
  <2> QED
    BY <2>1, <2>2
<1> QED
  BY <1>2, <1>3, <1>4 DEF Orderly, OneAtATime, SavingIsCurrent, ChangesAgree

LEMMA CollectReadable ==
    ASSUME Typed, Orderly, NEW r \in Changes, Collect(r), Undisturbed'
    PROVE  Orderly'
<1>1. PICK d \in Devices, old \in Passwords, new \in Passwords :
        /\ Start
        /\ old # new
        /\ Goto(r, "new", "check")
        /\ change' = [change EXCEPT ![r] =
              [device |-> d, old |-> old, new |-> new, held |-> private[d],
               collected |-> {v \in Companions : encrypted[v] = private[d]}]]
        /\ UNCHANGED <<account, keys, discarded, faults>>
  BY DEF Collect
<1>2. /\ \A e \in Devices : saving'[e] = None
      /\ \A s \in Changes : ~InFlight(s)
  BY <1>1, StartAlone DEF keys, Undisturbed
<1>3. pc'[r] = "check" /\ \A s \in Changes : s # r => pc'[s] = pc[s]
  BY <1>1 DEF Goto, Typed, TypeOK
<1>4. \A s \in Changes : InFlight(s)' => s = r
  BY <1>2, <1>3 DEF InFlight, Open
<1>5. change'[r] = [device |-> d, old |-> old, new |-> new, held |-> private[d],
                    collected |-> {v \in Companions : encrypted[v] = private[d]}]
  BY <1>1 DEF Typed
<1>6. change'[r].held = old
  BY <1>3, <1>5 DEF Undisturbed, StaleChange
<1>7. ChangeAgrees(r)'
  <2>1. encrypted' = encrypted /\ private' = private
    BY <1>1 DEF keys
  <2> QED
    BY <1>1, <1>3, <1>5, <1>6, <2>1 DEF ChangeAgrees, UnderHeld
<1>8. AllReadable'
  BY <1>1 DEF account, keys, Orderly, AllReadable, Readable
<1> QED
  BY <1>2, <1>4, <1>7, <1>8 DEF Orderly, OneAtATime, SavingIsCurrent, ChangesAgree

\* Once r has written the password, keys under the old one are those that the
\* device of r can read.
LEMMA WrittenReadable ==
    ASSUME Typed, Orderly, NEW r \in Changes, pc[r] \in {"write", "lateWrite"},
           SetPassword(r), UNCHANGED <<encrypted, private, discarded>>
    PROVE  AllReadable'
<1>1. password = private[change[r].device] /\ change[r].device \in Devices
  BY ChangeIsTyped DEF Orderly, ChangesAgree, ChangeAgrees, InFlight, Open, Typed
<1> QED
  BY <1>1 DEF Orderly, AllReadable, Readable

\* Once r has updated the keys, no key is under the old password.
LEMMA UpdatedReadable ==
    ASSUME Typed, Orderly, NEW r \in Changes, pc[r] \in {"update", "lateUpdate"},
           SetKeys(r), UNCHANGED <<password, private, discarded>>
    PROVE  /\ AllReadable'
           /\ \A v \in Companions : encrypted'[v] # change[r].held
<1>1. /\ change[r].collected = UnderHeld(r)
      /\ password = change[r].new
      /\ change[r].new # change[r].held
  BY DEF Orderly, ChangesAgree, ChangeAgrees, InFlight, Open
<1>2. ASSUME NEW v \in Companions
      PROVE  \/ encrypted'[v] = change[r].new
             \/ encrypted'[v] = encrypted[v] /\ encrypted[v] # change[r].held
  BY <1>1 DEF SetKeys, UnderHeld
<1>3. ASSUME NEW v \in Companions, encrypted'[v] # None
      PROVE  Readable(v)'
  BY <1>1, <1>2, <1>3 DEF Orderly, AllReadable, Readable
<1> QED
  BY <1>1, <1>2, <1>3 DEF AllReadable

LEMMA NextReadable == Typed /\ ReadableInv /\ [Next]_vars => ReadableInv'
<1> SUFFICES ASSUME Typed, Orderly, [Next]_vars, Undisturbed, Undisturbed'
             PROVE  Orderly'
  BY UndisturbedBefore DEF ReadableInv
<1>o. ~overlapped'
  BY DEF Undisturbed
<1>1. ASSUME NEW d \in Devices, Login(d) PROVE Orderly'
  BY <1>1, <1>o, LoginReadable
<1>2. ASSUME NEW d \in Devices, DeriveChatKey(d) PROVE Orderly'
  BY <1>2, <1>o, DeriveReadable
<1>3. ASSUME NEW d \in Devices, SaveChatKeys(d) \/ SaveFails(d) PROVE Orderly'
  BY <1>3, SaveReadable
<1>4. ASSUME NEW r \in Changes, Collect(r) PROVE Orderly'
  BY <1>4, CollectReadable
<1>5. ASSUME NEW r \in Changes, CheckOldHash(r) PROVE Orderly'
  <2>1. /\ InFlight(r) /\ ChangeAgrees(r)
        /\ change[r].old = change[r].held
    BY <1>5 DEF CheckOldHash, InFlight, Open, Orderly, ChangesAgree, Undisturbed,
               StaleChange
  <2>2. /\ pc'[r] = Checked(r) /\ pc[r] = "check"
        /\ \A s \in Changes : s # r => pc'[s] = pc[s]
    BY <1>5 DEF CheckOldHash, Goto, Typed, TypeOK
  <2>3. UNCHANGED <<password, encrypted, private, saving, change, discarded>>
    BY <1>5 DEF CheckOldHash, account, keys, history
  <2>4. (pc'[r] = "write" /\ password = change[r].held) \/ pc'[r] = "failed"
    BY <2>1, <2>2 DEF Checked
  <2>5. InFlight(r)' => ChangeAgrees(r)'
    BY <2>1, <2>2, <2>3, <2>4 DEF InFlight, Open, ChangeAgrees, UnderHeld
  <2>6. AllReadable'
    BY <2>3 DEF Orderly, AllReadable, Readable
  <2> QED
    BY <2>1, <2>2, <2>3, <2>5, <2>6, StillOne
<1>6. ASSUME NEW r \in Changes, WritePassword(r) PROVE Orderly'
  <2>1. /\ pc[r] = "write" /\ InFlight(r) /\ ChangeAgrees(r)
        /\ SetPassword(r)
        /\ UNCHANGED <<encrypted, private, saving, change, discarded>>
    BY <1>6 DEF WritePassword, Goto, keys, history, InFlight, Open, Orderly, ChangesAgree
  <2>2. /\ pc'[r] = IF change[r].collected = {} THEN "answer" ELSE "update"
        /\ \A s \in Changes : s # r => pc'[s] = pc[s]
    BY <1>6 DEF WritePassword, Goto, Typed, TypeOK
  <2>3. ChangeAgrees(r)'
    BY <2>1, <2>2 DEF ChangeAgrees, UnderHeld, SetPassword
  <2>4. AllReadable'
    BY <2>1, WrittenReadable
  <2> QED
    BY <2>1, <2>2, <2>3, <2>4, StillOne
<1>7. ASSUME NEW r \in Changes, UpdateChatKeys(r) PROVE Orderly'
  <2>1. /\ pc[r] = "update" /\ InFlight(r) /\ ChangeAgrees(r)
        /\ SetKeys(r)
        /\ UNCHANGED <<password, private, saving, change, discarded>>
    BY <1>7 DEF UpdateChatKeys, Goto, account, history, InFlight, Open, Orderly,
               ChangesAgree
  <2>2. pc'[r] = "answer" /\ \A s \in Changes : s # r => pc'[s] = pc[s]
    BY <1>7 DEF UpdateChatKeys, Goto, Typed, TypeOK
  <2>3. AllReadable' /\ \A v \in Companions : encrypted'[v] # change[r].held
    BY <2>1, UpdatedReadable
  <2>4. ChangeAgrees(r)'
    BY <2>1, <2>2, <2>3 DEF ChangeAgrees, UnderHeld
  <2> QED
    BY <2>1, <2>2, <2>3, <2>4, StillOne
<1>8. ASSUME NEW r \in Changes, Answer(r) PROVE Orderly'
  <2>1. /\ pc[r] = "answer" /\ InFlight(r) /\ ChangeAgrees(r)
        /\ UNCHANGED <<password, encrypted, saving, discarded>>
    BY <1>8 DEF Answer, Keep, Goto, account, history, InFlight, Open, Orderly, ChangesAgree
  <2>2. pc'[r] = "done" /\ \A s \in Changes : s # r => pc'[s] = pc[s]
    BY <1>8 DEF Answer, Keep, Goto, Typed, TypeOK
  <2>3. \A e \in Devices : e # change[r].device => private'[e] = private[e]
    BY <1>8 DEF Answer, Keep, Typed, TypeOK
  <2>4. ASSUME NEW v \in Companions, encrypted'[v] # None
        PROVE  Readable(v)'
    <3>1. Readable(v) /\ encrypted[v] # private[change[r].device]
      BY <2>1, <2>4 DEF Orderly, AllReadable, ChangeAgrees, UnderHeld
    <3> QED
      BY <2>1, <2>3, <3>1 DEF Readable
  <2>5. ~InFlight(r)'
    BY <2>2 DEF InFlight, Open
  <2> QED
    BY <2>1, <2>2, <2>4, <2>5, StillOne DEF AllReadable
<1>9. ASSUME NEW r \in Changes, ChangeFails(r) PROVE Orderly'
  <2>1. /\ InFlight(r) /\ ChangeAgrees(r)
        /\ UNCHANGED <<password, encrypted, private, saving, change, discarded>>
    BY <1>9 DEF ChangeFails, account, keys, history, InFlight, Orderly, ChangesAgree
  <2>2. /\ \/ pc[r] = "write" /\ pc'[r] = "lateWrite"
           \/ pc[r] = "update" /\ pc'[r] = "lateUpdate"
           \/ pc'[r] = "failed"
        /\ \A s \in Changes : s # r => pc'[s] = pc[s]
    BY <1>9 DEF ChangeFails, Open, Typed, TypeOK
  <2>3. InFlight(r)' => ChangeAgrees(r)'
    BY <2>1, <2>2 DEF InFlight, Open, ChangeAgrees, UnderHeld
  <2>4. AllReadable'
    BY <2>1 DEF Orderly, AllReadable, Readable
  <2> QED
    BY <2>1, <2>2, <2>3, <2>4, StillOne
<1>10. ASSUME NEW r \in Changes, Late(r) PROVE Orderly'
  <2>1. /\ pc[r] \in {"lateWrite", "lateUpdate"} /\ InFlight(r)
        /\ UNCHANGED <<private, saving, discarded>>
    BY <1>10 DEF Late, Goto, history, InFlight
  <2>2. pc'[r] = "failed" /\ \A s \in Changes : s # r => pc'[s] = pc[s]
    BY <1>10 DEF Late, Goto, Typed, TypeOK
  <2>3. ~InFlight(r)'
    BY <2>2 DEF InFlight, Open
  <2>4. AllReadable'
    <3>1. CASE pc[r] = "lateWrite" /\ SetPassword(r) /\ UNCHANGED encrypted
      BY <3>1, <2>1, WrittenReadable
    <3>2. CASE pc[r] = "lateUpdate" /\ SetKeys(r) /\ UNCHANGED account
      BY <3>2, <2>1, UpdatedReadable DEF account
    <3>3. CASE UNCHANGED <<account, encrypted>>
      BY <3>3, <2>1 DEF account, Orderly, AllReadable, Readable
    <3> QED
      BY <1>10, <3>1, <3>2, <3>3 DEF Late, Goto
  <2> QED
    BY <2>1, <2>2, <2>3, <2>4, StillOne
<1>11. CASE UNCHANGED vars
  BY <1>11 DEF vars, Orderly, AllReadable, Readable, OneAtATime, SavingIsCurrent,
              ChangesAgree, ChangeAgrees, UnderHeld, InFlight, Open
<1> QED
  BY <1>1, <1>2, <1>3, <1>4, <1>5, <1>6, <1>7, <1>8, <1>9, <1>10, <1>11 DEF Next

\* Whichever calls of a password change fail or take effect late, every stored
\* chat key can be decrypted with the password or with a key a device keeps or
\* has dropped, as long as the user does one thing at a time and changes the
\* password from devices that are up to date.
THEOREM StayReadable == Spec => []KeysStayReadable
<1>1. ReadableInv => KeysStayReadable
  BY DEF ReadableInv, Undisturbed, Orderly, AllReadable, Readable, KeysStayReadable
<1> QED
  BY <1>1, InitTyped, NextTyped, InitReadable, NextReadable, PTL DEF Spec
=============================================================================
