-------------------------- MODULE GroupKeysProofs --------------------------
(***************************************************************************)
(* Proofs about GroupKeys, for any set of users and requests and any       *)
(* number of failing statements and crashes.                               *)
(***************************************************************************)
EXTENDS GroupKeys, FiniteSetTheorems, TLAPS

-----------------------------------------------------------------------------
(* Type correctness.                                                       *)

\* The effects of the statements keep the types of the tables.
TablesOK ==
    /\ membership \in [Users -> {"none", "active", "left"}]
    /\ leftAt \in [Users -> Nat]
    /\ seeds \in [Users -> Nat \cup {NoSeed}]
    /\ keyVersion \in Nat
    /\ needsRotation \in BOOLEAN
    /\ rotationBy \in Users \cup {None}

RequestsOK ==
    /\ pc \in [Requests -> Steps]
    /\ call \in [Requests -> Call \cup {None}]
    /\ \A r \in Requests : pc[r] # "new" => call[r] # None

\* The arguments of a request that has begun are a Call.
LEMMA CallIsTyped ==
    ASSUME RequestsOK, NEW r \in Requests, pc[r] # "new"
    PROVE  /\ call[r] \in Call
           /\ call[r].by \in Users
           /\ call[r].user \in Users
           /\ call[r].todo \subseteq Users
           /\ call[r].seedFor \subseteq Users
           /\ call[r].version \in Nat
BY DEF RequestsOK, Call

LEMMA StatementsKeepTypes ==
    ASSUME TablesOK, NEW u \in Users, NEW v \in Nat,
           InsertMember(u) \/ PutSeed(u, v) \/ MarkLeft(u) \/ TakeLock(u)
             \/ Bump \/ Unlock \/ UNCHANGED tables
    PROVE  TablesOK'
<1>1. CASE InsertMember(u)
  BY <1>1 DEF InsertMember, TablesOK, group
<1>2. CASE PutSeed(u, v)
  BY <1>2 DEF PutSeed, TablesOK, members, group
<1>3. CASE MarkLeft(u)
  BY <1>3 DEF MarkLeft, TablesOK, tables
<1>4. CASE TakeLock(u)
  BY <1>4 DEF TakeLock, TablesOK, members
<1>5. CASE Bump
  <2>1. keyVersion' \in Nat
    BY <1>5 DEF Bump, TablesOK
  <2> QED
    BY <2>1, <1>5 DEF Bump, TablesOK, members
<1>6. CASE Unlock
  BY <1>6 DEF Unlock, TablesOK, members
<1>7. CASE UNCHANGED tables
  BY <1>7 DEF TablesOK, tables
<1> QED
  BY <1>1, <1>2, <1>3, <1>4, <1>5, <1>6, <1>7

LEMMA BeginKeepsTypes ==
    ASSUME RequestsOK, keyVersion \in Nat, NEW r \in Requests,
           NEW op \in {"create", "add", "remove", "leave", "seed"},
           NEW by \in Users, NEW user \in Users, NEW step \in Steps,
           Begin(r, op, by, user, step)
    PROVE  RequestsOK'
<1>1. PICK v \in IF op = "seed" THEN ClientVersions ELSE {0},
           S \in IF op = "create" THEN {X \in SUBSET Users : by \in X} ELSE {{}} :
        \E T \in SUBSET S :
           call' = [call EXCEPT ![r] = [op |-> op, by |-> by, user |-> user,
                                        todo |-> S, seedFor |-> T, version |-> v]]
  BY DEF Begin
<1>v. v \in Nat
  BY VersionsAssumption
<1>S. S \in SUBSET Users
  <2>1. CASE op = "create"
    BY <2>1
  <2>2. CASE op # "create"
    BY <2>2
  <2> QED
    BY <2>1, <2>2
<1>T. PICK T \in SUBSET S :
        call' = [call EXCEPT ![r] = [op |-> op, by |-> by, user |-> user,
                                     todo |-> S, seedFor |-> T, version |-> v]]
  BY <1>1
<1> DEFINE c == [op |-> op, by |-> by, user |-> user,
                 todo |-> S, seedFor |-> T, version |-> v]
<1>2. c \in Call /\ c # None
  BY <1>v, <1>S, NoneAssumption DEF Call
<1>3. call' = [call EXCEPT ![r] = c] /\ pc' = [pc EXCEPT ![r] = step]
  BY <1>T DEF Begin
<1>4. pc' \in [Requests -> Steps] /\ call' \in [Requests -> Call \cup {None}]
  BY <1>2, <1>3 DEF RequestsOK
<1>5. ASSUME NEW s \in Requests, pc'[s] # "new"
      PROVE  call'[s] # None
  <2>1. CASE s = r
    BY <2>1, <1>2, <1>3 DEF RequestsOK
  <2>2. CASE s # r
    BY <2>2, <1>3, <1>5 DEF RequestsOK
  <2> QED
    BY <2>1, <2>2
<1> QED
  BY <1>4, <1>5 DEF RequestsOK

\* A request that goes on keeps the types, with its locals changed or not.
LEMMA GotoKeepsTypes ==
    ASSUME RequestsOK, NEW r \in Requests, pc[r] # "new", NEW step \in Steps,
           NEW c \in Call, Goto(r, step),
           UNCHANGED call \/ call' = [call EXCEPT ![r] = c]
    PROVE  RequestsOK'
<1>1. c # None
  BY NoneAssumption
<1>2. pc' \in [Requests -> Steps] /\ call' \in [Requests -> Call \cup {None}]
  BY DEF RequestsOK, Goto
<1>3. ASSUME NEW s \in Requests, pc'[s] # "new"
      PROVE  call'[s] # None
  <2>1. CASE s = r
    BY <1>1, <2>1 DEF RequestsOK
  <2>2. CASE s # r
    BY <2>2, <1>3 DEF RequestsOK, Goto
  <2> QED
    BY <2>1, <2>2
<1> QED
  BY <1>2, <1>3 DEF RequestsOK

\* TypeOK is TablesOK, RequestsOK and the types of the fault counters.
LEMMA TypeParts ==
    /\ TypeOK <=> TablesOK /\ RequestsOK /\ dbErrors \in Nat /\ crashes \in Nat
    /\ TypeOK' <=> TablesOK' /\ RequestsOK' /\ dbErrors' \in Nat /\ crashes' \in Nat
BY DEF TypeOK, TablesOK, RequestsOK

LEMMA HandlerKeepsTypes ==
    ASSUME TypeOK, NEW r \in Requests, Handler(r)
    PROVE  TypeOK'
<1> USE TypeParts
<1>0. pc[r] # "new" /\ UNCHANGED faults
  BY DEF Handler, AddMembers, CheckUser, Insert, ReadVersion, SaveSeed,
         Depart, Acquire, Increment, Release
<1>c. /\ call[r] \in Call /\ call[r].by \in Users /\ call[r].user \in Users
      /\ call[r].todo \subseteq Users /\ call[r].seedFor \subseteq Users
      /\ call[r].version \in Nat
  BY <1>0, CallIsTyped
<1>f. dbErrors' \in Nat /\ crashes' \in Nat
  BY <1>0 DEF faults
<1>1. CASE AddMembers(r)
  <2>1. PICK u \in call[r].todo :
            /\ InsertMember(u)
            /\ call' = [call EXCEPT ![r].todo =
                           IF @ = {u} THEN call[r].seedFor ELSE @ \ {u}]
    BY <1>1 DEF AddMembers
  <2>2. PICK step \in Steps : Goto(r, step)
    BY <1>1 DEF AddMembers, Steps
  <2> DEFINE S == IF call[r].todo = {u} THEN call[r].seedFor ELSE call[r].todo \ {u}
  <2>3. [call[r] EXCEPT !.todo = S] \in Call
    BY <1>c DEF Call
  <2>4. call' = [call EXCEPT ![r] = [call[r] EXCEPT !.todo = S]]
    BY <2>1
  <2>5. TablesOK'
    BY <2>1, <1>c, StatementsKeepTypes, 0 \in Nat
  <2>6. RequestsOK'
    BY <1>0, <2>2, <2>3, <2>4, GotoKeepsTypes
  <2> QED
    BY <1>f, <2>5, <2>6
<1>2. CASE CheckUser(r)
  <2>1. PICK step \in Steps : Goto(r, step)
    BY <1>2 DEF CheckUser, Steps
  <2>2. UNCHANGED tables /\ UNCHANGED call
    BY <1>2 DEF CheckUser
  <2> QED
    BY <1>0, <1>c, <1>f, <2>1, <2>2, StatementsKeepTypes, GotoKeepsTypes
<1>3. CASE Insert(r)
  BY <1>0, <1>c, <1>f, <1>3, StatementsKeepTypes, GotoKeepsTypes DEF Insert, Steps
<1>4. CASE ReadVersion(r)
  <2>1. [call[r] EXCEPT !.version = keyVersion] \in Call
    BY <1>c DEF Call, TablesOK
  <2>2. call' = [call EXCEPT ![r] = [call[r] EXCEPT !.version = keyVersion]]
    BY <1>4 DEF ReadVersion
  <2>3. Goto(r, "saveSeed") /\ "saveSeed" \in Steps /\ UNCHANGED tables
    BY <1>4 DEF ReadVersion, Steps
  <2>4. RequestsOK'
    BY <1>0, <2>1, <2>2, <2>3, GotoKeepsTypes
  <2> QED
    BY <1>c, <1>f, <2>3, <2>4, StatementsKeepTypes
<1>5. CASE SaveSeed(r)
  <2>1. CASE call[r].op = "create"
    <3>1. PICK u \in call[r].todo :
              /\ PutSeed(u, 0)
              /\ call' = [call EXCEPT ![r].todo = @ \ {u}]
              /\ Goto(r, IF call[r].todo = {u} THEN "done" ELSE "saveSeed")
      BY <1>5, <2>1 DEF SaveSeed
    <3>2. TablesOK'
      BY <3>1, <1>c, StatementsKeepTypes, 0 \in Nat
    <3>3. [call[r] EXCEPT !.todo = @ \ {u}] \in Call
      BY <1>c DEF Call
    <3>4. call' = [call EXCEPT ![r] = [call[r] EXCEPT !.todo = @ \ {u}]]
      BY <3>1
    <3>5. (IF call[r].todo = {u} THEN "done" ELSE "saveSeed") \in Steps
      BY DEF Steps
    <3>6. RequestsOK'
      BY <1>0, <3>1, <3>3, <3>4, <3>5, GotoKeepsTypes
    <3> QED
      BY <1>f, <3>2, <3>6
  <2>2. CASE call[r].op # "create"
    <3>1. PutSeed(call[r].user, call[r].version) /\ Goto(r, "done") /\ UNCHANGED call
      BY <1>5, <2>2 DEF SaveSeed
    <3> QED
      BY <1>0, <1>c, <1>f, <3>1, StatementsKeepTypes, GotoKeepsTypes DEF Steps
  <2> QED
    BY <2>1, <2>2
<1>6. CASE Depart(r)
  BY <1>0, <1>c, <1>f, <1>6, StatementsKeepTypes, GotoKeepsTypes DEF Depart, Steps
<1>7. CASE Acquire(r)
  <2>1. \/ TakeLock(call[r].by) /\ Goto(r, "increment")
        \/ UNCHANGED tables /\ Goto(r, "done")
    BY <1>7 DEF Acquire
  <2>2. UNCHANGED call
    BY <1>7 DEF Acquire
  <2> QED
    BY <1>0, <1>c, <1>f, <2>1, <2>2, StatementsKeepTypes, GotoKeepsTypes DEF Steps
<1>8. CASE Increment(r)
  BY <1>0, <1>c, <1>f, <1>8, StatementsKeepTypes, GotoKeepsTypes DEF Increment, Steps
<1>9. CASE Release(r)
  BY <1>0, <1>c, <1>f, <1>9, StatementsKeepTypes, GotoKeepsTypes DEF Release, Steps
<1> QED
  BY <1>1, <1>2, <1>3, <1>4, <1>5, <1>6, <1>7, <1>8, <1>9 DEF Handler

LEMMA RequestKeepsTypes ==
    ASSUME TypeOK, NEW r \in Requests, Request(r)
    PROVE  TypeOK'
<1> USE TypeParts
<1>1. PICK op \in {"create", "add", "remove", "leave", "seed"},
           by \in Users, user \in Users, step \in Steps :
              Begin(r, op, by, user, step)
  BY UsersAssumption
     DEF Request, BeginCreate, BeginAdd, BeginRemove, BeginLeave, BeginSeed, Steps
<1>2. RequestsOK'
  BY <1>1, BeginKeepsTypes DEF TablesOK
<1>3. UNCHANGED <<tables, faults>>
  BY <1>1 DEF Begin
<1>4. TablesOK'
  BY <1>1, <1>3, StatementsKeepTypes, 0 \in Nat
<1> QED
  BY <1>2, <1>3, <1>4 DEF faults

\* A statement that fails takes one of the effects, or none.
LEMMA FailureEffects ==
    ASSUME TypeOK, NEW r \in Requests, StatementFails(r)
    PROVE  \E u \in Users, v \in Nat :
              InsertMember(u) \/ PutSeed(u, v) \/ MarkLeft(u) \/ TakeLock(u)
                \/ Bump \/ Unlock \/ UNCHANGED tables
<1> USE TypeParts
<1>1. pc[r] # "new"
  BY DEF StatementFails, InFlight
<1>c. /\ call[r].by \in Users /\ call[r].user \in Users
      /\ call[r].todo \subseteq Users /\ call[r].seedFor \subseteq Users
      /\ call[r].version \in Nat
  BY <1>1, CallIsTyped
<1>2. \/ UNCHANGED tables
      \/ \E u \in call[r].todo : InsertMember(u)
      \/ InsertMember(call[r].user)
      \/ \E u \in call[r].todo : PutSeed(u, 0)
      \/ PutSeed(call[r].user, call[r].version)
      \/ MarkLeft(call[r].user)
      \/ TakeLock(call[r].by)
      \/ Bump
      \/ Unlock
  BY DEF StatementFails
<1> QED
  BY <1>c, <1>2, 0 \in Nat

LEMMA FailureKeepsTypes ==
    ASSUME TypeOK, NEW r \in Requests, StatementFails(r)
    PROVE  TypeOK'
<1> USE TypeParts
<1>1. TablesOK'
  BY FailureEffects, StatementsKeepTypes
<1>2. pc[r] # "new" /\ UNCHANGED call
  BY DEF StatementFails, InFlight
<1>3. PICK step \in Steps : Goto(r, step)
  BY DEF StatementFails, Steps
<1>4. RequestsOK'
  BY <1>2, <1>3, CallIsTyped, GotoKeepsTypes
<1>5. dbErrors' = dbErrors + 1 /\ crashes' = crashes
  BY DEF StatementFails
<1> QED
  BY <1>1, <1>4, <1>5

LEMMA CrashKeepsTypes ==
    ASSUME TypeOK, Crash
    PROVE  TypeOK'
<1> USE TypeParts
<1>1. TablesOK'
  BY StatementsKeepTypes, UsersAssumption, 0 \in Nat DEF Crash
<1>2. RequestsOK'
  BY DEF Crash, RequestsOK, Steps, InFlight
<1>3. dbErrors' = dbErrors /\ crashes' = crashes + 1
  BY DEF Crash
<1> QED
  BY <1>1, <1>2, <1>3

\* Every step keeps the types.
LEMMA TypeStep ==
    ASSUME TypeOK, [Next]_vars
    PROVE  TypeOK'
<1>1. CASE \E r \in Requests : Request(r)
  BY <1>1, RequestKeepsTypes
<1>2. CASE \E r \in Requests : Handler(r)
  BY <1>2, HandlerKeepsTypes
<1>3. CASE \E r \in Requests : StatementFails(r)
  BY <1>3, FailureKeepsTypes
<1>4. CASE Crash
  BY <1>4, CrashKeepsTypes
<1>5. CASE UNCHANGED vars
  BY <1>5 DEF vars, TypeOK
<1> QED
  BY <1>1, <1>2, <1>3, <1>4, <1>5 DEF Next

\* Every variable keeps its type in every reachable state.
THEOREM TypeCorrect == Spec => []TypeOK
<1>1. Init => TypeOK
  <2> SUFFICES ASSUME Init PROVE TypeOK
    OBVIOUS
  <2>1. /\ membership \in [Users -> {"none", "active", "left"}]
        /\ leftAt \in [Users -> Nat]
        /\ seeds \in [Users -> Nat \cup {NoSeed}]
    BY DEF Init
  <2>2. keyVersion \in Nat /\ dbErrors \in Nat /\ crashes \in Nat
    BY DEF Init
  <2>3. needsRotation \in BOOLEAN /\ rotationBy \in Users \cup {None}
    BY DEF Init
  <2>4. /\ pc \in [Requests -> Steps]
        /\ call \in [Requests -> Call \cup {None}]
        /\ \A r \in Requests : pc[r] # "new" => call[r] # None
    BY DEF Init, Steps
  <2> QED
    BY <2>1, <2>2, <2>3, <2>4 DEF TypeOK
<1>2. TypeOK /\ [Next]_vars => TypeOK'
  BY TypeStep
<1> QED
  BY <1>1, <1>2, PTL DEF Spec

-----------------------------------------------------------------------------
(* The rotation.                                                           *)

\* The lock holder finds the group still marked: only it clears the mark.
IncrementIsMarked == \A r \in Requests : pc[r] = "increment" => needsRotation

\* Departures are in the past.
DeparturesArePast == \A u \in Users : leftAt[u] <= keyVersion

\* The inductive invariant of the lock, the mark and the departures.
RotationInv ==
    /\ RotationIsExclusive
    /\ IncrementIsMarked
    /\ DeparturesArePast
    /\ DepartureIsRemembered

\* An effect that leaves version and lock alone, keeps the mark, and sets it
\* when it records a departure.
HarmlessEffect ==
    /\ UNCHANGED <<keyVersion, rotationBy>>
    /\ needsRotation => needsRotation'
    /\ \A u \in Users : \/ leftAt'[u] = keyVersion /\ needsRotation'
                        \/ /\ leftAt'[u] = leftAt[u]
                           /\ membership'[u] = "left" => membership[u] = "left"

\* No handler enters the rotation.
NobodyEnters ==
    \A r \in Requests : /\ Rotating(r)' => Rotating(r)
                        /\ pc'[r] = "increment" => pc[r] = "increment"

LEMMA HarmlessKeepsRotation ==
    ASSUME TypeOK, RotationInv, HarmlessEffect, NobodyEnters
    PROVE  RotationInv'
<1>1. RotationIsExclusive'
  BY DEF RotationInv, RotationIsExclusive, HarmlessEffect, NobodyEnters
<1>2. IncrementIsMarked'
  BY DEF RotationInv, IncrementIsMarked, HarmlessEffect, NobodyEnters
<1>3. DepartureIsRemembered'
  BY DEF RotationInv, DepartureIsRemembered, HarmlessEffect
<1>4. DeparturesArePast'
  BY DEF RotationInv, DeparturesArePast, HarmlessEffect, TypeOK
<1> QED
  BY <1>1, <1>2, <1>3, <1>4 DEF RotationInv

LEMMA MembershipEffectsAreHarmless ==
    ASSUME TypeOK, NEW u \in Users, NEW v \in Nat,
           InsertMember(u) \/ PutSeed(u, v) \/ MarkLeft(u) \/ UNCHANGED tables
    PROVE  HarmlessEffect
<1>1. CASE InsertMember(u)
  BY <1>1 DEF InsertMember, HarmlessEffect, TypeOK, group
<1>2. CASE PutSeed(u, v)
  BY <1>2 DEF PutSeed, HarmlessEffect, members, group
<1>3. CASE MarkLeft(u)
  BY <1>3 DEF MarkLeft, HarmlessEffect, TypeOK, tables
<1>4. CASE UNCHANGED tables
  BY <1>4 DEF HarmlessEffect, tables
<1> QED
  BY <1>1, <1>2, <1>3, <1>4

\* A request that moves on to a step outside the rotation.
LEMMA GotoOutsideRotation ==
    ASSUME TypeOK, NEW r \in Requests, NEW step \in Steps \ {"increment", "release"},
           Goto(r, step)
    PROVE  NobodyEnters
BY DEF Goto, NobodyEnters, Rotating, TypeOK

LEMMA RequestKeepsRotation ==
    ASSUME TypeOK, RotationInv, NEW r \in Requests, Request(r)
    PROVE  RotationInv'
<1>1. PICK op \in {"create", "add", "remove", "leave", "seed"},
           by \in Users, user \in Users,
           step \in Steps \ {"increment", "release"} :
              Begin(r, op, by, user, step)
  BY UsersAssumption
     DEF Request, BeginCreate, BeginAdd, BeginRemove, BeginLeave, BeginSeed, Steps
<1>2. Goto(r, step) /\ UNCHANGED tables
  BY <1>1 DEF Begin, Goto
<1>3. HarmlessEffect
  BY <1>1, <1>2, MembershipEffectsAreHarmless, 0 \in Nat
<1> QED
  BY <1>2, <1>3, GotoOutsideRotation, HarmlessKeepsRotation

\* Every step of a handler before tryKeyRotation.
LEMMA EarlyStepsKeepRotation ==
    ASSUME TypeOK, RotationInv, NEW r \in Requests,
           AddMembers(r) \/ CheckUser(r) \/ Insert(r) \/ ReadVersion(r)
             \/ SaveSeed(r) \/ Depart(r)
    PROVE  RotationInv'
<1>0. pc[r] # "new" /\ RequestsOK
  BY TypeParts DEF AddMembers, CheckUser, Insert, ReadVersion, SaveSeed, Depart
<1>c. /\ call[r].by \in Users /\ call[r].user \in Users
      /\ call[r].todo \subseteq Users /\ call[r].seedFor \subseteq Users
      /\ call[r].version \in Nat
  BY <1>0, CallIsTyped
<1>1. \E step \in Steps \ {"increment", "release"} : Goto(r, step)
  BY DEF AddMembers, CheckUser, Insert, ReadVersion, SaveSeed, Depart, Steps
<1>2. \E u \in Users, v \in Nat :
         InsertMember(u) \/ PutSeed(u, v) \/ MarkLeft(u) \/ UNCHANGED tables
  BY <1>c, 0 \in Nat DEF AddMembers, CheckUser, Insert, ReadVersion, SaveSeed, Depart
<1>3. HarmlessEffect
  BY <1>2, MembershipEffectsAreHarmless
<1> QED
  BY <1>1, <1>3, GotoOutsideRotation, HarmlessKeepsRotation

\* The lock is taken only when nobody rotates, and the group is marked.
LEMMA AcquireKeepsRotation ==
    ASSUME TypeOK, RotationInv, NEW r \in Requests, NEW u \in Users,
           LockFree, TakeLock(u), Goto(r, "increment") \/ Goto(r, "done")
    PROVE  RotationInv'
<1>1. \A s \in Requests : ~Rotating(s)
  BY DEF LockFree, RotationInv, RotationIsExclusive
<1>2. rotationBy' # None /\ needsRotation' /\ UNCHANGED <<membership, leftAt, keyVersion>>
  BY UsersAssumption DEF TakeLock, LockFree, members
<1>3. \A s \in Requests : Rotating(s)' => s = r
  BY <1>1 DEF Goto, Rotating, TypeOK
<1>4. RotationIsExclusive'
  BY <1>2, <1>3 DEF RotationIsExclusive
<1>5. IncrementIsMarked'
  BY <1>2 DEF IncrementIsMarked
<1>6. DepartureIsRemembered' /\ DeparturesArePast'
  BY <1>2 DEF DepartureIsRemembered, DeparturesArePast, RotationInv
<1> QED
  BY <1>4, <1>5, <1>6 DEF RotationInv

\* Clearing the mark is right because the version passes every departure.
LEMMA BumpKeepsRotation ==
    ASSUME TypeOK, RotationInv, NEW r \in Requests,
           pc[r] = "increment", Bump, Goto(r, "release")
    PROVE  RotationInv'
<1>1. \A s \in Requests : Rotating(s) => s = r
  BY DEF RotationInv, RotationIsExclusive, Rotating
<1>2. RotationIsExclusive'
  <2>1. rotationBy' # None
    BY DEF Bump, RotationInv, RotationIsExclusive, Rotating
  <2>2. \A s \in Requests : Rotating(s)' => s = r
    BY <1>1 DEF Goto, Rotating, TypeOK
  <2> QED
    BY <2>1, <2>2 DEF RotationIsExclusive
<1>3. IncrementIsMarked'
  <2>1. \A s \in Requests : pc'[s] # "increment"
    BY <1>1 DEF Goto, Rotating, TypeOK
  <2> QED
    BY <2>1 DEF IncrementIsMarked
<1>4. DepartureIsRemembered' /\ DeparturesArePast'
  <2>1. \A u \in Users : leftAt'[u] = leftAt[u] /\ leftAt[u] \in Nat
    BY DEF Bump, members, TypeOK
  <2>2. \A u \in Users : leftAt[u] < keyVersion'
    BY <2>1 DEF RotationInv, DeparturesArePast, Bump, TypeOK
  <2>3. keyVersion' \in Nat
    BY DEF Bump, TypeOK
  <2> QED
    BY <2>1, <2>2, <2>3 DEF DepartureIsRemembered, DeparturesArePast
<1> QED
  BY <1>2, <1>3, <1>4 DEF RotationInv

\* ReleaseRotationLock is executed by the only handler that rotates.
LEMMA UnlockKeepsRotation ==
    ASSUME TypeOK, RotationInv, NEW r \in Requests,
           pc[r] = "release", Unlock, Goto(r, "done")
    PROVE  RotationInv'
<1>1. \A s \in Requests : ~Rotating(s)'
  BY DEF RotationInv, RotationIsExclusive, Rotating, Goto, TypeOK
<1>2. RotationIsExclusive' /\ IncrementIsMarked'
  BY <1>1 DEF RotationIsExclusive, IncrementIsMarked, Rotating
<1>3. DepartureIsRemembered' /\ DeparturesArePast'
  BY DEF RotationInv, DepartureIsRemembered, DeparturesArePast, Unlock, members
<1> QED
  BY <1>2, <1>3 DEF RotationInv

LEMMA HandlerKeepsRotation ==
    ASSUME TypeOK, RotationInv, NEW r \in Requests, Handler(r)
    PROVE  RotationInv'
<1>1. CASE Acquire(r)
  <2>1. CASE LockFree
    <3>1. call[r].by \in Users
      BY <1>1, TypeParts, CallIsTyped DEF Acquire
    <3>2. TakeLock(call[r].by) /\ Goto(r, "increment")
      BY <1>1, <2>1 DEF Acquire
    <3> QED
      BY <2>1, <3>1, <3>2, AcquireKeepsRotation
  <2>2. CASE ~LockFree
    <3>1. UNCHANGED tables /\ Goto(r, "done")
      BY <1>1, <2>2 DEF Acquire
    <3>2. HarmlessEffect
      BY <3>1 DEF HarmlessEffect, tables
    <3>3. NobodyEnters
      BY <3>1, GotoOutsideRotation DEF Steps
    <3> QED
      BY <3>2, <3>3, HarmlessKeepsRotation
  <2> QED
    BY <2>1, <2>2
<1>2. CASE Increment(r)
  BY <1>2, BumpKeepsRotation DEF Increment
<1>3. CASE Release(r)
  BY <1>3, UnlockKeepsRotation DEF Release
<1>4. CASE AddMembers(r) \/ CheckUser(r) \/ Insert(r) \/ ReadVersion(r)
             \/ SaveSeed(r) \/ Depart(r)
  BY <1>4, EarlyStepsKeepRotation
<1> QED
  BY <1>1, <1>2, <1>3, <1>4 DEF Handler

LEMMA FailureKeepsRotation ==
    ASSUME TypeOK, RotationInv, NEW r \in Requests, StatementFails(r)
    PROVE  RotationInv'
<1>0. pc[r] # "new" /\ RequestsOK
  BY TypeParts DEF StatementFails, InFlight
<1>c. /\ call[r].by \in Users /\ call[r].user \in Users
      /\ call[r].todo \subseteq Users /\ call[r].seedFor \subseteq Users
      /\ call[r].version \in Nat
  BY <1>0, CallIsTyped
<1>1. CASE UNCHANGED tables
  <2>1. HarmlessEffect
    BY <1>1 DEF HarmlessEffect, tables
  <2>2. \/ \E step \in Steps \ {"increment", "release"} : Goto(r, step)
        \/ pc[r] \in {"increment", "release"} /\ Goto(r, "release")
    BY DEF StatementFails, Steps
  <2>3. NobodyEnters
    <3>1. CASE pc[r] \in {"increment", "release"} /\ Goto(r, "release")
      BY <3>1 DEF Goto, NobodyEnters, Rotating, TypeOK
    <3> QED
      BY <2>2, <3>1, GotoOutsideRotation
  <2> QED
    BY <2>1, <2>3, HarmlessKeepsRotation
<1>2. CASE /\ Goto(r, "failed")
           /\ \E u \in Users, v \in Nat :
                 InsertMember(u) \/ PutSeed(u, v) \/ MarkLeft(u)
  BY <1>2, MembershipEffectsAreHarmless, GotoOutsideRotation, HarmlessKeepsRotation
     DEF Steps
<1>3. CASE pc[r] = "acquire" /\ LockFree /\ TakeLock(call[r].by)
  <2>1. Goto(r, "done")
    BY <1>3 DEF StatementFails
  <2> QED
    BY <1>3, <1>c, <2>1, AcquireKeepsRotation
<1>4. CASE pc[r] = "increment" /\ Bump
  <2>1. Goto(r, "release")
    BY <1>4 DEF StatementFails
  <2> QED
    BY <1>4, <2>1, BumpKeepsRotation
<1>5. CASE pc[r] = "release" /\ Unlock
  <2>1. Goto(r, "done")
    BY <1>5 DEF StatementFails
  <2> QED
    BY <1>5, <2>1, UnlockKeepsRotation
<1>6. CASE /\ pc[r] \in {"addMembers", "insert", "saveSeed", "depart"}
           /\ \/ \E u \in call[r].todo : InsertMember(u)
              \/ InsertMember(call[r].user)
              \/ \E u \in call[r].todo : PutSeed(u, 0)
              \/ PutSeed(call[r].user, call[r].version)
              \/ MarkLeft(call[r].user)
  <2>1. Goto(r, "failed")
    BY <1>6 DEF StatementFails
  <2>2. \E u \in Users, v \in Nat : InsertMember(u) \/ PutSeed(u, v) \/ MarkLeft(u)
    BY <1>6, <1>c, 0 \in Nat
  <2> QED
    BY <1>2, <2>1, <2>2
<1> QED
  BY <1>1, <1>3, <1>4, <1>5, <1>6 DEF StatementFails

LEMMA CrashKeepsRotation ==
    ASSUME TypeOK, RotationInv, Crash
    PROVE  RotationInv'
<1>1. HarmlessEffect
  BY DEF Crash, HarmlessEffect, tables
<1>2. NobodyEnters
  BY DEF Crash, NobodyEnters, Rotating, TypeOK
<1> QED
  BY <1>1, <1>2, HarmlessKeepsRotation

\* RotationInv holds in every reachable state.
LEMMA RotationInvariant == Spec => []RotationInv
<1>1. Init => RotationInv
  BY DEF Init, RotationInv, RotationIsExclusive, IncrementIsMarked, Rotating,
         DeparturesArePast, DepartureIsRemembered
<1>2. TypeOK /\ RotationInv /\ [Next]_vars => RotationInv'
  <2> SUFFICES ASSUME TypeOK, RotationInv, [Next]_vars PROVE RotationInv'
    OBVIOUS
  <2>1. CASE \E r \in Requests : Request(r)
    BY <2>1, RequestKeepsRotation
  <2>2. CASE \E r \in Requests : Handler(r)
    BY <2>2, HandlerKeepsRotation
  <2>3. CASE \E r \in Requests : StatementFails(r)
    BY <2>3, FailureKeepsRotation
  <2>4. CASE Crash
    BY <2>4, CrashKeepsRotation
  <2>5. CASE UNCHANGED vars
    BY <2>5 DEF vars, RotationInv, RotationIsExclusive, IncrementIsMarked, Rotating,
                DeparturesArePast, DepartureIsRemembered
  <2> QED
    BY <2>1, <2>2, <2>3, <2>4, <2>5 DEF Next
<1> QED
  BY <1>1, <1>2, TypeCorrect, PTL DEF Spec

\* tryKeyRotation: never two handlers between TryAcquireRotationLock and
\* ReleaseRotationLock, whatever fails or crashes.
THEOREM RotationExclusive == Spec => []RotationIsExclusive
<1>1. RotationInv => RotationIsExclusive
  BY DEF RotationInv
<1> QED
  BY <1>1, RotationInvariant, PTL

\* A departure is followed by an increment or leaves the group marked, so the
\* next handler that gets the lock rotates: no departure is forgotten.
THEOREM DepartureRemembered == Spec => []DepartureIsRemembered
<1>1. RotationInv => DepartureIsRemembered
  BY DEF RotationInv
<1> QED
  BY <1>1, RotationInvariant, PTL

-----------------------------------------------------------------------------
(* The version against the departures and the seeds.                       *)

SeedSteps == {"saveSeed", "done", "failed"}

\* The version a request keeps for the seed it will save was reached; only a
\* client's own save comes with one of its own, and reads none later.
VersionsAreReached ==
    \A r \in Requests : pc[r] # "new" =>
        IF call[r].op = "seed" THEN pc[r] \in SeedSteps
                               ELSE call[r].version <= keyVersion

\* The versions a seed of the user may be stored under.
Allowed(u, v) == v <= keyVersion \/ NamedByClient(u, v)

\* What any step does to the tables, with the facts its guards provide.
Effect(u, v) ==
    \/ InsertMember(u) \/ PutSeed(u, v) \/ MarkLeft(u) \/ TakeLock(u)
    \/ Bump /\ needsRotation
    \/ Unlock \/ UNCHANGED tables

LEMMA StepEffects ==
    ASSUME TypeOK, RotationInv, VersionsAreReached, [Next]_vars
    PROVE  \E u \in Users, v \in Nat : Allowed(u, v) /\ Effect(u, v)
<1>k. 0 \in Nat /\ \A u \in Users : Allowed(u, 0)
  BY DEF TypeOK, Allowed
<1>t. ASSUME UNCHANGED tables
      PROVE  \E u \in Users, v \in Nat : Allowed(u, v) /\ Effect(u, v)
  BY <1>t, <1>k, UsersAssumption DEF Effect
<1>c. ASSUME NEW r \in Requests, pc[r] # "new"
      PROVE  /\ call[r].by \in Users /\ call[r].user \in Users
             /\ call[r].todo \subseteq Users /\ call[r].seedFor \subseteq Users
             /\ call[r].version \in Nat /\ Allowed(call[r].user, call[r].version)
  <2>1. Allowed(call[r].user, call[r].version)
    BY <1>c DEF VersionsAreReached, Allowed, NamedByClient
  <2> QED
    BY <2>1, <1>c, TypeParts, CallIsTyped
<1>b. ASSUME NEW r \in Requests, pc[r] = "increment", Bump
      PROVE  Bump /\ needsRotation
  BY <1>b DEF RotationInv, IncrementIsMarked
<1>1. ASSUME NEW r \in Requests, Request(r)
      PROVE  \E u \in Users, v \in Nat : Allowed(u, v) /\ Effect(u, v)
  BY <1>1, <1>t DEF Request, BeginCreate, BeginAdd, BeginRemove, BeginLeave,
                    BeginSeed, Begin
<1>2. ASSUME NEW r \in Requests, Handler(r)
      PROVE  \E u \in Users, v \in Nat : Allowed(u, v) /\ Effect(u, v)
  <2>1. pc[r] # "new"
    BY <1>2 DEF Handler, AddMembers, CheckUser, Insert, ReadVersion, SaveSeed,
                Depart, Acquire, Increment, Release
  <2>2. CASE AddMembers(r) \/ Insert(r) \/ SaveSeed(r)
    BY <1>c, <1>k, <2>1, <2>2 DEF AddMembers, Insert, SaveSeed, Effect
  <2>3. CASE CheckUser(r) \/ ReadVersion(r)
    BY <1>t, <2>3 DEF CheckUser, ReadVersion
  <2>4. CASE Depart(r) \/ Release(r)
    BY <1>c, <1>k, <2>1, <2>4 DEF Depart, Release, Effect
  <2>5. CASE Acquire(r)
    BY <1>c, <1>k, <1>t, <2>1, <2>5 DEF Acquire, Effect
  <2>6. CASE Increment(r)
    BY <1>b, <1>c, <1>k, <2>1, <2>6 DEF Increment, Effect
  <2> QED
    BY <1>2, <2>2, <2>3, <2>4, <2>5, <2>6 DEF Handler
<1>3. ASSUME NEW r \in Requests, StatementFails(r)
      PROVE  \E u \in Users, v \in Nat : Allowed(u, v) /\ Effect(u, v)
  <2>1. pc[r] # "new"
    BY <1>3 DEF StatementFails, InFlight
  <2>2. \/ UNCHANGED tables
        \/ \E u \in call[r].todo : InsertMember(u)
        \/ InsertMember(call[r].user)
        \/ \E u \in call[r].todo : PutSeed(u, 0)
        \/ PutSeed(call[r].user, call[r].version)
        \/ MarkLeft(call[r].user)
        \/ TakeLock(call[r].by)
        \/ pc[r] = "increment" /\ Bump
        \/ Unlock
    BY <1>3 DEF StatementFails
  <2>3. CASE pc[r] = "increment" /\ Bump
    BY <1>b, <1>c, <2>1, <2>3 DEF Effect
  <2> QED
    BY <1>c, <1>k, <1>t, <2>1, <2>2, <2>3 DEF Effect
<1> QED
  BY <1>1, <1>2, <1>3, <1>t DEF Next, Crash, vars, tables

\* No effect takes the version back.
LEMMA VersionGrows ==
    ASSUME TypeOK, NEW u \in Users, NEW v \in Nat, Effect(u, v)
    PROVE  keyVersion' \in Nat /\ keyVersion <= keyVersion'
<1>1. keyVersion' = keyVersion \/ keyVersion' = keyVersion + 1
  BY DEF Effect, InsertMember, PutSeed, MarkLeft, TakeLock, Bump, Unlock,
         tables, members, group
<1> QED
  BY <1>1 DEF TypeOK

\* The mark counts as an increment still to come.
Owing == IF needsRotation THEN 1 ELSE 0

VersionInv == keyVersion + Owing <= Cardinality(Departed)

LEMMA EffectKeepsVersionInv ==
    ASSUME TypeOK, VersionInv, NEW u \in Users, NEW v \in Nat, Effect(u, v)
    PROVE  VersionInv'
<1>0. IsFiniteSet(Departed) /\ Cardinality(Departed) \in Nat
  BY UsersAssumption, FS_Subset, FS_CardinalityType DEF Departed
<1>1. CASE InsertMember(u)
  <2>1. Departed' = Departed
    BY <1>1 DEF InsertMember, Departed, TypeOK
  <2> QED
    BY <1>1, <2>1 DEF InsertMember, VersionInv, Owing, group
<1>2. CASE PutSeed(u, v) \/ TakeLock(u) \/ Unlock \/ UNCHANGED tables
  <2>1. UNCHANGED <<membership, keyVersion, needsRotation>>
    BY <1>2 DEF PutSeed, TakeLock, Unlock, tables, members, group
  <2> QED
    BY <2>1 DEF VersionInv, Owing, Departed
<1>3. CASE MarkLeft(u) /\ Active(u)
  <2>1. Departed' = Departed \cup {u} /\ u \notin Departed
    BY <1>3 DEF MarkLeft, Departed, Active, TypeOK
  <2>2. Cardinality(Departed') = Cardinality(Departed) + 1
    BY <1>0, <2>1, FS_AddElement
  <2>3. keyVersion' = keyVersion /\ Owing' = 1
    BY <1>3 DEF MarkLeft, Owing
  <2>4. Owing \in 0..1 /\ keyVersion \in Nat
    BY DEF Owing, TypeOK
  <2> QED
    BY <1>0, <2>2, <2>3, <2>4 DEF VersionInv
<1>4. CASE MarkLeft(u) /\ ~Active(u)
  <2>1. UNCHANGED <<membership, keyVersion, needsRotation>>
    BY <1>4 DEF MarkLeft, tables
  <2> QED
    BY <2>1 DEF VersionInv, Owing, Departed
<1>5. CASE Bump /\ needsRotation
  <2>1. Departed' = Departed
    BY <1>5 DEF Bump, members, Departed
  <2>2. keyVersion' = keyVersion + 1 /\ Owing' = 0 /\ Owing = 1
    BY <1>5 DEF Bump, Owing
  <2> QED
    BY <1>0, <2>1, <2>2 DEF VersionInv, TypeOK
<1> QED
  BY <1>1, <1>2, <1>3, <1>4, <1>5 DEF Effect

\* What a step does to a request: it begins, as a client's own save or with
\* no version, or it goes on for the same user and keeps its version, or takes
\* the one the group has.
Evolves(s) ==
    /\ pc[s] # "new" => pc'[s] # "new"
    /\ pc[s] = "new" /\ pc'[s] # "new" =>
          IF call'[s].op = "seed" THEN pc'[s] = "saveSeed" ELSE call'[s].version = 0
    /\ pc[s] # "new" =>
          /\ call'[s].op = call[s].op /\ call'[s].user = call[s].user
          /\ call[s].op = "seed" /\ pc[s] \in SeedSteps => pc'[s] \in SeedSteps
          /\ \/ call'[s].version = call[s].version
             \/ pc[s] = "version" /\ call'[s].version = keyVersion

LEMMA RequestsEvolve ==
    ASSUME TypeOK, NEW r \in Requests, Request(r)
    PROVE  \A s \in Requests : Evolves(s)
<1>1. PICK op \in {"create", "add", "remove", "leave", "seed"},
           by \in Users, user \in Users, step \in Steps :
              /\ Begin(r, op, by, user, step)
              /\ op = "seed" => step = "saveSeed"
  BY UsersAssumption
     DEF Request, BeginCreate, BeginAdd, BeginRemove, BeginLeave, BeginSeed, Steps
<1>2. PICK v \in IF op = "seed" THEN ClientVersions ELSE {0},
           S \in IF op = "create" THEN {X \in SUBSET Users : by \in X} ELSE {{}} :
        \E T \in SUBSET S :
           call' = [call EXCEPT ![r] = [op |-> op, by |-> by, user |-> user,
                                        todo |-> S, seedFor |-> T, version |-> v]]
  BY <1>1 DEF Begin
<1>3. pc[r] = "new" /\ pc' = [pc EXCEPT ![r] = step]
  BY <1>1 DEF Begin
<1> TAKE s \in Requests
<1>4. CASE s = r
  BY <1>1, <1>2, <1>3, <1>4 DEF Evolves, TypeOK
<1>5. CASE s # r
  BY <1>2, <1>3, <1>5 DEF Evolves, TypeOK
<1> QED
  BY <1>4, <1>5

LEMMA HandlersEvolve ==
    ASSUME TypeOK, NEW r \in Requests, Handler(r)
    PROVE  \A s \in Requests : Evolves(s)
<1>0. pc[r] # "new"
  BY DEF Handler, AddMembers, CheckUser, Insert, ReadVersion, SaveSeed,
         Depart, Acquire, Increment, Release
<1>1. call[r] \in Call
  BY <1>0, TypeParts, CallIsTyped
<1>2. PICK step \in Steps \ {"new"} : Goto(r, step)
  BY DEF Handler, AddMembers, CheckUser, Insert, ReadVersion, SaveSeed,
         Depart, Acquire, Increment, Release, Steps
<1>3. \/ UNCHANGED call
      \/ \E S \in SUBSET Users : call' = [call EXCEPT ![r].todo = S]
      \/ pc[r] = "version" /\ call' = [call EXCEPT ![r].version = keyVersion]
  BY <1>1 DEF Handler, AddMembers, CheckUser, Insert, ReadVersion, SaveSeed,
              Depart, Acquire, Increment, Release, Call
<1>4. call \in [Requests -> Call \cup {None}] /\ pc \in [Requests -> Steps]
  BY DEF TypeOK
<1>5. call[r].op = "seed" /\ pc[r] \in SeedSteps => pc'[r] = "done"
  BY <1>4 DEF Handler, AddMembers, CheckUser, Insert, ReadVersion, SaveSeed,
              Depart, Acquire, Increment, Release, SeedSteps, Goto
<1> TAKE s \in Requests
<1>6. CASE s # r
  <2>1. call'[s] = call[s] /\ pc'[s] = pc[s]
    BY <1>2, <1>3, <1>4, <1>6 DEF Goto
  <2> QED
    BY <2>1 DEF Evolves
<1>7. CASE s = r
  <2>1. pc'[r] = step
    BY <1>2, <1>4 DEF Goto
  <2>2. /\ call'[r].op = call[r].op /\ call'[r].user = call[r].user
        /\ \/ call'[r].version = call[r].version
           \/ pc[r] = "version" /\ call'[r].version = keyVersion
    BY <1>1, <1>3, <1>4 DEF Call
  <2> QED
    BY <1>0, <1>5, <1>7, <2>1, <2>2 DEF Evolves, SeedSteps
<1> QED
  BY <1>6, <1>7

LEMMA StepsEvolve ==
    ASSUME TypeOK, [Next]_vars
    PROVE  \A s \in Requests : Evolves(s)
<1>1. CASE \E r \in Requests : Request(r)
  BY <1>1, RequestsEvolve
<1>2. CASE \E r \in Requests : Handler(r)
  BY <1>2, HandlersEvolve
<1>3. CASE \E r \in Requests : StatementFails(r)
  BY <1>3 DEF StatementFails, InFlight, Goto, Evolves, SeedSteps, TypeOK
<1>4. CASE Crash
  BY <1>4 DEF Crash, InFlight, Evolves, SeedSteps, TypeOK
<1>5. CASE UNCHANGED vars
  BY <1>5 DEF vars, Evolves
<1> QED
  BY <1>1, <1>2, <1>3, <1>4, <1>5 DEF Next

\* A client's own save keeps its user and its version.
LEMMA NamesStay ==
    ASSUME VersionsAreReached, \A s \in Requests : Evolves(s),
           NEW u, NEW v, NamedByClient(u, v)
    PROVE  NamedByClient(u, v)'
<1>1. PICK r \in Requests :
        pc[r] # "new" /\ call[r].op = "seed" /\ call[r].user = u /\ call[r].version = v
  BY DEF NamedByClient
<1>2. pc[r] # "version"
  BY <1>1 DEF VersionsAreReached, SeedSteps
<1>3. Evolves(r)
  OBVIOUS
<1> QED
  BY <1>1, <1>2, <1>3 DEF Evolves, NamedByClient

\* A stored seed stays behind the version, or under one its user's client named.
LEMMA EffectKeepsSeeds ==
    ASSUME TypeOK, VersionsAreReached, SeedsAreNotAhead,
           \A s \in Requests : Evolves(s),
           NEW u \in Users, NEW v \in Nat, Allowed(u, v), Effect(u, v)
    PROVE  SeedsAreNotAhead'
<1>1. keyVersion' \in Nat /\ keyVersion <= keyVersion' /\ keyVersion \in Nat
  BY VersionGrows DEF TypeOK
<1>2. \A w \in Users : seeds'[w] = seeds[w] \/ (w = u /\ seeds'[w] = v)
  BY DEF Effect, InsertMember, PutSeed, MarkLeft, TakeLock, Bump, Unlock, tables, TypeOK
<1>3. ASSUME NEW w \in Users
      PROVE  (seeds[w] <= keyVersion \/ NamedByClient(w, seeds[w]))'
  <2>1. seeds'[w] \in Nat \cup {NoSeed} /\ Allowed(w, seeds'[w])
    BY <1>2 DEF TypeOK, SeedsAreNotAhead, Allowed
  <2>2. CASE seeds'[w] <= keyVersion
    BY <1>1, <2>1, <2>2 DEF NoSeed
  <2>3. CASE NamedByClient(w, seeds'[w])
    <3>1. PICK x : x = seeds'[w]
      OBVIOUS
    <3>2. NamedByClient(w, x)'
      BY <2>3, <3>1, NamesStay
    <3> QED
      BY <3>1, <3>2 DEF NamedByClient
  <2> QED
    BY <2>1, <2>2, <2>3 DEF Allowed
<1> QED
  BY <1>3 DEF SeedsAreNotAhead

\* The inductive invariant of the version, the departures and the seeds.
SeedInv == VersionsAreReached /\ VersionInv /\ SeedsAreNotAhead

LEMMA SeedInvariant == Spec => []SeedInv
<1>1. Init => SeedInv
  <2> SUFFICES ASSUME Init PROVE SeedInv
    OBVIOUS
  <2>1. VersionsAreReached
    BY DEF Init, VersionsAreReached
  <2>2. Departed = {}
    BY DEF Init, Departed
  <2>3. keyVersion = 0 /\ Owing = 0
    BY DEF Init, Owing
  <2>4. VersionInv
    BY <2>2, <2>3, FS_EmptySet DEF VersionInv
  <2>5. SeedsAreNotAhead
    BY DEF Init, SeedsAreNotAhead, NoSeed
  <2> QED
    BY <2>1, <2>4, <2>5 DEF SeedInv
<1>2. TypeOK /\ RotationInv /\ SeedInv /\ [Next]_vars => SeedInv'
  <2> SUFFICES ASSUME TypeOK, RotationInv, SeedInv, [Next]_vars PROVE SeedInv'
    OBVIOUS
  <2>0. \A s \in Requests : Evolves(s)
    BY StepsEvolve
  <2>1. PICK u \in Users, v \in Nat : Allowed(u, v) /\ Effect(u, v)
    BY StepEffects DEF SeedInv
  <2>2. VersionInv' /\ SeedsAreNotAhead'
    BY <2>0, <2>1, EffectKeepsVersionInv, EffectKeepsSeeds DEF SeedInv
  <2>3. ASSUME NEW s \in Requests, pc'[s] # "new"
        PROVE  IF call'[s].op = "seed" THEN pc'[s] \in SeedSteps
                                       ELSE call'[s].version <= keyVersion'
    <3>1. keyVersion' \in Nat /\ keyVersion <= keyVersion' /\ keyVersion \in Nat
      BY <2>1, VersionGrows DEF TypeOK
    <3>2. Evolves(s)
      BY <2>0
    <3>3. CASE pc[s] = "new"
      BY <2>3, <3>1, <3>2, <3>3 DEF Evolves, SeedSteps
    <3>4. CASE pc[s] # "new"
      <4>1. call[s].version \in Nat
        BY <3>4, TypeParts, CallIsTyped
      <4> QED
        BY <3>1, <3>2, <3>4, <4>1 DEF Evolves, SeedInv, VersionsAreReached
    <3> QED
      BY <3>3, <3>4
  <2> QED
    BY <2>2, <2>3 DEF SeedInv, VersionsAreReached
<1> QED
  BY <1>1, <1>2, TypeCorrect, RotationInvariant, PTL DEF Spec

\* IncrementKeyVersion: never more increments than departures, although the
\* lock holder does not look at the mark again.
THEOREM VersionCounts == Spec => []VersionCountsDepartures
<1>1. TypeOK /\ SeedInv => VersionCountsDepartures
  <2> SUFFICES ASSUME TypeOK, SeedInv PROVE VersionCountsDepartures
    OBVIOUS
  <2>1. IsFiniteSet(Departed) /\ Cardinality(Departed) \in Nat
    BY UsersAssumption, FS_Subset, FS_CardinalityType DEF Departed
  <2>2. Owing \in 0..1 /\ keyVersion \in Nat
    BY DEF Owing, TypeOK
  <2> QED
    BY <2>1, <2>2 DEF SeedInv, VersionInv, VersionCountsDepartures
<1> QED
  BY <1>1, SeedInvariant, TypeCorrect, PTL

\* SaveGroupKeySeed: the server's own saves never put a seed ahead of the
\* group; a seed that is ahead was saved under a version its user's client named.
THEOREM SeedsNotAhead == Spec => []SeedsAreNotAhead
<1>1. SeedInv => SeedsAreNotAhead
  BY DEF SeedInv
<1> QED
  BY <1>1, SeedInvariant, PTL
=============================================================================
