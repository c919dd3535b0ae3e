----------------------------- MODULE GroupKeys -----------------------------
(***************************************************************************)
(* The group half of message-service for one group: membership, the seeds  *)
(* handed to members, and the key version that is rotated under a lock     *)
(* column when a member departs.  Each request is a handler goroutine; a   *)
(* step of it is one SQL statement, so the statements of concurrent        *)
(* handlers interleave, and a crash can fall between two of them.          *)
(***************************************************************************)
EXTENDS Integers, FiniteSets

CONSTANTS
    Users,           \* user ids
    Creator,         \* the user who creates the group
    InitialMembers,  \* members at the start; {} if the group is yet to be created
    Requests,        \* handler goroutines
    ClientVersions,  \* bound: the key versions a client names with a seed
    MaxDbErrors,     \* bound: statements that return an error
    MaxCrashes,      \* bound: crashes of the process
    None             \* no call, nobody

ASSUME UsersAssumption ==
    /\ IsFiniteSet(Users)
    /\ Creator \in Users
    /\ InitialMembers \subseteq Users
    /\ None \notin Users
ASSUME VersionsAssumption == ClientVersions \subseteq Nat
ASSUME FaultsAssumption == MaxDbErrors \in Nat /\ MaxCrashes \in Nat

VARIABLES
    membership,     \* group_members: no row, active (left_at IS NULL), left
    leftAt,         \* left_at, told in key versions: keyVersion at that moment
    seeds,          \* user_group_keys.key_version, or NoSeed
    keyVersion,     \* group_chats.key_version
    needsRotation,  \* group_chats.needs_rotation
    rotationBy,     \* group_chats.rotation_by; None is rotation_in_progress = FALSE
    pc, call,       \* per request: its next statement, its arguments and locals
    dbErrors, crashes

tables == <<membership, leftAt, seeds, keyVersion, needsRotation, rotationBy>>
members == <<membership, leftAt>>
group == <<keyVersion, needsRotation, rotationBy>>
faults == <<dbErrors, crashes>>
vars == <<membership, leftAt, seeds, keyVersion, needsRotation, rotationBy,
          pc, call, dbErrors, crashes>>

NoSeed == -1

\* by is the caller, user the user acted on; todo is whom the current loop of
\* CreateGroup still has to handle, seedFor whom its caller supplied a seed
\* for; version is the version to save a seed with.
Call ==
    [op: {"create", "add", "remove", "leave", "seed"}, by: Users, user: Users,
     todo: SUBSET Users, seedFor: SUBSET Users, version: Nat]

ASSUME NoneAssumption == None \notin Call

Steps == {"new", "addMembers", "checkUser", "insert", "version", "saveSeed",
          "depart", "acquire", "increment", "release", "done", "failed"}

TypeOK ==
    /\ membership \in [Users -> {"none", "active", "left"}]
    /\ leftAt \in [Users -> Nat]
    /\ seeds \in [Users -> Nat \cup {NoSeed}]
    /\ keyVersion \in Nat
    /\ needsRotation \in BOOLEAN
    /\ rotationBy \in Users \cup {None}
    /\ pc \in [Requests -> Steps]
    /\ call \in [Requests -> Call \cup {None}]
    /\ \A r \in Requests : pc[r] # "new" => call[r] # None
    /\ dbErrors \in Nat /\ crashes \in Nat

Active(u) == membership[u] = "active"
InFlight(r) == pc[r] \notin {"new", "done", "failed"}

Init ==
    /\ membership = [u \in Users |-> IF u \in InitialMembers THEN "active" ELSE "none"]
    /\ leftAt = [u \in Users |-> 0]
    /\ seeds = [u \in Users |-> IF u \in InitialMembers THEN 0 ELSE NoSeed]
    /\ keyVersion = 0
    /\ needsRotation = FALSE
    /\ rotationBy = None
    /\ pc = [r \in Requests |-> "new"]
    /\ call = [r \in Requests |-> None]
    /\ dbErrors = 0 /\ crashes = 0

-----------------------------------------------------------------------------
(* What each statement writes.                                             *)

\* AddGroupMember: ON CONFLICT DO NOTHING, also for a row with left_at set.
InsertMember(u) ==
    /\ membership' = [membership EXCEPT ![u] = IF @ = "none" THEN "active" ELSE @]
    /\ UNCHANGED <<leftAt, seeds, group>>

\* SaveGroupKeySeed: an upsert.
PutSeed(u, v) ==
    /\ seeds' = [seeds EXCEPT ![u] = v]
    /\ UNCHANGED <<members, group>>

\* RemoveGroupMember with the trigger mark_group_for_rotation.
MarkLeft(u) ==
    IF Active(u)
    THEN /\ membership' = [membership EXCEPT ![u] = "left"]
         /\ leftAt' = [leftAt EXCEPT ![u] = keyVersion]
         /\ needsRotation' = TRUE
         /\ UNCHANGED <<seeds, keyVersion, rotationBy>>
    ELSE UNCHANGED tables

\* Mutants of TryAcquireRotationLock: one condition of the two.
LockFreeIfMarked == needsRotation
LockFreeIfIdle == rotationBy = None

\* The WHERE clause and the update of TryAcquireRotationLock.
LockFree == rotationBy = None /\ needsRotation

TakeLock(u) ==
    /\ rotationBy' = u
    /\ UNCHANGED <<members, seeds, keyVersion, needsRotation>>

\* IncrementKeyVersion.
Bump ==
    /\ keyVersion' = keyVersion + 1
    /\ needsRotation' = FALSE
    /\ UNCHANGED <<members, seeds, rotationBy>>

\* Mutant: the release clears the mark, too.
UnlockAndClear ==
    /\ rotationBy' = None
    /\ needsRotation' = FALSE
    /\ UNCHANGED <<members, seeds, keyVersion>>

\* ReleaseRotationLock: whoever holds it.
Unlock ==
    /\ rotationBy' = None
    /\ UNCHANGED <<members, seeds, keyVersion, needsRotation>>

-----------------------------------------------------------------------------
(* The start of a handler: arguments and, but for "create" and "seed", a   *)
(* first CheckGroupMembership (a handler it refuses changes nothing).      *)

Begin(r, op, by, user, step) ==
    /\ pc[r] = "new"
    /\ pc' = [pc EXCEPT ![r] = step]
    /\ \E v \in IF op = "seed" THEN ClientVersions ELSE {0},
          S \in IF op = "create" THEN {X \in SUBSET Users : by \in X} ELSE {{}} :
       \E T \in SUBSET S :
          call' = [call EXCEPT ![r] = [op |-> op, by |-> by, user |-> user,
                                       todo |-> S, seedFor |-> T, version |-> v]]
    /\ UNCHANGED <<tables, faults>>

\* CreateGroup inserts the group row and goes on to the members' rows.
BeginCreate(r) ==
    /\ InitialMembers = {}
    /\ \A s \in Requests : pc[s] # "new" => call[s].op # "create"
    /\ Begin(r, "create", Creator, Creator, "addMembers")

BeginAdd(r) ==
    \E by, u \in Users : Active(by) /\ Begin(r, "add", by, u, "checkUser")

\* The first check of RemoveGroupMember is called isAdmin, but is membership.
BeginRemove(r) ==
    \E by, u \in Users : Active(by) /\ Begin(r, "remove", by, u, "checkUser")

BeginLeave(r) ==
    \E u \in Users : Active(u) /\ Begin(r, "leave", u, u, "depart")

\* SaveGroupKeySeed checks nothing: the gateway passes on the caller's own id
\* and whatever version the client names.
BeginSeed(r) ==
    \E u \in Users : Begin(r, "seed", u, u, "saveSeed")

-----------------------------------------------------------------------------
(* The statements of the handlers.                                         *)

Goto(r, step) == pc' = [pc EXCEPT ![r] = step]

\* CreateGroup: the creator's row first, then the other members', one by one.
AddMembers(r) ==
    /\ pc[r] = "addMembers"
    /\ \E u \in call[r].todo :
          /\ call[r].by \in call[r].todo => u = call[r].by
          /\ InsertMember(u)
          /\ call' = [call EXCEPT ![r].todo =
                         IF @ = {u} THEN call[r].seedFor ELSE @ \ {u}]
          /\ Goto(r, CASE call[r].todo # {u} -> "addMembers"
                       [] call[r].todo = {u} /\ call[r].seedFor # {} -> "saveSeed"
                       [] OTHER -> "done")
    /\ UNCHANGED faults

\* CheckGroupMembership of the user to be added or removed.
CheckUser(r) ==
    /\ pc[r] = "checkUser"
    /\ Goto(r, CASE call[r].op = "add" /\ ~Active(call[r].user)   -> "insert"
                 [] call[r].op = "remove" /\ Active(call[r].user) -> "depart"
                 [] OTHER -> "failed")
    /\ UNCHANGED <<tables, call, faults>>

Insert(r) ==
    /\ pc[r] = "insert"
    /\ InsertMember(call[r].user)
    /\ Goto(r, "version")
    /\ UNCHANGED <<call, faults>>

\* Mutant: the version to come.
ReadVersionAfter(r) ==
    /\ pc[r] = "version"
    /\ call' = [call EXCEPT ![r].version = keyVersion + 1]
    /\ Goto(r, "saveSeed")
    /\ UNCHANGED <<tables, faults>>

\* GetCurrentKeyVersion, for the seed of the new member.
ReadVersion(r) ==
    /\ pc[r] = "version"
    /\ call' = [call EXCEPT ![r].version = keyVersion]
    /\ Goto(r, "saveSeed")
    /\ UNCHANGED <<tables, faults>>

\* The seed of the added member, or one by one the seeds of a new group.
SaveSeed(r) ==
    /\ pc[r] = "saveSeed"
    /\ IF call[r].op = "create"
       THEN \E u \in call[r].todo :
               /\ PutSeed(u, 0)
               /\ call' = [call EXCEPT ![r].todo = @ \ {u}]
               /\ Goto(r, IF call[r].todo = {u} THEN "done" ELSE "saveSeed")
       ELSE /\ PutSeed(call[r].user, call[r].version)
            /\ Goto(r, "done")
            /\ UNCHANGED call
    /\ UNCHANGED faults

Depart(r) ==
    /\ pc[r] = "depart"
    /\ MarkLeft(call[r].user)
    /\ Goto(r, "acquire")
    /\ UNCHANGED <<call, faults>>

\* tryKeyRotation: a handler that does not get the lock returns.
Acquire(r) ==
    /\ pc[r] = "acquire"
    /\ IF LockFree
       THEN TakeLock(call[r].by) /\ Goto(r, "increment")
       ELSE UNCHANGED tables /\ Goto(r, "done")
    /\ UNCHANGED <<call, faults>>

\* Mutant: the handler returns without a release.
IncrementKeepsLock(r) ==
    /\ pc[r] = "increment"
    /\ Bump
    /\ Goto(r, "done")
    /\ UNCHANGED <<call, faults>>

Increment(r) ==
    /\ pc[r] = "increment"
    /\ Bump
    /\ Goto(r, "release")
    /\ UNCHANGED <<call, faults>>

Release(r) ==
    /\ pc[r] = "release"
    /\ Unlock
    /\ Goto(r, "done")
    /\ UNCHANGED <<call, faults>>

-----------------------------------------------------------------------------
(* Faults.                                                                 *)

\* A statement returns an error, having been executed or not.  The handler
\* returns, but tryKeyRotation releases the lock if the increment failed.
StatementFails(r) ==
    /\ InFlight(r)
    /\ dbErrors < MaxDbErrors
    /\ dbErrors' = dbErrors + 1
    /\ Goto(r, CASE pc[r] = "increment"            -> "release"
                 [] pc[r] \in {"acquire", "release"} -> "done"
                 [] OTHER                          -> "failed")
    /\ \/ UNCHANGED tables
       \/ pc[r] = "addMembers" /\ \E u \in call[r].todo :
             /\ call[r].by \in call[r].todo => u = call[r].by
             /\ InsertMember(u)
       \/ pc[r] = "insert" /\ InsertMember(call[r].user)
       \/ pc[r] = "saveSeed" /\ call[r].op = "create"
             /\ \E u \in call[r].todo : PutSeed(u, 0)
       \/ pc[r] = "saveSeed" /\ call[r].op # "create"
             /\ PutSeed(call[r].user, call[r].version)
       \/ pc[r] = "depart" /\ MarkLeft(call[r].user)
       \/ pc[r] = "acquire" /\ LockFree /\ TakeLock(call[r].by)
       \/ pc[r] = "increment" /\ Bump
       \/ pc[r] = "release" /\ Unlock
    /\ UNCHANGED <<call, crashes>>

\* The process stops and restarts: every handler in flight is gone.
Crash ==
    /\ crashes < MaxCrashes
    /\ crashes' = crashes + 1
    /\ pc' = [r \in Requests |-> IF InFlight(r) THEN "failed" ELSE pc[r]]
    /\ UNCHANGED <<tables, call, dbErrors>>

Handler(r) ==
    \/ AddMembers(r)
    \/ CheckUser(r)
    \/ Insert(r)
    \/ ReadVersion(r)
    \/ SaveSeed(r)
    \/ Depart(r)
    \/ Acquire(r)
    \/ Increment(r)
    \/ Release(r)

Request(r) ==
    BeginCreate(r) \/ BeginAdd(r) \/ BeginRemove(r) \/ BeginLeave(r) \/ BeginSeed(r)

Next ==
    \/ \E r \in Requests : Request(r) \/ Handler(r) \/ StatementFails(r)
    \/ Crash

\* Users need not call; a handler that was started runs on.
Fairness == \A r \in Requests : WF_vars(Handler(r))

Spec == Init /\ [][Next]_vars
FairSpec == Spec /\ Fairness

-----------------------------------------------------------------------------
(* Safety.                                                                 *)

\* Between TryAcquireRotationLock and ReleaseRotationLock.
Rotating(r) == pc[r] \in {"increment", "release"}

\* At most one handler rotates at a time, and it does so under the lock, in
\* spite of failing statements and a release that does not look whose lock
\* it clears.
RotationIsExclusive ==
    \A r, s \in Requests :
        /\ Rotating(r) => rotationBy # None
        /\ Rotating(r) /\ Rotating(s) => r = s

\* No departure is forgotten: the version has grown since, or the group is
\* still marked for rotation.  IncrementKeyVersion clears the mark, so this
\* relates every departed member to the increments after it.
DepartureIsRemembered ==
    \A u \in Users :
        membership[u] = "left" => keyVersion > leftAt[u] \/ needsRotation

Departed == {u \in Users : membership[u] = "left"}

\* The version grows only for departures: at most once for each, although
\* the lock holder increments without looking at needs_rotation again.
VersionCountsDepartures == keyVersion <= Cardinality(Departed)

\* The user's own client saved, or is saving, a seed under this version.
NamedByClient(u, v) ==
    \E r \in Requests :
        pc[r] # "new" /\ call[r].op = "seed" /\ call[r].user = u /\ call[r].version = v

\* The server on its own never stores a seed under a version that the group
\* has not reached, although it reads the version some statements before it
\* saves the seed: only a version that the user's own client named, which
\* SaveGroupKeySeed does not check, puts a seed ahead of the group.
SeedsAreNotAhead ==
    \A u \in Users : seeds[u] <= keyVersion \/ NamedByClient(u, seeds[u])

Quiet == \A r \in Requests : ~InFlight(r)
NoFaults == dbErrors = 0 /\ crashes = 0

(* Liveness.                                                               *)

\* The rotation lock does not stay taken, unless a statement failed or the
\* process crashed (then it may, for ever: nothing but its holder clears it).
LockIsReleased == (rotationBy # None) ~> (rotationBy = None \/ ~NoFaults)

-----------------------------------------------------------------------------
(* What GROUP_CHATS.md says and the code does not do.                      *)

\* The version is incremented when a member leaves: once no handler is left
\* and nothing failed, every departure is covered by an increment.
EveryDepartureRotates ==
    Quiet /\ NoFaults => \A u \in Users : membership[u] = "left" => keyVersion > leftAt[u]
=============================================================================
