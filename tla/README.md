# A verification development of ZeroMes

ZeroMes is an end-to-end encrypted messenger: a React client, an API gateway,
and three Go services (auth, message, realtime) around Postgres, Redis and one
Kafka topic. This directory holds TLA+ modules of the parts in which order,
concurrency and failure decide correctness, the TLC configurations that check
them on small instances, and TLAPS proofs. `PROJECT.json` maps every definition
to the lines it models, and lists the runs, the hazards and the findings.

    tlc -workers 2 -config MCOutbox.cfg MCMessageServiceRelay
    tlapm GroupKeysProofs.tla

## 1. The system

| part | state | operations | talks to |
|---|---|---|---|
| **message-service, direct messages** (`message-service/internal/messaging`) | tables `messages`, `chats`, `outbox_events` | SendMessage, DeleteMessage, AlterMessage, MarkAsRead; reads | Postgres; publishes to Kafka topic `messages.sent` |
| **message-service, outbox worker** (`cores/outbox-worker`) | the batch in hand; the rows' status and retry count | tick: read pending rows, publish each, mark it | the same tables and topic |
| **message-service, groups** | `group_chats`, `group_members`, `user_group_keys` and a trigger | CreateGroup, AddGroupMember, RemoveGroupMember, LeaveGroup, SaveGroupKeySeed, key rotation | Postgres |
| **realtime-service** | Hub: `streams`, `cancelFuncs`; Redis presence keys; Kafka offsets | ConnectionStream, heartbeats, consumer loop | consumes the topic; streams to the gateway; asks message-service for group members |
| **api-gateway, websocket session** | goroutines and two bounded channels per connection | frames of the client, pushes of the stream | all services |
| **api-gateway, password saga** | none of its own | ChangePassword: keys re-encrypted, then password changed | auth-service (HTTP), message-service (gRPC) |
| **api-gateway, rate limiter** | Redis counters | one step per request | Redis |
| **auth-service** | table `users`; Redis token keys | Register, Login, Refresh, Logout, ChangePassword | Postgres, Redis |
| **frontend, chat window** (`ChatWindow.tsx`) | the list of messages shown, calls and decryptions under way | events, loading, pagination, send, edit, delete, read marks | websocket client |
| **frontend, chat list** (`ChatsPage.tsx`) | the list of chats, the selected one, subscribed handlers, loads under way | load, new message, select, new chat | websocket client, auth-service (public keys) |
| **frontend, websocket client and requests** | socket, reconnect timer, handlers by message type | connect, reconnect, request with timeout | gateway |
| **frontend, keys** | IndexedDB, `localStorage`, the cached private key; the derived chat keys | save, restore, clear; derive, encrypt, save a chat key | browser storage, the forms of the pages |

What makes it hard, and what each part must keep true:

* *Messages and outbox.* The database write and the publication are two steps
  with a fallback (`SaveToOutbox`) and a retrying worker. Correct: what is
  committed is published or known to be given up; nothing is published for a
  write that did not happen; rows end in the right status; deleted messages stay
  deleted although every handler reads before it writes.
* *Groups.* Every handler is a chain of single SQL statements without a
  transaction, and the rotation lock is a column anyone can clear. Correct: at
  most one rotation; no departure forgotten; versions count departures; seeds
  never ahead of the version, but where a client names a later one; the lock is
  given back.
* *Realtime.* Streams are registered by user while connections overlap; offsets
  are committed before the event is pushed. Correct: the hub holds only live
  streams, each with a heartbeat; pushes in order; bounded loss per crash;
  presence ends.
* *Gateway session.* Four goroutines, one context and two bounded channels. Correct: none blocks
  for ever after the connection ended; answers and pushes are delivered in order.
* *Saga and tokens.* Two services change in turn, with timeouts that do not say
  what happened. Correct: keys and password agree, or the failure is the one the
  code reports; tokens are invalid after logout and password change.
* *Client.* Asynchronous decryption, uncorrelated answers, reconnection, effects
  that run again because the state they set is what they depend on. Correct: the
  window and the list converge to the tables; nothing is shown twice; an answer
  goes to its request.
* *Keys.* Three places of a browser hold one private key, four forms replace it
  in several steps each; two browsers derive the key of a chat independently, from
  key pairs that password changes replace. Correct: the key in use is that of the
  user and the password; what was encrypted stays readable.

## 2. Modules

| module | models | status |
|---|---|---|
| `MessageService` | handlers, tables, topic and worker of direct messages | checked |
| `MessageServiceProofs` | theorems about `MessageService`, `MessageServiceRelay` and `ChatWindow` | proved |
| `EventRelay` | abstract promise: a committed write's event is owed until published, and given up only after something disturbed the relay | implemented by `MessageService` |
| `MessageServiceRelay` | `MessageService` implements `EventRelay` | checked |
| `ChatWindow` | the recipient's window, composed with `MessageService` | checked |
| `MessageWindow` | the window of one user with everything that changes its list | checked |
| `MessageWindowProofs` | theorems about `MessageWindow` | proved |
| `ChatList` | the list of chats, its loads, handlers and new chats | checked |
| `ChatListProofs` | theorems about `ChatList` | proved |
| `KeyAgreement` | the key of one chat between two users: derivation, storage, messages, password changes | checked |
| `KeyStorage` | the private key of a browser that several users share, and the forms that replace it | checked |
| `KeyProofs` | theorems about `KeyAgreement` and `KeyStorage` | proved |
| `GroupKeys` | group membership, seeds and key rotation | checked |
| `GroupKeysProofs` | theorems about `GroupKeys` | proved |
| `RealtimeService` | hub, heartbeats, presence, consumer | checked |
| `RealtimeServiceProofs` | theorems about `RealtimeService` | proved |
| `ChatKeys` | one account's password and chat keys: login, saving keys, the password change through the saga | checked |
| `ChatKeysProofs` | theorems about `ChatKeys` | proved |
| `GatewaySession` | the goroutines and channels of a user's websocket connections | checked with `ClientRequests` |
| `WebSocketClient` | the browser's sockets, status and reconnection, over `GatewaySession` | checked with `ClientRequests` |
| `ClientRequests` | the browser's requests over those sockets | checked |
| `ClientRequestsProofs` | theorems about `ClientRequests`, with `GatewaySession` and `WebSocketClient` | proved |
| `MC*` | symmetry sets for TLC, and the state after which a run need not go on (`UntilLapse`) | |

### MessageService

`pc[r]` and `call[r]` are a handler goroutine and its locals; one request `r`
is also the id of the message it sends and of its outbox row (all three are
fresh UUIDs). The steps are the points at which other goroutines can observe or
change something: `Begin*` (validation, the read that checks the sender),
`Commit` (the statement or transaction), `Publish` (the Kafka write) and
`SaveToOutbox`. Handlers that are refused, and read-only ones, change nothing
and are not steps. The worker is one goroutine: `Poll` is `GetPendingEvents`
(oldest first, at most `BatchLimit`), and each row then takes a publication and
a final statement.

* `log` is the topic. The deployment gives it one partition
  (`KAFKA_NUM_PARTITIONS: 1`); an error of `WriteMessages` may leave the event
  in the topic or not. What kafka-go retries internally before it returns is part
  of that one outcome.
* A failing statement was executed or not. An executed `SaveToOutbox`,
  `MarkEventProcessed`, ... whose acknowledgement is lost leaves the same state
  as one that succeeded, since their errors are dropped, so only the unexecuted
  failure is a separate outcome.
* `created_at` of an outbox row is taken and the row inserted in one step. The
  `created_at` of a message is taken in `BeginSend` and inserted in `Commit`, two
  steps, because `MarkAsRead` compares it.
* `MarkAsRead`: the client names its own chat and the last message in it.
* The typing of `group_id` and the error that migration 000006 may provoke in
  `CreateWithChats` are outside the model: a statement succeeds or fails.
* `OneSession` says whether a user has one gateway connection. One connection
  serves its frames in turn (`HandleWebSocket`); a second device has its own.
* A crash ends all handlers and the worker; the tables and the topic stay.

### ChatWindow

`Arrive` runs the window's handler to its first `await`; `Decrypted` is what
follows the decryption. Events arrive in the order of the topic. `raced`,
`Retried` and `Lost` name the messages that the code's own weaknesses can show
wrongly: an event overtaken by another of the same message during decryption,
requests about one message that are in flight together (`Contended`: nothing
orders their publications), an event that was retried by the worker after newer
ones, and one that was lost because the process stopped, or a statement was
executed and its acknowledgement lost, between the write and the publication.

### MessageWindow

`view`, `hasMore` and `loadingMore` are the state of the component; `call` has
the `getMessages` calls, and `sending`, `editing`, `deleting` the other calls that
wait for an answer. message-service is a table; ids are in the order of
`created_at`, so that a page is a set of ids cut at `Limit`. A deleted row is kept
as `gone`, as history: no statement sees it. Requests are served
in order on one socket; answers and events keep their order each, but events come
from another goroutine and interleave with answers (`down`, `pushes`). `Serve` is
a round of `HandleWebSocket`: the statement, the answer, and the events that
message-service publishes; those of a deletion, an alteration and a reading go to
both users (`ServePage`, `ServeSend`, `ServeChange`, `Refuse`). `Companion` does
what the other user's requests do.

`Reset` is the effect that empties the list and loads its first page. It depends
on `markMessagesAsRead`, which depends on the list, so it is due again after any
update of the list, its own included; the model lets it run at any time, and
`MaxPages` cuts the endless repetition. `LoadMore` has the guards of the virtual
list and of `loadMoreMessages`. `Loaded` replaces the list by the page, or puts
the page before it. `Settle` gives a frame to every call that waits for its type,
an error to all of them.

The window has no defence against a number of races. The model shows them and
the history variables name them; the properties hold for what is left:

* `raced`: the event of a message comes while a page or another event of it is on
  its way, or is on its way while the newest page is read and is older than what
  the page shows (`CutOff`); or a page replaces a message that is being sent;
* `echoed`: `message_read` also reaches the window of the reader, which takes it
  for the companion's reading;
* `overlap`: two `getMessages` at once both take the first answer;
* `cursor`: a page is asked for from a message that has been deleted, so that the
  answer is empty and the history seems to end; or from one that raced, so that it
  may leave out what is between it and the rest of the list;
* `disorder`: the first message of the list is not its oldest, because a message was
  confirmed before an earlier event came, so that the next page repeats some;
* `misread`: a deletion or an edit takes an event about another message for its
  answer;
* `unloaded`: an error, which settles every call that waits, settles the one for
  the newest page: the list goes on without it, and shows at most what comes later;
* `resent`: a send takes the answer to an earlier one, which an error that belonged
  to another call had settled (`LaterSend`). The code puts the text of this send
  under the id of the answer (`Confirmed`): the list shows the text of one message
  as another one (`Other`), and lacks a message.

`unloaded` was found by random simulation of larger instances; `CutOff` and a
cursor that raced were found by the proofs, where the run had found nothing, and
so was `resent`, which the bounds of the run now reach. `IndexOf` is the first place with the id, as `findIndex` has it.

### ChatList

One list, `chats`; a chat is told by its companion and by its id, which is
temporary between `AddNewChat` and the next load. `load` has the calls of
`loadChats`; they share the answers, which carry no id. `due` says that the effect
that subscribes the handlers and loads the list is to run: it depends on
`selectedChat`, which is looked up in the list and is another object after each
update of its chat (`SelectedChanges`). Its cleanup exists only once its load has
ended, so a run that follows earlier leaves its handlers subscribed (`leaked`).
All handlers share `processedMessagesRef`, whose keys are made of `payload.id`,
which pushed messages do not have: of each chat, the first message is processed
and later ones are skipped (`Runs`). `newChat` has the list of the render in which
`handleNewChat` was called, which it uses after its awaits. Order and previews of
the chats, the search and online status are left out; `Refresh` keeps that
updates of them make another object of the chat. `disturbed` names a failed call,
loads that overlap, and a new chat put before a list that has changed since.

### GroupKeys

One group; each action is one SQL statement. `membership`, `leftAt`, `seeds` are
the rows of `group_members` and `user_group_keys`; `leftAt` is told in key
versions, which is what the properties need of the time. `rotation_in_progress`
is `rotationBy # None`: both columns are written by the same statements.
`MarkLeft` includes the trigger `mark_group_for_rotation`. The insert of the
group row is part of `BeginCreate`: no one else can name the group before it.
`todo` is what the loops of `CreateGroup` have left; ids repeated in the request
are idempotent. A client saves a seed under whichever version it names
(`ClientVersions`), which no one compares with the version of the group.
`StatementFails` lets any statement fail, executed or not, and goes where the
handler's error path goes. `GetCurrentKeyVersion` after the lock was not
acquired changes nothing and is not a step.

### RealtimeService

A connection is a call of `ConnectionStream`; its steps are Redis commands and
sections under `Hub.mu` or `Hub.heartbeatMu`. `streams` and `cancelFuncs` are
indexed by user as in the code, so a second connection overwrites the first's
entries, and the end of either clears whatever is there. `Tick` ends a heartbeat
whose user has no stream, and extends the key of one who has, if the key is still
there; one that has gone is not set again. `TickFails` is an extension whose error
is dropped: `missed` has the heartbeats that failed and have not extended the key
since. A key lives for 300 s and a tick is 30 s, so a key expires only when no
heartbeat of its user runs but such ones (`KeyExpires`); one error stands for an
outage of any length.

The consumer has read (`pos`), flushed commits (`committed`), an event in hand, the
number of its users who had their turn (`turn`), and the stream it looked up
(`target`), used after the mutex was released. An event is pushed to the members of
a group, to one user, or to the recipient and then to the sender (`Addressed`): who
marks his own messages as read is both, and gets the event twice. Events that
address nobody are left out. `received` is kept while the client is there. The
consumer group has committed before: `StartOffset: LastOffset` matters only to a new one.
`CloseAll` runs after `GracefulStop`, when no stream is left.

### EventRelay and MessageServiceRelay

The abstract relay has one state per event (`none`, `owed`, `published`,
`abandoned`) and the flag `disturbed`. The refinement maps an event to
`published` when a copy is in the topic, to `owed` while a handler or a pending
row stands for it, and `disturbed` to `Disturbed`: a crash, a failing statement,
or more broker errors than the worker retries. The abstract `Abandon` needs
`disturbed'`, so the refinement says both that nothing published is taken back
and that nothing is given up while the relay can make up for what went wrong.

### ChatKeys

One account. Private key, public key and authentication hash are all derived
from the password, so all three are told by it; the content of a chat key does
not matter, only which private key it is encrypted under. `Login` stands for
what changes the key a device keeps: a login (which logs out first), a refused
one, a logout. `DeriveChatKey` and `SaveChatKeys` are the two halves of what the
chat list does for a chat without a key. A change is `Collect` (the browser
decrypts with the key the device kept, skipping what does not decrypt),
`CheckOldHash` and `WritePassword` (auth-service reads, then writes),
`UpdateChatKeys` (message-service, one transaction) and `Answer`. A call that
fails or times out ends the change for the user, while the statement under way
may still be executed (`Late`). `overlapped`, `discarded` and `StaleChange` are
history: they name the circumstances under which the code has no guard, and the
properties exclude them by name.

### KeyAgreement

One chat of two users. A key pair is told by the version of its owner's password,
a chat key by the two key pairs it was derived from (ECDH gives both sides the
same), an `encrypted_key` by the chat key and the private key it is under.
Ciphers are perfect: a key decrypts what was encrypted with it and nothing else.
A derivation starts in `loadChats`, in `handleNewChat` or in the handler of
`new_message`, from the public key of the moment (`Derive`), and ends with
`SaveChatKeys`, an upsert that replaces a key that is there. The list of the page
has its own copy (`listed`), which the window decrypts to send. A password change
is `Collect`, `WritePassword`, `UpdateChatKeys` and `Answer`; its failures are the
subject of `ChatKeys`. `unsettled` names what the code has no answer to: a key
pair replaced before both rows have their key (the two sides then derive
different ones), and a chat that is not in a list not yet loaded, which is taken
for a new one and gets another key than its messages have.

### KeyStorage

One browser, several users in turn. `idb`, `private_key`, `storage_type` and
`user_login` are what is stored, `cached` the variable of `secureStorage.ts`,
`session` the user of the cookies. A key is told by its user and the password it
is derived from. `form` has, per task, what was submitted or is connecting and
the step it is at; a page can be left while it waits, so that a logout, a login or
another change runs beside it. The steps are the awaits of the pages: a login is
`performLogout` (`Revoke`, `Forget`, `Erase`), the answer of auth-service, and
saving the key (`SaveKey`, then `Put` and `Mark` with rememberMe); a registration
has no logout before it; a failed connection of ChatsPage (`Connect`,
`Connected`) is followed by one, as are the logout buttons of ChatsPage and
ChangePasswordPage.

What auth-service does and what the page hears are steps of their own. A login or
a registration may be carried out while its answer is lost (`Unheard`); `Refused`
is the error that changed nothing. A password change is sent (`SendChange`), written
(`WriteChange`), and heard: as a success, upon which the page clears the keys and
saves the new one (`Changed`), or as an error although it is written, since
message-service came after it, or will be, since the time was up (`Misanswered`);
the page then keeps the old key and session, and a change that nobody waits for is
`underway` and may be written at any time (`WriteLate`).

The key in IndexedDB is encrypted under a fingerprint of the browser, which may
change (`FingerprintChanges`): while `readable` is false a restore falls back to
localStorage or finds nothing. `Restore` and `Decrypted` are the two halves of
restoring a key from IndexedDB. A delete in IndexedDB may fail, and a put too
(`PutFails`); a tab may be closed at any step.

`lapsed` names the events after which the key may be the wrong one, each at the
action where it happens: a change that is answered with an error though it is
written, or is written late; a put that fails while IndexedDB has an older key; a
key in IndexedDB that cannot be read while localStorage has one; a restore that a
login, a registration or a change overtakes; a task that clears or replaces the
key another one is storing; a change whose user is no longer the one logged in, or
whose password is no longer the last one, when it saves its key; a login that is
carried out unheard over the key of somebody else; and a tab closed in the middle
of a save over a stored key or of a change that is written. Without any one of
them TLC finds a violation.

### GatewaySession, WebSocketClient and ClientRequests

`reader`, `service`, `forwarder` and `writer` are the goroutines of one
connection; `recv` and `send` their channels (256 slots in the code, `Capacity`
here), `live` the context. A `select` is nondeterministic: with the context
cancelled and room in the channel either branch may be taken. `sendResponse` has
no `select` and can wait for ever. Of the operations there is one of each kind
that the client tells apart: one whose answer has a type of its own, one whose
answer has the type of an event, and one that ignores errors. A write on a
socket that the other side has closed may go unnoticed; a read may still return
frames that came before. `up` and `down` are what is on the wire.

`WebSocketClient` has one `readyState` per socket made and the client's own `ws`,
`status`, `attempts` and `timer`. `connect` returns only when the socket is
open, so it can replace one that is being opened; the handlers of the replaced
socket still run (`replaced` names this). The page calls `connect` whenever a
chat is selected and `disconnect` in a logout. `HandleError` stands for the
`error` and `close` events of a socket that did not open, which the browser fires
in one go; of a socket that broke before `close` was called the end is not clean
either (`leaving`). The code's five attempts are `MaxReconnectAttempts`; their
delays are left out. Close codes that forbid to reconnect (1008, 4001, 4401) are
never sent by the gateway.

In `ClientRequests` a request subscribes a handler that takes the first frame of
its type, or the first error, whichever request it answers; a timeout rejects the
promise and leaves the handler. Handlers belong to the client and outlive
sockets. A request that waits for the connection is one that is sent later: the
wait changes nothing.

## 3. Runs

| run | question | bounds |
|---|---|---|
| `outbox` | are the topic, the outbox and the tables consistent under every fault, is `EventRelay` implemented, and does every event settle? | 1 user, 2 requests, 2 retries, 4 broker errors, 1 failing statement, 1 crash |
| `view_converges` | what do concurrent requests do to the rows they read before they write, and does the recipient's window end up like the table? | 2 users, 3 requests, 2 contents, 1 failing statement, 1 crash |
| `group_keys` | lock, departures, versions and seeds under interleaved statements, failures and a crash; is the lock released? | 2 users, 3 requests (one may be `CreateGroup`), clients that name version 1, 1 failing statement, 1 crash |
| `missed_rotation` | finding: a departure without an increment | 3 users, 2 requests |
| `realtime` | hub, heartbeats, offsets and presence with overlapping connections | 1 user, 2 connections, 2 pushes called for (two events, or one that addresses the user twice), 2 Redis errors, 1 crash |
| `password_change` | does a password change with failing calls lose a chat key? | 2 chats, 2 devices, 3 passwords, 2 changes, 1 fault |
| `session` | are frames kept and in order, are requests answered, do the goroutines end? | 1 connection, 2 requests, 2 pushes, channels of 1, 1 socket that ends |
| `requests` | which answers can a request be settled with? is the status right, does the client retry, is a logout final? | 2 sockets, 2 requests, 1 fault, 1 socket that ends, 1 reconnection attempt |
| `key_agreement` | do both users keep the key their messages were encrypted with? | 2 messages, 1 password change of each user |
| `chat_list` | is a chat there twice, is one missing, is a message counted twice? | 2 companions, 2 messages, 2 loads at once |
| `window` | is a message there twice, is one wrong or missing, does the history end early, are read marks true? | 2 messages, pages of 1, 2 pages, 3 requests, or 2 of them and a failure, with which a third may be a send, 2 frames on their way |
| `key_storage` | whose private key does a browser use? | 2 users, 2 passwords, 2 tasks at once; no step after a lapse |

Why the bounds are enough. The hazards each involve two or three actors:
two handlers and the worker; a lock holder, a departing member and an added one;
an old connection, its replacement and the consumer; two devices and the
services a password change goes through; a request, the one before it, and the
goroutines in between; a page, an event and a call that waits; two loads and a new
chat; two users of one browser, or of one chat. Every run has one actor
more than its hazard needs or exactly as many with every fault. In `outbox` the
broker fails once for the handler and `MaxRetries` times for the worker with one
error left for the other event, so a row can be given up. One user suffices
there because publication, saving and retrying do not look at users. In
`group_keys` two users are enough for the liveness and seed properties, since the
safety properties are proved for any number; the third is needed only in
`missed_rotation`. In `session` the channels have one slot, so that two frames
fill them and make every goroutine wait; in `requests` they have two, so that the
answers of both requests can be under way at once; two sockets are enough for one
to replace the other, and one attempt for the timer and for giving up.
In `window` a page has one message, so that two messages make two pages,
one of which is the older; two frames on their way are enough for an answer and an
event, or two events, to pass each other. In `key_agreement` one change of each
user gives every order of two changes and two derivations, and any number of them
is covered by the proof. In `key_storage` two tasks are a form and what runs beside
it; the proof is for any number of users, passwords and tasks. The run stops at a
lapse (`UntilLapse`), as both of its properties hold of every state after one. In
`chat_list` two loads are the pair that can overlap.
`BatchLimit` is 1 where the cut of the batch matters and 100 (the code's value)
elsewhere. Symmetry is used only in runs without liveness properties.
`CHECK_DEADLOCK FALSE` is set where the system may rest, once all requests are
done; `chat_list` and `key_storage` never do.

Properties, by what they relate:

* topic and table: `LogFollowsCommit`, `DoneIsAccounted`, `DuplicatesNeedFaults`,
  `ImplementsRelay`, `EventuallyPublished`, `RelaySettles`;
* outbox rows and what happened: `OutboxOutcome`;
* stale reads of handlers: `NoResurrection`, `ReadIsJustified`;
* window and table: `ViewConverges`, `ViewIsCurrent`, `ViewIsDistinct`,
  `HistoryEndsTrue`, `ReadMarksAreTrue`;
* list of chats and table: `ChatsAreDistinct`, `ListIsComplete`, `UnreadIsBacked`;
* lock, version, departures, seeds: `RotationIsExclusive`,
  `DepartureIsRemembered`, `VersionCountsDepartures`, `SeedsAreNotAhead`,
  `LockIsReleased`;
* stored keys, passwords and the keys devices keep: `KeysUsePastPasswords`,
  `KeysStayReadable`, `MessagesStayReadable`, `KeyIsOfSession`,
  `StoredIsRestorable`;
* requests, answers and what is on its way: `FramesAreKept`, `EarlierAnswers`,
  `RequestsAreAnswered`;
* goroutines and the socket: `ClosedSessionsEnd`;
* the client's status and timer and its sockets: `StatusIsCurrent`,
  `ClosedIsRetried`, `LogoutIsFinal`;
* hub, connections, offsets: `StreamsAreLive`, `StreamsAreExtended`,
  `AloneIsServed`, `PushesAreInOrder`, `SkipsNeedCrashes`, `PresenceDecays`.

The types of the modules with proofs (`TypeOK`) are theorems.

Fairness. A started handler runs on (`WF` on its steps): a goroutine is scheduled
and its calls return. The worker's and the heartbeats' tickers fire, the
consumer loop runs, and Redis expires keys. The goroutines of a gateway session
are scheduled and the calls they make return; the browser handles the frames that
come and the end of its socket. Users, clients and faults are
unfair: nobody need call, connect, disconnect, fail or crash.

## 4. Findings

* **Missed rotation.** `tryKeyRotation` gives up when the lock is taken, and the
  holder increments once and never looks at `needs_rotation` again. A member
  removed between `IncrementKeyVersion` and `ReleaseRotationLock` leaves the
  version as it was until somebody else departs. The mark survives
  (`DepartureIsRemembered` is proved), but nothing acts on it.

What follows is reachable in the models, too, but contradicts nothing the
repository says; the properties exclude it by the name in parentheses, and the
hazards in `PROJECT.json` give the lines. The end of an older connection takes the
stream of the newer one out of the hub (`alone`). A user with an open connection
stays offline once the key has expired under failed extensions (`missed`). A
client's own save can put a seed ahead of the group's version (`NamedByClient`). A
password change from a device
that missed an earlier one skips the keys it cannot decrypt and reports success
(`StaleChange`). Two calls in flight take the same answer (`EarlierAnswers` allows
earlier ones). A chat key is derived anew for a chat that has one, or from key
pairs of different moments (`unsettled`). A browser uses the wrong private key
after a password change that was answered with an error though it was written, a
failing IndexedDB or a logout beside a login (`lapsed`), and finds none that
`hasStoredKey` announces after its fingerprint has changed (`Unreadable`). The races of the window
(`raced`, `echoed`, `lost`) and of the list (`disturbed`) are described with their
modules.

## 5. Proofs

`GroupKeysProofs` proves, for any finite set of users, any requests and any
number of faults, `TypeCorrect`, `RotationExclusive`, `DepartureRemembered`,
`VersionCounts` and `SeedsNotAhead`, from `UsersAssumption`, `VersionsAssumption`,
`FaultsAssumption` and `NoneAssumption`. The invariants are not inductive as they stand:

* `RotationInv` adds that a handler before its increment sees the group marked
  (`IncrementIsMarked`: only the holder clears the mark) and that `leftAt` is not
  ahead of the version (`DeparturesArePast`). Exclusion then follows from the
  lock being free in `TakeLock`, although `Unlock` does not look at its owner.
* `VersionInv` is `keyVersion + Owing <= Cardinality(Departed)`, where `Owing` is
  one while the group is marked: a departure pays for the mark, and the mark
  for the increment. It needs that the increment finds the mark set.
* `SeedInv` adds that the version a handler read from the group and carries in its
  locals has been reached (`VersionsAreReached`). A version that a client named may
  be any; such a handler is at its only statement or beyond it, and what it saved
  stays `NamedByClient`, since a handler keeps its request (`NamesStay`).

`ChatKeysProofs` proves `TypeCorrect`, `KeysUsePast` and `StayReadable` for any
chats, devices, passwords and changes, any number of faults and any number of
late statements, from `PasswordsAssumption` and `FaultsAssumption`:

* `KeysInv` adds that the keys devices keep and the keys on their way are under
  past passwords, and that a change whose password has been written has it among
  them; a change that timed out while writing does not, and touches no keys.
* `ReadableInv` holds while the user does one thing at a time from up-to-date
  devices (`Undisturbed`). Then at most one thing is under way (`OneAtATime`), a
  key about to be saved is under the device's key (`SavingIsCurrent`), and a
  change in flight agrees with the rest (`ChangeAgrees`): the device holds the
  old key, the change has collected exactly what is under it, the password is the
  old one until the write and the new one after it, and once the keys are updated
  none is under the old one, so that the device may drop it.
  `UndisturbedBefore` says that what disturbs the order is not forgotten.

`KeyProofs` proves, of `KeyAgreement`, `TypeCorrect` and `StayReadable` for any number of
messages and password changes, from `UsersAssumption` and `SentinelAssumption`.
`IInv` adds to the types `VersionsInv` (a browser lags behind the server only
between the two ends of a change) and, while nothing is unsettled, `Agreement`: a
key on its way is the one both key pairs give now (`SavesAreCurrent`), the rows
that have a key have the same one, and it is the current one while the other row
has none (`RowsAgree`), messages are encrypted with it (`MessagesAgree`), and so
are the copies in the list and in a password change (`CopiesAgree`). The second
row can then only get the key of the first, whoever derives it and when, and a
change puts the same key under the new private key.

Of `KeyStorage` it proves `StorageTypeCorrect`, `KeyOfSession` and `StoredRestorable` for
any users of one browser and any number of passwords and tasks, from
`NothingAssumption`. The invariant follows each task through its steps (`FormInv`)
and, while nothing has lapsed, says what each place holds meanwhile (`Clean`): one
task at a time saves a key, which is cached already (`SavingInv`); unless a change
of the session's user is between the write of his password and the clearing of
his keys (`Replacing`), what is cached or being read is the key of the session, and
so is what is kept, readable or not, while nobody saves (`OwnerInv`); and there is
a key where `storage_type` says (`StoredInv`). A key that is readable is the one that
is kept (`ReadableIsKept`).

`MessageServiceProofs` proves `TypeCorrect`, `LogFollows`, `DoneAccounted`,
`OutboxRight`, `DuplicatesPaid`, `ReadJustified` and `Resurrection` for any users,
requests, retries and number of faults. What a request has committed is told by
`pc` and `call` alone, so the tables are tied to them: `RowInv` (a row is the
message that was sent), `AboutInv` (what is altered, deleted or read was committed
before), `WrittenInv` (a sent message is stored or has a committed deletion, and
what was deleted is gone). `EventInv` puts the event after the write, and
`OutboxInv` and `WorkerInv` say that a batch still describes its rows, because only
the worker changes them, and that a row about to be marked completed is in the
topic. `CopiesInv` counts: a row that is pending, unless the worker is just about
to mark it, and a handler before `SaveToOutbox`, have one copy to spare, since an
error, a failed mark or a crash was spent on the publication that left a copy.

`RealtimeServiceProofs` proves `TypeCorrect`, `StreamsLive`, `StreamsExtended`,
`AloneServed`, `PushesInOrder` and `SkipsCrash` for any users, connections, events
and faults. `HubInv` ties `streams` and `cancelFuncs` to the steps of the
connections; `AloneInv` says of a connection without overlaps that all others of
its user have ended (`Only`) and what each of its steps has reached (`Served`: the
presence key is there, or the connection's own heartbeat has missed it);
`BeatInv` says that a heartbeat is cancelled under a stream only by a handler that
is about to remove the stream. `HandInv` and `ReceivedInv` keep what was received
before the event in hand, and that event at most once for each turn its user has
had, although `turn` and the stream that was looked up are used after the mutex was
released. `SkipsNeedCrashes` is
inductive with these: only a crash takes an event out of the hand before the loop
has turned to the next one.

The refinement of `EventRelay` is the theorem `Relays` of the same module: an
initial state maps to one, and every step to a step of the relay for one event or
to a stutter; a crash, which may lose the events of several handlers, only sets
`disturbed`, since an event without handler or row is `abandoned` in the mapping
(`CrashStep`). That nothing is abandoned while `disturbed` is false
(`GivenUpDisturbed`) needs two facts beside `IInv`: a row has been tried as often as
the broker failed since the handler's own attempt, so that a row that used up its
retries has cost more errors than the worker makes up for (`RetryInv`), and a lost
event was lost in a fault (`LostInv`).

The theorem `Converges` is about `ChatWindow`, for any requests, events and faults.
Of a message that is `Clear` (neither raced nor retried nor lost; this is never
regained, `Clears`), `WindowInv` says three things. `OrderInv`: in the topic it is
sent before anything else and nothing follows its deletion. `TableInv`: the row is
as the last event in the topic leaves it, or as the one request does that has
written and is about to publish. `ViewInv`: the window is as the last event that
arrived leaves it, or will when its decryption ends, and what is being decrypted
finds the message there, or not, as it needs to (`Show` does nothing otherwise).
The first is what the reads before the writes are for: `BeforeWrite` derives it from
`IInv` and `ReadyInv` (a request about to write still finds its message, unless
another one is in flight), since the message's own event must be in the topic when
its sender is done and nothing was held up. When nothing is in flight the last event
that arrived is the last of the topic, and window and table agree.

`ClientRequestsProofs` proves `StatusCurrent`, `ClosedRetried` and `LogoutFinal`
for any number of sockets, requests and attempts. What the gateway and the requests
do is reduced to one fact, that sockets only close (`GatewayCloses`). `SingleInv`
adds that only the socket in use can be open or opening unless one was replaced, and
that one left behind by a logout leaves neither a timer nor another socket;
`AttemptsInv` that attempts do not exceed the failures in a row.

The same module proves `TypeCorrect`, `FramesKept` and `EarlierAnswered`, with any
capacity of the channels and any number of pushes. `FramesAreKept` looks at what is
on its way as one sequence: the answers that came, those on the wire and in `send`,
then the request in service, those in `recv`, in the reader's hands and on the wire
(`RequestsOn`). Each goroutine moves the frame at its end of one part to the
beginning of the next, so that the sequence stays the same (`Same`), or adds a
request at its end, whose number is the largest; an answer takes the place of its
request (`AnswerKeeps`), and a push may come between two answers, but not between
two requests in service (`PushKeeps`), so the module states order apart from `None`.
`EarlierAnswers` needs more, since a dead session loses frames and its handlers stay
in the client: the answers that have come to a connection, living or not, are a
beginning of those to its requests (`Leads`, `ArrivedInv`); a handler that is still
subscribed has not been offered an answer that it accepts (`HandlersInv`). An answer
to a later request of the same connection has then been preceded by the request's
own, which the handler must have refused.

`ChatListProofs` proves `TypeCorrect`, `Distinctness`, `UnreadBacked` and
`ListComplete` for any companions, messages and loads. `DistinctInv` carries
distinctness to the list that `handleNewChat` remembers, which the new chat is not
in; `CountedInv` has the messages being decrypted in the count that must not exceed
what came; `CompleteInv` says that in an undisturbed run there is one load at most
(`OneLoad`) and that each row is on its way to the list: read by the load that will
replace it, or about to be read because the effect is due, a key is being saved or a
message has not been handled (`ChatIsComing`). A chat with its permanent id came
from an earlier load, so no later one loses it; one with a temporary id may be lost
by a load under way, but then the effect is due.

`MessageWindowProofs` proves `TypeCorrect`, `MarksAreTrue`, `Distinct`, `Current`
and `HistoryEnds` for any number of messages, pages, requests and failures and any
size of a page, from `BoundsAssumption` and `SentinelAssumption`. Each action is
first reduced to what it does to each variable (`StepsAre`), the pages, the lists of
what is kept and the queues to what is where in them (`PageIsRead`, `RemoveThins`,
`ReverseJoins`, `Queued`, `Shifted`). `BaseInv` holds whatever was lost. It relates
what left the table to what the table is now: the messages of a page or of the list
are rows with the same sender, and a page is never ahead of the table (`PageOK`);
what an event or an answer says has happened (`EventOK`, `AnswerOK`); the answer to a
send comes before any page that has the message, so that the message is later than
all of the user's in the window (`FifoInv`); and there is one page at a time unless
they overlapped (`OverlapInv`). Each property adds an invariant of its own:

* `ReadInv`: the user's messages are in the list in the order of the table, and a
  page of older messages, from the request to the decryption, has only earlier
  ones. A mark up to a place in the list is then one up to a message.
* `DistinctInv`: the page of older messages, from the request on, has none that the
  list has (`Apart`); the newest page replaces the list.
* `CurrentInv`: what is shown, or on its way to be, is what the row says, or an
  event that is still behind it says what has changed (`Fresh`, `Told`); a text of
  another message is not, and is told apart by `TextInv`, which needs that the
  answer to an earlier send is one with a later send behind it. Of a new
  message this is said of the events behind its own one.
* `HistoryInv`: `Settled` are the messages that no longer come by themselves, as an
  event or as the answer to a send; `Unseen` are those of them that the list does
  not have. They are older than all that the list shows and than all that still
  comes, there is more to load as long as there are any, and a page of older
  messages has them or says that there are more (`Finds`). For the newest page this
  is said of all that is settled, since the list was emptied.

The assumptions are those the modules state: bounds are numbers, and the values
that stand for nothing differ from the data. No proof uses the size of an instance.

Only model-checked: liveness, which is out of the prover's reach (`RelaySettles`,
`EventuallyPublished`, `LockIsReleased`, `PresenceDecays`, `RequestsAreAnswered`,
`ClosedSessionsEnd`). Every safety property of the passing runs is a theorem.

## 6. Not modelled

* Ciphers, hashes and encodings: keys and messages are told by what they were made
  from. The JWT library, generated code, metrics, deployment files and layout keep
  no state of the system.
* A data race of two `Send` calls on one gRPC stream: its effect is the library's.
  A `GracefulStop` that waits for clients: a kill is the model's crash.
* The Redis keys of auth-service behind a session, and the refresh of access
  tokens: `KeyStorage` has the session as a whole, which a logout, the end of the
  cookies and a login change. A model of the tokens would add their lifetimes.
* The rate limiter of the gateway: one counter per key, incremented and given an
  expiry in two Redis commands.
* Contents that cannot be decrypted. `ChatWindow` and `MessageWindow` take every
  event and every page to be encrypted with the key of the chat. The code drops a
  new message or an alteration that it cannot decrypt (`ChatWindow.tsx:215`,
  `:244`) and shows a placeholder for such a message of a page (`:94`, `:319`): that the
  window has every message, with its content, is claimed for readable ones only.
  Which key a message can be read with is the subject of `KeyAgreement`.
* The order and the previews of the chat list, the search and the online status,
  which are read and shown and change nothing else.
* Groups in the browser: no page uses them.

The next steps would be `AuthTokens` (login, refresh, logout and password change
over the token keys), and the rate limiter.
