--------------------------- MODULE MessageWindow ----------------------------
(***************************************************************************)
(* The ChatWindow of one user: its list of messages, which the pages of    *)
(* getMessages, the events of the websocket and the user's own sends, edits *)
(* and deletions update, each after awaits of its own.  message-service is *)
(* a table whose requests are served in order; answers and events come on  *)
(* one socket, events in the order they happened.  Answers have no id: each *)
(* is taken by every call that waits for its type.                         *)
(***************************************************************************)
EXTENDS Naturals, Sequences, FiniteSets

CONSTANTS
    MaxMessages,   \* bound: messages of the chat
    MaxPages,      \* bound: get_messages requests
    MaxRequests,   \* bound: requests of all types, and the failures among them; a send
                   \* does not count the failures
    MaxFaults,     \* bound: requests that fail though they could be served
    MaxWire,       \* bound: requests, answers and events on their way
    Limit,         \* the size of a page, 50 in the code
    Temp,          \* the id of a message until message-service has given it one
    None           \* nothing

Ids == 1 .. MaxMessages     \* in the order of (created_at, id)
Pages == 1 .. MaxPages
Contents == 0 .. 1          \* as sent, and altered
Other == 2                  \* the text of another message

Row == [mine: BOOLEAN, content: Contents, read: BOOLEAN, gone: BOOLEAN]
Shown == [id: Ids \cup {Temp}, mine: BOOLEAN, content: Contents \cup {Other},
          read: BOOLEAN]

\* The requests of the window, and the types of their answers.
AnswerType == [page |-> "messages", send |-> "message_sent",
               edit |-> "message_altered", delete |-> "message_deleted",
               mark |-> "marked_as_read"]

Requests == [op: DOMAIN AnswerType, id: Ids \cup {None, Temp}]
Answers == [op: DOMAIN AnswerType, to: Ids \cup {None, Temp}, got: Seq(Shown), end: BOOLEAN,
            type: {"error"} \cup {AnswerType[op] : op \in DOMAIN AnswerType}]
Events == [type: {"new_message", "message_read", "message_altered", "message_deleted"},
           id: Ids, mine: BOOLEAN]
Calls == [step: {"new", "waiting", "decrypting", "done"}, more: BOOLEAN,
          got: Seq(Shown), end: BOOLEAN]

ASSUME BoundsAssumption ==
    MaxMessages \in Nat /\ MaxPages \in Nat /\ MaxRequests \in Nat /\ MaxFaults \in Nat
    /\ MaxWire \in Nat /\ Limit \in Nat \ {0}
ASSUME SentinelAssumption == Temp \notin Ids /\ None \notin Ids \cup {Temp}

VARIABLES
    rows,        \* the table: per id a row; one that was deleted is gone, and what
                 \* it was is history
    created,     \* how many messages were created
    up,          \* requests on their way
    down,        \* answers on their way
    pushes,      \* events on their way
    view,        \* messages, of the state of the window
    hasMore, loadingMore,
    call,        \* per getMessages call: new, waiting, decrypting, done; whether
                 \* it is for older messages; what it got
    sending,     \* a send waits for message_sent
    editing,     \* the message of an edit that waits, or None
    deleting,    \* the message of a deletion that waits, or None
    decrypting,  \* events whose content is being decrypted
    asked, faults,   \* how many requests were made, and failed
    marked,      \* the last message that was marked as read, or 0
    echoed,      \* history: messages marked in the view as read when this user
                 \* had read a message
    raced,       \* history: messages with an event while a page, or another
                 \* event, was on its way to the list, or while the newest page
                 \* was read, which began after them; and messages sent that a
                 \* page took away
    lost         \* history: of "overlap", two getMessages calls at once;
                 \* "cursor", a page asked for from a message that is not there
                 \* or that raced;
                 \* "disorder", or from one that is not the oldest of the list;
                 \* "misread", an edit or a deletion settled by a frame about another
                 \* one; "unloaded", the newest page settled by an error;
                 \* "resent", a send settled by the answer to an earlier one

table == <<rows, created>>
wire == <<up, down, pushes>>
list == <<view, hasMore, loadingMore>>
ops == <<sending, editing, deleting>>
history == <<echoed, raced, lost>>
vars == <<rows, created, up, down, pushes, view, hasMore, loadingMore, call,
          sending, editing, deleting, decrypting, asked, faults, marked, echoed, raced,
          lost>>

Unwritten == [mine |-> FALSE, content |-> 0, read |-> FALSE, gone |-> FALSE]
NewCall == [step |-> "new", more |-> FALSE, got |-> <<>>, end |-> FALSE]

\* The window has decrypted the key of the chat; it has no messages yet.
Init ==
    /\ rows = [m \in Ids |-> Unwritten] /\ created = 0
    /\ up = <<>> /\ down = <<>> /\ pushes = <<>>
    /\ view = <<>> /\ hasMore = TRUE /\ loadingMore = FALSE
    /\ call = [p \in Pages |-> NewCall]
    /\ sending = FALSE /\ editing = None /\ deleting = None
    /\ decrypting = {}
    /\ asked = 0 /\ faults = 0 /\ marked = 0
    /\ echoed = {} /\ raced = {} /\ lost = {}

TypeOK ==
    /\ rows \in [Ids -> Row]
    /\ created \in 0 .. MaxMessages
    /\ up \in Seq(Requests) /\ down \in Seq(Answers) /\ pushes \in Seq(Events)
    /\ view \in Seq(Shown)
    /\ hasMore \in BOOLEAN /\ loadingMore \in BOOLEAN
    /\ call \in [Pages -> Calls]
    /\ sending \in BOOLEAN
    /\ editing \in Ids \cup {None} /\ deleting \in Ids \cup {None}
    /\ decrypting \subseteq {e \in Events : e.type \in {"new_message", "message_altered"}}
    /\ asked \in 0 .. MaxRequests /\ faults \in 0 .. MaxFaults
    /\ marked \in 0 .. MaxMessages
    /\ echoed \subseteq Ids /\ raced \subseteq Ids
    /\ lost \subseteq {"overlap", "cursor", "disorder", "misread", "unloaded", "resent"}

-----------------------------------------------------------------------------
(* message-service.                                                        *)

Exist == {m \in 1 .. created : ~rows[m].gone}

ReverseOf(s) == [i \in DOMAIN s |-> s[Len(s) + 1 - i]]

\* The numbers of a finite set, from the least to the greatest.
Listed(S) ==
    [k \in 1 .. Cardinality(S) |->
        CHOOSE m \in S : Cardinality({n \in S : n <= m}) = k]

\* GetByChatID: the newest rows before the cursor, newest first, and none if the
\* cursor has gone.
Page(cursor) ==
    LET older == {m \in Exist : cursor = None \/ (cursor \in Exist /\ m < cursor)}
    IN  ReverseOf(Listed({m \in older : Cardinality({n \in older : n > m}) < Limit}))

\* Mutant: a full page is taken for the last one.
LastPageIfFull(page) == Len(page) <= Limit

\* The page is the last one, as far as one can tell: ~has_more.
LastPage(page) == Len(page) < Limit

RowShown(m) == [id |-> m, mine |-> rows[m].mine, content |-> rows[m].content,
                read |-> rows[m].mine /\ rows[m].read]

Create(mine) ==
    /\ created' = created + 1
    /\ rows' = [rows EXCEPT ![created + 1] =
                   [Unwritten EXCEPT !.mine = mine]]

\* UpdateStatusBatch: the messages to the reader up to the last one.
ReadUpTo(mine, last) ==
    [m \in Ids |-> IF m \in Exist /\ rows[m].mine = mine /\ m <= last
                   THEN [rows[m] EXCEPT !.read = TRUE] ELSE rows[m]]

Event(type, m) == [type |-> type, id |-> m, mine |-> FALSE]
Push(event) == pushes' = Append(pushes, event)

WireHasRoom == Len(up) + Len(down) + Len(pushes) < MaxWire

\* The companion sends, reads, alters or deletes.
CompanionSends ==
    /\ created < MaxMessages
    /\ Create(FALSE)
    /\ Push(Event("new_message", created + 1))

CompanionReads(m) ==
    /\ rows[m].mine /\ ~rows[m].read
    /\ rows' = ReadUpTo(TRUE, m)
    /\ Push(Event("message_read", m))
    /\ UNCHANGED created

CompanionAlters(m) ==
    /\ ~rows[m].mine /\ rows[m].content = 0
    /\ rows' = [rows EXCEPT ![m].content = 1]
    /\ Push(Event("message_altered", m))
    /\ UNCHANGED created

CompanionDeletes(m) ==
    /\ ~rows[m].mine
    /\ rows' = [rows EXCEPT ![m].gone = TRUE]
    /\ Push(Event("message_deleted", m))
    /\ UNCHANGED created

Companion ==
    /\ WireHasRoom
    /\ \/ CompanionSends
       \/ \E m \in Exist : CompanionReads(m) \/ CompanionAlters(m) \/ CompanionDeletes(m)
    /\ UNCHANGED <<up, down, list, call, ops, decrypting, asked, faults, marked, history>>

Answer(r, type, got, end) ==
    down' = Append(down, [op |-> r.op, to |-> r.id, type |-> type, got |-> got, end |-> end])

\* New messages with their events on their way that are not in the newest page.
CutOff ==
    {m \in Ids : /\ \E i \in DOMAIN pushes : pushes[i].type = "new_message" /\ pushes[i].id = m
                /\ \A i \in DOMAIN Page(None) : Page(None)[i] # m}

ServePage(r) ==
    /\ r.op = "page" /\ r.id # Temp
    /\ LET page == Page(r.id)
       IN  Answer(r, "messages", [i \in DOMAIN page |-> RowShown(page[i])], LastPage(page))
    /\ lost' = IF r.id # None /\ r.id \notin Exist THEN lost \cup {"cursor"} ELSE lost
    /\ raced' = IF r.id = None THEN raced \cup CutOff ELSE raced
    /\ UNCHANGED <<table, pushes, faults>>

ServeSend(r) ==
    /\ r.op = "send" /\ created < MaxMessages
    /\ Create(TRUE)
    /\ Answer(r, "message_sent", <<[id |-> created + 1, mine |-> TRUE, content |-> 0,
                                   read |-> FALSE]>>, FALSE)
    /\ UNCHANGED <<pushes, faults, raced, lost>>

\* The events of a deletion, an alteration and a reading go to both users, the one
\* who caused them included.
ServeChange(r) ==
    /\ r.op \in {"edit", "delete", "mark"} /\ r.id \in Exist
    /\ rows' = CASE r.op = "edit"   -> [rows EXCEPT ![r.id].content = 1]
                 [] r.op = "delete" -> [rows EXCEPT ![r.id].gone = TRUE]
                 [] r.op = "mark"   -> ReadUpTo(FALSE, r.id)
    /\ Push([type |-> IF r.op = "mark" THEN "message_read" ELSE AnswerType[r.op],
             id |-> r.id, mine |-> TRUE])
    /\ Answer(r, AnswerType[r.op], <<>>, FALSE)
    /\ UNCHANGED <<created, faults, raced, lost>>

\* A message is not there, a temporary id is no id of the table, or a service is
\* down.
Refuse(r) ==
    /\ \/ /\ \/ r.op \in {"edit", "delete", "mark"} /\ r.id \notin Exist
             \/ r.op = "page" /\ r.id = Temp
          /\ faults' = faults
       \/ asked + faults < MaxRequests /\ faults < MaxFaults /\ faults' = faults + 1
    /\ Answer(r, "error", <<>>, FALSE)
    /\ UNCHANGED <<table, pushes, raced, lost>>

\* The next request is served, or fails.
Serve ==
    /\ up # <<>>
    /\ up' = Tail(up)
    /\ LET r == Head(up) IN ServePage(r) \/ ServeSend(r) \/ ServeChange(r) \/ Refuse(r)
    /\ UNCHANGED <<list, call, ops, decrypting, asked, marked, echoed>>

-----------------------------------------------------------------------------
(* getMessages.                                                            *)

Asking(op) ==
    /\ asked + (IF op = "send" THEN 0 ELSE faults) < MaxRequests /\ asked' = asked + 1
    /\ WireHasRoom

InFlight == {p \in Pages : call[p].step \in {"waiting", "decrypting"}}

\* A page that was asked for will come, though an error may have settled its call.
PageComes ==
    \/ InFlight # {}
    \/ \E i \in DOMAIN up : up[i].op = "page"
    \/ \E i \in DOMAIN down : down[i].type = "messages"

\* The first message of the list is not its oldest: an event came late.
Disordered ==
    \E i \in DOMAIN view :
        Temp \notin {view[1].id, view[i].id} /\ view[i].id < view[1].id

Ask(p, cursor) ==
    /\ Asking("page")
    /\ \A q \in Pages : call[q].step = "new" <=> q >= p
    /\ call' = [call EXCEPT ![p] = [NewCall EXCEPT !.step = "waiting", !.more = cursor # None]]
    /\ up' = Append(up, [op |-> "page", id |-> cursor])
    /\ lost' = lost \cup (IF PageComes THEN {"overlap"} ELSE {})
                    \cup (IF cursor # None /\ Disordered THEN {"disorder"} ELSE {})
                    \cup (IF cursor \in raced THEN {"cursor"} ELSE {})
    /\ raced' = raced \cup {d.id : d \in decrypting}

\* The effect that resets the list and loads its newest page.  It depends on the
\* list itself, through markMessagesAsRead, and so it is due again whenever the
\* list has been set, by the effect as well.
Reset(p) ==
    /\ view' = <<>> /\ hasMore' = TRUE /\ loadingMore' = FALSE
    /\ Ask(p, None)
    /\ UNCHANGED <<table, down, pushes, ops, decrypting, faults, marked, echoed>>

\* startReached of the list, and the guards of loadMoreMessages.
MayLoadMore == hasMore /\ ~loadingMore

LoadMore(p) ==
    /\ view # <<>>
    /\ MayLoadMore
    /\ loadingMore' = TRUE
    /\ Ask(p, view[1].id)
    /\ UNCHANGED <<table, down, pushes, view, hasMore, ops, decrypting, faults, marked,
                   echoed>>

\* The contents are decrypted: the page replaces the list, or comes before it.
\* An empty page of older messages only ends the history.
Loaded(p) ==
    /\ call[p].step = "decrypting"
    /\ call' = [call EXCEPT ![p] = [NewCall EXCEPT !.step = "done"]]
    /\ view' = ReverseOf(call[p].got) \o (IF call[p].more THEN view ELSE <<>>)
    /\ hasMore' = ~call[p].end
    /\ loadingMore' = IF call[p].more THEN FALSE ELSE loadingMore
    /\ UNCHANGED <<table, wire, ops, decrypting, asked, faults, marked, history>>

-----------------------------------------------------------------------------
(* Answers.                                                                *)

InView(m) == \E i \in DOMAIN view : view[i].id = m
Remove(ids) ==
    LET kept == Listed({i \in DOMAIN view : view[i].id \notin ids})
    IN  [k \in DOMAIN kept |-> view[kept[k]]]
Altered(m) == [i \in DOMAIN view |->
                  IF view[i].id = m THEN [view[i] EXCEPT !.content = 1] ELSE view[i]]

\* Mutant: the temporary message stays.
KeepTemp == view

\* A send that failed takes its message out of the list.
DropTemp == Remove({Temp})

\* The first answer is to an earlier send: that to the last one has not come.
LaterSend ==
    \/ \E i \in DOMAIN up : up[i].op = "send"
    \/ \E i \in DOMAIN down \ {1} : down[i].op = "send"

\* The temporary message becomes the one of the answer, with the text of this send.
Confirmed(sent) ==
    LET shown == IF LaterSend THEN [sent EXCEPT !.content = Other] ELSE sent
    IN  [i \in DOMAIN view |-> IF view[i].id = Temp THEN shown ELSE view[i]]

\* A frame of the type settles the calls that wait for it, and an error settles
\* all; an event has the type of the answer to a deletion or an edit.
Settle(type, got, end) ==
    LET failed == type = "error"
        Hit(op) == type = AnswerType[op] \/ failed
    IN  /\ call' = [p \in Pages |->
              IF call[p].step # "waiting" \/ ~Hit("page") THEN call[p]
              ELSE IF failed THEN [NewCall EXCEPT !.step = "done"]
              ELSE [call[p] EXCEPT !.step = "decrypting", !.got = got, !.end = end]]
        /\ loadingMore' = (loadingMore /\ ~(failed /\
              \E p \in Pages : call[p].step = "waiting" /\ call[p].more))
        /\ sending' = (sending /\ ~Hit("send"))
        /\ editing' = IF Hit("edit") THEN None ELSE editing
        /\ deleting' = IF Hit("delete") THEN None ELSE deleting
        /\ view' = CASE sending /\ type = "message_sent"      -> Confirmed(got[1])
                     [] sending /\ failed                     -> DropTemp
                     [] editing # None /\ type = "message_altered"  -> Altered(editing)
                     [] deleting # None /\ type = "message_deleted" -> Remove({deleting})
                     [] OTHER                                 -> view

\* An edit or a deletion that waits takes a frame that is about another message,
\* a send the answer to an earlier one, or the call for the newest page an error,
\* its own or not.
Misread(type, m) ==
    LET edits == type = "message_altered" /\ editing \notin {None, m}
        deletes == type = "message_deleted" /\ deleting \notin {None, m}
        unloads == type = "error" /\
                   \E p \in Pages : call[p].step = "waiting" /\ ~call[p].more
        resends == type = "message_sent" /\ sending /\ LaterSend
    IN  lost' = lost \cup (IF edits \/ deletes THEN {"misread"} ELSE {})
                     \cup (IF unloads THEN {"unloaded"} ELSE {})
                     \cup (IF resends THEN {"resent"} ELSE {})

Answered ==
    /\ down # <<>>
    /\ down' = Tail(down)
    /\ Settle(Head(down).type, Head(down).got, Head(down).end)
    /\ raced' = IF Head(down).type = "message_sent" /\ (~InView(Temp) \/ InFlight # {})
                THEN raced \cup {Head(down).got[1].id} ELSE raced
    /\ Misread(Head(down).type, Head(down).to)
    /\ UNCHANGED <<table, up, pushes, hasMore, decrypting, asked, faults, marked, echoed>>

-----------------------------------------------------------------------------
(* Events.                                                                 *)

IndexOf(m) ==
    CHOOSE i \in DOMAIN view : view[i].id = m /\ \A j \in 1 .. i - 1 : view[j].id # m

\* Mutant: all messages of the user are marked.
MarkedAll(last) == {i \in DOMAIN view : view[i].mine /\ view[i].id # Temp}

\* The user's messages up to the last one that was read.
MarkedUpTo(last) == {i \in DOMAIN view : view[i].mine /\ i <= IndexOf(last)}

Read(e) ==
    LET marks == IF InView(e.id) THEN MarkedUpTo(e.id) ELSE {}
    IN  /\ view' = [i \in DOMAIN view |->
                       IF i \in marks THEN [view[i] EXCEPT !.read = TRUE] ELSE view[i]]
        /\ echoed' = IF e.mine THEN echoed \cup ({view[i].id : i \in marks} \ {Temp})
                     ELSE echoed

\* The handlers run up to their first await, or to their end; an edit or a
\* deletion that waits is settled by the event first.
ReadArrives(e) ==
    /\ e.type = "message_read"
    /\ Read(e)
    /\ UNCHANGED <<ops, decrypting>>

DeletedArrives(e) ==
    /\ e.type = "message_deleted"
    /\ view' = Remove({e.id, deleting})
    /\ deleting' = None
    /\ UNCHANGED <<sending, editing, decrypting, echoed>>

AlteredArrives(e) ==
    /\ e.type = "message_altered"
    /\ view' = IF editing = None THEN view ELSE Altered(editing)
    /\ editing' = None
    /\ decrypting' = decrypting \cup {e}
    /\ UNCHANGED <<sending, deleting, echoed>>

NewArrives(e) ==
    /\ e.type = "new_message"
    /\ decrypting' = decrypting \cup {e}
    /\ UNCHANGED <<view, ops, echoed>>

Arrive ==
    /\ pushes # <<>>
    /\ pushes' = Tail(pushes)
    /\ LET e == Head(pushes) IN
       /\ raced' = IF InFlight # {} \/ \E d \in decrypting : d.id = e.id
                   THEN raced \cup {e.id} ELSE raced
       /\ Misread(e.type, e.id)
       /\ ReadArrives(e) \/ DeletedArrives(e) \/ AlteredArrives(e) \/ NewArrives(e)
    /\ UNCHANGED <<table, up, down, hasMore, loadingMore, call, asked, faults, marked>>

AsSent(m) == [id |-> m, mine |-> FALSE, content |-> 0, read |-> FALSE]

\* Mutant: it is added although it is there.
AddedAlways(m) == Append(view, AsSent(m))

\* A new message is added unless it is there.
Added(m) == IF InView(m) THEN view ELSE Append(view, AsSent(m))

Decrypted(e) ==
    /\ decrypting' = decrypting \ {e}
    /\ view' = IF e.type = "message_altered" THEN Altered(e.id) ELSE Added(e.id)
    /\ UNCHANGED <<table, wire, hasMore, loadingMore, call, ops, asked, faults, marked,
                   history>>

-----------------------------------------------------------------------------
(* The user.  One send, one edit and one deletion at a time: what overlaps  *)
(* with others of its kind is settled as ClientRequests describes.         *)

Request(op, m) ==
    /\ Asking(op)
    /\ up' = Append(up, [op |-> op, id |-> m])
    /\ UNCHANGED <<table, down, pushes, hasMore, loadingMore, call, decrypting, faults,
                   history>>

\* handleSendMessage: the message is shown before it is sent.
SendMessage ==
    /\ ~sending /\ created < MaxMessages
    /\ sending' = TRUE
    /\ view' = Append(view, [id |-> Temp, mine |-> TRUE, content |-> 0, read |-> FALSE])
    /\ Request("send", None)
    /\ UNCHANGED <<editing, deleting, marked>>

\* handleSubmitEdit and confirmDelete: of a message of one's own in the list.
Edit(m) ==
    /\ editing = None
    /\ \E i \in DOMAIN view : view[i].id = m /\ view[i].mine /\ view[i].content # 1
    /\ editing' = m
    /\ Request("edit", m)
    /\ UNCHANGED <<view, sending, deleting, marked>>

Delete(m) ==
    /\ deleting = None
    /\ \E i \in DOMAIN view : view[i].id = m /\ view[i].mine
    /\ deleting' = m
    /\ Request("delete", m)
    /\ UNCHANGED <<view, sending, editing, marked>>

\* markMessagesAsRead, whenever the list changes: the last message of the
\* companion.  To ask again for the same one changes nothing.
MarkAsRead ==
    /\ \E i \in DOMAIN view :
          /\ ~view[i].mine /\ \A j \in DOMAIN view : j > i => view[j].mine
          /\ view[i].id # marked
          /\ marked' = view[i].id
          /\ Request("mark", view[i].id)
    /\ UNCHANGED <<view, ops>>

Next ==
    \/ Companion \/ Serve \/ Answered \/ Arrive
    \/ \E p \in Pages : Reset(p) \/ LoadMore(p) \/ Loaded(p)
    \/ \E e \in decrypting : Decrypted(e)
    \/ SendMessage \/ MarkAsRead
    \/ \E m \in Ids : Edit(m) \/ Delete(m)

Spec == Init /\ [][Next]_vars

-----------------------------------------------------------------------------
\* A message that is shown as read has been read by the companion; or the user
\* has read a later one, whose event comes to his own window, too, and marks
\* his messages before it.  Those are the earlier ones unless two pages were on
\* their way at once, the list was out of order, or a send took the answer to an
\* earlier one.
ReadMarksAreTrue ==
    lost \cap {"overlap", "disorder", "resent"} = {} =>
        \A i \in DOMAIN view :
            LET m == view[i].id IN
            view[i].read /\ m \in Exist => rows[m].read \/ m \in echoed

\* No message is shown twice, although it comes with pages and with its event,
\* unless its event raced a page, or two pages were on their way at once (each
\* call takes the first answer), or the list was out of order.
ViewIsDistinct ==
    lost \cap {"overlap", "disorder"} = {} =>
        \A i, j \in DOMAIN view :
            view[i].id = view[j].id => i = j \/ view[i].id \in raced

Quiet ==
    /\ up = <<>> /\ down = <<>> /\ pushes = <<>>
    /\ InFlight = {} /\ decrypting = {}

\* When nothing is on its way, each message of the list is in the table with the
\* content shown, and none is still on its way to be sent; but for messages with
\* events that raced a page or another event, and unless pages overlapped or an
\* edit or a deletion took a frame about another message for its answer.  A text
\* of another message is only shown once a send took the answer to an earlier one.
ViewIsCurrent ==
    Quiet => \A i \in DOMAIN view :
        LET m == view[i].id IN
        /\ m # Temp
        /\ view[i].content = Other => "resent" \in lost
        /\ lost \cap {"overlap", "misread"} = {} /\ m \notin raced =>
              m \in Exist /\ view[i].content \in {rows[m].content, Other}

\* When the list says that there are no older messages, it has every message of
\* the chat but those whose events raced a page; unless pages overlapped, a page
\* was asked for from a message that had been deleted or that had raced, the newest
\* page was not loaded for an error, or a deletion took a frame about another
\* message for its answer.
HistoryEndsTrue ==
    /\ Quiet /\ ~hasMore
    /\ lost \cap {"overlap", "cursor", "misread", "unloaded"} = {}
    => \A m \in Exist \ raced : InView(m)
=============================================================================
