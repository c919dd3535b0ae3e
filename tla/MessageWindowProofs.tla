------------------------- MODULE MessageWindowProofs -------------------------
(***************************************************************************)
(* Proofs about MessageWindow: what the list shows against the table, under *)
(* pages, events and the user's own requests that pass each other.         *)
(***************************************************************************)
EXTENDS MessageWindow, FiniteSetTheorems, SequenceTheorems, TLAPS
-----------------------------------------------------------------------------
(* What holds whatever was lost.                                           *)

Written == 1 .. created
IsPage(i) == i \in DOMAIN down /\ down[i].type = "messages"
IsSent(i) == i \in DOMAIN down /\ down[i].type = "message_sent"
Sent(i) == down[i].got[1].id
PageAsked(i) == i \in DOMAIN up /\ up[i].op = "page"
Waits(p) == p \in Pages /\ call[p].step = "waiting"
Decrypts(p) == p \in Pages /\ call[p].step = "decrypting"

\* What the window shows, or is to show, is of the table.
OfTable(s) == s.id \in Written /\ s.mine = rows[s.id].mine

\* A page: its messages, the newest first, as they were read.
PageOK(got) ==
    /\ \A a \in DOMAIN got :
          /\ OfTable(got[a])
          /\ got[a].read => rows[got[a].id].read
          /\ got[a].content \in {0, 1}
          /\ got[a].content = 1 => rows[got[a].id].content = 1
    /\ \A a, b \in DOMAIN got : a < b => got[a].id > got[b].id

\* A message that was sent, as it still is.
SentOK(got) ==
    /\ Len(got) = 1
    /\ OfTable(got[1]) /\ got[1].mine /\ ~got[1].read /\ got[1].content = 0
    /\ rows[got[1].id].content = 0 /\ ~rows[got[1].id].gone

\* A request asks about messages of the table, and not about one that was sent and
\* not yet answered.
RequestOK(r) ==
    /\ r.op \in {"edit", "delete"} => r.id \in Written
    /\ r.op = "page" /\ r.id \in Ids => r.id \in Written

UpInv ==
    \A i \in DOMAIN up :
        /\ RequestOK(up[i])
        /\ up[i].op \in {"edit", "delete"} =>
              \A k \in DOMAIN down : IsSent(k) => up[i].id # Sent(k)

AnswerOK(a) ==
    /\ a.type = "messages" => PageOK(a.got)
    /\ a.type = "message_sent" => a.op = "send" /\ SentOK(a.got)
    /\ a.type = "message_altered" => a.to \in Written /\ rows[a.to].content = 1
    /\ a.type = "message_deleted" => a.to \in Written /\ rows[a.to].gone

DownInv == \A i \in DOMAIN down : AnswerOK(down[i])

EventOK(e) ==
    /\ e.id \in Written
    /\ e.type = "new_message" => ~rows[e.id].mine
    /\ e.type = "message_altered" => rows[e.id].content = 1
    /\ e.type = "message_deleted" => rows[e.id].gone
    /\ e.type = "message_read" /\ ~e.mine =>
          /\ rows[e.id].mine
          /\ \A n \in Exist : rows[n].mine /\ n <= e.id => rows[n].read

PushInv ==
    /\ \A i \in DOMAIN pushes : EventOK(pushes[i])
    /\ \A e \in decrypting : EventOK(e)

ViewInv ==
    /\ \A k \in DOMAIN view : IF view[k].id = Temp THEN view[k].mine ELSE OfTable(view[k])
    /\ \A j, k \in DOMAIN view : view[j].id = Temp /\ j < k => ~view[k].mine
    /\ \A k \in DOMAIN view : view[k].id = Temp => sending

\* A text of another message is that of a send that took an earlier answer.
TextInv == \A k \in DOMAIN view : view[k].content = Other => "resent" \in lost

CallInv == \A p \in Pages : Decrypts(p) => PageOK(call[p].got)

\* The user's messages that are shown, or are to be, were created before.
OwnUnder(x) ==
    /\ \A k \in DOMAIN view : view[k].mine /\ view[k].id # Temp => view[k].id < x
    /\ \A p \in Pages : Decrypts(p) =>
          \A a \in DOMAIN call[p].got : call[p].got[a].mine => call[p].got[a].id < x

AnswerUnder(a, x) ==
    /\ a.type = "message_sent" => a.got[1].id < x
    /\ a.type = "messages" => \A b \in DOMAIN a.got : a.got[b].mine => a.got[b].id < x

\* The answer to a send comes before any page that has the message, and the last
\* one is about the newest message of the user.
FifoInv ==
    /\ \A i, k \in DOMAIN down : i < k /\ IsSent(k) => AnswerUnder(down[i], Sent(k))
    /\ \A i \in DOMAIN down : IsSent(i) => OwnUnder(Sent(i))
    /\ \A i \in DOMAIN down :
          IsSent(i) /\ (\A k \in DOMAIN down : k > i => ~IsSent(k)) =>
              \A n \in Written : rows[n].mine => n <= Sent(i)

SendInv ==
    sending => \/ \E i \in DOMAIN up : up[i].op = "send"
               \/ \E i \in DOMAIN down : down[i].type \in {"message_sent", "error"}

RacedInv == InFlight # {} => \A e \in decrypting : e.id \in raced

\* One page at a time.
OverlapInv ==
    "overlap" \notin lost =>
        /\ \A i, j \in DOMAIN up : PageAsked(i) /\ PageAsked(j) => i = j
        /\ \A i, j \in DOMAIN down : IsPage(i) /\ IsPage(j) => i = j
        /\ \A i \in DOMAIN up, j \in DOMAIN down : ~(PageAsked(i) /\ IsPage(j))
        /\ \A p, q \in InFlight : p = q
        /\ \A p \in Pages : Decrypts(p) =>
              /\ \A i \in DOMAIN up : ~PageAsked(i)
              /\ \A i \in DOMAIN down : ~IsPage(i)
        /\ \A p \in Pages, i \in DOMAIN up :
              Waits(p) /\ PageAsked(i) => (call[p].more <=> up[i].id # None)

-----------------------------------------------------------------------------
(* ReadMarksAreTrue.                                                       *)

MoreWaits == \E p \in Pages : Waits(p) /\ call[p].more
NewestWaits == \E p \in Pages : Waits(p) /\ ~call[p].more

OwnBelow(got) ==
    \A a \in DOMAIN got, k \in DOMAIN view :
        got[a].mine /\ view[k].mine /\ view[k].id # Temp => got[a].id <= view[k].id

ReadInv ==
    lost \cap {"overlap", "disorder", "resent"} = {} =>
        /\ \A k \in DOMAIN view :
              view[k].read /\ view[k].id \in Exist =>
                  rows[view[k].id].read \/ view[k].id \in echoed
        /\ \A j, k \in DOMAIN view :
              /\ j < k
              /\ view[j].mine /\ view[k].mine /\ Temp \notin {view[j].id, view[k].id}
              => view[j].id <= view[k].id
        /\ MoreWaits => \A i \in DOMAIN up :
              PageAsked(i) /\ up[i].id \in Ids =>
                  \A k \in DOMAIN view, n \in Written :
                      /\ view[k].mine /\ view[k].id # Temp
                      /\ rows[n].mine /\ n < up[i].id
                      => n <= view[k].id
        /\ MoreWaits => \A i \in DOMAIN down : IsPage(i) => OwnBelow(down[i].got)
        /\ \A p \in Pages : Decrypts(p) /\ call[p].more => OwnBelow(call[p].got)

-----------------------------------------------------------------------------
(* ViewIsDistinct.                                                         *)

Apart(got) ==
    \A a \in DOMAIN got, k \in DOMAIN view :
        got[a].id = view[k].id => view[k].id \in raced

DistinctInv ==
    lost \cap {"overlap", "disorder"} = {} =>
        /\ \A j, k \in DOMAIN view :
              view[j].id = view[k].id /\ view[j].id # Temp => j = k \/ view[j].id \in raced
        /\ MoreWaits => \A i \in DOMAIN up :
              PageAsked(i) /\ up[i].id \in Ids =>
                  \A k \in DOMAIN view :
                      view[k].id # Temp /\ view[k].id < up[i].id => view[k].id \in raced
        /\ MoreWaits => \A i \in DOMAIN down : IsPage(i) => Apart(down[i].got)
        /\ \A p \in Pages : Decrypts(p) /\ call[p].more => Apart(call[p].got)

-----------------------------------------------------------------------------
(* ViewIsCurrent.                                                          *)

Pushed(type, m, from) ==
    \E i \in DOMAIN pushes : i >= from /\ pushes[i].type = type /\ pushes[i].id = m

\* What became of the message is told by an event that is still to come.
Told(m, content, from) ==
    /\ rows[m].gone => Pushed("message_deleted", m, from)
    /\ rows[m].content # content => Pushed("message_altered", m, from)

\* What is shown of a message is what it is, or will be told.
Fresh(s) ==
    /\ s.content = 1 => rows[s.id].content = 1
    /\ s.id \notin raced =>
          /\ rows[s.id].gone => Pushed("message_deleted", s.id, 1)
          /\ rows[s.id].content # s.content /\ s.content # Other =>
                \/ Pushed("message_altered", s.id, 1)
                \/ \E e \in decrypting : e.type = "message_altered" /\ e.id = s.id

ToldOf(got) ==
    \A a \in DOMAIN got : got[a].id \notin raced => Told(got[a].id, got[a].content, 1)

CurrentInv ==
    lost \cap {"overlap", "misread"} = {} =>
        /\ \A k \in DOMAIN view : view[k].id # Temp => Fresh(view[k])
        /\ InFlight # {} => \A i \in DOMAIN down : IsPage(i) => ToldOf(down[i].got)
        /\ \A p \in Pages : Decrypts(p) => ToldOf(call[p].got)
        /\ \A i \in DOMAIN pushes :
              pushes[i].type = "new_message" => Told(pushes[i].id, 0, i + 1)
        /\ \A e \in decrypting :
              e.type = "new_message" /\ e.id \notin raced => Told(e.id, 0, 1)

-----------------------------------------------------------------------------
(* HistoryEndsTrue.                                                        *)

NewPushed(m) == Pushed("new_message", m, 1)
NewDecrypts(m) == \E e \in decrypting : e.type = "new_message" /\ e.id = m
SentComes(m) == \E i \in DOMAIN down : IsSent(i) /\ Sent(i) = m
Coming(m) == NewPushed(m) \/ NewDecrypts(m) \/ SentComes(m)

Settled == {m \in Exist \ raced : ~Coming(m)}
Unseen == {m \in Settled : ~InView(m)}
Has(got, m) == \E a \in DOMAIN got : got[a].id = m
Below(got, m) == \A a \in DOMAIN got : m < got[a].id
NoNewest == \A p \in InFlight : call[p].more

\* A page, or a call that has got it, has the message, or says that there are more.
Finds(page, m) == Has(page.got, m) \/ (~page.end /\ Below(page.got, m))

\* The messages that the list does not have are older than what it shows.
UnseenAreOlder ==
    \A m \in Unseen :
        hasMore /\ \A k \in DOMAIN view : view[k].id \in Exist \ raced => m < view[k].id

\* A page of older messages has those that the list does not have.
UnseenAreAsked ==
    MoreWaits => \A i \in DOMAIN up :
        PageAsked(i) /\ up[i].id \in Exist => \A m \in Unseen : m < up[i].id

UnseenCome ==
    MoreWaits => \A i \in DOMAIN down :
        IsPage(i) => \A m \in Unseen : Finds(down[i], m)

UnseenAreDecrypted ==
    \A p \in Pages : Decrypts(p) /\ call[p].more => \A m \in Unseen : Finds(call[p], m)

\* The newest page has all that does not come by itself, and what it leaves out is
\* older than what comes.
SettledCome ==
    NewestWaits => \A i \in DOMAIN down : IsPage(i) => \A m \in Settled :
        \/ Has(down[i].got, m)
        \/ /\ ~down[i].end /\ Below(down[i].got, m)
           /\ \A n \in Exist \ raced : NewPushed(n) => m < n
           /\ \A k \in DOMAIN down : k > i /\ IsSent(k) => m < Sent(k)

SettledAreDecrypted ==
    \A p \in Pages : Decrypts(p) /\ ~call[p].more => \A m \in Settled :
        \/ Has(call[p].got, m)
        \/ /\ ~call[p].end /\ Below(call[p].got, m)
           /\ \A n \in Exist \ raced : NewPushed(n) => m < n
           /\ \A n : SentComes(n) => m < n

ComingAreNewer ==
    NoNewest => \A m \in Unseen, n \in Exist \ raced : Coming(n) => m < n

HistoryInv ==
    lost \cap {"overlap", "cursor", "misread", "unloaded"} = {} =>
        /\ UnseenAreOlder
        /\ UnseenAreAsked /\ UnseenCome /\ UnseenAreDecrypted
        /\ SettledCome /\ SettledAreDecrypted
        /\ ComingAreNewer

-----------------------------------------------------------------------------
(* Numbers in order.                                                       *)

LEMMA NumbersAreFinite ==
    ASSUME NEW n \in Nat, NEW S \in SUBSET (1 .. n)
    PROVE  IsFiniteSet(S) /\ Cardinality(S) \in Nat /\ \A m \in S : m \in Nat
<1>1. 1 \in Int /\ n \in Int /\ \A m \in 1 .. n : m \in Nat
    OBVIOUS
<1>2. IsFiniteSet(1 .. n)
    BY <1>1, FS_Interval
<1>3. IsFiniteSet(S)
    BY <1>2, FS_Subset
<1>. QED
    BY <1>1, <1>3, FS_CardinalityType

\* The rank of a number in a finite set tells it.
LEMMA RankIsInjective ==
    ASSUME NEW n \in Nat, NEW S \in SUBSET (1 .. n), NEW x \in S, NEW y \in S, x < y
    PROVE  /\ Cardinality({m \in S : m <= x}) \in Nat \ {0}
           /\ Cardinality({m \in S : m <= x}) < Cardinality({m \in S : m <= y})
           /\ Cardinality({m \in S : m <= y}) <= Cardinality(S)
<1>. DEFINE Upto(m) == {l \in S : l <= m}
<1>1. IsFiniteSet(S) /\ \A m \in S : m \in Nat
    BY NumbersAreFinite
<1>2. /\ IsFiniteSet(Upto(x)) /\ IsFiniteSet(Upto(y))
      /\ Cardinality(Upto(y)) <= Cardinality(S)
    BY <1>1, FS_Subset
<1>3. Upto(x) \in SUBSET Upto(y) /\ y \in Upto(y) /\ y \notin Upto(x) /\ x \in Upto(x)
    <2>1. x \in Nat /\ y \in Nat
        BY <1>1
    <2>2. \A m \in S : m <= x => m <= y
        BY <1>1, <2>1
    <2>3. Upto(x) \subseteq Upto(y)
        BY <2>2
    <2>4. x <= x /\ y <= y /\ ~(y <= x)
        BY <2>1
    <2>. QED
        BY <2>3, <2>4
<1>4. Cardinality(Upto(x)) <= Cardinality(Upto(y)) /\ Cardinality(Upto(x)) # Cardinality(Upto(y))
    BY <1>2, <1>3, FS_Subset
<1>5. Cardinality(Upto(x)) \in Nat /\ Cardinality(Upto(y)) \in Nat
    BY <1>2, FS_CardinalityType
<1>6. Cardinality(Upto(x)) # 0
    BY <1>2, <1>3, FS_EmptySet
<1>. QED
    BY <1>2, <1>4, <1>5, <1>6

LEMMA RankIsPositive ==
    ASSUME NEW n \in Nat, NEW S \in SUBSET (1 .. n), NEW x \in S
    PROVE  /\ Cardinality({m \in S : m <= x}) \in 1 .. Cardinality(S)
           /\ Cardinality(S) \in Nat
<1>. DEFINE Upto(m) == {l \in S : l <= m}
<1>1. IsFiniteSet(S) /\ \A m \in S : m \in Nat
    BY NumbersAreFinite
<1>2. IsFiniteSet(Upto(x)) /\ Cardinality(Upto(x)) <= Cardinality(S)
    BY <1>1, FS_Subset
<1>3. Cardinality(Upto(x)) \in Nat /\ Cardinality(S) \in Nat
    BY <1>1, <1>2, FS_CardinalityType
<1>4. x \in Upto(x)
    BY <1>1
<1>5. Cardinality(Upto(x)) # 0
    BY <1>2, <1>4, FS_EmptySet
<1>. QED
    BY <1>2, <1>3, <1>5

\* Listed has each number of the set once, in order.
LEMMA ListedIsOrdered ==
    ASSUME NEW n \in Nat, NEW S \in SUBSET (1 .. n)
    PROVE  /\ Cardinality(S) \in Nat
           /\ DOMAIN Listed(S) = 1 .. Cardinality(S)
           /\ Listed(S) \in Seq(S)
           /\ Len(Listed(S)) = Cardinality(S)
           /\ \A j \in 1 .. Cardinality(S) :
                 /\ Listed(S)[j] \in S
                 /\ Cardinality({m \in S : m <= Listed(S)[j]}) = j
           /\ \A j, k \in 1 .. Cardinality(S) : j < k => Listed(S)[j] < Listed(S)[k]
           /\ \A m \in S : \E j \in 1 .. Cardinality(S) : Listed(S)[j] = m
<1>. DEFINE c == Cardinality(S)
            Rank(x) == Cardinality({m \in S : m <= x})
            rank == [x \in S |-> Rank(x)]
<1>1. IsFiniteSet(S) /\ (\A m \in S : m \in Nat) /\ c \in Nat
    BY NumbersAreFinite
<1>2. rank \in [S -> 1 .. c]
    BY RankIsPositive
<1>3. \A x, y \in S : x < y => Rank(x) < Rank(y)
    BY RankIsInjective
<1>3a. \A x \in S : Rank(x) \in Nat
    BY <1>2, <1>1
<1>4. rank \in Injection(S, 1 .. c)
    <2>1. ASSUME NEW x \in S, NEW y \in S, Rank(x) = Rank(y) PROVE x = y
        <3>1. x \in Nat /\ y \in Nat /\ ~(x < y) /\ ~(y < x)
            BY <1>1, <1>3, <1>3a, <2>1
        <3>. QED
            BY <3>1
    <2>. QED
        BY <1>2, <2>1 DEF Injection, IsInjective
<1>5. IsFiniteSet(1 .. c) /\ Cardinality(1 .. c) = c
    BY <1>1, FS_Interval
<1>6. rank \in Surjection(S, 1 .. c)
    BY <1>4, <1>5, FS_Injection
<1>7. \A k \in 1 .. c : \E x \in S : Rank(x) = k
    BY <1>6 DEF Surjection
<1>8. DOMAIN Listed(S) = 1 .. c /\ \A k \in 1 .. c : Listed(S)[k] \in S /\ Rank(Listed(S)[k]) = k
    BY <1>7 DEF Listed
<1>9. Listed(S) \in Seq(S) /\ Len(Listed(S)) = c
    <2>1. Listed(S) \in [1 .. c -> S]
        BY <1>8 DEF Listed
    <2>. QED
        BY <1>1, <2>1, IsASeq, LenProperties
<1>10. ASSUME NEW j \in 1 .. c, NEW k \in 1 .. c, j < k
       PROVE  Listed(S)[j] < Listed(S)[k]
    <2>. DEFINE x == Listed(S)[j]
                y == Listed(S)[k]
    <2>1. x \in S /\ y \in S /\ Rank(x) = j /\ Rank(y) = k
        BY <1>8
    <2>. HIDE DEF x, y, Rank
    <2>2. x \in Nat /\ y \in Nat
        BY <1>1, <2>1
    <2>2a. j \in Nat /\ k \in Nat
        BY <1>1
    <2>3. x # y
        BY <2>1, <2>2a, <1>10
    <2>4. y < x => Rank(y) < Rank(x)
        BY <1>3, <2>1 DEF Rank
    <2>5. x < y
        BY <2>1, <2>2, <2>2a, <2>3, <2>4, <1>10
    <2>. QED
        BY <2>5 DEF x, y
<1>11. ASSUME NEW m \in S PROVE \E j \in 1 .. c : Listed(S)[j] = m
    <2>1. Rank(m) \in 1 .. c
        BY <1>2
    <2>2. /\ Listed(S)[Rank(m)] \in S
          /\ rank[Listed(S)[Rank(m)]] = rank[m]
        BY <1>8, <2>1
    <2>3. Listed(S)[Rank(m)] = m
        BY <1>4, <2>2 DEF Injection, IsInjective
    <2>. QED
        BY <2>1, <2>3
<1>. QED
    BY <1>1, <1>8, <1>9, <1>10, <1>11

\* How many numbers are greater.
Greater(S, x) == Cardinality({y \in S : y > x})

LEMMA GreaterCounts ==
    ASSUME NEW n \in Nat, NEW S \in SUBSET (1 .. n), NEW x \in S
    PROVE  /\ Greater(S, x) \in Nat
           /\ Greater(S, x) <= Cardinality(S)
           /\ Greater(S, x) = Cardinality(S) - Cardinality({m \in S : m <= x})
           /\ \A y \in S : y <= x => Greater(S, x) <= Greater(S, y)
<1>. DEFINE Above(m) == {l \in S : l > m}
            Upto(m) == {l \in S : l <= m}
<1>1. IsFiniteSet(S) /\ Cardinality(S) \in Nat /\ \A m \in S : m \in Nat
    BY NumbersAreFinite
<1>2. \A y \in S : Above(y) \subseteq S /\ IsFiniteSet(Above(y))
                  /\ Cardinality(Above(y)) \in Nat /\ Cardinality(Above(y)) <= Cardinality(S)
    BY <1>1, FS_Subset, FS_CardinalityType
<1>3. S \ Upto(x) = Above(x) /\ S \cap Upto(x) = Upto(x)
    <2>1. \A m \in S : m > x <=> ~(m <= x)
        BY <1>1
    <2>. QED
        BY <2>1
<1>4. Cardinality(Above(x)) = Cardinality(S) - Cardinality(Upto(x))
    BY <1>1, <1>3, FS_Difference
<1>5. ASSUME NEW y \in S, y <= x
      PROVE  Cardinality(Above(x)) <= Cardinality(Above(y))
    <2>1. x \in Nat /\ y \in Nat
        BY <1>1
    <2>2. \A m \in S : m > x => m > y
        BY <1>1, <1>5, <2>1
    <2>3. Above(x) \subseteq Above(y)
        BY <2>2
    <2>. QED
        BY <1>2, <2>3, FS_Subset
<1>. QED
    BY <1>2, <1>4, <1>5 DEF Greater

\* If one number has as many greater ones, the greatest ones are as many.
LEMMA GreatestAreEnough ==
    ASSUME NEW n \in Nat, NEW S \in SUBSET (1 .. n), NEW limit \in Nat \ {0},
           NEW m \in S, ~(Greater(S, m) < limit)
    PROVE  limit <= Cardinality({x \in S : Greater(S, x) < limit})
<1>. DEFINE c == Cardinality(S)
            T == {x \in S : Greater(S, x) < limit}
            f == [i \in 1 .. limit |-> Listed(S)[c - limit + i]]
<1>1. /\ Greater(S, m) \in Nat /\ Greater(S, m) <= c /\ c \in Nat
      /\ IsFiniteSet(S)
    BY GreaterCounts, NumbersAreFinite
<1>2. limit <= c
    BY <1>1
<1>3. ASSUME NEW i \in 1 .. limit
      PROVE  /\ c - limit + i \in 1 .. c
             /\ f[i] = Listed(S)[c - limit + i]
             /\ f[i] \in T
    <2>1. c - limit + i \in 1 .. c
        BY <1>1, <1>2
    <2>. DEFINE x == Listed(S)[c - limit + i]
    <2>2. x \in S /\ Cardinality({l \in S : l <= x}) = c - limit + i
        BY <2>1, ListedIsOrdered
    <2>3. Greater(S, x) = c - (c - limit + i)
        BY <2>2, GreaterCounts
    <2>4. c - (c - limit + i) < limit
        BY <1>1, <1>2
    <2>5. x \in T
        BY <2>2, <2>3, <2>4
    <2>. QED
        BY <2>1, <2>5
<1>4. f \in Injection(1 .. limit, T)
    <2>1. f \in [1 .. limit -> T]
        BY <1>3
    <2>2. ASSUME NEW i \in 1 .. limit, NEW j \in 1 .. limit, i < j
          PROVE  f[i] # f[j]
        <3>1. c - limit + i < c - limit + j
            BY <1>1, <2>2
        <3>2. f[i] < f[j]
            BY <1>3, <3>1, ListedIsOrdered
        <3>3. f[i] \in Nat /\ f[j] \in Nat
            BY <1>3, NumbersAreFinite
        <3>. QED
            BY <3>2, <3>3
    <2>3. \A i, j \in 1 .. limit : f[i] = f[j] => i = j
        <3>1. \A i, j \in 1 .. limit : i = j \/ i < j \/ j < i
            OBVIOUS
        <3>. QED
            BY <2>2, <3>1
    <2>. QED
        BY <2>1, <2>3 DEF Injection, IsInjective
<1>5. IsFiniteSet(T)
    BY <1>1, FS_Subset
<1>6. Cardinality(1 .. limit) = limit
    <2>1. 1 \in Int /\ limit \in Int /\ ~(1 > limit)
        OBVIOUS
    <2>. QED
        BY <2>1, FS_Interval
<1>. QED
    BY <1>4, <1>5, <1>6, FS_Injection

LEMMA ReverseAt ==
    ASSUME NEW S, NEW s \in Seq(S)
    PROVE  /\ ReverseOf(s) \in Seq(S)
           /\ Len(ReverseOf(s)) = Len(s)
           /\ DOMAIN ReverseOf(s) = 1 .. Len(s)
           /\ \A i \in 1 .. Len(s) :
                 Len(s) + 1 - i \in 1 .. Len(s) /\ ReverseOf(s)[i] = s[Len(s) + 1 - i]
<1>1. Len(s) \in Nat /\ DOMAIN s = 1 .. Len(s) /\ \A i \in 1 .. Len(s) : s[i] \in S
    BY LenProperties, ElementOfSeq
<1>2. \A i \in 1 .. Len(s) : Len(s) + 1 - i \in 1 .. Len(s)
    BY <1>1
<1>3. ReverseOf(s) = [i \in 1 .. Len(s) |-> s[Len(s) + 1 - i]]
    BY <1>1 DEF ReverseOf
<1>4. ReverseOf(s) \in [1 .. Len(s) -> S]
    BY <1>1, <1>2, <1>3
<1>. QED
    BY <1>1, <1>2, <1>3, <1>4, IsASeq, LenProperties

-----------------------------------------------------------------------------
(* A page, and what is left of the list.                                   *)

Older(cursor) == {m \in Exist : cursor = None \/ (cursor \in Exist /\ m < cursor)}

\* A page has the newest of the older messages, and the others only if it is full.
LEMMA PageIsNewest ==
    ASSUME TypeOK, NEW cursor
    PROVE  /\ Page(cursor) \in Seq(Older(cursor))
           /\ \A a, b \in DOMAIN Page(cursor) : a < b => Page(cursor)[a] > Page(cursor)[b]
           /\ \A m \in Older(cursor) :
                 \/ \E a \in DOMAIN Page(cursor) : Page(cursor)[a] = m
                 \/ /\ ~LastPage(Page(cursor))
                    /\ \A a \in DOMAIN Page(cursor) : m < Page(cursor)[a]
<1>. DEFINE older == Older(cursor)
            newest == {m \in older : Greater(older, m) < Limit}
            listed == Listed(newest)
            page == ReverseOf(listed)
            c == Cardinality(newest)
<1>1. created \in Nat /\ Limit \in Nat \ {0}
    BY BoundsAssumption DEF TypeOK
<1>2. older \in SUBSET (1 .. created) /\ newest \in SUBSET (1 .. created)
    BY DEF Older, Exist
<1>3. \A m \in older : m \in Nat
    BY <1>1, <1>2, NumbersAreFinite
<1>4. Page(cursor) = page
    BY DEF Page, Older, Greater
<1>5. /\ c \in Nat /\ listed \in Seq(newest) /\ Len(listed) = c
      /\ \A j, k \in 1 .. c : j < k => listed[j] < listed[k]
      /\ \A j \in 1 .. c : listed[j] \in newest
      /\ \A m \in newest : \E j \in 1 .. c : listed[j] = m
    BY <1>1, <1>2, ListedIsOrdered
<1>. HIDE DEF c, listed, page, newest, older
<1>6. /\ page \in Seq(newest) /\ Len(page) = c /\ DOMAIN page = 1 .. c
      /\ \A i \in 1 .. c : c + 1 - i \in 1 .. c /\ page[i] = listed[c + 1 - i]
    BY <1>5, ReverseAt DEF page
<1>7. newest \subseteq older
    BY DEF newest
<1>8. page \in Seq(older)
    BY <1>6, <1>7, SeqMonotonic
<1>9. ASSUME NEW a \in 1 .. c, NEW b \in 1 .. c, a < b
      PROVE  page[a] > page[b]
    <2>1. c + 1 - b < c + 1 - a
        BY <1>5, <1>9
    <2>2. listed[c + 1 - b] < listed[c + 1 - a]
        BY <1>5, <1>6, <2>1
    <2>3. page[a] \in Nat /\ page[b] \in Nat
        BY <1>3, <1>5, <1>6, <1>7
    <2>. QED
        BY <1>6, <2>2, <2>3
<1>10. ASSUME NEW m \in older
       PROVE  \/ \E a \in 1 .. c : page[a] = m
              \/ ~LastPage(page) /\ \A a \in 1 .. c : m < page[a]
    <2>1. CASE m \in newest
        <3>1. PICK j \in 1 .. c : listed[j] = m
            BY <1>5, <2>1
        <3>2. c + 1 - j \in 1 .. c /\ c + 1 - (c + 1 - j) = j
            BY <1>5
        <3>3. page[c + 1 - j] = m
            BY <1>6, <3>1, <3>2
        <3>. QED
            BY <3>2, <3>3
    <2>2. CASE m \notin newest
        <3>1. ~(Greater(older, m) < Limit)
            BY <2>2 DEF newest
        <3>2. Limit <= c
            BY <1>1, <1>2, <3>1, GreatestAreEnough DEF c, newest
        <3>3. ~LastPage(page)
            BY <1>1, <1>5, <1>6, <3>2 DEF LastPage
        <3>4. ASSUME NEW a \in 1 .. c PROVE m < page[a]
            <4>. DEFINE x == page[a]
            <4>1. x \in newest
                BY <1>5, <1>6
            <4>. HIDE DEF x
            <4>2. x \in older /\ Greater(older, x) < Limit
                BY <4>1 DEF newest
            <4>3. x <= m => Greater(older, m) <= Greater(older, x)
                BY <1>1, <1>2, <4>2, GreaterCounts
            <4>4. Greater(older, m) \in Nat /\ Greater(older, x) \in Nat
                BY <1>1, <1>2, <4>2, GreaterCounts
            <4>5. ~(x <= m)
                BY <1>1, <3>1, <4>2, <4>3, <4>4
            <4>6. m < x
                BY <1>3, <4>2, <4>5
            <4>. QED
                BY <4>6 DEF x
        <3>. QED
            BY <3>3, <3>4
    <2>. QED
        BY <2>1, <2>2
<1>. QED
    BY <1>4, <1>6, <1>8, <1>9, <1>10 DEF older

\* Where each message of the new list was in the old one: those with the ids have
\* gone, the others stay in order.
Thinned(ids, new) ==
    \E place \in [DOMAIN new -> DOMAIN view] :
        /\ \A k \in DOMAIN new : new[k] = view[place[k]] /\ new[k].id \notin ids
        /\ \A j, k \in DOMAIN new : j < k => place[j] < place[k]
        /\ \A i \in DOMAIN view :
              view[i].id \notin ids => \E k \in DOMAIN new : place[k] = i

LEMMA RemoveThins ==
    ASSUME view \in Seq(Shown), NEW ids
    PROVE  Remove(ids) \in Seq(Shown) /\ Thinned(ids, Remove(ids))
<1>. DEFINE kept == {i \in DOMAIN view : view[i].id \notin ids}
            place == Listed(kept)
            c == Cardinality(kept)
<1>1. Len(view) \in Nat /\ DOMAIN view = 1 .. Len(view)
      /\ \A i \in DOMAIN view : view[i] \in Shown
    BY LenProperties, ElementOfSeq
<1>2. kept \in SUBSET (1 .. Len(view))
    BY <1>1
<1>4. Remove(ids) = [k \in DOMAIN place |-> view[place[k]]]
    BY DEF Remove
<1>2a. \A i : i \in kept <=> i \in DOMAIN view /\ view[i].id \notin ids
    OBVIOUS
<1>. HIDE DEF kept
<1>3. /\ c \in Nat /\ DOMAIN place = 1 .. c
      /\ \A j \in 1 .. c : place[j] \in kept
      /\ \A j, k \in 1 .. c : j < k => place[j] < place[k]
      /\ \A m \in kept : \E j \in 1 .. c : place[j] = m
      /\ place \in Seq(kept) /\ Len(place) = c
    BY <1>1, <1>2, ListedIsOrdered
<1>. HIDE DEF c, place
<1>5. /\ DOMAIN Remove(ids) = 1 .. c
      /\ \A k \in 1 .. c : Remove(ids)[k] = view[place[k]] /\ Remove(ids)[k] \in Shown
    BY <1>1, <1>2a, <1>3, <1>4
<1>6. Remove(ids) \in [1 .. c -> Shown]
    BY <1>4, <1>5, <1>3
<1>7. Remove(ids) \in Seq(Shown)
    BY <1>3, <1>6, IsASeq
<1>8. place \in [1 .. c -> DOMAIN view]
    <2>1. place \in [1 .. c -> kept]
        BY <1>3, LenProperties
    <2>. QED
        BY <1>2a, <2>1
<1>9. Thinned(ids, Remove(ids))
    <2>1. \A k \in 1 .. c : Remove(ids)[k].id \notin ids
        BY <1>2a, <1>3, <1>5
    <2>2. \A i \in DOMAIN view : view[i].id \notin ids => \E k \in 1 .. c : place[k] = i
        BY <1>2a, <1>3
    <2>. DEFINE new == Remove(ids)
    <2>3. /\ place \in [DOMAIN new -> DOMAIN view]
          /\ \A k \in DOMAIN new : new[k] = view[place[k]] /\ new[k].id \notin ids
          /\ \A j, k \in DOMAIN new : j < k => place[j] < place[k]
          /\ \A i \in DOMAIN view :
                view[i].id \notin ids => \E k \in DOMAIN new : place[k] = i
        BY <1>3, <1>5, <1>8, <2>1, <2>2
    <2>. HIDE DEF new
    <2>. QED
        BY <2>3 DEF Thinned, new
<1>. QED
    BY <1>7, <1>9

-----------------------------------------------------------------------------
(* Queues and types.                                                       *)

LEMMA TypeNames ==
    /\ DOMAIN AnswerType = {"page", "send", "edit", "delete", "mark"}
    /\ AnswerType["page"] = "messages" /\ AnswerType["send"] = "message_sent"
    /\ AnswerType["edit"] = "message_altered" /\ AnswerType["delete"] = "message_deleted"
    /\ AnswerType["mark"] = "marked_as_read"
BY DEF AnswerType

Types == {"messages", "message_sent", "message_altered", "message_deleted",
          "marked_as_read", "error"}

LEMMA AnswersAre ==
    Answers = [op : {"page", "send", "edit", "delete", "mark"}, to : Ids \cup {None, Temp},
               got : Seq(Shown), end : BOOLEAN, type : Types]
<1>1. {"error"} \cup {AnswerType[op] : op \in DOMAIN AnswerType} = Types
    BY TypeNames DEF Types
<1>. QED
    BY <1>1, TypeNames DEF Answers

LEMMA SeqOf ==
    ASSUME NEW S, NEW s \in Seq(S)
    PROVE  Len(s) \in Nat /\ DOMAIN s = 1 .. Len(s) /\ \A i \in 1 .. Len(s) : s[i] \in S
BY LenProperties, ElementOfSeq

\* What is in a queue was there before, one place on, or it is the new last one.
Queued(old, new, x) ==
    /\ \A i \in DOMAIN old : i \in DOMAIN new /\ new[i] = old[i]
    /\ \E last \in DOMAIN new :
          /\ last = Len(old) + 1 /\ new[last] = x
          /\ \A i \in DOMAIN new : i \in DOMAIN old \/ i = last
          /\ \A i \in DOMAIN old : i < last

Shifted(old, new) ==
    /\ 1 \in DOMAIN old
    /\ \A i \in DOMAIN new :
          i \in Nat /\ i + 1 \in DOMAIN old /\ i + 1 > 1 /\ new[i] = old[i + 1]
    /\ \A i \in DOMAIN old : i = 1 \/ (i > 1 /\ i - 1 \in DOMAIN new /\ new[i - 1] = old[i])

LEMMA AppendIsQueued ==
    ASSUME NEW S, NEW s \in Seq(S), NEW x \in S
    PROVE  Append(s, x) \in Seq(S) /\ Queued(s, Append(s, x), x)
<1>. DEFINE new == Append(s, x)
<1>1. Len(s) \in Nat /\ DOMAIN s = 1 .. Len(s)
    BY SeqOf
<1>2. /\ new \in Seq(S) /\ Len(new) = Len(s) + 1
      /\ \A i \in 1 .. Len(s) : new[i] = s[i]
      /\ new[Len(s) + 1] = x
    BY AppendProperties
<1>3. DOMAIN new = 1 .. Len(s) + 1
    BY <1>2, LenProperties
<1>. HIDE DEF new
<1>4. /\ Len(s) + 1 \in DOMAIN new
      /\ \A i \in DOMAIN new : i \in DOMAIN s \/ i = Len(s) + 1
      /\ \A i \in DOMAIN s : i < Len(s) + 1
      /\ \A i \in DOMAIN s : i \in DOMAIN new /\ new[i] = s[i]
    BY <1>1, <1>2, <1>3
<1>5. Queued(s, new, x)
    BY <1>2, <1>4 DEF Queued
<1>. QED
    BY <1>2, <1>5 DEF new

LEMMA TailIsShifted ==
    ASSUME NEW S, NEW s \in Seq(S), s # <<>>
    PROVE  /\ Tail(s) \in Seq(S) /\ Shifted(s, Tail(s))
           /\ 1 \in DOMAIN s /\ Head(s) \in S /\ Head(s) = s[1]
<1>. DEFINE new == Tail(s)
<1>1. Len(s) \in Nat \ {0} /\ DOMAIN s = 1 .. Len(s) /\ 1 \in DOMAIN s
    BY EmptySeq, SeqOf
<1>2. /\ new \in Seq(S) /\ Head(s) \in S /\ Head(s) = s[1]
      /\ Len(new) = Len(s) - 1
      /\ \A i \in 1 .. Len(new) : new[i] = s[i + 1]
    BY HeadTailProperties
<1>3. DOMAIN new = 1 .. Len(s) - 1
    BY <1>2, LenProperties
<1>. HIDE DEF new
<1>4. \A i \in DOMAIN new :
         i \in Nat /\ i + 1 \in DOMAIN s /\ i + 1 > 1 /\ new[i] = s[i + 1]
    BY <1>1, <1>2, <1>3
<1>5. ASSUME NEW i \in DOMAIN s, i # 1
      PROVE  i > 1 /\ i - 1 \in DOMAIN new /\ new[i - 1] = s[i]
    <2>. DEFINE k == i - 1
    <2>1. i > 1 /\ k \in DOMAIN new /\ k + 1 = i
        BY <1>1, <1>3, <1>5
    <2>. HIDE DEF k
    <2>2. new[k] = s[i]
        BY <1>4, <2>1
    <2>. QED
        BY <2>1, <2>2 DEF k
<1>6. Shifted(s, new)
    BY <1>1, <1>4, <1>5 DEF Shifted
<1>. QED
    BY <1>1, <1>2, <1>6 DEF new

-----------------------------------------------------------------------------
(* What each step does, and that it keeps the types.                       *)

\* A new row, and one that another request changes.
Wrote(mine) ==
    /\ created' = created + 1 /\ created + 1 \in Ids
    /\ rows'[created + 1] = [Unwritten EXCEPT !.mine = mine]
    /\ \A m \in Ids : m # created + 1 => rows'[m] = rows[m]

MarkedRead(mine, last) ==
    /\ created' = created
    /\ \A m \in Ids :
          IF m \in Exist /\ rows[m].mine = mine /\ m <= last
          THEN rows'[m] = [rows[m] EXCEPT !.read = TRUE] ELSE rows'[m] = rows[m]

AlteredRow(m) ==
    /\ created' = created
    /\ rows'[m] = [rows[m] EXCEPT !.content = 1]
    /\ \A n \in Ids : n # m => rows'[n] = rows[n]

DeletedRow(m) ==
    /\ created' = created
    /\ rows'[m] = [rows[m] EXCEPT !.gone = TRUE]
    /\ \A n \in Ids : n # m => rows'[n] = rows[n]

TableTyped == rows \in [Ids -> Row] /\ created \in 0 .. MaxMessages

LEMMA CreateWrites ==
    ASSUME TypeOK, NEW mine \in BOOLEAN, Create(mine), created < MaxMessages
    PROVE  TableTyped' /\ Wrote(mine)
<1>1. created \in Nat /\ MaxMessages \in Nat /\ created + 1 \in Ids /\ created + 1 \in 0 .. MaxMessages
    BY BoundsAssumption DEF TypeOK, Ids
<1>2. [Unwritten EXCEPT !.mine = mine] \in Row
    <2>1. 0 \in Contents
        BY DEF Contents
    <2>. QED
        BY <2>1 DEF Unwritten, Row
<1>. QED
    BY <1>1, <1>2 DEF TypeOK, TableTyped, Create, Wrote

LEMMA RowChanges ==
    ASSUME TypeOK, created' = created
    PROVE  /\ \A mine \in BOOLEAN : \A last :
                 rows' = ReadUpTo(mine, last) => TableTyped' /\ MarkedRead(mine, last)
           /\ \A m \in Ids : rows' = [rows EXCEPT ![m].content = 1] =>
                 TableTyped' /\ AlteredRow(m)
           /\ \A m \in Ids : rows' = [rows EXCEPT ![m].gone = TRUE] =>
                 TableTyped' /\ DeletedRow(m)
<1>1. \A r \in Row : /\ [r EXCEPT !.read = TRUE] \in Row
                     /\ [r EXCEPT !.content = 1] \in Row
                     /\ [r EXCEPT !.gone = TRUE] \in Row
    <2>1. 1 \in Contents
        BY DEF Contents
    <2>. QED
        BY <2>1 DEF Row
<1>2. rows \in [Ids -> Row]
    BY DEF TypeOK
<1>3. ASSUME NEW mine \in BOOLEAN, NEW last, rows' = ReadUpTo(mine, last)
      PROVE  TableTyped' /\ MarkedRead(mine, last)
    BY <1>1, <1>2, <1>3 DEF TypeOK, TableTyped, MarkedRead, ReadUpTo
<1>4. ASSUME NEW m \in Ids, rows' = [rows EXCEPT ![m].content = 1]
      PROVE  TableTyped' /\ AlteredRow(m)
    BY <1>1, <1>2, <1>4 DEF TypeOK, TableTyped, AlteredRow
<1>5. ASSUME NEW m \in Ids, rows' = [rows EXCEPT ![m].gone = TRUE]
      PROVE  TableTyped' /\ DeletedRow(m)
    BY <1>1, <1>2, <1>5 DEF TypeOK, TableTyped, DeletedRow
<1>. QED
    BY <1>3, <1>4, <1>5

LEMMA ExistIsOfIds ==
    ASSUME TypeOK
    PROVE  /\ Exist \subseteq Ids /\ Exist \subseteq Written /\ Written \subseteq Ids
           /\ \A m \in Ids : m \in Nat
           /\ created \in Nat
<1>1. created \in Nat /\ created <= MaxMessages
    BY BoundsAssumption DEF TypeOK
<1>. QED
    BY <1>1, BoundsAssumption DEF Exist, Ids, Written

LEMMA ExistAfter ==
    ASSUME TypeOK'
    PROVE  \A n \in Exist' : n \in Ids
<1>1. created' \in Nat /\ created' <= MaxMessages
    BY BoundsAssumption DEF TypeOK
<1>. QED
    BY <1>1, BoundsAssumption DEF Exist, Ids

Rest == <<up, down, list, call, ops, decrypting, asked, faults, marked, history>>

LEMMA CompanionDoes ==
    ASSUME TypeOK, Companion
    PROVE  /\ TypeOK' /\ UNCHANGED Rest
           /\ \/ /\ Wrote(FALSE)
                 /\ Queued(pushes, pushes', Event("new_message", created + 1))
              \/ \E m \in Exist :
                    /\ rows[m].mine
                    /\ MarkedRead(TRUE, m)
                    /\ Queued(pushes, pushes', Event("message_read", m))
              \/ \E m \in Exist :
                    /\ ~rows[m].mine
                    /\ \/ /\ AlteredRow(m)
                          /\ Queued(pushes, pushes', Event("message_altered", m))
                       \/ /\ DeletedRow(m)
                          /\ Queued(pushes, pushes', Event("message_deleted", m))
<1>. USE ExistIsOfIds DEF Events, Event
<1>1. UNCHANGED Rest
    BY DEF Companion, Rest
<1>2. ASSUME NEW e \in Events, Push(e), TableTyped'
      PROVE  TypeOK' /\ Queued(pushes, pushes', e)
    <2>1. pushes' \in Seq(Events) /\ Queued(pushes, pushes', e)
        BY <1>2, AppendIsQueued DEF TypeOK, Push
    <2>. QED
        BY <1>1, <1>2, <2>1 DEF TypeOK, TableTyped, Rest, list, ops, history
<1>3. CASE CompanionSends
    <2>1. TableTyped' /\ Wrote(FALSE)
        BY <1>3, CreateWrites DEF CompanionSends
    <2>2. Event("new_message", created + 1) \in Events
        BY <2>1 DEF Wrote
    <2>. QED
        BY <1>1, <1>2, <1>3, <2>1, <2>2 DEF CompanionSends
<1>4. ASSUME NEW m \in Exist, CompanionReads(m)
      PROVE  TypeOK' /\ MarkedRead(TRUE, m) /\ Queued(pushes, pushes', Event("message_read", m))
    <2>1. Event("message_read", m) \in Events
        OBVIOUS
    <2>2. TableTyped' /\ MarkedRead(TRUE, m)
        BY <1>4, RowChanges DEF CompanionReads
    <2>. QED
        BY <1>2, <1>4, <2>1, <2>2 DEF CompanionReads
<1>5. ASSUME NEW m \in Exist, CompanionAlters(m)
      PROVE  TypeOK' /\ AlteredRow(m) /\ Queued(pushes, pushes', Event("message_altered", m))
    <2>1. Event("message_altered", m) \in Events
        OBVIOUS
    <2>2. TableTyped' /\ AlteredRow(m)
        BY <1>5, RowChanges DEF CompanionAlters
    <2>. QED
        BY <1>2, <1>5, <2>1, <2>2 DEF CompanionAlters
<1>6. ASSUME NEW m \in Exist, CompanionDeletes(m)
      PROVE  TypeOK' /\ DeletedRow(m) /\ Queued(pushes, pushes', Event("message_deleted", m))
    <2>1. Event("message_deleted", m) \in Events
        OBVIOUS
    <2>2. TableTyped' /\ DeletedRow(m)
        BY <1>6, RowChanges DEF CompanionDeletes
    <2>. QED
        BY <1>2, <1>6, <2>1, <2>2 DEF CompanionDeletes
<1>. QED
    BY <1>1, <1>3, <1>4, <1>5, <1>6 DEF Companion, CompanionReads, CompanionAlters,
       CompanionDeletes

\* A page as it is read from the table.
ReadPage(cursor, got, end) ==
    /\ \A a \in DOMAIN got : \E m \in Older(cursor) : got[a] = RowShown(m)
    /\ \A a, b \in DOMAIN got : a < b => got[a].id > got[b].id
    /\ \A m \in Older(cursor) : Has(got, m) \/ (~end /\ Below(got, m))

LEMMA PageIsRead ==
    ASSUME TypeOK, NEW cursor
    PROVE  LET page == Page(cursor)
               got == [i \in DOMAIN page |-> RowShown(page[i])]
           IN  /\ got \in Seq(Shown)
               /\ ReadPage(cursor, got, LastPage(page))
               /\ \A m : Has(got, m) <=> \E i \in DOMAIN page : page[i] = m
<1>. DEFINE page == Page(cursor)
            got == [i \in DOMAIN page |-> RowShown(page[i])]
<1>1. /\ page \in Seq(Older(cursor))
      /\ \A a, b \in DOMAIN page : a < b => page[a] > page[b]
      /\ \A m \in Older(cursor) :
            \/ \E a \in DOMAIN page : page[a] = m
            \/ ~LastPage(page) /\ \A a \in DOMAIN page : m < page[a]
    BY PageIsNewest
<1>. HIDE DEF page
<1>2. Len(page) \in Nat /\ DOMAIN page = 1 .. Len(page)
      /\ \A i \in DOMAIN page : page[i] \in Older(cursor)
    BY <1>1, SeqOf
<1>3. Older(cursor) \subseteq Ids
    BY ExistIsOfIds DEF Older
<1>4. \A m \in Ids : RowShown(m) \in Shown /\ RowShown(m).id = m
    <2>1. \A m \in Ids : rows[m] \in Row
        BY DEF TypeOK
    <2>2. \A m \in Ids : /\ rows[m].mine \in BOOLEAN /\ rows[m].content \in Contents
                         /\ rows[m].read \in BOOLEAN
        BY <2>1 DEF Row
    <2>. QED
        BY <2>2 DEF RowShown, Shown
<1>5. /\ DOMAIN got = DOMAIN page
      /\ \A i \in DOMAIN page : got[i] = RowShown(page[i]) /\ got[i].id = page[i]
                                /\ got[i] \in Shown
    BY <1>2, <1>3, <1>4
<1>6. got \in [1 .. Len(page) -> Shown]
    BY <1>2, <1>5
<1>7. got \in Seq(Shown)
    BY <1>2, <1>6, IsASeq
<1>. HIDE DEF got
<1>8. ReadPage(cursor, got, LastPage(page))
    <2>1. \A a, b \in DOMAIN got : a < b => got[a].id > got[b].id
        BY <1>1, <1>5
    <2>2. \A m \in Older(cursor) : Has(got, m) \/ (~LastPage(page) /\ Below(got, m))
        BY <1>1, <1>5 DEF Has, Below
    <2>. QED
        BY <1>2, <1>5, <2>1, <2>2 DEF ReadPage
<1>9. \A m : Has(got, m) <=> \E i \in DOMAIN page : page[i] = m
    BY <1>5 DEF Has
<1>. QED
    BY <1>7, <1>8, <1>9 DEF page, got

NewShown(m) == [id |-> m, mine |-> TRUE, content |-> 0, read |-> FALSE]

Paged(r, a) ==
    /\ r.op = "page" /\ r.id # Temp
    /\ a.type = "messages" /\ ReadPage(r.id, a.got, a.end)
    /\ lost \subseteq lost' /\ lost' \subseteq lost \cup {"cursor"}
    /\ r.id \notin Exist \cup {None} => "cursor" \in lost'
    /\ raced \subseteq raced'
    /\ r.id = None => \A m \in Ids : NewPushed(m) => m \in raced' \/ Has(a.got, m)
    /\ UNCHANGED <<rows, created, pushes>>

SentOne(r, a) ==
    /\ r.op = "send" /\ Wrote(TRUE)
    /\ a.type = "message_sent" /\ a.op = r.op /\ a.got = <<NewShown(created + 1)>>
    /\ UNCHANGED <<pushes, raced, lost>>

Changed(r, a) ==
    /\ r.id \in Exist /\ a.to = r.id
    /\ \E e \in Events :
          /\ Queued(pushes, pushes', e) /\ e.id = r.id /\ e.mine
          /\ \/ /\ r.op = "edit" /\ AlteredRow(r.id)
                /\ a.type = "message_altered" /\ e.type = "message_altered"
             \/ /\ r.op = "delete" /\ DeletedRow(r.id)
                /\ a.type = "message_deleted" /\ e.type = "message_deleted"
             \/ /\ r.op = "mark" /\ MarkedRead(FALSE, r.id)
                /\ a.type = "marked_as_read" /\ e.type = "message_read"
    /\ UNCHANGED <<raced, lost>>

Refused(r, a) ==
    a.type = "error" /\ UNCHANGED <<rows, created, pushes, raced, lost>>

Window == <<list, call, ops, decrypting, asked, marked, echoed>>

LEMMA ServeDoes ==
    ASSUME TypeOK, Serve
    PROVE  /\ TypeOK' /\ UNCHANGED Window
           /\ up[1] \in Requests /\ 1 \in DOMAIN up /\ Shifted(up, up')
           /\ \E a \in Answers :
                 /\ Queued(down, down', a)
                 /\ Paged(up[1], a) \/ SentOne(up[1], a) \/ Changed(up[1], a)
                    \/ Refused(up[1], a)
<1>. DEFINE r == up[1]
<1>1. /\ r \in Requests /\ r = Head(up) /\ 1 \in DOMAIN up
      /\ Shifted(up, up') /\ up' \in Seq(Requests)
    BY TailIsShifted, SeqOf DEF Serve, TypeOK, Shifted
<1>2. r.id \in Ids \cup {None, Temp} /\ r.op \in {"page", "send", "edit", "delete", "mark"}
    BY <1>1, TypeNames DEF Requests
<1>3. UNCHANGED Window
    BY DEF Serve, Window
<1>. HIDE DEF r
<1>4. ASSUME NEW a \in Answers, down' = Append(down, a)
      PROVE  Queued(down, down', a) /\ down' \in Seq(Answers)
    BY <1>4, AppendIsQueued DEF TypeOK
<1>5. ASSUME NEW type \in Types, NEW got \in Seq(Shown), NEW end \in BOOLEAN
      PROVE  [op |-> r.op, to |-> r.id, type |-> type, got |-> got, end |-> end] \in Answers
    BY <1>2, AnswersAre
<1>6. ASSUME TableTyped', down' \in Seq(Answers), pushes' \in Seq(Events),
             raced' \subseteq Ids, faults' \in 0 .. MaxFaults,
             lost' \subseteq lost \cup {"cursor"}
      PROVE  TypeOK'
    BY <1>1, <1>3, <1>6 DEF TypeOK, TableTyped, Window, list, ops
<1>7. <<>> \in Seq(Shown)
    BY EmptySeq
<1>8. CASE ServePage(r)
    <2>. DEFINE page == Page(r.id)
                got == [i \in DOMAIN page |-> RowShown(page[i])]
                a == [op |-> r.op, to |-> r.id, type |-> "messages", got |-> got,
                      end |-> LastPage(page)]
    <2>1. /\ got \in Seq(Shown) /\ ReadPage(r.id, got, LastPage(page))
          /\ \A m : Has(got, m) <=> \E i \in DOMAIN page : page[i] = m
        BY PageIsRead
    <2>2. LastPage(page) \in BOOLEAN
        BY DEF LastPage
    <2>3. a \in Answers
        BY <1>5, <2>1, <2>2 DEF Types
    <2>4. down' = Append(down, a)
        BY <1>8 DEF ServePage, Answer
    <2>5. r.id = None => \A m \in Ids : NewPushed(m) => m \in raced' \/ Has(got, m)
        <3>. SUFFICES ASSUME r.id = None, NEW m \in Ids, NewPushed(m), ~Has(got, m)
                      PROVE  m \in raced'
            OBVIOUS
        <3>1. m \in CutOff
            BY <2>1 DEF CutOff, NewPushed, Pushed
        <3>. QED
            BY <1>8, <3>1 DEF ServePage
    <2>6. raced \subseteq raced' /\ raced' \subseteq Ids
        BY <1>8 DEF ServePage, CutOff, TypeOK
    <2>7. /\ UNCHANGED <<rows, created, pushes, faults>>
          /\ lost \subseteq lost' /\ lost' \subseteq lost \cup {"cursor"}
          /\ r.id \notin Exist \cup {None} => "cursor" \in lost'
          /\ r.op = "page" /\ r.id # Temp
        BY <1>8 DEF ServePage, table
    <2>. HIDE DEF got, page
    <2>8. TypeOK'
        BY <1>4, <1>6, <2>3, <2>4, <2>6, <2>7 DEF TypeOK, TableTyped
    <2>9. a.type = "messages" /\ a.got = got /\ a.end = LastPage(page)
        OBVIOUS
    <2>. HIDE DEF a
    <2>10. Paged(r, a)
        BY <2>1, <2>5, <2>6, <2>7, <2>9 DEF Paged
    <2>. QED
        BY <1>1, <1>3, <1>4, <2>3, <2>4, <2>8, <2>10 DEF r
<1>9. CASE ServeSend(r)
    <2>. DEFINE got == <<NewShown(created + 1)>>
                a == [op |-> r.op, to |-> r.id, type |-> "message_sent", got |-> got, end |-> FALSE]
    <2>1. TableTyped' /\ Wrote(TRUE)
        BY <1>9, CreateWrites DEF ServeSend
    <2>2. NewShown(created + 1) \in Shown
        <3>1. 0 \in Contents
            BY DEF Contents
        <3>. QED
            BY <2>1, <3>1 DEF Wrote, NewShown, Shown
    <2>3. got \in Seq(Shown)
        BY <2>2
    <2>4. a \in Answers
        BY <1>5, <2>3 DEF Types
    <2>5. down' = Append(down, a) /\ UNCHANGED <<pushes, faults, raced, lost>> /\ r.op = "send"
        BY <1>9 DEF ServeSend, Answer, NewShown
    <2>6. TypeOK'
        BY <1>4, <1>6, <2>1, <2>4, <2>5 DEF TypeOK
    <2>7. SentOne(r, a)
        BY <2>1, <2>5 DEF SentOne
    <2>. QED
        BY <1>1, <1>3, <1>4, <2>4, <2>5, <2>6, <2>7 DEF r
<1>10. CASE ServeChange(r)
    <2>. DEFINE a == [op |-> r.op, to |-> r.id, type |-> AnswerType[r.op], got |-> <<>>, end |-> FALSE]
                e == [type |-> IF r.op = "mark" THEN "message_read" ELSE AnswerType[r.op],
                      id |-> r.id, mine |-> TRUE]
    <2>1. /\ r.op \in {"edit", "delete", "mark"} /\ r.id \in Exist /\ r.id \in Ids
          /\ UNCHANGED <<created, faults, raced, lost>>
          /\ down' = Append(down, a) /\ pushes' = Append(pushes, e)
        BY <1>10, ExistIsOfIds DEF ServeChange, Answer, Push
    <2>2. /\ r.op = "edit" => rows' = [rows EXCEPT ![r.id].content = 1]
          /\ r.op = "delete" => rows' = [rows EXCEPT ![r.id].gone = TRUE]
          /\ r.op = "mark" => rows' = ReadUpTo(FALSE, r.id)
        BY <1>10 DEF ServeChange
    <2>3. /\ TableTyped'
          /\ r.op = "edit" => AlteredRow(r.id)
          /\ r.op = "delete" => DeletedRow(r.id)
          /\ r.op = "mark" => MarkedRead(FALSE, r.id)
        BY <2>1, <2>2, RowChanges
    <2>4. a \in Answers
        BY <1>5, <1>7, <2>1, TypeNames DEF Types
    <2>5. e \in Events
        BY <2>1, TypeNames DEF Events
    <2>6. pushes' \in Seq(Events) /\ Queued(pushes, pushes', e)
        BY <2>1, <2>5, AppendIsQueued DEF TypeOK
    <2>7. TypeOK'
        BY <1>4, <1>6, <2>1, <2>3, <2>4, <2>6 DEF TypeOK
    <2>8. /\ e.id = r.id /\ e.mine /\ a.to = r.id
          /\ r.op = "edit" => a.type = "message_altered" /\ e.type = "message_altered"
          /\ r.op = "delete" => a.type = "message_deleted" /\ e.type = "message_deleted"
          /\ r.op = "mark" => a.type = "marked_as_read" /\ e.type = "message_read"
        BY TypeNames
    <2>. HIDE DEF a, e
    <2>9. Changed(r, a)
        BY <2>1, <2>3, <2>5, <2>6, <2>8 DEF Changed
    <2>. QED
        BY <1>1, <1>3, <1>4, <2>1, <2>4, <2>7, <2>9 DEF r
<1>11. CASE Refuse(r)
    <2>. DEFINE a == [op |-> r.op, to |-> r.id, type |-> "error", got |-> <<>>, end |-> FALSE]
    <2>1. /\ UNCHANGED <<rows, created, pushes, raced, lost>>
          /\ down' = Append(down, a)
          /\ faults' = faults \/ (faults < MaxFaults /\ faults' = faults + 1)
        BY <1>11 DEF Refuse, Answer, table
    <2>2. a \in Answers
        BY <1>5, <1>7 DEF Types
    <2>3. faults' \in 0 .. MaxFaults
        BY <2>1, BoundsAssumption DEF TypeOK
    <2>4. TypeOK'
        BY <1>4, <1>6, <2>1, <2>2, <2>3 DEF TypeOK, TableTyped
    <2>5. Refused(r, a)
        BY <2>1 DEF Refused
    <2>. QED
        BY <1>1, <1>3, <1>4, <2>1, <2>2, <2>4, <2>5 DEF r
<1>. QED
    BY <1>1, <1>8, <1>9, <1>10, <1>11 DEF Serve, r

\* A page is asked for.
Asked(p, cursor) ==
    /\ Queued(up, up', [op |-> "page", id |-> cursor])
    /\ call[p].step = "new"
    /\ call'[p].step = "waiting" /\ (call'[p].more <=> cursor # None)
    /\ \A q \in Pages : q # p => call'[q] = call[q]
    /\ lost \subseteq lost'
    /\ PageComes => "overlap" \in lost'
    /\ cursor # None /\ Disordered => "disorder" \in lost'
    /\ cursor \in raced => "cursor" \in lost'
    /\ raced \subseteq raced' /\ \A d \in decrypting : d.id \in raced'

Elsewhere == <<rows, created, down, pushes, sending, editing, deleting, decrypting, faults,
               marked, echoed>>

LEMMA NewCallIsCall ==
    /\ \A more \in BOOLEAN :
          LET new == [NewCall EXCEPT !.step = "waiting", !.more = more]
          IN  new \in Calls /\ new.step = "waiting" /\ (new.more <=> more)
    /\ LET new == [NewCall EXCEPT !.step = "done"] IN new \in Calls /\ new.step = "done"
<1>1. NewCall \in Calls
    BY EmptySeq DEF NewCall, Calls
<1>2. \A c \in Calls : \A more \in BOOLEAN :
         LET new == [c EXCEPT !.step = "waiting", !.more = more]
         IN  new \in Calls /\ new.step = "waiting" /\ (new.more <=> more)
    BY DEF Calls
<1>3. \A c \in Calls :
         LET new == [c EXCEPT !.step = "done"] IN new \in Calls /\ new.step = "done"
    BY DEF Calls
<1>. QED
    BY <1>1, <1>2, <1>3

LEMMA AskDoes ==
    ASSUME TypeOK, NEW p \in Pages, NEW cursor \in Ids \cup {None, Temp}, Ask(p, cursor),
           UNCHANGED Elsewhere, view' \in Seq(Shown), hasMore' \in BOOLEAN,
           loadingMore' \in BOOLEAN
    PROVE  TypeOK' /\ Asked(p, cursor)
<1>1. [op |-> "page", id |-> cursor] \in Requests
    BY TypeNames DEF Requests
<1>2. up' \in Seq(Requests) /\ Queued(up, up', [op |-> "page", id |-> cursor])
    BY <1>1, AppendIsQueued DEF Ask, TypeOK
<1>3. asked' \in 0 .. MaxRequests
    <2>1. asked + faults < MaxRequests /\ asked' = asked + 1
        BY DEF Ask, Asking
    <2>2. asked \in 0 .. MaxRequests /\ faults \in 0 .. MaxFaults
        BY DEF TypeOK
    <2>. QED
        BY <2>1, <2>2, BoundsAssumption
<1>4. /\ call' = [call EXCEPT ![p] = [NewCall EXCEPT !.step = "waiting", !.more = cursor # None]]
      /\ call[p].step = "new"
    <2>1. p \in Nat /\ p >= p
        BY BoundsAssumption DEF Pages
    <2>. QED
        BY <2>1 DEF Ask
<1>5. LET new == [NewCall EXCEPT !.step = "waiting", !.more = cursor # None]
      IN  new \in Calls /\ new.step = "waiting" /\ (new.more <=> cursor # None)
    BY NewCallIsCall
<1>7. /\ call' \in [Pages -> Calls]
      /\ call'[p].step = "waiting" /\ (call'[p].more <=> cursor # None)
      /\ \A q \in Pages : q # p => call'[q] = call[q]
    BY <1>4, <1>5 DEF TypeOK
<1>8. /\ lost \subseteq lost'
      /\ lost' \subseteq lost \cup {"overlap", "disorder", "cursor"}
      /\ PageComes => "overlap" \in lost'
      /\ cursor # None /\ Disordered => "disorder" \in lost'
      /\ cursor \in raced => "cursor" \in lost'
    BY DEF Ask
<1>9. raced \subseteq raced' /\ raced' \subseteq Ids /\ \A d \in decrypting : d.id \in raced'
    <2>1. \A d \in decrypting : d.id \in Ids
        BY DEF TypeOK, Events
    <2>. QED
        BY <2>1 DEF Ask, TypeOK
<1>10. TypeOK'
    BY <1>2, <1>3, <1>7, <1>8, <1>9 DEF TypeOK, Elsewhere
<1>. QED
    BY <1>2, <1>4, <1>7, <1>8, <1>9, <1>10 DEF Asked

LEMMA ResetDoes ==
    ASSUME TypeOK, NEW p \in Pages, Reset(p)
    PROVE  /\ TypeOK' /\ Asked(p, None) /\ UNCHANGED Elsewhere
           /\ view' = <<>> /\ hasMore' = TRUE
<1>1. UNCHANGED Elsewhere
    BY DEF Reset, Elsewhere, table, ops
<1>2. <<>> \in Seq(Shown)
    BY EmptySeq
<1>. QED
    BY <1>1, <1>2, AskDoes DEF Reset

LEMMA LoadMoreDoes ==
    ASSUME TypeOK, NEW p \in Pages, LoadMore(p)
    PROVE  /\ TypeOK' /\ Asked(p, view[1].id) /\ UNCHANGED Elsewhere
           /\ view' = view /\ hasMore' = hasMore /\ hasMore
           /\ 1 \in DOMAIN view /\ view[1].id \in Ids \cup {Temp}
<1>1. UNCHANGED Elsewhere
    BY DEF LoadMore, Elsewhere, table, ops
<1>2. 1 \in DOMAIN view /\ view[1] \in Shown
    BY SeqOf, EmptySeq DEF LoadMore, TypeOK
<1>3. view[1].id \in Ids \cup {Temp}
    BY <1>2 DEF Shown
<1>4. view' \in Seq(Shown) /\ hasMore' \in BOOLEAN /\ loadingMore' \in BOOLEAN
    BY DEF LoadMore, TypeOK
<1>5. Ask(p, view[1].id)
    BY DEF LoadMore
<1>6. TypeOK' /\ Asked(p, view[1].id)
    BY <1>1, <1>3, <1>4, <1>5, AskDoes
<1>. QED
    BY <1>1, <1>2, <1>3, <1>6 DEF LoadMore, MayLoadMore

\* A page comes before what is kept of the list.
Joined(got, kept, new) ==
    /\ DOMAIN new = 1 .. Len(got) + Len(kept)
    /\ \A k \in 1 .. Len(got) + Len(kept) :
          IF k <= Len(got) THEN Len(got) + 1 - k \in DOMAIN got /\ new[k] = got[Len(got) + 1 - k]
          ELSE k - Len(got) \in DOMAIN kept /\ new[k] = kept[k - Len(got)]
    /\ \A a \in DOMAIN got : \E k \in DOMAIN new : new[k] = got[a]
    /\ \A i \in DOMAIN kept : \E k \in DOMAIN new : new[k] = kept[i]

LEMMA ReverseJoins ==
    ASSUME NEW S, NEW got \in Seq(S), NEW kept \in Seq(S)
    PROVE  LET new == ReverseOf(got) \o kept
           IN  new \in Seq(S) /\ Joined(got, kept, new)
<1>. DEFINE g == Len(got)
            n == Len(kept)
            rev == ReverseOf(got)
            new == rev \o kept
<1>1. /\ g \in Nat /\ DOMAIN got = 1 .. g /\ n \in Nat /\ DOMAIN kept = 1 .. n
    BY SeqOf
<1>2. /\ rev \in Seq(S) /\ Len(rev) = g
      /\ \A i \in 1 .. g : g + 1 - i \in 1 .. g /\ rev[i] = got[g + 1 - i]
    BY ReverseAt
<1>. HIDE DEF rev
<1>3. /\ new \in Seq(S) /\ Len(new) = g + n
      /\ \A i \in 1 .. g + n : new[i] = IF i <= g THEN rev[i] ELSE kept[i - g]
    <2>1. /\ new \in Seq(S) /\ Len(new) = Len(rev) + Len(kept)
          /\ \A i \in 1 .. Len(rev) + Len(kept) :
                new[i] = IF i <= Len(rev) THEN rev[i] ELSE kept[i - Len(rev)]
        BY <1>2, ConcatProperties
    <2>. QED
        BY <1>2, <2>1
<1>. HIDE DEF new
<1>4. DOMAIN new = 1 .. g + n
    BY <1>3, SeqOf
<1>. HIDE DEF g, n
<1>5. \A k \in 1 .. g + n :
          IF k <= g THEN g + 1 - k \in DOMAIN got /\ new[k] = got[g + 1 - k]
          ELSE k - g \in DOMAIN kept /\ new[k] = kept[k - g]
    <2>. SUFFICES ASSUME NEW k \in 1 .. g + n
                  PROVE  IF k <= g THEN g + 1 - k \in DOMAIN got /\ new[k] = got[g + 1 - k]
                         ELSE k - g \in DOMAIN kept /\ new[k] = kept[k - g]
        OBVIOUS
    <2>1. CASE k <= g
        <3>1. k \in 1 .. g
            BY <1>1, <2>1
        <3>. QED
            BY <1>1, <1>2, <1>3, <2>1, <3>1
    <2>2. CASE ~(k <= g)
        <3>1. k - g \in 1 .. n
            BY <1>1, <2>2
        <3>. QED
            BY <1>1, <1>3, <2>2, <3>1
    <2>. QED
        BY <2>1, <2>2
<1>6. ASSUME NEW a \in DOMAIN got PROVE \E k \in DOMAIN new : new[k] = got[a]
    <2>1. g + 1 - a \in 1 .. g + n /\ g + 1 - a <= g /\ g + 1 - (g + 1 - a) = a
        BY <1>1
    <2>. QED
        BY <1>4, <1>5, <2>1
<1>7. ASSUME NEW i \in DOMAIN kept PROVE \E k \in DOMAIN new : new[k] = kept[i]
    <2>. DEFINE k == i + g
    <2>1. k \in 1 .. g + n /\ ~(k <= g) /\ k - g = i
        BY <1>1
    <2>. HIDE DEF k
    <2>2. new[k] = kept[k - g]
        BY <1>5, <2>1
    <2>. QED
        BY <1>4, <2>1, <2>2
<1>. QED
    BY <1>3, <1>4, <1>5, <1>6, <1>7 DEF Joined, new, g, n, rev

Kept(p) == IF call[p].more THEN view ELSE <<>>

LEMMA LoadedDoes ==
    ASSUME TypeOK, NEW p \in Pages, Loaded(p)
    PROVE  /\ TypeOK' /\ call[p].step = "decrypting" /\ call'[p].step = "done"
           /\ \A q \in Pages : q # p => call'[q] = call[q]
           /\ Kept(p) \in Seq(Shown) /\ call[p].got \in Seq(Shown)
           /\ Joined(call[p].got, Kept(p), view')
           /\ hasMore' = ~call[p].end
           /\ UNCHANGED <<rows, created, up, down, pushes, sending, editing, deleting,
                          decrypting, echoed, raced, lost>>
<1>1. /\ call[p].step = "decrypting" /\ hasMore' = ~call[p].end
      /\ call' = [call EXCEPT ![p] = [NewCall EXCEPT !.step = "done"]]
      /\ view' = ReverseOf(call[p].got) \o Kept(p)
      /\ loadingMore' = IF call[p].more THEN FALSE ELSE loadingMore
      /\ UNCHANGED <<rows, created, up, down, pushes, sending, editing, deleting,
                     decrypting, echoed, raced, lost, asked, faults, marked>>
    BY DEF Loaded, Kept, table, wire, ops, history
<1>2. call \in [Pages -> Calls] /\ call[p] \in Calls
    BY DEF TypeOK
<1>3. call[p].got \in Seq(Shown) /\ call[p].end \in BOOLEAN /\ call[p].more \in BOOLEAN
    BY <1>2 DEF Calls
<1>4. Kept(p) \in Seq(Shown)
    BY EmptySeq DEF Kept, TypeOK
<1>5. view' \in Seq(Shown) /\ Joined(call[p].got, Kept(p), view')
    BY <1>1, <1>3, <1>4, ReverseJoins
<1>6. LET new == [NewCall EXCEPT !.step = "done"] IN new \in Calls /\ new.step = "done"
    BY NewCallIsCall
<1>8. /\ call' \in [Pages -> Calls] /\ call'[p].step = "done"
      /\ \A q \in Pages : q # p => call'[q] = call[q]
    BY <1>1, <1>2, <1>6
<1>9. TypeOK'
    BY <1>1, <1>3, <1>5, <1>8 DEF TypeOK
<1>. QED
    BY <1>1, <1>3, <1>4, <1>5, <1>8, <1>9

-----------------------------------------------------------------------------
(* Answers and events, and the user's own steps.                           *)

\* The list is as it was, but for what is said of each of its messages.
Alters(m) ==
    /\ DOMAIN view' = DOMAIN view
    /\ \A k \in DOMAIN view :
          IF view[k].id = m
          THEN /\ view'[k].content = 1
               /\ view'[k].id = m /\ view'[k].mine = view[k].mine /\ view'[k].read = view[k].read
          ELSE view'[k] = view[k]

Confirms(sent) ==
    /\ DOMAIN view' = DOMAIN view
    /\ \A k \in DOMAIN view :
          IF view[k].id = Temp
          THEN /\ view'[k].id = sent.id /\ view'[k].mine = sent.mine
               /\ view'[k].read = sent.read
               /\ view'[k].content = sent.content \/ (view'[k].content = Other /\ LaterSend)
          ELSE view'[k] = view[k]

Marks(e) ==
    /\ DOMAIN view' = DOMAIN view
    /\ \A k \in DOMAIN view :
          \/ view'[k] = view[k]
          \/ /\ view'[k].read /\ view'[k].content = view[k].content
             /\ view'[k].id = view[k].id /\ view'[k].mine = view[k].mine /\ view[k].mine
             /\ \E i \in DOMAIN view :
                   view[i].id = e.id /\ k <= i /\ \A j \in 1 .. i - 1 : view[j].id # e.id
             /\ e.mine => view[k].id \in echoed' \cup {Temp}

LEMMA AlteredAlters ==
    ASSUME view \in Seq(Shown), NEW m, view' = Altered(m)
    PROVE  view' \in Seq(Shown) /\ Alters(m)
<1>1. Len(view) \in Nat /\ DOMAIN view = 1 .. Len(view)
      /\ \A i \in DOMAIN view : view[i] \in Shown
    BY SeqOf
<1>2. \A s \in Shown : LET new == [s EXCEPT !.content = 1]
                       IN  /\ new \in Shown /\ new.content = 1 /\ new.id = s.id
                           /\ new.mine = s.mine /\ new.read = s.read
    <2>1. 1 \in Contents
        BY DEF Contents
    <2>. QED
        BY <2>1 DEF Shown
<1>3. view' \in [1 .. Len(view) -> Shown] /\ Alters(m)
    BY <1>1, <1>2 DEF Altered, Alters
<1>. QED
    BY <1>1, <1>3, IsASeq

LEMMA ConfirmedConfirms ==
    ASSUME view \in Seq(Shown), NEW sent \in Shown, view' = Confirmed(sent)
    PROVE  view' \in Seq(Shown) /\ Confirms(sent)
<1>1. Len(view) \in Nat /\ DOMAIN view = 1 .. Len(view)
      /\ \A i \in DOMAIN view : view[i] \in Shown
    BY SeqOf
<1>. DEFINE other == [sent EXCEPT !.content = Other]
<1>2. /\ other \in Shown /\ other.id = sent.id /\ other.mine = sent.mine
      /\ other.read = sent.read /\ other.content = Other
    BY DEF Shown
<1>. HIDE DEF other
<1>3. CASE LaterSend
    <2>1. view' = [i \in DOMAIN view |-> IF view[i].id = Temp THEN other ELSE view[i]]
        BY <1>3 DEF Confirmed, other
    <2>. QED
        BY <1>1, <1>2, <1>3, <2>1, IsASeq DEF Confirms
<1>4. CASE ~LaterSend
    <2>1. view' = [i \in DOMAIN view |-> IF view[i].id = Temp THEN sent ELSE view[i]]
        BY <1>4 DEF Confirmed
    <2>. QED
        BY <1>1, <1>4, <2>1, IsASeq DEF Confirms
<1>. QED
    BY <1>3, <1>4

LEMMA SameThins ==
    ASSUME view' = view, NEW ids, \A k \in DOMAIN view : view[k].id \notin ids
    PROVE  Thinned(ids, view')
<1>. DEFINE place == [k \in DOMAIN view |-> k]
<1>1. /\ place \in [DOMAIN view -> DOMAIN view]
      /\ \A k \in DOMAIN view : view[k] = view[place[k]] /\ view[k].id \notin ids
      /\ \A j, k \in DOMAIN view : j < k => place[j] < place[k]
      /\ \A i \in DOMAIN view : view[i].id \notin ids => \E k \in DOMAIN view : place[k] = i
    OBVIOUS
<1>. HIDE DEF place
<1>. QED
    BY <1>1 DEF Thinned

SettledCalls ==
    \A p \in Pages :
        IF call[p].step = "waiting"
        THEN \/ /\ down[1].type = "messages" /\ call'[p].step = "decrypting"
                /\ call'[p].more = call[p].more
                /\ call'[p].got = down[1].got /\ call'[p].end = down[1].end
             \/ down[1].type = "error" /\ call'[p].step = "done"
             \/ down[1].type \notin {"messages", "error"} /\ call'[p] = call[p]
        ELSE call'[p] = call[p]

\* What an answer of each type does.
SettledOps ==
    \/ /\ down[1].type = "messages"
       /\ UNCHANGED <<view, sending, editing, deleting>>
    \/ /\ down[1].type = "message_sent"
       /\ ~sending' /\ UNCHANGED <<editing, deleting>>
       /\ Confirms(down[1].got[1])
    \/ /\ down[1].type = "error"
       /\ ~sending' /\ editing' = None /\ deleting' = None
       /\ Thinned({Temp}, view')
    \/ /\ down[1].type = "message_altered"
       /\ editing' = None /\ UNCHANGED <<sending, deleting>>
       /\ Alters(editing)
    \/ /\ down[1].type = "message_deleted"
       /\ deleting' = None /\ UNCHANGED <<sending, editing>>
       /\ Thinned({deleting}, view')
    \/ /\ down[1].type = "marked_as_read"
       /\ UNCHANGED <<view, sending, editing, deleting>>

\* What an answer loses, and what it races.
Answering ==
    /\ lost \subseteq lost' /\ raced \subseteq raced'
    /\ IsSent(1) =>
          /\ (~InView(Temp) \/ InFlight # {}) => Sent(1) \in raced'
          /\ sending /\ LaterSend => "resent" \in lost'
    /\ ~IsSent(1) => raced' = raced
    /\ down[1].type = "error" /\ NewestWaits => "unloaded" \in lost'
    /\ down[1].type = "message_altered" /\ editing \notin {None, down[1].to}
          => "misread" \in lost'
    /\ down[1].type = "message_deleted" /\ deleting \notin {None, down[1].to}
          => "misread" \in lost'

LEMMA SettleDoes ==
    ASSUME TypeOK, ViewInv, NEW a \in Answers, a.type = "message_sent" => a.got # <<>>,
           Settle(a.type, a.got, a.end), a = down[1]
    PROVE  /\ SettledCalls /\ SettledOps
           /\ call' \in [Pages -> Calls] /\ loadingMore' \in BOOLEAN /\ sending' \in BOOLEAN
           /\ editing' \in Ids \cup {None} /\ deleting' \in Ids \cup {None}
           /\ view' \in Seq(Shown)
<1>1. /\ a.type \in Types /\ a.got \in Seq(Shown) /\ a.end \in BOOLEAN
    BY AnswersAre
<1>2. /\ call \in [Pages -> Calls] /\ loadingMore \in BOOLEAN /\ sending \in BOOLEAN
      /\ editing \in Ids \cup {None} /\ deleting \in Ids \cup {None} /\ view \in Seq(Shown)
    BY DEF TypeOK
<1>3. /\ call' = [p \in Pages |->
            IF call[p].step # "waiting" \/ ~(a.type = "messages" \/ a.type = "error")
            THEN call[p]
            ELSE IF a.type = "error" THEN [NewCall EXCEPT !.step = "done"]
            ELSE [call[p] EXCEPT !.step = "decrypting", !.got = a.got, !.end = a.end]]
      /\ sending' = (sending /\ ~(a.type = "message_sent" \/ a.type = "error"))
      /\ editing' = IF a.type = "message_altered" \/ a.type = "error" THEN None ELSE editing
      /\ deleting' = IF a.type = "message_deleted" \/ a.type = "error" THEN None ELSE deleting
      /\ view' = CASE sending /\ a.type = "message_sent"      -> Confirmed(a.got[1])
                   [] sending /\ a.type = "error"             -> DropTemp
                   [] editing # None /\ a.type = "message_altered"  -> Altered(editing)
                   [] deleting # None /\ a.type = "message_deleted" -> Remove({deleting})
                   [] OTHER                                   -> view
    BY TypeNames DEF Settle
<1>4. loadingMore' \in BOOLEAN
    BY <1>2 DEF Settle
<1>5. \A c \in Calls :
         LET new == [c EXCEPT !.step = "decrypting", !.got = a.got, !.end = a.end]
         IN  new \in Calls /\ new.step = "decrypting" /\ new.more = c.more
             /\ new.got = a.got /\ new.end = a.end
    BY <1>1 DEF Calls
<1>6. call' \in [Pages -> Calls]
    BY <1>2, <1>3, <1>5, NewCallIsCall
<1>7. SettledCalls
    <2>. SUFFICES ASSUME NEW p \in Pages
                  PROVE  IF call[p].step = "waiting"
        THEN \/ /\ a.type = "messages" /\ call'[p].step = "decrypting"
                /\ call'[p].more = call[p].more
                /\ call'[p].got = a.got /\ call'[p].end = a.end
             \/ a.type = "error" /\ call'[p].step = "done"
             \/ a.type \notin {"messages", "error"} /\ call'[p] = call[p]
        ELSE call'[p] = call[p]
        BY DEF SettledCalls
    <2>1. call[p] \in Calls
        BY <1>2
    <2>2. CASE call[p].step # "waiting" \/ ~(a.type = "messages" \/ a.type = "error")
        BY <1>3, <2>2
    <2>3. CASE call[p].step = "waiting" /\ a.type = "error"
        <3>1. call'[p] = [NewCall EXCEPT !.step = "done"]
            BY <1>3, <2>3
        <3>. QED
            BY <2>3, <3>1, NewCallIsCall
    <2>4. CASE call[p].step = "waiting" /\ a.type = "messages"
        <3>1. call'[p] = [call[p] EXCEPT !.step = "decrypting", !.got = a.got, !.end = a.end]
            BY <1>3, <2>4
        <3>. QED
            BY <1>5, <2>1, <2>4, <3>1
    <2>. QED
        BY <2>2, <2>3, <2>4
<1>8. \A k \in DOMAIN view : view[k].id = Temp => sending
    BY DEF ViewInv
<1>9. \A k \in DOMAIN view : view[k].id # None
    <2>1. \A k \in DOMAIN view : view[k].id \in Ids \cup {Temp}
        <3>1. \A k \in DOMAIN view : view[k] \in Shown
            BY <1>2, SeqOf
        <3>. QED
            BY <3>1 DEF Shown
    <2>. QED
        BY <2>1, SentinelAssumption
<1>10. view' \in Seq(Shown) /\ SettledOps
    <2>1. CASE a.type = "message_sent"
        <3>1. a.got[1] \in Shown
            BY <1>1, <2>1, EmptySeq, SeqOf
        <3>2. CASE sending
            <4>1. view' = Confirmed(a.got[1])
                BY <1>3, <2>1, <3>2
            <4>2. view' \in Seq(Shown) /\ Confirms(a.got[1])
                BY <1>2, <3>1, <4>1, ConfirmedConfirms
            <4>. QED
                BY <1>3, <2>1, <4>2 DEF SettledOps
        <3>3. CASE ~sending
            <4>1. view' = view
                BY <1>3, <2>1, <3>3
            <4>2. Confirms(a.got[1])
                BY <1>8, <3>3, <4>1 DEF Confirms
            <4>. QED
                BY <1>2, <1>3, <2>1, <4>1, <4>2 DEF SettledOps
        <3>. QED
            BY <3>2, <3>3
    <2>2. CASE a.type = "error"
        <3>1. CASE sending
            <4>1. view' = Remove({Temp})
                BY <1>3, <2>2, <3>1 DEF DropTemp
            <4>2. view' \in Seq(Shown) /\ Thinned({Temp}, view')
                BY <1>2, <4>1, RemoveThins
            <4>. QED
                BY <1>3, <2>2, <4>2 DEF SettledOps
        <3>2. CASE ~sending
            <4>1. view' = view
                BY <1>3, <2>2, <3>2
            <4>2. Thinned({Temp}, view')
                BY <1>8, <3>2, <4>1, SameThins
            <4>. QED
                BY <1>2, <1>3, <2>2, <4>1, <4>2 DEF SettledOps
        <3>. QED
            BY <3>1, <3>2
    <2>3. CASE a.type = "message_altered"
        <3>1. CASE editing # None
            <4>1. view' = Altered(editing)
                BY <1>3, <2>3, <3>1
            <4>2. view' \in Seq(Shown) /\ Alters(editing)
                BY <1>2, <4>1, AlteredAlters
            <4>. QED
                BY <1>2, <1>3, <2>3, <4>2 DEF SettledOps
        <3>2. CASE editing = None
            <4>1. view' = view
                BY <1>3, <2>3, <3>2
            <4>2. Alters(editing)
                BY <1>9, <3>2, <4>1 DEF Alters
            <4>. QED
                BY <1>2, <1>3, <2>3, <4>1, <4>2 DEF SettledOps
        <3>. QED
            BY <3>1, <3>2
    <2>4. CASE a.type = "message_deleted"
        <3>1. CASE deleting # None
            <4>1. view' = Remove({deleting})
                BY <1>3, <2>4, <3>1
            <4>2. view' \in Seq(Shown) /\ Thinned({deleting}, view')
                BY <1>2, <4>1, RemoveThins
            <4>. QED
                BY <1>2, <1>3, <2>4, <4>2 DEF SettledOps
        <3>2. CASE deleting = None
            <4>1. view' = view
                BY <1>3, <2>4, <3>2
            <4>2. Thinned({deleting}, view')
                BY <1>9, <3>2, <4>1, SameThins
            <4>. QED
                BY <1>2, <1>3, <2>4, <4>1, <4>2 DEF SettledOps
        <3>. QED
            BY <3>1, <3>2
    <2>5. CASE a.type \in {"messages", "marked_as_read"}
        <3>1. view' = view
            BY <1>3, <2>5
        <3>. QED
            BY <1>2, <1>3, <2>5, <3>1 DEF SettledOps
    <2>. QED
        BY <1>1, <2>1, <2>2, <2>3, <2>4, <2>5 DEF Types
<1>. QED
    BY <1>2, <1>3, <1>4, <1>6, <1>7, <1>10

LEMMA AnsweredDoes ==
    ASSUME TypeOK, ViewInv, DownInv, Answered
    PROVE  /\ TypeOK' /\ 1 \in DOMAIN down /\ down[1] \in Answers /\ Shifted(down, down')
           /\ SettledCalls /\ SettledOps /\ Answering
           /\ UNCHANGED <<rows, created, up, pushes, hasMore, decrypting, echoed>>
<1>. DEFINE a == down[1]
<1>1. /\ a \in Answers /\ a = Head(down) /\ 1 \in DOMAIN down
      /\ Shifted(down, down') /\ down' \in Seq(Answers)
    BY TailIsShifted, SeqOf DEF Answered, TypeOK, Shifted
<1>2. /\ a.type \in Types /\ a.got \in Seq(Shown)
    BY <1>1, AnswersAre
<1>3. a.type = "message_sent" => IsSent(1) /\ Len(a.got) = 1
    BY <1>1 DEF DownInv, AnswerOK, SentOK, IsSent
<1>4. a.type = "message_sent" => a.got # <<>>
    BY <1>3, EmptySeq
<1>5. Settle(a.type, a.got, a.end) /\ Misread(a.type, a.to)
    BY <1>1 DEF Answered
<1>6. /\ SettledCalls /\ SettledOps
      /\ call' \in [Pages -> Calls] /\ loadingMore' \in BOOLEAN /\ sending' \in BOOLEAN
      /\ editing' \in Ids \cup {None} /\ deleting' \in Ids \cup {None}
      /\ view' \in Seq(Shown)
    BY <1>1, <1>4, <1>5, SettleDoes
<1>7. UNCHANGED <<rows, created, up, pushes, hasMore, decrypting, asked, faults, marked, echoed>>
    BY DEF Answered, table
<1>8. /\ lost \subseteq lost' /\ lost' \subseteq lost \cup {"misread", "unloaded", "resent"}
      /\ a.type = "message_altered" /\ editing \notin {None, a.to} => "misread" \in lost'
      /\ a.type = "message_deleted" /\ deleting \notin {None, a.to} => "misread" \in lost'
      /\ a.type = "error" /\ NewestWaits => "unloaded" \in lost'
    BY <1>5 DEF Misread, NewestWaits, Waits
<1>9. a.type = "message_sent" /\ sending /\ LaterSend => "resent" \in lost'
    BY <1>5 DEF Misread
<1>10. raced' = IF a.type = "message_sent" /\ (~InView(Temp) \/ InFlight # {})
                THEN raced \cup {a.got[1].id} ELSE raced
    BY <1>1 DEF Answered
<1>11. a.type = "message_sent" => a.got[1].id \in Ids
    <2>1. a.type = "message_sent" => a.got[1].id \in Written
        BY <1>1, <1>3 DEF DownInv, AnswerOK, SentOK, IsSent, OfTable
    <2>. QED
        BY <2>1, ExistIsOfIds
<1>12. TypeOK'
    BY <1>1, <1>6, <1>7, <1>8, <1>10, <1>11 DEF TypeOK
<1>13. Answering
    BY <1>1, <1>8, <1>9, <1>10 DEF Answering, IsSent, Sent
<1>. QED
    BY <1>1, <1>6, <1>7, <1>12, <1>13

\* What an event loses and races, and what the arrival of each kind does.
Arriving(e) ==
    /\ lost \subseteq lost' /\ raced \subseteq raced'
    /\ (InFlight # {} \/ \E d \in decrypting : d.id = e.id) => e.id \in raced'
    /\ e.type = "message_altered" /\ editing \notin {None, e.id} => "misread" \in lost'
    /\ e.type = "message_deleted" /\ deleting \notin {None, e.id} => "misread" \in lost'

ArrivesAs(e) ==
    \/ /\ e.type = "message_read"
       /\ Marks(e) /\ echoed \subseteq echoed'
       /\ UNCHANGED <<sending, editing, deleting, decrypting>>
    \/ /\ e.type = "message_deleted"
       /\ Thinned({e.id, deleting}, view') /\ deleting' = None
       /\ UNCHANGED <<sending, editing, decrypting, echoed>>
    \/ /\ e.type = "message_altered"
       /\ Alters(editing) /\ editing' = None /\ decrypting' = decrypting \cup {e}
       /\ UNCHANGED <<sending, deleting, echoed>>
    \/ /\ e.type = "new_message"
       /\ decrypting' = decrypting \cup {e}
       /\ UNCHANGED <<view, sending, editing, deleting, echoed>>

\* The first message with the id.
LEMMA FirstIsThere ==
    ASSUME view \in Seq(Shown), NEW m, InView(m)
    PROVE  /\ IndexOf(m) \in DOMAIN view /\ view[IndexOf(m)].id = m
           /\ \A j \in 1 .. IndexOf(m) - 1 : view[j].id # m
<1>. DEFINE at == {i \in DOMAIN view : view[i].id = m}
            first == Listed(at)[1]
<1>1. Len(view) \in Nat /\ DOMAIN view = 1 .. Len(view)
    BY SeqOf
<1>2. at \in SUBSET (1 .. Len(view))
    BY <1>1
<1>3. PICK i \in at : TRUE
    BY DEF InView
<1>4. \A n : n \in at <=> n \in DOMAIN view /\ view[n].id = m
    OBVIOUS
<1>. HIDE DEF at
<1>5. /\ Cardinality(at) \in Nat
      /\ \A j \in 1 .. Cardinality(at) : Listed(at)[j] \in at
      /\ \A j, k \in 1 .. Cardinality(at) : j < k => Listed(at)[j] < Listed(at)[k]
      /\ \A n \in at : \E j \in 1 .. Cardinality(at) : Listed(at)[j] = n
    BY <1>1, <1>2, ListedIsOrdered
<1>6. PICK k \in 1 .. Cardinality(at) : Listed(at)[k] = i
    BY <1>3, <1>5
<1>7. 1 \in 1 .. Cardinality(at) /\ first \in at
    BY <1>5, <1>6
<1>8. ASSUME NEW j \in 1 .. first - 1 PROVE j \notin at
    <2>1. first \in Nat /\ j \in Nat /\ j < first
        BY <1>1, <1>4, <1>7
    <2>2. SUFFICES ASSUME j \in at PROVE FALSE
        OBVIOUS
    <2>3. PICK l \in 1 .. Cardinality(at) : Listed(at)[l] = j
        BY <1>5, <2>2
    <2>4. l = 1 \/ 1 < l
        BY <1>5
    <2>5. first = j \/ first < j
        BY <1>5, <1>7, <2>3, <2>4
    <2>. QED
        BY <2>1, <2>5
<1>9. /\ first \in DOMAIN view /\ view[first].id = m
      /\ \A j \in 1 .. first - 1 : view[j].id # m
    <2>1. \A j \in 1 .. first - 1 : j \in DOMAIN view
        BY <1>1, <1>4, <1>7
    <2>. QED
        BY <1>4, <1>7, <1>8, <2>1
<1>. HIDE DEF first
<1>. QED
    BY <1>9 DEF IndexOf

LEMMA ReadMarks ==
    ASSUME TypeOK, NEW e \in Events, Read(e)
    PROVE  /\ view' \in Seq(Shown) /\ Marks(e)
           /\ echoed \subseteq echoed' /\ echoed' \subseteq Ids
<1>. DEFINE marks == IF InView(e.id) THEN MarkedUpTo(e.id) ELSE {}
<1>1. /\ view' = [i \in DOMAIN view |->
                     IF i \in marks THEN [view[i] EXCEPT !.read = TRUE] ELSE view[i]]
      /\ echoed' = IF e.mine THEN echoed \cup ({view[i].id : i \in marks} \ {Temp}) ELSE echoed
    BY DEF Read
<1>2. Len(view) \in Nat /\ DOMAIN view = 1 .. Len(view)
      /\ \A i \in DOMAIN view : view[i] \in Shown
    BY SeqOf DEF TypeOK
<1>3. \A i \in marks : /\ i \in DOMAIN view /\ view[i].mine
                       /\ i <= IndexOf(e.id) /\ InView(e.id)
    BY DEF MarkedUpTo
<1>4. InView(e.id) => /\ IndexOf(e.id) \in DOMAIN view /\ view[IndexOf(e.id)].id = e.id
                      /\ \A j \in 1 .. IndexOf(e.id) - 1 : view[j].id # e.id
    BY FirstIsThere DEF TypeOK
<1>. HIDE DEF marks
<1>5. \A s \in Shown : LET new == [s EXCEPT !.read = TRUE]
                       IN  /\ new \in Shown /\ new.read /\ new.id = s.id
                           /\ new.mine = s.mine /\ new.content = s.content
    BY DEF Shown
<1>6. view' \in [1 .. Len(view) -> Shown]
    BY <1>1, <1>2, <1>5
<1>7. view' \in Seq(Shown)
    BY <1>2, <1>6, IsASeq
<1>8. \A i \in marks : view[i].id \in Ids \cup {Temp}
    BY <1>2, <1>3 DEF Shown
<1>9. echoed \subseteq echoed' /\ echoed' \subseteq Ids
    BY <1>1, <1>8 DEF TypeOK
<1>10. Marks(e)
    <2>. SUFFICES ASSUME NEW k \in DOMAIN view, view'[k] # view[k]
                  PROVE  /\ view'[k].read /\ view'[k].content = view[k].content
                         /\ view'[k].id = view[k].id /\ view'[k].mine = view[k].mine /\ view[k].mine
                         /\ \E i \in DOMAIN view :
                               view[i].id = e.id /\ k <= i
                               /\ \A j \in 1 .. i - 1 : view[j].id # e.id
                         /\ e.mine => view[k].id \in echoed' \cup {Temp}
        BY <1>1 DEF Marks
    <2>1. k \in marks
        BY <1>1
    <2>2. view'[k] = [view[k] EXCEPT !.read = TRUE]
        BY <1>1, <2>1
    <2>3. /\ view'[k].read /\ view'[k].content = view[k].content
          /\ view'[k].id = view[k].id /\ view'[k].mine = view[k].mine /\ view[k].mine
        BY <1>2, <1>3, <1>5, <2>1, <2>2
    <2>4. e.mine => view[k].id \in echoed' \cup {Temp}
        BY <1>1, <2>1
    <2>. QED
        BY <1>3, <1>4, <2>1, <2>3, <2>4
<1>. QED
    BY <1>7, <1>9, <1>10

LEMMA ArriveDoes ==
    ASSUME TypeOK, Arrive
    PROVE  /\ TypeOK' /\ 1 \in DOMAIN pushes /\ pushes[1] \in Events /\ Shifted(pushes, pushes')
           /\ Arriving(pushes[1]) /\ ArrivesAs(pushes[1])
           /\ UNCHANGED <<rows, created, up, down, hasMore, call>>
<1>. DEFINE e == pushes[1]
<1>1. /\ e \in Events /\ e = Head(pushes) /\ 1 \in DOMAIN pushes
      /\ Shifted(pushes, pushes') /\ pushes' \in Seq(Events)
    BY TailIsShifted, SeqOf DEF Arrive, TypeOK, Shifted
<1>2. e.id \in Ids /\ e.type \in {"new_message", "message_read", "message_altered",
                                  "message_deleted"}
    BY <1>1 DEF Events
<1>3. UNCHANGED <<rows, created, up, down, hasMore, loadingMore, call, asked, faults, marked>>
    BY DEF Arrive, table
<1>4. /\ raced' = IF InFlight # {} \/ \E d \in decrypting : d.id = e.id
                  THEN raced \cup {e.id} ELSE raced
      /\ Misread(e.type, e.id)
      /\ ReadArrives(e) \/ DeletedArrives(e) \/ AlteredArrives(e) \/ NewArrives(e)
    BY <1>1 DEF Arrive
<1>. HIDE DEF e
<1>5. /\ lost \subseteq lost' /\ lost' \subseteq lost \cup {"misread", "unloaded", "resent"}
      /\ e.type = "message_altered" /\ editing \notin {None, e.id} => "misread" \in lost'
      /\ e.type = "message_deleted" /\ deleting \notin {None, e.id} => "misread" \in lost'
    BY <1>4 DEF Misread
<1>6. Arriving(e)
    BY <1>4, <1>5 DEF Arriving
<1>7. /\ sending \in BOOLEAN /\ editing \in Ids \cup {None} /\ deleting \in Ids \cup {None}
      /\ view \in Seq(Shown) /\ echoed \subseteq Ids
      /\ decrypting \subseteq {d \in Events : d.type \in {"new_message", "message_altered"}}
    BY DEF TypeOK
<1>8. /\ view' \in Seq(Shown) /\ ArrivesAs(e)
      /\ sending' = sending /\ editing' \in Ids \cup {None} /\ deleting' \in Ids \cup {None}
      /\ decrypting' \subseteq {d \in Events : d.type \in {"new_message", "message_altered"}}
      /\ echoed' \subseteq Ids
    <2>1. CASE ReadArrives(e)
        <3>1. /\ e.type = "message_read" /\ Read(e)
              /\ UNCHANGED <<sending, editing, deleting, decrypting>>
            BY <2>1 DEF ReadArrives, ops
        <3>2. /\ view' \in Seq(Shown) /\ Marks(e)
              /\ echoed \subseteq echoed' /\ echoed' \subseteq Ids
            BY <1>1, <3>1, ReadMarks DEF e
        <3>. QED
            BY <1>7, <3>1, <3>2 DEF ArrivesAs
    <2>2. CASE DeletedArrives(e)
        <3>1. /\ view' = Remove({e.id, deleting})
              /\ e.type = "message_deleted" /\ deleting' = None
              /\ UNCHANGED <<sending, editing, decrypting, echoed>>
            BY <2>2 DEF DeletedArrives
        <3>2. view' \in Seq(Shown) /\ Thinned({e.id, deleting}, view')
            BY <1>7, <3>1, RemoveThins
        <3>. QED
            BY <1>7, <3>1, <3>2 DEF ArrivesAs
    <2>3. CASE AlteredArrives(e)
        <3>1. /\ view' = IF editing = None THEN view ELSE Altered(editing)
              /\ e.type = "message_altered" /\ editing' = None
              /\ decrypting' = decrypting \cup {e}
              /\ UNCHANGED <<sending, deleting, echoed>>
            BY <2>3 DEF AlteredArrives
        <3>2. view' \in Seq(Shown) /\ Alters(editing)
            <4>1. CASE editing = None
                <5>1. \A k \in DOMAIN view : view[k] \in Shown
                    BY <1>7, SeqOf
                <5>2. \A k \in DOMAIN view : view[k].id # None
                    BY <5>1, SentinelAssumption DEF Shown
                <5>. QED
                    BY <1>7, <3>1, <4>1, <5>2 DEF Alters
            <4>2. CASE editing # None
                BY <1>7, <3>1, <4>2, AlteredAlters
            <4>. QED
                BY <4>1, <4>2
        <3>. QED
            BY <1>1, <1>7, <3>1, <3>2 DEF ArrivesAs, e
    <2>4. CASE NewArrives(e)
        BY <1>1, <1>7, <2>4 DEF NewArrives, ArrivesAs, ops, e
    <2>. QED
        BY <1>4, <2>1, <2>2, <2>3, <2>4
<1>9. raced' \subseteq Ids
    BY <1>2, <1>4 DEF TypeOK
<1>10. TypeOK'
    BY <1>1, <1>3, <1>5, <1>7, <1>8, <1>9 DEF TypeOK
<1>. QED
    BY <1>1, <1>3, <1>6, <1>8, <1>10 DEF e

LEMMA DecryptedDoes ==
    ASSUME TypeOK, NEW e \in decrypting, Decrypted(e)
    PROVE  /\ TypeOK' /\ decrypting' = decrypting \ {e}
           /\ \/ e.type = "message_altered" /\ Alters(e.id)
              \/ e.type = "new_message" /\ InView(e.id) /\ view' = view
              \/ e.type = "new_message" /\ ~InView(e.id) /\ Queued(view, view', AsSent(e.id))
           /\ UNCHANGED <<rows, created, up, down, pushes, hasMore, call, sending, editing,
                          deleting, echoed, raced, lost>>
<1>1. e \in Events /\ e.type \in {"new_message", "message_altered"} /\ e.id \in Ids
    BY DEF TypeOK, Events
<1>2. /\ decrypting' = decrypting \ {e}
      /\ view' = IF e.type = "message_altered" THEN Altered(e.id) ELSE Added(e.id)
      /\ UNCHANGED <<rows, created, up, down, pushes, hasMore, loadingMore, call, sending,
                     editing, deleting, asked, faults, marked, echoed, raced, lost>>
    BY DEF Decrypted, table, wire, ops, history
<1>3. view \in Seq(Shown)
    BY DEF TypeOK
<1>4. /\ view' \in Seq(Shown)
      /\ \/ e.type = "message_altered" /\ Alters(e.id)
         \/ e.type = "new_message" /\ InView(e.id) /\ view' = view
         \/ e.type = "new_message" /\ ~InView(e.id) /\ Queued(view, view', AsSent(e.id))
    <2>1. CASE e.type = "message_altered"
        <3>1. view' = Altered(e.id)
            BY <1>2, <2>1
        <3>. QED
            BY <1>3, <2>1, <3>1, AlteredAlters
    <2>2. CASE e.type = "new_message" /\ InView(e.id)
        BY <1>2, <1>3, <2>2 DEF Added
    <2>3. CASE e.type = "new_message" /\ ~InView(e.id)
        <3>1. view' = Append(view, AsSent(e.id))
            BY <1>2, <2>3 DEF Added
        <3>2. AsSent(e.id) \in Shown
            <4>1. 0 \in Contents
                BY DEF Contents
            <4>. QED
                BY <1>1, <4>1 DEF AsSent, Shown
        <3>3. view' \in Seq(Shown) /\ Queued(view, view', AsSent(e.id))
            BY <1>3, <3>1, <3>2, AppendIsQueued
        <3>4. DOMAIN view = 1 .. Len(view)
            BY <1>3, SeqOf
        <3>. QED
            BY <2>3, <3>3, <3>4
    <2>. QED
        BY <1>1, <2>1, <2>2, <2>3
<1>5. TypeOK'
    BY <1>2, <1>4 DEF TypeOK
<1>. QED
    BY <1>2, <1>4, <1>5

LEMMA RequestDoes ==
    ASSUME TypeOK, NEW op \in {"send", "edit", "delete", "mark"}, NEW m \in Ids \cup {None},
           Request(op, m)
    PROVE  /\ asked' \in 0 .. MaxRequests /\ up' \in Seq(Requests)
           /\ Queued(up, up', [op |-> op, id |-> m])
           /\ UNCHANGED <<rows, created, down, pushes, hasMore, loadingMore, call, decrypting,
                          faults, echoed, raced, lost>>
<1>1. [op |-> op, id |-> m] \in Requests
    BY TypeNames DEF Requests
<1>2. up' \in Seq(Requests) /\ Queued(up, up', [op |-> op, id |-> m])
    BY <1>1, AppendIsQueued DEF Request, TypeOK
<1>3. asked' \in 0 .. MaxRequests
    <2>1. /\ \E n \in {0, faults} : asked + n < MaxRequests
          /\ asked' = asked + 1
        BY DEF Request, Asking
    <2>2. asked \in 0 .. MaxRequests /\ faults \in 0 .. MaxFaults
        BY DEF TypeOK
    <2>. QED
        BY <2>1, <2>2, BoundsAssumption
<1>. QED
    BY <1>2, <1>3 DEF Request, table, history

TempShown == [id |-> Temp, mine |-> TRUE, content |-> 0, read |-> FALSE]

LEMMA SendMessageDoes ==
    ASSUME TypeOK, SendMessage
    PROVE  /\ TypeOK' /\ ~sending /\ sending'
           /\ Queued(view, view', TempShown)
           /\ Queued(up, up', [op |-> "send", id |-> None])
           /\ UNCHANGED <<rows, created, down, pushes, hasMore, call, editing, deleting,
                          decrypting, echoed, raced, lost>>
<1>1. /\ ~sending /\ sending' = TRUE /\ UNCHANGED <<editing, deleting, marked>>
      /\ view' = Append(view, TempShown) /\ Request("send", None)
    BY DEF SendMessage, TempShown
<1>2. TempShown \in Shown
    <2>1. 0 \in Contents
        BY DEF Contents
    <2>. QED
        BY <2>1 DEF TempShown, Shown
<1>3. view' \in Seq(Shown) /\ Queued(view, view', TempShown) /\ DOMAIN view = 1 .. Len(view)
    BY <1>1, <1>2, AppendIsQueued, SeqOf DEF TypeOK
<1>4. /\ asked' \in 0 .. MaxRequests /\ up' \in Seq(Requests)
      /\ Queued(up, up', [op |-> "send", id |-> None])
      /\ UNCHANGED <<rows, created, down, pushes, hasMore, loadingMore, call, decrypting,
                     faults, echoed, raced, lost>>
    BY <1>1, RequestDoes
<1>5. TypeOK'
    BY <1>1, <1>3, <1>4 DEF TypeOK
<1>. QED
    BY <1>1, <1>3, <1>4, <1>5

\* An edit or a deletion asks about a message of the table, one's own, that the
\* list shows; what was read, about a message of the companion.
Requested(op, m) ==
    /\ m \in Written
    /\ op \in {"edit", "delete"} => \E k \in DOMAIN view : view[k].id = m /\ view[k].mine
    /\ Queued(up, up', [op |-> op, id |-> m])
    /\ UNCHANGED <<rows, created, down, pushes, view, hasMore, call, sending, decrypting,
                   echoed, raced, lost>>

LEMMA RequestsDo ==
    ASSUME TypeOK, ViewInv
    PROVE  /\ \A m \in Ids : Edit(m) =>
                 TypeOK' /\ Requested("edit", m) /\ editing' = m /\ deleting' = deleting
           /\ \A m \in Ids : Delete(m) =>
                 TypeOK' /\ Requested("delete", m) /\ deleting' = m /\ editing' = editing
           /\ MarkAsRead =>
                 /\ TypeOK' /\ deleting' = deleting /\ editing' = editing
                 /\ \E m \in Ids : Requested("mark", m)
<1>1. \A k \in DOMAIN view : view[k] \in Shown
    BY SeqOf DEF TypeOK
<1>2. \A k \in DOMAIN view : view[k].id \in Ids \/ ~view[k].mine => view[k].id \in Written
    BY SentinelAssumption DEF ViewInv, OfTable
<1>3. ASSUME NEW m \in Ids, Edit(m)
      PROVE  TypeOK' /\ Requested("edit", m) /\ editing' = m /\ deleting' = deleting
    <2>1. /\ \E k \in DOMAIN view : view[k].id = m /\ view[k].mine
          /\ editing' = m /\ UNCHANGED <<view, sending, deleting, marked>>
          /\ Request("edit", m)
        BY <1>3 DEF Edit
    <2>2. /\ asked' \in 0 .. MaxRequests /\ up' \in Seq(Requests)
          /\ Queued(up, up', [op |-> "edit", id |-> m])
          /\ UNCHANGED <<rows, created, down, pushes, hasMore, loadingMore, call, decrypting,
                         faults, echoed, raced, lost>>
        BY <2>1, RequestDoes
    <2>3. TypeOK'
        BY <2>1, <2>2 DEF TypeOK
    <2>. QED
        BY <1>2, <2>1, <2>2, <2>3 DEF Requested
<1>4. ASSUME NEW m \in Ids, Delete(m)
      PROVE  TypeOK' /\ Requested("delete", m) /\ deleting' = m /\ editing' = editing
    <2>1. /\ \E k \in DOMAIN view : view[k].id = m /\ view[k].mine
          /\ deleting' = m /\ UNCHANGED <<view, sending, editing, marked>>
          /\ Request("delete", m)
        BY <1>4 DEF Delete
    <2>2. /\ asked' \in 0 .. MaxRequests /\ up' \in Seq(Requests)
          /\ Queued(up, up', [op |-> "delete", id |-> m])
          /\ UNCHANGED <<rows, created, down, pushes, hasMore, loadingMore, call, decrypting,
                         faults, echoed, raced, lost>>
        BY <2>1, RequestDoes
    <2>3. TypeOK'
        BY <2>1, <2>2 DEF TypeOK
    <2>. QED
        BY <1>2, <2>1, <2>2, <2>3 DEF Requested
<1>5. ASSUME MarkAsRead
      PROVE  /\ TypeOK' /\ deleting' = deleting /\ editing' = editing
             /\ \E m \in Ids : Requested("mark", m)
    <2>1. PICK k \in DOMAIN view :
             /\ ~view[k].mine /\ marked' = view[k].id /\ Request("mark", view[k].id)
             /\ UNCHANGED <<view, sending, editing, deleting>>
        BY <1>5 DEF MarkAsRead, ops
    <2>2. view[k].id \in Written /\ view[k].id \in Ids
        BY <1>2, <2>1, ExistIsOfIds
    <2>3. /\ asked' \in 0 .. MaxRequests /\ up' \in Seq(Requests)
          /\ Queued(up, up', [op |-> "mark", id |-> view[k].id])
          /\ UNCHANGED <<rows, created, down, pushes, hasMore, loadingMore, call, decrypting,
                         faults, echoed, raced, lost>>
        BY <2>1, <2>2, RequestDoes
    <2>4. marked' \in 0 .. MaxMessages
        BY <2>1, <2>2, BoundsAssumption DEF Ids
    <2>5. TypeOK'
        BY <2>1, <2>3, <2>4 DEF TypeOK
    <2>6. Requested("mark", view[k].id)
        BY <2>1, <2>2, <2>3 DEF Requested
    <2>. QED
        BY <2>1, <2>2, <2>5, <2>6
<1>. QED
    BY <1>3, <1>4, <1>5

-----------------------------------------------------------------------------
(* What was in the table stays true, and what the list showed stays in order. *)

\* Messages are added; what one is stays, and a deletion, a reading and an
\* alteration are not undone.
Grows ==
    /\ Written \subseteq Written'
    /\ \A m \in Written :
          /\ rows'[m].mine = rows[m].mine
          /\ rows[m].read => rows'[m].read
          /\ rows[m].gone => rows'[m].gone
          /\ rows[m].content = 1 => rows'[m].content = 1

LEMMA RowsAre ==
    ASSUME TypeOK
    PROVE  \A m \in Ids : /\ rows[m] \in Row /\ rows[m].mine \in BOOLEAN
                          /\ rows[m].read \in BOOLEAN /\ rows[m].gone \in BOOLEAN
                          /\ rows[m].content \in {0, 1}
<1>1. \A m \in Ids : rows[m] \in Row
    BY DEF TypeOK
<1>2. Contents = {0, 1}
    BY DEF Contents
<1>. QED
    BY <1>1, <1>2 DEF Row

LEMMA WroteGrows ==
    ASSUME TypeOK, NEW mine \in BOOLEAN, Wrote(mine)
    PROVE  /\ Grows /\ created + 1 \notin Written /\ created + 1 \in Ids
           /\ Written' = Written \cup {created + 1} /\ Exist' = Exist \cup {created + 1}
           /\ rows'[created + 1].mine = mine /\ rows'[created + 1].content = 0
           /\ ~rows'[created + 1].gone /\ ~rows'[created + 1].read
           /\ \A m \in Written : rows'[m] = rows[m] /\ m < created + 1
<1>1. created \in Nat /\ Written \subseteq Ids /\ created + 1 \in Ids
      /\ \A m \in Ids : m \in Nat
    BY ExistIsOfIds DEF Wrote
<1>2. /\ created + 1 \notin Written /\ Written' = Written \cup {created + 1}
      /\ \A m \in Written : m # created + 1 /\ m < created + 1
    BY <1>1 DEF Written, Wrote
<1>3. \A m \in Written : rows'[m] = rows[m]
    BY <1>1, <1>2 DEF Wrote
<1>4. /\ rows'[created + 1].mine = mine /\ rows'[created + 1].content = 0
      /\ ~rows'[created + 1].gone /\ ~rows'[created + 1].read
    BY DEF Wrote, Unwritten
<1>5. Exist' = Exist \cup {created + 1}
    <2>1. Exist = {m \in Written : ~rows[m].gone} /\ Exist' = {m \in Written' : ~rows'[m].gone}
        BY DEF Exist, Written
    <2>. QED
        BY <1>2, <1>3, <1>4, <2>1
<1>. QED
    BY <1>1, <1>2, <1>3, <1>4, <1>5 DEF Grows

LEMMA ChangeGrows ==
    ASSUME TypeOK
    PROVE  /\ \A mine \in BOOLEAN, m \in Exist : MarkedRead(mine, m) =>
                 /\ Grows /\ Written' = Written /\ Exist' = Exist
                 /\ \A n \in Exist : rows[n].mine = mine /\ n <= m => rows'[n].read
                 /\ \A n \in Ids : rows'[n].content = rows[n].content
                                   /\ rows'[n].gone = rows[n].gone
           /\ \A m \in Exist : AlteredRow(m) =>
                 /\ Grows /\ Written' = Written /\ Exist' = Exist
                 /\ rows'[m].content = 1
                 /\ \A n \in Ids : /\ rows'[n].gone = rows[n].gone /\ rows'[n].read = rows[n].read
                                   /\ n # m => rows'[n] = rows[n]
           /\ \A m \in Exist : DeletedRow(m) =>
                 /\ Grows /\ Written' = Written /\ Exist' = Exist \ {m}
                 /\ rows'[m].gone
                 /\ \A n \in Ids : /\ rows'[n].content = rows[n].content
                                   /\ rows'[n].read = rows[n].read
                                   /\ n # m => rows'[n] = rows[n]
<1>1. /\ Exist \subseteq Ids /\ Written \subseteq Ids /\ Exist \subseteq Written
    BY ExistIsOfIds
<1>2. \A m \in Ids : rows[m] \in Row
    BY RowsAre
<1>3. \A r \in Row :
         /\ LET new == [r EXCEPT !.read = TRUE]
            IN  /\ new.read /\ new.mine = r.mine /\ new.content = r.content
                /\ new.gone = r.gone
         /\ LET new == [r EXCEPT !.content = 1]
            IN  /\ new.content = 1 /\ new.mine = r.mine /\ new.read = r.read
                /\ new.gone = r.gone
         /\ LET new == [r EXCEPT !.gone = TRUE]
            IN  /\ new.gone /\ new.mine = r.mine /\ new.content = r.content
                /\ new.read = r.read
    BY DEF Row
<1>4. Exist = {m \in Written : ~rows[m].gone} /\ Exist' = {m \in Written' : ~rows'[m].gone}
    BY DEF Exist, Written
<1>5. created' = created => Written' = Written
    BY DEF Written
<1>6. ASSUME NEW mine \in BOOLEAN, NEW m \in Exist, MarkedRead(mine, m)
      PROVE  /\ Grows /\ Written' = Written /\ Exist' = Exist
             /\ \A n \in Exist : rows[n].mine = mine /\ n <= m => rows'[n].read
             /\ \A n \in Ids : rows'[n].content = rows[n].content /\ rows'[n].gone = rows[n].gone
    <2>1. \A n \in Ids : /\ rows'[n].content = rows[n].content /\ rows'[n].gone = rows[n].gone
                         /\ rows'[n].mine = rows[n].mine
                         /\ rows[n].read => rows'[n].read
                         /\ n \in Exist /\ rows[n].mine = mine /\ n <= m => rows'[n].read
        <3>. SUFFICES ASSUME NEW n \in Ids
                      PROVE  /\ rows'[n].content = rows[n].content
                             /\ rows'[n].gone = rows[n].gone /\ rows'[n].mine = rows[n].mine
                             /\ rows[n].read => rows'[n].read
                             /\ n \in Exist /\ rows[n].mine = mine /\ n <= m => rows'[n].read
            OBVIOUS
        <3>1. IF n \in Exist /\ rows[n].mine = mine /\ n <= m
              THEN rows'[n] = [rows[n] EXCEPT !.read = TRUE] ELSE rows'[n] = rows[n]
            BY <1>6 DEF MarkedRead
        <3>2. CASE n \in Exist /\ rows[n].mine = mine /\ n <= m
            <4>1. rows[n] \in Row /\ rows'[n] = [rows[n] EXCEPT !.read = TRUE]
                BY <1>2, <3>1, <3>2
            <4>2. /\ rows'[n].read /\ rows'[n].mine = rows[n].mine
                  /\ rows'[n].content = rows[n].content /\ rows'[n].gone = rows[n].gone
                BY <1>3, <4>1
            <4>. QED
                BY <4>2
        <3>3. CASE ~(n \in Exist /\ rows[n].mine = mine /\ n <= m)
            BY <3>1, <3>3
        <3>. QED
            BY <3>2, <3>3
    <2>2. Written' = Written
        BY <1>5, <1>6 DEF MarkedRead
    <2>. QED
        BY <1>1, <1>4, <2>1, <2>2 DEF Grows
<1>7. ASSUME NEW m \in Exist, AlteredRow(m)
      PROVE  /\ Grows /\ Written' = Written /\ Exist' = Exist
             /\ rows'[m].content = 1
             /\ \A n \in Ids : /\ rows'[n].gone = rows[n].gone /\ rows'[n].read = rows[n].read
                               /\ n # m => rows'[n] = rows[n]
    <2>1. /\ m \in Ids /\ rows[m] \in Row
          /\ rows'[m] = [rows[m] EXCEPT !.content = 1] /\ \A n \in Ids : n # m => rows'[n] = rows[n]
        BY <1>1, <1>2, <1>7 DEF AlteredRow
    <2>2. /\ rows'[m].content = 1 /\ rows'[m].mine = rows[m].mine /\ rows'[m].read = rows[m].read
          /\ rows'[m].gone = rows[m].gone
        BY <1>3, <2>1
    <2>3. Written' = Written
        BY <1>5, <1>7 DEF AlteredRow
    <2>. QED
        BY <1>1, <1>4, <2>1, <2>2, <2>3 DEF Grows
<1>8. ASSUME NEW m \in Exist, DeletedRow(m)
      PROVE  /\ Grows /\ Written' = Written /\ Exist' = Exist \ {m}
             /\ rows'[m].gone
             /\ \A n \in Ids : /\ rows'[n].content = rows[n].content
                               /\ rows'[n].read = rows[n].read
                               /\ n # m => rows'[n] = rows[n]
    <2>1. /\ m \in Ids /\ rows[m] \in Row
          /\ rows'[m] = [rows[m] EXCEPT !.gone = TRUE] /\ \A n \in Ids : n # m => rows'[n] = rows[n]
        BY <1>1, <1>2, <1>8 DEF DeletedRow
    <2>2. /\ rows'[m].gone /\ rows'[m].mine = rows[m].mine /\ rows'[m].read = rows[m].read
          /\ rows'[m].content = rows[m].content
        BY <1>3, <2>1
    <2>3. Written' = Written
        BY <1>5, <1>8 DEF DeletedRow
    <2>. QED
        BY <1>1, <1>4, <2>1, <2>2, <2>3 DEF Grows
<1>. QED
    BY <1>6, <1>7, <1>8

LEMMA SameGrows ==
    ASSUME UNCHANGED <<rows, created>>
    PROVE  Grows /\ Written' = Written /\ Exist' = Exist
BY DEF Grows, Written, Exist

LEMMA Persist ==
    ASSUME Grows
    PROVE  /\ \A s : OfTable(s) => OfTable(s)'
           /\ \A got : PageOK(got) => PageOK(got)'
<1>1. \A s : OfTable(s) => OfTable(s)'
    BY DEF Grows, OfTable
<1>2. ASSUME NEW got, PageOK(got)
      PROVE  PageOK(got)'
    <2>1. ASSUME NEW a \in DOMAIN got
          PROVE  /\ OfTable(got[a])'
                 /\ got[a].read => rows'[got[a].id].read
                 /\ got[a].content \in {0, 1}
                 /\ got[a].content = 1 => rows'[got[a].id].content = 1
        <3>1. /\ OfTable(got[a]) /\ got[a].id \in Written
              /\ got[a].read => rows[got[a].id].read
              /\ got[a].content \in {0, 1}
              /\ got[a].content = 1 => rows[got[a].id].content = 1
            BY <1>2 DEF PageOK, OfTable
        <3>. QED
            BY <1>1, <3>1 DEF Grows
    <2>. QED
        BY <1>2, <2>1 DEF PageOK
<1>. QED
    BY <1>1, <1>2

\* The messages of the list are some of those it had, in order, as far as their
\* ids and their authors go.
Drawn ==
    \E place \in [DOMAIN view' -> DOMAIN view] :
        /\ \A k \in DOMAIN view' :
              view'[k].id = view[place[k]].id /\ view'[k].mine = view[place[k]].mine
        /\ \A j, k \in DOMAIN view' : j < k => place[j] < place[k]

LEMMA DrawnLists ==
    /\ view' = view => Drawn
    /\ view' = <<>> => Drawn
    /\ \A m : Alters(m) => Drawn
    /\ \A e : Marks(e) => Drawn
    /\ \A ids : Thinned(ids, view') => Drawn
<1>. DEFINE same == [k \in DOMAIN view |-> k]
<1>1. /\ same \in [DOMAIN view -> DOMAIN view]
      /\ \A k \in DOMAIN view : same[k] = k
    OBVIOUS
<1>. HIDE DEF same
<1>2. ASSUME DOMAIN view' = DOMAIN view,
             \A k \in DOMAIN view : view'[k].id = view[k].id /\ view'[k].mine = view[k].mine
      PROVE  Drawn
    <2>1. /\ \A k \in DOMAIN view' :
                view'[k].id = view[same[k]].id /\ view'[k].mine = view[same[k]].mine
          /\ \A j, k \in DOMAIN view' : j < k => same[j] < same[k]
          /\ same \in [DOMAIN view' -> DOMAIN view]
        BY <1>1, <1>2
    <2>. QED
        BY <2>1 DEF Drawn
<1>3. ASSUME view' = <<>>
      PROVE  Drawn
    <2>. DEFINE place == [k \in {} |-> k]
    <2>1. DOMAIN view' = {}
        BY <1>3
    <2>2. place \in [DOMAIN view' -> DOMAIN view]
        BY <2>1
    <2>. HIDE DEF place
    <2>. QED
        BY <2>1, <2>2 DEF Drawn
<1>4. ASSUME NEW m, Alters(m)
      PROVE  Drawn
    BY <1>2, <1>4 DEF Alters
<1>5. ASSUME NEW e, Marks(e)
      PROVE  Drawn
    BY <1>2, <1>5 DEF Marks
<1>6. ASSUME NEW ids, Thinned(ids, view')
      PROVE  Drawn
    <2>1. PICK place \in [DOMAIN view' -> DOMAIN view] :
             /\ \A k \in DOMAIN view' : view'[k] = view[place[k]]
             /\ \A j, k \in DOMAIN view' : j < k => place[j] < place[k]
        BY <1>6 DEF Thinned
    <2>. QED
        BY <2>1 DEF Drawn
<1>. QED
    BY <1>2, <1>3, <1>4, <1>5, <1>6

-----------------------------------------------------------------------------
(* The steps.                                                              *)

CompanionStep ==
    /\ UNCHANGED Rest
    /\ \E e \in Events :
          /\ Queued(pushes, pushes', e) /\ ~e.mine
          /\ \/ e.type = "new_message" /\ Wrote(FALSE) /\ e.id = created + 1
             \/ /\ e.type = "message_read" /\ e.id \in Exist /\ rows[e.id].mine
                /\ MarkedRead(TRUE, e.id)
             \/ /\ e.type = "message_altered" /\ e.id \in Exist /\ ~rows[e.id].mine
                /\ AlteredRow(e.id)
             \/ /\ e.type = "message_deleted" /\ e.id \in Exist /\ ~rows[e.id].mine
                /\ DeletedRow(e.id)

ServeStep ==
    /\ UNCHANGED Window /\ Shifted(up, up') /\ up[1] \in Requests
    /\ \E a \in Answers :
          /\ Queued(down, down', a)
          /\ Paged(up[1], a) \/ SentOne(up[1], a) \/ Changed(up[1], a) \/ Refused(up[1], a)

AnswerStep ==
    /\ Shifted(down, down') /\ down[1] \in Answers
    /\ SettledCalls /\ SettledOps /\ Answering
    /\ UNCHANGED <<rows, created, up, pushes, hasMore, decrypting, echoed>>

ArriveStep ==
    /\ Shifted(pushes, pushes') /\ pushes[1] \in Events
    /\ Arriving(pushes[1]) /\ ArrivesAs(pushes[1])
    /\ UNCHANGED <<rows, created, up, down, hasMore, call>>

AskStep ==
    \E p \in Pages, cursor \in Ids \cup {None, Temp} :
        /\ Asked(p, cursor) /\ UNCHANGED Elsewhere
        /\ \/ cursor = None /\ view' = <<>> /\ hasMore' = TRUE
           \/ /\ 1 \in DOMAIN view /\ cursor = view[1].id /\ cursor # None
              /\ hasMore /\ UNCHANGED <<view, hasMore>>

LoadStep ==
    \E p \in Pages :
        /\ call[p].step = "decrypting" /\ call'[p].step = "done"
        /\ \A q \in Pages : q # p => call'[q] = call[q]
        /\ Kept(p) \in Seq(Shown) /\ call[p].got \in Seq(Shown)
        /\ Joined(call[p].got, Kept(p), view')
        /\ hasMore' = ~call[p].end
        /\ UNCHANGED <<rows, created, up, down, pushes, sending, editing, deleting,
                       decrypting, echoed, raced, lost>>

DecryptStep ==
    \E e \in decrypting :
        /\ decrypting' = decrypting \ {e}
        /\ \/ e.type = "message_altered" /\ Alters(e.id)
           \/ e.type = "new_message" /\ InView(e.id) /\ view' = view
           \/ e.type = "new_message" /\ ~InView(e.id) /\ Queued(view, view', AsSent(e.id))
        /\ UNCHANGED <<rows, created, up, down, pushes, hasMore, call, sending, editing,
                       deleting, echoed, raced, lost>>

SendStep ==
    /\ ~sending /\ sending'
    /\ Queued(view, view', TempShown)
    /\ Queued(up, up', [op |-> "send", id |-> None])
    /\ UNCHANGED <<rows, created, down, pushes, hasMore, call, editing, deleting, decrypting,
                   echoed, raced, lost>>

RequestStep ==
    \E op \in {"edit", "delete", "mark"}, m \in Ids : Requested(op, m)

LEMMA StepsAre ==
    ASSUME TypeOK, ViewInv, DownInv, [Next]_vars
    PROVE  /\ TypeOK'
           /\ \/ CompanionStep \/ ServeStep \/ AnswerStep \/ ArriveStep \/ AskStep
              \/ LoadStep \/ DecryptStep \/ SendStep \/ RequestStep
              \/ UNCHANGED vars
<1>1. CASE Companion
    <2>1. Exist \subseteq Ids
        BY ExistIsOfIds
    <2>2. \A type \in {"new_message", "message_read", "message_altered", "message_deleted"} :
             \A m \in Ids : /\ Event(type, m) \in Events /\ Event(type, m).type = type
                            /\ Event(type, m).id = m /\ ~Event(type, m).mine
        BY DEF Event, Events
    <2>3. /\ TypeOK' /\ UNCHANGED Rest
          /\ \/ /\ Wrote(FALSE)
                /\ Queued(pushes, pushes', Event("new_message", created + 1))
             \/ \E m \in Exist :
                   /\ rows[m].mine
                   /\ MarkedRead(TRUE, m)
                   /\ Queued(pushes, pushes', Event("message_read", m))
             \/ \E m \in Exist :
                   /\ ~rows[m].mine
                   /\ \/ /\ AlteredRow(m)
                         /\ Queued(pushes, pushes', Event("message_altered", m))
                      \/ /\ DeletedRow(m)
                         /\ Queued(pushes, pushes', Event("message_deleted", m))
        BY <1>1, CompanionDoes
    <2>4. CASE Wrote(FALSE) /\ Queued(pushes, pushes', Event("new_message", created + 1))
        <3>. DEFINE e == Event("new_message", created + 1)
        <3>1. created + 1 \in Ids
            BY <2>4 DEF Wrote
        <3>2. e \in Events /\ e.type = "new_message" /\ e.id = created + 1 /\ ~e.mine
            BY <2>2, <3>1
        <3>3. Queued(pushes, pushes', e)
            BY <2>4
        <3>. HIDE DEF e
        <3>. QED
            BY <2>3, <2>4, <3>2, <3>3 DEF CompanionStep
    <2>5. ASSUME NEW m \in Exist, rows[m].mine, MarkedRead(TRUE, m),
                 Queued(pushes, pushes', Event("message_read", m))
          PROVE  CompanionStep
        <3>. DEFINE e == Event("message_read", m)
        <3>1. e \in Events /\ e.type = "message_read" /\ e.id = m /\ ~e.mine
            BY <2>1, <2>2
        <3>2. Queued(pushes, pushes', e)
            BY <2>5
        <3>. HIDE DEF e
        <3>. QED
            BY <2>3, <2>5, <3>1, <3>2 DEF CompanionStep
    <2>6. ASSUME NEW m \in Exist, ~rows[m].mine, AlteredRow(m),
                 Queued(pushes, pushes', Event("message_altered", m))
          PROVE  CompanionStep
        <3>. DEFINE e == Event("message_altered", m)
        <3>1. e \in Events /\ e.type = "message_altered" /\ e.id = m /\ ~e.mine
            BY <2>1, <2>2
        <3>2. Queued(pushes, pushes', e)
            BY <2>6
        <3>. HIDE DEF e
        <3>. QED
            BY <2>3, <2>6, <3>1, <3>2 DEF CompanionStep
    <2>7. ASSUME NEW m \in Exist, ~rows[m].mine, DeletedRow(m),
                 Queued(pushes, pushes', Event("message_deleted", m))
          PROVE  CompanionStep
        <3>. DEFINE e == Event("message_deleted", m)
        <3>1. e \in Events /\ e.type = "message_deleted" /\ e.id = m /\ ~e.mine
            BY <2>1, <2>2
        <3>2. Queued(pushes, pushes', e)
            BY <2>7
        <3>. HIDE DEF e
        <3>. QED
            BY <2>3, <2>7, <3>1, <3>2 DEF CompanionStep
    <2>. QED
        BY <2>3, <2>4, <2>5, <2>6, <2>7
<1>2. CASE Serve
    BY <1>2, ServeDoes DEF ServeStep
<1>3. CASE Answered
    BY <1>3, AnsweredDoes DEF AnswerStep
<1>4. CASE Arrive
    BY <1>4, ArriveDoes DEF ArriveStep
<1>5. ASSUME NEW p \in Pages, Reset(p)
      PROVE  TypeOK' /\ AskStep
    BY <1>5, ResetDoes DEF AskStep
<1>6. ASSUME NEW p \in Pages, LoadMore(p)
      PROVE  TypeOK' /\ AskStep
    <2>1. /\ TypeOK' /\ Asked(p, view[1].id) /\ UNCHANGED Elsewhere
          /\ view' = view /\ hasMore' = hasMore /\ hasMore
          /\ 1 \in DOMAIN view /\ view[1].id \in Ids \cup {Temp}
        BY <1>6, LoadMoreDoes
    <2>2. view[1].id # None
        BY <2>1, SentinelAssumption
    <2>. QED
        BY <2>1, <2>2 DEF AskStep
<1>7. ASSUME NEW p \in Pages, Loaded(p)
      PROVE  TypeOK' /\ LoadStep
    BY <1>7, LoadedDoes DEF LoadStep
<1>8. ASSUME NEW e \in decrypting, Decrypted(e)
      PROVE  TypeOK' /\ DecryptStep
    BY <1>8, DecryptedDoes DEF DecryptStep
<1>9. CASE SendMessage
    BY <1>9, SendMessageDoes DEF SendStep
<1>10. ASSUME NEW m \in Ids, Edit(m) \/ Delete(m)
       PROVE  TypeOK' /\ RequestStep
    BY <1>10, RequestsDo DEF RequestStep
<1>11. CASE MarkAsRead
    BY <1>11, RequestsDo DEF RequestStep
<1>12. CASE UNCHANGED vars
    BY <1>12 DEF vars, TypeOK
<1>. QED
    BY <1>1, <1>2, <1>3, <1>4, <1>5, <1>6, <1>7, <1>8, <1>9, <1>10, <1>11, <1>12 DEF Next

Step ==
    \/ CompanionStep \/ ServeStep \/ AnswerStep \/ ArriveStep \/ AskStep
    \/ LoadStep \/ DecryptStep \/ SendStep \/ RequestStep \/ UNCHANGED vars

LEMMA StepGrows ==
    ASSUME TypeOK, Step
    PROVE  /\ Grows
           /\ \/ CompanionStep \/ ServeStep
              \/ UNCHANGED <<rows, created>> /\ Written' = Written /\ Exist' = Exist
<1>1. CASE CompanionStep
    BY <1>1, WroteGrows, ChangeGrows DEF CompanionStep
<1>2. CASE ServeStep
    <2>1. \E a \in Answers : Paged(up[1], a) \/ SentOne(up[1], a) \/ Changed(up[1], a)
                             \/ Refused(up[1], a)
        BY <1>2 DEF ServeStep
    <2>2. ASSUME NEW a, Paged(up[1], a) \/ Refused(up[1], a)
          PROVE  Grows
        BY <2>2, SameGrows DEF Paged, Refused
    <2>3. ASSUME NEW a, SentOne(up[1], a)
          PROVE  Grows
        BY <2>3, WroteGrows DEF SentOne
    <2>4. ASSUME NEW a, Changed(up[1], a)
          PROVE  Grows
        BY <2>4, ChangeGrows DEF Changed
    <2>. QED
        BY <1>2, <2>1, <2>2, <2>3, <2>4
<1>3. CASE ~CompanionStep /\ ~ServeStep
    <2>1. UNCHANGED <<rows, created>>
        BY <1>3 DEF Step, AnswerStep, ArriveStep, AskStep, LoadStep, DecryptStep, SendStep,
           RequestStep, Requested, Elsewhere, vars
    <2>. QED
        BY <2>1, SameGrows
<1>. QED
    BY <1>1, <1>2, <1>3

-----------------------------------------------------------------------------
(* The requests, the answers and the events are about messages of the table. *)

\* A new request, if any: it asks to edit or delete a message of one's own that
\* is in the list.
NewRequest(r) ==
    /\ Queued(up, up', r) /\ RequestOK(r)
    /\ r.op \in {"edit", "delete"} =>
          \E k \in DOMAIN view : view[k].id = r.id /\ view[k].mine
    /\ UNCHANGED <<rows, created, down, pushes>>

LEMMA RequestsAre ==
    ASSUME TypeOK, ViewInv, Step
    PROVE  \/ ServeStep
           \/ \E r : NewRequest(r)
           \/ up' = up /\ (down' = down \/ Shifted(down, down'))
<1>1. CASE AskStep
    <2>1. PICK p \in Pages, cursor \in Ids \cup {None, Temp} :
             /\ Asked(p, cursor) /\ UNCHANGED Elsewhere
             /\ cursor = None \/ (1 \in DOMAIN view /\ cursor = view[1].id)
        BY <1>1 DEF AskStep
    <2>2. cursor \in Ids => cursor \in Written
        BY <2>1, SentinelAssumption DEF ViewInv, OfTable
    <2>. DEFINE r == [op |-> "page", id |-> cursor]
    <2>3. Queued(up, up', r) /\ RequestOK(r) /\ r.op = "page"
        BY <2>1, <2>2 DEF Asked, RequestOK
    <2>. HIDE DEF r
    <2>4. NewRequest(r)
        BY <2>1, <2>3 DEF NewRequest, Elsewhere
    <2>. QED
        BY <2>4
<1>2. CASE SendStep
    <2>. DEFINE r == [op |-> "send", id |-> None]
    <2>1. Queued(up, up', r) /\ RequestOK(r) /\ r.op = "send"
        BY <1>2 DEF SendStep, RequestOK
    <2>. HIDE DEF r
    <2>2. NewRequest(r)
        BY <1>2, <2>1 DEF NewRequest, SendStep
    <2>. QED
        BY <2>2
<1>3. CASE RequestStep
    <2>1. PICK op \in {"edit", "delete", "mark"}, m \in Ids : Requested(op, m)
        BY <1>3 DEF RequestStep
    <2>. DEFINE r == [op |-> op, id |-> m]
    <2>2. Queued(up, up', r) /\ RequestOK(r) /\ r.op = op /\ r.id = m
        BY <2>1 DEF Requested, RequestOK
    <2>. HIDE DEF r
    <2>3. NewRequest(r)
        BY <2>1, <2>2 DEF NewRequest, Requested
    <2>. QED
        BY <2>3
<1>4. CASE AnswerStep \/ ArriveStep \/ LoadStep \/ DecryptStep \/ UNCHANGED vars
    BY <1>4 DEF AnswerStep, ArriveStep, LoadStep, DecryptStep, vars
<1>5. CASE CompanionStep
    BY <1>5 DEF CompanionStep, Rest
<1>. QED
    BY <1>1, <1>2, <1>3, <1>4, <1>5 DEF Step

\* The message of a new answer to a send is new.
LEMMA NewSentIsNew ==
    ASSUME TypeOK, ServeStep, NEW k \in DOMAIN down', down'[k].type = "message_sent"
    PROVE  \/ k \in DOMAIN down /\ down'[k] = down[k]
           \/ /\ \A i \in DOMAIN down : i < k
              /\ SentOne(up[1], down'[k])
              /\ down'[k].got[1].id = created + 1
<1>1. PICK a \in Answers :
         /\ Queued(down, down', a)
         /\ Paged(up[1], a) \/ SentOne(up[1], a) \/ Changed(up[1], a) \/ Refused(up[1], a)
    BY DEF ServeStep
<1>2. CASE k \in DOMAIN down
    BY <1>1, <1>2 DEF Queued
<1>3. CASE k \notin DOMAIN down
    <2>1. down'[k] = a /\ \A i \in DOMAIN down : i < k
        BY <1>1, <1>3 DEF Queued
    <2>2. a.type = "message_sent"
        BY <2>1
    <2>3. SentOne(up[1], a)
        BY <1>1, <2>2 DEF Paged, Changed, Refused
    <2>4. a.got[1].id = created + 1
        BY <2>3 DEF SentOne, NewShown
    <2>. QED
        BY <2>1, <2>3, <2>4
<1>. QED
    BY <1>2, <1>3

LEMMA UpKept ==
    ASSUME TypeOK, UpInv, ViewInv, FifoInv, Step
    PROVE  UpInv'
<1>1. Grows
    BY StepGrows
<1>2. \A r : RequestOK(r) => RequestOK(r)'
    BY <1>1 DEF Grows, RequestOK
<1>3. \A i \in DOMAIN up : RequestOK(up[i])
    BY DEF UpInv
<1>4. CASE ServeStep
    <2>1. Shifted(up, up')
        BY <1>4 DEF ServeStep
    <2>2. \A i \in DOMAIN up' : RequestOK(up'[i]) /\ \E j \in DOMAIN up : up'[i] = up[j]
        BY <1>3, <2>1 DEF Shifted
    <2>3. ASSUME NEW i \in DOMAIN up', up'[i].op \in {"edit", "delete"},
                 NEW k \in DOMAIN down', down'[k].type = "message_sent"
          PROVE  up'[i].id # down'[k].got[1].id
        <3>1. \/ k \in DOMAIN down /\ down'[k] = down[k]
              \/ SentOne(up[1], down'[k]) /\ down'[k].got[1].id = created + 1
            BY <1>4, <2>3, NewSentIsNew
        <3>2. PICK j \in DOMAIN up : up'[i] = up[j]
            BY <2>2
        <3>3. CASE k \in DOMAIN down /\ down'[k] = down[k]
            BY <2>3, <3>2, <3>3 DEF UpInv, IsSent, Sent
        <3>4. CASE SentOne(up[1], down'[k]) /\ down'[k].got[1].id = created + 1
            <4>1. created + 1 \notin Written
                BY <3>4, WroteGrows DEF SentOne
            <4>. QED
                BY <2>3, <3>2, <3>4, <4>1 DEF UpInv, RequestOK
        <3>. QED
            BY <3>1, <3>3, <3>4
    <2>4. (\A i \in DOMAIN up : RequestOK(up[i]))'
        BY <1>2, <2>2
    <2>. QED
        BY <2>3, <2>4 DEF UpInv, IsSent, Sent
<1>5. ASSUME NEW r, NewRequest(r)
      PROVE  UpInv'
    <2>1. /\ Queued(up, up', r) /\ RequestOK(r)
          /\ r.op \in {"edit", "delete"} =>
                \E k \in DOMAIN view : view[k].id = r.id /\ view[k].mine
          /\ UNCHANGED <<rows, created, down>>
        BY <1>5 DEF NewRequest
    <2>2. \A i \in DOMAIN up' : (i \in DOMAIN up /\ up'[i] = up[i]) \/ up'[i] = r
        BY <2>1 DEF Queued
    <2>3. (\A i \in DOMAIN up : RequestOK(up[i]))'
        BY <1>2, <1>3, <2>1, <2>2
    <2>4. r.op \in {"edit", "delete"} => r.id \in Ids /\ r.id # Temp
        <3>1. r.op \in {"edit", "delete"} => r.id \in Written
            BY <2>1 DEF RequestOK
        <3>. QED
            BY <3>1, ExistIsOfIds, SentinelAssumption
    <2>5. \A i \in DOMAIN down : IsSent(i) /\ r.op \in {"edit", "delete"} => r.id < Sent(i)
        BY <2>1, <2>4 DEF FifoInv, OwnUnder
    <2>6. \A i \in DOMAIN down : IsSent(i) /\ r.op \in {"edit", "delete"} => r.id # Sent(i)
        <3>1. \A n \in Ids : ~(n < n)
            BY ExistIsOfIds
        <3>. QED
            BY <2>4, <2>5, <3>1
    <2>. QED
        BY <2>1, <2>2, <2>3, <2>6 DEF UpInv, IsSent, Sent
<1>6. CASE up' = up /\ (down' = down \/ Shifted(down, down'))
    <2>1. \A k \in DOMAIN down' : \E j \in DOMAIN down : down'[k] = down[j]
        BY <1>6 DEF Shifted
    <2>2. (\A i \in DOMAIN up : RequestOK(up[i]))'
        BY <1>2, <1>3, <1>6
    <2>. QED
        BY <1>6, <2>1, <2>2 DEF UpInv, IsSent, Sent
<1>. QED
    BY <1>4, <1>5, <1>6, RequestsAre

\* A message that was sent stays as it is until its answer comes.
LEMMA SentStays ==
    ASSUME TypeOK, UpInv, Step, NEW got, SentOK(got),
           \A i \in DOMAIN up : up[i].op \in {"edit", "delete"} => up[i].id # got[1].id
    PROVE  SentOK(got)'
<1>. DEFINE m == got[1].id
<1>1. m \in Written /\ m \in Ids /\ rows[m].mine
    BY ExistIsOfIds DEF SentOK, OfTable
<1>2. Grows
    BY StepGrows
<1>3. rows'[m].content = rows[m].content /\ rows'[m].gone = rows[m].gone
    <2>1. CASE CompanionStep
        <3>1. PICK e \in Events :
                 \/ Wrote(FALSE)
                 \/ e.id \in Exist /\ MarkedRead(TRUE, e.id)
                 \/ e.id \in Exist /\ ~rows[e.id].mine /\ (AlteredRow(e.id) \/ DeletedRow(e.id))
            BY <2>1 DEF CompanionStep
        <3>2. CASE Wrote(FALSE)
            BY <1>1, <3>2, WroteGrows
        <3>3. CASE e.id \in Exist /\ MarkedRead(TRUE, e.id)
            BY <1>1, <3>3, ChangeGrows
        <3>4. CASE e.id \in Exist /\ ~rows[e.id].mine /\ (AlteredRow(e.id) \/ DeletedRow(e.id))
            <4>1. m # e.id
                BY <1>1, <3>4
            <4>. QED
                BY <1>1, <3>4, <4>1, ChangeGrows
        <3>. QED
            BY <3>1, <3>2, <3>3, <3>4
    <2>2. CASE ServeStep
        <3>1. PICK a : Paged(up[1], a) \/ SentOne(up[1], a) \/ Changed(up[1], a)
                       \/ Refused(up[1], a)
            BY <2>2 DEF ServeStep
        <3>2. CASE Paged(up[1], a) \/ Refused(up[1], a)
            BY <3>2 DEF Paged, Refused
        <3>3. CASE SentOne(up[1], a)
            BY <1>1, <3>3, WroteGrows DEF SentOne
        <3>4. CASE Changed(up[1], a)
            <4>1. 1 \in DOMAIN up
                BY <2>2 DEF ServeStep, Shifted
            <4>2. /\ up[1].id \in Exist
                  /\ \/ up[1].op = "mark" /\ MarkedRead(FALSE, up[1].id)
                     \/ m # up[1].id /\ (AlteredRow(up[1].id) \/ DeletedRow(up[1].id))
                BY <3>4, <4>1 DEF Changed
            <4>. QED
                BY <1>1, <4>2, ChangeGrows
        <3>. QED
            BY <3>1, <3>2, <3>3, <3>4
    <2>3. CASE UNCHANGED <<rows, created>>
        BY <2>3
    <2>. QED
        BY <2>1, <2>2, <2>3, StepGrows
<1>4. OfTable(got[1])'
    BY <1>2, Persist DEF SentOK
<1>. QED
    BY <1>3, <1>4 DEF SentOK

LEMMA AnswersPersist ==
    ASSUME TypeOK, UpInv, DownInv, Step, NEW i \in DOMAIN down
    PROVE  \A a : a = down[i] => AnswerOK(a)'
<1>. SUFFICES ASSUME NEW a, a = down[i] PROVE AnswerOK(a)'
    OBVIOUS
<1>1. AnswerOK(a) /\ Grows
    BY StepGrows DEF DownInv
<1>2. a.type = "messages" => PageOK(a.got)'
    BY <1>1, Persist DEF AnswerOK
<1>3. a.type = "message_sent" => SentOK(a.got)'
    <2>. SUFFICES ASSUME a.type = "message_sent" PROVE SentOK(a.got)'
        OBVIOUS
    <2>1. \A j \in DOMAIN up : up[j].op \in {"edit", "delete"} => up[j].id # a.got[1].id
        BY DEF UpInv, IsSent, Sent
    <2>. QED
        BY <1>1, <2>1, SentStays DEF AnswerOK
<1>. QED
    BY <1>1, <1>2, <1>3 DEF AnswerOK, Grows

LEMMA ReadPageIsOK ==
    ASSUME TypeOK, NEW cursor, NEW got, NEW end, ReadPage(cursor, got, end)
    PROVE  PageOK(got)
<1>1. \A m \in Older(cursor) : m \in Written /\ m \in Ids
    BY ExistIsOfIds DEF Older
<1>2. \A m \in Ids : /\ rows[m].mine \in BOOLEAN /\ rows[m].read \in BOOLEAN
                     /\ rows[m].content \in {0, 1}
    BY RowsAre
<1>3. ASSUME NEW a \in DOMAIN got
      PROVE  /\ OfTable(got[a])
             /\ got[a].read => rows[got[a].id].read
             /\ got[a].content \in {0, 1}
             /\ got[a].content = 1 => rows[got[a].id].content = 1
    <2>1. PICK m \in Older(cursor) : got[a] = RowShown(m)
        BY DEF ReadPage
    <2>2. /\ got[a].id = m /\ got[a].mine = rows[m].mine /\ got[a].content = rows[m].content
          /\ got[a].read = (rows[m].mine /\ rows[m].read)
        BY <2>1 DEF RowShown
    <2>. QED
        BY <1>1, <1>2, <2>2 DEF OfTable
<1>. QED
    BY <1>3 DEF ReadPage, PageOK

LEMMA DownKept ==
    ASSUME TypeOK, UpInv, DownInv, ViewInv, Step
    PROVE  DownInv'
<1>1. CASE ServeStep
    <2>1. PICK a \in Answers :
             /\ Queued(down, down', a)
             /\ Paged(up[1], a) \/ SentOne(up[1], a) \/ Changed(up[1], a) \/ Refused(up[1], a)
        BY <1>1 DEF ServeStep
    <2>2. AnswerOK(a)'
        <3>1. CASE Paged(up[1], a)
            <4>1. PageOK(a.got) /\ a.type = "messages" /\ Grows
                BY <3>1, ReadPageIsOK, StepGrows DEF Paged
            <4>2. PageOK(a.got)'
                BY <4>1, Persist
            <4>. QED
                BY <4>1, <4>2 DEF AnswerOK
        <3>2. CASE SentOne(up[1], a)
            <4>. DEFINE s == NewShown(created + 1)
            <4>1. a.type = "message_sent" /\ a.got = <<s>> /\ Wrote(TRUE)
                BY <3>2 DEF SentOne
            <4>2. /\ created + 1 \in Written' /\ rows'[created + 1].mine = TRUE
                  /\ rows'[created + 1].content = 0 /\ ~rows'[created + 1].gone
                BY <4>1, WroteGrows
            <4>3. Len(a.got) = 1 /\ a.got[1] = s
                BY <4>1
            <4>4. s.id = created + 1 /\ s.mine = TRUE /\ ~s.read /\ s.content = 0
                BY DEF NewShown
            <4>. HIDE DEF s
            <4>5. SentOK(a.got)' /\ a.op = "send"
                BY <3>2, <4>2, <4>3, <4>4 DEF SentOK, OfTable, SentOne
            <4>. QED
                BY <4>1, <4>5 DEF AnswerOK
        <3>3. CASE Changed(up[1], a)
            <4>1. /\ a.to \in Exist
                  /\ \/ a.type = "message_altered" /\ AlteredRow(a.to)
                     \/ a.type = "message_deleted" /\ DeletedRow(a.to)
                     \/ a.type = "marked_as_read"
                BY <3>3 DEF Changed
            <4>2. a.to \in Written
                BY <4>1, ExistIsOfIds
            <4>. QED
                BY <4>1, <4>2, ChangeGrows DEF AnswerOK
        <3>4. CASE Refused(up[1], a)
            BY <3>4 DEF Refused, AnswerOK
        <3>. QED
            BY <2>1, <3>1, <3>2, <3>3, <3>4
    <2>3. \A i \in DOMAIN down' : (i \in DOMAIN down /\ down'[i] = down[i]) \/ down'[i] = a
        BY <2>1 DEF Queued
    <2>. QED
        BY <2>2, <2>3, AnswersPersist DEF DownInv
<1>2. CASE ~ServeStep
    <2>1. down' = down \/ Shifted(down, down')
        BY <1>2, RequestsAre DEF NewRequest
    <2>2. \A i \in DOMAIN down' : \E j \in DOMAIN down : down'[i] = down[j]
        BY <2>1 DEF Shifted
    <2>. QED
        BY <2>2, AnswersPersist DEF DownInv
<1>. QED
    BY <1>1, <1>2

\* What is in the table was there, or it is the newest message.
LEMMA TableSteps ==
    ASSUME TypeOK, Step
    PROVE  /\ \A n \in Exist' : n \in Exist \/ (n = created + 1 /\ n \notin Written)
           /\ \A n \in Written' : n \in Written \/ (n = created + 1 /\ n \notin Written)
           /\ \A m \in Written : m < created + 1
<1>1. \A m \in Written : m < created + 1
    <2>1. \A m \in Written : m \in Nat /\ m <= created
        BY ExistIsOfIds DEF Written
    <2>. QED
        BY <2>1, ExistIsOfIds
<1>2. CASE \E mine \in BOOLEAN : Wrote(mine)
    <2>1. /\ created + 1 \notin Written /\ Written' = Written \cup {created + 1}
          /\ Exist' = Exist \cup {created + 1}
        BY <1>2, WroteGrows
    <2>. QED
        BY <1>1, <2>1
<1>3. CASE Exist' \subseteq Exist /\ Written' = Written
    BY <1>1, <1>3
<1>4. CASE CompanionStep
    <2>1. \/ Wrote(FALSE)
          \/ Exist' \subseteq Exist /\ Written' = Written
        BY <1>4, ChangeGrows DEF CompanionStep
    <2>. QED
        BY <1>2, <1>3, <2>1
<1>5. CASE ServeStep
    <2>1. PICK a : Paged(up[1], a) \/ SentOne(up[1], a) \/ Changed(up[1], a)
                   \/ Refused(up[1], a)
        BY <1>5 DEF ServeStep
    <2>2. CASE Paged(up[1], a) \/ Refused(up[1], a)
        BY <1>3, <2>2, SameGrows DEF Paged, Refused
    <2>3. CASE SentOne(up[1], a)
        BY <1>2, <2>3 DEF SentOne
    <2>4. CASE Changed(up[1], a)
        <3>1. Exist' \subseteq Exist /\ Written' = Written
            BY <2>4, ChangeGrows DEF Changed
        <3>. QED
            BY <1>3, <3>1
    <2>. QED
        BY <2>1, <2>2, <2>3, <2>4
<1>. QED
    BY <1>3, <1>4, <1>5, StepGrows

LEMMA EventPersists ==
    ASSUME TypeOK, Step, NEW e, EventOK(e)
    PROVE  EventOK(e)'
<1>1. Grows /\ e.id \in Written
    BY StepGrows DEF EventOK
<1>2. ASSUME e.type = "message_read", ~e.mine, NEW n \in Exist', rows'[n].mine, n <= e.id
      PROVE  rows'[n].read
    <2>1. n \in Exist
        <3>1. e.id < created + 1 /\ e.id \in Nat /\ created \in Nat
            BY <1>1, TableSteps, ExistIsOfIds
        <3>2. n # created + 1
            BY <1>2, <3>1
        <3>. QED
            BY <1>2, <3>2, TableSteps
    <2>2. n \in Written /\ rows'[n].mine = rows[n].mine
        BY <1>1, <2>1, ExistIsOfIds DEF Grows
    <2>. QED
        BY <1>1, <1>2, <2>1, <2>2 DEF EventOK, Grows
<1>. QED
    BY <1>1, <1>2 DEF EventOK, Grows

\* The events after a step: old ones, and a new one of the table as it is.
LEMMA EventsAre ==
    ASSUME TypeOK, Step
    PROVE  \/ pushes' = pushes
           \/ ArriveStep /\ Shifted(pushes, pushes')
           \/ \E e : /\ Queued(pushes, pushes', e) /\ EventOK(e)'
                     /\ CompanionStep \/ ServeStep
<1>1. CASE CompanionStep
    <2>1. PICK e \in Events :
             /\ Queued(pushes, pushes', e) /\ ~e.mine
             /\ \/ e.type = "new_message" /\ Wrote(FALSE) /\ e.id = created + 1
                \/ /\ e.type = "message_read" /\ e.id \in Exist /\ rows[e.id].mine
                   /\ MarkedRead(TRUE, e.id)
                \/ /\ e.type = "message_altered" /\ e.id \in Exist /\ ~rows[e.id].mine
                   /\ AlteredRow(e.id)
                \/ /\ e.type = "message_deleted" /\ e.id \in Exist /\ ~rows[e.id].mine
                   /\ DeletedRow(e.id)
        BY <1>1 DEF CompanionStep
    <2>2. Exist \subseteq Written
        BY ExistIsOfIds
    <2>3. CASE e.type = "new_message" /\ Wrote(FALSE) /\ e.id = created + 1
        BY <2>3, WroteGrows, <2>1, <1>1 DEF EventOK
    <2>4. CASE e.type = "message_read" /\ e.id \in Exist /\ rows[e.id].mine /\ MarkedRead(TRUE, e.id)
        <3>1. /\ Grows /\ Written' = Written /\ Exist' = Exist
              /\ \A n \in Exist : rows[n].mine = TRUE /\ n <= e.id => rows'[n].read
            BY <2>4, ChangeGrows
        <3>2. \A n \in Exist : rows'[n].mine = rows[n].mine /\ rows[n].mine \in BOOLEAN
            BY <2>2, <3>1, RowsAre, ExistIsOfIds DEF Grows
        <3>3. EventOK(e)'
            BY <2>2, <2>4, <3>1, <3>2 DEF EventOK
        <3>. QED
            BY <1>1, <2>1, <3>3
    <2>5. CASE e.type = "message_altered" /\ e.id \in Exist /\ AlteredRow(e.id)
        BY <1>1, <2>1, <2>2, <2>5, ChangeGrows DEF EventOK
    <2>6. CASE e.type = "message_deleted" /\ e.id \in Exist /\ DeletedRow(e.id)
        BY <1>1, <2>1, <2>2, <2>6, ChangeGrows DEF EventOK
    <2>. QED
        BY <2>1, <2>3, <2>4, <2>5, <2>6
<1>2. CASE ServeStep
    <2>1. PICK a : Paged(up[1], a) \/ SentOne(up[1], a) \/ Changed(up[1], a)
                   \/ Refused(up[1], a)
        BY <1>2 DEF ServeStep
    <2>2. CASE Paged(up[1], a) \/ SentOne(up[1], a) \/ Refused(up[1], a)
        BY <2>2 DEF Paged, SentOne, Refused
    <2>3. CASE Changed(up[1], a)
        <3>1. PICK e \in Events :
                 /\ Queued(pushes, pushes', e) /\ e.id \in Exist /\ e.mine
                 /\ \/ e.type = "message_altered" /\ AlteredRow(e.id)
                    \/ e.type = "message_deleted" /\ DeletedRow(e.id)
                    \/ e.type = "message_read" /\ MarkedRead(FALSE, e.id)
            BY <2>3 DEF Changed
        <3>2. e.id \in Written
            BY <3>1, ExistIsOfIds
        <3>3. EventOK(e)'
            BY <3>1, <3>2, ChangeGrows DEF EventOK
        <3>. QED
            BY <1>2, <3>1, <3>3
    <2>. QED
        BY <2>1, <2>2, <2>3
<1>3. CASE ArriveStep
    BY <1>3 DEF ArriveStep
<1>4. CASE AnswerStep \/ AskStep \/ LoadStep \/ DecryptStep \/ SendStep \/ RequestStep
           \/ UNCHANGED vars
    BY <1>4 DEF AnswerStep, AskStep, LoadStep, DecryptStep, SendStep, RequestStep, Requested,
       Elsewhere, vars
<1>. QED
    BY <1>1, <1>2, <1>3, <1>4 DEF Step

\* The events that are being decrypted were, or have just arrived.
LEMMA DecryptingAre ==
    ASSUME TypeOK, Step, NEW e \in decrypting'
    PROVE  e \in decrypting \/ (ArriveStep /\ e = pushes[1] /\ 1 \in DOMAIN pushes)
<1>1. CASE ArriveStep
    BY <1>1 DEF ArriveStep, ArrivesAs, Shifted
<1>2. CASE DecryptStep
    BY <1>2 DEF DecryptStep
<1>3. CASE CompanionStep \/ ServeStep \/ AnswerStep \/ AskStep \/ LoadStep \/ SendStep
           \/ RequestStep \/ UNCHANGED vars
    BY <1>3 DEF CompanionStep, ServeStep, AnswerStep, AskStep, LoadStep, SendStep, RequestStep,
       Requested, Elsewhere, Rest, Window, vars
<1>. QED
    BY <1>1, <1>2, <1>3 DEF Step

LEMMA PushKept ==
    ASSUME TypeOK, PushInv, Step
    PROVE  PushInv'
<1>1. \A e : EventOK(e) => EventOK(e)'
    BY EventPersists
<1>2. (\A i \in DOMAIN pushes : EventOK(pushes[i]))'
    <2>1. CASE pushes' = pushes
        BY <1>1, <2>1 DEF PushInv
    <2>2. CASE Shifted(pushes, pushes')
        <3>1. \A i \in DOMAIN pushes' : \E j \in DOMAIN pushes : pushes'[i] = pushes[j]
            BY <2>2 DEF Shifted
        <3>. QED
            BY <1>1, <3>1 DEF PushInv
    <2>3. ASSUME NEW e, Queued(pushes, pushes', e), EventOK(e)'
          PROVE  (\A i \in DOMAIN pushes : EventOK(pushes[i]))'
        <3>1. \A i \in DOMAIN pushes' :
                 (i \in DOMAIN pushes /\ pushes'[i] = pushes[i]) \/ pushes'[i] = e
            BY <2>3 DEF Queued
        <3>. QED
            BY <1>1, <2>3, <3>1 DEF PushInv
    <2>. QED
        BY <2>1, <2>2, <2>3, EventsAre
<1>3. (\A e \in decrypting : EventOK(e))'
    <2>1. \A e \in decrypting' : EventOK(e)
        BY DecryptingAre DEF PushInv
    <2>. QED
        BY <1>1, <2>1
<1>. QED
    BY <1>2, <1>3 DEF PushInv

-----------------------------------------------------------------------------
(* What the list shows, or is to show, is of the table.                    *)

\* How the list changes.
Keeps == Drawn /\ (sending' = sending \/ \A k \in DOMAIN view' : view'[k].id # Temp)
Confirming == AnswerStep /\ IsSent(1) /\ Confirms(down[1].got[1]) /\ ~sending'
Adding(e) ==
    /\ DecryptStep /\ e \in decrypting /\ e.type = "new_message"
    /\ ~InView(e.id) /\ Queued(view, view', AsSent(e.id))
    /\ UNCHANGED <<rows, created, up, down, pushes, call, sending, raced, lost, echoed>>
Joining(p) ==
    /\ LoadStep /\ Decrypts(p) /\ call'[p].step = "done"
    /\ \A q \in Pages : q # p => call'[q] = call[q]
    /\ Kept(p) \in Seq(Shown) /\ call[p].got \in Seq(Shown)
    /\ Joined(call[p].got, Kept(p), view')
    /\ hasMore' = ~call[p].end
    /\ UNCHANGED <<rows, created, up, down, pushes, sending, decrypting, echoed, raced, lost>>

LEMMA ViewSteps ==
    ASSUME Step
    PROVE  \/ Keeps \/ Confirming
           \/ \E e \in decrypting : Adding(e)
           \/ SendStep
           \/ \E p \in Pages : Joining(p)
<1>1. CASE AnswerStep
    <2>1. CASE down[1].type = "message_sent"
        <3>1. 1 \in DOMAIN down
            BY <1>1 DEF AnswerStep, Shifted
        <3>. QED
            BY <1>1, <2>1, <3>1 DEF AnswerStep, SettledOps, Confirming, IsSent
    <2>2. CASE down[1].type # "message_sent"
        <3>1. \/ view' = view /\ sending' = sending
              \/ Thinned({Temp}, view')
              \/ Alters(editing) /\ sending' = sending
              \/ Thinned({deleting}, view') /\ sending' = sending
            BY <1>1, <2>2 DEF AnswerStep, SettledOps
        <3>2. Thinned({Temp}, view') => \A k \in DOMAIN view' : view'[k].id # Temp
            BY DEF Thinned
        <3>. QED
            BY <3>1, <3>2, DrawnLists DEF Keeps
    <2>. QED
        BY <2>1, <2>2
<1>2. CASE ArriveStep
    <2>1. /\ sending' = sending
          /\ \/ view' = view
             \/ \E ids : Thinned(ids, view')
             \/ \E m : Alters(m)
             \/ \E e : Marks(e)
        BY <1>2 DEF ArriveStep, ArrivesAs
    <2>. QED
        BY <2>1, DrawnLists DEF Keeps
<1>3. CASE AskStep
    <2>1. sending' = sending /\ (view' = view \/ view' = <<>>)
        BY <1>3 DEF AskStep, Elsewhere
    <2>. QED
        BY <2>1, DrawnLists DEF Keeps
<1>4. CASE LoadStep
    BY <1>4 DEF LoadStep, Joining, Decrypts
<1>5. CASE DecryptStep
    <2>1. PICK e \in decrypting :
        /\ \/ e.type = "message_altered" /\ Alters(e.id)
           \/ e.type = "new_message" /\ InView(e.id) /\ view' = view
           \/ e.type = "new_message" /\ ~InView(e.id) /\ Queued(view, view', AsSent(e.id))
        /\ UNCHANGED <<rows, created, up, down, pushes, call, sending, raced, lost, echoed>>
        BY <1>5 DEF DecryptStep
    <2>2. (view' = view \/ Alters(e.id)) => Keeps
        BY <2>1, DrawnLists DEF Keeps
    <2>. QED
        BY <1>5, <2>1, <2>2 DEF Adding
<1>6. CASE RequestStep \/ UNCHANGED vars \/ CompanionStep \/ ServeStep
    <2>1. view' = view /\ sending' = sending
        BY <1>6 DEF RequestStep, Requested, vars, CompanionStep, Rest, ServeStep, Window, list,
           ops
    <2>. QED
        BY <2>1, DrawnLists DEF Keeps
<1>. QED
    BY <1>1, <1>2, <1>3, <1>4, <1>5, <1>6 DEF Step

\* How a call changes.
LEMMA CallSteps ==
    ASSUME Step, NEW p \in Pages
    PROVE  \/ call'[p] = call[p]
           \/ AskStep /\ call[p].step = "new" /\ call'[p].step = "waiting"
           \/ /\ AnswerStep /\ IsPage(1) /\ Waits(p) /\ call'[p].step = "decrypting"
              /\ call'[p].more = call[p].more
              /\ call'[p].got = down[1].got /\ call'[p].end = down[1].end
           \/ /\ AnswerStep /\ down[1].type = "error" /\ Waits(p) /\ call'[p].step = "done"
           \/ LoadStep /\ Decrypts(p) /\ call'[p].step = "done"
<1>1. CASE AnswerStep
    BY <1>1 DEF AnswerStep, SettledCalls, Waits, IsPage, Shifted
<1>2. CASE AskStep
    BY <1>2 DEF AskStep, Asked
<1>3. CASE LoadStep
    BY <1>3 DEF LoadStep, Decrypts
<1>4. CASE ArriveStep \/ DecryptStep \/ SendStep \/ RequestStep \/ UNCHANGED vars
           \/ CompanionStep \/ ServeStep
    BY <1>4 DEF ArriveStep, DecryptStep, SendStep, RequestStep, Requested, vars,
       CompanionStep, Rest, ServeStep, Window
<1>. QED
    BY <1>1, <1>2, <1>3, <1>4 DEF Step

LEMMA CallKept ==
    ASSUME TypeOK, DownInv, CallInv, Step
    PROVE  CallInv'
<1>1. \A got : PageOK(got) => PageOK(got)'
    BY StepGrows, Persist
<1>2. ASSUME NEW p \in Pages, call'[p].step = "decrypting"
      PROVE  PageOK(call'[p].got)
    <2>1. CASE call'[p] = call[p]
        BY <1>2, <2>1 DEF CallInv, Decrypts
    <2>2. CASE IsPage(1) /\ call'[p].got = down[1].got
        BY <2>2 DEF DownInv, IsPage, AnswerOK
    <2>. QED
        BY <1>2, <2>1, <2>2, CallSteps
<1>. QED
    BY <1>1, <1>2 DEF CallInv, Decrypts

LEMMA ViewKept ==
    ASSUME TypeOK, DownInv, PushInv, CallInv, ViewInv, Step
    PROVE  ViewInv'
<1>. DEFINE Good(s) == IF s.id = Temp THEN s.mine ELSE OfTable(s)
<1>1. Grows
    BY StepGrows
<1>2. /\ \A k \in DOMAIN view : Good(view[k])
      /\ \A j, k \in DOMAIN view : view[j].id = Temp /\ j < k => ~view[k].mine
      /\ \A k \in DOMAIN view : view[k].id = Temp => sending
    BY DEF ViewInv
<1>3. \A s : Good(s) => Good(s)'
    BY <1>1, Persist
<1>4. ASSUME NEW s, OfTable(s)
      PROVE  Good(s) /\ s.id # Temp
    BY <1>4, ExistIsOfIds, SentinelAssumption DEF OfTable
<1>5. ASSUME \A k \in DOMAIN view' : Good(view'[k]),
             \A j, k \in DOMAIN view' : view'[j].id = Temp /\ j < k => ~view'[k].mine,
             \A k \in DOMAIN view' : view'[k].id = Temp => sending'
      PROVE  ViewInv'
    BY <1>3, <1>5 DEF ViewInv
<1>6. CASE Keeps
    <2>1. PICK place \in [DOMAIN view' -> DOMAIN view] :
             /\ \A k \in DOMAIN view' :
                   view'[k].id = view[place[k]].id /\ view'[k].mine = view[place[k]].mine
             /\ \A j, k \in DOMAIN view' : j < k => place[j] < place[k]
        BY <1>6 DEF Keeps, Drawn
    <2>2. \A k \in DOMAIN view' : Good(view'[k])
        BY <1>2, <2>1 DEF OfTable
    <2>3. \A j, k \in DOMAIN view' : view'[j].id = Temp /\ j < k => ~view'[k].mine
        BY <1>2, <2>1
    <2>4. \A k \in DOMAIN view' : view'[k].id = Temp => sending'
        BY <1>2, <1>6, <2>1 DEF Keeps
    <2>. QED
        BY <1>5, <2>2, <2>3, <2>4
<1>7. CASE Confirming
    <2>. DEFINE s == down[1].got[1]
    <2>1. Confirms(s) /\ OfTable(s)
        BY <1>7 DEF Confirming, DownInv, AnswerOK, SentOK, IsSent
    <2>. HIDE DEF s
    <2>2. Good(s) /\ s.id # Temp
        BY <1>4, <2>1
    <2>3. \A k \in DOMAIN view' : Good(view'[k]) /\ view'[k].id # Temp
        BY <1>2, <2>1, <2>2 DEF Confirms, OfTable
    <2>. QED
        BY <1>5, <2>3
<1>8. ASSUME NEW e \in decrypting, Adding(e)
      PROVE  ViewInv'
    <2>. DEFINE s == AsSent(e.id)
    <2>1. Queued(view, view', s) /\ sending' = sending
        BY <1>8 DEF Adding
    <2>2. OfTable(s) /\ ~s.mine
        <3>1. EventOK(e) /\ e.type = "new_message" /\ e.id \in Ids
            BY <1>8, ExistIsOfIds DEF PushInv, Adding, EventOK
        <3>. QED
            BY <3>1, RowsAre DEF AsSent, OfTable, EventOK
    <2>. HIDE DEF s
    <2>3. Good(s) /\ s.id # Temp
        BY <1>4, <2>2
    <2>4. \A k \in DOMAIN view' : view'[k] = s \/ (k \in DOMAIN view /\ view'[k] = view[k])
        BY <2>1 DEF Queued
    <2>5. \A k \in DOMAIN view' : Good(view'[k])
        BY <1>2, <2>3, <2>4
    <2>6. \A j, k \in DOMAIN view' : view'[j].id = Temp /\ j < k => ~view'[k].mine
        BY <1>2, <2>2, <2>3, <2>4
    <2>. QED
        BY <1>2, <1>5, <2>1, <2>3, <2>4, <2>5, <2>6
<1>9. CASE SendStep
    <2>1. Queued(view, view', TempShown) /\ ~sending /\ sending'
        BY <1>9 DEF SendStep
    <2>2. TempShown.id = Temp /\ TempShown.mine
        BY DEF TempShown
    <2>3. \A k \in DOMAIN view : view[k].id # Temp
        BY <1>2, <2>1
    <2>4. Good(TempShown)
        BY <2>2
    <2>5. \A k \in DOMAIN view' : Good(view'[k])
        BY <1>2, <2>1, <2>4 DEF Queued
    <2>6. ASSUME NEW j \in DOMAIN view', NEW k \in DOMAIN view', view'[j].id = Temp, j < k
          PROVE  FALSE
        <3>1. PICK last \in DOMAIN view' :
                 /\ last = Len(view) + 1
                 /\ \A i \in DOMAIN view' : i \in DOMAIN view \/ i = last
                 /\ \A i \in DOMAIN view : i < last /\ view'[i] = view[i]
            BY <2>1 DEF Queued
        <3>2. j = last
            BY <2>3, <2>6, <3>1
        <3>3. last \in Nat /\ \A i \in DOMAIN view : i \in Nat
            BY <3>1, SeqOf DEF TypeOK
        <3>. QED
            BY <2>6, <3>1, <3>2, <3>3
    <2>. QED
        BY <1>5, <2>1, <2>5, <2>6
<1>10. ASSUME NEW p \in Pages, Joining(p)
       PROVE  ViewInv'
    <2>. DEFINE got == call[p].got
                kept == Kept(p)
                g == Len(got)
                n == Len(kept)
    <2>1. /\ Joined(got, kept, view') /\ sending' = sending
          /\ kept \in Seq(Shown) /\ got \in Seq(Shown)
        BY <1>10 DEF Joining
    <2>2. PageOK(got)
        BY <1>10 DEF CallInv, Joining
    <2>3. kept = view \/ DOMAIN kept = {}
        BY DEF Kept
    <2>4. g \in Nat /\ n \in Nat
        BY <2>1, SeqOf
    <2>. HIDE DEF got, kept, g, n
    <2>5. /\ DOMAIN view' = 1 .. g + n
          /\ \A k \in 1 .. g + n :
                IF k <= g THEN \E a \in DOMAIN got : view'[k] = got[a]
                ELSE k - g \in DOMAIN kept /\ view'[k] = kept[k - g]
        BY <2>1, <2>4 DEF Joined, g, n
    <2>6. \A a \in DOMAIN got : Good(got[a]) /\ got[a].id # Temp
        BY <1>4, <2>2 DEF PageOK
    <2>7. \A i \in DOMAIN kept : i \in DOMAIN view /\ kept[i] = view[i]
        BY <2>3
    <2>8. \A k \in DOMAIN view' : Good(view'[k]) /\ (view'[k].id = Temp => sending)
        BY <1>2, <2>5, <2>6, <2>7
    <2>9. ASSUME NEW j \in DOMAIN view', NEW k \in DOMAIN view', view'[j].id = Temp, j < k
          PROVE  ~view'[k].mine
        <3>1. ~(j <= g) /\ ~(k <= g) /\ j - g < k - g
            BY <2>4, <2>5, <2>6, <2>9
        <3>2. /\ j - g \in DOMAIN view /\ view'[j] = view[j - g]
              /\ k - g \in DOMAIN view /\ view'[k] = view[k - g]
            BY <2>5, <2>7, <3>1
        <3>. QED
            BY <1>2, <2>9, <3>1, <3>2
    <2>. QED
        BY <1>5, <2>1, <2>8, <2>9
<1>. QED
    BY <1>6, <1>7, <1>8, <1>9, <1>10, ViewSteps

\* Each message of the joined list is of the page, before what was there.
LEMMA JoinedAre ==
    ASSUME TypeOK, NEW p \in Pages, Joining(p)
    PROVE  LET got == call[p].got IN
           /\ \A k \in DOMAIN view' :
                 \/ \E a \in DOMAIN got : view'[k] = got[a]
                 \/ call[p].more /\ \E i \in DOMAIN view : view'[k] = view[i]
           /\ \A j, k \in DOMAIN view' : j < k =>
                 \/ \E a, b \in DOMAIN got : b < a /\ view'[j] = got[a] /\ view'[k] = got[b]
                 \/ call[p].more /\ \E a \in DOMAIN got, i \in DOMAIN view :
                                       view'[j] = got[a] /\ view'[k] = view[i]
                 \/ call[p].more /\ \E i, l \in DOMAIN view :
                                       i < l /\ view'[j] = view[i] /\ view'[k] = view[l]
           /\ \A a \in DOMAIN got : \E k \in DOMAIN view' : view'[k] = got[a]
           /\ call[p].more => \A i \in DOMAIN view : \E k \in DOMAIN view' : view'[k] = view[i]
<1>. DEFINE got == call[p].got
            kept == Kept(p)
            g == Len(got)
            n == Len(kept)
<1>1. /\ Joined(got, kept, view')
      /\ kept \in Seq(Shown) /\ got \in Seq(Shown)
    BY DEF Joining
<1>2. /\ call[p].more => kept = view
      /\ ~call[p].more => DOMAIN kept = {}
    BY DEF Kept
<1>3. g \in Nat /\ n \in Nat /\ DOMAIN got = 1 .. g
    BY <1>1, SeqOf
<1>. HIDE DEF kept, g, n, got
<1>4. /\ DOMAIN view' = 1 .. g + n
      /\ \A k \in 1 .. g + n :
            IF k <= g THEN g + 1 - k \in DOMAIN got /\ view'[k] = got[g + 1 - k]
            ELSE k - g \in DOMAIN kept /\ view'[k] = kept[k - g]
      /\ \A a \in DOMAIN got : \E k \in DOMAIN view' : view'[k] = got[a]
      /\ \A i \in DOMAIN kept : \E k \in DOMAIN view' : view'[k] = kept[i]
    BY <1>1 DEF Joined, g, n
<1>5. \A i \in DOMAIN kept : call[p].more /\ i \in DOMAIN view /\ kept[i] = view[i]
    BY <1>2
<1>6. ASSUME NEW k \in DOMAIN view'
      PROVE  \/ \E a \in DOMAIN got : view'[k] = got[a]
             \/ call[p].more /\ \E i \in DOMAIN view : view'[k] = view[i]
    BY <1>4, <1>5
<1>7. ASSUME NEW j \in DOMAIN view', NEW k \in DOMAIN view', j < k
      PROVE  \/ \E a, b \in DOMAIN got : b < a /\ view'[j] = got[a] /\ view'[k] = got[b]
             \/ call[p].more /\ \E a \in DOMAIN got, i \in DOMAIN view :
                                   view'[j] = got[a] /\ view'[k] = view[i]
             \/ call[p].more /\ \E i, l \in DOMAIN view :
                                   i < l /\ view'[j] = view[i] /\ view'[k] = view[l]
    <2>1. CASE j <= g /\ k <= g
        <3>1. g + 1 - k < g + 1 - j
            BY <1>3, <1>4, <1>7
        <3>. QED
            BY <1>4, <2>1, <3>1
    <2>2. CASE j <= g /\ ~(k <= g)
        BY <1>4, <1>5, <2>2
    <2>3. CASE ~(j <= g)
        <3>1. ~(k <= g) /\ j - g < k - g
            BY <1>3, <1>4, <1>7, <2>3
        <3>2. /\ j - g \in DOMAIN kept /\ view'[j] = kept[j - g]
              /\ k - g \in DOMAIN kept /\ view'[k] = kept[k - g]
            BY <1>4, <2>3, <3>1
        <3>. QED
            BY <1>5, <3>1, <3>2
    <2>. QED
        BY <2>1, <2>2, <2>3
<1>8. call[p].more => \A i \in DOMAIN view : \E k \in DOMAIN view' : view'[k] = view[i]
    BY <1>2, <1>4
<1>. QED
    BY <1>4, <1>6, <1>7, <1>8 DEF got

-----------------------------------------------------------------------------
(* Answers come in the order of the messages.                              *)

LEMMA OwnStayUnder ==
    ASSUME TypeOK, ViewInv, PushInv, Step, NEW x, OwnUnder(x),
           AnswerStep => AnswerUnder(down[1], x)
    PROVE  OwnUnder(x)'
<1>1. \A k \in DOMAIN view' : view'[k].mine /\ view'[k].id # Temp => view'[k].id < x
    <2>1. CASE Keeps
        BY <2>1 DEF Keeps, Drawn, OwnUnder
    <2>2. CASE Confirming
        <3>1. down[1].got[1].id < x
            BY <2>2 DEF Confirming, IsSent, AnswerUnder
        <3>. QED
            BY <2>2, <3>1 DEF Confirming, Confirms, OwnUnder
    <2>3. ASSUME NEW e \in decrypting, Adding(e)
          PROVE  \A k \in DOMAIN view' :
                    view'[k].mine /\ view'[k].id # Temp => view'[k].id < x
        <3>1. \A k \in DOMAIN view' : ~view'[k].mine \/ (k \in DOMAIN view /\ view'[k] = view[k])
            BY <2>3 DEF Adding, Queued, AsSent
        <3>. QED
            BY <3>1 DEF OwnUnder
    <2>4. CASE SendStep
        <3>1. \A k \in DOMAIN view' : view'[k].id = Temp \/ (k \in DOMAIN view /\ view'[k] = view[k])
            BY <2>4 DEF SendStep, Queued, TempShown
        <3>. QED
            BY <3>1 DEF OwnUnder
    <2>5. ASSUME NEW p \in Pages, Joining(p)
          PROVE  \A k \in DOMAIN view' :
                    view'[k].mine /\ view'[k].id # Temp => view'[k].id < x
        <3>1. \A k \in DOMAIN view' :
                 \/ \E a \in DOMAIN call[p].got : view'[k] = call[p].got[a]
                 \/ \E i \in DOMAIN view : view'[k] = view[i]
            BY <2>5, JoinedAre
        <3>. QED
            BY <2>5, <3>1 DEF OwnUnder, Joining
    <2>. QED
        BY <2>1, <2>2, <2>3, <2>4, <2>5, ViewSteps
<1>2. ASSUME NEW p \in Pages, call'[p].step = "decrypting",
             NEW a \in DOMAIN call'[p].got, call'[p].got[a].mine
      PROVE  call'[p].got[a].id < x
    <2>1. CASE call'[p] = call[p]
        BY <1>2, <2>1 DEF OwnUnder, Decrypts
    <2>2. CASE AnswerStep /\ IsPage(1) /\ call'[p].got = down[1].got
        BY <1>2, <2>2 DEF AnswerUnder, IsPage
    <2>. QED
        BY <1>2, <2>1, <2>2, CallSteps
<1>. QED
    BY <1>1, <1>2 DEF OwnUnder, Decrypts

LEMMA DownSteps ==
    ASSUME TypeOK, Step
    PROVE  \/ ServeStep \/ AnswerStep
           \/ /\ down' = down
              /\ Written' = Written \/ (Wrote(FALSE) /\ CompanionStep)
<1>1. CASE CompanionStep
    <2>1. down' = down
        BY <1>1 DEF CompanionStep, Rest
    <2>2. Wrote(FALSE) \/ Written' = Written
        BY <1>1, ChangeGrows DEF CompanionStep
    <2>. QED
        BY <1>1, <2>1, <2>2
<1>2. CASE ~CompanionStep /\ ~ServeStep /\ ~AnswerStep
    <2>1. Written' = Written
        BY <1>2, StepGrows
    <2>2. down' = down
        BY <1>2 DEF Step, ArriveStep, AskStep, LoadStep, DecryptStep, SendStep, RequestStep,
           Requested, Elsewhere, vars
    <2>. QED
        BY <2>1, <2>2
<1>. QED
    BY <1>1, <1>2

LEMMA FifoKept ==
    ASSUME TypeOK, DownInv, PushInv, ViewInv, CallInv, FifoInv, Step
    PROVE  FifoInv'
<1>. DEFINE x == created + 1
<1>0. \A m \in Written : m < x
    BY TableSteps
<1>1. \A i \in DOMAIN down : /\ IsSent(i) => Sent(i) \in Written
                             /\ AnswerUnder(down[i], x)
    BY <1>0 DEF DownInv, AnswerOK, SentOK, PageOK, OfTable, IsSent, Sent, AnswerUnder
<1>2. OwnUnder(x)
    <2>1. \A k \in DOMAIN view : view[k].id # Temp => view[k].id < x
        BY <1>0 DEF ViewInv, OfTable
    <2>2. \A p \in Pages : Decrypts(p) => \A a \in DOMAIN call[p].got : call[p].got[a].id < x
        BY <1>0 DEF CallInv, PageOK, OfTable
    <2>. QED
        BY <2>1, <2>2 DEF OwnUnder
<1>3. \A m \in Written : rows'[m].mine = rows[m].mine
    BY StepGrows DEF Grows
<1>4. Len(down) \in Nat /\ \A i \in DOMAIN down : i \in Nat
    BY SeqOf DEF TypeOK
<1>. HIDE DEF x
<1>5. CASE ServeStep
    <2>1. PICK a \in Answers, last \in DOMAIN down' :
             /\ Paged(up[1], a) \/ SentOne(up[1], a) \/ Changed(up[1], a) \/ Refused(up[1], a)
             /\ last = Len(down) + 1 /\ down'[last] = a
             /\ \A i \in DOMAIN down' : i \in DOMAIN down \/ i = last
             /\ \A i \in DOMAIN down : i < last
             /\ \A i \in DOMAIN down : i \in DOMAIN down' /\ down'[i] = down[i]
        BY <1>5 DEF ServeStep, Queued
    <2>2. a.type = "message_sent" => SentOne(up[1], a) /\ a.got[1].id = x
        <3>1. a.type = "message_sent" => SentOne(up[1], a)
            BY <2>1 DEF Paged, Changed, Refused
        <3>2. SentOne(up[1], a) => a.got = <<NewShown(created + 1)>>
            BY DEF SentOne
        <3>3. SentOne(up[1], a) => a.got[1] = NewShown(created + 1)
            BY <3>2
        <3>4. NewShown(created + 1).id = x
            BY DEF NewShown, x
        <3>. QED
            BY <3>1, <3>3, <3>4
    <2>2a. last \in Nat
        BY <1>4, <2>1
    <2>3. ASSUME NEW i \in DOMAIN down', NEW k \in DOMAIN down', i < k,
                 down'[k].type = "message_sent"
          PROVE  AnswerUnder(down'[i], down'[k].got[1].id)
        <3>1. i \in DOMAIN down /\ down'[i] = down[i]
            BY <1>4, <2>1, <2>2a, <2>3
        <3>2. CASE k \in DOMAIN down
            BY <2>1, <2>3, <3>1, <3>2 DEF FifoInv, IsSent, Sent
        <3>3. CASE k = last
            BY <1>1, <2>1, <2>2, <2>3, <3>1, <3>3
        <3>. QED
            BY <2>1, <3>2, <3>3
    <2>4. UNCHANGED <<view, call>>
        BY <1>5 DEF ServeStep, Window, list
    <2>4a. ASSUME NEW n, OwnUnder(n)
           PROVE  OwnUnder(n)'
        BY <2>4, <2>4a DEF OwnUnder, Decrypts
    <2>5. ASSUME NEW k \in DOMAIN down', down'[k].type = "message_sent"
          PROVE  OwnUnder(down'[k].got[1].id)
        <3>1. CASE k \in DOMAIN down
            BY <2>1, <2>5, <3>1 DEF FifoInv, IsSent, Sent
        <3>2. CASE k = last
            BY <1>2, <2>1, <2>2, <2>5, <3>2
        <3>. QED
            BY <2>1, <3>1, <3>2
    <2>6. ASSUME NEW i \in DOMAIN down', down'[i].type = "message_sent",
                 \A k \in DOMAIN down' : k > i => down'[k].type # "message_sent",
                 NEW n \in Written', rows'[n].mine
          PROVE  n <= down'[i].got[1].id
        <3>1. CASE a.type = "message_sent"
            <4>1. i = last
                BY <1>4, <2>1, <2>2a, <2>6, <3>1
            <4>2. n \in Written \/ n = x
                BY <1>5, TableSteps DEF x
            <4>3. n \in Nat /\ x \in Nat
                BY <4>2, ExistIsOfIds DEF x
            <4>. QED
                BY <1>0, <2>1, <2>2, <3>1, <4>1, <4>2, <4>3
        <3>2. CASE a.type # "message_sent"
            <4>1. Written' = Written
                <5>1. Paged(up[1], a) \/ Changed(up[1], a) \/ Refused(up[1], a)
                    BY <2>1, <3>2 DEF SentOne
                <5>. QED
                    BY <5>1, SameGrows, ChangeGrows DEF Paged, Changed, Refused
            <4>2. i \in DOMAIN down /\ IsSent(i) /\ Sent(i) = down'[i].got[1].id
                BY <2>1, <2>6, <3>2 DEF IsSent, Sent
            <4>3. \A k \in DOMAIN down : k > i => ~IsSent(k)
                BY <2>1, <2>6 DEF IsSent
            <4>. QED
                BY <1>3, <2>6, <4>1, <4>2, <4>3 DEF FifoInv
        <3>. QED
            BY <3>1, <3>2
    <2>7. (\A i \in DOMAIN down : IsSent(i) => OwnUnder(Sent(i)))'
        BY <2>4a, <2>5 DEF IsSent, Sent
    <2>. QED
        BY <2>3, <2>6, <2>7 DEF FifoInv, IsSent, Sent, AnswerUnder
<1>6. CASE AnswerStep
    <2>1. /\ 1 \in DOMAIN down
          /\ \A i \in DOMAIN down' :
                i \in Nat /\ i + 1 \in DOMAIN down /\ i + 1 > 1 /\ down'[i] = down[i + 1]
          /\ \A i \in DOMAIN down : i = 1 \/ (i > 1 /\ i - 1 \in DOMAIN down' /\ down'[i - 1] = down[i])
        BY <1>6 DEF AnswerStep, Shifted
    <2>2. UNCHANGED <<rows, created>> /\ Written' = Written
        BY <1>6, SameGrows DEF AnswerStep
    <2>3. ASSUME NEW i \in DOMAIN down', NEW k \in DOMAIN down', i < k,
                 down'[k].type = "message_sent"
          PROVE  AnswerUnder(down'[i], down'[k].got[1].id)
        <3>1. /\ i \in Nat /\ k \in Nat
              /\ i + 1 \in DOMAIN down /\ k + 1 \in DOMAIN down
            BY <2>1
        <3>2. i + 1 < k + 1
            BY <2>3, <3>1
        <3>. QED
            BY <2>1, <2>3, <3>1, <3>2 DEF FifoInv, IsSent, Sent
    <2>4. ASSUME NEW k \in DOMAIN down', down'[k].type = "message_sent", NEW n,
                 n = down'[k].got[1].id
          PROVE  OwnUnder(n)'
        <3>1. k + 1 \in DOMAIN down /\ 1 < k + 1 /\ IsSent(k + 1) /\ n = Sent(k + 1)
            BY <2>1, <2>4 DEF IsSent, Sent
        <3>2. OwnUnder(n) /\ AnswerUnder(down[1], n)
            BY <2>1, <3>1 DEF FifoInv
        <3>. QED
            BY <3>2, OwnStayUnder
    <2>5. (\A i \in DOMAIN down : IsSent(i) => OwnUnder(Sent(i)))'
        BY <2>4 DEF IsSent, Sent
    <2>6. ASSUME NEW i \in DOMAIN down', down'[i].type = "message_sent",
                 \A k \in DOMAIN down' : k > i => down'[k].type # "message_sent",
                 NEW n \in Written', rows'[n].mine
          PROVE  n <= down'[i].got[1].id
        <3>1. i + 1 \in DOMAIN down /\ IsSent(i + 1) /\ Sent(i + 1) = down'[i].got[1].id
            BY <2>1, <2>6 DEF IsSent, Sent
        <3>2. ASSUME NEW k \in DOMAIN down, k > i + 1
              PROVE  ~IsSent(k)
            <4>. DEFINE l == k - 1
            <4>0. i \in Nat /\ k \in Nat
                BY <1>4, <2>1
            <4>1. l > i /\ k # 1
                BY <3>2, <4>0
            <4>2. l \in DOMAIN down' /\ down'[l] = down[k]
                BY <2>1, <4>1
            <4>. QED
                BY <2>6, <4>1, <4>2 DEF IsSent
        <3>. QED
            BY <2>2, <2>6, <3>1, <3>2 DEF FifoInv
    <2>. QED
        BY <2>3, <2>5, <2>6 DEF FifoInv, IsSent, Sent, AnswerUnder
<1>7. CASE ~ServeStep /\ ~AnswerStep
    <2>1. down' = down /\ (Written' = Written \/ Wrote(FALSE))
        BY <1>7, DownSteps
    <2>2. (\A i \in DOMAIN down : IsSent(i) => OwnUnder(Sent(i)))'
        <3>1. ASSUME NEW i \in DOMAIN down, IsSent(i), NEW n, n = Sent(i)
              PROVE  OwnUnder(n)'
            BY <1>7, <3>1, OwnStayUnder DEF FifoInv
        <3>. QED
            BY <2>1, <3>1 DEF IsSent, Sent
    <2>3. \A n \in Written' : rows'[n].mine => n \in Written /\ rows[n].mine
        BY <1>3, <2>1, WroteGrows
    <2>. QED
        BY <2>1, <2>2, <2>3 DEF FifoInv, IsSent, Sent, AnswerUnder
<1>. QED
    BY <1>5, <1>6, <1>7

-----------------------------------------------------------------------------
(* A send that waits is answered, and one page comes at a time.            *)

LEMMA HistoryGrows ==
    ASSUME Step
    PROVE  lost \subseteq lost' /\ raced \subseteq raced' /\ echoed \subseteq echoed'
<1>1. CASE CompanionStep
    BY <1>1 DEF CompanionStep, Rest, history
<1>2. CASE ServeStep
    BY <1>2 DEF ServeStep, Window, Paged, SentOne, Changed, Refused
<1>3. CASE AnswerStep
    BY <1>3 DEF AnswerStep, Answering
<1>4. CASE ArriveStep
    BY <1>4 DEF ArriveStep, Arriving, ArrivesAs
<1>5. CASE AskStep
    BY <1>5 DEF AskStep, Asked, Elsewhere
<1>6. CASE LoadStep \/ DecryptStep \/ SendStep \/ RequestStep \/ UNCHANGED vars
    BY <1>6 DEF LoadStep, DecryptStep, SendStep, RequestStep, Requested, vars
<1>. QED
    BY <1>1, <1>2, <1>3, <1>4, <1>5, <1>6 DEF Step

LEMMA TextKept ==
    ASSUME TypeOK, DownInv, CallInv, ViewInv, TextInv, Step
    PROVE  TextInv'
<1>. SUFFICES ASSUME NEW k \in DOMAIN view', view'[k].content = Other
              PROVE  "resent" \in lost'
    BY DEF TextInv
<1>1. lost \subseteq lost'
    BY HistoryGrows
<1>2. ASSUME NEW i \in DOMAIN view, view[i].content = view'[k].content
      PROVE  "resent" \in lost'
    BY <1>1, <1>2 DEF TextInv
<1>3. ASSUME NEW ids, Thinned(ids, view')
      PROVE  "resent" \in lost'
    BY <1>2, <1>3 DEF Thinned
<1>4. ASSUME NEW m, Alters(m)
      PROVE  "resent" \in lost'
    BY <1>2, <1>4 DEF Alters, Other
<1>5. ASSUME NEW s, Queued(view, view', s), s.content = 0
      PROVE  "resent" \in lost'
    BY <1>2, <1>5 DEF Queued, Other
<1>6. CASE AnswerStep
    <2>1. CASE down[1].type = "message_sent"
        <3>1. /\ Confirms(down[1].got[1]) /\ IsSent(1) /\ k \in DOMAIN view
            BY <1>6, <2>1 DEF AnswerStep, SettledOps, Shifted, IsSent, Confirms
        <3>2. CASE view[k].id = Temp
            <4>1. sending /\ down[1].got[1].content = 0
                BY <3>1, <3>2 DEF ViewInv, DownInv, AnswerOK, SentOK, IsSent
            <4>2. LaterSend
                BY <3>1, <3>2, <4>1 DEF Confirms, Other
            <4>. QED
                BY <1>6, <3>1, <4>1, <4>2 DEF AnswerStep, Answering
        <3>. QED
            BY <1>2, <3>1, <3>2 DEF Confirms
    <2>. QED
        BY <1>2, <1>3, <1>4, <1>6, <2>1 DEF AnswerStep, SettledOps
<1>7. CASE ArriveStep
    <2>1. ASSUME NEW e, Marks(e)
          PROVE  "resent" \in lost'
        BY <1>2, <2>1 DEF Marks
    <2>. QED
        BY <1>2, <1>3, <1>4, <1>7, <2>1 DEF ArriveStep, ArrivesAs
<1>8. CASE AskStep
    BY <1>2, <1>8 DEF AskStep, Elsewhere
<1>9. CASE LoadStep
    <2>1. PICK p \in Pages : Joining(p)
        BY <1>9 DEF LoadStep, Joining, Decrypts
    <2>2. \A a \in DOMAIN call[p].got : call[p].got[a].content # Other
        BY <2>1 DEF Joining, CallInv, PageOK, Other
    <2>. QED
        BY <1>2, <2>1, <2>2, JoinedAre
<1>10. CASE DecryptStep
    <2>1. \A e : AsSent(e).content = 0
        BY DEF AsSent
    <2>. QED
        BY <1>2, <1>4, <1>5, <1>10, <2>1 DEF DecryptStep
<1>11. CASE SendStep
    <2>1. TempShown.content = 0
        BY DEF TempShown
    <2>. QED
        BY <1>5, <1>11, <2>1 DEF SendStep
<1>12. CASE RequestStep \/ UNCHANGED vars \/ CompanionStep \/ ServeStep
    <2>1. view' = view
        BY <1>12 DEF RequestStep, Requested, vars, CompanionStep, Rest, ServeStep, Window, list
    <2>. QED
        BY <1>2, <2>1
<1>. QED
    BY <1>6, <1>7, <1>8, <1>9, <1>10, <1>11, <1>12 DEF Step

\* Steps that ask for no page.
NoAsk ==
    \/ CompanionStep \/ ServeStep \/ AnswerStep \/ ArriveStep
    \/ LoadStep \/ DecryptStep \/ SendStep \/ RequestStep \/ UNCHANGED vars

LEMMA FlightSteps ==
    ASSUME NoAsk
    PROVE  /\ InFlight' \subseteq InFlight
           /\ \A p \in Pages : Waits(p)' => Waits(p) /\ call'[p] = call[p]
<1>1. CASE AnswerStep
    BY <1>1 DEF AnswerStep, SettledCalls, InFlight, Waits
<1>2. CASE LoadStep
    BY <1>2 DEF LoadStep, InFlight, Waits
<1>3. CASE CompanionStep \/ ServeStep \/ ArriveStep \/ DecryptStep \/ SendStep
           \/ RequestStep \/ UNCHANGED vars
    BY <1>3 DEF CompanionStep, ServeStep, ArriveStep, DecryptStep, SendStep, RequestStep,
       Requested, Rest, Window, vars, InFlight, Waits
<1>. QED
    BY <1>1, <1>2, <1>3 DEF NoAsk

LEMMA SendKept ==
    ASSUME SendInv, Step
    PROVE  SendInv'
<1>1. CASE ServeStep
    <2>1. sending' = sending /\ Shifted(up, up')
        BY <1>1 DEF ServeStep, Window, ops
    <2>2. PICK a \in Answers, last \in DOMAIN down' :
             /\ Paged(up[1], a) \/ SentOne(up[1], a) \/ Changed(up[1], a) \/ Refused(up[1], a)
             /\ down'[last] = a
             /\ \A i \in DOMAIN down : i \in DOMAIN down' /\ down'[i] = down[i]
        BY <1>1 DEF ServeStep, Queued
    <2>3. CASE up[1].op = "send"
        <3>1. a.type \in {"message_sent", "error"}
            BY <2>2, <2>3 DEF Paged, SentOne, Changed, Refused
        <3>. QED
            BY <2>2, <3>1 DEF SendInv
    <2>4. CASE up[1].op # "send"
        <3>1. ASSUME NEW i \in DOMAIN up, up[i].op = "send"
              PROVE  \E j \in DOMAIN up' : up'[j].op = "send"
            BY <2>1, <2>4, <3>1 DEF Shifted
        <3>. QED
            BY <2>1, <2>2, <3>1 DEF SendInv
    <2>. QED
        BY <2>3, <2>4
<1>2. CASE AnswerStep
    <2>1. Shifted(down, down') /\ up' = up
        BY <1>2 DEF AnswerStep
    <2>2. sending' => sending /\ down[1].type \notin {"message_sent", "error"}
        BY <1>2 DEF AnswerStep, SettledOps
    <2>3. ASSUME sending', NEW i \in DOMAIN down, down[i].type \in {"message_sent", "error"}
          PROVE  \E j \in DOMAIN down' : down'[j].type \in {"message_sent", "error"}
        BY <2>1, <2>2, <2>3 DEF Shifted
    <2>. QED
        BY <2>1, <2>2, <2>3 DEF SendInv
<1>3. CASE SendStep
    <2>1. PICK last \in DOMAIN up' : up'[last] = [op |-> "send", id |-> None]
        BY <1>3 DEF SendStep, Queued
    <2>. QED
        BY <2>1 DEF SendInv
<1>4. ASSUME sending' = sending, down' = down,
             up' = up \/ \E r : Queued(up, up', r)
      PROVE  SendInv'
    BY <1>4 DEF SendInv, Queued
<1>5. CASE CompanionStep
    BY <1>4, <1>5 DEF CompanionStep, Rest, ops
<1>6. CASE ArriveStep
    BY <1>4, <1>6 DEF ArriveStep, ArrivesAs
<1>7. CASE AskStep
    BY <1>4, <1>7 DEF AskStep, Asked, Elsewhere
<1>8. CASE RequestStep
    BY <1>4, <1>8 DEF RequestStep, Requested
<1>9. CASE LoadStep \/ DecryptStep \/ UNCHANGED vars
    BY <1>4, <1>9 DEF LoadStep, DecryptStep, vars
<1>. QED
    BY <1>1, <1>2, <1>3, <1>5, <1>6, <1>7, <1>8, <1>9 DEF Step

LEMMA RacedKept ==
    ASSUME TypeOK, RacedInv, Step
    PROVE  RacedInv'
<1>1. raced \subseteq raced'
    BY HistoryGrows
<1>2. CASE AskStep
    BY <1>2 DEF AskStep, Asked, Elsewhere, RacedInv
<1>3. CASE NoAsk
    <2>1. InFlight' \subseteq InFlight
        BY <1>3, FlightSteps
    <2>2. ASSUME InFlight # {}, NEW e \in decrypting'
          PROVE  e.id \in raced'
        <3>1. CASE e \in decrypting
            BY <1>1, <2>2, <3>1 DEF RacedInv
        <3>2. CASE ArriveStep /\ e = pushes[1]
            BY <2>2, <3>2 DEF ArriveStep, Arriving
        <3>. QED
            BY <3>1, <3>2, DecryptingAre
    <2>. QED
        BY <2>1, <2>2 DEF RacedInv
<1>. QED
    BY <1>2, <1>3 DEF Step, NoAsk

LEMMA OverlapKept ==
    ASSUME TypeOK, OverlapInv, Step
    PROVE  OverlapInv'
<1>. SUFFICES ASSUME "overlap" \notin lost' PROVE OverlapInv'
    BY DEF OverlapInv
<1>1. "overlap" \notin lost
    BY HistoryGrows
<1>2. /\ \A i, j \in DOMAIN up : PageAsked(i) /\ PageAsked(j) => i = j
      /\ \A i, j \in DOMAIN down : IsPage(i) /\ IsPage(j) => i = j
      /\ \A i \in DOMAIN up, j \in DOMAIN down : ~(PageAsked(i) /\ IsPage(j))
      /\ \A p, q \in InFlight : p = q
      /\ \A p \in Pages : Decrypts(p) =>
            /\ \A i \in DOMAIN up : ~PageAsked(i)
            /\ \A i \in DOMAIN down : ~IsPage(i)
      /\ \A p \in Pages, i \in DOMAIN up :
            Waits(p) /\ PageAsked(i) => (call[p].more <=> up[i].id # None)
    BY <1>1 DEF OverlapInv
<1>3. CASE AskStep
    <2>1. PICK p \in Pages, cursor \in Ids \cup {None, Temp} :
             Asked(p, cursor) /\ UNCHANGED Elsewhere
        BY <1>3 DEF AskStep
    <2>2. InFlight = {} /\ (\A i \in DOMAIN up : up[i].op # "page")
          /\ \A i \in DOMAIN down : down[i].type # "messages"
        BY <2>1 DEF Asked, PageComes
    <2>3. /\ call'[p].step = "waiting" /\ (call'[p].more <=> cursor # None)
          /\ \A q \in Pages : q # p => call'[q] = call[q]
          /\ down' = down
        BY <2>1 DEF Asked, Elsewhere
    <2>4. \A q \in Pages : q # p => call'[q].step \notin {"waiting", "decrypting"}
        BY <2>2, <2>3 DEF InFlight
    <2>. DEFINE r == [op |-> "page", id |-> cursor]
    <2>5. Queued(up, up', r) /\ r.id = cursor
        BY <2>1 DEF Asked
    <2>. HIDE DEF r
    <2>6. PICK last \in DOMAIN up' :
             /\ up'[last] = r
             /\ \A i \in DOMAIN up' : i = last \/ up'[i].op # "page"
        BY <2>2, <2>5 DEF Queued
    <2>7. /\ \A i, j \in DOMAIN up' : up'[i].op = "page" /\ up'[j].op = "page" => i = j
          /\ \A i \in DOMAIN down' : down'[i].type # "messages"
          /\ \A q \in Pages : call'[q].step # "decrypting"
          /\ \A q \in Pages, i \in DOMAIN up' :
                call'[q].step = "waiting" /\ up'[i].op = "page" =>
                    (call'[q].more <=> up'[i].id # None)
        BY <2>2, <2>3, <2>4, <2>5, <2>6
    <2>8. \A q, s \in InFlight' : q = s
        BY <2>4 DEF InFlight
    <2>. QED
        BY <2>7, <2>8 DEF OverlapInv, PageAsked, IsPage, Waits, Decrypts
<1>4. CASE ServeStep
    <2>1. call' = call /\ Shifted(up, up') /\ InFlight' = InFlight
        BY <1>4 DEF ServeStep, Window, InFlight
    <2>2. PICK a \in Answers, last \in DOMAIN down' :
             /\ Paged(up[1], a) \/ SentOne(up[1], a) \/ Changed(up[1], a) \/ Refused(up[1], a)
             /\ down'[last] = a
             /\ \A i \in DOMAIN down' : i \in DOMAIN down \/ i = last
             /\ \A i \in DOMAIN down : i \in DOMAIN down' /\ down'[i] = down[i]
        BY <1>4 DEF ServeStep, Queued
    <2>3. a.type = "messages" => up[1].op = "page" /\ 1 \in DOMAIN up
        BY <2>1, <2>2 DEF Paged, SentOne, Changed, Refused, Shifted
    <2>4. \A i \in DOMAIN up' :
             i + 1 \in DOMAIN up /\ i + 1 # 1 /\ i \in Nat /\ up'[i] = up[i + 1]
        BY <2>1 DEF Shifted
    <2>5. \A i, j \in DOMAIN up' : up'[i].op = "page" /\ up'[j].op = "page" => i = j
        <3>. SUFFICES ASSUME NEW i \in DOMAIN up', NEW j \in DOMAIN up',
                             up'[i].op = "page", up'[j].op = "page"
                      PROVE  i = j
            OBVIOUS
        <3>1. PageAsked(i + 1) /\ PageAsked(j + 1)
            BY <2>4 DEF PageAsked
        <3>2. i + 1 = j + 1
            BY <1>2, <2>4, <3>1
        <3>. QED
            BY <2>4, <3>2
    <2>6. a.type = "messages" => /\ \A i \in DOMAIN up' : up'[i].op # "page"
                                 /\ \A i \in DOMAIN down : ~IsPage(i)
                                 /\ \A p \in Pages : ~Decrypts(p)
        <3>. SUFFICES ASSUME a.type = "messages"
                      PROVE  /\ \A i \in DOMAIN up' : up'[i].op # "page"
                             /\ \A i \in DOMAIN down : ~IsPage(i)
                             /\ \A p \in Pages : ~Decrypts(p)
            OBVIOUS
        <3>1. PageAsked(1) /\ 1 \in DOMAIN up
            BY <2>3 DEF PageAsked
        <3>2. \A i \in DOMAIN up' : up'[i].op # "page"
            BY <1>2, <2>4, <3>1 DEF PageAsked
        <3>. QED
            BY <1>2, <3>1, <3>2
    <2>7. \A i \in DOMAIN down' : down'[i].type = "messages" =>
             \/ IsPage(i) /\ i \in DOMAIN down
             \/ i = last /\ a.type = "messages"
        BY <2>2 DEF IsPage
    <2>8. \A i, j \in DOMAIN down' :
             down'[i].type = "messages" /\ down'[j].type = "messages" => i = j
        BY <1>2, <2>6, <2>7
    <2>9. \A i \in DOMAIN up', j \in DOMAIN down' :
             ~(up'[i].op = "page" /\ down'[j].type = "messages")
        BY <1>2, <2>4, <2>6, <2>7 DEF PageAsked
    <2>10. \A p \in Pages : Decrypts(p) =>
              /\ \A i \in DOMAIN up' : up'[i].op # "page"
              /\ \A i \in DOMAIN down' : down'[i].type # "messages"
        BY <1>2, <2>4, <2>6, <2>7 DEF PageAsked
    <2>11. \A p \in Pages, i \in DOMAIN up' :
              Waits(p) /\ up'[i].op = "page" => (call[p].more <=> up'[i].id # None)
        BY <1>2, <2>4 DEF PageAsked
    <2>. QED
        BY <1>2, <2>1, <2>5, <2>8, <2>9, <2>10, <2>11
        DEF OverlapInv, PageAsked, IsPage, Waits, Decrypts
<1>5. CASE AnswerStep
    <2>1. Shifted(down, down') /\ up' = up
        BY <1>5 DEF AnswerStep
    <2>2. /\ 1 \in DOMAIN down
          /\ \A i \in DOMAIN down' :
                i + 1 \in DOMAIN down /\ i + 1 # 1 /\ i \in Nat /\ down'[i] = down[i + 1]
        BY <2>1 DEF Shifted
    <2>3. InFlight' \subseteq InFlight
          /\ \A p \in Pages : Waits(p)' => Waits(p) /\ call'[p] = call[p]
        BY <1>5, FlightSteps DEF NoAsk
    <2>4. \A i, j \in DOMAIN down' :
             down'[i].type = "messages" /\ down'[j].type = "messages" => i = j
        <3>. SUFFICES ASSUME NEW i \in DOMAIN down', NEW j \in DOMAIN down',
                             down'[i].type = "messages", down'[j].type = "messages"
                      PROVE  i = j
            OBVIOUS
        <3>1. IsPage(i + 1) /\ IsPage(j + 1)
            BY <2>2 DEF IsPage
        <3>2. i + 1 = j + 1
            BY <1>2, <2>2, <3>1
        <3>. QED
            BY <2>2, <3>2
    <2>5. \A i \in DOMAIN up, j \in DOMAIN down' :
             ~(up[i].op = "page" /\ down'[j].type = "messages")
        BY <1>2, <2>2 DEF IsPage, PageAsked
    <2>6. ASSUME NEW p \in Pages, call'[p].step = "decrypting"
          PROVE  /\ \A i \in DOMAIN up : ~PageAsked(i)
                 /\ \A i \in DOMAIN down' : down'[i].type # "messages"
        <3>1. CASE Decrypts(p)
            BY <1>2, <2>2, <3>1 DEF IsPage
        <3>2. CASE down[1].type = "messages"
            <4>1. IsPage(1)
                BY <2>2, <3>2 DEF IsPage
            <4>. QED
                BY <1>2, <2>2, <4>1 DEF IsPage
        <3>3. Decrypts(p) \/ down[1].type = "messages"
            BY <1>5, <2>6 DEF AnswerStep, SettledCalls, Decrypts
        <3>. QED
            BY <3>1, <3>2, <3>3
    <2>7. \A p, q \in InFlight' : p = q
        BY <1>2, <2>3
    <2>8. \A p \in Pages, i \in DOMAIN up :
             Waits(p)' /\ PageAsked(i) => (call'[p].more <=> up[i].id # None)
        BY <1>2, <2>3
    <2>9. \A i \in DOMAIN down' : IsPage(i)' <=> down'[i].type = "messages"
        BY DEF IsPage
    <2>10. \A i \in DOMAIN up : PageAsked(i)' <=> PageAsked(i)
        BY <2>1 DEF PageAsked
    <2>11. \A p \in Pages : Decrypts(p)' <=> call'[p].step = "decrypting"
        BY DEF Decrypts
    <2>12. \A p \in Pages : Decrypts(p)' =>
              /\ \A i \in DOMAIN up' : ~PageAsked(i)'
              /\ \A i \in DOMAIN down' : ~IsPage(i)'
        BY <2>1, <2>6, <2>9, <2>10, <2>11
    <2>13. \A p \in Pages, i \in DOMAIN up' :
              Waits(p)' /\ PageAsked(i)' => (call'[p].more <=> up'[i].id # None)
        BY <2>1, <2>8, <2>10
    <2>14. \A i, j \in DOMAIN down' : IsPage(i)' /\ IsPage(j)' => i = j
        BY <2>4, <2>9
    <2>15. /\ \A i, j \in DOMAIN up' : PageAsked(i)' /\ PageAsked(j)' => i = j
           /\ \A i \in DOMAIN up', j \in DOMAIN down' : ~(PageAsked(i)' /\ IsPage(j)')
        BY <1>2, <2>1, <2>5, <2>9, <2>10 DEF PageAsked
    <2>. QED
        BY <2>7, <2>12, <2>13, <2>14, <2>15 DEF OverlapInv
<1>6. ASSUME down' = down, InFlight' \subseteq InFlight,
             \A p \in Pages : Waits(p)' => Waits(p) /\ call'[p] = call[p],
             \A p \in Pages : Decrypts(p)' => Decrypts(p),
             \A i \in DOMAIN up' :
                 up'[i].op = "page" => i \in DOMAIN up /\ up'[i] = up[i]
      PROVE  OverlapInv'
    <2>1. \A i \in DOMAIN up' : PageAsked(i)' => i \in DOMAIN up /\ PageAsked(i) /\ up'[i] = up[i]
        BY <1>6 DEF PageAsked
    <2>2. /\ \A i, j \in DOMAIN up' : PageAsked(i)' /\ PageAsked(j)' => i = j
          /\ \A i \in DOMAIN up', j \in DOMAIN down : ~(PageAsked(i)' /\ IsPage(j))
        BY <1>2, <2>1
    <2>3. \A p, q \in InFlight' : p = q
        BY <1>2, <1>6
    <2>4. \A p \in Pages : Decrypts(p)' =>
             /\ \A i \in DOMAIN up' : ~PageAsked(i)'
             /\ \A i \in DOMAIN down : ~IsPage(i)
        BY <1>2, <1>6, <2>1
    <2>5. \A p \in Pages, i \in DOMAIN up' :
             Waits(p)' /\ PageAsked(i)' => (call'[p].more <=> up'[i].id # None)
        BY <1>2, <1>6, <2>1
    <2>6. \A i \in DOMAIN down : IsPage(i)' <=> IsPage(i)
        BY <1>6 DEF IsPage
    <2>7. \A i, j \in DOMAIN down' : IsPage(i)' /\ IsPage(j)' => i = j
        BY <1>2, <1>6, <2>6
    <2>. QED
        BY <1>6, <2>2, <2>3, <2>4, <2>5, <2>6, <2>7 DEF OverlapInv
<1>7. CASE CompanionStep \/ ArriveStep \/ LoadStep \/ DecryptStep \/ UNCHANGED vars
    <2>1. down' = down /\ up' = up
        BY <1>7 DEF CompanionStep, ArriveStep, LoadStep, DecryptStep, Rest, vars
    <2>2. \A p \in Pages : Decrypts(p)' => Decrypts(p)
        BY <1>7 DEF CompanionStep, ArriveStep, LoadStep, DecryptStep, Rest, vars, Decrypts
    <2>. QED
        BY <1>6, <1>7, <2>1, <2>2, FlightSteps DEF NoAsk
<1>8. CASE SendStep \/ RequestStep
    <2>1. down' = down /\ call' = call
        BY <1>8 DEF SendStep, RequestStep, Requested
    <2>2. PICK r : Queued(up, up', r) /\ r.op # "page"
        <3>1. CASE SendStep
            <4>1. [op |-> "send", id |-> None].op # "page"
                OBVIOUS
            <4>. QED
                BY <3>1, <4>1 DEF SendStep
        <3>2. CASE RequestStep
            <4>1. PICK op \in {"edit", "delete", "mark"}, m \in Ids : Requested(op, m)
                BY <3>2 DEF RequestStep
            <4>2. [op |-> op, id |-> m].op # "page"
                OBVIOUS
            <4>. QED
                BY <4>1, <4>2 DEF Requested
        <3>. QED
            BY <1>8, <3>1, <3>2
    <2>3. \A i \in DOMAIN up' : up'[i].op = "page" => i \in DOMAIN up /\ up'[i] = up[i]
        BY <2>2 DEF Queued
    <2>. QED
        BY <1>6, <2>1, <2>3 DEF InFlight, Waits, Decrypts
<1>. QED
    BY <1>3, <1>4, <1>5, <1>7, <1>8 DEF Step

-----------------------------------------------------------------------------
(* What holds whatever was lost, in every state.                           *)

BaseInv ==
    /\ TypeOK /\ UpInv /\ DownInv /\ PushInv /\ ViewInv /\ CallInv /\ TextInv
    /\ FifoInv /\ SendInv /\ RacedInv /\ OverlapInv

LEMMA InitIsEmpty ==
    ASSUME Init
    PROVE  /\ DOMAIN up = {} /\ DOMAIN down = {} /\ DOMAIN pushes = {} /\ DOMAIN view = {}
           /\ Written = {} /\ Exist = {}
           /\ \A p \in Pages : call[p].step = "new"
<1>1. up = <<>> /\ down = <<>> /\ pushes = <<>> /\ view = <<>>
    BY DEF Init
<1>2. Written = {} /\ Exist = {}
    <2>1. \A m : m \notin 1 .. 0
        OBVIOUS
    <2>. QED
        BY <2>1 DEF Init, Written, Exist
<1>3. \A p \in Pages : call[p].step = "new"
    BY DEF Init, NewCall
<1>. QED
    BY <1>1, <1>2, <1>3

LEMMA InitIsTyped ==
    ASSUME Init
    PROVE  TypeOK
<1>1. Unwritten \in Row
    BY DEF Unwritten, Row, Contents
<1>2. NewCall \in Calls
    BY EmptySeq DEF NewCall, Calls
<1>3. <<>> \in Seq(Requests) /\ <<>> \in Seq(Answers) /\ <<>> \in Seq(Events) /\ <<>> \in Seq(Shown)
    BY EmptySeq
<1>4. 0 \in 0 .. MaxMessages /\ 0 \in 0 .. MaxRequests /\ 0 \in 0 .. MaxFaults
    BY BoundsAssumption
<1>. QED
    BY <1>1, <1>2, <1>3, <1>4 DEF Init, TypeOK

LEMMA BaseInit ==
    ASSUME Init
    PROVE  BaseInv
<1>1. TypeOK
    BY InitIsTyped
<1>2. UpInv /\ DownInv /\ PushInv /\ ViewInv /\ CallInv /\ TextInv /\ FifoInv
    BY InitIsEmpty DEF Init, UpInv, DownInv, PushInv, ViewInv, CallInv, TextInv, FifoInv,
       Decrypts
<1>3. SendInv /\ RacedInv
    BY InitIsEmpty DEF Init, SendInv, RacedInv
<1>4. OverlapInv
    BY InitIsEmpty DEF OverlapInv, InFlight, Decrypts
<1>. QED
    BY <1>1, <1>2, <1>3, <1>4 DEF BaseInv

LEMMA BaseKept ==
    ASSUME BaseInv, [Next]_vars
    PROVE  BaseInv' /\ Step
<1>1. TypeOK' /\ Step
    BY StepsAre DEF BaseInv, Step
<1>2. UpInv' /\ DownInv' /\ PushInv'
    BY <1>1, UpKept, DownKept, PushKept DEF BaseInv
<1>3. ViewInv' /\ CallInv' /\ TextInv' /\ FifoInv'
    BY <1>1, ViewKept, CallKept, TextKept, FifoKept DEF BaseInv
<1>4. SendInv' /\ RacedInv' /\ OverlapInv'
    BY <1>1, SendKept, RacedKept, OverlapKept DEF BaseInv
<1>. QED
    BY <1>1, <1>2, <1>3, <1>4 DEF BaseInv

\* Every variable of the window, the wire and the table has its type: a request
\* settles only a call that was made, and a page, an event or an answer that is
\* taken out of the wire has what its handler reads.
THEOREM TypeCorrect == Spec => []TypeOK
<1>1. Init => BaseInv
    BY BaseInit
<1>2. BaseInv /\ [Next]_vars => BaseInv'
    BY BaseKept
<1>3. BaseInv => TypeOK
    BY DEF BaseInv
<1>. QED
    BY <1>1, <1>2, <1>3, PTL DEF Spec

-----------------------------------------------------------------------------
(* Where the pages come from.                                              *)

LEMMA PagesAsked ==
    ASSUME NoAsk, NEW i \in DOMAIN up', up'[i].op = "page"
    PROVE  \E j \in DOMAIN up : up'[i] = up[j]
<1>1. CASE ServeStep
    BY <1>1 DEF ServeStep, Shifted
<1>2. CASE SendStep
    <2>1. [op |-> "send", id |-> None].op # "page"
        OBVIOUS
    <2>. QED
        BY <1>2, <2>1 DEF SendStep, Queued
<1>3. CASE RequestStep
    <2>1. PICK op \in {"edit", "delete", "mark"}, m \in Ids : Requested(op, m)
        BY <1>3 DEF RequestStep
    <2>2. [op |-> op, id |-> m].op # "page"
        OBVIOUS
    <2>. QED
        BY <2>1, <2>2 DEF Requested, Queued
<1>4. CASE CompanionStep \/ AnswerStep \/ ArriveStep \/ LoadStep \/ DecryptStep
           \/ UNCHANGED vars
    <2>1. up' = up
        BY <1>4 DEF CompanionStep, AnswerStep, ArriveStep, LoadStep, DecryptStep, Rest, vars
    <2>. QED
        BY <2>1
<1>. QED
    BY <1>1, <1>2, <1>3, <1>4 DEF NoAsk

LEMMA PagesCome ==
    ASSUME NoAsk, NEW i \in DOMAIN down', down'[i].type = "messages"
    PROVE  \/ \E j \in DOMAIN down : IsPage(j) /\ down'[i] = down[j]
           \/ ServeStep /\ Paged(up[1], down'[i]) /\ PageAsked(1)
<1>1. CASE ServeStep
    <2>1. PICK a \in Answers :
             /\ Queued(down, down', a)
             /\ Paged(up[1], a) \/ SentOne(up[1], a) \/ Changed(up[1], a) \/ Refused(up[1], a)
        BY <1>1 DEF ServeStep
    <2>2. (i \in DOMAIN down /\ down'[i] = down[i]) \/ down'[i] = a
        BY <2>1 DEF Queued
    <2>3. CASE down'[i] = a
        <3>1. Paged(up[1], a)
            BY <2>1, <2>3 DEF SentOne, Changed, Refused
        <3>. QED
            BY <1>1, <2>3, <3>1 DEF ServeStep, Shifted, PageAsked, Paged
    <2>. QED
        BY <2>2, <2>3 DEF IsPage
<1>2. CASE AnswerStep
    BY <1>2 DEF AnswerStep, Shifted, IsPage
<1>3. CASE CompanionStep \/ ArriveStep \/ LoadStep \/ DecryptStep \/ SendStep
           \/ RequestStep \/ UNCHANGED vars
    <2>1. down' = down
        BY <1>3 DEF CompanionStep, ArriveStep, LoadStep, DecryptStep, SendStep,
           RequestStep, Requested, Rest, vars
    <2>. QED
        BY <2>1 DEF IsPage
<1>. QED
    BY <1>1, <1>2, <1>3 DEF NoAsk

\* Nothing else is on its way when a page is asked for.
LEMMA AskedPage ==
    ASSUME AskStep, "overlap" \notin lost'
    PROVE  /\ InFlight = {} /\ \A p \in Pages : call'[p].step # "decrypting"
           /\ \A i \in DOMAIN down' : down'[i].type # "messages"
           /\ UNCHANGED Elsewhere
           /\ \E cursor \in Ids \cup {None, Temp} :
                 /\ \A i \in DOMAIN up' : up'[i].op = "page" => up'[i].id = cursor
                 /\ \A p \in InFlight' : call'[p].more <=> cursor # None
                 /\ \/ cursor = None /\ view' = <<>> /\ hasMore' = TRUE
                    \/ /\ 1 \in DOMAIN view /\ cursor = view[1].id /\ cursor # None
                       /\ hasMore /\ UNCHANGED <<view, hasMore>>
                       /\ Disordered => "disorder" \in lost'
                       /\ cursor \in raced => "cursor" \in lost'
<1>1. PICK p \in Pages, cursor \in Ids \cup {None, Temp} :
         /\ Asked(p, cursor) /\ UNCHANGED Elsewhere
         /\ \/ cursor = None /\ view' = <<>> /\ hasMore' = TRUE
            \/ /\ 1 \in DOMAIN view /\ cursor = view[1].id /\ cursor # None
               /\ hasMore /\ UNCHANGED <<view, hasMore>>
    BY DEF AskStep
<1>2. InFlight = {} /\ (\A i \in DOMAIN up : up[i].op # "page")
      /\ \A i \in DOMAIN down : down[i].type # "messages"
    BY <1>1 DEF Asked, PageComes
<1>3. /\ call'[p].step = "waiting" /\ (call'[p].more <=> cursor # None)
      /\ \A q \in Pages : q # p => call'[q] = call[q]
      /\ down' = down
    BY <1>1 DEF Asked, Elsewhere
<1>4. \A q \in Pages : q # p => call'[q].step \notin {"waiting", "decrypting"}
    BY <1>2, <1>3 DEF InFlight
<1>. DEFINE r == [op |-> "page", id |-> cursor]
<1>5. Queued(up, up', r) /\ r.id = cursor
    BY <1>1 DEF Asked
<1>. HIDE DEF r
<1>6. \A i \in DOMAIN up' : up'[i].op = "page" => up'[i].id = cursor
    BY <1>2, <1>5 DEF Queued
<1>7. \A q \in InFlight' : call'[q].more <=> cursor # None
    BY <1>3, <1>4 DEF InFlight
<1>8. \A q \in Pages : call'[q].step # "decrypting"
    BY <1>3, <1>4
<1>9. /\ cursor # None /\ Disordered => "disorder" \in lost'
      /\ cursor \in raced => "cursor" \in lost'
    BY <1>1 DEF Asked
<1>10. \A i \in DOMAIN down' : down'[i].type # "messages"
    BY <1>2, <1>3
<1>. QED
    BY <1>1, <1>2, <1>6, <1>7, <1>8, <1>9, <1>10

-----------------------------------------------------------------------------
(* ReadMarksAreTrue.                                                       *)

\* The user's messages that the list shows are some of those it showed, in order.
OwnDrawn ==
    /\ \A k \in DOMAIN view' : view'[k].mine /\ view'[k].id # Temp =>
          \E i \in DOMAIN view : view[i].mine /\ view[i].id = view'[k].id
    /\ \A j, k \in DOMAIN view' :
          /\ j < k
          /\ view'[j].mine /\ view'[k].mine /\ Temp \notin {view'[j].id, view'[k].id}
          => \E i, l \in DOMAIN view :
                /\ i < l /\ view[i].mine /\ view[l].mine
                /\ view[i].id = view'[j].id /\ view[l].id = view'[k].id

LEMMA OwnSteps ==
    ASSUME TypeOK, Step
    PROVE  OwnDrawn \/ Confirming \/ \E p \in Pages : Joining(p)
<1>1. CASE Keeps
    BY <1>1 DEF Keeps, Drawn, OwnDrawn
<1>2. ASSUME NEW s, Queued(view, view', s), ~s.mine \/ s.id = Temp
      PROVE  OwnDrawn
    <2>1. PICK last \in DOMAIN view' :
             /\ last = Len(view) + 1
             /\ \A i \in DOMAIN view' : i \in DOMAIN view \/ i = last
             /\ \A i \in DOMAIN view : i < last
             /\ \A i \in DOMAIN view : view'[i] = view[i]
             /\ view'[last] = s
        BY <1>2 DEF Queued
    <2>2. last \in Nat /\ \A i \in DOMAIN view : i \in Nat
        BY <2>1, SeqOf DEF TypeOK
    <2>. QED
        BY <1>2, <2>1, <2>2 DEF OwnDrawn
<1>3. ASSUME NEW e \in decrypting, Adding(e)
      PROVE  OwnDrawn
    <2>1. Queued(view, view', AsSent(e.id))
        BY <1>3 DEF Adding
    <2>2. ~AsSent(e.id).mine
        BY DEF AsSent
    <2>. QED
        BY <1>2, <2>1, <2>2
<1>4. CASE SendStep
    <2>1. Queued(view, view', TempShown)
        BY <1>4 DEF SendStep
    <2>2. TempShown.id = Temp
        BY DEF TempShown
    <2>. QED
        BY <1>2, <2>1, <2>2
<1>. QED
    BY <1>1, <1>3, <1>4, ViewSteps

\* The answer to the last send is about the newest message of the user.
LEMMA ConfirmedIsLast ==
    ASSUME TypeOK, ViewInv, DownInv, FifoInv, Confirming
    PROVE  /\ Sent(1) \in Written /\ Sent(1) # Temp /\ Sent(1) \in Ids
           /\ \A k \in DOMAIN view' :
                 \/ /\ view'[k] = view[k] /\ view[k].id # Temp
                 \/ view[k].id = Temp /\ view'[k].id = Sent(1)
           /\ DOMAIN view' = DOMAIN view
           /\ \A k \in DOMAIN view : view[k].mine /\ view[k].id # Temp => view[k].id < Sent(1)
           /\ \A k \in DOMAIN view : view[k].id = Temp /\ "resent" \notin lost' =>
                 \A n \in Written : rows[n].mine => n <= Sent(1)
<1>1. IsSent(1) /\ Confirms(down[1].got[1])
    BY DEF Confirming
<1>2. Sent(1) \in Written /\ OwnUnder(Sent(1))
    BY <1>1 DEF DownInv, AnswerOK, SentOK, OfTable, IsSent, Sent, FifoInv
<1>3. Sent(1) \in Ids /\ Sent(1) # Temp
    BY <1>2, ExistIsOfIds, SentinelAssumption
<1>4. ASSUME NEW k \in DOMAIN view, view[k].id = Temp, "resent" \notin lost'
      PROVE  \A n \in Written : rows[n].mine => n <= Sent(1)
    <2>1. sending
        BY <1>4 DEF ViewInv
    <2>2. ASSUME NEW i \in DOMAIN down, i > 1, IsSent(i)
          PROVE  FALSE
        <3>1. i \in DOMAIN down \ {1} /\ down[i].op = "send"
            BY <2>2 DEF DownInv, AnswerOK, IsSent
        <3>2. LaterSend
            BY <3>1 DEF LaterSend
        <3>. QED
            BY <1>1, <1>4, <2>1, <3>2 DEF Confirming, AnswerStep, Answering
    <2>. QED
        BY <1>1, <2>2 DEF FifoInv, IsSent
<1>. QED
    BY <1>1, <1>2, <1>3, <1>4 DEF Confirms, OwnUnder, Sent

ReadParts ==
    /\ \A k \in DOMAIN view :
          view[k].read /\ view[k].id \in Exist =>
              rows[view[k].id].read \/ view[k].id \in echoed
    /\ \A j, k \in DOMAIN view :
          /\ j < k
          /\ view[j].mine /\ view[k].mine /\ Temp \notin {view[j].id, view[k].id}
          => view[j].id <= view[k].id

\* An id of the table after the step, of a message that was in the list.
LEMMA ShownExisted ==
    ASSUME TypeOK, TypeOK', ViewInv, Step, NEW k \in DOMAIN view, view[k].id \in Exist'
    PROVE  view[k].id \in Exist /\ view[k].id \in Written /\ view[k].id # Temp
           /\ view[k].mine = rows[view[k].id].mine
<1>1. view[k].id \in Ids
    BY ExistAfter
<1>2. view[k].id # Temp
    BY <1>1, SentinelAssumption
<1>3. view[k].id \in Written /\ view[k].mine = rows[view[k].id].mine
    BY <1>2 DEF ViewInv, OfTable
<1>. QED
    BY <1>2, <1>3, TableSteps

\* Marks are set for what was read, or together with what this user had read.
LEMMA MarksAreRead ==
    ASSUME BaseInv, TypeOK', Step, ReadParts
    PROVE  \A k \in DOMAIN view' :
              view'[k].read /\ view'[k].id \in Exist' =>
                  rows'[view'[k].id].read \/ view'[k].id \in echoed'
<1>. USE DEF BaseInv
<1>. SUFFICES ASSUME NEW k \in DOMAIN view', view'[k].read, view'[k].id \in Exist'
              PROVE  rows'[view'[k].id].read \/ view'[k].id \in echoed'
    OBVIOUS
<1>1. Grows /\ echoed \subseteq echoed'
    BY StepGrows, HistoryGrows
<1>2. ASSUME NEW i \in DOMAIN view, view'[k].id = view[i].id, view[i].read
      PROVE  rows'[view'[k].id].read \/ view'[k].id \in echoed'
    <2>1. view[i].id \in Exist /\ view[i].id \in Written
        BY <1>2, ShownExisted
    <2>. QED
        BY <1>1, <1>2, <2>1 DEF ReadParts, Grows
<1>3. CASE view' = view
    BY <1>2, <1>3
<1>4. ASSUME NEW ids, Thinned(ids, view')
      PROVE  rows'[view'[k].id].read \/ view'[k].id \in echoed'
    <2>1. PICK place \in [DOMAIN view' -> DOMAIN view] : view'[k] = view[place[k]]
        BY <1>4 DEF Thinned
    <2>. QED
        BY <1>2, <2>1
<1>5. ASSUME NEW m, Alters(m)
      PROVE  rows'[view'[k].id].read \/ view'[k].id \in echoed'
    <2>1. k \in DOMAIN view /\ view'[k].id = view[k].id /\ view'[k].read = view[k].read
        BY <1>5 DEF Alters
    <2>. QED
        BY <1>2, <2>1
<1>6. ASSUME NEW s, Queued(view, view', s), ~s.read
      PROVE  rows'[view'[k].id].read \/ view'[k].id \in echoed'
    <2>1. k \in DOMAIN view /\ view'[k] = view[k]
        BY <1>6 DEF Queued
    <2>. QED
        BY <1>2, <2>1
<1>7. ASSUME NEW e \in Events, Marks(e), EventOK(e), e.type = "message_read"
      PROVE  rows'[view'[k].id].read \/ view'[k].id \in echoed'
    <2>1. CASE k \in DOMAIN view /\ view'[k] = view[k]
        BY <1>2, <2>1
    <2>2. CASE ~(k \in DOMAIN view /\ view'[k] = view[k])
        <3>1. /\ k \in DOMAIN view /\ view'[k].id = view[k].id /\ view[k].mine
              /\ e.mine => view[k].id \in echoed' \cup {Temp}
            BY <1>7, <2>2 DEF Marks
        <3>2. PICK i \in DOMAIN view : view[i].id = e.id /\ k <= i
            BY <1>7, <2>2, <3>1 DEF Marks
        <3>3. /\ view[k].id \in Exist /\ view[k].id \in Written /\ view[k].id # Temp
              /\ view[k].mine = rows[view[k].id].mine
            BY <3>1, ShownExisted
        <3>4. CASE e.mine
            BY <3>1, <3>3, <3>4
        <3>5. CASE ~e.mine
            <4>1. /\ e.id \in Written /\ rows[e.id].mine
                  /\ \A n \in Exist : rows[n].mine /\ n <= e.id => rows[n].read
                BY <1>7, <3>5 DEF EventOK
            <4>2. e.id # Temp
                BY <4>1, ExistIsOfIds, SentinelAssumption
            <4>3. view[i].mine
                BY <3>2, <4>1, <4>2 DEF ViewInv, OfTable
            <4>0. DOMAIN view = 1 .. Len(view)
                BY SeqOf DEF TypeOK
            <4>4. view[k].id \in Nat /\ k \in Nat /\ i \in Nat
                BY <3>1, <3>2, <3>3, <4>0, ExistIsOfIds
            <4>5. view[k].id <= e.id
                <5>1. CASE k = i
                    BY <3>2, <4>4, <5>1
                <5>2. CASE k < i
                    BY <3>1, <3>2, <3>3, <4>2, <4>3, <5>2 DEF ReadParts
                <5>. QED
                    BY <3>2, <4>4, <5>1, <5>2
            <4>6. rows[view[k].id].read
                BY <3>1, <3>3, <4>1, <4>5
            <4>. QED
                BY <1>1, <3>1, <3>3, <4>6 DEF Grows
        <3>. QED
            BY <3>4, <3>5
    <2>. QED
        BY <2>1, <2>2
<1>8. CASE CompanionStep \/ ServeStep \/ RequestStep \/ UNCHANGED vars
    <2>1. view' = view
        BY <1>8 DEF RequestStep, Requested, vars, CompanionStep, Rest, ServeStep, Window, list
    <2>. QED
        BY <1>3, <2>1
<1>9. CASE AnswerStep
    <2>1. CASE down[1].type = "message_sent"
        <3>1. Confirms(down[1].got[1]) /\ 1 \in DOMAIN down
            BY <1>9, <2>1 DEF AnswerStep, SettledOps, Shifted
        <3>2. ~down[1].got[1].read
            BY <2>1, <3>1 DEF DownInv, AnswerOK, SentOK
        <3>3. k \in DOMAIN view /\ view'[k] = view[k]
            BY <3>1, <3>2 DEF Confirms
        <3>. QED
            BY <1>2, <3>3
    <2>2. CASE down[1].type # "message_sent"
        <3>1. \/ view' = view
              \/ \E ids : Thinned(ids, view')
              \/ \E m : Alters(m)
            BY <1>9, <2>2 DEF AnswerStep, SettledOps
        <3>. QED
            BY <1>3, <1>4, <1>5, <3>1
    <2>. QED
        BY <2>1, <2>2
<1>10. CASE ArriveStep
    <2>1. /\ pushes[1] \in Events /\ 1 \in DOMAIN pushes
          /\ \/ view' = view
             \/ \E ids : Thinned(ids, view')
             \/ \E m : Alters(m)
             \/ pushes[1].type = "message_read" /\ Marks(pushes[1])
        BY <1>10 DEF ArriveStep, ArrivesAs, Shifted
    <2>2. EventOK(pushes[1])
        BY <2>1 DEF PushInv
    <2>. QED
        BY <1>3, <1>4, <1>5, <1>7, <2>1, <2>2
<1>11. CASE AskStep
    <2>1. view' = view
        BY <1>11 DEF AskStep
    <2>. QED
        BY <1>3, <2>1
<1>12. CASE LoadStep
    <2>1. PICK p \in Pages : Joining(p)
        BY <1>12 DEF LoadStep, Joining, Decrypts
    <2>2. \/ \E a \in DOMAIN call[p].got : view'[k] = call[p].got[a]
          \/ \E i \in DOMAIN view : view'[k] = view[i]
        BY <2>1, JoinedAre
    <2>3. ASSUME NEW a \in DOMAIN call[p].got, view'[k] = call[p].got[a]
          PROVE  rows'[view'[k].id].read
        <3>1. view'[k].id \in Written /\ rows[view'[k].id].read
            BY <2>1, <2>3 DEF CallInv, Joining, PageOK, OfTable
        <3>. QED
            BY <1>1, <3>1 DEF Grows
    <2>. QED
        BY <1>2, <2>2, <2>3
<1>13. CASE DecryptStep
    <2>1. \/ \E m : Alters(m)
          \/ view' = view
          \/ \E e \in decrypting : Queued(view, view', AsSent(e.id))
        BY <1>13 DEF DecryptStep
    <2>2. \A m : ~AsSent(m).read
        BY DEF AsSent
    <2>. QED
        BY <1>3, <1>5, <1>6, <2>1, <2>2
<1>14. CASE SendStep
    <2>1. Queued(view, view', TempShown) /\ ~TempShown.read
        BY <1>14 DEF SendStep, TempShown
    <2>. QED
        BY <1>6, <2>1
<1>. QED
    BY <1>8, <1>9, <1>10, <1>11, <1>12, <1>13, <1>14 DEF Step

LEMMA ReadKept ==
    ASSUME BaseInv, BaseInv', Step, ReadInv
    PROVE  ReadInv'
<1>. USE DEF BaseInv
<1>. SUFFICES ASSUME lost' \cap {"overlap", "disorder", "resent"} = {}
              PROVE  ReadInv'
    BY DEF ReadInv
<1>1. /\ "overlap" \notin lost' /\ "disorder" \notin lost' /\ "resent" \notin lost'
      /\ lost \cap {"overlap", "disorder", "resent"} = {} /\ "overlap" \notin lost
    BY HistoryGrows
<1>2. ReadParts
    BY <1>1 DEF ReadInv, ReadParts
<1>3. /\ MoreWaits => \A i \in DOMAIN up :
            PageAsked(i) /\ up[i].id \in Ids =>
                \A k \in DOMAIN view, n \in Written :
                    /\ view[k].mine /\ view[k].id # Temp
                    /\ rows[n].mine /\ n < up[i].id
                    => n <= view[k].id
      /\ MoreWaits => \A i \in DOMAIN down : IsPage(i) => OwnBelow(down[i].got)
      /\ \A p \in Pages : Decrypts(p) /\ call[p].more => OwnBelow(call[p].got)
    BY <1>1 DEF ReadInv
<1>4. \A p, q \in InFlight : p = q
    BY <1>1 DEF OverlapInv
<1>5. \A k \in DOMAIN view' :
         view'[k].read /\ view'[k].id \in Exist' =>
             rows'[view'[k].id].read \/ view'[k].id \in echoed'
    BY <1>2, MarksAreRead
\* The order of the user's messages.
<1>6. \A j, k \in DOMAIN view' :
         /\ j < k
         /\ view'[j].mine /\ view'[k].mine /\ Temp \notin {view'[j].id, view'[k].id}
         => view'[j].id <= view'[k].id
    <2>. SUFFICES ASSUME NEW j \in DOMAIN view', NEW k \in DOMAIN view', j < k,
                         view'[j].mine, view'[k].mine, Temp \notin {view'[j].id, view'[k].id}
                  PROVE  view'[j].id <= view'[k].id
        OBVIOUS
    <2>1. CASE OwnDrawn
        BY <1>2, <2>1 DEF OwnDrawn, ReadParts
    <2>2. CASE Confirming
        <3>1. /\ \A i \in DOMAIN view' :
                    \/ view'[i] = view[i] /\ view[i].id # Temp
                    \/ view[i].id = Temp /\ view'[i].id = Sent(1)
              /\ DOMAIN view' = DOMAIN view
              /\ \A i \in DOMAIN view :
                    view[i].mine /\ view[i].id # Temp => view[i].id < Sent(1)
              /\ Sent(1) \in Ids
            BY <2>2, ConfirmedIsLast
        <3>2. view[k].mine
            BY <3>1 DEF ViewInv
        <3>3. view[j].id # Temp
            BY <3>1, <3>2 DEF ViewInv
        <3>4. CASE view[k].id # Temp
            BY <1>2, <3>1, <3>3, <3>4 DEF ReadParts
        <3>5. CASE view[k].id = Temp
            <4>1. view'[j].id < Sent(1) /\ view'[k].id = Sent(1)
                BY <3>1, <3>3, <3>5
            <4>2. view'[j].id \in Written /\ Sent(1) \in Nat
                BY <3>1, <3>3, ExistIsOfIds DEF ViewInv, OfTable
            <4>3. view'[j].id \in Nat
                BY <4>2, ExistIsOfIds
            <4>. QED
                BY <4>1, <4>2, <4>3
        <3>. QED
            BY <3>4, <3>5
    <2>3. ASSUME NEW p \in Pages, Joining(p)
          PROVE  view'[j].id <= view'[k].id
        <3>1. PageOK(call[p].got) /\ Decrypts(p)
            BY <2>3 DEF CallInv, Joining
        <3>2. CASE \E a, b \in DOMAIN call[p].got :
                       b < a /\ view'[j] = call[p].got[a] /\ view'[k] = call[p].got[b]
            <4>1. PICK a \in DOMAIN call[p].got, b \in DOMAIN call[p].got :
                     b < a /\ view'[j] = call[p].got[a] /\ view'[k] = call[p].got[b]
                BY <3>2
            <4>2. view'[k].id > view'[j].id /\ view'[k].id \in Written /\ view'[j].id \in Written
                BY <3>1, <4>1 DEF PageOK, OfTable
            <4>3. view'[k].id \in Nat /\ view'[j].id \in Nat
                BY <4>2, ExistIsOfIds
            <4>. QED
                BY <4>2, <4>3
        <3>3. CASE call[p].more /\ \E a \in DOMAIN call[p].got, i \in DOMAIN view :
                       view'[j] = call[p].got[a] /\ view'[k] = view[i]
            BY <1>3, <3>1, <3>3 DEF OwnBelow
        <3>4. CASE \E i, l \in DOMAIN view :
                       i < l /\ view'[j] = view[i] /\ view'[k] = view[l]
            BY <1>2, <3>4 DEF ReadParts
        <3>. QED
            BY <2>3, <3>2, <3>3, <3>4, JoinedAre
    <2>. QED
        BY <2>1, <2>2, <2>3, OwnSteps
<1>7. CASE AskStep
    <2>1. /\ \A p \in Pages : ~Decrypts(p)'
          /\ \A i \in DOMAIN down' : ~IsPage(i)'
          /\ UNCHANGED Elsewhere
        BY <1>1, <1>7, AskedPage DEF Decrypts, IsPage
    <2>2. ASSUME NEW i \in DOMAIN up', up'[i].op = "page", up'[i].id \in Ids,
                 NEW k \in DOMAIN view', NEW n \in Written',
                 view'[k].mine, view'[k].id # Temp, rows'[n].mine, n < up'[i].id
          PROVE  n <= view'[k].id
        <3>1. /\ view' = view /\ 1 \in DOMAIN view /\ up'[i].id = view[1].id
              /\ ~Disordered
            BY <1>1, <1>7, <2>2, AskedPage, SentinelAssumption
        <3>2. view[k].id \in Written /\ n \in Written
            BY <2>1, <2>2, <3>1 DEF ViewInv, OfTable, Written, Elsewhere
        <3>3. view[k].id \in Nat /\ n \in Nat /\ view[1].id \in Nat
            BY <2>2, <3>1, <3>2, ExistIsOfIds
        <3>4. view[1].id # Temp
            BY <2>2, <3>1, SentinelAssumption
        <3>5. ~(view[k].id < view[1].id)
            BY <2>2, <3>1, <3>4 DEF Disordered
        <3>. QED
            BY <2>2, <3>1, <3>3, <3>5
    <2>. QED
        BY <1>5, <1>6, <2>1, <2>2 DEF ReadInv, PageAsked
\* What the list shows of the user's own, when a page is on its way.
<1>8. CASE NoAsk
    <2>1. InFlight' \subseteq InFlight /\ \A p \in Pages : Waits(p)' => Waits(p) /\ call'[p] = call[p]
        BY <1>8, FlightSteps
    <2>2. MoreWaits' => MoreWaits
        BY <2>1 DEF MoreWaits
    <2>3. ASSUME NEW k \in DOMAIN view', view'[k].mine, view'[k].id # Temp, InFlight' # {}
          PROVE  \/ \E i \in DOMAIN view : view[i].mine /\ view[i].id = view'[k].id
                 \/ /\ Confirming /\ view'[k].id = Sent(1)
                    /\ \A n \in Written : rows[n].mine => n <= Sent(1)
        <3>1. CASE OwnDrawn
            BY <2>3, <3>1 DEF OwnDrawn
        <3>2. CASE Confirming
            BY <1>1, <2>3, <3>2, ConfirmedIsLast
        <3>3. ASSUME NEW p \in Pages, Joining(p)
              PROVE  FALSE
            <4>1. p \in InFlight /\ p \notin InFlight'
                BY <3>3 DEF Joining, Decrypts, InFlight
            <4>. QED
                BY <1>4, <2>1, <2>3, <4>1
        <3>. QED
            BY <3>1, <3>2, <3>3, OwnSteps
    <2>4. ASSUME NEW got, OwnBelow(got), InFlight' # {}, PageOK(got)
          PROVE  OwnBelow(got)'
        <3>1. \A a \in DOMAIN got : got[a].mine => got[a].id \in Written /\ rows[got[a].id].mine
            BY <2>4 DEF PageOK, OfTable
        <3>. QED
            BY <2>3, <2>4, <3>1 DEF OwnBelow
    <2>5. MoreWaits' => InFlight' # {}
        BY DEF MoreWaits, Waits, InFlight
    <2>6. ASSUME MoreWaits', NEW i \in DOMAIN up', up'[i].op = "page", up'[i].id \in Ids,
                 NEW k \in DOMAIN view', NEW n \in Written',
                 view'[k].mine, view'[k].id # Temp, rows'[n].mine, n < up'[i].id
          PROVE  n <= view'[k].id
        <3>1. PICK j \in DOMAIN up : up[j] = up'[i]
            BY <1>8, <2>6, PagesAsked
        <3>2. PageAsked(j) /\ up[j].id \in Written
            BY <2>6, <3>1 DEF PageAsked, UpInv, RequestOK
        <3>3. n \in Written
            <4>1. up[j].id < created + 1 /\ up[j].id \in Nat /\ created \in Nat
                BY <3>2, TableSteps, ExistIsOfIds
            <4>2. n # created + 1
                BY <2>6, <3>1, <4>1
            <4>. QED
                BY <4>2, TableSteps
        <3>4. rows[n].mine
            BY <2>6, <3>3, StepGrows DEF Grows
        <3>5. \A l \in DOMAIN view : view[l].mine /\ view[l].id # Temp => n <= view[l].id
            BY <1>3, <2>2, <2>6, <3>1, <3>2, <3>3, <3>4
        <3>. QED
            BY <2>3, <2>5, <2>6, <3>3, <3>4, <3>5
    <2>7. ASSUME MoreWaits', NEW i \in DOMAIN down', down'[i].type = "messages"
          PROVE  \A got : got = down'[i].got => OwnBelow(got)'
        <3>1. CASE \E j \in DOMAIN down : IsPage(j) /\ down'[i] = down[j]
            BY <1>3, <2>2, <2>4, <2>5, <2>7, <3>1 DEF DownInv, AnswerOK, IsPage
        <3>2. CASE ServeStep /\ Paged(up[1], down'[i]) /\ PageAsked(1)
            <4>1. view' = view
                BY <3>2 DEF ServeStep, Window, list
            <4>2. PICK p \in Pages : Waits(p) /\ call[p].more
                BY <2>2, <2>7 DEF MoreWaits
            <4>3. up[1].id # None /\ up[1].id # Temp /\ 1 \in DOMAIN up /\ up[1] \in Requests
                BY <1>1, <3>2, <4>2 DEF OverlapInv, PageAsked, Paged, ServeStep
            <4>4. up[1].id \in Ids
                BY <4>3 DEF Requests
            <4>5. \A a \in DOMAIN down'[i].got :
                     \E m \in Written : /\ m < up[1].id
                                        /\ down'[i].got[a].id = m
                                        /\ down'[i].got[a].mine = rows[m].mine
                <5>1. \A a \in DOMAIN down'[i].got :
                         \E m \in Older(up[1].id) : down'[i].got[a] = RowShown(m)
                    BY <3>2 DEF Paged, ReadPage
                <5>2. \A m \in Older(up[1].id) : m \in Written /\ m < up[1].id
                    BY <4>3, ExistIsOfIds DEF Older
                <5>3. \A m : RowShown(m).id = m /\ RowShown(m).mine = rows[m].mine
                    BY DEF RowShown
                <5>. QED
                    BY <5>1, <5>2, <5>3
            <4>6. OwnBelow(down'[i].got)
                BY <1>3, <2>2, <2>7, <3>2, <4>3, <4>4, <4>5 DEF OwnBelow
            <4>. QED
                BY <4>1, <4>6 DEF OwnBelow
        <3>. QED
            BY <1>8, <2>7, <3>1, <3>2, PagesCome
    <2>8. ASSUME NEW p \in Pages, call'[p].step = "decrypting", call'[p].more
          PROVE  \A got : got = call'[p].got => OwnBelow(got)'
        <3>1. InFlight' # {}
            BY <2>8 DEF InFlight
        <3>2. CASE call'[p] = call[p]
            BY <1>3, <2>4, <2>8, <3>1, <3>2 DEF CallInv, Decrypts
        <3>3. CASE IsPage(1) /\ Waits(p) /\ call'[p].more = call[p].more
                   /\ call'[p].got = down[1].got
            <4>1. MoreWaits
                BY <2>8, <3>3 DEF MoreWaits
            <4>2. OwnBelow(down[1].got) /\ PageOK(down[1].got)
                BY <1>3, <3>3, <4>1 DEF IsPage, DownInv, AnswerOK
            <4>. QED
                BY <2>4, <3>1, <3>3, <4>2
        <3>. QED
            BY <1>8, <2>8, <3>2, <3>3, CallSteps DEF NoAsk
    <2>9. (MoreWaits => \A i \in DOMAIN down : IsPage(i) => OwnBelow(down[i].got))'
        BY <2>7 DEF IsPage
    <2>10. (\A p \in Pages : Decrypts(p) /\ call[p].more => OwnBelow(call[p].got))'
        BY <2>8 DEF Decrypts
    <2>. QED
        BY <1>5, <1>6, <2>6, <2>9, <2>10 DEF ReadInv, PageAsked
<1>. QED
    BY <1>7, <1>8 DEF Step, NoAsk

-----------------------------------------------------------------------------
(* ViewIsDistinct.                                                         *)

\* The list has no message that it had not, and none in another order.
IdsDrawn ==
    /\ \A k \in DOMAIN view' : view'[k].id # Temp =>
          \E i \in DOMAIN view : view[i].id = view'[k].id
    /\ \A j, k \in DOMAIN view' : j < k /\ Temp \notin {view'[j].id, view'[k].id} =>
          \E i, l \in DOMAIN view :
              i < l /\ view[i].id = view'[j].id /\ view[l].id = view'[k].id

LEMMA IdSteps ==
    ASSUME TypeOK, Step
    PROVE  \/ IdsDrawn \/ Confirming \/ (\E e \in decrypting : Adding(e))
           \/ \E p \in Pages : Joining(p)
<1>1. CASE Keeps
    BY <1>1 DEF Keeps, Drawn, IdsDrawn
<1>2. CASE SendStep
    <2>1. Queued(view, view', TempShown) /\ TempShown.id = Temp
        BY <1>2 DEF SendStep, TempShown
    <2>2. PICK last \in DOMAIN view' :
             /\ last = Len(view) + 1
             /\ \A i \in DOMAIN view' : i \in DOMAIN view \/ i = last
             /\ \A i \in DOMAIN view : view'[i] = view[i]
             /\ view'[last].id = Temp
        BY <2>1 DEF Queued
    <2>. QED
        BY <2>2 DEF IdsDrawn
<1>. QED
    BY <1>1, <1>2, ViewSteps

\* What comes into the list while a page is on its way has raced.
LEMMA NewcomersRace ==
    ASSUME TypeOK, ViewInv, DownInv, FifoInv, RacedInv, OverlapInv, NoAsk,
           "overlap" \notin lost', InFlight' # {}, NEW k \in DOMAIN view', view'[k].id # Temp
    PROVE  (\E i \in DOMAIN view : view[i].id = view'[k].id) \/ view'[k].id \in raced'
<1>0. Step /\ lost \subseteq lost' /\ raced \subseteq raced'
    BY HistoryGrows DEF Step, NoAsk
<1>1. InFlight' \subseteq InFlight /\ InFlight # {}
    BY FlightSteps
<1>2. CASE IdsDrawn
    BY <1>2 DEF IdsDrawn
<1>3. CASE Confirming
    <2>1. Sent(1) \in raced'
        BY <1>1, <1>3 DEF Confirming, AnswerStep, Answering
    <2>. QED
        BY <1>3, <2>1, ConfirmedIsLast
<1>4. ASSUME NEW e \in decrypting, Adding(e)
      PROVE  (\E i \in DOMAIN view : view[i].id = view'[k].id) \/ view'[k].id \in raced'
    <2>1. AsSent(e.id).id = e.id
        BY DEF AsSent
    <2>2. (k \in DOMAIN view /\ view'[k] = view[k]) \/ view'[k].id = e.id
        BY <1>4, <2>1 DEF Adding, Queued
    <2>. QED
        BY <1>0, <1>1, <2>2 DEF RacedInv
<1>5. ASSUME NEW p \in Pages, Joining(p)
      PROVE  FALSE
    <2>1. p \in InFlight /\ p \notin InFlight'
        BY <1>5 DEF Joining, Decrypts, InFlight
    <2>. QED
        BY <1>0, <1>1, <2>1 DEF OverlapInv
<1>. QED
    BY <1>0, <1>2, <1>3, <1>4, <1>5, IdSteps

LEMMA DistinctKept ==
    ASSUME BaseInv, BaseInv', Step, DistinctInv
    PROVE  DistinctInv'
<1>. USE DEF BaseInv
<1>. SUFFICES ASSUME lost' \cap {"overlap", "disorder"} = {}
              PROVE  DistinctInv'
    BY DEF DistinctInv
<1>1. /\ "overlap" \notin lost' /\ "disorder" \notin lost'
      /\ lost \cap {"overlap", "disorder"} = {} /\ "overlap" \notin lost
      /\ raced \subseteq raced'
    BY HistoryGrows
<1>2. \A j, k \in DOMAIN view :
         view[j].id = view[k].id /\ view[j].id # Temp => j = k \/ view[j].id \in raced
    BY <1>1 DEF DistinctInv
<1>3. /\ MoreWaits => \A i \in DOMAIN up :
            PageAsked(i) /\ up[i].id \in Ids =>
                \A k \in DOMAIN view :
                    view[k].id # Temp /\ view[k].id < up[i].id => view[k].id \in raced
      /\ MoreWaits => \A i \in DOMAIN down : IsPage(i) => Apart(down[i].got)
      /\ \A p \in Pages : Decrypts(p) /\ call[p].more => Apart(call[p].got)
    BY <1>1 DEF DistinctInv
<1>4. \A i \in DOMAIN view : i \in Nat
    BY SeqOf DEF TypeOK
<1>5. \A i \in DOMAIN view' : i \in Nat
    <2>1. view' \in Seq(Shown)
        BY DEF TypeOK
    <2>. QED
        BY <2>1, SeqOf
<1>6. ASSUME NEW j \in DOMAIN view', NEW k \in DOMAIN view', j < k,
             view'[j].id = view'[k].id, view'[j].id # Temp
      PROVE  view'[j].id \in raced'
    <2>1. CASE IdsDrawn
        <3>1. PICK i \in DOMAIN view, l \in DOMAIN view :
                 i < l /\ view[i].id = view'[j].id /\ view[l].id = view'[k].id
            BY <1>6, <2>1 DEF IdsDrawn
        <3>2. i # l
            BY <1>4, <3>1
        <3>. QED
            BY <1>1, <1>2, <1>6, <3>1, <3>2
    <2>2. CASE Confirming
        <3>1. /\ \A i \in DOMAIN view' :
                    \/ view'[i] = view[i] /\ view[i].id # Temp
                    \/ view[i].id = Temp /\ view'[i].id = Sent(1)
              /\ DOMAIN view' = DOMAIN view
              /\ \A i \in DOMAIN view :
                    view[i].mine /\ view[i].id # Temp => view[i].id < Sent(1)
              /\ Sent(1) \in Ids /\ Sent(1) # Temp
            BY <2>2, ConfirmedIsLast
        <3>2. rows[Sent(1)].mine
            BY <2>2 DEF Confirming, DownInv, AnswerOK, SentOK, OfTable, IsSent, Sent
        <3>3. \A i \in DOMAIN view : view[i].id # Sent(1)
            <4>1. \A i \in DOMAIN view : view[i].id = Sent(1) => view[i].mine
                BY <3>1, <3>2 DEF ViewInv, OfTable
            <4>2. ~(Sent(1) < Sent(1))
                BY <3>1, ExistIsOfIds
            <4>. QED
                BY <3>1, <4>1, <4>2
        <3>4. ~(view[j].id = Temp /\ view[k].id = Temp)
            BY <1>6, <3>1 DEF ViewInv
        <3>5. view'[j] = view[j] /\ view'[k] = view[k]
            BY <1>6, <3>1, <3>3, <3>4
        <3>6. j # k
            BY <1>5, <1>6
        <3>. QED
            BY <1>1, <1>2, <1>6, <3>1, <3>5, <3>6
    <2>3. ASSUME NEW e \in decrypting, Adding(e)
          PROVE  view'[j].id \in raced'
        <3>1. PICK last \in DOMAIN view' :
                 /\ last = Len(view) + 1
                 /\ \A i \in DOMAIN view' : i \in DOMAIN view \/ i = last
                 /\ \A i \in DOMAIN view : i < last
                 /\ \A i \in DOMAIN view : view'[i] = view[i]
                 /\ view'[last] = AsSent(e.id)
            BY <2>3 DEF Adding, Queued
        <3>2. \A i \in DOMAIN view : view[i].id # e.id
            BY <2>3 DEF Adding, InView
        <3>3. view'[last].id = e.id
            BY <3>1 DEF AsSent
        <3>4. j \in DOMAIN view /\ k \in DOMAIN view
            BY <1>5, <1>6, <3>1, <3>2, <3>3
        <3>5. j # k
            BY <1>5, <1>6
        <3>. QED
            BY <1>1, <1>2, <1>6, <3>1, <3>4, <3>5
    <2>4. ASSUME NEW p \in Pages, Joining(p)
          PROVE  view'[j].id \in raced'
        <3>1. PageOK(call[p].got) /\ Decrypts(p)
            BY <2>4 DEF CallInv, Joining
        <3>2. ASSUME NEW a \in DOMAIN call[p].got, NEW b \in DOMAIN call[p].got,
                     b < a, view'[j] = call[p].got[a], view'[k] = call[p].got[b]
              PROVE  FALSE
            <4>1. view'[k].id > view'[j].id /\ view'[k].id \in Written
                BY <3>1, <3>2 DEF PageOK, OfTable
            <4>2. view'[k].id \in Nat
                BY <4>1, ExistIsOfIds
            <4>. QED
                BY <1>6, <4>1, <4>2
        <3>3. CASE call[p].more /\ \E a \in DOMAIN call[p].got, i \in DOMAIN view :
                       view'[j] = call[p].got[a] /\ view'[k] = view[i]
            BY <1>1, <1>3, <1>6, <3>1, <3>3 DEF Apart
        <3>4. ASSUME NEW i \in DOMAIN view, NEW l \in DOMAIN view,
                     i < l, view'[j] = view[i], view'[k] = view[l]
              PROVE  view'[j].id \in raced'
            <4>1. i # l
                BY <1>4, <3>4
            <4>. QED
                BY <1>1, <1>2, <1>6, <3>4, <4>1
        <3>. QED
            BY <1>6, <2>4, <3>2, <3>3, <3>4, JoinedAre
    <2>. QED
        BY <2>1, <2>2, <2>3, <2>4, IdSteps
<1>7. \A j, k \in DOMAIN view' :
         view'[j].id = view'[k].id /\ view'[j].id # Temp => j = k \/ view'[j].id \in raced'
    <2>. SUFFICES ASSUME NEW j \in DOMAIN view', NEW k \in DOMAIN view',
                         view'[j].id = view'[k].id, view'[j].id # Temp, j # k
                  PROVE  view'[j].id \in raced'
        OBVIOUS
    <2>1. j < k \/ k < j
        BY <1>5
    <2>. QED
        BY <1>6, <2>1
<1>8. CASE AskStep
    <2>1. /\ \A p \in Pages : ~Decrypts(p)'
          /\ \A i \in DOMAIN down' : ~IsPage(i)'
        BY <1>1, <1>8, AskedPage DEF Decrypts, IsPage
    <2>2. ASSUME NEW i \in DOMAIN up', up'[i].op = "page", up'[i].id \in Ids,
                 NEW k \in DOMAIN view', view'[k].id # Temp, view'[k].id < up'[i].id
          PROVE  FALSE
        <3>1. /\ view' = view /\ 1 \in DOMAIN view /\ up'[i].id = view[1].id
              /\ ~Disordered
            BY <1>1, <1>8, <2>2, AskedPage, SentinelAssumption
        <3>2. view[1].id # Temp
            BY <2>2, <3>1, SentinelAssumption
        <3>. QED
            BY <2>2, <3>1, <3>2 DEF Disordered
    <2>. QED
        BY <1>7, <2>1, <2>2 DEF DistinctInv, PageAsked
<1>9. CASE NoAsk
    <2>1. InFlight' \subseteq InFlight /\ \A p \in Pages : Waits(p)' => Waits(p) /\ call'[p] = call[p]
        BY <1>9, FlightSteps
    <2>2. (MoreWaits' => MoreWaits) /\ (MoreWaits' => InFlight' # {})
        BY <2>1 DEF MoreWaits, Waits, InFlight
    <2>3. ASSUME NEW k \in DOMAIN view', view'[k].id # Temp, InFlight' # {}
          PROVE  (\E i \in DOMAIN view : view[i].id = view'[k].id) \/ view'[k].id \in raced'
        BY <1>1, <1>9, <2>3, NewcomersRace
    <2>4. ASSUME NEW got, Apart(got), InFlight' # {}, PageOK(got)
          PROVE  Apart(got)'
        <3>1. \A a \in DOMAIN got : got[a].id # Temp
            BY <2>4, ExistIsOfIds, SentinelAssumption DEF PageOK, OfTable
        <3>. QED
            BY <1>1, <2>3, <2>4, <3>1 DEF Apart
    <2>5. ASSUME MoreWaits', NEW i \in DOMAIN up', up'[i].op = "page", up'[i].id \in Ids,
                 NEW k \in DOMAIN view', view'[k].id # Temp, view'[k].id < up'[i].id
          PROVE  view'[k].id \in raced'
        <3>1. PICK j \in DOMAIN up : up[j] = up'[i]
            BY <1>9, <2>5, PagesAsked
        <3>2. \A l \in DOMAIN view :
                 view[l].id # Temp /\ view[l].id < up'[i].id => view[l].id \in raced
            BY <1>3, <2>2, <2>5, <3>1 DEF PageAsked
        <3>. QED
            BY <1>1, <2>2, <2>3, <2>5, <3>2
    <2>6. ASSUME MoreWaits', NEW i \in DOMAIN down', down'[i].type = "messages"
          PROVE  \A got : got = down'[i].got => Apart(got)'
        <3>1. CASE \E j \in DOMAIN down : IsPage(j) /\ down'[i] = down[j]
            BY <1>3, <2>2, <2>4, <2>6, <3>1 DEF DownInv, AnswerOK, IsPage
        <3>2. CASE ServeStep /\ Paged(up[1], down'[i]) /\ PageAsked(1)
            <4>1. view' = view
                BY <3>2 DEF ServeStep, Window, list
            <4>2. PICK p \in Pages : Waits(p) /\ call[p].more
                BY <2>2, <2>6 DEF MoreWaits
            <4>3. up[1].id # None /\ up[1].id # Temp /\ 1 \in DOMAIN up /\ up[1] \in Requests
                BY <1>1, <3>2, <4>2 DEF OverlapInv, PageAsked, Paged, ServeStep
            <4>4. up[1].id \in Ids
                BY <4>3 DEF Requests
            <4>5. \A a \in DOMAIN down'[i].got :
                     down'[i].got[a].id \in Written /\ down'[i].got[a].id < up[1].id
                <5>1. \A a \in DOMAIN down'[i].got :
                         \E m \in Older(up[1].id) : down'[i].got[a] = RowShown(m)
                    BY <3>2 DEF Paged, ReadPage
                <5>2. \A m \in Older(up[1].id) : m \in Written /\ m < up[1].id
                    BY <4>3, ExistIsOfIds DEF Older
                <5>3. \A m : RowShown(m).id = m
                    BY DEF RowShown
                <5>. QED
                    BY <5>1, <5>2, <5>3
            <4>6. Temp \notin Written
                BY ExistIsOfIds, SentinelAssumption
            <4>7. Apart(down'[i].got)
                BY <1>3, <2>2, <2>6, <3>2, <4>3, <4>4, <4>5, <4>6 DEF Apart
            <4>. QED
                BY <1>1, <4>1, <4>7 DEF Apart
        <3>. QED
            BY <1>9, <2>6, <3>1, <3>2, PagesCome
    <2>7. ASSUME NEW p \in Pages, call'[p].step = "decrypting", call'[p].more
          PROVE  \A got : got = call'[p].got => Apart(got)'
        <3>1. InFlight' # {}
            BY <2>7 DEF InFlight
        <3>2. CASE call'[p] = call[p]
            BY <1>3, <2>4, <2>7, <3>1, <3>2 DEF CallInv, Decrypts
        <3>3. CASE IsPage(1) /\ Waits(p) /\ call'[p].more = call[p].more
                   /\ call'[p].got = down[1].got
            <4>1. MoreWaits
                BY <2>7, <3>3 DEF MoreWaits
            <4>2. Apart(down[1].got) /\ PageOK(down[1].got)
                BY <1>3, <3>3, <4>1 DEF IsPage, DownInv, AnswerOK
            <4>. QED
                BY <2>4, <3>1, <3>3, <4>2
        <3>. QED
            BY <1>9, <2>7, <3>2, <3>3, CallSteps DEF NoAsk
    <2>8. (MoreWaits => \A i \in DOMAIN down : IsPage(i) => Apart(down[i].got))'
        BY <2>6 DEF IsPage
    <2>9. (\A p \in Pages : Decrypts(p) /\ call[p].more => Apart(call[p].got))'
        BY <2>7 DEF Decrypts
    <2>. QED
        BY <1>7, <2>5, <2>8, <2>9 DEF DistinctInv, PageAsked
<1>. QED
    BY <1>8, <1>9 DEF Step, NoAsk

-----------------------------------------------------------------------------
(* ViewIsCurrent.                                                          *)

\* A change of the table comes with its event.
LEMMA ChangesArePushed ==
    ASSUME TypeOK, CompanionStep \/ ServeStep
    PROVE  \/ /\ \A m \in Written : rows'[m].gone = rows[m].gone
                                    /\ rows'[m].content = rows[m].content
              /\ pushes' = pushes \/ \E e : Queued(pushes, pushes', e)
           \/ \E e : /\ Queued(pushes, pushes', e)
                     /\ e.type \in {"message_altered", "message_deleted"}
                     /\ \A m \in Written :
                           /\ rows'[m].gone # rows[m].gone =>
                                 m = e.id /\ e.type = "message_deleted"
                           /\ rows'[m].content # rows[m].content =>
                                 m = e.id /\ e.type = "message_altered"
<1>0. Written \subseteq Ids
    BY ExistIsOfIds
<1>1. ASSUME NEW e, Queued(pushes, pushes', e), e.id \in Exist,
             \/ e.type = "message_altered" /\ AlteredRow(e.id)
             \/ e.type = "message_deleted" /\ DeletedRow(e.id)
      PROVE  /\ Queued(pushes, pushes', e)
             /\ e.type \in {"message_altered", "message_deleted"}
             /\ \A m \in Written :
                   /\ rows'[m].gone # rows[m].gone =>
                         m = e.id /\ e.type = "message_deleted"
                   /\ rows'[m].content # rows[m].content =>
                         m = e.id /\ e.type = "message_altered"
    BY <1>0, <1>1, ChangeGrows
<1>2. ASSUME NEW mine \in BOOLEAN, Wrote(mine)
      PROVE  \A m \in Written : rows'[m].gone = rows[m].gone /\ rows'[m].content = rows[m].content
    BY <1>2, WroteGrows
<1>3. ASSUME NEW mine \in BOOLEAN, NEW n \in Exist, MarkedRead(mine, n)
      PROVE  \A m \in Written : rows'[m].gone = rows[m].gone /\ rows'[m].content = rows[m].content
    BY <1>0, <1>3, ChangeGrows
<1>4. CASE CompanionStep
    <2>1. PICK e \in Events :
             /\ Queued(pushes, pushes', e)
             /\ \/ Wrote(FALSE)
                \/ e.id \in Exist /\ MarkedRead(TRUE, e.id)
                \/ e.id \in Exist /\ \/ e.type = "message_altered" /\ AlteredRow(e.id)
                                     \/ e.type = "message_deleted" /\ DeletedRow(e.id)
        BY <1>4 DEF CompanionStep
    <2>2. CASE Wrote(FALSE)
        BY <1>2, <2>1, <2>2
    <2>3. CASE e.id \in Exist /\ MarkedRead(TRUE, e.id)
        BY <1>3, <2>1, <2>3
    <2>4. CASE e.id \in Exist /\ (\/ e.type = "message_altered" /\ AlteredRow(e.id)
                                  \/ e.type = "message_deleted" /\ DeletedRow(e.id))
        BY <1>1, <2>1, <2>4
    <2>. QED
        BY <2>1, <2>2, <2>3, <2>4
<1>5. CASE ServeStep
    <2>1. PICK a : Paged(up[1], a) \/ SentOne(up[1], a) \/ Changed(up[1], a)
                   \/ Refused(up[1], a)
        BY <1>5 DEF ServeStep
    <2>2. CASE Paged(up[1], a) \/ Refused(up[1], a)
        BY <2>2 DEF Paged, Refused
    <2>3. CASE SentOne(up[1], a)
        BY <1>2, <2>3 DEF SentOne
    <2>4. CASE Changed(up[1], a)
        <3>1. PICK e \in Events :
                 /\ Queued(pushes, pushes', e) /\ e.id \in Exist
                 /\ \/ e.type = "message_altered" /\ AlteredRow(e.id)
                    \/ e.type = "message_deleted" /\ DeletedRow(e.id)
                    \/ MarkedRead(FALSE, e.id)
            BY <2>4 DEF Changed
        <3>2. CASE MarkedRead(FALSE, e.id)
            BY <1>3, <3>1, <3>2
        <3>3. CASE \/ e.type = "message_altered" /\ AlteredRow(e.id)
                   \/ e.type = "message_deleted" /\ DeletedRow(e.id)
            BY <1>1, <3>1, <3>3
        <3>. QED
            BY <3>1, <3>2, <3>3
    <2>. QED
        BY <2>1, <2>2, <2>3, <2>4
<1>. QED
    BY <1>4, <1>5

\* What an event will tell stays so, until the event arrives.
LEMMA ToldStays ==
    ASSUME TypeOK, Step, ~ArriveStep, NEW m \in Written, NEW from \in 1 .. Len(pushes) + 1
    PROVE  /\ \A type : Pushed(type, m, from) => Pushed(type, m, from)'
           /\ rows'[m].gone # rows[m].gone => Pushed("message_deleted", m, from)'
           /\ rows'[m].content # rows[m].content => Pushed("message_altered", m, from)'
<1>1. ASSUME NEW e, Queued(pushes, pushes', e)
      PROVE  \A type : Pushed(type, m, from) => Pushed(type, m, from)'
    BY <1>1 DEF Queued, Pushed
<1>2. CASE CompanionStep \/ ServeStep
    <2>1. CASE /\ rows'[m].gone = rows[m].gone /\ rows'[m].content = rows[m].content
               /\ pushes' = pushes \/ \E e : Queued(pushes, pushes', e)
        BY <1>1, <2>1 DEF Pushed
    <2>2. ASSUME NEW e, Queued(pushes, pushes', e),
                 rows'[m].gone # rows[m].gone => m = e.id /\ e.type = "message_deleted",
                 rows'[m].content # rows[m].content => m = e.id /\ e.type = "message_altered"
          PROVE  /\ rows'[m].gone # rows[m].gone => Pushed("message_deleted", m, from)'
                 /\ rows'[m].content # rows[m].content => Pushed("message_altered", m, from)'
        <3>1. PICK last \in DOMAIN pushes' : last = Len(pushes) + 1 /\ pushes'[last] = e
            BY <2>2 DEF Queued
        <3>2. last >= from
            <4>1. Len(pushes) \in Nat
                BY SeqOf DEF TypeOK
            <4>. QED
                BY <3>1, <4>1
        <3>. QED
            BY <2>2, <3>1, <3>2 DEF Pushed
    <2>. QED
        BY <1>1, <1>2, <2>1, <2>2, ChangesArePushed
<1>3. CASE ~CompanionStep /\ ~ServeStep
    <2>1. rows' = rows
        BY <1>3, StepGrows
    <2>2. pushes' = pushes
        BY <1>3, EventsAre
    <2>. QED
        BY <2>1, <2>2 DEF Pushed
<1>. QED
    BY <1>2, <1>3

LEMMA ToldArrives ==
    ASSUME TypeOK, ArriveStep
    PROVE  /\ \A type, m : Pushed(type, m, 1) =>
                 Pushed(type, m, 1)' \/ (pushes[1].type = type /\ pushes[1].id = m)
           /\ \A type, m : \A i \in DOMAIN pushes : Pushed(type, m, i + 1) => Pushed(type, m, i)'
<1>1. /\ 1 \in DOMAIN pushes
      /\ \A i \in DOMAIN pushes : i = 1 \/ (i > 1 /\ i - 1 \in DOMAIN pushes' /\ pushes'[i - 1] = pushes[i])
    BY DEF ArriveStep, Shifted
<1>2. DOMAIN pushes = 1 .. Len(pushes) /\ Len(pushes) \in Nat
    BY SeqOf DEF TypeOK
<1>3. ASSUME NEW type, NEW m, NEW i \in DOMAIN pushes, NEW j \in DOMAIN pushes,
             j >= i + 1, pushes[j].type = type, pushes[j].id = m
      PROVE  Pushed(type, m, i)'
    <2>. DEFINE l == j - 1
    <2>1. j # 1 /\ l >= i
        BY <1>2, <1>3
    <2>2. l \in DOMAIN pushes' /\ pushes'[l] = pushes[j]
        BY <1>1, <2>1
    <2>. HIDE DEF l
    <2>. QED
        BY <1>3, <2>1, <2>2 DEF Pushed
<1>4. ASSUME NEW type, NEW m, Pushed(type, m, 1)
      PROVE  Pushed(type, m, 1)' \/ (pushes[1].type = type /\ pushes[1].id = m)
    <2>1. PICK j \in DOMAIN pushes : pushes[j].type = type /\ pushes[j].id = m
        BY <1>4 DEF Pushed
    <2>2. CASE j = 1
        BY <2>1, <2>2
    <2>3. CASE j # 1
        <3>1. j >= 1 + 1
            BY <1>2, <2>3
        <3>. QED
            BY <1>1, <1>3, <2>1, <3>1
    <2>. QED
        BY <2>2, <2>3
<1>. QED
    BY <1>3, <1>4 DEF Pushed

LEMMA FreshStays ==
    ASSUME TypeOK, Step, NEW s, s.id \in Written, s.content \in {0, 1, Other}, Fresh(s),
           ArriveStep => s.id # pushes[1].id \/ pushes[1].type # "message_deleted",
           \A e \in decrypting \ decrypting' : e.type = "message_altered" => e.id # s.id
    PROVE  Fresh(s)'
<1>1. /\ Grows /\ raced \subseteq raced' /\ s.id \in Written /\ s.id \in Ids
    BY StepGrows, HistoryGrows, ExistIsOfIds
<1>2. /\ rows[s.id].content \in {0, 1} /\ rows[s.id].gone \in BOOLEAN
    BY <1>1, RowsAre
<1>3. CASE ArriveStep
    <2>1. rows' = rows
        BY <1>3 DEF ArriveStep
    <2>2. Pushed("message_deleted", s.id, 1) => Pushed("message_deleted", s.id, 1)'
        BY <1>3, ToldArrives
    <2>3. ASSUME Pushed("message_altered", s.id, 1)
          PROVE  \/ Pushed("message_altered", s.id, 1)'
                 \/ \E e \in decrypting' : e.type = "message_altered" /\ e.id = s.id
        <3>1. CASE pushes[1].type = "message_altered" /\ pushes[1].id = s.id
            BY <1>3, <3>1 DEF ArriveStep, ArrivesAs
        <3>. QED
            BY <1>3, <2>3, <3>1, ToldArrives
    <2>. QED
        BY <1>1, <2>1, <2>2, <2>3 DEF Fresh
<1>4. CASE ~ArriveStep
    <2>1. 1 \in 1 .. Len(pushes) + 1
        BY SeqOf DEF TypeOK
    <2>2. /\ \A type : Pushed(type, s.id, 1) => Pushed(type, s.id, 1)'
          /\ rows'[s.id].gone # rows[s.id].gone => Pushed("message_deleted", s.id, 1)'
          /\ rows'[s.id].content # rows[s.id].content => Pushed("message_altered", s.id, 1)'
        BY <1>1, <1>4, <2>1, ToldStays
    <2>. QED
        BY <1>1, <1>2, <2>2 DEF Fresh, Grows
<1>. QED
    BY <1>3, <1>4

LEMMA ToldKept ==
    ASSUME TypeOK, Step, ~ArriveStep, NEW m \in Written, NEW from \in 1 .. Len(pushes) + 1,
           NEW content, Told(m, content, from)
    PROVE  Told(m, content, from)'
<1>1. /\ \A type : Pushed(type, m, from) => Pushed(type, m, from)'
      /\ rows'[m].gone # rows[m].gone => Pushed("message_deleted", m, from)'
      /\ rows'[m].content # rows[m].content => Pushed("message_altered", m, from)'
    BY ToldStays
<1>2. rows[m].gone => Pushed("message_deleted", m, from)
    BY DEF Told
<1>3. rows'[m].gone => Pushed("message_deleted", m, from)'
    <2>1. CASE rows'[m].gone = rows[m].gone
        BY <1>1, <1>2, <2>1
    <2>. QED
        BY <1>1, <2>1
<1>. QED
    BY <1>1, <1>3 DEF Told

LEMMA ToldOfStays ==
    ASSUME TypeOK, Step, NEW got, PageOK(got), ToldOf(got),
           ArriveStep => pushes[1].id \in raced'
    PROVE  ToldOf(got)'
<1>. SUFFICES ASSUME NEW a \in DOMAIN got, got[a].id \notin raced'
              PROVE  Told(got[a].id, got[a].content, 1)'
    BY DEF ToldOf
<1>1. got[a].id \in Written /\ raced \subseteq raced' /\ Told(got[a].id, got[a].content, 1)
    BY HistoryGrows DEF PageOK, OfTable, ToldOf
<1>2. CASE ArriveStep
    <2>1. rows' = rows /\ got[a].id # pushes[1].id
        BY <1>2 DEF ArriveStep
    <2>. QED
        BY <1>1, <1>2, <2>1, ToldArrives DEF Told
<1>3. CASE ~ArriveStep
    <2>1. 1 \in 1 .. Len(pushes) + 1
        BY SeqOf DEF TypeOK
    <2>. QED
        BY <1>1, <1>3, <2>1, ToldKept
<1>. QED
    BY <1>2, <1>3

\* What the list shows is kept fresh, whatever it takes from pages and events.
LEMMA ViewFresh ==
    ASSUME BaseInv, Step, lost' \cap {"overlap", "misread"} = {}, CurrentInv,
           NEW k \in DOMAIN view', NEW s, s = view'[k], s.id # Temp
    PROVE  Fresh(s)'
<1>. USE DEF BaseInv
<1>1. /\ lost \cap {"overlap", "misread"} = {} /\ raced \subseteq raced'
    BY HistoryGrows
<1>2. /\ \A i \in DOMAIN view : view[i].id # Temp => Fresh(view[i])
      /\ \A p \in Pages : Decrypts(p) => ToldOf(call[p].got)
      /\ \A e \in decrypting : e.type = "new_message" /\ e.id \notin raced => Told(e.id, 0, 1)
    BY <1>1 DEF CurrentInv
<1>3. \A i \in DOMAIN view : view[i].content \in {0, 1, Other} /\ (view[i].id # Temp => view[i].id \in Written)
    <2>1. \A i \in DOMAIN view : view[i] \in Shown
        BY SeqOf DEF TypeOK
    <2>. QED
        BY <2>1 DEF Shown, Contents, ViewInv, OfTable
\* A message that stays, altered or not.
<1>4. ASSUME NEW i \in DOMAIN view, s.id = view[i].id,
             s.content = view[i].content \/ (s.content = 1 /\ rows[s.id].content = 1)
      PROVE  Fresh(s) /\ s.id \in Written /\ s.content \in {0, 1, Other}
    BY <1>2, <1>3, <1>4 DEF Fresh
<1>5. ASSUME NEW m, Alters(m), m \in Ids => rows[m].content = 1
      PROVE  Fresh(s) /\ s.id \in Written /\ s.content \in {0, 1, Other}
    <2>1. k \in DOMAIN view /\ s.id = view[k].id
          /\ (s.content = view[k].content \/ (s.content = 1 /\ s.id = m))
        BY <1>5 DEF Alters
    <2>2. s.id \in Ids
        BY <1>3, <2>1, ExistIsOfIds
    <2>. QED
        BY <1>4, <1>5, <2>1, <2>2
<1>6. ASSUME NEW ids, Thinned(ids, view')
      PROVE  Fresh(s) /\ s.id \in Written /\ s.content \in {0, 1, Other} /\ s.id \notin ids
    <2>1. PICK place \in [DOMAIN view' -> DOMAIN view] :
             view'[k] = view[place[k]] /\ view'[k].id \notin ids
        BY <1>6 DEF Thinned
    <2>. QED
        BY <1>4, <2>1
<1>7. ASSUME NEW new, Queued(view, view', new)
      PROVE  (k \in DOMAIN view /\ s = view[k]) \/ s = new
    BY <1>7 DEF Queued
<1>8. ASSUME Fresh(s), s.id \in Written, s.content \in {0, 1, Other}, ~ArriveStep,
             decrypting' = decrypting
      PROVE  Fresh(s)'
    BY <1>8, FreshStays
<1>9. CASE ~ArriveStep /\ (CompanionStep \/ ServeStep \/ RequestStep \/ UNCHANGED vars)
    <2>1. view' = view /\ decrypting' = decrypting
        BY <1>9 DEF RequestStep, Requested, vars, CompanionStep, Rest, ServeStep, Window, list
    <2>. QED
        BY <1>4, <1>8, <1>9, <2>1
<1>10. CASE ~ArriveStep /\ AnswerStep
    <2>1. decrypting' = decrypting /\ 1 \in DOMAIN down
        BY <1>10 DEF AnswerStep, Shifted
    <2>2. CASE down[1].type \in {"messages", "marked_as_read"}
        <3>1. view' = view
            BY <1>10, <2>2 DEF AnswerStep, SettledOps
        <3>. QED
            BY <1>4, <1>8, <1>10, <2>1, <3>1
    <2>3. CASE down[1].type = "message_sent"
        <3>1. Confirms(down[1].got[1]) /\ SentOK(down[1].got)
            BY <1>10, <2>1, <2>3 DEF AnswerStep, SettledOps, DownInv, AnswerOK
        <3>2. CASE k \in DOMAIN view /\ s = view[k]
            BY <1>4, <1>8, <1>10, <2>1, <3>2
        <3>3. CASE s.id = down[1].got[1].id /\ s.content \in {down[1].got[1].content, Other}
            <4>1. /\ s.id \in Written /\ s.content \in {0, Other}
                  /\ rows[s.id].content = 0 /\ ~rows[s.id].gone
                BY <3>1, <3>3 DEF SentOK, OfTable
            <4>2. Fresh(s)
                BY <4>1 DEF Fresh, Other
            <4>. QED
                BY <1>8, <1>10, <2>1, <4>1, <4>2
        <3>. QED
            BY <3>1, <3>2, <3>3 DEF Confirms
    <2>4. CASE down[1].type = "message_altered"
        <3>1. /\ Alters(editing)
              /\ editing \in {None, down[1].to}
              /\ rows[down[1].to].content = 1
            BY <1>10, <2>1, <2>4 DEF AnswerStep, SettledOps, Answering, DownInv, AnswerOK
        <3>2. editing \in Ids => rows[editing].content = 1
            BY <3>1, SentinelAssumption
        <3>. QED
            BY <1>5, <1>8, <1>10, <2>1, <3>1, <3>2
    <2>5. CASE down[1].type \in {"error", "message_deleted"}
        <3>1. \E ids : Thinned(ids, view')
            BY <1>10, <2>5 DEF AnswerStep, SettledOps
        <3>. QED
            BY <1>6, <1>8, <1>10, <2>1, <3>1
    <2>6. down[1].type \in {"messages", "marked_as_read", "message_sent", "message_altered",
                            "error", "message_deleted"}
        BY <1>10 DEF AnswerStep, SettledOps
    <2>. QED
        BY <2>2, <2>3, <2>4, <2>5, <2>6
<1>11. CASE ArriveStep
    <2>. DEFINE e == pushes[1]
    <2>1. /\ decrypting \subseteq decrypting'
          /\ 1 \in DOMAIN pushes /\ ArrivesAs(e) /\ Arriving(e)
        BY <1>11 DEF ArriveStep, ArrivesAs, Shifted
    <2>2. EventOK(e)
        BY <2>1 DEF PushInv
    <2>3. ASSUME Fresh(s), s.id \in Written, s.content \in {0, 1, Other},
                 s.id # e.id \/ e.type # "message_deleted"
          PROVE  Fresh(s)'
        BY <2>1, <2>3, FreshStays
    <2>. HIDE DEF e
    <2>4. CASE e.type = "message_read"
        <3>1. k \in DOMAIN view /\ s.id = view[k].id /\ s.content = view[k].content
            BY <2>1, <2>4 DEF ArrivesAs, Marks
        <3>. QED
            BY <1>4, <2>3, <2>4, <3>1
    <2>5. CASE e.type = "message_deleted"
        <3>1. Thinned({e.id, deleting}, view')
            BY <2>1, <2>5 DEF ArrivesAs
        <3>2. s.id \notin {e.id, deleting} /\ Fresh(s) /\ s.id \in Written /\ s.content \in {0, 1, Other}
            BY <1>6, <3>1
        <3>. QED
            BY <2>3, <3>2
    <2>6. CASE e.type = "message_altered"
        <3>1. Alters(editing) /\ editing \in {None, e.id} /\ rows[e.id].content = 1
            BY <2>1, <2>2, <2>6 DEF ArrivesAs, Arriving, EventOK
        <3>2. editing \in Ids => rows[editing].content = 1
            BY <3>1, SentinelAssumption
        <3>. QED
            BY <1>5, <2>3, <2>6, <3>1, <3>2
    <2>7. CASE e.type = "new_message"
        <3>1. view' = view
            BY <2>1, <2>7 DEF ArrivesAs
        <3>. QED
            BY <1>4, <2>3, <2>7, <3>1
    <2>. QED
        BY <2>1, <2>4, <2>5, <2>6, <2>7 DEF ArrivesAs
<1>12. CASE ~ArriveStep /\ AskStep
    <2>1. view' = view /\ decrypting' = decrypting
        BY <1>12 DEF AskStep, Elsewhere
    <2>. QED
        BY <1>4, <1>8, <1>12, <2>1
<1>13. CASE ~ArriveStep /\ LoadStep
    <2>1. PICK p \in Pages : Joining(p)
        BY <1>13 DEF LoadStep, Joining, Decrypts
    <2>2. decrypting' = decrypting
        BY <1>13 DEF LoadStep
    <2>3. \/ \E a \in DOMAIN call[p].got : s = call[p].got[a]
          \/ \E i \in DOMAIN view : s = view[i]
        BY <2>1, JoinedAre
    <2>4. ASSUME NEW a \in DOMAIN call[p].got, s = call[p].got[a]
          PROVE  Fresh(s) /\ s.id \in Written /\ s.content \in {0, 1, Other}
        <3>3. s.content \in {0, 1}
            BY <2>1, <2>4 DEF Joining, CallInv, PageOK
        <3>4. /\ s.id \in Written /\ (s.content = 1 => rows[s.id].content = 1)
              /\ s.id \notin raced => Told(s.id, s.content, 1)
            BY <1>2, <2>1, <2>4 DEF Joining, CallInv, PageOK, OfTable, ToldOf
        <3>. QED
            BY <3>3, <3>4 DEF Fresh, Told
    <2>. QED
        BY <1>4, <1>8, <1>13, <2>2, <2>3, <2>4
<1>14. CASE ~ArriveStep /\ SendStep
    <2>1. Queued(view, view', TempShown) /\ decrypting' = decrypting /\ TempShown.id = Temp
        BY <1>14 DEF SendStep, TempShown
    <2>2. k \in DOMAIN view /\ s = view[k]
        BY <1>7, <2>1
    <2>. QED
        BY <1>4, <1>8, <1>14, <2>1, <2>2
<1>15. CASE ~ArriveStep /\ DecryptStep
    <2>1. PICK e \in decrypting :
             /\ decrypting' = decrypting \ {e}
             /\ \/ e.type = "message_altered" /\ Alters(e.id)
                \/ e.type = "new_message" /\ view' = view
                \/ e.type = "new_message" /\ Queued(view, view', AsSent(e.id))
             /\ UNCHANGED <<rows, pushes, raced>>
        BY <1>15 DEF DecryptStep
    <2>2. EventOK(e)
        BY <2>1 DEF PushInv
    <2>3. CASE e.type = "message_altered"
        <3>1. Alters(e.id) /\ rows[e.id].content = 1
            BY <2>1, <2>2, <2>3 DEF EventOK
        <3>2. Fresh(s) /\ s.id \in Written /\ s.content \in {0, 1, Other}
            BY <1>5, <3>1
        <3>3. CASE s.id = e.id
            <4>1. s.content = 1 /\ rows[s.id].content = 1
                BY <3>1, <3>3 DEF Alters
            <4>. QED
                BY <2>1, <3>2, <4>1 DEF Fresh, Pushed
        <3>4. CASE s.id # e.id
            BY <1>15, <2>1, <3>2, <3>4, FreshStays
        <3>. QED
            BY <3>3, <3>4
    <2>4. CASE e.type = "new_message"
        <3>1. (\E i \in DOMAIN view : s = view[i]) \/ s = AsSent(e.id)
            BY <1>7, <2>1, <2>4
        <3>2. ASSUME s = AsSent(e.id)
              PROVE  Fresh(s) /\ s.id \in Written /\ s.content \in {0, 1, Other}
            <4>1. s.id = e.id /\ s.content = 0 /\ e.id \in Written
                BY <2>2, <3>2 DEF AsSent, EventOK
            <4>2. s.id \notin raced => Told(s.id, 0, 1)
                BY <1>2, <2>4, <4>1
            <4>. QED
                BY <4>1, <4>2 DEF Fresh, Told
        <3>3. Fresh(s) /\ s.id \in Written /\ s.content \in {0, 1, Other}
            BY <1>4, <3>1, <3>2
        <3>. QED
            BY <1>15, <2>1, <2>4, <3>3, FreshStays
    <2>. QED
        BY <2>1, <2>3, <2>4
<1>. QED
    BY <1>9, <1>10, <1>11, <1>12, <1>13, <1>14, <1>15 DEF Step

LEMMA CurrentKept ==
    ASSUME BaseInv, BaseInv', Step, CurrentInv
    PROVE  CurrentInv'
<1>. USE DEF BaseInv
<1>. SUFFICES ASSUME lost' \cap {"overlap", "misread"} = {}
              PROVE  CurrentInv'
    BY DEF CurrentInv
<1>1. /\ lost \cap {"overlap", "misread"} = {} /\ raced \subseteq raced'
      /\ "overlap" \notin lost'
    BY HistoryGrows
<1>2. /\ InFlight # {} => \A i \in DOMAIN down : IsPage(i) => ToldOf(down[i].got)
      /\ \A p \in Pages : Decrypts(p) => ToldOf(call[p].got)
      /\ \A i \in DOMAIN pushes :
            pushes[i].type = "new_message" => Told(pushes[i].id, 0, i + 1)
      /\ \A e \in decrypting :
            e.type = "new_message" /\ e.id \notin raced => Told(e.id, 0, 1)
    BY <1>1 DEF CurrentInv
<1>3. (\A k \in DOMAIN view : view[k].id # Temp => Fresh(view[k]))'
    BY <1>1, ViewFresh
<1>4. ArriveStep => /\ InFlight # {} => pushes[1].id \in raced'
                    /\ \A d \in decrypting : d.id = pushes[1].id => d.id \in raced'
                    /\ rows' = rows /\ 1 \in DOMAIN pushes
    BY DEF ArriveStep, Arriving, Shifted
<1>5. Len(pushes) \in Nat /\ DOMAIN pushes = 1 .. Len(pushes)
    BY SeqOf DEF TypeOK
\* The pages.
<1>6. ASSUME NEW got, InFlight # {}, ToldOf(got), PageOK(got)
      PROVE  ToldOf(got)'
    BY <1>4, <1>6, ToldOfStays
<1>7. ASSUME NoAsk, InFlight' # {}, NEW i \in DOMAIN down', down'[i].type = "messages"
      PROVE  \A got : got = down'[i].got => ToldOf(got)'
    <2>1. InFlight # {}
        BY <1>7, FlightSteps
    <2>2. CASE \E j \in DOMAIN down : IsPage(j) /\ down'[i] = down[j]
        BY <1>2, <1>6, <2>1, <2>2 DEF DownInv, AnswerOK, IsPage
    <2>3. CASE ServeStep /\ Paged(up[1], down'[i])
        <3>1. rows' = rows
            BY <2>3 DEF Paged
        <3>2. \A a \in DOMAIN down'[i].got :
                 \E m \in Exist : /\ down'[i].got[a].id = m
                                  /\ down'[i].got[a].content = rows[m].content
            <4>1. \A a \in DOMAIN down'[i].got :
                     \E m \in Older(up[1].id) : down'[i].got[a] = RowShown(m)
                BY <2>3 DEF Paged, ReadPage
            <4>2. \A m : RowShown(m).id = m /\ RowShown(m).content = rows[m].content
                BY DEF RowShown
            <4>. QED
                BY <4>1, <4>2 DEF Older
        <3>3. \A m \in Exist : ~rows[m].gone
            BY DEF Exist
        <3>. QED
            BY <3>1, <3>2, <3>3 DEF ToldOf, Told
    <2>. QED
        BY <1>7, <2>2, <2>3, PagesCome
<1>8. ASSUME NEW p \in Pages, call'[p].step = "decrypting"
      PROVE  \A got : got = call'[p].got => ToldOf(got)'
    <2>1. CASE call'[p] = call[p]
        <3>1. Decrypts(p) /\ InFlight # {}
            BY <1>8, <2>1 DEF Decrypts, InFlight
        <3>. QED
            BY <1>2, <1>6, <2>1, <3>1 DEF CallInv
    <2>2. CASE IsPage(1) /\ Waits(p) /\ call'[p].got = down[1].got
        <3>1. InFlight # {} /\ 1 \in DOMAIN down
            BY <2>2 DEF Waits, InFlight, IsPage
        <3>2. ToldOf(down[1].got) /\ PageOK(down[1].got)
            BY <1>2, <2>2, <3>1 DEF IsPage, DownInv, AnswerOK
        <3>. QED
            BY <1>6, <2>2, <3>1, <3>2
    <2>. QED
        BY <1>8, <2>1, <2>2, CallSteps
\* The new messages.
<1>9. ASSUME NEW i \in DOMAIN pushes', pushes'[i].type = "new_message"
      PROVE  \A m : m = pushes'[i].id => Told(m, 0, i + 1)'
    <2>1. CASE ArriveStep
        <3>1. /\ i \in Nat /\ i + 1 \in DOMAIN pushes /\ pushes'[i] = pushes[i + 1]
            BY <2>1 DEF ArriveStep, Shifted
        <3>2. Told(pushes'[i].id, 0, i + 1 + 1)
            BY <1>2, <1>9, <3>1
        <3>. QED
            BY <1>4, <2>1, <3>1, <3>2, ToldArrives DEF Told
    <2>2. ASSUME ~ArriveStep, i \in DOMAIN pushes, pushes'[i] = pushes[i]
          PROVE  \A m : m = pushes'[i].id => Told(m, 0, i + 1)'
        <3>1. i + 1 \in 1 .. Len(pushes) + 1
            BY <1>5, <2>2
        <3>2. pushes[i].id \in Written /\ Told(pushes[i].id, 0, i + 1)
            BY <1>2, <1>9, <2>2 DEF PushInv, EventOK
        <3>. QED
            BY <2>2, <3>1, <3>2, ToldKept
    <2>3. CASE CompanionStep /\ ~ArriveStep
        <3>1. PICK e \in Events :
                 /\ Queued(pushes, pushes', e)
                 /\ e.type = "new_message" => Wrote(FALSE) /\ e.id = created + 1
            BY <2>3 DEF CompanionStep
        <3>2. CASE pushes'[i] = e
            <4>1. Wrote(FALSE) /\ e.id = created + 1
                BY <1>9, <3>1, <3>2
            <4>2. ~rows'[e.id].gone /\ rows'[e.id].content = 0
                BY <4>1, WroteGrows
            <4>. QED
                BY <3>2, <4>2 DEF Told
        <3>. QED
            BY <2>2, <2>3, <3>1, <3>2 DEF Queued
    <2>4. CASE ServeStep /\ ~ArriveStep
        <3>1. PICK a : Paged(up[1], a) \/ SentOne(up[1], a) \/ Changed(up[1], a)
                       \/ Refused(up[1], a)
            BY <2>4 DEF ServeStep
        <3>2. \/ pushes' = pushes
              \/ \E e : Queued(pushes, pushes', e) /\ e.type # "new_message"
            BY <3>1 DEF Paged, SentOne, Changed, Refused
        <3>. QED
            BY <1>9, <2>2, <2>4, <3>2 DEF Queued
    <2>. QED
        BY <2>1, <2>2, <2>3, <2>4, EventsAre
<1>10. ASSUME NEW e \in decrypting', e.type = "new_message", e.id \notin raced'
       PROVE  Told(e.id, 0, 1)'
    <2>1. CASE ArriveStep
        <3>1. CASE e = pushes[1]
            <4>1. 1 \in DOMAIN pushes /\ Told(e.id, 0, 1 + 1)
                BY <1>2, <1>4, <1>10, <2>1, <3>1
            <4>. QED
                BY <1>4, <2>1, <4>1, ToldArrives DEF Told
        <3>2. CASE e \in decrypting
            <4>1. e.id # pushes[1].id /\ Told(e.id, 0, 1)
                BY <1>1, <1>2, <1>4, <1>10, <2>1, <3>2
            <4>. QED
                BY <1>4, <2>1, <4>1, ToldArrives DEF Told
        <3>. QED
            BY <3>1, <3>2, DecryptingAre
    <2>2. CASE ~ArriveStep
        <3>1. e \in decrypting
            BY <2>2, DecryptingAre
        <3>2. e.id \in Written /\ Told(e.id, 0, 1)
            BY <1>1, <1>2, <1>10, <3>1 DEF PushInv, EventOK
        <3>3. 1 \in 1 .. Len(pushes) + 1
            BY <1>5
        <3>. QED
            BY <2>2, <3>2, <3>3, ToldKept
    <2>. QED
        BY <2>1, <2>2
<1>11. (InFlight # {} => \A i \in DOMAIN down : IsPage(i) => ToldOf(down[i].got))'
    <2>1. CASE AskStep
        <3>1. \A i \in DOMAIN down' : down'[i].type # "messages"
            BY <1>1, <2>1, AskedPage
        <3>. QED
            BY <3>1 DEF IsPage
    <2>2. CASE NoAsk
        BY <1>7, <2>2 DEF IsPage
    <2>. QED
        BY <2>1, <2>2 DEF Step, NoAsk
<1>12. (\A p \in Pages : Decrypts(p) => ToldOf(call[p].got))'
    BY <1>8 DEF Decrypts
<1>13. (\A i \in DOMAIN pushes :
           pushes[i].type = "new_message" => Told(pushes[i].id, 0, i + 1))'
    BY <1>9
<1>14. (\A e \in decrypting :
           e.type = "new_message" /\ e.id \notin raced => Told(e.id, 0, 1))'
    BY <1>10
<1>. QED
    BY <1>3, <1>11, <1>12, <1>13, <1>14 DEF CurrentInv

-----------------------------------------------------------------------------
(* HistoryEndsTrue.                                                        *)

\* A message that comes is new, or it came before; and it comes until it is shown.
LEMMA NewPushedSteps ==
    ASSUME TypeOK, PushInv, Step, NEW n
    PROVE  /\ NewPushed(n)' => NewPushed(n) \/ n = created + 1
           /\ NewPushed(n) => NewPushed(n)' \/ NewDecrypts(n)'
<1>1. NewPushed(n)' => NewPushed(n) \/ n = created + 1
    <2>1. SUFFICES ASSUME NEW i \in DOMAIN pushes', pushes'[i].type = "new_message",
                          pushes'[i].id = n, n # created + 1
                   PROVE  \E j \in DOMAIN pushes : j >= 1 /\ pushes[j] = pushes'[i]
        BY DEF NewPushed, Pushed
    <2>2. \A j \in DOMAIN pushes : j >= 1
        BY SeqOf DEF TypeOK
    <2>3. CASE ArriveStep
        BY <2>2, <2>3 DEF ArriveStep, Shifted
    <2>4. CASE CompanionStep
        <3>1. PICK e \in Events :
                 /\ Queued(pushes, pushes', e)
                 /\ e.type = "new_message" => e.id = created + 1
            BY <2>4 DEF CompanionStep
        <3>. QED
            BY <2>1, <2>2, <3>1 DEF Queued
    <2>5. CASE ServeStep
        <3>1. PICK a : Paged(up[1], a) \/ SentOne(up[1], a) \/ Changed(up[1], a)
                       \/ Refused(up[1], a)
            BY <2>5 DEF ServeStep
        <3>2. \/ pushes' = pushes
              \/ \E e : Queued(pushes, pushes', e) /\ e.type # "new_message"
            BY <3>1 DEF Paged, SentOne, Changed, Refused
        <3>. QED
            BY <2>1, <2>2, <3>2 DEF Queued
    <2>. QED
        BY <2>1, <2>2, <2>3, <2>4, <2>5, EventsAre
<1>2. ASSUME NewPushed(n)
      PROVE  NewPushed(n)' \/ NewDecrypts(n)'
    <2>1. CASE ArriveStep
        <3>1. CASE pushes[1].type = "new_message" /\ pushes[1].id = n
            BY <2>1, <3>1 DEF ArriveStep, ArrivesAs, NewDecrypts
        <3>. QED
            BY <1>2, <2>1, <3>1, ToldArrives DEF NewPushed
    <2>2. CASE ~ArriveStep
        <3>1. n \in Written
            BY <1>2 DEF NewPushed, Pushed, PushInv, EventOK
        <3>2. 1 \in 1 .. Len(pushes) + 1
            BY SeqOf DEF TypeOK
        <3>. QED
            BY <1>2, <2>2, <3>1, <3>2, ToldStays DEF NewPushed
    <2>. QED
        BY <2>1, <2>2
<1>. QED
    BY <1>1, <1>2

LEMMA NewDecryptsSteps ==
    ASSUME TypeOK, Step, NEW n
    PROVE  /\ NewDecrypts(n)' => NewDecrypts(n) \/ NewPushed(n)
           /\ NewDecrypts(n) => NewDecrypts(n)' \/ InView(n)'
<1>1. ASSUME NewDecrypts(n)'
      PROVE  NewDecrypts(n) \/ NewPushed(n)
    <2>1. PICK e \in decrypting' : e.type = "new_message" /\ e.id = n
        BY <1>1 DEF NewDecrypts
    <2>2. 1 \in DOMAIN pushes => 1 >= 1
        OBVIOUS
    <2>. QED
        BY <2>1, <2>2, DecryptingAre DEF NewDecrypts, NewPushed, Pushed
<1>2. ASSUME NEW e \in decrypting, e.type = "new_message", e.id = n
      PROVE  NewDecrypts(n)' \/ InView(n)'
    <2>1. CASE DecryptStep
        <3>1. PICK d \in decrypting :
                 /\ decrypting' = decrypting \ {d}
                 /\ \/ d.type = "message_altered"
                    \/ InView(d.id) /\ view' = view
                    \/ Queued(view, view', AsSent(d.id))
            BY <2>1 DEF DecryptStep
        <3>2. CASE d = e
            <4>1. (InView(e.id) /\ view' = view) => InView(e.id)'
                BY DEF InView
            <4>2. AsSent(e.id).id = e.id
                BY DEF AsSent
            <4>3. Queued(view, view', AsSent(e.id)) => InView(e.id)'
                BY <4>2 DEF Queued, InView
            <4>4. InView(e.id)'
                BY <1>2, <3>1, <3>2, <4>1, <4>3
            <4>. QED
                BY <1>2, <4>4 DEF InView
        <3>3. CASE d # e
            BY <1>2, <3>1, <3>3 DEF NewDecrypts
        <3>. QED
            BY <3>2, <3>3
    <2>2. CASE ~DecryptStep
        <3>1. decrypting \subseteq decrypting'
            <4>1. ArriveStep => decrypting \subseteq decrypting'
                BY DEF ArriveStep, ArrivesAs
            <4>2. CompanionStep \/ ServeStep \/ AnswerStep \/ AskStep \/ LoadStep \/ SendStep
                  \/ RequestStep \/ UNCHANGED vars => decrypting' = decrypting
                BY DEF CompanionStep, ServeStep, AnswerStep, AskStep, LoadStep, SendStep,
                   RequestStep, Requested, Elsewhere, Rest, Window, vars
            <4>. QED
                BY <2>2, <4>1, <4>2 DEF Step
        <3>. QED
            BY <1>2, <3>1 DEF NewDecrypts
    <2>. QED
        BY <2>1, <2>2
<1>. QED
    BY <1>1, <1>2 DEF NewDecrypts

LEMMA SentSteps ==
    ASSUME TypeOK, Step, NEW n
    PROVE  /\ SentComes(n)' => SentComes(n) \/ n = created + 1
           /\ SentComes(n) => SentComes(n)' \/ (Confirming /\ Sent(1) = n)
<1>1. CASE ServeStep
    <2>1. PICK a \in Answers : Queued(down, down', a)
        BY <1>1 DEF ServeStep
    <2>2. SentComes(n) => SentComes(n)'
        BY <2>1 DEF Queued, SentComes, IsSent, Sent
    <2>3. SentComes(n)' => SentComes(n) \/ n = created + 1
        BY <1>1, NewSentIsNew DEF SentComes, IsSent, Sent
    <2>. QED
        BY <2>2, <2>3
<1>2. CASE AnswerStep
    <2>1. Shifted(down, down')
        BY <1>2 DEF AnswerStep
    <2>2. SentComes(n)' => SentComes(n)
        BY <2>1 DEF Shifted, SentComes, IsSent, Sent
    <2>3. ASSUME NEW i \in DOMAIN down, IsSent(i), Sent(i) = n
          PROVE  SentComes(n)' \/ (Confirming /\ Sent(1) = n)
        <3>1. CASE i = 1
            BY <1>2, <2>3, <3>1 DEF AnswerStep, SettledOps, Confirming, IsSent
        <3>2. CASE i # 1
            BY <2>1, <2>3, <3>2 DEF Shifted, SentComes, IsSent, Sent
        <3>. QED
            BY <3>1, <3>2
    <2>. QED
        BY <2>2, <2>3 DEF SentComes
<1>3. CASE ~ServeStep /\ ~AnswerStep
    <2>1. down' = down
        BY <1>3, DownSteps
    <2>. QED
        BY <2>1 DEF SentComes, IsSent, Sent
<1>. QED
    BY <1>1, <1>2, <1>3

\* A message of the table that was not there before comes.
LEMMA NewComes ==
    ASSUME TypeOK, Step, NEW n \in Exist', n \notin Exist
    PROVE  NewPushed(n)' \/ SentComes(n)'
<1>1. CASE CompanionStep
    <2>1. PICK e \in Events :
             /\ Queued(pushes, pushes', e)
             /\ \/ e.type = "new_message" /\ Wrote(FALSE) /\ e.id = created + 1
                \/ e.id \in Exist /\ (MarkedRead(TRUE, e.id) \/ AlteredRow(e.id) \/ DeletedRow(e.id))
        BY <1>1 DEF CompanionStep
    <2>2. CASE e.type = "new_message" /\ Wrote(FALSE) /\ e.id = created + 1
        <3>1. n = e.id
            BY <2>2, WroteGrows
        <3>2. PICK last \in DOMAIN pushes' : last = Len(pushes) + 1 /\ pushes'[last] = e
            BY <2>1 DEF Queued
        <3>3. last >= 1
            <4>1. Len(pushes) \in Nat
                BY SeqOf DEF TypeOK
            <4>. QED
                BY <3>2, <4>1
        <3>. QED
            BY <2>2, <3>1, <3>2, <3>3 DEF NewPushed, Pushed
    <2>3. CASE e.id \in Exist /\ (MarkedRead(TRUE, e.id) \/ AlteredRow(e.id) \/ DeletedRow(e.id))
        <3>1. Exist' \subseteq Exist
            BY <2>3, ChangeGrows
        <3>. QED
            BY <3>1
    <2>. QED
        BY <2>1, <2>2, <2>3
<1>2. CASE ServeStep
    <2>1. PICK a \in Answers :
             /\ Queued(down, down', a)
             /\ Paged(up[1], a) \/ SentOne(up[1], a) \/ Changed(up[1], a) \/ Refused(up[1], a)
        BY <1>2 DEF ServeStep
    <2>2. CASE Paged(up[1], a) \/ Refused(up[1], a)
        BY <2>2, SameGrows DEF Paged, Refused
    <2>3. CASE SentOne(up[1], a)
        <3>1. n = created + 1
            BY <2>3, WroteGrows DEF SentOne
        <3>2. a.type = "message_sent" /\ a.got[1] = NewShown(created + 1)
            BY <2>3 DEF SentOne
        <3>3. NewShown(created + 1).id = created + 1
            BY DEF NewShown
        <3>4. PICK last \in DOMAIN down' : down'[last] = a
            BY <2>1 DEF Queued
        <3>. QED
            BY <3>1, <3>2, <3>3, <3>4 DEF SentComes, IsSent, Sent
    <2>4. CASE Changed(up[1], a)
        <3>1. Exist' \subseteq Exist
            BY <2>4, ChangeGrows DEF Changed
        <3>. QED
            BY <3>1
    <2>. QED
        BY <2>1, <2>2, <2>3, <2>4
<1>3. CASE ~CompanionStep /\ ~ServeStep
    BY <1>3, StepGrows
<1>. QED
    BY <1>1, <1>2, <1>3

\* What comes after the step came before, or it is new.
LEMMA ComingSteps ==
    ASSUME TypeOK, PushInv, Step, NEW n, Coming(n)'
    PROVE  Coming(n) \/ n = created + 1
BY NewPushedSteps, NewDecryptsSteps, SentSteps DEF Coming

\* A message of the table that no longer comes is shown, unless it raced.
LEMMA SettledSteps ==
    ASSUME TypeOK, ViewInv, DownInv, PushInv, FifoInv, RacedInv, Step, NEW m \in Settled'
    PROVE  /\ m \in Exist /\ m \notin raced /\ m \notin raced'
           /\ m \in Settled \/ (InView(m)' /\ InFlight = {})
<1>1. m \in Exist' /\ m \notin raced' /\ ~Coming(m)'
    BY DEF Settled
<1>2. m \in Exist /\ m \notin raced
    BY <1>1, NewComes, HistoryGrows DEF Coming
<1>3. ASSUME Coming(m)
      PROVE  InView(m)' /\ InFlight = {}
    <2>1. CASE NewPushed(m)
        BY <1>1, <2>1, NewPushedSteps DEF Coming
    <2>2. CASE NewDecrypts(m)
        <3>1. InView(m)'
            BY <1>1, <2>2, NewDecryptsSteps DEF Coming
        <3>2. InFlight = {}
            BY <1>2, <2>2 DEF NewDecrypts, RacedInv
        <3>. QED
            BY <3>1, <3>2
    <2>3. CASE SentComes(m)
        <3>1. Confirming /\ Sent(1) = m
            BY <1>1, <2>3, SentSteps DEF Coming
        <3>2. InView(Temp) /\ InFlight = {}
            BY <1>1, <3>1 DEF Confirming, AnswerStep, Answering
        <3>3. PICK i \in DOMAIN view : view[i].id = Temp
            BY <3>2 DEF InView
        <3>4. i \in DOMAIN view' /\ view'[i].id = m
            BY <3>1, <3>3, ConfirmedIsLast
        <3>. QED
            BY <3>2, <3>4 DEF InView
    <2>. QED
        BY <1>3, <2>1, <2>2, <2>3 DEF Coming
<1>. QED
    BY <1>1, <1>2, <1>3 DEF Settled

\* A message of the table stays in the list until the list is loaded anew.
LEMMA ShownStays ==
    ASSUME TypeOK, TypeOK', DownInv, PushInv, Step, "misread" \notin lost',
           NEW m \in Exist', InView(m)
    PROVE  \/ InView(m)'
           \/ AskStep /\ view' = <<>>
           \/ \E p \in Pages : Joining(p) /\ ~call[p].more
<1>1. m \in Ids /\ m # Temp /\ m # None
    BY ExistAfter, SentinelAssumption
<1>2. PICK k \in DOMAIN view : view[k].id = m
    BY DEF InView
<1>3. view' = view => InView(m)'
    BY <1>2 DEF InView
<1>4. ASSUME NEW ids, Thinned(ids, view'), m \notin ids
      PROVE  InView(m)'
    <2>1. PICK place \in [DOMAIN view' -> DOMAIN view] :
             /\ \A j \in DOMAIN view' : view'[j] = view[place[j]]
             /\ \A i \in DOMAIN view :
                   view[i].id \notin ids => \E j \in DOMAIN view' : place[j] = i
        BY <1>4 DEF Thinned
    <2>2. PICK j \in DOMAIN view' : place[j] = k
        BY <1>2, <1>4, <2>1
    <2>. QED
        BY <1>2, <2>1, <2>2 DEF InView
<1>5. ASSUME NEW n, Alters(n)
      PROVE  InView(m)'
    <2>1. k \in DOMAIN view' /\ view'[k].id = m
        BY <1>2, <1>5 DEF Alters
    <2>. QED
        BY <2>1 DEF InView
<1>6. ASSUME NEW s, Queued(view, view', s)
      PROVE  InView(m)'
    BY <1>2, <1>6 DEF Queued, InView
<1>7. CASE AnswerStep
    <2>1. m \in Exist
        BY <1>7, StepGrows DEF AnswerStep, Exist
    <2>2. CASE down[1].type = "message_deleted"
        <3>1. Thinned({deleting}, view') /\ deleting \in {None, down[1].to}
            BY <1>7, <2>2 DEF AnswerStep, SettledOps, Answering
        <3>2. rows[down[1].to].gone
            BY <1>7, <2>2 DEF AnswerStep, Shifted, DownInv, AnswerOK
        <3>3. m \notin {deleting}
            BY <1>1, <2>1, <3>1, <3>2 DEF Exist
        <3>. QED
            BY <1>4, <3>1, <3>3
    <2>3. CASE down[1].type = "message_sent"
        <3>1. k \in DOMAIN view' /\ view'[k] = view[k]
            BY <1>1, <1>2, <1>7, <2>3 DEF AnswerStep, SettledOps, Confirms
        <3>. QED
            BY <1>2, <3>1 DEF InView
    <2>4. CASE down[1].type \notin {"message_deleted", "message_sent"}
        <3>1. view' = view \/ Thinned({Temp}, view') \/ Alters(editing)
            BY <1>7, <2>4 DEF AnswerStep, SettledOps
        <3>. QED
            BY <1>1, <1>3, <1>4, <1>5, <3>1
    <2>. QED
        BY <2>2, <2>3, <2>4
<1>8. CASE ArriveStep
    <2>1. m \in Exist
        BY <1>8 DEF ArriveStep, Exist
    <2>2. CASE pushes[1].type = "message_deleted"
        <3>1. Thinned({pushes[1].id, deleting}, view') /\ deleting \in {None, pushes[1].id}
            BY <1>8, <2>2 DEF ArriveStep, ArrivesAs, Arriving
        <3>2. rows[pushes[1].id].gone
            BY <1>8, <2>2 DEF ArriveStep, Shifted, PushInv, EventOK
        <3>3. m \notin {pushes[1].id, deleting}
            BY <1>1, <2>1, <3>1, <3>2 DEF Exist
        <3>. QED
            BY <1>4, <3>1, <3>3
    <2>3. CASE pushes[1].type = "message_read"
        <3>1. k \in DOMAIN view' /\ view'[k].id = view[k].id
            BY <1>2, <1>8, <2>3 DEF ArriveStep, ArrivesAs, Marks
        <3>. QED
            BY <1>2, <3>1 DEF InView
    <2>4. CASE pushes[1].type \notin {"message_deleted", "message_read"}
        <3>1. view' = view \/ Alters(editing)
            BY <1>8, <2>4 DEF ArriveStep, ArrivesAs
        <3>. QED
            BY <1>3, <1>5, <3>1
    <2>. QED
        BY <2>2, <2>3, <2>4
<1>9. CASE AskStep
    <2>1. view' = view \/ view' = <<>>
        BY <1>9 DEF AskStep
    <2>. QED
        BY <1>3, <1>9, <2>1
<1>10. CASE LoadStep
    <2>1. PICK p \in Pages : Joining(p)
        BY <1>10 DEF LoadStep, Joining, Decrypts
    <2>2. call[p].more => \E j \in DOMAIN view' : view'[j] = view[k]
        BY <1>2, <2>1, JoinedAre
    <2>. QED
        BY <1>2, <2>1, <2>2 DEF InView
<1>11. CASE DecryptStep
    <2>1. view' = view \/ (\E n : Alters(n)) \/ \E s : Queued(view, view', s)
        BY <1>11 DEF DecryptStep
    <2>. QED
        BY <1>3, <1>5, <1>6, <2>1
<1>12. CASE SendStep
    BY <1>6, <1>12 DEF SendStep
<1>13. CASE CompanionStep \/ ServeStep \/ RequestStep \/ UNCHANGED vars
    <2>1. view' = view
        BY <1>13 DEF CompanionStep, ServeStep, RequestStep, Requested, Rest, Window, list, vars
    <2>. QED
        BY <1>3, <2>1
<1>. QED
    BY <1>7, <1>8, <1>9, <1>10, <1>11, <1>12, <1>13 DEF Step

LEMMA UnseenSteps ==
    ASSUME BaseInv, TypeOK', Step, "misread" \notin lost', NEW m \in Unseen'
    PROVE  /\ m \in Exist /\ m \in Settled /\ m \in Written /\ m \notin raced /\ ~InView(m)'
           /\ \/ m \in Unseen
              \/ AskStep /\ view' = <<>>
              \/ \E p \in Pages : Joining(p) /\ ~call[p].more
<1>1. m \in Settled' /\ ~InView(m)' /\ m \in Exist'
    BY DEF Unseen, Settled
<1>2. m \in Settled
    BY <1>1, SettledSteps DEF BaseInv
<1>3. m \in Exist /\ m \in Written /\ m \notin raced
    BY <1>2 DEF Settled, Exist, Written
<1>. QED
    BY <1>1, <1>2, <1>3, ShownStays DEF BaseInv, Unseen

\* What may still be told of an answer that is on its way: the answers to sends
\* that come after a page came after it before, or they are new.
LEMMA PagePlaces ==
    ASSUME TypeOK, NoAsk, NEW i \in DOMAIN down', down'[i].type = "messages"
    PROVE  \/ \E j \in DOMAIN down :
                 /\ IsPage(j) /\ down'[i] = down[j]
                 /\ \A k \in DOMAIN down' : k > i /\ down'[k].type = "message_sent" =>
                       \/ down'[k].got[1].id = created + 1
                       \/ \E l \in DOMAIN down : l > j /\ IsSent(l) /\ down[l] = down'[k]
           \/ /\ ServeStep /\ Paged(up[1], down'[i]) /\ PageAsked(1)
              /\ \A k \in DOMAIN down' : ~(k > i)
<1>0. DOMAIN down = 1 .. Len(down) /\ Len(down) \in Nat
    BY SeqOf DEF TypeOK
<1>1. CASE ServeStep
    <2>1. PICK a \in Answers :
             /\ Queued(down, down', a)
             /\ Paged(up[1], a) \/ SentOne(up[1], a) \/ Changed(up[1], a) \/ Refused(up[1], a)
        BY <1>1 DEF ServeStep
    <2>2. PICK last \in DOMAIN down' :
             /\ last = Len(down) + 1 /\ down'[last] = a
             /\ \A k \in DOMAIN down' : k \in DOMAIN down \/ k = last
             /\ \A k \in DOMAIN down : k < last
        BY <2>1 DEF Queued
    <2>3. CASE i = last
        <3>1. Paged(up[1], a)
            BY <2>1, <2>2, <2>3 DEF SentOne, Changed, Refused
        <3>2. PageAsked(1)
            BY <1>1, <3>1 DEF ServeStep, Shifted, PageAsked, Paged
        <3>3. \A k \in DOMAIN down' : k <= last
            BY <1>0, <2>2
        <3>4. \A k \in DOMAIN down' : ~(k > i)
            BY <1>0, <2>2, <2>3, <3>3
        <3>. QED
            BY <1>1, <2>2, <2>3, <3>1, <3>2, <3>4
    <2>4. CASE i # last
        <3>1. i \in DOMAIN down /\ down'[i] = down[i] /\ IsPage(i)
            BY <2>1, <2>2, <2>4 DEF Queued, IsPage
        <3>2. ASSUME NEW k \in DOMAIN down', k > i, down'[k].type = "message_sent"
              PROVE  \/ down'[k].got[1].id = created + 1
                     \/ \E l \in DOMAIN down : l > i /\ IsSent(l) /\ down[l] = down'[k]
            BY <1>1, <3>2, NewSentIsNew DEF IsSent
        <3>. QED
            BY <3>1, <3>2
    <2>. QED
        BY <2>3, <2>4
<1>2. CASE AnswerStep
    <2>1. /\ i \in Nat /\ i + 1 \in DOMAIN down /\ down'[i] = down[i + 1]
          /\ \A k \in DOMAIN down' : k \in Nat /\ k + 1 \in DOMAIN down /\ down'[k] = down[k + 1]
        BY <1>2 DEF AnswerStep, Shifted
    <2>2. ASSUME NEW k \in DOMAIN down', k > i, down'[k].type = "message_sent"
          PROVE  \E l \in DOMAIN down : l > i + 1 /\ IsSent(l) /\ down[l] = down'[k]
        <3>1. k + 1 \in DOMAIN down /\ down[k + 1] = down'[k] /\ IsSent(k + 1)
            BY <2>1, <2>2 DEF IsSent
        <3>2. k + 1 > i + 1
            BY <2>1, <2>2
        <3>. QED
            BY <3>1, <3>2
    <2>. QED
        BY <2>1, <2>2 DEF IsPage
<1>3. CASE CompanionStep \/ ArriveStep \/ LoadStep \/ DecryptStep \/ SendStep
           \/ RequestStep \/ UNCHANGED vars
    <2>1. down' = down
        BY <1>3 DEF CompanionStep, ArriveStep, LoadStep, DecryptStep, SendStep,
           RequestStep, Requested, Rest, vars
    <2>. QED
        BY <2>1 DEF IsPage, IsSent
<1>. QED
    BY <1>1, <1>2, <1>3 DEF NoAsk

\* The hypotheses of a step of HistoryInv.
HistoryHeld ==
    /\ BaseInv /\ BaseInv' /\ Step /\ HistoryInv
    /\ lost' \cap {"overlap", "cursor", "misread", "unloaded"} = {}

LEMMA HistoryHolds ==
    ASSUME HistoryHeld
    PROVE  /\ UnseenAreOlder /\ UnseenAreAsked /\ UnseenCome /\ UnseenAreDecrypted
           /\ SettledCome /\ SettledAreDecrypted /\ ComingAreNewer
           /\ raced \subseteq raced'
           /\ "overlap" \notin lost /\ "overlap" \notin lost' /\ "misread" \notin lost'
           /\ "cursor" \notin lost' /\ "unloaded" \notin lost'
<1>1. lost \subseteq lost' /\ raced \subseteq raced'
    BY HistoryGrows DEF HistoryHeld
<1>2. lost \cap {"overlap", "cursor", "misread", "unloaded"} = {}
    BY <1>1 DEF HistoryHeld
<1>. QED
    BY <1>1, <1>2 DEF HistoryHeld, HistoryInv

\* A message that is in the table and does not race stands there since before.
LEMMA StillThere ==
    ASSUME TypeOK, TypeOK', Step, NEW n \in Exist' \ raced'
    PROVE  /\ n \in Ids /\ n \notin raced
           /\ n \in Exist \/ (n = created + 1 /\ n \notin Written)
<1>1. raced \subseteq raced'
    BY HistoryGrows
<1>2. n \in Ids
    BY ExistAfter
<1>. QED
    BY <1>1, <1>2, TableSteps

LEMMA OlderKept ==
    ASSUME HistoryHeld
    PROVE  UnseenAreOlder'
<1>. USE DEF BaseInv, HistoryHeld
<1>. SUFFICES ASSUME NEW m \in Unseen'
              PROVE  hasMore' /\ \A k \in DOMAIN view' :
                         view'[k].id \in Exist' \ raced' => m < view'[k].id
    BY DEF UnseenAreOlder
<1>1. /\ UnseenAreOlder /\ UnseenAreDecrypted /\ SettledAreDecrypted /\ ComingAreNewer
      /\ raced \subseteq raced' /\ "misread" \notin lost'
    BY HistoryHolds
<1>2. /\ m \in Exist /\ m \in Settled /\ m \in Written /\ m \notin raced /\ ~InView(m)'
      /\ \/ m \in Unseen
         \/ AskStep /\ view' = <<>>
         \/ \E p \in Pages : Joining(p) /\ ~call[p].more
    BY <1>1, UnseenSteps
<1>3. CASE AskStep /\ view' = <<>>
    <2>1. DOMAIN view' = {}
        BY <1>3
    <2>2. hasMore'
        BY <1>3, <2>1 DEF AskStep
    <2>. QED
        BY <2>1, <2>2
<1>4. ASSUME NEW p \in Pages, Joining(p), m \in Unseen \/ ~call[p].more
      PROVE  hasMore' /\ \A k \in DOMAIN view' :
                 view'[k].id \in Exist' \ raced' => m < view'[k].id
    <2>1. Decrypts(p) /\ hasMore' = ~call[p].end /\ Exist' = Exist
        BY <1>4, SameGrows DEF Joining
    <2>2. Finds(call[p], m)
        BY <1>1, <1>2, <1>4, <2>1 DEF UnseenAreDecrypted, SettledAreDecrypted, Finds
    <2>3. ~Has(call[p].got, m)
        <3>1. \A a \in DOMAIN call[p].got : \E k \in DOMAIN view' : view'[k] = call[p].got[a]
            BY <1>4, JoinedAre
        <3>. QED
            BY <1>2, <3>1 DEF Has, InView
    <2>4. ~call[p].end /\ Below(call[p].got, m)
        BY <2>2, <2>3 DEF Finds
    <2>5. ASSUME NEW k \in DOMAIN view', view'[k].id \in Exist' \ raced'
          PROVE  m < view'[k].id
        <3>1. \/ \E a \in DOMAIN call[p].got : view'[k] = call[p].got[a]
              \/ call[p].more /\ \E i \in DOMAIN view : view'[k] = view[i]
            BY <1>4, JoinedAre
        <3>2. CASE \E a \in DOMAIN call[p].got : view'[k] = call[p].got[a]
            BY <2>4, <3>2 DEF Below
        <3>3. CASE call[p].more /\ \E i \in DOMAIN view : view'[k] = view[i]
            BY <1>1, <1>4, <2>1, <2>5, <3>3 DEF UnseenAreOlder
        <3>. QED
            BY <3>1, <3>2, <3>3
    <2>. QED
        BY <2>1, <2>4, <2>5
<1>5. ASSUME m \in Unseen, ~LoadStep
      PROVE  hasMore' /\ \A k \in DOMAIN view' :
                 view'[k].id \in Exist' \ raced' => m < view'[k].id
    <2>1. hasMore /\ \A i \in DOMAIN view : view[i].id \in Exist \ raced => m < view[i].id
        BY <1>1, <1>5 DEF UnseenAreOlder
    <2>2. hasMore'
        BY <1>5, <2>1 DEF Step, CompanionStep, ServeStep, AnswerStep, ArriveStep, AskStep,
           DecryptStep, SendStep, RequestStep, Requested, Rest, Window, list, vars
    <2>3. ASSUME NEW i \in DOMAIN view, view[i].id \in Exist' \ raced'
          PROVE  m < view[i].id
        BY <1>1, <2>1, <2>3, ShownExisted
    <2>4. ASSUME InFlight = {}, NEW n \in Exist' \ raced', Exist' = Exist, Coming(n)
          PROVE  m < n
        <3>1. NoNewest
            BY <2>4 DEF NoNewest
        <3>. QED
            BY <1>1, <1>5, <2>4, <3>1 DEF ComingAreNewer
    <2>5. ASSUME NEW k \in DOMAIN view', view'[k].id \in Exist' \ raced'
          PROVE  m < view'[k].id
        <3>1. CASE Keeps
            BY <2>3, <2>5, <3>1 DEF Keeps, Drawn
        <3>2. CASE Confirming
            <4>1. \/ view'[k] = view[k] /\ k \in DOMAIN view
                  \/ view[k].id = Temp /\ view'[k].id = Sent(1) /\ k \in DOMAIN view
                BY <3>2, ConfirmedIsLast
            <4>2. CASE view[k].id = Temp /\ view'[k].id = Sent(1) /\ k \in DOMAIN view
                <5>1. InFlight = {}
                    BY <2>5, <3>2, <4>2 DEF Confirming, AnswerStep, Answering
                <5>2. Exist' = Exist
                    BY <3>2, SameGrows DEF Confirming, AnswerStep
                <5>3. Coming(Sent(1))
                    BY <3>2 DEF Confirming, IsSent, Coming, SentComes
                <5>. QED
                    BY <2>4, <2>5, <4>2, <5>1, <5>2, <5>3
            <4>. QED
                BY <2>3, <2>5, <4>1, <4>2
        <3>3. ASSUME NEW e \in decrypting, Adding(e)
              PROVE  m < view'[k].id
            <4>1. (k \in DOMAIN view /\ view'[k] = view[k]) \/ view'[k].id = e.id
                BY <3>3 DEF Adding, Queued, AsSent
            <4>2. CASE view'[k].id = e.id
                <5>1. Exist' = Exist /\ raced' = raced
                    BY <3>3, SameGrows DEF Adding
                <5>2. InFlight = {}
                    BY <2>5, <4>2, <5>1 DEF RacedInv
                <5>3. Coming(e.id)
                    BY <3>3 DEF Adding, Coming, NewDecrypts
                <5>. QED
                    BY <2>4, <2>5, <4>2, <5>1, <5>2, <5>3
            <4>. QED
                BY <2>3, <2>5, <4>1, <4>2
        <3>4. CASE SendStep
            <4>1. (k \in DOMAIN view /\ view'[k] = view[k]) \/ view'[k].id = Temp
                BY <3>4 DEF SendStep, Queued, TempShown
            <4>2. view'[k].id # Temp
                BY <2>5, StillThere, SentinelAssumption
            <4>. QED
                BY <2>3, <2>5, <4>1, <4>2
        <3>5. ~\E p \in Pages : Joining(p)
            BY <1>5 DEF Joining
        <3>. QED
            BY <3>1, <3>2, <3>3, <3>4, <3>5, ViewSteps
    <2>. QED
        BY <2>2, <2>5
<1>6. CASE LoadStep
    <2>1. PICK p \in Pages : Joining(p)
        BY <1>6 DEF LoadStep, Joining, Decrypts
    <2>2. CASE AskStep
        BY <1>6, <2>2 DEF AskStep, LoadStep, Asked
    <2>. QED
        BY <1>2, <1>3, <1>4, <2>1
<1>. QED
    BY <1>2, <1>3, <1>4, <1>5, <1>6
LEMMA AskedKept ==
    ASSUME HistoryHeld
    PROVE  UnseenAreAsked'
<1>. USE DEF BaseInv, HistoryHeld
<1>. SUFFICES ASSUME MoreWaits', NEW i \in DOMAIN up', up'[i].op = "page", up'[i].id \in Exist',
                     NEW m \in Unseen'
              PROVE  m < up'[i].id
    BY DEF UnseenAreAsked, PageAsked
<1>1. /\ UnseenAreOlder /\ UnseenAreAsked /\ raced \subseteq raced'
      /\ "overlap" \notin lost /\ "overlap" \notin lost'
      /\ "misread" \notin lost' /\ "cursor" \notin lost'
    BY HistoryHolds
<1>2. /\ m \in Exist /\ m \in Settled /\ m \in Written /\ m \notin raced /\ ~InView(m)'
      /\ \/ m \in Unseen
         \/ AskStep /\ view' = <<>>
         \/ \E p \in Pages : Joining(p) /\ ~call[p].more
    BY <1>1, UnseenSteps
<1>3. up'[i].id \in Ids
    BY ExistAfter
<1>4. CASE AskStep
    <2>1. PICK cursor \in Ids \cup {None, Temp} :
             /\ \A j \in DOMAIN up' : up'[j].op = "page" => up'[j].id = cursor
             /\ \/ cursor = None /\ view' = <<>> /\ hasMore' = TRUE
                \/ /\ 1 \in DOMAIN view /\ cursor = view[1].id /\ cursor # None
                   /\ hasMore /\ UNCHANGED <<view, hasMore>>
                   /\ cursor \in raced => "cursor" \in lost'
        BY <1>1, <1>4, AskedPage
    <2>2. cursor = up'[i].id /\ cursor # None
        BY <1>3, <2>1, SentinelAssumption
    <2>3. /\ 1 \in DOMAIN view /\ cursor = view[1].id /\ view' = view /\ cursor \notin raced
        BY <1>1, <2>1, <2>2
    <2>4. view' # <<>>
        <3>1. DOMAIN <<>> = {}
            OBVIOUS
        <3>. QED
            BY <2>3, <3>1
    <2>5. ~\E p \in Pages : Joining(p)
        BY <1>4 DEF Joining, LoadStep, AskStep, Asked
    <2>6. Exist' = Exist
        BY <1>4, SameGrows DEF AskStep, Elsewhere
    <2>. QED
        BY <1>1, <1>2, <2>2, <2>3, <2>4, <2>5, <2>6 DEF UnseenAreOlder
<1>5. CASE ~AskStep
    <2>1. NoAsk
        BY <1>5 DEF Step, NoAsk
    <2>2. PICK j \in DOMAIN up : up'[i] = up[j]
        BY <2>1, PagesAsked
    <2>3. PageAsked(j) /\ up[j].id \in Exist
        <3>1. up[j].id \in Written
            BY <1>3, <2>2 DEF UpInv, RequestOK
        <3>. QED
            BY <2>2, <3>1, TableSteps DEF PageAsked
    <2>4. PICK q \in Pages : Waits(q) /\ call[q].more
        BY <2>1, FlightSteps DEF MoreWaits, Waits
    <2>5. \A p \in Pages : ~Decrypts(p)
        BY <1>1, <2>4 DEF OverlapInv, InFlight, Waits, Decrypts
    <2>6. m \in Unseen
        BY <1>2, <1>5, <2>5 DEF Joining
    <2>. QED
        BY <1>1, <2>2, <2>3, <2>4, <2>6 DEF UnseenAreAsked, MoreWaits
<1>. QED
    BY <1>4, <1>5

\* While a call for older messages is on its way, what is not shown was not shown before.
LEMMA WaitingUnseen ==
    ASSUME HistoryHeld, ~AskStep, NEW m \in Unseen',
           NEW q \in InFlight, call[q].more
    PROVE  m \in Unseen
<1>. USE DEF BaseInv, HistoryHeld
<1>1. "overlap" \notin lost /\ "misread" \notin lost'
    BY HistoryHolds
<1>2. ASSUME NEW p \in Pages, Joining(p)
      PROVE  p = q
    <2>1. p \in InFlight
        BY <1>2 DEF Joining, Decrypts, InFlight
    <2>. QED
        BY <1>1, <2>1 DEF OverlapInv
<1>3. ~\E p \in Pages : Joining(p) /\ ~call[p].more
    BY <1>2 DEF Joining
<1>. QED
    BY <1>1, <1>3, UnseenSteps

\* A page that has come was on its way, or it has just been read.
LEMMA ComeKept ==
    ASSUME HistoryHeld
    PROVE  UnseenCome'
<1>. USE DEF BaseInv, HistoryHeld
<1>1. /\ UnseenAreAsked /\ UnseenCome
      /\ "overlap" \notin lost /\ "overlap" \notin lost' /\ "cursor" \notin lost'
    BY HistoryHolds
<1>. SUFFICES ASSUME MoreWaits', NEW i \in DOMAIN down', down'[i].type = "messages",
                     NEW m \in Unseen'
              PROVE  Finds(down'[i], m)
    BY DEF UnseenCome, IsPage
<1>2. ~AskStep /\ NoAsk
    BY <1>1, AskedPage DEF Step, NoAsk
<1>3. PICK q \in Pages : Waits(q) /\ call[q].more
    BY <1>2, FlightSteps DEF MoreWaits, Waits
<1>4. m \in Unseen /\ m \in Exist
    <2>1. q \in InFlight
        BY <1>3 DEF Waits, InFlight
    <2>. QED
        BY <1>2, <1>3, <2>1, WaitingUnseen DEF Unseen, Settled
<1>5. CASE \E j \in DOMAIN down : IsPage(j) /\ down'[i] = down[j]
    BY <1>1, <1>3, <1>4, <1>5 DEF UnseenCome, MoreWaits
<1>6. CASE ServeStep /\ Paged(up[1], down'[i]) /\ PageAsked(1)
    <2>1. up[1].id # None
        BY <1>1, <1>3, <1>6 DEF OverlapInv, PageAsked
    <2>2. up[1].id \in Exist /\ ReadPage(up[1].id, down'[i].got, down'[i].end)
        BY <1>1, <1>6, <2>1 DEF Paged
    <2>3. m < up[1].id
        BY <1>1, <1>3, <1>4, <1>6, <2>2 DEF UnseenAreAsked, MoreWaits, PageAsked
    <2>4. m \in Older(up[1].id)
        BY <1>4, <2>2, <2>3 DEF Older
    <2>. QED
        BY <2>2, <2>4 DEF ReadPage, Finds
<1>. QED
    BY <1>2, <1>5, <1>6, PagePlaces

LEMMA DecryptedKept ==
    ASSUME HistoryHeld
    PROVE  UnseenAreDecrypted'
<1>. USE DEF BaseInv, HistoryHeld
<1>1. /\ UnseenCome /\ UnseenAreDecrypted
      /\ "overlap" \notin lost /\ "overlap" \notin lost'
    BY HistoryHolds
<1>. SUFFICES ASSUME NEW p \in Pages, call'[p].step = "decrypting", call'[p].more, NEW m \in Unseen'
              PROVE  Finds(call'[p], m)
    BY DEF UnseenAreDecrypted, Decrypts
<1>2. ~AskStep
    BY <1>1, AskedPage
<1>3. CASE call'[p] = call[p]
    <2>1. Decrypts(p) /\ call[p].more /\ p \in InFlight
        BY <1>3 DEF Decrypts, InFlight
    <2>2. m \in Unseen
        BY <1>2, <2>1, WaitingUnseen
    <2>. QED
        BY <1>1, <1>3, <2>1, <2>2 DEF UnseenAreDecrypted
<1>4. CASE /\ AnswerStep /\ IsPage(1) /\ Waits(p)
           /\ call'[p].more = call[p].more
           /\ call'[p].got = down[1].got /\ call'[p].end = down[1].end
    <2>1. MoreWaits /\ p \in InFlight /\ call[p].more
        BY <1>4 DEF MoreWaits, Waits, InFlight
    <2>2. m \in Unseen
        BY <1>2, <2>1, WaitingUnseen
    <2>3. Finds(down[1], m)
        BY <1>1, <1>4, <2>1, <2>2 DEF UnseenCome, IsPage
    <2>. QED
        BY <1>4, <2>3 DEF Finds
<1>. QED
    BY <1>2, <1>3, <1>4, CallSteps

\* What comes by itself after the step came before, or it is newer than all there was.
LEMMA NewerStay ==
    ASSUME HistoryHeld, NEW m \in Written, NEW n
    PROVE  /\ n = created + 1 => m < n
           /\ /\ \A l \in Exist \ raced : NewPushed(l) => m < l
              /\ n \in Exist' \ raced' /\ NewPushed(n)'
              => m < n
           /\ (\A l : SentComes(l) => m < l) /\ SentComes(n)' => m < n
<1>. USE DEF BaseInv, HistoryHeld
<1>1. n = created + 1 => m < n
    BY TableSteps
<1>2. ASSUME \A l \in Exist \ raced : NewPushed(l) => m < l,
             n \in Exist' \ raced', NewPushed(n)'
      PROVE  m < n
    <2>1. NewPushed(n) \/ n = created + 1
        BY <1>2, NewPushedSteps
    <2>2. n \notin raced /\ (n \in Exist \/ n = created + 1)
        BY <1>2, StillThere
    <2>. QED
        BY <1>1, <1>2, <2>1, <2>2
<1>3. ASSUME \A l : SentComes(l) => m < l, SentComes(n)'
      PROVE  m < n
    BY <1>1, <1>3, SentSteps
<1>. QED
    BY <1>1, <1>2, <1>3

\* While a call is on its way, what is settled was settled.
LEMMA FlyingSettled ==
    ASSUME HistoryHeld, InFlight # {}, NEW m \in Settled'
    PROVE  m \in Settled /\ m \in Exist /\ m \in Written /\ m \in Ids
<1>. USE DEF BaseInv, HistoryHeld
<1>1. m \in Settled /\ m \in Exist
    BY SettledSteps
<1>. QED
    BY <1>1, ExistIsOfIds DEF Exist, Written

LEMMA SettledKept ==
    ASSUME HistoryHeld
    PROVE  SettledCome'
<1>. USE DEF BaseInv, HistoryHeld
<1>1. /\ SettledCome /\ raced \subseteq raced'
      /\ "overlap" \notin lost /\ "overlap" \notin lost'
    BY HistoryHolds
<1>. SUFFICES ASSUME NewestWaits', NEW i \in DOMAIN down', down'[i].type = "messages",
                     NEW m \in Settled'
              PROVE  \/ Has(down'[i].got, m)
                     \/ /\ ~down'[i].end /\ Below(down'[i].got, m)
                        /\ \A n \in Exist' \ raced' : NewPushed(n)' => m < n
                        /\ \A k \in DOMAIN down' :
                              k > i /\ down'[k].type = "message_sent" => m < down'[k].got[1].id
    BY DEF SettledCome, IsPage, IsSent, Sent
<1>2. ~AskStep /\ NoAsk
    BY <1>1, AskedPage DEF Step, NoAsk
<1>3. PICK q \in Pages : Waits(q) /\ ~call[q].more
    BY <1>2, FlightSteps DEF NewestWaits, Waits
<1>4. m \in Settled /\ m \in Exist /\ m \in Written /\ m \in Ids
    <2>1. q \in InFlight
        BY <1>3 DEF Waits, InFlight
    <2>. QED
        BY <2>1, FlyingSettled
<1>5. ASSUME NEW j \in DOMAIN down, IsPage(j), down'[i] = down[j],
             \A k \in DOMAIN down' : k > i /\ down'[k].type = "message_sent" =>
                \/ down'[k].got[1].id = created + 1
                \/ \E l \in DOMAIN down : l > j /\ IsSent(l) /\ down[l] = down'[k],
             ~Has(down'[i].got, m)
      PROVE  /\ ~down'[i].end /\ Below(down'[i].got, m)
             /\ \A n \in Exist' \ raced' : NewPushed(n)' => m < n
             /\ \A k \in DOMAIN down' :
                   k > i /\ down'[k].type = "message_sent" => m < down'[k].got[1].id
    <2>1. /\ ~down[j].end /\ Below(down[j].got, m)
          /\ \A n \in Exist \ raced : NewPushed(n) => m < n
          /\ \A k \in DOMAIN down : k > j /\ IsSent(k) => m < Sent(k)
        BY <1>1, <1>3, <1>4, <1>5 DEF SettledCome, NewestWaits
    <2>2. \A n \in Exist' \ raced' : NewPushed(n)' => m < n
        BY <1>4, <2>1, NewerStay
    <2>3. ASSUME NEW k \in DOMAIN down', k > i, down'[k].type = "message_sent"
          PROVE  m < down'[k].got[1].id
        <3>1. CASE down'[k].got[1].id = created + 1
            BY <1>4, <3>1, NewerStay
        <3>2. ASSUME NEW l \in DOMAIN down, l > j, IsSent(l), down[l] = down'[k]
              PROVE  m < down'[k].got[1].id
            BY <2>1, <3>2 DEF Sent
        <3>. QED
            BY <1>5, <2>3, <3>1, <3>2
    <2>. QED
        BY <1>5, <2>1, <2>2, <2>3
<1>6. CASE /\ ServeStep /\ Paged(up[1], down'[i]) /\ PageAsked(1)
           /\ \A k \in DOMAIN down' : ~(k > i)
    <2>1. up[1].id = None
        BY <1>1, <1>3, <1>6 DEF OverlapInv, PageAsked
    <2>2. /\ ReadPage(None, down'[i].got, down'[i].end)
          /\ \A n \in Ids : NewPushed(n) => n \in raced' \/ Has(down'[i].got, n)
          /\ UNCHANGED <<rows, created, pushes>>
        BY <1>6, <2>1 DEF Paged
    <2>3. m \in Older(None)
        BY <1>4 DEF Older
    <2>4. Has(down'[i].got, m) \/ (~down'[i].end /\ Below(down'[i].got, m))
        BY <2>2, <2>3 DEF ReadPage
    <2>5. ASSUME Below(down'[i].got, m), NEW n \in Exist' \ raced', NewPushed(n)'
          PROVE  m < n
        <3>1. NewPushed(n) /\ n \in Ids
            BY <2>2, <2>5, StillThere DEF NewPushed, Pushed
        <3>2. Has(down'[i].got, n)
            BY <2>2, <2>5, <3>1
        <3>. QED
            BY <2>5, <3>2 DEF Has, Below
    <2>. QED
        BY <1>6, <2>4, <2>5
<1>. QED
    BY <1>2, <1>5, <1>6, PagePlaces

LEMMA SettledDecryptedKept ==
    ASSUME HistoryHeld
    PROVE  SettledAreDecrypted'
<1>. USE DEF BaseInv, HistoryHeld
<1>1. /\ SettledCome /\ SettledAreDecrypted /\ raced \subseteq raced'
      /\ "overlap" \notin lost /\ "overlap" \notin lost'
    BY HistoryHolds
<1>. SUFFICES ASSUME NEW p \in Pages, call'[p].step = "decrypting", ~call'[p].more,
                     NEW m \in Settled', ~Has(call'[p].got, m)
              PROVE  /\ ~call'[p].end /\ Below(call'[p].got, m)
                     /\ \A n \in Exist' \ raced' : NewPushed(n)' => m < n
                     /\ \A n : SentComes(n)' => m < n
    BY DEF SettledAreDecrypted, Decrypts
<1>2. ~AskStep
    BY <1>1, AskedPage
<1>3. CASE call'[p] = call[p]
    <2>1. Decrypts(p) /\ ~call[p].more /\ p \in InFlight
        BY <1>3 DEF Decrypts, InFlight
    <2>2. m \in Settled /\ m \in Written
        BY <2>1, FlyingSettled
    <2>3. /\ ~call[p].end /\ Below(call[p].got, m)
          /\ \A n \in Exist \ raced : NewPushed(n) => m < n
          /\ \A n : SentComes(n) => m < n
        BY <1>1, <1>3, <2>1, <2>2 DEF SettledAreDecrypted
    <2>. QED
        BY <1>3, <2>2, <2>3, NewerStay
<1>4. CASE /\ AnswerStep /\ IsPage(1) /\ Waits(p)
           /\ call'[p].more = call[p].more
           /\ call'[p].got = down[1].got /\ call'[p].end = down[1].end
    <2>1. NewestWaits /\ p \in InFlight
        BY <1>4 DEF NewestWaits, Waits, InFlight
    <2>2. m \in Settled /\ m \in Written
        BY <2>1, FlyingSettled
    <2>3. /\ ~down[1].end /\ Below(down[1].got, m)
          /\ \A n \in Exist \ raced : NewPushed(n) => m < n
          /\ \A k \in DOMAIN down : k > 1 /\ IsSent(k) => m < Sent(k)
        BY <1>1, <1>4, <2>1, <2>2 DEF SettledCome, IsPage
    <2>4. ASSUME NEW k \in DOMAIN down', down'[k].type = "message_sent"
          PROVE  m < down'[k].got[1].id
        <3>1. k + 1 \in DOMAIN down /\ k + 1 > 1 /\ down'[k] = down[k + 1]
            BY <1>4 DEF AnswerStep, Shifted
        <3>. QED
            BY <2>3, <2>4, <3>1 DEF IsSent, Sent
    <2>5. \A n : SentComes(n)' => m < n
        BY <2>4 DEF SentComes, IsSent, Sent
    <2>6. \A n \in Exist' \ raced' : NewPushed(n)' => m < n
        BY <2>2, <2>3, NewerStay
    <2>. QED
        BY <1>4, <2>3, <2>5, <2>6
<1>. QED
    BY <1>2, <1>3, <1>4, CallSteps

LEMMA ComingKept ==
    ASSUME HistoryHeld
    PROVE  ComingAreNewer'
<1>. USE DEF BaseInv, HistoryHeld
<1>1. /\ SettledAreDecrypted /\ ComingAreNewer /\ raced \subseteq raced'
      /\ "overlap" \notin lost /\ "overlap" \notin lost' /\ "misread" \notin lost'
      /\ "unloaded" \notin lost'
    BY HistoryHolds
<1>. SUFFICES ASSUME NoNewest', NEW m \in Unseen', NEW n \in Exist' \ raced', Coming(n)'
              PROVE  m < n
    BY DEF ComingAreNewer
<1>2. /\ m \in Exist /\ m \in Settled /\ m \in Written /\ m \notin raced /\ ~InView(m)'
      /\ \/ m \in Unseen
         \/ AskStep /\ view' = <<>>
         \/ \E p \in Pages : Joining(p) /\ ~call[p].more
    BY <1>1, UnseenSteps
<1>3. n = created + 1 => m < n
    BY <1>2, NewerStay
<1>4. n = created + 1 \/ (Coming(n) /\ n \in Exist \ raced)
    BY ComingSteps, StillThere
<1>. SUFFICES ASSUME Coming(n), n \in Exist \ raced
              PROVE  m < n
    BY <1>3, <1>4
<1>5. CASE AskStep
    <2>1. PICK p \in Pages, cursor \in Ids \cup {None, Temp} :
             /\ Asked(p, cursor)
             /\ \/ cursor = None /\ view' = <<>> /\ hasMore' = TRUE
                \/ /\ 1 \in DOMAIN view /\ cursor = view[1].id /\ cursor # None
                   /\ hasMore /\ UNCHANGED <<view, hasMore>>
        BY <1>5 DEF AskStep
    <2>2. call'[p].step = "waiting" /\ (call'[p].more <=> cursor # None)
        BY <2>1 DEF Asked
    <2>3. cursor # None
        BY <2>2 DEF NoNewest, InFlight
    <2>4. view' = view /\ 1 \in DOMAIN view
        BY <2>1, <2>3
    <2>5. view' # <<>>
        <3>1. DOMAIN <<>> = {}
            OBVIOUS
        <3>. QED
            BY <2>4, <3>1
    <2>6. NoNewest
        BY <1>1, <1>5, AskedPage DEF NoNewest
    <2>7. ~\E q \in Pages : Joining(q)
        BY <1>5 DEF Joining, LoadStep, AskStep, Asked
    <2>. QED
        BY <1>1, <1>2, <2>5, <2>6, <2>7 DEF ComingAreNewer
<1>6. CASE ~AskStep /\ NoNewest
    <2>1. \A p \in Pages : Joining(p) => call[p].more
        BY <1>6 DEF NoNewest, Joining, Decrypts, InFlight
    <2>. QED
        BY <1>1, <1>2, <1>6, <2>1 DEF ComingAreNewer
<1>7. CASE ~AskStep /\ ~NoNewest
    <2>1. PICK q \in InFlight : q \in Pages /\ ~call[q].more
        BY <1>7 DEF NoNewest, InFlight
    <2>2. CASE LoadStep /\ Decrypts(q)
        <3>1. PICK p \in Pages : Joining(p)
            BY <2>2 DEF LoadStep, Joining, Decrypts
        <3>2. p = q
            <4>1. p \in InFlight
                BY <3>1 DEF Joining, Decrypts, InFlight
            <4>. QED
                BY <1>1, <2>1, <4>1 DEF OverlapInv
        <3>3. ~Has(call[q].got, m)
            <4>1. \A a \in DOMAIN call[q].got : \E k \in DOMAIN view' : view'[k] = call[q].got[a]
                BY <3>1, <3>2, JoinedAre
            <4>. QED
                BY <1>2, <4>1 DEF Has, InView
        <3>4. /\ \A l \in Exist \ raced : NewPushed(l) => m < l
              /\ \A l : SentComes(l) => m < l
            BY <1>1, <1>2, <2>1, <2>2, <3>3 DEF SettledAreDecrypted
        <3>5. ~NewDecrypts(n)
            BY <2>1 DEF RacedInv, NewDecrypts
        <3>. QED
            BY <3>4, <3>5 DEF Coming
    <2>3. CASE call'[q] = call[q]
        BY <2>1, <2>3 DEF NoNewest, InFlight
    <2>4. CASE AnswerStep /\ IsPage(1) /\ call'[q].step = "decrypting" /\ call'[q].more = call[q].more
        BY <2>1, <2>4 DEF NoNewest, InFlight
    <2>5. CASE AnswerStep /\ down[1].type = "error" /\ Waits(q)
        BY <1>1, <2>1, <2>5 DEF AnswerStep, Answering, NewestWaits
    <2>. QED
        BY <1>7, <2>1, <2>2, <2>3, <2>4, <2>5, CallSteps
<1>. QED
    BY <1>5, <1>6, <1>7

LEMMA HistoryKept ==
    ASSUME BaseInv, BaseInv', Step, HistoryInv
    PROVE  HistoryInv'
<1>. SUFFICES ASSUME lost' \cap {"overlap", "cursor", "misread", "unloaded"} = {}
              PROVE  HistoryInv'
    BY DEF HistoryInv
<1>1. HistoryHeld
    BY DEF HistoryHeld
<1>. QED
    BY <1>1, OlderKept, AskedKept, ComeKept, DecryptedKept, SettledKept, SettledDecryptedKept,
       ComingKept DEF HistoryInv

-----------------------------------------------------------------------------
(* The properties.                                                         *)

\* At first nothing is shown and nothing is on its way.
LEMMA EmptyHolds ==
    ASSUME Init
    PROVE  ReadInv /\ DistinctInv /\ CurrentInv /\ HistoryInv
<1>1. /\ DOMAIN up = {} /\ DOMAIN down = {} /\ DOMAIN pushes = {} /\ DOMAIN view = {}
      /\ Written = {} /\ Exist = {} /\ decrypting = {}
      /\ \A p \in Pages : ~Decrypts(p)
    BY InitIsEmpty DEF Decrypts, Init
<1>2. ReadInv
    BY <1>1 DEF ReadInv
<1>3. DistinctInv
    BY <1>1 DEF DistinctInv
<1>4. CurrentInv
    BY <1>1 DEF CurrentInv
<1>5. Unseen = {} /\ Settled = {}
    BY <1>1 DEF Unseen, Settled
<1>6. HistoryInv
    BY <1>1, <1>5 DEF HistoryInv, UnseenAreOlder, UnseenAreAsked, UnseenCome,
       UnseenAreDecrypted, SettledCome, SettledAreDecrypted, ComingAreNewer
<1>. QED
    BY <1>2, <1>3, <1>4, <1>6

\* A message that the list shows as read by the companion is read in the table, or
\* an event of this user's own reading marked it: the marks come from the rows of
\* pages and from message_read events, which mark up to a place in the list, and
\* the list has the user's messages in their order.
THEOREM MarksAreTrue == Spec => []ReadMarksAreTrue
<1>1. Init => BaseInv /\ ReadInv
    BY BaseInit, EmptyHolds
<1>2. BaseInv /\ ReadInv /\ [Next]_vars => (BaseInv /\ ReadInv)'
    BY BaseKept, ReadKept
<1>3. BaseInv /\ ReadInv => ReadMarksAreTrue
    BY DEF ReadInv, ReadMarksAreTrue
<1>. QED
    BY <1>1, <1>2, <1>3, PTL DEF Spec

\* No message is in the list twice: new_message events look for it by its id, a page
\* of older messages ends before the oldest of the list, and the answer to a send
\* names one that neither page nor list has; unless it raced.
THEOREM Distinct == Spec => []ViewIsDistinct
<1>1. Init => BaseInv /\ DistinctInv
    BY BaseInit, EmptyHolds
<1>2. BaseInv /\ DistinctInv /\ [Next]_vars => (BaseInv /\ DistinctInv)'
    BY BaseKept, DistinctKept
<1>3. ASSUME BaseInv, DistinctInv
      PROVE  ViewIsDistinct
    <2>. SUFFICES ASSUME lost \cap {"overlap", "disorder"} = {},
                         NEW i \in DOMAIN view, NEW j \in DOMAIN view, view[i].id = view[j].id
                  PROVE  i = j \/ view[i].id \in raced
        BY DEF ViewIsDistinct
    <2>1. CASE view[i].id # Temp
        BY <1>3, <2>1 DEF DistinctInv
    <2>2. CASE view[i].id = Temp
        <3>1. i \in Nat /\ j \in Nat
            BY <1>3, SeqOf DEF BaseInv, TypeOK
        <3>2. ~(i < j) /\ ~(j < i)
            BY <1>3, <2>2 DEF BaseInv, ViewInv
        <3>. QED
            BY <3>1, <3>2
    <2>. QED
        BY <2>1, <2>2
<1>. QED
    BY <1>1, <1>2, <1>3, PTL DEF Spec

\* When nothing is on its way, what the list shows is in the table with the content
\* shown: a deletion or an alteration that a page, an event or a send does not have
\* yet is told by an event behind it.
THEOREM Current == Spec => []ViewIsCurrent
<1>1. Init => BaseInv /\ CurrentInv
    BY BaseInit, EmptyHolds
<1>2. BaseInv /\ CurrentInv /\ [Next]_vars => (BaseInv /\ CurrentInv)'
    BY BaseKept, CurrentKept
<1>3. ASSUME BaseInv, CurrentInv
      PROVE  ViewIsCurrent
    <2>. SUFFICES ASSUME Quiet, NEW i \in DOMAIN view
                  PROVE  /\ view[i].id # Temp
                         /\ view[i].content = Other => "resent" \in lost
                         /\ lost \cap {"overlap", "misread"} = {} /\ view[i].id \notin raced =>
                               /\ view[i].id \in Exist
                               /\ view[i].content \in {rows[view[i].id].content, Other}
        BY DEF ViewIsCurrent
    <2>1. DOMAIN up = {} /\ DOMAIN down = {} /\ DOMAIN pushes = {} /\ decrypting = {}
        BY DEF Quiet
    <2>2. view[i].id # Temp /\ view[i].id \in Written
        BY <1>3, <2>1 DEF BaseInv, SendInv, ViewInv, OfTable
    <2>3. ASSUME lost \cap {"overlap", "misread"} = {}, view[i].id \notin raced
          PROVE  /\ view[i].id \in Exist
                 /\ view[i].content \in {rows[view[i].id].content, Other}
        <3>1. Fresh(view[i])
            BY <1>3, <2>2, <2>3 DEF CurrentInv
        <3>. QED
            BY <2>1, <2>2, <2>3, <3>1 DEF Fresh, Pushed, Exist, Written
    <2>4. view[i].content = Other => "resent" \in lost
        BY <1>3 DEF BaseInv, TextInv
    <2>. QED
        BY <2>2, <2>3, <2>4
<1>. QED
    BY <1>1, <1>2, <1>3, PTL DEF Spec

\* When nothing is on its way and the list has no more to load, no message of the
\* chat is missing in it: what was not shown was always before the oldest one shown,
\* and the last page of older messages had it.
THEOREM HistoryEnds == Spec => []HistoryEndsTrue
<1>1. Init => BaseInv /\ HistoryInv
    BY BaseInit, EmptyHolds
<1>2. BaseInv /\ HistoryInv /\ [Next]_vars => (BaseInv /\ HistoryInv)'
    BY BaseKept, HistoryKept
<1>3. ASSUME HistoryInv
      PROVE  HistoryEndsTrue
    <2>. SUFFICES ASSUME Quiet, ~hasMore,
                         lost \cap {"overlap", "cursor", "misread", "unloaded"} = {},
                         NEW m \in Exist \ raced
                  PROVE  InView(m)
        BY DEF HistoryEndsTrue
    <2>1. DOMAIN down = {} /\ DOMAIN pushes = {} /\ decrypting = {}
        BY DEF Quiet
    <2>2. m \in Settled
        BY <2>1 DEF Settled, Coming, NewPushed, Pushed, NewDecrypts, SentComes
    <2>3. m \notin Unseen
        BY <1>3 DEF HistoryInv, UnseenAreOlder
    <2>. QED
        BY <2>2, <2>3 DEF Unseen
<1>. QED
    BY <1>1, <1>2, <1>3, PTL DEF Spec
==============================================================================
