------------------------------ MODULE History ------------------------------
(***************************************************************************)
(* What a member reads back from a direct conversation: the pages of its   *)
(* messages (conversation.message.list) and its entry in the list of       *)
(* conversations (conversation.list), while both members go on writing,    *)
(* deleting and reading.                                                   *)
(*                                                                         *)
(* Reader is the member whose requests are followed, Peer the other one.   *)
(* A request is several queries, each of them a step: the tables may       *)
(* change between two of them.  A write is one step here, except that a    *)
(* message has its id and its time before its row is visible; how writes   *)
(* disturb one another is the subject of Messaging.                        *)
(***************************************************************************)
EXTENDS Pages

CONSTANTS Reader, Peer,  \* the two members
          MaxMessages,   \* bound on the messages
          MaxReplies,    \* bound on the messages that quote another one
          MaxChanges,    \* bound on the hidings, deletions and receipts
          Ticks,         \* the milliseconds between two messages
          PagesAsked,    \* values of "page" a client starts to read with
          SizesAsked     \* values of "pageSize" it asks for

ASSUME HistoryAssumption ==
  /\ Reader # Peer
  /\ MaxMessages \in Nat /\ MaxReplies \in Nat /\ MaxChanges \in Nat
  /\ Ticks \subseteq Nat
  /\ \A p \in PagesAsked : p = NaN \/ p \in Int
  /\ \A s \in SizesAsked : s = NaN \/ s \in Int

VARIABLES
  state,     \* of each message: "none", "created" (not yet committed),
             \* "stored" or "deleted" (a tombstone)
  sender,    \* who wrote it
  at,        \* its created_at, a number of milliseconds
  quoted,    \* the message it replies to, or 0
  hidden,    \* deleted_messages: the messages hidden from each member
  lastSeen,  \* last_seen_message_id of the members, or 0
  last,      \* last_message_id of the reader, or 0
  request,   \* the request of the reader in progress, up to its answer
  walk,      \* history: the pages the reader turned so far
  seenBy,    \* history: the messages stored when a member last read
  overlapped,\* history: two messages were on their way at the same time
  changes    \* number of hidings, deletions and receipts

table == <<state, sender, at, quoted, hidden, lastSeen, last>>
vars == <<table, request, walk, seenBy, overlapped, changes>>

----------------------------------------------------------------------------

User == {Reader, Peer}
Msg == 1 .. MaxMessages
MsgOrNull == 0 .. MaxMessages
Other(u) == IF u = Reader THEN Peer ELSE Reader

Stored == {m \in Msg : state[m] \in {"stored", "deleted"}}
Live == {m \in Msg : state[m] = "stored"}
(* The messages a member finds in the history, tombstones included.        *)
Visible(u) == Stored \ hidden[u]

(* What the queries of a request have returned so far.  Of a page: the     *)
(* receipts, the rows, the messages that are not tombstones, the number of *)
(* rows in all, the messages hidden from the reader; of an entry of the    *)
(* list: the last message, its tick and the number of unread messages.     *)
(* History: what was withheld when the request came in, and whether        *)
(* nothing was written since.                                              *)
Request == [step : {"idle", "rows", "count", "quotes", "page", "unread",
                    "others", "entry"},
            receipts : [User -> MsgOrNull], rows : SUBSET Msg,
            live : SUBSET Msg, total : MsgOrNull, hidden : SUBSET Msg,
            last : MsgOrNull, seen : BOOLEAN, unread : MsgOrNull,
            deletedThen : SUBSET Msg, hiddenThen : SUBSET Msg,
            quiet : BOOLEAN]
Idle == [step |-> "idle", receipts |-> [u \in User |-> 0], rows |-> {},
         live |-> {}, total |-> 0, hidden |-> {},
         last |-> 0, seen |-> FALSE, unread |-> 0,
         deletedThen |-> {}, hiddenThen |-> {}, quiet |-> FALSE]

Walk == [page : Nat, size : 1 .. MaxPageSize, start : SUBSET Msg,
         got : SUBSET Msg, hid : BOOLEAN, done : BOOLEAN]
NoWalk == [page |-> 0, size |-> 1, start |-> {}, got |-> {}, hid |-> FALSE,
           done |-> FALSE]

TypeOK ==
  /\ state \in [Msg -> {"none", "created", "stored", "deleted"}]
  /\ sender \in [Msg -> User]
  /\ at \in [Msg -> Nat]
  /\ quoted \in [Msg -> MsgOrNull]
  /\ hidden \in [User -> SUBSET Msg]
  /\ lastSeen \in [User -> MsgOrNull]
  /\ last \in MsgOrNull
  /\ request \in Request
  /\ walk \in Walk
  /\ seenBy \in [User -> SUBSET Msg]
  /\ overlapped \in BOOLEAN
  /\ changes \in 0 .. MaxChanges

Init ==
  /\ state = [m \in Msg |-> "none"]
  /\ sender = [m \in Msg |-> Reader]
  /\ at = [m \in Msg |-> 0]
  /\ quoted = [m \in Msg |-> 0]
  /\ hidden = [u \in User |-> {}]
  /\ lastSeen = [u \in User |-> 0]
  /\ last = 0
  /\ request = Idle
  /\ walk = NoWalk
  /\ seenBy = [u \in User |-> {}]
  /\ overlapped = FALSE
  /\ changes = 0

----------------------------------------------------------------------------
(* The writes of the two members.                                          *)

(* An entry that is being put together notices every write.                *)
Noticed == [request EXCEPT !.quiet = FALSE]

(* MessageEntity.create: the id and the time are taken in the process,     *)
(* before the transaction; two messages may fall into one millisecond.     *)
Create(m, u) ==
  /\ state[m] = "none"
  /\ \A n \in 1 .. m - 1 : state[n] # "none"
  /\ state' = [state EXCEPT ![m] = "created"]
  /\ sender' = [sender EXCEPT ![m] = u]
  /\ \E later \in Ticks :
       at' = [at EXCEPT ![m] = IF m = 1 THEN 1 ELSE at[m - 1] + later]
  /\ \E q \in {0} \cup (Live \ hidden[u]) :
       /\ q # 0 => Cardinality({n \in Msg : quoted[n] # 0}) < MaxReplies
       /\ quoted' = [quoted EXCEPT ![m] = q]
  /\ overlapped' = (overlapped \/ \E n \in Msg : state[n] = "created")
  /\ UNCHANGED <<hidden, lastSeen, last, request, walk, seenBy, changes>>

Change == changes < MaxChanges /\ changes' = changes + 1

(* saveMessage commits: the sender has seen the message; a receiver who    *)
(* blocked the sender finds it hidden, and keeps the last message.         *)
Commit(m, blocked) ==
  /\ IF blocked THEN Change ELSE UNCHANGED changes
  /\ state[m] = "created"
  /\ state' = [state EXCEPT ![m] = "stored"]
  /\ LET u == sender[m]
     IN  /\ lastSeen' = [lastSeen EXCEPT ![u] = m]
         /\ seenBy' = [seenBy EXCEPT ![u] = @ \cup Stored \cup {m}]
         /\ hidden' = IF blocked
                      THEN [hidden EXCEPT ![Other(u)] = @ \cup {m}]
                      ELSE hidden
         /\ last' = IF blocked /\ u = Peer THEN last ELSE m
  /\ request' = Noticed
  /\ UNCHANGED <<sender, at, quoted, walk, overlapped>>

(* saveMessageDeletion recomputes a last message that is deleted.          *)
Newest(msgs) ==
  {k \in MsgOrNull : IF msgs = {} THEN k = 0
                     ELSE k \in msgs /\ \A n \in msgs : n <= k}

Tombstone(m) ==
  /\ Change
  /\ state[m] = "stored"
  /\ state' = [state EXCEPT ![m] = "deleted"]
  /\ last' \in IF last = m THEN Newest((Live \ {m}) \ hidden[Reader])
               ELSE {last}
  /\ request' = Noticed
  /\ UNCHANGED <<sender, at, quoted, hidden, lastSeen, walk, seenBy,
                 overlapped>>

(* Delete for me: by the reader, on another device, it disturbs a walk.    *)
Hide(m, u) ==
  /\ Change
  /\ m \in Live \ hidden[u]
  /\ hidden' = [hidden EXCEPT ![u] = @ \cup {m}]
  /\ last' \in IF u = Reader /\ last = m
               THEN Newest((Live \ {m}) \ hidden[Reader])
               ELSE {last}
  /\ walk' = IF u = Reader THEN [walk EXCEPT !.hid = TRUE] ELSE walk
  /\ request' = Noticed
  /\ UNCHANGED <<state, sender, at, quoted, lastSeen, seenBy, overlapped>>

(* markSeen: any message, older ones too.                                  *)
MarkSeen(m, u) ==
  /\ Change
  /\ m \in Visible(u)
  /\ lastSeen[u] # m
  /\ lastSeen' = [lastSeen EXCEPT ![u] = m]
  /\ seenBy' = [seenBy EXCEPT ![u] = @ \cup Stored]
  /\ request' = Noticed
  /\ UNCHANGED <<state, sender, at, quoted, hidden, last, walk, overlapped>>

Write ==
  \E m \in Msg :
    \/ Tombstone(m)
    \/ \E blocked \in BOOLEAN : Commit(m, blocked)
    \/ \E u \in User : Create(m, u) \/ Hide(m, u) \/ MarkSeen(m, u)

----------------------------------------------------------------------------
(* conversation.message.list.                                              *)

(* The gateway reads the conversation and the receipts of its members.     *)
(* The walk of the reader is history: from its first page on, the next     *)
(* page each time as long as the totals leave one, of the same size.       *)
AskPage(p, size) ==
  /\ request.step = "idle"
  /\ \/ /\ ParsedPage(p) = 1
        /\ walk' = [NoWalk EXCEPT !.page = 1, !.size = ParsedSize(size),
                                  !.start = Visible(Reader)]
     \/ /\ walk.page # 0 /\ ~walk.done
        /\ ParsedPage(p) = walk.page + 1 /\ ParsedSize(size) = walk.size
        /\ walk' = [walk EXCEPT !.page = @ + 1]
  /\ request' = [Idle EXCEPT
       !.step = "rows", !.receipts = lastSeen,
       !.deletedThen = Stored \ Live, !.hiddenThen = hidden[Reader]]
  /\ UNCHANGED <<table, seenBy, overlapped, changes>>

(* The orders of rows of the same millisecond.                             *)
Tie == {f \in [Msg -> Msg] : \A m, n \in Msg : f[m] = f[n] => m = n}

(* ORDER BY m.created_at DESC, and nothing else.                           *)
Newer(m, n, tie) == at[m] > at[n] \/ (at[m] = at[n] /\ tie[m] > tie[n])
Order(tie) == {p \in Msg \X Msg : Newer(p[1], p[2], tie)}

(* Mutant of Found: tombstones are left out.                               *)
FoundLive == Live \ hidden[Reader]

(* The messages of the conversation without those hidden from the reader.  *)
Found == Visible(Reader)

ReadRows ==
  /\ request.step = "rows"
  /\ \E tie \in Tie :
       request' = [request EXCEPT
         !.step = "count", !.live = Live,
         !.rows = PageOf(Found, Order(tie), walk.page, walk.size)]
  /\ UNCHANGED <<table, walk, seenBy, overlapped, changes>>

ReadCount ==
  /\ request.step = "count"
  /\ request' = [request EXCEPT !.step = "quotes",
                                !.total = Cardinality(Found)]
  /\ UNCHANGED <<table, walk, seenBy, overlapped, changes>>

(* The quoted messages hidden from the reader are looked up last.          *)
ReadQuotes ==
  /\ request.step = "quotes"
  /\ request' = [request EXCEPT !.step = "page", !.hidden = hidden[Reader]]
  /\ UNCHANGED <<table, walk, seenBy, overlapped, changes>>

(* What the answer shows: the rows with their text, those with the text of *)
(* the message they quote, and those that are seen.                        *)
TextShown == request.rows \cap request.live

(* Mutant of QuoteShown: only a tombstone withholds the quoted text.       *)
QuoteShownLive ==
  {m \in request.rows : quoted[m] # 0 /\ quoted[m] \in request.live}

QuoteShown ==
  {m \in request.rows : /\ quoted[m] # 0
                        /\ quoted[m] \in request.live \ request.hidden}

(* Whether a message is not newer than a receipt.                          *)
SeenBy(m, receipt) == m # 0 /\ receipt # 0 /\ at[m] <= at[receipt]

(* Mutant of SeenShown: the receipt of the wrong member.                   *)
SeenShownOwn ==
  {m \in request.rows : SeenBy(m, request.receipts[sender[m]])}

(* A message is seen if it is not newer than the receipt of the member who *)
(* did not write it.                                                       *)
SeenShown ==
  {m \in request.rows : SeenBy(m, request.receipts[Other(sender[m])])}

(* The walk is done when the total leaves no further page.                 *)
AnswerPage ==
  /\ request.step = "page"
  /\ walk' = [walk EXCEPT
       !.got = @ \cup request.rows,
       !.done = ~HasNext(walk.page, walk.size, request.total)]
  /\ request' = Idle
  /\ UNCHANGED <<table, seenBy, overlapped, changes>>

----------------------------------------------------------------------------
(* conversation.list, for the entry of this conversation.                  *)

(* The reader's row, with its last message and its receipt.                *)
AskList ==
  /\ request.step = "idle"
  /\ request' = [Idle EXCEPT !.step = "unread", !.last = last, !.quiet = TRUE,
                             !.seen = SeenBy(last, lastSeen[Reader])]
  /\ walk' = NoWalk
  /\ UNCHANGED <<table, seenBy, overlapped, changes>>

(* The live messages after the receipt, own ones included.                 *)
AfterReceipt == {m \in Live : lastSeen[Reader] = 0 \/ m > lastSeen[Reader]}

(* Mutant of NotSeenCount: what the peer deleted is subtracted as well.    *)
NotSeenCountOfAll ==
  Cardinality(AfterReceipt)
    - Cardinality(AfterReceipt \cap (hidden[Reader] \cup hidden[Peer]))

(* Mutant of NotSeenCount: whatever the reader deleted is subtracted.      *)
NotSeenCountOfHidden == Cardinality(AfterReceipt) - Cardinality(hidden[Reader])

(* COUNT(m.id) - COUNT(dm.message_id) over a left join with the messages   *)
(* hidden from the reader.                                                 *)
NotSeenCount ==
  Cardinality(AfterReceipt) - Cardinality(AfterReceipt \cap hidden[Reader])

CountUnread ==
  /\ request.step = "unread"
  /\ request' = [request EXCEPT !.step = "others", !.unread = NotSeenCount]
  /\ UNCHANGED <<table, walk, seenBy, overlapped, changes>>

(* The row of the other member is read last: its receipt tells whether a   *)
(* message of the reader is seen.                                          *)
OwnLast == request.last # 0 /\ sender[request.last] = Reader
ReadOthers ==
  /\ request.step = "others"
  /\ request' = [request EXCEPT
       !.step = "entry",
       !.seen = IF OwnLast THEN SeenBy(request.last, lastSeen[Peer]) ELSE @]
  /\ UNCHANGED <<table, walk, seenBy, overlapped, changes>>

AnswerList ==
  /\ request.step = "entry"
  /\ request' = Idle
  /\ UNCHANGED <<table, walk, seenBy, overlapped, changes>>

----------------------------------------------------------------------------

Read ==
  \/ \E p \in PagesAsked \cup {walk.page + 1}, s \in SizesAsked : AskPage(p, s)
  \/ ReadRows \/ ReadCount \/ ReadQuotes \/ AnswerPage
  \/ AskList \/ CountUnread \/ ReadOthers \/ AnswerList

Next == Write \/ Read

Spec == Init /\ [][Next]_vars

----------------------------------------------------------------------------

Created == {m \in Msg : state[m] # "none"}
NoTies == \A m, n \in Created : at[m] = at[n] => m = n

(* A reader who turns the pages to the end has got every message that was  *)
(* there to begin with, although messages come in, late ones among them,   *)
(* and others are deleted for everyone, between any two queries.  Offsets  *)
(* promise this only while the reader hides nothing on another device,     *)
(* which moves messages to a page already turned, and while no two         *)
(* messages share a millisecond, for then their order may change.          *)
WalkComplete ==
  walk.done /\ ~walk.hid /\ NoTies => walk.start \subseteq walk.got

(* No page shows the text of a message, or quotes it in a reply, that was  *)
(* deleted for everyone when the page was asked for, nor quotes one hidden *)
(* from the reader by then.                                                *)
WithheldStaysWithheld ==
  request.step = "page" =>
    /\ TextShown \cap request.deletedThen = {}
    /\ \A m \in QuoteShown :
         quoted[m] \notin request.deletedThen \cup request.hiddenThen

(* A message shown as seen, on a page or as the last one of the list, was  *)
(* stored when the member whose receipt says so last read; a receipt may   *)
(* otherwise vouch for a message that was on its way at the time.          *)
SeenWasThere ==
  ~overlapped /\ NoTies =>
    /\ request.step = "page" =>
         \A m \in SeenShown : m \in seenBy[Other(sender[m])]
    /\ request.step = "entry" /\ request.seen =>
         request.last \in seenBy[Other(sender[request.last])]

(* The number of unread messages, counted by id, and the tick of the last  *)
(* message, told by its time, agree on whether there is something to read, *)
(* when nothing is written between the two queries.                        *)
BadgeAgrees ==
  /\ request.step = "entry" /\ request.quiet /\ ~overlapped /\ NoTies
  /\ request.last # 0 => sender[request.last] = Peer
  => (request.unread > 0 <=> request.last # 0 /\ ~request.seen)
----------------------------------------------------------------------------
(* The inductive invariants: IInv, behind what the answers say, and WalkOK, *)
(* behind WalkComplete.                                                    *)

(* Ids and times follow the order of creation; unless two messages were    *)
(* ever on their way together, the newest one alone may be.                *)
IdsOK ==
  \A m, n \in Msg : n < m /\ state[m] # "none" =>
    /\ state[n] # "none" /\ at[n] <= at[m]
    /\ ~overlapped => state[n] # "created"

HiddenOK == \A u \in User : hidden[u] \subseteq Stored

(* A receipt vouches for every message up to it.                           *)
Vouches(r, u) ==
  r # 0 => /\ state[r] # "none"
           /\ ~overlapped => \A m \in Msg : m <= r => m \in seenBy[u]
ReceiptsOK ==
  \A u \in User :
    /\ Vouches(lastSeen[u], u)
    /\ request.step \in {"rows", "count", "quotes", "page"} =>
         Vouches(request.receipts[u], u)

LastOK ==
  /\ last # 0 => state[last] # "none"
  /\ ~overlapped => last \in Newest(Live \ hidden[Reader])

(* What was withheld is not among what was read.                           *)
PageOK ==
  /\ request.step = "rows" =>
       /\ request.deletedThen \cap Live = {}
       /\ request.deletedThen \subseteq Stored
  /\ request.step \in {"count", "quotes", "page"} =>
       request.deletedThen \cap request.live = {}
  /\ request.step \in {"rows", "count", "quotes"} =>
       request.hiddenThen \subseteq hidden[Reader]
  /\ request.step = "page" => request.hiddenThen \subseteq request.hidden
  /\ request.rows \subseteq Created

(* A message told to be seen was there for the member of its receipt.      *)
EntryOK ==
  /\ request.last # 0 => state[request.last] # "none"
  /\ request.seen => request.last # 0
  /\ request.seen /\ ~overlapped /\ NoTies =>
       /\ request.step \in {"unread", "others"} =>
            request.last \in seenBy[Reader]
       /\ request.step = "entry" =>
            request.last \in seenBy[Other(sender[request.last])]

(* What was read for an entry still holds if nothing was written.          *)
QuietOK ==
  request.quiet =>
    /\ request.last = last
    /\ request.step \in {"unread", "others"}
         \/ (request.step = "entry" /\ ~OwnLast)
       => (request.seen <=> SeenBy(last, lastSeen[Reader]))
    /\ request.step \in {"others", "entry"} => request.unread = NotSeenCount

IInv == /\ TypeOK
        /\ IdsOK
        /\ HiddenOK
        /\ ReceiptsOK
        /\ LastOK
        /\ PageOK
        /\ EntryOK
        /\ QuietOK

(* The messages that come no later than m, and whether they fill p pages.  *)
Ahead(m) == {n \in Found : at[n] >= at[m]}
Beyond(m, p) == Cardinality(Ahead(m)) > p * walk.size

(* A message the walk has still to find lies on the page asked for or on a *)
(* later one, and in the end there is a later one.                         *)
StillToCome(m) ==
  /\ request.step \in {"idle", "unread", "others", "entry"} =>
       Beyond(m, walk.page)
  /\ request.step = "rows" => Beyond(m, walk.page - 1)
  /\ request.step = "count" => m \in request.rows \/ Beyond(m, walk.page)
  /\ request.step \in {"quotes", "page"} =>
       \/ m \in request.rows
       \/ Beyond(m, walk.page) /\ request.total > walk.page * walk.size

(* What the walk started with is still found, and is got or still to come. *)
WalkOK ==
  ~walk.hid /\ NoTies =>
    /\ walk.start \subseteq Found
    /\ \A m \in walk.start \ walk.got : ~walk.done /\ StillToCome(m)
============================================================================
