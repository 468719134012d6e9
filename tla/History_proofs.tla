--------------------------- MODULE History_proofs ---------------------------
(***************************************************************************)
(* Proofs about History: its inductive invariant IInv, and from it what    *)
(* the pages withhold, what the receipts vouch for, and that the badge and *)
(* the tick of an entry of the list agree; then the invariant WalkOK, and  *)
(* from it that a walk through all pages misses no message; last, that the *)
(* pages of rows in any order share them out.                              *)
(***************************************************************************)
EXTENDS History, FiniteSetTheorems, TLAPS

----------------------------------------------------------------------------
(* Numbers of messages, and sizes of pages.                                *)

(* A set of messages is finite and has no more than MaxMessages elements.  *)
LEMMA MessageSets ==
  ASSUME NEW S \in SUBSET Msg
  PROVE  IsFiniteSet(S) /\ Cardinality(S) \in MsgOrNull
  <1>1. MaxMessages \in Nat
    BY HistoryAssumption
  <1>2. IsFiniteSet(Msg) /\ Cardinality(Msg) = MaxMessages
    BY <1>1, FS_Interval DEF Msg
  <1>3. IsFiniteSet(S) /\ Cardinality(S) <= Cardinality(Msg)
    BY <1>2, FS_Subset
  <1>4. Cardinality(S) \in Nat
    BY <1>3, FS_CardinalityType
  <1> QED
    BY <1>1, <1>2, <1>3, <1>4 DEF MsgOrNull

(* What is subtracted from the count of unread messages is a part of it.   *)
LEMMA UnreadCount ==
  /\ NotSeenCount = Cardinality(AfterReceipt \ hidden[Reader])
  /\ NotSeenCount \in MsgOrNull
  /\ NotSeenCount > 0 <=> AfterReceipt \ hidden[Reader] # {}
  <1> DEFINE unread == AfterReceipt \ hidden[Reader]
  <1>1. AfterReceipt \in SUBSET Msg /\ unread \in SUBSET Msg
    BY DEF AfterReceipt, Live
  <1>2. NotSeenCount = Cardinality(unread)
    BY <1>1, MessageSets, FS_Difference DEF NotSeenCount
  <1>3. IsFiniteSet(unread) /\ Cardinality(unread) \in MsgOrNull
    BY <1>1, MessageSets
  <1>4. Cardinality(unread) = 0 <=> unread = {}
    BY <1>3, FS_EmptySet
  <1>5. Cardinality(unread) > 0 <=> Cardinality(unread) # 0
    BY <1>3, HistoryAssumption DEF MsgOrNull
  <1> QED
    BY <1>2, <1>3, <1>4, <1>5

(* Whatever size is asked for, the size used is a legal one.               *)
LEMMA SizeUsed ==
  ASSUME NEW size \in SizesAsked
  PROVE  ParsedSize(size) \in 1 .. MaxPageSize
  BY PagesAssumption, HistoryAssumption
  DEF ParsedSize, AtMostMax, AtLeastOne

----------------------------------------------------------------------------
(* Type correctness.                                                       *)

(* The values of a request and of a walk that are not there.               *)
LEMMA NothingAsked == Idle \in Request /\ NoWalk \in Walk
  BY HistoryAssumption, PagesAssumption
  DEF Idle, Request, NoWalk, Walk, User, MsgOrNull

(* No message, no request.                                                 *)
LEMMA InitOK == Init => IInv
  <1> SUFFICES ASSUME Init
               PROVE  IInv
    OBVIOUS
  <1>1. TypeOK
    <2>1. 0 \in MsgOrNull /\ 0 \in 0 .. MaxChanges
      BY HistoryAssumption DEF MsgOrNull
    <2> QED
      BY <2>1, NothingAsked DEF Init, TypeOK, User
  <1>2. IdsOK /\ HiddenOK /\ ReceiptsOK
    BY DEF Init, IdsOK, HiddenOK, ReceiptsOK, Vouches, Idle, User
  <1>3. LastOK
    BY HistoryAssumption DEF Init, LastOK, Newest, Live, MsgOrNull
  <1>4. PageOK /\ EntryOK /\ QuietOK
    BY DEF Init, PageOK, EntryOK, QuietOK, Idle
  <1> QED
    BY <1>1, <1>2, <1>3, <1>4 DEF IInv

(* The writes keep the types.                                              *)
LEMMA WriteTypes == TypeOK /\ Write => TypeOK'
  <1> SUFFICES ASSUME TypeOK, NEW m \in Msg, NEW u \in User,
                      NEW blocked \in BOOLEAN,
                      \/ Tombstone(m) \/ Commit(m, blocked)
                      \/ Create(m, u) \/ Hide(m, u) \/ MarkSeen(m, u)
               PROVE  TypeOK'
    BY DEF Write, User
  <1>1. request' = request \/ request' = Noticed => request' \in Request
    BY DEF TypeOK, Request, Noticed
  <1>2. Change => changes' \in 0 .. MaxChanges
    BY HistoryAssumption DEF TypeOK, Change
  <1>3. CASE Tombstone(m)
    BY <1>1, <1>2, <1>3 DEF TypeOK, Tombstone, Newest
  <1>4. CASE Commit(m, blocked)
    <2>1. changes' \in 0 .. MaxChanges /\ request' \in Request
      BY <1>1, <1>2, <1>4 DEF Commit, TypeOK
    <2>2. sender[m] \in User /\ Other(sender[m]) \in User
      BY DEF TypeOK, Other, User
    <2>3. hidden' \in [User -> SUBSET Msg]
      BY <1>4, <2>2 DEF Commit, TypeOK
    <2>4. seenBy' \in [User -> SUBSET Msg]
      BY <1>4, <2>2 DEF Commit, TypeOK, Stored
    <2>5. m \in MsgOrNull
      BY HistoryAssumption DEF Msg, MsgOrNull
    <2>6. lastSeen' \in [User -> MsgOrNull] /\ last' \in MsgOrNull
      BY <1>4, <2>2, <2>5 DEF Commit, TypeOK
    <2> QED
      BY <1>4, <2>1, <2>3, <2>4, <2>6 DEF Commit, TypeOK
  <1>5. CASE Create(m, u)
    <2>1. at' \in [Msg -> Nat]
      <3>1. PICK later \in Ticks :
              at' = [at EXCEPT ![m] = IF m = 1 THEN 1 ELSE at[m - 1] + later]
        BY <1>5 DEF Create
      <3>2. (IF m = 1 THEN 1 ELSE at[m - 1] + later) \in Nat
        BY HistoryAssumption DEF TypeOK, Msg
      <3> QED
        BY <3>1, <3>2 DEF TypeOK
    <2>2. quoted' \in [Msg -> MsgOrNull]
      BY <1>5, HistoryAssumption DEF Create, TypeOK, Live, Msg, MsgOrNull
    <2>3. overlapped' \in BOOLEAN
      BY <1>5 DEF Create
    <2> QED
      BY <1>5, <2>1, <2>2, <2>3 DEF Create, TypeOK
  <1>6. CASE Hide(m, u)
    <2>1. walk' \in Walk
      BY <1>6 DEF Hide, TypeOK, Walk
    <2> QED
      BY <1>1, <1>2, <1>6, <2>1 DEF TypeOK, Hide, Newest
  <1>7. CASE MarkSeen(m, u)
    <2>1. m \in MsgOrNull
      BY HistoryAssumption DEF Msg, MsgOrNull
    <2> QED
      BY <1>1, <1>2, <1>7, <2>1 DEF TypeOK, MarkSeen, Stored
  <1> QED
    BY <1>3, <1>4, <1>5, <1>6, <1>7

(* The queries keep the types.                                             *)
LEMMA ReadTypes == TypeOK /\ Read => TypeOK'
  <1> SUFFICES ASSUME TypeOK, Read
               PROVE  request' \in Request /\ walk' \in Walk
    BY DEF Read, TypeOK, table, AskPage, ReadRows, ReadCount, ReadQuotes,
           AnswerPage, AskList, CountUnread, ReadOthers, AnswerList
  <1> USE DEF TypeOK
  <1>1. Idle \in Request /\ NoWalk \in Walk
    BY NothingAsked
  <1>2. /\ Live \in SUBSET Msg /\ Stored \in SUBSET Msg
        /\ Found \in SUBSET Msg
        /\ hidden[Reader] \in SUBSET Msg
    BY DEF Live, Stored, Found, Visible, User
  <1>3. ASSUME NEW p \in PagesAsked \cup {walk.page + 1},
               NEW s \in SizesAsked, AskPage(p, s)
        PROVE  request' \in Request /\ walk' \in Walk
    <2>1. request' \in Request
      BY <1>1, <1>2, <1>3 DEF AskPage, Request
    <2>2. Visible(Reader) \in SUBSET Msg
      BY <1>2 DEF Found
    <2>3. ParsedSize(s) \in 1 .. MaxPageSize
      BY SizeUsed
    <2>4. [NoWalk EXCEPT !.page = 1, !.size = ParsedSize(s),
                         !.start = Visible(Reader)] \in Walk
      BY <1>1, <2>2, <2>3 DEF Walk
    <2>5. [walk EXCEPT !.page = @ + 1] \in Walk
      BY DEF Walk
    <2> QED
      BY <1>3, <2>1, <2>4, <2>5 DEF AskPage
  <1>4. CASE ReadRows
    <2>1. PICK tie \in Tie :
            request' = [request EXCEPT
              !.step = "count", !.live = Live,
              !.rows = PageOf(Found, Order(tie), walk.page, walk.size)]
      BY <1>4 DEF ReadRows
    <2>2. PageOf(Found, Order(tie), walk.page, walk.size) \in SUBSET Msg
      BY <1>2 DEF PageOf
    <2> QED
      BY <1>2, <1>4, <2>1, <2>2 DEF ReadRows, Request
  <1>5. CASE ReadCount
    BY <1>2, <1>5, MessageSets DEF ReadCount, Request
  <1>6. CASE ReadQuotes
    BY <1>2, <1>6 DEF ReadQuotes, Request
  <1>7. CASE AnswerPage
    <2>1. request.rows \in SUBSET Msg
      BY DEF Request
    <2> QED
      BY <1>1, <1>7, <2>1 DEF AnswerPage, Walk, HasNext
  <1>8. CASE AskList
    BY <1>1, <1>8 DEF AskList, Request, SeenBy
  <1>9. CASE CountUnread
    BY <1>9, UnreadCount DEF CountUnread, Request
  <1>10. CASE ReadOthers
    BY <1>10 DEF ReadOthers, Request, SeenBy
  <1>11. CASE AnswerList
    BY <1>1, <1>11 DEF AnswerList
  <1> QED
    BY <1>3, <1>4, <1>5, <1>6, <1>7, <1>8, <1>9, <1>10, <1>11 DEF Read

----------------------------------------------------------------------------
(* The queries.                                                            *)

(* A message not newer than a receipt is one the receipt vouches for: its  *)
(* id is not greater, since ids and times come in the same order.          *)
LEMMA ReceiptCovers ==
  ASSUME TypeOK, IdsOK, ~overlapped, NoTies,
         NEW m \in Msg, state[m] # "none", NEW r \in MsgOrNull,
         NEW u \in User, Vouches(r, u), SeenBy(m, r)
  PROVE  m \in seenBy[u]
  <1>1. r # 0 /\ at[m] <= at[r]
    BY DEF SeenBy
  <1>2. r \in Msg /\ state[r] # "none" /\ m \in Int /\ r \in Int
    BY <1>1, HistoryAssumption DEF Vouches, Msg, MsgOrNull
  <1>3. m <= r
    <2> SUFFICES ASSUME r < m
                 PROVE  FALSE
      BY <1>2
    <2>1. at[r] <= at[m]
      BY <1>2 DEF IdsOK
    <2>2. at[r] = at[m]
      BY <1>1, <1>2, <2>1 DEF TypeOK
    <2>3. m \in Created /\ r \in Created
      BY <1>2 DEF Created
    <2> QED
      BY <1>2, <2>2, <2>3 DEF NoTies
  <1> QED
    BY <1>1, <1>3 DEF Vouches

(* What depends on the tables alone, when a query leaves them alone.       *)
LEMMA TablesAlone ==
  ASSUME UNCHANGED <<table, seenBy, overlapped>>
  PROVE  /\ IdsOK => IdsOK'
         /\ HiddenOK => HiddenOK'
         /\ LastOK => LastOK'
         /\ Stored' = Stored /\ Live' = Live /\ Created' = Created
         /\ NoTies' <=> NoTies
         /\ NotSeenCount' = NotSeenCount
         /\ \A r, u : Vouches(r, u)' <=> Vouches(r, u)
  <1> USE DEF table
  <1>1. Stored' = Stored /\ Live' = Live /\ Created' = Created
    BY DEF Stored, Live, Created
  <1>2. IdsOK => IdsOK'
    BY DEF IdsOK
  <1>3. (HiddenOK => HiddenOK') /\ (LastOK => LastOK')
    BY <1>1 DEF HiddenOK, LastOK, Newest
  <1>4. NoTies' <=> NoTies
    BY <1>1 DEF NoTies
  <1>5. NotSeenCount' = NotSeenCount
    BY <1>1 DEF NotSeenCount, AfterReceipt
  <1>6. \A r, u : Vouches(r, u)' <=> Vouches(r, u)
    BY DEF Vouches
  <1> QED
    BY <1>1, <1>2, <1>3, <1>4, <1>5, <1>6

(* An answer leaves nothing to be said of a request.                       *)
LEMMA AnswerOK ==
  ASSUME IInv, TypeOK', request' = Idle,
         UNCHANGED <<table, seenBy, overlapped>>
  PROVE  IInv'
  <1>1. IdsOK' /\ HiddenOK' /\ LastOK'
    BY TablesAlone DEF IInv
  <1>2. ReceiptsOK'
    BY TablesAlone DEF IInv, ReceiptsOK, Idle, table
  <1>3. PageOK' /\ EntryOK' /\ QuietOK'
    BY DEF PageOK, EntryOK, QuietOK, Idle
  <1> QED
    BY <1>1, <1>2, <1>3 DEF IInv

(* The queries of a page.                                                  *)
LEMMA PageQueriesOK ==
  ASSUME IInv, TypeOK',
         \/ \E p \in PagesAsked \cup {walk.page + 1}, s \in SizesAsked :
              AskPage(p, s)
         \/ ReadRows \/ ReadCount \/ ReadQuotes
  PROVE  IInv'
  <1>1. UNCHANGED <<table, seenBy, overlapped>>
    BY DEF AskPage, ReadRows, ReadCount, ReadQuotes
  <1>2. TypeOK
    BY DEF IInv
  <1> USE DEF TypeOK
  <1>3. IdsOK' /\ HiddenOK' /\ LastOK'
    BY <1>1, TablesAlone DEF IInv
  <1>4. CASE \E p \in PagesAsked \cup {walk.page + 1}, s \in SizesAsked :
               AskPage(p, s)
    <2>1. request' = [Idle EXCEPT
            !.step = "rows", !.receipts = lastSeen,
            !.deletedThen = Stored \ Live, !.hiddenThen = hidden[Reader]]
      BY <1>4 DEF AskPage
    <2>2. ReceiptsOK'
      BY <1>1, <2>1, TablesAlone DEF IInv, ReceiptsOK, Idle, table
    <2>3. PageOK' /\ EntryOK' /\ QuietOK'
      BY <1>1, <2>1 DEF PageOK, EntryOK, QuietOK, Idle, Stored, Live, table
    <2> QED
      BY <1>3, <2>2, <2>3 DEF IInv
  <1>5. CASE ReadRows
    <2>1. PICK tie \in Tie :
            request' = [request EXCEPT
              !.step = "count", !.live = Live,
              !.rows = PageOf(Found, Order(tie), walk.page, walk.size)]
      BY <1>5 DEF ReadRows
    <2> DEFINE page == PageOf(Found, Order(tie), walk.page, walk.size)
    <2>2. page \subseteq Created
      BY DEF PageOf, Found, Visible, Stored, Created
    <2> HIDE DEF page
    <2>3. /\ request.step = "rows" /\ request'.step = "count"
          /\ request'.receipts = request.receipts
          /\ request'.live = Live /\ request'.rows = page
          /\ request'.deletedThen = request.deletedThen
          /\ request'.hiddenThen = request.hiddenThen
          /\ request'.last = request.last /\ request'.seen = request.seen
          /\ request'.quiet = request.quiet
      BY <1>2, <1>5, <2>1 DEF ReadRows, Request, page
    <2>4. ReceiptsOK'
      BY <1>1, <2>3, TablesAlone DEF IInv, ReceiptsOK, table
    <2>5. PageOK'
      BY <1>1, <2>2, <2>3, TablesAlone DEF IInv, PageOK, table
    <2>6. EntryOK' /\ QuietOK'
      BY <1>1, <2>3, TablesAlone DEF IInv, EntryOK, QuietOK, table
    <2> QED
      BY <1>3, <2>4, <2>5, <2>6 DEF IInv
  <1>6. CASE ReadCount
    <2>1. /\ request.step = "count" /\ request'.step = "quotes"
          /\ request'.receipts = request.receipts
          /\ request'.live = request.live /\ request'.rows = request.rows
          /\ request'.deletedThen = request.deletedThen
          /\ request'.hiddenThen = request.hiddenThen
          /\ request'.last = request.last /\ request'.seen = request.seen
          /\ request'.quiet = request.quiet
      BY <1>2, <1>6 DEF ReadCount, Request
    <2>2. ReceiptsOK' /\ PageOK'
      BY <1>1, <2>1, TablesAlone DEF IInv, ReceiptsOK, PageOK, table
    <2>3. EntryOK' /\ QuietOK'
      BY <1>1, <2>1, TablesAlone DEF IInv, EntryOK, QuietOK, table
    <2> QED
      BY <1>3, <2>2, <2>3 DEF IInv
  <1>7. CASE ReadQuotes
    <2>1. /\ request.step = "quotes" /\ request'.step = "page"
          /\ request'.receipts = request.receipts
          /\ request'.live = request.live /\ request'.rows = request.rows
          /\ request'.deletedThen = request.deletedThen
          /\ request'.hiddenThen = request.hiddenThen
          /\ request'.hidden = hidden[Reader]
          /\ request'.last = request.last /\ request'.seen = request.seen
          /\ request'.quiet = request.quiet
      BY <1>2, <1>7 DEF ReadQuotes, Request
    <2>2. ReceiptsOK' /\ PageOK'
      BY <1>1, <2>1, TablesAlone DEF IInv, ReceiptsOK, PageOK, table
    <2>3. EntryOK' /\ QuietOK'
      BY <1>1, <2>1, TablesAlone DEF IInv, EntryOK, QuietOK, table
    <2> QED
      BY <1>3, <2>2, <2>3 DEF IInv
  <1> QED
    BY <1>4, <1>5, <1>6, <1>7

(* The row of the reader, read first for an entry of the list.             *)
LEMMA AskListOK == IInv /\ TypeOK' /\ AskList => IInv'
  <1> SUFFICES ASSUME IInv, TypeOK', AskList
               PROVE  IInv'
    OBVIOUS
  <1>1. /\ UNCHANGED <<table, seenBy, overlapped>> /\ TypeOK
        /\ IdsOK /\ ReceiptsOK /\ LastOK
    BY DEF IInv, AskList
  <1>2. /\ request'.step = "unread" /\ request'.last = last
        /\ request'.seen = SeenBy(last, lastSeen[Reader])
        /\ request'.rows = {}
    BY DEF AskList, Idle
  <1>3. IdsOK' /\ HiddenOK' /\ LastOK'
    BY <1>1, TablesAlone DEF IInv
  <1>4. ReceiptsOK' /\ PageOK'
    BY <1>1, <1>2, TablesAlone DEF ReceiptsOK, PageOK, table
  <1>5. EntryOK'
    <2>1. SeenBy(last, lastSeen[Reader]) => last # 0
      BY DEF SeenBy
    <2>2. ASSUME SeenBy(last, lastSeen[Reader]), ~overlapped, NoTies
          PROVE  last \in seenBy[Reader]
      <3>1. last \in Msg /\ state[last] # "none"
        BY <1>1, <2>1, <2>2, HistoryAssumption
        DEF TypeOK, LastOK, Msg, MsgOrNull
      <3>2. Reader \in User /\ lastSeen[Reader] \in MsgOrNull
        BY <1>1 DEF TypeOK, User
      <3>3. Vouches(lastSeen[Reader], Reader)
        BY <1>1, <3>2 DEF ReceiptsOK
      <3> QED
        BY <1>1, <2>2, <3>1, <3>2, <3>3, ReceiptCovers
    <2> QED
      BY <1>1, <1>2, <2>1, <2>2, TablesAlone DEF EntryOK, LastOK, table
  <1>6. QuietOK'
    BY <1>1, <1>2 DEF QuietOK, SeenBy, table
  <1> QED
    BY <1>3, <1>4, <1>5, <1>6 DEF IInv

(* The count of the unread messages, read next.                            *)
LEMMA CountUnreadOK == IInv /\ TypeOK' /\ CountUnread => IInv'
  <1> SUFFICES ASSUME IInv, TypeOK', CountUnread
               PROVE  IInv'
    OBVIOUS
  <1>1. UNCHANGED <<table, seenBy, overlapped>> /\ TypeOK
    BY DEF IInv, CountUnread
  <1>2. /\ request.step = "unread" /\ request'.step = "others"
        /\ request'.last = request.last /\ request'.seen = request.seen
        /\ request'.quiet = request.quiet /\ request'.rows = request.rows
        /\ request'.unread = NotSeenCount
    BY <1>1 DEF CountUnread, TypeOK, Request
  <1>3. IdsOK' /\ HiddenOK' /\ LastOK'
    BY <1>1, TablesAlone DEF IInv
  <1>4. ReceiptsOK' /\ PageOK'
    BY <1>1, <1>2, TablesAlone DEF IInv, ReceiptsOK, PageOK, table
  <1>5. EntryOK'
    BY <1>1, <1>2, TablesAlone DEF IInv, EntryOK, table
  <1>6. QuietOK'
    BY <1>1, <1>2, TablesAlone DEF IInv, QuietOK, SeenBy, table
  <1> QED
    BY <1>3, <1>4, <1>5, <1>6 DEF IInv

(* The row of the other member, read last.                                 *)
LEMMA ReadOthersOK == IInv /\ TypeOK' /\ ReadOthers => IInv'
  <1> SUFFICES ASSUME IInv, TypeOK', ReadOthers
               PROVE  IInv'
    OBVIOUS
  <1>1. /\ UNCHANGED <<table, seenBy, overlapped>> /\ TypeOK
        /\ IdsOK /\ ReceiptsOK /\ EntryOK
    BY DEF IInv, ReadOthers
  <1>2. /\ request.step = "others" /\ request'.step = "entry"
        /\ request'.last = request.last /\ request'.quiet = request.quiet
        /\ request'.rows = request.rows /\ request'.unread = request.unread
    BY <1>1 DEF ReadOthers, TypeOK, Request
  <1>3. request'.seen = IF OwnLast THEN SeenBy(request.last, lastSeen[Peer])
                        ELSE request.seen
    BY <1>1 DEF ReadOthers, TypeOK, Request
  <1>4. IdsOK' /\ HiddenOK' /\ LastOK'
    BY <1>1, TablesAlone DEF IInv
  <1>5. ReceiptsOK' /\ PageOK'
    BY <1>1, <1>2, TablesAlone DEF IInv, ReceiptsOK, PageOK, table
  <1>6. EntryOK'
    <2>1. request'.seen => request.last # 0
      BY <1>1, <1>3 DEF EntryOK, SeenBy
    <2>2. ASSUME request'.seen, ~overlapped, NoTies
          PROVE  request.last \in seenBy[Other(sender[request.last])]
      <3>1. request.last \in Msg /\ state[request.last] # "none"
        BY <1>1, <2>1, <2>2, HistoryAssumption
        DEF TypeOK, EntryOK, Msg, MsgOrNull, Request
      <3>2. CASE OwnLast
        <4>1. Other(sender[request.last]) = Peer
          BY <3>2 DEF OwnLast, Other
        <4>2. Peer \in User /\ lastSeen[Peer] \in MsgOrNull
          BY <1>1 DEF TypeOK, User
        <4>3. Vouches(lastSeen[Peer], Peer)
          BY <1>1, <4>2 DEF ReceiptsOK
        <4> QED
          BY <1>1, <1>3, <2>2, <3>1, <3>2, <4>1, <4>2, <4>3, ReceiptCovers
      <3>3. CASE ~OwnLast
        <4>1. sender[request.last] = Peer
          BY <1>1, <2>1, <2>2, <3>1, <3>3 DEF OwnLast, TypeOK, User
        <4>2. Other(sender[request.last]) = Reader
          BY <4>1, HistoryAssumption DEF Other
        <4> QED
          BY <1>1, <1>2, <1>3, <2>2, <3>3, <4>2 DEF EntryOK
      <3> QED
        BY <3>2, <3>3
    <2> QED
      BY <1>1, <1>2, <2>1, <2>2, TablesAlone DEF EntryOK, table
  <1>7. QuietOK'
    <2>1. OwnLast' <=> OwnLast
      BY <1>1, <1>2 DEF OwnLast, table
    <2> QED
      BY <1>1, <1>2, <1>3, <2>1, TablesAlone DEF IInv, QuietOK, SeenBy, table
  <1> QED
    BY <1>4, <1>5, <1>6, <1>7 DEF IInv

----------------------------------------------------------------------------
(* The writes.                                                             *)

(* What a write makes of the request in progress.                          *)
LEMMA NoticedKeeps ==
  ASSUME TypeOK
  PROVE  /\ Noticed.step = request.step
         /\ Noticed.receipts = request.receipts
         /\ Noticed.rows = request.rows /\ Noticed.live = request.live
         /\ Noticed.hidden = request.hidden
         /\ Noticed.deletedThen = request.deletedThen
         /\ Noticed.hiddenThen = request.hiddenThen
         /\ Noticed.last = request.last /\ Noticed.seen = request.seen
         /\ ~Noticed.quiet
  BY DEF Noticed, TypeOK, Request

(* A write to stored messages: no message is new, no time, sender or       *)
(* tombstone changes, and what members have seen or hidden only grows.     *)
LEMMA NoticedWriteOK ==
  ASSUME IInv, TypeOK', request' = Noticed,
         UNCHANGED <<at, sender, overlapped>>,
         \A n \in Msg :
           /\ state[n] = "none" <=> state'[n] = "none"
           /\ state'[n] = "created" => state[n] = "created"
           /\ state[n] = "deleted" => state'[n] = "deleted",
         \A n \in Stored : n \in Stored',
         \A u \in User : /\ seenBy[u] \subseteq seenBy'[u]
                         /\ hidden[u] \subseteq hidden'[u],
         HiddenOK', LastOK',
         \A u \in User : Vouches(lastSeen[u], u)'
  PROVE  IInv'
  <1>1. TypeOK /\ IdsOK /\ ReceiptsOK /\ PageOK /\ EntryOK
    BY DEF IInv
  <1>2. IdsOK'
    BY <1>1 DEF IdsOK
  <1>3. NoTies' => NoTies
    BY DEF NoTies, Created
  <1>4. ReceiptsOK'
    <2>1. ASSUME NEW r \in MsgOrNull, NEW u \in User, Vouches(r, u)
          PROVE  Vouches(r, u)'
      BY <2>1, HistoryAssumption DEF Vouches, Msg, MsgOrNull
    <2>2. \A u \in User : request.receipts[u] \in MsgOrNull
      BY <1>1 DEF TypeOK, Request
    <2>3. request'.step = request.step /\ request'.receipts = request.receipts
      BY <1>1, NoticedKeeps
    <2>4. ASSUME NEW u \in User,
                 request.step \in {"rows", "count", "quotes", "page"}
          PROVE  Vouches(request.receipts[u], u)'
      <3>1. Vouches(request.receipts[u], u)
        BY <1>1, <2>4 DEF ReceiptsOK
      <3> QED
        BY <2>1, <2>2, <2>3, <3>1 DEF Vouches
    <2> QED
      BY <2>3, <2>4 DEF ReceiptsOK
  <1>5. PageOK'
    <2>1. request.deletedThen \subseteq Msg
      BY <1>1 DEF TypeOK, Request
    <2>2. request.step = "rows" => request.deletedThen \cap Live' = {}
      <3> SUFFICES ASSUME NEW d \in request.deletedThen, request.step = "rows",
                          d \in Live'
                   PROVE  FALSE
        OBVIOUS
      <3>1. d \in Stored /\ d \notin Live
        BY <1>1 DEF PageOK
      <3>2. state[d] = "deleted"
        BY <3>1 DEF Stored, Live
      <3> QED
        BY <3>1, <3>2 DEF Stored, Live
    <2>3. Created \subseteq Created'
      BY DEF Created
    <2>4. Reader \in User
      BY DEF User
    <2> QED
      BY <1>1, <2>2, <2>3, <2>4, NoticedKeeps DEF PageOK
  <1>6. EntryOK'
    <2>1. request'.last = request.last /\ request'.seen = request.seen
          /\ request'.step = request.step
      BY <1>1, NoticedKeeps
    <2>2. request.last \in MsgOrNull
      BY <1>1 DEF TypeOK, Request
    <2>3. request.last # 0 => state'[request.last] # "none"
      BY <1>1, <2>2, HistoryAssumption DEF EntryOK, Msg, MsgOrNull
    <2>4. request.seen => Reader \in User
                          /\ Other(sender[request.last]) \in User
      BY DEF User, Other
    <2> QED
      BY <1>1, <1>3, <2>1, <2>3, <2>4 DEF EntryOK
  <1>7. QuietOK'
    BY <1>1, NoticedKeeps DEF QuietOK
  <1> QED
    BY <1>2, <1>4, <1>5, <1>6, <1>7 DEF IInv

(* A new message has the greatest id and the latest time; no row changes.  *)
LEMMA CreateOK ==
  ASSUME IInv, TypeOK', NEW m \in Msg, NEW u \in User, Create(m, u)
  PROVE  IInv'
  <1>1. TypeOK /\ IdsOK /\ HiddenOK /\ ReceiptsOK /\ LastOK /\ PageOK
        /\ EntryOK /\ QuietOK
    BY DEF IInv
  <1>2. /\ state[m] = "none" /\ state'[m] = "created"
        /\ \A n \in Msg \ {m} : /\ state'[n] = state[n] /\ at'[n] = at[n]
                                /\ sender'[n] = sender[n]
        /\ UNCHANGED <<hidden, lastSeen, last, request, seenBy>>
        /\ ~overlapped' => ~overlapped /\ \A n \in Msg : state[n] # "created"
    <2>1. /\ state[m] = "none" /\ state' = [state EXCEPT ![m] = "created"]
          /\ sender' = [sender EXCEPT ![m] = u]
          /\ overlapped' = (overlapped \/ \E n \in Msg : state[n] = "created")
          /\ UNCHANGED <<hidden, lastSeen, last, request, seenBy>>
      BY DEF Create
    <2>2. PICK x : at' = [at EXCEPT ![m] = x]
      BY DEF Create
    <2>3. /\ state = [n \in Msg |-> state[n]] /\ at = [n \in Msg |-> at[n]]
          /\ sender = [n \in Msg |-> sender[n]]
      BY <1>1 DEF TypeOK
    <2>4. \A n \in Msg \ {m} : /\ state'[n] = state[n] /\ at'[n] = at[n]
                                /\ sender'[n] = sender[n]
      BY <2>1, <2>2, <2>3
    <2> QED
      BY <2>1, <2>3, <2>4
  <1>3. Stored' = Stored /\ Live' = Live /\ Created \subseteq Created'
    BY <1>2 DEF Stored, Live, Created
  <1>4. NoTies' => NoTies
    BY <1>2 DEF NoTies, Created
  <1>5. \A r \in MsgOrNull, w \in User : Vouches(r, w) => Vouches(r, w)'
    BY <1>2, HistoryAssumption DEF Vouches, Msg, MsgOrNull
  <1>6. IdsOK'
    <2> SUFFICES ASSUME NEW k \in Msg, NEW n \in Msg, n < k,
                        state'[k] # "none"
                 PROVE  /\ state'[n] # "none" /\ at'[n] <= at'[k]
                        /\ ~overlapped' => state'[n] # "created"
      BY DEF IdsOK
    <2>1. CASE k = m
      <3>1. n \in 1 .. m - 1 /\ m - 1 \in Msg /\ m # 1
        BY <2>1, HistoryAssumption DEF Msg
      <3>2. PICK later \in Ticks : at'[m] = at[m - 1] + later
        BY <1>1, <3>1 DEF Create, TypeOK
      <3>3. at[m - 1] <= at'[m]
        BY <1>1, <3>1, <3>2, HistoryAssumption DEF TypeOK
      <3>4. at[n] <= at[m - 1]
        <4>1. n = m - 1 \/ n < m - 1
          BY <3>1 DEF Msg
        <4>2. state[m - 1] # "none"
          BY <3>1 DEF Create, Msg
        <4> QED
          BY <1>1, <3>1, <4>1, <4>2 DEF IdsOK, TypeOK
      <3>5. at[n] \in Int /\ at[m - 1] \in Int /\ at'[m] \in Int
        BY <1>1, <3>1 DEF TypeOK
      <3>6. at[n] <= at'[m]
        BY <3>3, <3>4, <3>5
      <3>7. n # m /\ state[n] # "none"
        BY <2>1, <3>1 DEF Create, Msg
      <3> QED
        BY <1>2, <2>1, <3>6, <3>7
    <2>2. CASE k # m
      <3>1. state[n] # "none" /\ at[n] <= at[k] /\ n # m
        BY <1>1, <1>2, <2>2 DEF IdsOK
      <3> QED
        BY <1>1, <1>2, <2>2, <3>1
    <2> QED
      BY <2>1, <2>2
  <1>7. HiddenOK'
    BY <1>1, <1>2, <1>3 DEF HiddenOK
  <1>8. ReceiptsOK'
    <2>1. \A w \in User : lastSeen[w] \in MsgOrNull
                          /\ request.receipts[w] \in MsgOrNull
      BY <1>1 DEF TypeOK, Request
    <2>2. \A w \in User : Vouches(lastSeen[w], w)'
      <3>1. ASSUME NEW w \in User
            PROVE  Vouches(lastSeen[w], w)'
        <4>1. Vouches(lastSeen[w], w)
          BY <1>1 DEF ReceiptsOK
        <4> QED
          BY <1>2, <1>5, <2>1, <4>1 DEF Vouches
      <3> QED
        BY <3>1
    <2>3. ASSUME NEW w \in User,
                 request.step \in {"rows", "count", "quotes", "page"}
          PROVE  Vouches(request.receipts[w], w)'
      <3>1. Vouches(request.receipts[w], w)
        BY <1>1, <2>3 DEF ReceiptsOK
      <3> QED
        BY <1>2, <1>5, <2>1, <3>1 DEF Vouches
    <2> QED
      BY <1>2, <2>2, <2>3 DEF ReceiptsOK
  <1>9. LastOK'
    <2>1. last # 0 => last \in Msg /\ last # m
      BY <1>1, <1>2, HistoryAssumption DEF LastOK, TypeOK, Msg, MsgOrNull
    <2>2. last' # 0 => state'[last'] # "none"
      BY <1>1, <1>2, <2>1 DEF LastOK
    <2>3. Newest(Live \ hidden[Reader])' = Newest(Live \ hidden[Reader])
      BY <1>2, <1>3 DEF Newest
    <2>4. ~overlapped' => last' \in Newest(Live \ hidden[Reader])'
      BY <1>1, <1>2, <2>3 DEF LastOK
    <2> QED
      BY <2>2, <2>4 DEF LastOK
  <1>10. PageOK'
    BY <1>1, <1>2, <1>3 DEF PageOK
  <1>11. request.last # 0 => request.last \in Msg /\ request.last # m
    <2>1. request.last \in MsgOrNull
      BY <1>1 DEF TypeOK, Request
    <2>2. request.last # 0 => request.last \in Msg
      BY <2>1, HistoryAssumption DEF Msg, MsgOrNull
    <2> QED
      BY <1>1, <1>2, <2>2 DEF EntryOK
  <1>12. EntryOK'
    BY <1>1, <1>2, <1>4, <1>11 DEF EntryOK
  <1>13. QuietOK'
    <2> SUFFICES ASSUME request.quiet
                 PROVE  QuietOK'
      BY <1>2 DEF QuietOK
    <2>1. Reader \in User /\ lastSeen[Reader] \in MsgOrNull
      BY <1>1 DEF TypeOK, User
    <2>2. lastSeen[Reader] # 0 => lastSeen[Reader] \in Msg \ {m}
      BY <1>1, <1>2, <2>1, HistoryAssumption
      DEF ReceiptsOK, Vouches, Msg, MsgOrNull
    <2>3. last = request.last
      BY <1>1 DEF QuietOK
    <2>4. SeenBy(last, lastSeen[Reader])' <=> SeenBy(last, lastSeen[Reader])
      BY <1>2, <1>11, <2>2, <2>3 DEF SeenBy
    <2>5. OwnLast' <=> OwnLast
      BY <1>2, <1>11 DEF OwnLast
    <2>6. NotSeenCount' = NotSeenCount
      BY <1>2, <1>3 DEF NotSeenCount, AfterReceipt
    <2> QED
      BY <1>1, <1>2, <2>4, <2>5, <2>6 DEF QuietOK
  <1> QED
    BY <1>6, <1>7, <1>8, <1>9, <1>10, <1>12, <1>13 DEF IInv

(* A committed message is the newest of those that are stored, unless two  *)
(* were on their way together, and its sender has seen what was there.     *)
LEMMA CommitOK ==
  ASSUME IInv, TypeOK', NEW m \in Msg, NEW blocked \in BOOLEAN,
         Commit(m, blocked)
  PROVE  IInv'
  <1>1. TypeOK /\ IdsOK /\ HiddenOK /\ ReceiptsOK /\ LastOK
    BY DEF IInv
  <1> DEFINE u == sender[m]
  <1>2. u \in User /\ Other(u) \in User /\ Other(u) # u
    BY <1>1, HistoryAssumption DEF TypeOK, User, Other
  <1>3. /\ state[m] = "created" /\ state' = [state EXCEPT ![m] = "stored"]
        /\ request' = Noticed
        /\ UNCHANGED <<at, sender, overlapped>>
        /\ lastSeen' = [lastSeen EXCEPT ![u] = m]
        /\ seenBy' = [seenBy EXCEPT ![u] = @ \cup Stored \cup {m}]
        /\ hidden' = IF blocked THEN [hidden EXCEPT ![Other(u)] = @ \cup {m}]
                     ELSE hidden
        /\ last' = IF blocked /\ u = Peer THEN last ELSE m
    BY DEF Commit
  <1> HIDE DEF u
  <1>4. /\ state'[m] = "stored"
        /\ \A n \in Msg \ {m} : state'[n] = state[n]
    BY <1>1, <1>3 DEF TypeOK
  <1>5. Stored' = Stored \cup {m} /\ Live' = Live \cup {m}
        /\ m \notin Stored /\ m \notin Live
    BY <1>3, <1>4 DEF Stored, Live
  <1>6. \A w \in User : /\ seenBy[w] \subseteq seenBy'[w]
                        /\ hidden[w] \subseteq hidden'[w]
                        /\ hidden'[w] \subseteq hidden[w] \cup {m}
    BY <1>1, <1>2, <1>3 DEF TypeOK
  <1>7. HiddenOK'
    BY <1>1, <1>5, <1>6 DEF HiddenOK
  <1>8. m \in MsgOrNull /\ m # 0
    BY HistoryAssumption DEF Msg, MsgOrNull
  <1>9. LastOK'
    <2>1. last # 0 => last \in Msg /\ state[last] # "none"
      BY <1>1, HistoryAssumption DEF LastOK, TypeOK, Msg, MsgOrNull
    <2>2. last' # 0 => state'[last'] # "none"
      BY <1>3, <1>4, <2>1
    <2>3. ASSUME ~overlapped
          PROVE  last' \in Newest(Live' \ hidden'[Reader])
      <3>1. CASE blocked /\ u = Peer
        <4>1. Other(u) = Reader
          BY <3>1, HistoryAssumption DEF Other
        <4>2. hidden'[Reader] = hidden[Reader] \cup {m}
          BY <1>1, <1>2, <1>3, <3>1, <4>1 DEF TypeOK
        <4>3. Live' \ hidden'[Reader] = Live \ hidden[Reader]
          BY <1>5, <4>2
        <4> QED
          BY <1>1, <1>3, <2>3, <3>1, <4>3 DEF LastOK
      <3>2. CASE ~(blocked /\ u = Peer)
        <4>1. Reader \in User /\ m \notin hidden[Reader]
          BY <1>1, <1>5 DEF HiddenOK, User
        <4>2. hidden'[Reader] = hidden[Reader]
          <5>1. blocked => Other(u) # Reader
            BY <1>2, <3>2, HistoryAssumption DEF Other, User
          <5> QED
            BY <1>1, <1>2, <1>3, <4>1, <5>1 DEF TypeOK
        <4>3. \A n \in Live \cup {m} : n <= m
          <5> SUFFICES ASSUME NEW n \in Live, ~(n <= m)
                       PROVE  FALSE
            BY DEF Live, Msg
          <5>1. n \in Msg /\ m < n /\ state[n] # "none"
            BY HistoryAssumption DEF Live, Msg
          <5> QED
            BY <1>1, <1>3, <2>3, <5>1 DEF IdsOK
        <4> QED
          BY <1>3, <1>5, <1>8, <3>2, <4>1, <4>2, <4>3 DEF Newest
      <3> QED
        BY <3>1, <3>2
    <2> QED
      BY <1>3, <2>2, <2>3 DEF LastOK
  <1>10. ASSUME NEW w \in User
         PROVE  Vouches(lastSeen[w], w)'
    <2>1. Vouches(lastSeen[w], w) /\ lastSeen[w] \in MsgOrNull
      BY <1>1 DEF ReceiptsOK, TypeOK
    <2>2. CASE w = u
      <3>1. lastSeen'[w] = m /\ seenBy'[w] = seenBy[w] \cup Stored \cup {m}
        BY <1>1, <1>3, <2>2 DEF TypeOK
      <3>2. ASSUME ~overlapped, NEW n \in Msg, n <= m
            PROVE  n \in Stored \cup {m}
        <4>1. n = m \/ n < m
          BY <3>2 DEF Msg
        <4>2. n < m => state[n] # "none" /\ state[n] # "created"
          BY <1>1, <1>3, <3>2 DEF IdsOK
        <4> QED
          BY <1>1, <4>1, <4>2 DEF Stored, TypeOK
      <3> QED
        BY <1>3, <1>4, <3>1, <3>2 DEF Vouches
    <2>3. CASE w # u
      <3>1. lastSeen'[w] = lastSeen[w] /\ seenBy'[w] = seenBy[w]
        BY <1>1, <1>3, <2>3 DEF TypeOK
      <3> QED
        BY <1>3, <1>4, <2>1, <3>1, HistoryAssumption
        DEF Vouches, Msg, MsgOrNull
    <2> QED
      BY <2>2, <2>3
  <1>11. \A n \in Msg : /\ state[n] = "none" <=> state'[n] = "none"
                        /\ state'[n] = "created" => state[n] = "created"
                        /\ state[n] = "deleted" => state'[n] = "deleted"
    BY <1>3, <1>4
  <1> QED
    BY <1>3, <1>5, <1>6, <1>7, <1>9, <1>10, <1>11, NoticedWriteOK

(* The last message is chosen again when it is the one withdrawn; if not,  *)
(* it is still the newest.                                                 *)
LEMMA LastAgain ==
  ASSUME TypeOK, LastOK, NEW m \in Msg, m \in Live,
         last' \in IF last = m THEN Newest((Live \ {m}) \ hidden[Reader])
                   ELSE {last}
  PROVE  /\ ~overlapped => last' \in Newest((Live \ {m}) \ hidden[Reader])
         /\ last' # 0 => last' \in Msg /\ state[last'] # "none"
  <1>1. last \in MsgOrNull /\ (last # 0 => last \in Msg)
    BY HistoryAssumption DEF TypeOK, Msg, MsgOrNull
  <1>2. CASE last = m
    BY <1>2 DEF Newest, Live
  <1>3. CASE last # m
    BY <1>1, <1>3 DEF LastOK, Newest
  <1> QED
    BY <1>2, <1>3

(* A tombstone is visible, and not live.                                   *)
LEMMA TombstoneOK ==
  ASSUME IInv, TypeOK', NEW m \in Msg, Tombstone(m)
  PROVE  IInv'
  <1>1. TypeOK /\ HiddenOK /\ ReceiptsOK /\ LastOK
    BY DEF IInv
  <1>2. /\ state[m] = "stored" /\ state' = [state EXCEPT ![m] = "deleted"]
        /\ request' = Noticed
        /\ UNCHANGED <<at, sender, overlapped, hidden, lastSeen, seenBy>>
        /\ last' \in IF last = m THEN Newest((Live \ {m}) \ hidden[Reader])
                     ELSE {last}
    BY DEF Tombstone
  <1>3. /\ state'[m] = "deleted"
        /\ \A n \in Msg \ {m} : state'[n] = state[n]
    BY <1>1, <1>2 DEF TypeOK
  <1>4. Stored' = Stored /\ Live' = Live \ {m} /\ m \in Live
    BY <1>2, <1>3 DEF Stored, Live
  <1>5. HiddenOK'
    BY <1>1, <1>2, <1>4 DEF HiddenOK
  <1>6. LastOK'
    BY <1>1, <1>2, <1>3, <1>4, LastAgain DEF LastOK, Newest
  <1>7. \A w \in User : Vouches(lastSeen[w], w)'
    <2> SUFFICES ASSUME NEW w \in User PROVE Vouches(lastSeen[w], w)'
      OBVIOUS
    <2>1. Vouches(lastSeen[w], w) /\ lastSeen[w] \in MsgOrNull
      BY <1>1 DEF ReceiptsOK, TypeOK
    <2>2. lastSeen[w] # 0 => lastSeen[w] \in Msg
      BY <2>1, HistoryAssumption DEF Msg, MsgOrNull
    <2>3. lastSeen[w] # 0 /\ state[lastSeen[w]] # "none"
            => state'[lastSeen[w]] # "none"
      BY <1>3, <2>2
    <2> QED
      BY <1>2, <2>1, <2>3 DEF Vouches
  <1>8. \A n \in Msg : /\ state[n] = "none" <=> state'[n] = "none"
                       /\ state'[n] = "created" => state[n] = "created"
                       /\ state[n] = "deleted" => state'[n] = "deleted"
    BY <1>2, <1>3
  <1> QED
    BY <1>2, <1>4, <1>5, <1>6, <1>7, <1>8, NoticedWriteOK

(* A message hidden from one member alone.                                 *)
LEMMA HideOK ==
  ASSUME IInv, TypeOK', NEW m \in Msg, NEW u \in User, Hide(m, u)
  PROVE  IInv'
  <1>1. TypeOK /\ HiddenOK /\ ReceiptsOK /\ LastOK
    BY DEF IInv
  <1>2. /\ m \in Live /\ request' = Noticed
        /\ hidden' = [hidden EXCEPT ![u] = @ \cup {m}]
        /\ UNCHANGED <<state, at, sender, overlapped, lastSeen, seenBy>>
        /\ last' \in IF u = Reader /\ last = m
                     THEN Newest((Live \ {m}) \ hidden[Reader])
                     ELSE {last}
    BY DEF Hide
  <1>3. Stored' = Stored /\ Live' = Live /\ m \in Stored
    BY <1>2 DEF Stored, Live
  <1>4. \A w \in User : /\ hidden[w] \subseteq hidden'[w]
                        /\ hidden'[w] \subseteq hidden[w] \cup {m}
                        /\ w # u => hidden'[w] = hidden[w]
    BY <1>1, <1>2 DEF TypeOK
  <1>5. HiddenOK'
    BY <1>1, <1>3, <1>4 DEF HiddenOK
  <1>6. LastOK'
    <2>1. CASE u = Reader
      <3>1. Live' \ hidden'[Reader] = (Live \ {m}) \ hidden[Reader]
        BY <1>1, <1>2, <1>3, <2>1 DEF TypeOK
      <3>2. last' \in IF last = m THEN Newest((Live \ {m}) \ hidden[Reader])
                      ELSE {last}
        BY <1>2, <2>1
      <3> QED
        BY <1>1, <1>2, <3>1, <3>2, LastAgain DEF LastOK, Newest
    <2>2. CASE u # Reader
      <3>1. Reader \in User /\ last' = last
        BY <1>2, <2>2 DEF User
      <3>2. Live' \ hidden'[Reader] = Live \ hidden[Reader]
        BY <1>3, <1>4, <2>2, <3>1
      <3> QED
        BY <1>1, <1>2, <3>1, <3>2 DEF LastOK, Newest
    <2> QED
      BY <2>1, <2>2
  <1>7. \A w \in User : Vouches(lastSeen[w], w)'
    BY <1>1, <1>2 DEF ReceiptsOK, Vouches
  <1> QED
    BY <1>2, <1>3, <1>4, <1>5, <1>6, <1>7, NoticedWriteOK

(* A receipt: the member has read what is stored.                          *)
LEMMA MarkSeenOK ==
  ASSUME IInv, TypeOK', NEW m \in Msg, NEW u \in User, MarkSeen(m, u)
  PROVE  IInv'
  <1>1. TypeOK /\ IdsOK /\ HiddenOK /\ ReceiptsOK /\ LastOK
    BY DEF IInv
  <1>2. /\ m \in Stored /\ request' = Noticed
        /\ lastSeen' = [lastSeen EXCEPT ![u] = m]
        /\ seenBy' = [seenBy EXCEPT ![u] = @ \cup Stored]
        /\ UNCHANGED <<state, at, sender, overlapped, hidden, last>>
    BY DEF MarkSeen, Visible
  <1>3. Stored' = Stored /\ Live' = Live
    BY <1>2 DEF Stored, Live
  <1>4. HiddenOK' /\ LastOK'
    BY <1>1, <1>2, <1>3 DEF HiddenOK, LastOK, Newest
  <1>5. \A w \in User : seenBy[w] \subseteq seenBy'[w]
    BY <1>1, <1>2 DEF TypeOK
  <1>6. ASSUME NEW w \in User
        PROVE  Vouches(lastSeen[w], w)'
    <2>1. Vouches(lastSeen[w], w)
      BY <1>1 DEF ReceiptsOK
    <2>2. CASE w = u
      <3>1. lastSeen'[w] = m /\ seenBy'[w] = seenBy[w] \cup Stored
        BY <1>1, <1>2, <2>2 DEF TypeOK
      <3>2. ASSUME ~overlapped, NEW n \in Msg, n <= m
            PROVE  n \in Stored
        <4>1. n = m \/ n < m
          BY <3>2 DEF Msg
        <4>2. n < m => state[n] # "none" /\ state[n] # "created"
          BY <1>1, <1>2, <3>2 DEF IdsOK, Stored
        <4> QED
          BY <1>1, <1>2, <4>1, <4>2 DEF Stored, TypeOK
      <3> QED
        BY <1>2, <3>1, <3>2 DEF Vouches, Stored
    <2>3. CASE w # u
      <3>1. lastSeen'[w] = lastSeen[w] /\ seenBy'[w] = seenBy[w]
        BY <1>1, <1>2, <2>3 DEF TypeOK
      <3> QED
        BY <1>2, <2>1, <3>1 DEF Vouches
    <2> QED
      BY <2>2, <2>3
  <1> QED
    BY <1>2, <1>3, <1>4, <1>5, <1>6, NoticedWriteOK

----------------------------------------------------------------------------
(* The theorems.                                                           *)

(* Every step keeps the inductive invariant.                               *)
LEMMA NextOK == IInv /\ [Next]_vars => IInv'
  <1> SUFFICES ASSUME IInv, [Next]_vars
               PROVE  IInv'
    OBVIOUS
  <1>1. TypeOK
    BY DEF IInv
  <1>2. CASE Write
    <2>1. TypeOK'
      BY <1>1, <1>2, WriteTypes
    <2> QED
      BY <1>2, <2>1, CreateOK, CommitOK, TombstoneOK, HideOK, MarkSeenOK
      DEF Write
  <1>3. CASE Read
    <2>1. TypeOK'
      BY <1>1, <1>3, ReadTypes
    <2>2. AnswerPage \/ AnswerList => IInv'
      BY <2>1, AnswerOK DEF AnswerPage, AnswerList
    <2> QED
      BY <1>3, <2>1, <2>2, PageQueriesOK, AskListOK, CountUnreadOK,
         ReadOthersOK
      DEF Read
  <1>4. CASE UNCHANGED vars
    <2>1. /\ UNCHANGED <<table, seenBy, overlapped>>
          /\ request' = request
      BY <1>4 DEF vars
    <2>2. TypeOK'
      BY <1>1, <1>4 DEF TypeOK, vars, table
    <2>3. IdsOK' /\ HiddenOK' /\ LastOK'
      BY <2>1, TablesAlone DEF IInv
    <2>4. ReceiptsOK' /\ PageOK'
      BY <2>1, TablesAlone DEF IInv, ReceiptsOK, PageOK, table
    <2>5. EntryOK'
      BY <2>1, TablesAlone DEF IInv, EntryOK, table
    <2>6. QuietOK'
      BY <2>1, TablesAlone DEF IInv, QuietOK, OwnLast, SeenBy, table
    <2> QED
      BY <2>2, <2>3, <2>4, <2>5, <2>6 DEF IInv
  <1> QED
    BY <1>2, <1>3, <1>4 DEF Next

(* The inductive invariant holds in every reachable state.                 *)
THEOREM HistoryInvariant == Spec => []IInv
  <1> QED
    BY InitOK, NextOK, PTL DEF Spec

(* The variables keep their types.                                         *)
THEOREM TypeCorrect == Spec => []TypeOK
  <1>1. IInv => TypeOK
    BY DEF IInv
  <1> QED
    BY <1>1, HistoryInvariant, PTL

(* The rows are read after the request came in and the hidden messages     *)
(* after the rows: what was withheld by then is withheld from the page.    *)
THEOREM PagesWithhold == Spec => []WithheldStaysWithheld
  <1>1. IInv => WithheldStaysWithheld
    BY DEF IInv, PageOK, WithheldStaysWithheld, TextShown, QuoteShown
  <1> QED
    BY <1>1, HistoryInvariant, PTL

(* What a page or an entry shows as seen was there for the member whose    *)
(* receipt says so.                                                        *)
THEOREM ReceiptsVouch == Spec => []SeenWasThere
  <1>1. IInv => SeenWasThere
    <2> SUFFICES ASSUME IInv, ~overlapped, NoTies
                 PROVE  /\ request.step = "page" =>
                             \A m \in SeenShown :
                               m \in seenBy[Other(sender[m])]
                        /\ request.step = "entry" /\ request.seen =>
                             request.last
                               \in seenBy[Other(sender[request.last])]
      BY DEF SeenWasThere
    <2>1. TypeOK /\ IdsOK /\ ReceiptsOK /\ PageOK /\ EntryOK
      BY DEF IInv
    <2>2. ASSUME request.step = "page", NEW m \in SeenShown
          PROVE  m \in seenBy[Other(sender[m])]
      <3>1. /\ m \in Msg /\ state[m] # "none"
            /\ SeenBy(m, request.receipts[Other(sender[m])])
        BY <2>1 DEF SeenShown, PageOK, Created
      <3>2. /\ Other(sender[m]) \in User
            /\ request.receipts[Other(sender[m])] \in MsgOrNull
        BY <2>1 DEF TypeOK, Request, User, Other
      <3>3. Vouches(request.receipts[Other(sender[m])], Other(sender[m]))
        BY <2>1, <2>2, <3>2 DEF ReceiptsOK
      <3> QED
        BY <2>1, <3>1, <3>2, <3>3, ReceiptCovers
    <2> QED
      BY <2>1, <2>2 DEF EntryOK
  <1> QED
    BY <1>1, HistoryInvariant, PTL

(* A message counted as unread makes the last message a newer one than the *)
(* receipt, and the other way around.                                      *)
THEOREM BadgesAgree == Spec => []BadgeAgrees
  <1>1. IInv => BadgeAgrees
    <2> SUFFICES ASSUME IInv, request.step = "entry", request.quiet,
                        ~overlapped, NoTies,
                        request.last # 0 => sender[request.last] = Peer
                 PROVE  request.unread > 0
                          <=> request.last # 0 /\ ~request.seen
      BY DEF BadgeAgrees
    <2>1. TypeOK /\ IdsOK /\ ReceiptsOK /\ LastOK /\ QuietOK
      BY DEF IInv
    <2> DEFINE seen == lastSeen[Reader]
    <2>2. ~OwnLast
      BY HistoryAssumption DEF OwnLast
    <2>3. /\ request.last = last /\ request.unread = NotSeenCount
          /\ request.seen <=> SeenBy(last, seen)
      BY <2>1, <2>2 DEF QuietOK
    <2>4. request.unread > 0 <=> AfterReceipt \ hidden[Reader] # {}
      BY <2>3, UnreadCount
    <2>5. Reader \in User /\ seen \in MsgOrNull
      BY <2>1 DEF TypeOK, User
    <2>6. seen # 0 => seen \in Msg /\ state[seen] # "none"
      BY <2>1, <2>5, HistoryAssumption DEF ReceiptsOK, Vouches, Msg, MsgOrNull
    <2>7. last \in MsgOrNull
          /\ IF Live \ hidden[Reader] = {} THEN last = 0
             ELSE last \in Live \ hidden[Reader]
                  /\ \A n \in Live \ hidden[Reader] : n <= last
      BY <2>1 DEF LastOK, Newest
    <2>8. ASSUME NEW n \in AfterReceipt \ hidden[Reader]
          PROVE  last # 0 /\ ~SeenBy(last, seen)
      <3>1. last \in Live /\ last \in Msg /\ n \in Msg /\ n <= last
        BY <2>7 DEF AfterReceipt, Live
      <3>2. seen # 0 => seen < last
        BY <2>5, <3>1, HistoryAssumption DEF AfterReceipt, Msg, MsgOrNull
      <3>3. seen # 0 => at[seen] <= at[last]
        BY <2>1, <2>6, <3>1, <3>2 DEF IdsOK, Live
      <3>4. seen # 0 => at[seen] # at[last]
        BY <2>6, <3>1, <3>2, HistoryAssumption DEF NoTies, Created, Live, Msg
      <3>5. ~SeenBy(last, seen)
        BY <2>1, <2>6, <3>1, <3>3, <3>4 DEF SeenBy, TypeOK
      <3> QED
        BY <3>1, <3>5, HistoryAssumption DEF Msg
    <2>9. ASSUME last # 0, ~SeenBy(last, seen)
          PROVE  last \in AfterReceipt \ hidden[Reader]
      <3>1. last \in Live \ hidden[Reader] /\ last \in Msg
        BY <2>7, <2>9 DEF Live
      <3>2. ASSUME seen # 0, ~(last > seen)
            PROVE  FALSE
        <4>1. last = seen \/ last < seen
          BY <2>6, <3>1, <3>2 DEF Msg
        <4>2. at[last] <= at[seen]
          BY <2>1, <2>6, <3>1, <3>2, <4>1 DEF IdsOK, TypeOK
        <4> QED
          BY <2>9, <3>2, <4>2 DEF SeenBy
      <3> QED
        BY <3>1, <3>2 DEF AfterReceipt
    <2> QED
      BY <2>3, <2>4, <2>8, <2>9
  <1> QED
    BY <1>1, HistoryInvariant, PTL
----------------------------------------------------------------------------
(* The pages of a walk.                                                    *)

(* A page ends where the next one starts.                                  *)
LEMMA PageEnd ==
  ASSUME NEW p \in Int, NEW size \in Int
  PROVE  /\ Offset(p, size) = (p - 1) * size
         /\ Offset(p, size) + size = p * size
         /\ p * size \in Int
  BY DEF Offset

(* A page is the last one only if the rows fit on the pages up to it.      *)
LEMMA LastPage ==
  ASSUME NEW p \in Nat, NEW size \in Nat \ {0}, NEW total \in Nat,
         ~HasNext(p, size, total)
  PROVE  total <= p * size
  <1> DEFINE q == TotalPages(total, size)
  <1>1. q \in Nat /\ total <= q * size
    BY DEF TotalPages
  <1>2. q <= p
    BY <1>1 DEF HasNext
  <1> HIDE DEF q
  <1>3. q * size <= p * size
    BY <1>1, <1>2
  <1> QED
    BY <1>1, <1>3

(* The messages ahead of one, and itself, are among those found.           *)
LEMMA AheadCount ==
  ASSUME TypeOK, NEW m \in Found
  PROVE  /\ Ahead(m) \in SUBSET Msg
         /\ Cardinality(Ahead(m)) \in Nat /\ Cardinality(Ahead(m)) > 0
         /\ Cardinality(Ahead(m)) <= Cardinality(Found)
         /\ Cardinality(Found) \in Nat
  <1>1. Found \in SUBSET Msg
    BY DEF Found, Visible, Stored
  <1>2. m \in Ahead(m) /\ Ahead(m) \subseteq Found
    BY <1>1 DEF Ahead, TypeOK
  <1>3. /\ IsFiniteSet(Found) /\ IsFiniteSet(Ahead(m))
        /\ Cardinality(Found) \in MsgOrNull
        /\ Cardinality(Ahead(m)) \in MsgOrNull
    BY <1>1, <1>2, MessageSets
  <1>4. Cardinality(Ahead(m)) <= Cardinality(Found)
    BY <1>2, <1>3, FS_Subset
  <1>5. Cardinality(Ahead(m)) # 0
    BY <1>2, <1>3, FS_EmptySet
  <1> QED
    BY <1>1, <1>2, <1>3, <1>4, <1>5, HistoryAssumption DEF MsgOrNull

(* Without ties the place of a message counts those ahead of it.           *)
LEMMA PlaceAhead ==
  ASSUME TypeOK, NoTies, NEW m \in Found, NEW tie
  PROVE  Place(m, Found, Order(tie)) = Cardinality(Ahead(m))
  <1> DEFINE before == {y \in Found : y = m \/ <<y, m>> \in Order(tie)}
  <1>1. \A y \in Found : y \in Msg /\ y \in Created
    BY DEF Found, Visible, Stored, Created
  <1>2. \A y \in Found : <<y, m>> \in Order(tie) <=> Newer(y, m, tie)
    BY <1>1 DEF Order
  <1>3. ASSUME NEW y \in Found
        PROVE  y = m \/ <<y, m>> \in Order(tie) <=> at[y] >= at[m]
    <2>1. at[y] \in Nat /\ at[m] \in Nat
      BY <1>1 DEF TypeOK
    <2>2. at[y] = at[m] <=> y = m
      BY <1>1 DEF NoTies
    <2> QED
      BY <1>2, <2>1, <2>2 DEF Newer
  <1>4. before = Ahead(m)
    BY <1>3 DEF Ahead
  <1> QED
    BY <1>4 DEF Place

(* A message whose page was asked for is on it, or comes later.            *)
LEMMA FoundOnPage ==
  ASSUME TypeOK, NoTies, NEW m \in Found, NEW tie,
         Beyond(m, walk.page - 1)
  PROVE  \/ m \in PageOf(Found, Order(tie), walk.page, walk.size)
         \/ Beyond(m, walk.page)
  <1>1. walk.page \in Int /\ walk.size \in Int
    BY PagesAssumption DEF TypeOK, Walk
  <1> DEFINE n == Cardinality(Ahead(m))
             start == Offset(walk.page, walk.size)
             end == walk.page * walk.size
  <1>2. /\ start = (walk.page - 1) * walk.size
        /\ start + walk.size = end
        /\ end \in Int
    BY <1>1, PageEnd
  <1>3. n \in Nat /\ Place(m, Found, Order(tie)) = n
    BY AheadCount, PlaceAhead
  <1>4. start < n
    BY <1>1, <1>2, <1>3 DEF Beyond
  <1>5. Beyond(m, walk.page) <=> n > end
    BY DEF Beyond
  <1> HIDE DEF n, start, end
  <1>6. n <= end \/ n > end
    BY <1>2, <1>3
  <1> QED
    BY <1>2, <1>3, <1>4, <1>5, <1>6 DEF PageOf, start
(* More messages found, and none of them moved: more are ahead.            *)
LEMMA AheadGrows ==
  ASSUME TypeOK, TypeOK', Found \subseteq Found',
         \A n \in Found : at'[n] = at[n], NEW m \in Found
  PROVE  /\ Cardinality(Ahead(m)) \in Nat
         /\ Cardinality(Ahead(m)') \in Nat
         /\ Cardinality(Ahead(m)) <= Cardinality(Ahead(m)')
  <1>1. Ahead(m) \subseteq Ahead(m)'
    BY DEF Ahead
  <1>2. Ahead(m)' \in SUBSET Msg
    BY DEF Ahead, Found, Visible, Stored
  <1>3. /\ IsFiniteSet(Ahead(m)')
        /\ Cardinality(Ahead(m)') \in MsgOrNull
    BY <1>2, MessageSets
  <1>4. Cardinality(Ahead(m)) \in Nat
    BY AheadCount
  <1> QED
    BY <1>1, <1>3, <1>4, FS_Subset, HistoryAssumption DEF MsgOrNull

(* What is behind a page stays behind it.                                  *)
LEMMA BeyondStays ==
  ASSUME TypeOK, TypeOK', Found \subseteq Found',
         \A n \in Found : at'[n] = at[n], NEW m \in Found,
         walk'.page = walk.page, walk'.size = walk.size
  PROVE  /\ Beyond(m, walk.page) => Beyond(m, walk.page)'
         /\ Beyond(m, walk.page - 1) => Beyond(m, walk.page - 1)'
  <1> DEFINE n == Cardinality(Ahead(m))
             np == Cardinality(Ahead(m)')
             a == walk.page * walk.size
             b == (walk.page - 1) * walk.size
  <1>1. a \in Int /\ b \in Int
    BY PagesAssumption DEF TypeOK, Walk
  <1>2. n \in Nat /\ np \in Nat /\ n <= np
    BY AheadGrows
  <1>3. /\ Beyond(m, walk.page) <=> n > a
        /\ Beyond(m, walk.page - 1) <=> n > b
        /\ Beyond(m, walk.page)' <=> np > a
        /\ Beyond(m, walk.page - 1)' <=> np > b
    BY DEF Beyond
  <1> HIDE DEF n, np, a, b
  <1> QED
    BY <1>1, <1>2, <1>3

(* No message of the walk gets lost while the reader hides none: messages  *)
(* that come in, wherever they fall, only push the others to later pages.  *)
LEMMA WalkStays ==
  ASSUME TypeOK, TypeOK', WalkOK, Found \subseteq Found',
         \A n \in Created : n \in Created' /\ at'[n] = at[n],
         walk' = walk,
         request'.step = request.step, request'.rows = request.rows,
         request'.total = request.total
  PROVE  WalkOK'
  <1> SUFFICES ASSUME ~walk.hid, NoTies'
               PROVE  /\ walk.start \subseteq Found'
                      /\ \A m \in walk.start \ walk.got :
                           ~walk.done /\ StillToCome(m)'
    BY DEF WalkOK
  <1>1. NoTies
    BY DEF NoTies
  <1>2. /\ walk.start \subseteq Found
        /\ \A m \in walk.start \ walk.got : ~walk.done /\ StillToCome(m)
    BY <1>1 DEF WalkOK
  <1>3. \A n \in Found : at'[n] = at[n]
    BY DEF Found, Visible, Stored, Created
  <1>4. ASSUME NEW m \in walk.start \ walk.got
        PROVE  StillToCome(m)'
    <2>1. m \in Found /\ StillToCome(m)
      BY <1>2
    <2>2. /\ Beyond(m, walk.page) => Beyond(m, walk.page)'
          /\ Beyond(m, walk.page - 1) => Beyond(m, walk.page - 1)'
      BY <1>3, <2>1, BeyondStays
    <2> QED
      BY <2>1, <2>2 DEF StillToCome
  <1> QED
    BY <1>2, <1>4

(* The writes.                                                             *)
LEMMA WalkWrites ==
  ASSUME IInv, TypeOK', WalkOK, Write
  PROVE  WalkOK'
  <1>1. TypeOK /\ HiddenOK
    BY DEF IInv
  <1>2. Noticed.step = request.step /\ Noticed.rows = request.rows
        /\ Noticed.total = request.total
    BY <1>1 DEF Noticed, TypeOK, Request
  <1>3. PICK m \in Msg, u \in User, blocked \in BOOLEAN :
          \/ Tombstone(m) \/ Commit(m, blocked)
          \/ Create(m, u) \/ Hide(m, u) \/ MarkSeen(m, u)
    BY DEF Write, User
  <1>4. Reader \in User
    BY DEF User
  <1>5. CASE Tombstone(m)
    <2>1. /\ state[m] = "stored" /\ state' = [state EXCEPT ![m] = "deleted"]
          /\ UNCHANGED <<at, hidden, walk>> /\ request' = Noticed
      BY <1>5 DEF Tombstone
    <2>2. Stored' = Stored /\ Created' = Created
      BY <1>1, <2>1 DEF TypeOK, Stored, Created
    <2> QED
      BY <1>1, <1>2, <2>1, <2>2, WalkStays DEF Found, Visible
  <1>6. CASE Commit(m, blocked)
    <2>1. /\ state[m] = "created" /\ state' = [state EXCEPT ![m] = "stored"]
          /\ hidden' \in {hidden, [hidden EXCEPT ![Other(sender[m])] =
                                     @ \cup {m}]}
          /\ UNCHANGED <<at, walk>> /\ request' = Noticed
      BY <1>6 DEF Commit
    <2>2. Stored' = Stored \cup {m} /\ Created' = Created /\ m \notin Stored
      BY <1>1, <2>1 DEF TypeOK, Stored, Created
    <2>3. hidden'[Reader] \subseteq hidden[Reader] \cup {m}
      BY <1>1, <1>4, <2>1 DEF TypeOK
    <2>4. Found \subseteq Found'
      BY <2>2, <2>3 DEF Found, Visible
    <2> QED
      BY <1>1, <1>2, <2>1, <2>2, <2>4, WalkStays
  <1>7. CASE Create(m, u)
    <2>1. /\ state[m] = "none" /\ state' = [state EXCEPT ![m] = "created"]
          /\ UNCHANGED <<hidden, walk, request>>
          /\ \E t : at' = [at EXCEPT ![m] = t]
      BY <1>7 DEF Create
    <2>2. /\ Stored' = Stored
          /\ \A n \in Created : n \in Created' /\ at'[n] = at[n]
      BY <1>1, <2>1 DEF TypeOK, Stored, Created
    <2> QED
      BY <1>1, <2>1, <2>2, WalkStays DEF Found, Visible
  <1>8. CASE Hide(m, u)
    <2>1. /\ hidden' = [hidden EXCEPT ![u] = @ \cup {m}]
          /\ UNCHANGED <<state, at>> /\ request' = Noticed
          /\ walk' = IF u = Reader THEN [walk EXCEPT !.hid = TRUE] ELSE walk
      BY <1>8 DEF Hide
    <2>2. CASE u = Reader
      <3>1. walk'.hid
        BY <1>1, <2>1, <2>2 DEF TypeOK, Walk
      <3> QED
        BY <3>1 DEF WalkOK
    <2>3. CASE u # Reader
      <3>1. hidden'[Reader] = hidden[Reader] /\ walk' = walk
        BY <1>1, <1>4, <2>1, <2>3 DEF TypeOK
      <3>2. Found' = Found /\ Created' = Created
        BY <2>1, <3>1 DEF Found, Visible, Stored, Created
      <3> QED
        BY <1>1, <1>2, <2>1, <3>1, <3>2, WalkStays
    <2> QED
      BY <2>2, <2>3
  <1>9. CASE MarkSeen(m, u)
    <2>1. UNCHANGED <<state, at, hidden, walk>> /\ request' = Noticed
      BY <1>9 DEF MarkSeen
    <2>2. Found' = Found /\ Created' = Created
      BY <2>1 DEF Found, Visible, Stored, Created
    <2> QED
      BY <1>1, <1>2, <2>1, <2>2, WalkStays
  <1> QED
    BY <1>3, <1>5, <1>6, <1>7, <1>8, <1>9
(* The queries leave everything where it is.                               *)
LEMMA WalkTables ==
  ASSUME UNCHANGED table
  PROVE  /\ Found' = Found /\ (NoTies' <=> NoTies)
         /\ \A m : Ahead(m)' = Ahead(m)
         /\ \A m : walk'.page = walk.page /\ walk'.size = walk.size
                     => (Beyond(m, walk.page)' <=> Beyond(m, walk.page))
  <1>1. Found' = Found /\ Created' = Created /\ at' = at
    BY DEF table, Found, Visible, Stored, Created
  <1>2. \A m : Ahead(m)' = Ahead(m)
    BY <1>1 DEF Ahead
  <1>3. NoTies' <=> NoTies
    BY <1>1 DEF NoTies
  <1> QED
    BY <1>1, <1>2, <1>3 DEF Beyond

(* The first page, and the next ones.                                      *)
LEMMA WalkAsk ==
  ASSUME IInv, TypeOK', WalkOK,
         NEW p \in PagesAsked \cup {walk.page + 1}, NEW s \in SizesAsked,
         AskPage(p, s)
  PROVE  WalkOK'
  <1>1. TypeOK /\ UNCHANGED table /\ request.step = "idle"
    BY DEF IInv, AskPage
  <1>2. request'.step = "rows"
    BY DEF AskPage, Idle
  <1> SUFFICES ASSUME ~walk'.hid, NoTies'
               PROVE  /\ walk'.start \subseteq Found'
                      /\ \A m \in walk'.start \ walk'.got :
                           ~walk'.done /\ StillToCome(m)'
    BY DEF WalkOK
  <1>3. CASE walk' = [NoWalk EXCEPT !.page = 1, !.size = ParsedSize(s),
                                    !.start = Visible(Reader)]
    <2>1. /\ walk'.page = 1 /\ walk'.start = Found /\ ~walk'.done
      BY <1>3 DEF NoWalk, Found
    <2>2. walk'.size \in Int
      BY PagesAssumption DEF TypeOK, Walk
    <2>3. ASSUME NEW m \in Found
          PROVE  StillToCome(m)'
      <3>1. Cardinality(Ahead(m)') > 0
        BY <1>1, <2>3, AheadCount, WalkTables
      <3>2. (walk'.page - 1) * walk'.size = 0
        BY <2>1, <2>2
      <3>3. Beyond(m, walk.page - 1)'
        BY <3>1, <3>2 DEF Beyond
      <3> QED
        BY <1>2, <3>3 DEF StillToCome
    <2> QED
      BY <1>1, <2>1, <2>3, WalkTables
  <1>4. CASE /\ ~walk.done
             /\ walk' = [walk EXCEPT !.page = @ + 1]
    <2>1. /\ walk'.page = walk.page + 1 /\ walk'.size = walk.size
          /\ walk'.start = walk.start /\ walk'.got = walk.got
          /\ walk'.done = walk.done /\ walk'.hid = walk.hid
          /\ walk.page \in Nat
      BY <1>1, <1>4 DEF TypeOK, Walk
    <2>2. NoTies /\ ~walk.hid
      BY <1>1, <2>1, WalkTables
    <2>3. ASSUME NEW m \in walk.start \ walk.got
          PROVE  StillToCome(m)'
      <3>1. Beyond(m, walk.page)
        BY <1>1, <2>2 DEF WalkOK, StillToCome
      <3>2. walk'.page - 1 = walk.page /\ Ahead(m)' = Ahead(m)
        BY <1>1, <2>1, WalkTables
      <3>3. Beyond(m, walk.page - 1)'
        BY <2>1, <3>1, <3>2 DEF Beyond
      <3> QED
        BY <1>2, <3>3 DEF StillToCome
    <2> QED
      BY <1>1, <1>4, <2>1, <2>2, <2>3, WalkTables DEF WalkOK
  <1> QED
    BY <1>3, <1>4 DEF AskPage

(* The rows of the page are those that were to come on it.                 *)
LEMMA WalkRows ==
  ASSUME IInv, TypeOK', WalkOK, ReadRows
  PROVE  WalkOK'
  <1>1. /\ TypeOK /\ UNCHANGED <<table, walk>>
        /\ request.step = "rows"
    BY DEF IInv, ReadRows
  <1>2. PICK tie \in Tie :
          request' = [request EXCEPT
            !.step = "count", !.live = Live,
            !.rows = PageOf(Found, Order(tie), walk.page, walk.size)]
    BY DEF ReadRows
  <1> DEFINE page == PageOf(Found, Order(tie), walk.page, walk.size)
  <1> HIDE DEF page
  <1>3. request'.step = "count" /\ request'.rows = page
    BY <1>1, <1>2 DEF TypeOK, Request, page
  <1> SUFFICES ASSUME ~walk.hid, NoTies
               PROVE  /\ walk.start \subseteq Found
                      /\ \A m \in walk.start \ walk.got :
                           ~walk.done /\ StillToCome(m)'
    BY <1>1, WalkTables DEF WalkOK
  <1>4. ASSUME NEW m \in walk.start \ walk.got
        PROVE  StillToCome(m)'
    <2>1. m \in Found /\ Beyond(m, walk.page - 1)
      BY <1>1, <1>4 DEF WalkOK, StillToCome
    <2>2. m \in page \/ Beyond(m, walk.page)
      BY <1>1, <2>1, FoundOnPage DEF page
    <2>3. Beyond(m, walk.page)' <=> Beyond(m, walk.page)
      BY <1>1, WalkTables
    <2> QED
      BY <1>3, <2>2, <2>3 DEF StillToCome
  <1> QED
    BY <1>4 DEF WalkOK

(* The total counts what is behind the page as well.                       *)
LEMMA WalkCount ==
  ASSUME IInv, TypeOK', WalkOK, ReadCount
  PROVE  WalkOK'
  <1>1. /\ TypeOK /\ UNCHANGED <<table, walk>>
        /\ request.step = "count"
    BY DEF IInv, ReadCount
  <1>2. /\ request'.step = "quotes" /\ request'.rows = request.rows
        /\ request'.total = Cardinality(Found)
    BY <1>1 DEF ReadCount, TypeOK, Request
  <1> SUFFICES ASSUME ~walk.hid, NoTies
               PROVE  /\ walk.start \subseteq Found
                      /\ \A m \in walk.start \ walk.got :
                           ~walk.done /\ StillToCome(m)'
    BY <1>1, WalkTables DEF WalkOK
  <1>3. ASSUME NEW m \in walk.start \ walk.got
        PROVE  StillToCome(m)'
    <2>1. m \in Found /\ (m \in request.rows \/ Beyond(m, walk.page))
      BY <1>1, <1>3 DEF WalkOK, StillToCome
    <2>2. Beyond(m, walk.page)' <=> Beyond(m, walk.page)
      BY <1>1, WalkTables
    <2>3. ASSUME Beyond(m, walk.page)
          PROVE  Cardinality(Found) > walk.page * walk.size
      <3> DEFINE n == Cardinality(Ahead(m))
                 t == Cardinality(Found)
                 end == walk.page * walk.size
      <3>1. n \in Nat /\ t \in Nat /\ n <= t
        BY <1>1, <2>1, AheadCount
      <3>2. n > end /\ end \in Int
        BY <1>1, <2>3, PagesAssumption DEF Beyond, TypeOK, Walk
      <3> HIDE DEF n, t, end
      <3>3. t > end
        BY <3>1, <3>2
      <3> QED
        BY <3>3 DEF t, end
    <2>4. \/ m \in request.rows
          \/ /\ Beyond(m, walk.page)'
             /\ request'.total > walk'.page * walk'.size
      BY <1>1, <1>2, <2>1, <2>2, <2>3
    <2> QED
      BY <1>2, <2>4 DEF StillToCome
  <1> QED
    BY <1>3 DEF WalkOK

(* The look at the quoted messages changes nothing for the walk.           *)
LEMMA WalkQuotes ==
  ASSUME IInv, TypeOK', WalkOK, ReadQuotes
  PROVE  WalkOK'
  <1>1. /\ TypeOK /\ UNCHANGED <<table, walk>>
        /\ request.step = "quotes"
    BY DEF IInv, ReadQuotes
  <1>2. /\ request'.step = "page" /\ request'.rows = request.rows
        /\ request'.total = request.total
    BY <1>1 DEF ReadQuotes, TypeOK, Request
  <1>3. \A m : Beyond(m, walk.page)' <=> Beyond(m, walk.page)
    BY <1>1, WalkTables
  <1>4. \A m : StillToCome(m) => StillToCome(m)'
    BY <1>1, <1>2, <1>3 DEF StillToCome
  <1> QED
    BY <1>1, <1>4, WalkTables DEF WalkOK

(* The answer adds the rows to what the walk has got.  If nothing is said  *)
(* to be left, nothing is left.                                            *)
LEMMA WalkAnswer ==
  ASSUME IInv, TypeOK', WalkOK, AnswerPage
  PROVE  WalkOK'
  <1>1. /\ TypeOK /\ UNCHANGED table /\ request.step = "page"
        /\ walk' = [walk EXCEPT
             !.got = @ \cup request.rows,
             !.done = ~HasNext(walk.page, walk.size, request.total)]
    BY DEF IInv, AnswerPage
  <1>2. /\ walk'.page = walk.page /\ walk'.size = walk.size
        /\ walk'.start = walk.start /\ walk'.hid = walk.hid
        /\ walk'.got = walk.got \cup request.rows
        /\ walk'.done = ~HasNext(walk.page, walk.size, request.total)
    BY <1>1 DEF TypeOK, Walk
  <1>3. request'.step = "idle"
    BY DEF AnswerPage, Idle
  <1> SUFFICES ASSUME ~walk.hid, NoTies
               PROVE  /\ walk.start \subseteq Found
                      /\ \A m \in walk.start \ walk'.got :
                           ~walk'.done /\ StillToCome(m)'
    BY <1>1, <1>2, WalkTables DEF WalkOK
  <1>4. ASSUME NEW m \in walk.start \ walk'.got
        PROVE  ~walk'.done /\ StillToCome(m)'
    <2>1. /\ Beyond(m, walk.page)
          /\ request.total > walk.page * walk.size
      BY <1>1, <1>2, <1>4 DEF WalkOK, StillToCome
    <2>2. HasNext(walk.page, walk.size, request.total)
      <3>1. /\ walk.page \in Nat /\ walk.size \in Nat \ {0}
            /\ request.total \in Nat
        BY <1>1, PagesAssumption, HistoryAssumption
        DEF TypeOK, Walk, Request, MsgOrNull
      <3>2. walk.page * walk.size \in Int
        BY <3>1
      <3>3. ~(request.total <= walk.page * walk.size)
        BY <2>1, <3>1, <3>2
      <3> QED
        BY <3>1, <3>3, LastPage
    <2>3. Beyond(m, walk.page)'
      BY <1>1, <1>2, <2>1, WalkTables
    <2> QED
      BY <1>2, <1>3, <2>2, <2>3 DEF StillToCome
  <1> QED
    BY <1>4 DEF WalkOK

(* The list of conversations starts no walk, and ends the last one.        *)
LEMMA WalkList ==
  ASSUME IInv, TypeOK', WalkOK,
         AskList \/ CountUnread \/ ReadOthers \/ AnswerList
  PROVE  WalkOK'
  <1>1. CASE AskList
    <2>1. walk'.start = {}
      BY <1>1 DEF AskList, NoWalk
    <2> QED
      BY <2>1 DEF WalkOK
  <1>2. CASE CountUnread \/ ReadOthers \/ AnswerList
    <2>1. /\ UNCHANGED <<table, walk>>
          /\ request.step \in {"unread", "others", "entry"}
          /\ request'.step \in {"idle", "others", "entry"}
      <3>1. request \in Request
        BY DEF IInv, TypeOK
      <3>2. CASE CountUnread
        BY <3>1, <3>2 DEF Request, CountUnread
      <3>3. CASE ReadOthers
        BY <3>1, <3>3 DEF Request, ReadOthers
      <3>4. CASE AnswerList
        BY <3>4 DEF AnswerList, Idle
      <3> QED
        BY <1>2, <3>2, <3>3, <3>4
    <2>2. \A m : Beyond(m, walk.page)' <=> Beyond(m, walk.page)
      BY <2>1, WalkTables
    <2>3. \A m : StillToCome(m) => StillToCome(m)'
      BY <2>1, <2>2 DEF StillToCome
    <2> QED
      BY <2>1, <2>3, WalkTables DEF WalkOK
  <1> QED
    BY <1>1, <1>2

(* Every step keeps what is still to come.                                 *)
LEMMA WalkNextOK == IInv /\ IInv' /\ WalkOK /\ [Next]_vars => WalkOK'
  <1> SUFFICES ASSUME IInv, IInv', WalkOK, [Next]_vars
               PROVE  WalkOK'
    OBVIOUS
  <1>1. TypeOK /\ TypeOK'
    BY DEF IInv
  <1>2. CASE Write
    BY <1>1, <1>2, WalkWrites
  <1>3. CASE Read
    BY <1>1, <1>3, WalkAsk, WalkRows, WalkCount, WalkQuotes, WalkAnswer,
       WalkList
    DEF Read
  <1>4. CASE UNCHANGED vars
    <2>1. UNCHANGED <<table, walk, request>>
      BY <1>4 DEF vars
    <2>2. Found' = Found /\ Created' = Created
      BY <2>1 DEF table, Found, Visible, Stored, Created
    <2> QED
      BY <1>1, <2>1, <2>2, WalkStays DEF table
  <1> QED
    BY <1>2, <1>3, <1>4 DEF Next

(* While the reader hides nothing and no two messages share a millisecond, *)
(* whoever turns the pages to the end gets every message that was there    *)
(* when the first page was asked for, whatever is written meanwhile.       *)
THEOREM WalksAreComplete == Spec => []WalkComplete
  <1>1. Init => WalkOK
    BY DEF Init, NoWalk, WalkOK
  <1>2. WalkOK => WalkComplete
    BY DEF WalkOK, WalkComplete
  <1> QED
    BY <1>1, <1>2, WalkNextOK, HistoryInvariant, PTL DEF Spec
----------------------------------------------------------------------------
(* The pages of rows in a given order, whichever: with every row on just   *)
(* one page, and no page longer than asked for.                            *)

(* The order names, of any two different rows, one that comes first.       *)
Orders(before, rows) ==
  /\ \A x, y \in rows : x = y \/ <<x, y>> \in before \/ <<y, x>> \in before
  /\ \A x \in rows : <<x, x>> \notin before
  /\ \A x, y, z \in rows :
       <<x, y>> \in before /\ <<y, z>> \in before => <<x, z>> \in before

(* The places are counted from one to the number of rows.                  *)
LEMMA PlaceInRange ==
  ASSUME NEW rows, IsFiniteSet(rows), NEW before, NEW x \in rows
  PROVE  /\ Place(x, rows, before) \in Nat
         /\ 0 < Place(x, rows, before)
         /\ Place(x, rows, before) <= Cardinality(rows)
         /\ Cardinality(rows) \in Nat
  <1> DEFINE upto == {y \in rows : y = x \/ <<y, x>> \in before}
  <1>1. x \in upto /\ upto \in SUBSET rows
    OBVIOUS
  <1>2. Place(x, rows, before) = Cardinality(upto)
    BY DEF Place
  <1> HIDE DEF upto
  <1>3. /\ IsFiniteSet(upto) /\ Cardinality(upto) <= Cardinality(rows)
        /\ Cardinality(upto) \in Nat /\ Cardinality(rows) \in Nat
    BY <1>1, FS_Subset, FS_CardinalityType
  <1>4. Cardinality(upto) # 0
    BY <1>1, <1>3, FS_EmptySet
  <1> QED
    BY <1>2, <1>3, <1>4

(* A row that comes before another has a smaller place ...                 *)
LEMMA PlaceBefore ==
  ASSUME NEW rows, IsFiniteSet(rows), NEW before, Orders(before, rows),
         NEW x \in rows, NEW y \in rows, <<x, y>> \in before
  PROVE  Place(x, rows, before) # Place(y, rows, before)
  <1> DEFINE uptoX == {z \in rows : z = x \/ <<z, x>> \in before}
             uptoY == {z \in rows : z = y \/ <<z, y>> \in before}
  <1>1. uptoX \in SUBSET uptoY /\ uptoY \in SUBSET rows /\ y \in uptoY
    BY DEF Orders
  <1>2. y \notin uptoX
    BY DEF Orders
  <1>3. /\ Place(x, rows, before) = Cardinality(uptoX)
        /\ Place(y, rows, before) = Cardinality(uptoY)
    BY DEF Place
  <1> HIDE DEF uptoX, uptoY
  <1>4. IsFiniteSet(uptoY)
    BY <1>1, FS_Subset
  <1> QED
    BY <1>1, <1>2, <1>3, <1>4, FS_Subset

(* ... so no two rows share one.                                           *)
LEMMA PlacesDiffer ==
  ASSUME NEW rows, IsFiniteSet(rows), NEW before, Orders(before, rows),
         NEW x \in rows, NEW y \in rows,
         Place(x, rows, before) = Place(y, rows, before)
  PROVE  x = y
  <1>1. <<x, y>> \notin before /\ <<y, x>> \notin before
    BY PlaceBefore
  <1> QED
    BY <1>1 DEF Orders

(* A number from one to the total lies on one of the pages.                *)
LEMMA PageOfPlace ==
  ASSUME NEW size \in Nat \ {0}, NEW total \in Nat, NEW n \in 1 .. total
  PROVE  \E p \in 1 .. TotalPages(total, size) :
           Offset(p, size) < n /\ n <= Offset(p, size) + size
  <1> DEFINE p == (n + size - 1) \div size
             q == TotalPages(total, size)
  <1>1. /\ p \in Nat /\ q \in Nat
        /\ n <= p * size /\ p * size < n + size
        /\ total <= q * size
    BY DEF TotalPages
  <1> HIDE DEF p, q
  <1>2. /\ Offset(p, size) + size = p * size
        /\ Offset(p, size) \in Int
    BY <1>1, PageEnd DEF Offset
  <1>3. p # 0
    BY <1>1
  <1>4. p <= q
    <2> SUFFICES ASSUME q + 1 <= p PROVE FALSE
      BY <1>1
    <2>1. (q + 1) * size <= p * size
      BY <1>1
    <2>2. (q + 1) * size = q * size + size
      BY <1>1
    <2>3. q * size \in Int /\ p * size \in Int
      BY <1>1
    <2> QED
      BY <1>1, <2>1, <2>2, <2>3
  <1> QED
    BY <1>1, <1>2, <1>3, <1>4 DEF q

(* A page ends before any later page starts.                               *)
LEMMA PagesInOrder ==
  ASSUME NEW size \in Nat \ {0}, NEW p \in Int, NEW q \in Int, p < q
  PROVE  Offset(p, size) + size <= Offset(q, size)
  <1>1. p * size <= (q - 1) * size
    OBVIOUS
  <1>2. Offset(p, size) + size = p * size
    BY PageEnd
  <1>3. Offset(q, size) = (q - 1) * size
    BY PageEnd
  <1> QED
    BY <1>1, <1>2, <1>3

(* The rows of a page have the places from its offset on.                  *)
LEMMA PageIsShort ==
  ASSUME NEW rows, IsFiniteSet(rows), NEW before, Orders(before, rows),
         NEW size \in Nat \ {0}, NEW p \in Int
  PROVE  /\ IsFiniteSet(PageOf(rows, before, p, size))
         /\ Cardinality(PageOf(rows, before, p, size)) <= size
  <1> DEFINE page == PageOf(rows, before, p, size)
             start == Offset(p, size)
             places == start + 1 .. start + size
             place == [x \in page |-> Place(x, rows, before)]
  <1>1. start \in Int
    BY PageEnd DEF Offset
  <1>2. \A x \in page : x \in rows /\ place[x] = Place(x, rows, before)
    BY DEF PageOf
  <1>3. \A x \in page : Place(x, rows, before) \in places
    <2> SUFFICES ASSUME NEW x \in page
                 PROVE  Place(x, rows, before) \in places
      OBVIOUS
    <2>1. Place(x, rows, before) \in Nat
      BY <1>2, PlaceInRange
    <2>2. /\ start < Place(x, rows, before)
          /\ Place(x, rows, before) <= start + size
      BY DEF PageOf
    <2> HIDE DEF start
    <2> QED
      BY <1>1, <2>1, <2>2
  <1>4. \A x, y \in page : place[x] = place[y] => x = y
    BY <1>2, PlacesDiffer
  <1> HIDE DEF page, start
  <1>5. place \in [page -> places]
    BY <1>3
  <1>6. place \in Injection(page, places)
    BY <1>4, <1>5 DEF Injection, IsInjective
  <1>7. IsFiniteSet(places) /\ Cardinality(places) = size
    <2>1. /\ start + 1 \in Int /\ start + size \in Int
          /\ ~(start + 1 > start + size)
          /\ (start + size) - (start + 1) + 1 = size
      BY <1>1
    <2> QED
      BY <2>1, FS_Interval
  <1> HIDE DEF places, place
  <1>8. IsFiniteSet(page) /\ Cardinality(page) <= size
    BY <1>6, <1>7, FS_Injection
  <1> QED
    BY <1>8 DEF page

(* Rows in an order: the pages up to the last leave none out, none is on   *)
(* two of them, and none is longer than its size.                          *)
SharedOut(rows, before, size) ==
  /\ \A x \in rows : \E p \in 1 .. TotalPages(Cardinality(rows), size) :
       x \in PageOf(rows, before, p, size)
  /\ \A p, q \in Int : p # q =>
       PageOf(rows, before, p, size) \cap PageOf(rows, before, q, size) = {}
  /\ \A p \in Int : Cardinality(PageOf(rows, before, p, size)) <= size

(* PaginationHelper and OFFSET ... LIMIT ... share out any finite rows, in *)
(* any order that leaves nothing to chance, for every size of the pages.   *)
THEOREM PagesShareOut ==
  ASSUME NEW rows, IsFiniteSet(rows), NEW before, Orders(before, rows),
         NEW size \in Nat \ {0}
  PROVE  SharedOut(rows, before, size)
  <1>1. ASSUME NEW x \in rows
        PROVE  \E p \in 1 .. TotalPages(Cardinality(rows), size) :
                 x \in PageOf(rows, before, p, size)
    <2>1. /\ Cardinality(rows) \in Nat
          /\ Place(x, rows, before) \in 1 .. Cardinality(rows)
      BY PlaceInRange
    <2>2. PICK p \in 1 .. TotalPages(Cardinality(rows), size) :
            /\ Offset(p, size) < Place(x, rows, before)
            /\ Place(x, rows, before) <= Offset(p, size) + size
      BY <2>1, PageOfPlace
    <2> QED
      BY <2>2 DEF PageOf
  <1>2. ASSUME NEW p \in Int, NEW q \in Int, p < q, NEW x \in rows,
               x \in PageOf(rows, before, p, size),
               x \in PageOf(rows, before, q, size)
        PROVE  FALSE
    <2> DEFINE n == Place(x, rows, before)
    <2>1. n \in Nat
      BY PlaceInRange
    <2>2. n <= Offset(p, size) + size /\ Offset(q, size) < n
      BY <1>2 DEF PageOf
    <2>3. Offset(p, size) \in Int /\ Offset(q, size) \in Int
      BY PageEnd DEF Offset
    <2>4. Offset(p, size) + size <= Offset(q, size)
      BY <1>2, PagesInOrder
    <2> HIDE DEF n
    <2> QED
      BY <2>1, <2>2, <2>3, <2>4
  <1>3. ASSUME NEW p \in Int, NEW q \in Int, p # q
        PROVE  PageOf(rows, before, p, size)
                 \cap PageOf(rows, before, q, size) = {}
    <2>1. p < q \/ q < p
      BY <1>3
    <2>2. \A r \in Int : PageOf(rows, before, r, size) \subseteq rows
      BY DEF PageOf
    <2> QED
      BY <1>2, <2>1, <2>2
  <1> QED
    BY <1>1, <1>3, PageIsShort DEF SharedOut

(* The query of a page: ORDER BY created_at and, where two messages share  *)
(* a millisecond, any order the database likes, is an order in that sense. *)
LEMMA OrderOrders ==
  ASSUME TypeOK, NEW tie \in Tie
  PROVE  Orders(Order(tie), Msg)
  <1>1. ASSUME NEW x \in Msg, NEW y \in Msg
        PROVE  <<x, y>> \in Order(tie) <=> Newer(x, y, tie)
    BY DEF Order
  <1>2. \A x \in Msg : at[x] \in Int /\ tie[x] \in Int
    BY DEF TypeOK, Tie, Msg
  <1>3. \A x, y \in Msg : tie[x] = tie[y] => x = y
    BY DEF Tie
  <1>4. \A x, y \in Msg :
          x = y \/ Newer(x, y, tie) \/ Newer(y, x, tie)
    BY <1>2, <1>3 DEF Newer
  <1>5. \A x \in Msg : ~Newer(x, x, tie)
    BY <1>2 DEF Newer
  <1>6. \A x, y, z \in Msg :
          Newer(x, y, tie) /\ Newer(y, z, tie) => Newer(x, z, tie)
    BY <1>2 DEF Newer
  <1> QED
    BY <1>1, <1>4, <1>5, <1>6 DEF Orders

(* What a reader would be shown, page by page, if nothing were written and *)
(* the database kept to one order, ties included: each message just once.  *)
EachOnOnePage ==
  \A tie \in Tie, size \in 1 .. MaxPageSize :
    SharedOut(Found, Order(tie), size)

(* At every moment the messages a reader may find are shared out by the    *)
(* pages, for whatever size the reader asks for.                           *)
THEOREM PagesAreWhole == Spec => []EachOnOnePage
  <1>1. TypeOK => EachOnOnePage
    <2> SUFFICES ASSUME TypeOK, NEW tie \in Tie, NEW size \in 1 .. MaxPageSize
                 PROVE  SharedOut(Found, Order(tie), size)
      BY DEF EachOnOnePage
    <2>1. Found \in SUBSET Msg
      BY DEF Found, Visible, Stored
    <2>2. IsFiniteSet(Found)
      BY <2>1, MessageSets
    <2>3. Orders(Order(tie), Found)
      BY <2>1, OrderOrders DEF Orders
    <2>4. size \in Nat \ {0}
      BY PagesAssumption
    <2> QED
      BY <2>2, <2>3, <2>4, PagesShareOut
  <1> QED
    BY <1>1, TypeCorrect, PTL
============================================================================
