-------------------------- MODULE Messaging_proofs --------------------------
(***************************************************************************)
(* Theorems about Messaging, for every value of its constants.  IInv is    *)
(* inductive, and the type invariant, RetriesNameOneMessage, ShadowHolds   *)
(* and HiddenForGood follow from it; so does SeenStored.  For each         *)
(* property that an overlap of handlers can break, a hypothesis excludes   *)
(* that overlap and no other, and an invariant is inductive beside IInv    *)
(* under it: DeletionsApart and TombstonesKnown give TombstoneIsFinal,     *)
(* EditsApart and EditsLive give TombstoneIsFrozen, KeysApart and GhostInv *)
(* NoGhostBroadcast, SendsApart and NewestMinted ArrivesUnread, and        *)
(* WritersApart and LastInv LastMessageExact.                              *)
(***************************************************************************)
EXTENDS Messaging, TLAPS

(* The types of the values that actions put into the slots.                *)
LEMMA Blanks ==
  /\ NoCall \in Call
  /\ NoEntity \in Entity
  /\ NoMessage \in Message
BY MessagingAssumption
DEF NoCall, Call, NoEntity, Entity, NoMessage, Message, Member, IdOrNull

(* Newest is an id, or 0 when there is none.                               *)
LEMMA NewestType ==
  ASSUME NEW u, NEW msgs, NEW dfor
  PROVE  Newest(u, msgs, dfor) \in IdOrNull
BY MessagingAssumption DEF Newest, Id, IdOrNull

(* An entity as the repository returns it.                                 *)
LEMMA LoadedType ==
  ASSUME TypeOK, NEW m \in Id
  PROVE  /\ Loaded(m) \in Entity
         /\ Loaded(m).id = m
         /\ Loaded(m).hidden = deletedFor[m]
<1>1. m \in IdOrNull
  BY MessagingAssumption DEF Id, IdOrNull
<1> QED
  BY <1>1, Blanks DEF TypeOK, Loaded, Entity, Message

(* The inductive invariant holds before the first request.                 *)
THEOREM IInvInit == Init => IInv
<1> SUFFICES ASSUME Init PROVE IInv
  OBVIOUS
<1>1. TypeOK
  BY Blanks, MessagingAssumption
  DEF Init, TypeOK, IdOrNull, Label, Member
<1>2. ASSUME NEW r \in Request PROVE RequestOK(r)
  BY <1>2 DEF Init, RequestOK, CallOK, FreshOK, Minted, KeyOK, EntityOK
<1>3. TableOK
  BY DEF Init, TableOK, NoMessage
<1> QED
  BY <1>1, <1>2, <1>3
  DEF Init, IInv, EventOK, NoticeOK, AckOK, ShadowHolds

----------------------------------------------------------------------------
(* Steps that change one request and nothing else.                         *)

Shared == <<tables, lastId, events, inbox>>

(* Slot r becomes that of a request that has label l, arguments c and      *)
(* entity e.                                                               *)
Becomes(r, l, c, e) ==
  /\ pc' = [pc EXCEPT ![r] = l]
  /\ call' = [call EXCEPT ![r] = c]
  /\ entity' = [entity EXCEPT ![r] = e]

(* What the slots are after it.                                            *)
LEMMA SlotsAfter ==
  ASSUME TypeOK, NEW r \in Request, NEW l, NEW c, NEW e, Becomes(r, l, c, e)
  PROVE  /\ pc'[r] = l /\ call'[r] = c /\ entity'[r] = e
         /\ \A q \in Request \ {r} : /\ pc'[q] = pc[q] /\ call'[q] = call[q]
                                     /\ entity'[q] = entity[q]
BY DEF TypeOK, Becomes

(* If such a step leaves its own request in order, and starts to publish   *)
(* only from a minted id, then it leaves everything in order.              *)
LEMMA SlotStep ==
  ASSUME IInv, NEW r \in Request, NEW l \in Label, NEW c \in Call,
         NEW e \in Entity, Becomes(r, l, c, e),
         UNCHANGED Shared, UNCHANGED <<acks, received>>,
         RequestOK(r)',
         l = "publish" => Minted(r) /\ e.id = entity[r].id
  PROVE  IInv'
<1> USE DEF IInv, Becomes, Shared, tables
<1>1. TypeOK'
  BY DEF TypeOK
<1>2. ASSUME NEW q \in Request PROVE RequestOK(q)'
  <2>1. CASE q = r
    BY <2>1
  <2>2. CASE q # r
    <3>1. /\ pc'[q] = pc[q] /\ call'[q] = call[q] /\ entity'[q] = entity[q]
          /\ pc'[r] = l /\ call'[r] = c /\ entity'[r] = e
      BY <2>2 DEF TypeOK
    <3>2. CallOK(q)'
      BY <3>1 DEF RequestOK, CallOK, Stored
    <3>3. FreshOK(q)'
      BY <2>2, <3>1 DEF TypeOK, RequestOK, FreshOK, Minted
    <3>4. KeyOK(q)'
      BY <2>2, <3>1 DEF TypeOK, RequestOK, KeyOK, RowsOf, KeyPending
    <3>5. EntityOK(q)'
      BY <3>1 DEF RequestOK, EntityOK
    <3> QED
      BY <3>2, <3>3, <3>4, <3>5 DEF RequestOK
  <2> QED
    BY <2>1, <2>2
<1>3. TableOK' /\ EventOK' /\ NoticeOK' /\ AckOK' /\ ShadowHolds'
  BY DEF TableOK, EventOK, NoticeOK, AckOK, ShadowHolds
<1> QED
  BY <1>1, <1>2, <1>3

(* A free slot is in order.                                                *)
LEMMA IdleOK ==
  ASSUME NEW r, pc[r] = "idle"
  PROVE  RequestOK(r)
BY DEF RequestOK, CallOK, FreshOK, Minted, KeyOK, EntityOK

(* The end of a request that is turned away or fails.                      *)
LEMMA RejectStep ==
  ASSUME IInv, NEW r \in Request, Reject(r)
  PROVE  IInv'
<1>1. Becomes(r, "idle", NoCall, NoEntity)
  BY DEF Reject, Finish, Goto, Hold, Becomes
<1>2. RequestOK(r)'
  BY <1>1 DEF IInv, TypeOK, Becomes, RequestOK, CallOK, FreshOK, Minted,
              KeyOK, EntityOK
<1>3. "idle" \in Label
  BY DEF Label
<1> QED
  BY <1>1, <1>2, <1>3, Blanks, SlotStep DEF Reject, Shared, tables

(* A request that comes in, given that its arguments are in order ...      *)
LEMMA ReceiveStep ==
  ASSUME IInv, NEW r \in Request, NEW c \in Call,
         NEW l \in {"findClientId", "loadReply", "create", "loadEdit",
                    "loadDelete", "loadConversation"},
         Receive(r, c, l),
         c.user \in User, c.user \notin c.shadow, c.op \in Operation,
         l \in Sending => c.op = "send",
         l \in Editing => c.op = "edit",
         l \in Deleting => c.op \in {"deleteForMe", "deleteForEveryone"},
         l \in Marking => c.op = "seen",
         l = "findClientId" => c.cid # None,
         c.op # "send" => Stored(c.target) /\ c.cid = None
  PROVE  IInv'
<1> USE DEF IInv, Receive, Goto, tables
<1>1. TypeOK'
  BY MessagingAssumption DEF TypeOK, Label
<1>2. ASSUME NEW q \in Request PROVE RequestOK(q)'
  <2>1. CASE q = r
    BY <2>1 DEF TypeOK, RequestOK, CallOK, FreshOK, Minted, KeyOK, EntityOK,
                Stored
  <2>2. CASE q # r
    <3>1. pc'[q] = pc[q] /\ call'[q] = call[q] /\ pc'[r] = l
      BY <2>2 DEF TypeOK
    <3> QED
      BY <3>1 DEF TypeOK, RequestOK, CallOK, FreshOK, Minted, KeyOK,
                  KeyPending, RowsOf, EntityOK, Stored
  <2> QED
    BY <2>1, <2>2
<1>3. TableOK' /\ EventOK' /\ NoticeOK' /\ AckOK' /\ ShadowHolds'
  BY DEF TableOK, EventOK, NoticeOK, AckOK, ShadowHolds
<1> QED
  BY <1>1, <1>2, <1>3

(* ... as those of every request are.                                      *)
LEMMA ArriveStep ==
  ASSUME IInv, NEW r \in Request, Arrive(r)
  PROVE  IInv'
<1>1. PICK u \in User :
        \/ \E t \in Text, c \in ClientId \cup {None}, reply \in IdOrNull,
              shadow \in {{}, User \ {u}} :
             ReceiveSend(r, u, t, c, reply, shadow)
        \/ \E m \in Id, t \in Text : ReceiveEdit(r, u, m, t)
        \/ \E m \in Id, scope \in {"deleteForMe", "deleteForEveryone"} :
              ReceiveDelete(r, u, m, scope)
        \/ \E m \in Id : ReceiveSeen(r, u, m)
  BY DEF Arrive
<1> USE DEF Call, Operation, Sending, Editing, Deleting, Marking
<1>2. ASSUME NEW t \in Text, NEW c \in ClientId \cup {None},
             NEW reply \in IdOrNull, NEW shadow \in {{}, User \ {u}},
             ReceiveSend(r, u, t, c, reply, shadow)
      PROVE  IInv'
  BY <1>2, ReceiveStep DEF ReceiveSend
<1>3. ASSUME NEW m \in Id, m \in IdOrNull, NEW t \in Text,
             ReceiveEdit(r, u, m, t)
      PROVE  IInv'
  BY <1>3, ReceiveStep DEF ReceiveEdit
<1>4. ASSUME NEW m \in Id, m \in IdOrNull,
             NEW scope \in {"deleteForMe", "deleteForEveryone"},
             ReceiveDelete(r, u, m, scope)
      PROVE  IInv'
  BY <1>4, ReceiveStep DEF ReceiveDelete
<1>5. ASSUME NEW m \in Id, m \in IdOrNull, ReceiveSeen(r, u, m)
      PROVE  IInv'
  BY <1>5, ReceiveStep DEF ReceiveSeen
<1>6. \A m \in Id : m \in IdOrNull
  BY MessagingAssumption DEF Id, IdOrNull
<1> QED
  BY <1>1, <1>2, <1>3, <1>4, <1>5, <1>6

----------------------------------------------------------------------------
(* CreateMessageHandler.                                                   *)

LEMMA FindNoEarlierSendStep ==
  ASSUME IInv, NEW r \in Request, FindNoEarlierSend(r)
  PROVE  IInv'
<1> DEFINE l == AfterLookup(r)
<1>1. l \in {"loadReply", "create"} /\ l \in Label
  BY DEF AfterLookup, Label
<1>2. /\ Becomes(r, l, call[r], entity[r])
      /\ call[r] \in Call /\ entity[r] \in Entity
  BY DEF IInv, TypeOK, FindNoEarlierSend, Goto, Becomes
<1>3. RequestOK(r)'
  BY <1>1, <1>2
  DEF IInv, TypeOK, FindNoEarlierSend, tables, Becomes, RequestOK, CallOK,
      FreshOK, Minted, KeyOK, EntityOK, Stored, Sending, Editing, Deleting,
      Marking
<1> HIDE DEF l
<1> QED
  BY <1>1, <1>2, <1>3, SlotStep DEF FindNoEarlierSend, Shared, tables

(* The look at the message replied to.                                     *)
LEMMA LoadReplyStep ==
  ASSUME IInv, NEW r \in Request, LoadReply(r)
  PROVE  IInv'
<1>1. CASE Reject(r)
  BY <1>1, RejectStep
<1>2. CASE ~Reject(r)
  <2>1. /\ Goto(r, "create") /\ pc[r] = "loadReply"
        /\ UNCHANGED <<tables, lastId, call, entity, events, inbox, acks,
                       received>>
    BY <1>2 DEF LoadReply
  <2>2. /\ Becomes(r, "create", call[r], entity[r])
        /\ call[r] \in Call /\ entity[r] \in Entity /\ "create" \in Label
    BY <2>1 DEF IInv, TypeOK, Goto, Becomes, Label
  <2>3. RequestOK(r)'
    BY <2>1, <2>2
    DEF IInv, TypeOK, tables, Becomes, RequestOK, CallOK, FreshOK, Minted,
        KeyOK, EntityOK, Stored, Sending, Editing, Deleting, Marking
  <2> QED
    BY <2>1, <2>2, <2>3, SlotStep DEF Shared, tables
<1> QED
  BY <1>1, <1>2

(* The INSERT of saveMessage takes the key alone ...                       *)
LEMMA InsertMessageStep ==
  ASSUME IInv, NEW r \in Request, InsertMessage(r)
  PROVE  IInv'
<1> DEFINE e == [entity[r] EXCEPT
              !.members = [u \in User |->
                [last |-> IF u \in entity[r].hidden THEN members[u].last
                          ELSE entity[r].id,
                 seen |-> IF u = call[r].user THEN entity[r].id
                          ELSE members[u].seen]],
              !.touched = User]
<1>1. /\ Becomes(r, "saveMessage", call[r], e)
      /\ call[r] \in Call /\ "saveMessage" \in Label
  BY DEF IInv, TypeOK, InsertMessage, Goto, Hold, Becomes, Label
<1>2. /\ e \in Entity /\ e.id = entity[r].id /\ e.hidden = entity[r].hidden
  <2> DEFINE rows == [u \in User |->
                [last |-> IF u \in entity[r].hidden THEN members[u].last
                          ELSE entity[r].id,
                 seen |-> IF u = call[r].user THEN entity[r].id
                          ELSE members[u].seen]]
  <2>1. entity[r] \in Entity /\ entity[r].id \in IdOrNull
    BY DEF IInv, TypeOK, Entity
  <2>2. rows \in [User -> Member]
    BY <2>1 DEF IInv, TypeOK, Member
  <2> HIDE DEF rows
  <2> QED
    BY <2>1, <2>2 DEF Entity, rows
<1>3. RequestOK(r)'
  <2> HIDE DEF e
  <2>1. /\ pc'[r] = "saveMessage" /\ call'[r] = call[r]
        /\ entity'[r].id = entity[r].id /\ entity'[r].hidden = entity[r].hidden
        /\ \A q \in Request \ {r} : /\ pc'[q] = pc[q] /\ call'[q] = call[q]
                                    /\ entity'[q] = entity[q]
        /\ UNCHANGED <<messages, lastId, events, inbox>>
    BY <1>1, <1>2 DEF IInv, TypeOK, Becomes, InsertMessage, tables
  <2>2. CallOK(r)'
    BY <2>1 DEF IInv, InsertMessage, RequestOK, CallOK, Stored, Sending,
                Editing, Deleting, Marking
  <2>3. FreshOK(r)'
    BY <2>1 DEF IInv, InsertMessage, RequestOK, FreshOK, Minted
  <2>4. KeyOK(r)'
    BY <2>1 DEF InsertMessage, KeyOK, RowsOf, KeyPending
  <2> QED
    BY <2>1, <2>2, <2>3, <2>4 DEF RequestOK, EntityOK
<1> HIDE DEF e
<1> QED
  BY <1>1, <1>2, <1>3, SlotStep DEF InsertMessage, Shared, tables

(* ... fails on a key that is taken ...                                    *)
LEMMA InsertConflictStep ==
  ASSUME IInv, NEW r \in Request, InsertConflict(r)
  PROVE  IInv'
<1>1. /\ Becomes(r, "loadExisting", call[r], entity[r])
      /\ call[r] \in Call /\ entity[r] \in Entity /\ "loadExisting" \in Label
  BY DEF IInv, TypeOK, InsertConflict, Goto, Becomes, Label
<1>2. RequestOK(r)'
  <2>1. /\ pc'[r] = "loadExisting" /\ call'[r] = call[r]
        /\ entity'[r] = entity[r] /\ pc[r] = "insert" /\ call[r].cid # None
        /\ \A q \in Request \ {r} : /\ pc'[q] = pc[q]
                                    /\ entity'[q] = entity[q]
        /\ UNCHANGED <<messages, lastId, events, inbox>>
    BY <1>1, SlotsAfter DEF IInv, InsertConflict, tables
  <2>2. CallOK(r) /\ FreshOK(r)
    BY DEF IInv, RequestOK
  <2>3. CallOK(r)'
    BY <2>1, <2>2 DEF CallOK, Stored, Sending, Editing, Deleting, Marking
  <2>4. FreshOK(r)'
    BY <2>1, <2>2 DEF FreshOK, Minted
  <2> QED
    BY <2>1, <2>3, <2>4 DEF RequestOK, KeyOK, EntityOK
<1> QED
  BY <1>1, <1>2, SlotStep DEF InsertConflict, Shared, tables

(* ... and then the row of the key is the answer.                          *)
LEMMA LoadExistingStep ==
  ASSUME IInv, NEW r \in Request, LoadExisting(r)
  PROVE  IInv'
<1>1. PICK m \in RowsOf(call[r].user, call[r].cid) :
        Hold(r, [entity[r] EXCEPT !.saved = m])
  BY DEF LoadExisting
<1> DEFINE e == [entity[r] EXCEPT !.saved = m]
<1>2. /\ Becomes(r, "publish", call[r], e)
      /\ call[r] \in Call /\ "publish" \in Label /\ Minted(r)
  BY <1>1 DEF IInv, TypeOK, LoadExisting, Goto, Hold, Becomes, Label, Minted
<1>3. m \in Id /\ m \in IdOrNull
  BY MessagingAssumption DEF RowsOf, Id, IdOrNull
<1>4. /\ e \in Entity /\ e.id = entity[r].id /\ e.saved = m
      /\ e.hidden = entity[r].hidden
  BY <1>3 DEF IInv, TypeOK, Entity
<1>5. RequestOK(r)'
  <2> HIDE DEF e
  <2>1. /\ pc'[r] = "publish" /\ call'[r] = call[r] /\ entity'[r] = e
        /\ UNCHANGED <<messages, lastId>>
    BY <1>2 DEF IInv, TypeOK, Becomes, LoadExisting, tables
  <2>2. call[r].op = "send" /\ call[r].user \in User
    BY DEF IInv, RequestOK, CallOK, LoadExisting, Sending
  <2>3. CallOK(r)'
    BY <2>1, <2>2 DEF IInv, RequestOK, CallOK, LoadExisting, Sending,
                      Editing, Deleting, Marking, Operation
  <2>4. /\ entity[r].id \in 1 .. lastId /\ entity[r].id \in Id
        /\ messages[entity[r].id].shadow = {}
    BY MessagingAssumption, <1>2
    DEF IInv, TypeOK, RequestOK, FreshOK, TableOK, Id, IdOrNull
  <2>5. EntityOK(r)'
    BY <1>1, <1>4, <2>1, <2>2, <2>4 DEF EntityOK, RowsOf
  <2> QED
    BY <2>1, <2>3, <2>5 DEF RequestOK, FreshOK, Minted, KeyOK
<1> HIDE DEF e
<1> QED
  BY <1>2, <1>4, <1>5, SlotStep DEF LoadExisting, Shared, tables

(* The id minted is absent from tables, slots, events and notices.         *)
LEMMA CreateMessageStep ==
  ASSUME IInv, NEW r \in Request, CreateMessage(r)
  PROVE  IInv'
<1> DEFINE e == [NoEntity EXCEPT !.id = lastId + 1, !.text = call[r].text,
                                 !.hidden = call[r].shadow, !.applied = TRUE]
<1>1. lastId + 1 \in Id /\ lastId + 1 \in IdOrNull /\ lastId \in Nat
  BY MessagingAssumption DEF IInv, TypeOK, CreateMessage, Id, IdOrNull
<1>2. call[r].text \in Text \cup {None} /\ call[r].shadow \in SUBSET User
  BY DEF IInv, TypeOK, Call
<1>3. /\ e \in Entity /\ e.id = lastId + 1 /\ e.hidden = call[r].shadow
  BY <1>1, <1>2, Blanks DEF Entity
<1>4. Becomes(r, "insert", call[r], e) /\ lastId' = lastId + 1
  BY DEF IInv, TypeOK, CreateMessage, Goto, Hold, Becomes
<1> HIDE DEF e
<1>5. TypeOK'
  BY <1>1, <1>3, <1>4
  DEF IInv, TypeOK, CreateMessage, Becomes, tables, Label
<1>6. messages[lastId + 1].status = "none"
  BY <1>1 DEF IInv, TableOK
<1>7. ASSUME NEW q \in Request PROVE RequestOK(q)'
  <2> USE DEF IInv, CreateMessage, tables
  <2>1. CASE q = r
    <3>1. /\ pc'[r] = "insert" /\ call'[r] = call[r] /\ entity'[r] = e
          /\ \A p \in Request \ {r} : pc'[p] = pc[p] /\ entity'[p] = entity[p]
      BY <1>4 DEF TypeOK, Becomes
    <3>2. CallOK(r)'
      BY <3>1 DEF RequestOK, CallOK, Stored, Sending, Editing, Deleting,
                  Marking
    <3>3. \A p \in Request \ {r} :
            Minted(p)' \/ pc'[p] = "publish" => entity'[p].id # lastId + 1
      BY <1>1, <3>1 DEF RequestOK, FreshOK, EntityOK, Minted
    <3>4. FreshOK(r)'
      BY <1>1, <1>3, <1>4, <1>6, <3>1, <3>3
      DEF FreshOK, EventOK, NoticeOK, TypeOK, Event, Notice, Id
    <3> QED
      BY <2>1, <3>1, <3>2, <3>4 DEF RequestOK, KeyOK, EntityOK
  <2>2. CASE q # r
    <3>1. /\ pc'[q] = pc[q] /\ call'[q] = call[q] /\ entity'[q] = entity[q]
          /\ pc'[r] = "insert" /\ entity'[r].id = lastId + 1
      BY <1>3, <1>4, <2>2 DEF TypeOK, Becomes
    <3>2. CallOK(q)'
      BY <3>1 DEF RequestOK, CallOK, Stored
    <3>3. FreshOK(q)'
      <4>1. \A p \in Request \ {q} :
              \/ p = r
              \/ pc'[p] = pc[p] /\ entity'[p] = entity[p]
        BY <1>4 DEF TypeOK, Becomes
      <4> QED
        BY <1>1, <1>4, <2>2, <3>1, <4>1 DEF RequestOK, FreshOK, Minted
    <3>4. KeyOK(q)'
      BY <1>4, <3>1 DEF TypeOK, Becomes, RequestOK, KeyOK, RowsOf, KeyPending
    <3>5. EntityOK(q)'
      BY <1>1, <1>4, <3>1 DEF RequestOK, EntityOK
    <3> QED
      BY <3>2, <3>3, <3>4, <3>5 DEF RequestOK
  <2> QED
    BY <2>1, <2>2
<1>8. TableOK' /\ EventOK' /\ NoticeOK' /\ AckOK' /\ ShadowHolds'
  BY <1>1, <1>4
  DEF IInv, CreateMessage, tables, TableOK, EventOK, NoticeOK, AckOK,
      ShadowHolds, TypeOK, Event, Notice, Id
<1> QED
  BY <1>5, <1>7, <1>8 DEF IInv

(* The row of the key is the answer to a retry.                            *)
LEMMA FindEarlierSendStep ==
  ASSUME IInv, NEW r \in Request, FindEarlierSend(r)
  PROVE  IInv'
<1> USE DEF IInv, FindEarlierSend, tables
<1>1. Becomes(r, "idle", NoCall, NoEntity)
  BY DEF Finish, Goto, Hold, Becomes
<1>2. PICK m \in RowsOf(call[r].user, call[r].cid) : Answer(r, m)
  OBVIOUS
<1>3. /\ call[r].user \in User /\ call[r].cid \in ClientId
      /\ m \in Id /\ messages[m].status # "none"
      /\ messages[m].sender = call[r].user /\ messages[m].cid = call[r].cid
  BY DEF TypeOK, Call, RequestOK, CallOK, RowsOf
<1>4. acks' = acks \cup {[user |-> call[r].user, cid |-> call[r].cid,
                          msg |-> m]}
  BY <1>2, <1>3, MessagingAssumption DEF Answer
<1>5. TypeOK'
  BY <1>1, <1>3, <1>4, Blanks DEF TypeOK, Becomes, Label, Ack
<1>6. ASSUME NEW q \in Request PROVE RequestOK(q)'
  <2>1. pc'[r] = "idle" /\ \A k \in Request \ {r} :
          pc'[k] = pc[k] /\ call'[k] = call[k] /\ entity'[k] = entity[k]
    BY <1>1, SlotsAfter
  <2>2. CASE q = r
    BY <2>1, <2>2 DEF RequestOK, CallOK, FreshOK, Minted, KeyOK, EntityOK
  <2>3. CASE q # r
    <3>1. RequestOK(q)
      OBVIOUS
    <3>2. CallOK(q)' /\ EntityOK(q)'
      BY <2>1, <2>3, <3>1 DEF RequestOK, CallOK, EntityOK, Stored
    <3>3. FreshOK(q)'
      BY <2>1, <2>3, <3>1 DEF RequestOK, FreshOK, Minted
    <3>4. KeyOK(q)'
      BY <2>1, <2>3, <3>1 DEF RequestOK, KeyOK, KeyPending, RowsOf
    <3> QED
      BY <3>2, <3>3, <3>4 DEF RequestOK
  <2> QED
    BY <2>2, <2>3
<1>7. TableOK' /\ EventOK' /\ NoticeOK' /\ ShadowHolds'
  BY DEF TableOK, EventOK, NoticeOK, ShadowHolds
<1>8. AckOK'
  BY <1>3, <1>4 DEF AckOK
<1> QED
  BY <1>5, <1>6, <1>7, <1>8

(* The COMMIT of saveMessage puts the row of a minted id in place.         *)
LEMMA SaveMessageStep ==
  ASSUME IInv, NEW r \in Request, SaveMessage(r)
  PROVE  IInv'
<1> DEFINE e == entity[r]
           row == [status |-> "live", sender |-> call[r].user,
                   text |-> e.text, cid |-> call[r].cid,
                   shadow |-> call[r].shadow]
<1>1. /\ e.id \in Id /\ e.id \in 1 .. lastId /\ e.id \in IdOrNull
      /\ messages[e.id].status = "none"
      /\ e.hidden = call[r].shadow
      /\ \A q \in Request \ {r} :
           Minted(q) \/ pc[q] = "publish" => entity[q].id # e.id
      /\ \A x \in events : x.msg # e.id
      /\ \A u \in User : \A n \in inbox[u] : n.msg # e.id
  BY MessagingAssumption
  DEF IInv, SaveMessage, RequestOK, FreshOK, Minted, TypeOK, Id, IdOrNull
<1>2. /\ e \in Entity /\ call[r] \in Call /\ row \in Message
  BY DEF IInv, TypeOK, Entity, Call, Message
<1>3. /\ messages' = [messages EXCEPT ![e.id] = row]
      /\ deletedFor' = [deletedFor EXCEPT ![e.id] = e.hidden]
      /\ members' = e.members
      /\ Becomes(r, "publish", call[r], [e EXCEPT !.saved = e.id])
      /\ UNCHANGED <<lastId, events, inbox, acks, received>>
  BY DEF IInv, TypeOK, SaveMessage, Goto, Hold, Becomes
<1>4. /\ row.status = "live" /\ row.sender = call[r].user
      /\ row.cid = call[r].cid /\ row.shadow = e.hidden
      /\ call[r].user \in User /\ call[r].user \notin e.hidden
      /\ call[r].op = "send"
  BY <1>1 DEF IInv, SaveMessage, RequestOK, CallOK, Sending
<1>5. /\ messages'[e.id] = row /\ deletedFor'[e.id] = e.hidden
      /\ \A m \in Id \ {e.id} : /\ messages'[m] = messages[m]
                                /\ deletedFor'[m] = deletedFor[m]
  BY <1>1, <1>3 DEF IInv, TypeOK
<1>6. /\ pc'[r] = "publish" /\ call'[r] = call[r]
      /\ entity'[r].id = e.id /\ entity'[r].saved = e.id
      /\ entity'[r].hidden = e.hidden
      /\ \A q \in Request \ {r} : /\ pc'[q] = pc[q] /\ call'[q] = call[q]
                                  /\ entity'[q] = entity[q]
  BY <1>2, <1>3 DEF IInv, TypeOK, Becomes, Entity
<1>7. TypeOK'
  <2>1. messages' \in [Id -> Message] /\ deletedFor' \in [Id -> SUBSET User]
    BY <1>2, <1>3 DEF IInv, TypeOK, Entity
  <2>2. members' \in [User -> Member]
    BY <1>2, <1>3 DEF Entity
  <2>3. /\ pc' \in [Request -> Label] /\ call' \in [Request -> Call]
        /\ entity' \in [Request -> Entity]
    BY <1>1, <1>2, <1>3 DEF IInv, TypeOK, Becomes, Entity, Label
  <2> QED
    BY <1>3, <2>1, <2>2, <2>3 DEF IInv, TypeOK
<1> HIDE DEF e, row
<1> USE DEF IInv
<1>8. ASSUME NEW q \in Request PROVE RequestOK(q)'
  <2>1. CASE q = r
    <3>1. CallOK(r)'
      BY <1>1, <1>4, <1>6 DEF RequestOK, CallOK, Operation, Sending, Editing,
                              Deleting, Marking
    <3>2. FreshOK(r)' /\ KeyOK(r)'
      BY <1>6 DEF FreshOK, KeyOK, Minted
    <3>3. EntityOK(r)'
      BY <1>1, <1>3, <1>4, <1>5, <1>6 DEF EntityOK
    <3> QED
      BY <2>1, <3>1, <3>2, <3>3 DEF RequestOK
  <2>2. CASE q # r
    <3>1. CallOK(q)'
      BY <1>4, <1>5, <1>6, <2>2 DEF RequestOK, CallOK, Stored
    <3>2. FreshOK(q)'
      BY <1>1, <1>3, <1>5, <1>6, <2>2
      DEF RequestOK, FreshOK, Minted, TypeOK, Id, IdOrNull
    <3>3. KeyOK(q)'
      <4> SUFFICES ASSUME pc[q] = "saveMessage", call[q].cid # None
                   PROVE  /\ RowsOf(call[q].user, call[q].cid)' = {}
                          /\ ~KeyPending(q)'
        BY <1>6, <2>2 DEF KeyOK, RowsOf
      <4>1. ~(call[q].user = call[r].user /\ call[q].cid = call[r].cid)
        BY <2>2 DEF RequestOK, KeyOK, KeyPending, SaveMessage
      <4> QED
        BY <1>4, <1>5, <1>6, <2>2, <4>1
        DEF RequestOK, KeyOK, KeyPending, RowsOf
    <3>4. EntityOK(q)'
      <4>1. pc[q] \in {"updateMessage", "beginDeletion", "saveDeletion"}
              => entity[q].id # e.id
        BY <1>1 DEF RequestOK, EntityOK, CallOK, Stored, Editing, Deleting
      <4>2. pc[q] = "publish" => entity[q].id # e.id /\ entity[q].id \in Id
        BY <1>1, <2>2, MessagingAssumption
        DEF RequestOK, EntityOK, TypeOK, Id, IdOrNull
      <4>3. CallOK(q) /\ EntityOK(q)
        BY DEF RequestOK
      <4>4. pc[q] \in {"updateMessage", "beginDeletion", "saveDeletion"}
              => entity[q].id \in Id
        BY <4>3 DEF EntityOK, CallOK, Stored, Editing, Deleting
      <4> QED
        BY <1>1, <1>3, <1>5, <1>6, <2>2, <4>1, <4>2, <4>3, <4>4 DEF EntityOK
    <3> QED
      BY <3>1, <3>2, <3>3, <3>4 DEF RequestOK
  <2> QED
    BY <2>1, <2>2
<1>9. TableOK'
  <2>1. call[r].cid # None => RowsOf(call[r].user, call[r].cid) = {}
    BY DEF SaveMessage, RequestOK, KeyOK
  <2> QED
    BY <1>1, <1>3, <1>4, <1>5, <2>1 DEF TableOK, RowsOf
<1>10. EventOK' /\ NoticeOK' /\ AckOK' /\ ShadowHolds'
  BY <1>1, <1>3, <1>4, <1>5
  DEF EventOK, NoticeOK, AckOK, ShadowHolds, TypeOK, Event, Notice, Ack
<1> QED
  BY <1>7, <1>8, <1>9, <1>10

----------------------------------------------------------------------------
(* EditMessageHandler, DeleteMessageHandler, MarkConversationAsReadHandler *)

LEMMA LoadForEditStep ==
  ASSUME IInv, NEW r \in Request, LoadForEdit(r)
  PROVE  IInv'
<1>1. CASE Reject(r)
  BY <1>1, RejectStep
<1>2. CASE ~Reject(r)
  <2> DEFINE m == call[r].target
             e == [Loaded(m) EXCEPT !.text = call[r].text,
                     !.applied = (call[r].text # Loaded(m).text)]
  <2>1. /\ m \in Id /\ call[r] \in Call /\ call[r].op = "edit"
        /\ Loaded(m) \in Entity /\ Loaded(m).id = m
        /\ Loaded(m).hidden = deletedFor[m]
        /\ messages[m].status # "none"
    <3>1. m \in Id /\ messages[m].status # "none" /\ call[r].op = "edit"
      BY DEF IInv, LoadForEdit, RequestOK, CallOK, Editing, Stored
    <3> QED
      BY <3>1, LoadedType DEF IInv, TypeOK
  <2>2. /\ Goto(r, "updateMessage") /\ Hold(r, e)
        /\ UNCHANGED <<tables, lastId, call, events, inbox, acks, received>>
    BY <1>2, <2>1 DEF LoadForEdit
  <2>3. /\ Becomes(r, "updateMessage", call[r], e) /\ "updateMessage" \in Label
    BY <2>2 DEF IInv, TypeOK, Goto, Hold, Becomes, Label
  <2>4. /\ e \in Entity /\ e.id = m /\ e.hidden = deletedFor[m]
    <3>1. call[r].text \in Text \cup {None}
      BY <2>1 DEF Call
    <3> HIDE DEF m
    <3> QED
      BY <2>1, <3>1 DEF Entity
  <2> HIDE DEF e
  <2>5. RequestOK(r)'
    <3>1. /\ pc'[r] = "updateMessage" /\ call'[r] = call[r]
          /\ entity'[r] = e /\ messages' = messages /\ pc[r] = "loadEdit"
      BY <2>2, <2>3, SlotsAfter DEF IInv, LoadForEdit, tables
    <3>2. CallOK(r) /\ TableOK
      BY DEF IInv, RequestOK
    <3>3. CallOK(r)'
      BY <2>1, <3>1, <3>2 DEF CallOK, Stored, Sending, Editing, Deleting,
                              Marking
    <3>4. FreshOK(r)' /\ KeyOK(r)'
      BY <3>1 DEF FreshOK, KeyOK, Minted
    <3>5. EntityOK(r)'
      BY <2>1, <2>4, <3>1, <3>2 DEF EntityOK, TableOK
    <3> QED
      BY <3>3, <3>4, <3>5 DEF RequestOK
  <2> QED
    BY <2>1, <2>2, <2>3, <2>4, <2>5, SlotStep DEF Shared, tables
<1> QED
  BY <1>1, <1>2

(* A deletion that goes on holds the shadow of its message.                *)
LEMMA LoadForDeleteStep ==
  ASSUME IInv, NEW r \in Request, LoadForDelete(r)
  PROVE  IInv'
<1>1. CASE Reject(r)
  BY <1>1, RejectStep
<1>2. CASE ~Reject(r)
  <2> DEFINE m == call[r].target
             u == call[r].user
  <2>1. /\ m \in Id /\ call[r] \in Call /\ u \in User
        /\ Loaded(m) \in Entity /\ Loaded(m).id = m
        /\ Loaded(m).hidden = deletedFor[m]
        /\ messages[m].status # "none"
    <3>1. m \in Id /\ messages[m].status # "none" /\ u \in User
      BY DEF IInv, LoadForDelete, RequestOK, CallOK, Deleting, Stored
    <3> QED
      BY <3>1, LoadedType DEF IInv, TypeOK
  <2>2. PICK e \in {DeletedForUser(Loaded(m), u),
                    DeletedForEveryone(Loaded(m))} :
          /\ Goto(r, "beginDeletion") /\ Hold(r, e)
          /\ UNCHANGED <<tables, lastId, call, events, inbox, acks, received>>
    BY <1>2 DEF LoadForDelete
  <2>3. Becomes(r, "beginDeletion", call[r], e) /\ "beginDeletion" \in Label
    BY <2>2 DEF IInv, TypeOK, Goto, Hold, Becomes, Label
  <2>4. e \in Entity /\ e.id = m /\ deletedFor[m] \subseteq e.hidden
    <3> HIDE DEF m, u
    <3>1. CASE e = DeletedForUser(Loaded(m), u)
      BY <2>1, <3>1 DEF DeletedForUser, Entity
    <3>2. CASE e = DeletedForEveryone(Loaded(m))
      BY <2>1, <3>2 DEF DeletedForEveryone, Entity
    <3> QED
      BY <2>2, <3>1, <3>2
  <2>5. RequestOK(r)'
    <3>1. /\ pc'[r] = "beginDeletion" /\ call'[r] = call[r]
          /\ entity'[r] = e /\ messages' = messages /\ pc[r] = "loadDelete"
      BY <2>2, <2>3, SlotsAfter DEF IInv, LoadForDelete, tables
    <3>2. CallOK(r) /\ TableOK
      BY DEF IInv, RequestOK
    <3>3. CallOK(r)'
      BY <2>1, <3>1, <3>2 DEF CallOK, Stored, Sending, Editing, Deleting,
                              Marking
    <3>4. FreshOK(r)' /\ KeyOK(r)'
      BY <3>1 DEF FreshOK, KeyOK, Minted
    <3>5. EntityOK(r)'
      BY <2>1, <2>4, <3>1, <3>2 DEF EntityOK, TableOK
    <3> QED
      BY <3>3, <3>4, <3>5 DEF RequestOK
  <2> QED
    BY <2>1, <2>2, <2>3, <2>4, <2>5, SlotStep DEF Shared, tables
<1> QED
  BY <1>1, <1>2

(* The recomputation of last messages changes the entity alone.            *)
LEMMA BeginDeletionStep ==
  ASSUME IInv, NEW r \in Request, BeginDeletion(r)
  PROVE  IInv'
<1> DEFINE last(u) == Newest(u, MessagesAfter(entity[r]),
                             DeletedForAfter(entity[r]))
           rows == [u \in User |-> [members[u] EXCEPT !.last = last(u)]]
           mine == {u \in User : members[u].last = entity[r].id}
           e == [entity[r] EXCEPT !.members = rows, !.touched = mine]
<1>1. \A u \in User : last(u) \in IdOrNull
  BY NewestType
<1> HIDE DEF last
<1>2. rows \in [User -> Member]
  BY <1>1 DEF IInv, TypeOK, Member
<1>3. Becomes(r, "saveDeletion", call[r], e) /\ "saveDeletion" \in Label
  BY DEF IInv, TypeOK, BeginDeletion, Goto, Hold, Becomes, Label, last
<1> HIDE DEF rows
<1>4. /\ e \in Entity /\ e.id = entity[r].id /\ e.hidden = entity[r].hidden
      /\ call[r] \in Call
  <2>1. entity[r] \in Entity /\ call[r] \in Call /\ mine \in SUBSET User
    BY DEF IInv, TypeOK
  <2> HIDE DEF mine
  <2> QED
    BY <1>2, <2>1 DEF Entity
<1> HIDE DEF e
<1>5. RequestOK(r)'
  <2>1. /\ pc'[r] = "saveDeletion" /\ call'[r] = call[r]
        /\ entity'[r] = e /\ messages' = messages /\ pc[r] = "beginDeletion"
    BY <1>3, SlotsAfter DEF IInv, BeginDeletion, tables
  <2>2. CallOK(r) /\ EntityOK(r)
    BY DEF IInv, RequestOK
  <2>3. CallOK(r)'
    BY <2>1, <2>2 DEF CallOK, Stored, Sending, Editing, Deleting, Marking
  <2>4. FreshOK(r)' /\ KeyOK(r)'
    BY <2>1 DEF FreshOK, KeyOK, Minted
  <2>5. EntityOK(r)'
    BY <1>4, <2>1, <2>2 DEF EntityOK
  <2> QED
    BY <2>3, <2>4, <2>5 DEF RequestOK
<1> QED
  BY <1>3, <1>4, <1>5, SlotStep DEF BeginDeletion, Shared, tables

(* A read receipt loads the member rows.                                   *)
LEMMA LoadConversationStep ==
  ASSUME IInv, NEW r \in Request, LoadConversation(r)
  PROVE  IInv'
<1> DEFINE m == call[r].target
           rows == [members EXCEPT ![call[r].user].seen = m]
           e == [NoEntity EXCEPT !.id = m, !.members = rows, !.touched = User]
<1>1. m \in IdOrNull /\ call[r] \in Call
  BY DEF IInv, TypeOK, Call
<1>2. rows \in [User -> Member]
  BY <1>1 DEF IInv, TypeOK, Member
<1>3. /\ Becomes(r, "saveConversation", call[r], e)
      /\ "saveConversation" \in Label
  BY DEF IInv, TypeOK, LoadConversation, Goto, Hold, Becomes, Label
<1> HIDE DEF rows
<1>4. e \in Entity /\ e.id = m
  BY <1>1, <1>2, Blanks DEF Entity
<1> HIDE DEF e
<1>5. RequestOK(r)'
  <2>1. /\ pc'[r] = "saveConversation" /\ call'[r] = call[r]
        /\ entity'[r] = e /\ messages' = messages
        /\ pc[r] = "loadConversation"
    BY <1>3, SlotsAfter DEF IInv, LoadConversation, tables
  <2>2. CallOK(r)
    BY DEF IInv, RequestOK
  <2>3. CallOK(r)'
    BY <2>1, <2>2 DEF CallOK, Stored, Sending, Editing, Deleting, Marking
  <2>4. FreshOK(r)' /\ KeyOK(r)' /\ EntityOK(r)'
    BY <1>4, <2>1 DEF FreshOK, KeyOK, Minted, EntityOK
  <2> QED
    BY <2>3, <2>4 DEF RequestOK
<1> QED
  BY <1>1, <1>3, <1>4, <1>5, SlotStep DEF LoadConversation, Shared, tables

(* A commit that may change the text of a row, make it a tombstone or a    *)
(* live row, and hide it from more members, and nothing else of it.        *)
KeepsRow(m) ==
  /\ messages'[m].sender = messages[m].sender
  /\ messages'[m].cid = messages[m].cid
  /\ messages'[m].shadow = messages[m].shadow
  /\ messages'[m].status = "none" <=> messages[m].status = "none"
  /\ deletedFor[m] \subseteq deletedFor'[m]
  /\ messages[m].status = "none" => deletedFor'[m] = deletedFor[m]

(* Such a commit keeps the invariant ...                                   *)
LEMMA CommitStep ==
  ASSUME IInv, NEW r \in Request,
         pc[r] \in {"updateMessage", "saveDeletion", "saveConversation"},
         Becomes(r, "publish", call[r], entity[r]),
         TypeOK', \A m \in Id : KeepsRow(m),
         UNCHANGED <<lastId, events, inbox, acks, received>>
  PROVE  IInv'
<1> USE DEF IInv
<1>1. /\ pc'[r] = "publish"
      /\ \A q \in Request \ {r} : pc'[q] = pc[q]
      /\ \A q \in Request : call'[q] = call[q] /\ entity'[q] = entity[q]
  BY DEF TypeOK, Becomes
<1>2. /\ CallOK(r) /\ EntityOK(r)
      /\ entity[r].id = call[r].target /\ Stored(entity[r].id)
      /\ call[r].op # "send"
  BY DEF RequestOK, CallOK, EntityOK, Editing, Deleting, Marking
<1>3. entity[r].id \in 1 .. lastId /\ entity[r].id \in Id
  BY <1>2, MessagingAssumption DEF TableOK, Stored, Id, TypeOK, IdOrNull
<1>4. ASSUME NEW q \in Request PROVE RequestOK(q)'
  <2>1. CallOK(q)'
    BY <1>1, <1>2
    DEF RequestOK, CallOK, Stored, KeepsRow, Sending, Editing, Deleting,
        Marking
  <2>2. FreshOK(q)'
    <3> SUFFICES ASSUME Minted(q), q # r
                 PROVE  FreshOK(q)'
      BY <1>1 DEF FreshOK, Minted
    <3>1. /\ FreshOK(q) /\ entity[q].id \in Id
          /\ messages[entity[q].id].status = "none"
      BY MessagingAssumption DEF RequestOK, FreshOK, TypeOK, Id, IdOrNull
    <3>2. entity[r].id # entity[q].id
      BY <1>2, <3>1 DEF Stored
    <3> QED
      BY <1>1, <3>1, <3>2 DEF FreshOK, Minted, KeepsRow
  <2>3. KeyOK(q)'
    BY <1>1 DEF RequestOK, KeyOK, KeyPending, RowsOf, KeepsRow
  <2>4. EntityOK(q)'
    <3>1. CASE q = r
      <4>1. call[r].op # "seen" =>
              messages[entity[r].id].shadow \subseteq entity[r].hidden
        BY <1>2 DEF CallOK, EntityOK, Marking
      <4> QED
        BY <1>1, <1>2, <1>3, <3>1, <4>1 DEF EntityOK, KeepsRow
    <3>2. CASE q # r
      <4>1. pc[q] \in {"updateMessage", "beginDeletion", "saveDeletion"}
              => entity[q].id \in Id
        BY DEF RequestOK, CallOK, EntityOK, Stored, Editing, Deleting
      <4>2. pc[q] = "publish" => entity[q].id \in Id
        BY MessagingAssumption DEF RequestOK, EntityOK, TypeOK, Id, IdOrNull
      <4> QED
        BY <1>1, <3>2, <4>1, <4>2 DEF RequestOK, EntityOK, KeepsRow
    <3> QED
      BY <3>1, <3>2
  <2> QED
    BY <2>1, <2>2, <2>3, <2>4 DEF RequestOK
<1>5. TableOK'
  BY DEF TableOK, KeepsRow
<1>6. EventOK' /\ NoticeOK'
  BY DEF EventOK, NoticeOK, KeepsRow, TypeOK, Event
<1>7. AckOK'
  BY DEF AckOK, KeepsRow, TypeOK, Ack
<1>8. ShadowHolds'
  BY DEF ShadowHolds, KeepsRow, TypeOK, Notice
<1> QED
  BY <1>4, <1>5, <1>6, <1>7, <1>8

(* ... and the UPDATE of an edit is one ...                                *)
LEMMA UpdateMessageStep ==
  ASSUME IInv, NEW r \in Request, UpdateMessage(r)
  PROVE  IInv' /\ \A m \in Id : KeepsRow(m)
<1> USE DEF IInv
<1>1. Becomes(r, "publish", call[r], entity[r])
  BY DEF TypeOK, UpdateMessage, Goto, Becomes
<1>2. entity[r].id \in Id /\ entity[r].text \in Text \cup {None}
  BY DEF UpdateMessage, TypeOK, Entity, RequestOK, CallOK, EntityOK, Editing,
         Stored
<1>3. messages' \in [Id -> Message] /\ \A m \in Id : KeepsRow(m)
  BY <1>2 DEF UpdateMessage, TypeOK, Message, KeepsRow
<1>4. TypeOK'
  BY <1>1, <1>3 DEF UpdateMessage, TypeOK, Becomes, Label
<1> QED
  BY <1>1, <1>3, <1>4, CommitStep DEF UpdateMessage

(* ... like the COMMIT of a deletion ...                                   *)
LEMMA SaveDeletionStep ==
  ASSUME IInv, NEW r \in Request, SaveDeletion(r)
  PROVE  IInv' /\ \A m \in Id : KeepsRow(m)
<1> USE DEF IInv
<1> DEFINE e == entity[r]
<1>1. Becomes(r, "publish", call[r], e)
  BY DEF TypeOK, SaveDeletion, Goto, Becomes
<1>2. e.id \in Id /\ messages[e.id].status # "none" /\ e \in Entity
  BY DEF SaveDeletion, TypeOK, RequestOK, CallOK, EntityOK, Deleting, Stored
<1>3. messages' \in [Id -> Message] /\ deletedFor' \in [Id -> SUBSET User]
  <2>1. messages' \in [Id -> Message]
    <3>1. \A m \in Id :
            /\ [messages[m] EXCEPT !.status = "tombstone"] \in Message
            /\ [messages[m] EXCEPT !.status = "live"] \in Message
      BY DEF TypeOK, Message
    <3> QED
      BY <1>2, <3>1 DEF SaveDeletion, MessagesAfter, TypeOK
  <2>2. deletedFor' \in [Id -> SUBSET User]
    BY <1>2 DEF SaveDeletion, DeletedForAfter, TypeOK, Entity
  <2> QED
    BY <2>1, <2>2
<1>4. \A m \in Id : KeepsRow(m)
  BY <1>2 DEF SaveDeletion, MessagesAfter, DeletedForAfter, TypeOK, Message,
              KeepsRow
<1>5. members' \in [User -> Member]
  BY <1>2 DEF SaveDeletion, TypeOK, Entity
<1>6. TypeOK'
  BY <1>1, <1>3, <1>5 DEF SaveDeletion, TypeOK, Becomes, Label
<1> QED
  BY <1>1, <1>4, <1>6, CommitStep DEF SaveDeletion

(* ... and that of a read receipt.                                         *)
LEMMA SaveConversationStep ==
  ASSUME IInv, NEW r \in Request, SaveConversation(r)
  PROVE  IInv'
<1> USE DEF IInv
<1>1. Becomes(r, "publish", call[r], entity[r])
  BY DEF TypeOK, SaveConversation, Goto, Becomes
<1>2. members' \in [User -> Member]
  BY DEF SaveConversation, TypeOK, Entity
<1>3. TypeOK'
  BY <1>1, <1>2 DEF SaveConversation, TypeOK, Becomes, Label
<1>4. \A m \in Id : KeepsRow(m)
  BY DEF SaveConversation, KeepsRow
<1> QED
  BY <1>1, <1>3, <1>4, CommitStep DEF SaveConversation

----------------------------------------------------------------------------
(* Events and notices.                                                     *)

LEMMA PublishStep ==
  ASSUME IInv, NEW r \in Request, Publish(r)
  PROVE  IInv'
<1> USE DEF IInv
<1> DEFINE e == entity[r]
           x == EventOf(r)
<1>1. /\ Becomes(r, "idle", NoCall, NoEntity)
      /\ UNCHANGED <<messages, deletedFor, members, lastId, inbox, received>>
  BY DEF Publish, Finish, Goto, Hold, Becomes, tables
<1>2. /\ call[r] \in Call /\ e \in Entity /\ call[r].user \in User
      /\ call[r].op \in {"send", "edit", "deleteForMe", "deleteForEveryone"}
      /\ e.id \in 1 .. lastId /\ e.id \in Id
      /\ messages[e.id].shadow \subseteq e.hidden
      /\ call[r].op # "send" => messages[e.id].status # "none"
      /\ call[r].op = "send" => /\ call[r].user \notin messages[e.id].shadow
                                /\ e.saved \in Id
                                /\ messages[e.saved].status # "none"
                                /\ messages[e.saved].sender = call[r].user
                                /\ messages[e.saved].cid = call[r].cid
  BY MessagingAssumption
  DEF Publish, TypeOK, RequestOK, CallOK, EntityOK, Operation, Stored, Id,
      IdOrNull
<1>3. /\ x \in Event /\ x.msg = e.id /\ x.hidden = e.hidden
      /\ x.actor = call[r].user
      /\ x.kind = "created" => call[r].op = "send"
  BY <1>2 DEF EventOf, Event, Entity
<1>4. events' \subseteq events \cup {x}
  BY DEF Publish
<1> HIDE DEF e, x
<1>6. /\ acks' \subseteq Ack
      /\ AckOK'
  <2>1. CASE call[r].cid = None
    BY <1>1, <2>1 DEF Publish, Answer, TypeOK, AckOK
  <2>2. CASE call[r].cid # None /\ call[r].op = "send"
    <3>1. acks' = acks \cup {[user |-> call[r].user, cid |-> call[r].cid,
                              msg |-> e.saved]}
      BY <2>2 DEF Publish, Answer, e
    <3> QED
      BY <1>1, <1>2, <2>2, <3>1 DEF TypeOK, AckOK, Ack, Call
  <2>3. CASE call[r].cid # None /\ call[r].op # "send"
    BY <2>3 DEF Publish, RequestOK, CallOK
  <2> QED
    BY <2>1, <2>2, <2>3
<1>7. TypeOK'
  BY <1>1, <1>3, <1>4, <1>6, Blanks DEF TypeOK, Becomes, Label
<1>8. ASSUME NEW q \in Request PROVE RequestOK(q)'
  <2>1. CASE q = r
    BY <1>1, <2>1 DEF TypeOK, Becomes, RequestOK, CallOK, FreshOK, Minted,
                      KeyOK, EntityOK
  <2>2. CASE q # r
    <3>1. /\ pc'[q] = pc[q] /\ call'[q] = call[q] /\ entity'[q] = entity[q]
          /\ pc'[r] = "idle"
          /\ \A p \in Request \ {r} : /\ pc'[p] = pc[p] /\ call'[p] = call[p]
                                      /\ entity'[p] = entity[p]
      BY <1>1, <2>2 DEF TypeOK, Becomes
    <3>2. FreshOK(q)'
      <4>1. Minted(q) => entity[q].id # e.id
        BY <2>2 DEF RequestOK, FreshOK, Publish, e
      <4> QED
        BY <1>1, <1>3, <1>4, <3>1, <4>1 DEF RequestOK, FreshOK, Minted
    <3> QED
      BY <1>1, <3>1, <3>2
      DEF RequestOK, CallOK, KeyOK, KeyPending, RowsOf, EntityOK, Stored
  <2> QED
    BY <2>1, <2>2
<1>9. EventOK'
  BY <1>1, <1>2, <1>3, <1>4 DEF EventOK
<1>10. TableOK' /\ NoticeOK' /\ ShadowHolds'
  BY <1>1 DEF TableOK, NoticeOK, ShadowHolds
<1> QED
  BY <1>6, <1>7, <1>8, <1>9, <1>10

(* A seen notice names a stored message.                                   *)
LEMMA PublishSeenStep ==
  ASSUME IInv, NEW r \in Request, PublishSeen(r)
  PROVE  IInv'
<1> USE DEF IInv
<1> DEFINE n == [kind |-> "seen", msg |-> entity[r].id, text |-> None]
<1>1. /\ Becomes(r, "idle", NoCall, NoEntity)
      /\ UNCHANGED <<messages, deletedFor, members, lastId, events, acks,
                     received>>
      /\ inbox' = [u \in User |-> inbox[u] \cup {n}]
  BY DEF PublishSeen, Finish, Goto, Hold, Becomes, tables
<1>2. /\ entity[r].id \in Id /\ entity[r].id <= lastId
      /\ messages[entity[r].id].status # "none"
  BY MessagingAssumption
  DEF PublishSeen, RequestOK, CallOK, EntityOK, Stored, TypeOK, Id, IdOrNull
<1>3. n \in Notice /\ n.kind = "seen" /\ n.msg = entity[r].id
  BY <1>2 DEF Notice
<1> HIDE DEF n
<1>4. TypeOK'
  BY <1>1, <1>3, Blanks DEF TypeOK, Becomes, Label
<1>5. ASSUME NEW q \in Request PROVE RequestOK(q)'
  <2>1. CASE q = r
    BY <1>1, <2>1 DEF TypeOK, Becomes, RequestOK, CallOK, FreshOK, Minted,
                      KeyOK, EntityOK
  <2>2. CASE q # r
    <3>1. /\ pc'[q] = pc[q] /\ call'[q] = call[q] /\ entity'[q] = entity[q]
          /\ pc'[r] = "idle"
          /\ \A p \in Request \ {r} : /\ pc'[p] = pc[p] /\ call'[p] = call[p]
                                      /\ entity'[p] = entity[p]
      BY <1>1, <2>2 DEF TypeOK, Becomes
    <3>2. FreshOK(q)'
      BY <1>1, <1>2, <1>3, <3>1 DEF RequestOK, FreshOK, Minted
    <3> QED
      BY <1>1, <3>1, <3>2
      DEF RequestOK, CallOK, KeyOK, KeyPending, RowsOf, EntityOK, Stored
  <2> QED
    BY <2>1, <2>2
<1>6. TableOK' /\ EventOK' /\ AckOK'
  BY <1>1 DEF TableOK, EventOK, AckOK
<1>7. NoticeOK' /\ ShadowHolds'
  BY <1>1, <1>2, <1>3 DEF NoticeOK, ShadowHolds
<1> QED
  BY <1>4, <1>5, <1>6, <1>7

(* The rooms of an event leave out those in the shadow.                    *)
LEMMA HandleEventStep ==
  ASSUME IInv, NEW e \in events, HandleEvent(e)
  PROVE  IInv'
<1> USE DEF IInv
<1> DEFINE n == [kind |-> e.kind, msg |-> e.msg, text |-> e.text]
<1>1. /\ UNCHANGED <<messages, deletedFor, members, lastId, pc, call, entity,
                     acks, received>>
      /\ events' = events \ {e}
      /\ inbox' = [u \in User |-> IF u \in Rooms(e) THEN inbox[u] \cup {n}
                                  ELSE inbox[u]]
  BY DEF HandleEvent, tables
<1>2. e \in Event /\ n \in Notice /\ n.kind = e.kind /\ n.msg = e.msg
  BY DEF TypeOK, Event, Notice
<1>3. ASSUME NEW u \in User, u \in Rooms(e), n.kind # "deletedForMe"
      PROVE  u \notin messages[e.msg].shadow
  <2>1. CASE e.kind = "created"
    BY <1>2, <1>3, <2>1 DEF Rooms, CreatedRooms, EventOK
  <2>2. CASE e.kind \in {"edited", "deletedForEveryone"}
    BY <1>2, <1>3, <2>2 DEF Rooms, EditedRooms, DeletedRooms, EventOK
  <2> QED
    BY <1>2, <1>3, <2>1, <2>2 DEF Event
<1> HIDE DEF n
<1>4. TypeOK'
  BY <1>1, <1>2 DEF TypeOK
<1>5. ASSUME NEW q \in Request PROVE RequestOK(q)'
  BY <1>1, <1>2
  DEF RequestOK, CallOK, FreshOK, Minted, KeyOK, KeyPending, RowsOf,
      EntityOK, Stored
<1>6. TableOK' /\ EventOK' /\ AckOK'
  BY <1>1 DEF TableOK, EventOK, AckOK
<1>7. NoticeOK' /\ ShadowHolds'
  BY <1>1, <1>2, <1>3 DEF NoticeOK, EventOK, ShadowHolds
<1> QED
  BY <1>4, <1>5, <1>6, <1>7

(* A lost event tells nobody.                                              *)
LEMMA LoseEventStep ==
  ASSUME IInv, NEW e \in events, LoseEvent(e)
  PROVE  IInv'
<1> USE DEF IInv, LoseEvent, tables
<1>1. TypeOK'
  BY DEF TypeOK
<1>2. ASSUME NEW q \in Request PROVE RequestOK(q)'
  BY DEF RequestOK, CallOK, FreshOK, Minted, KeyOK, KeyPending, RowsOf,
         EntityOK, Stored
<1>3. TableOK' /\ EventOK' /\ NoticeOK' /\ AckOK' /\ ShadowHolds'
  BY DEF TableOK, EventOK, NoticeOK, AckOK, ShadowHolds
<1> QED
  BY <1>1, <1>2, <1>3

----------------------------------------------------------------------------

(* Every step of a handler keeps the invariant ...                         *)
LEMMA StepStep ==
  ASSUME IInv, NEW r \in Request, Step(r)
  PROVE  IInv'
<1>1. CASE FindConflictingSend(r)
  BY <1>1, RejectStep DEF FindConflictingSend
<1> QED
  BY <1>1, FindNoEarlierSendStep, FindEarlierSendStep, LoadReplyStep,
     CreateMessageStep, InsertMessageStep, InsertConflictStep,
     LoadExistingStep, SaveMessageStep, LoadForEditStep, UpdateMessageStep,
     LoadForDeleteStep, BeginDeletionStep, SaveDeletionStep,
     LoadConversationStep, SaveConversationStep, PublishStep, PublishSeenStep
  DEF Step

(* ... as does a step that changes nothing ...                             *)
LEMMA StutterStep == IInv /\ UNCHANGED vars => IInv'
<1> SUFFICES ASSUME IInv, UNCHANGED vars PROVE IInv'
  OBVIOUS
<1> USE DEF IInv, vars
<1>1. TypeOK'
  BY DEF TypeOK
<1>2. ASSUME NEW q \in Request PROVE RequestOK(q)'
  BY DEF RequestOK, CallOK, FreshOK, Minted, KeyOK, KeyPending, RowsOf,
         EntityOK, Stored
<1>3. TableOK' /\ EventOK' /\ NoticeOK' /\ AckOK' /\ ShadowHolds'
  BY DEF TableOK, EventOK, NoticeOK, AckOK, ShadowHolds
<1> QED
  BY <1>1, <1>2, <1>3

(* ... and so every step of the system.                                    *)
THEOREM IInvNext == IInv /\ [Next]_vars => IInv'
<1> SUFFICES ASSUME IInv, [Next]_vars PROVE IInv'
  OBVIOUS
<1>1. ASSUME NEW r \in Request, Arrive(r) PROVE IInv'
  BY <1>1, ArriveStep
<1>2. ASSUME NEW r \in Request, Step(r) PROVE IInv'
  BY <1>2, StepStep
<1>3. ASSUME NEW r \in Request, FailRequest(r) PROVE IInv'
  BY <1>3, RejectStep DEF FailRequest
<1>4. ASSUME NEW e \in events, HandleEvent(e) PROVE IInv'
  BY <1>4, HandleEventStep
<1>5. ASSUME NEW e \in events, LoseEvent(e) PROVE IInv'
  BY <1>5, LoseEventStep
<1>6. CASE UNCHANGED vars
  BY <1>6, StutterStep
<1> QED
  BY <1>1, <1>2, <1>3, <1>4, <1>5, <1>6 DEF Next

(* IInv holds in every reachable state.                                    *)
THEOREM Invariance == Spec => []IInv
BY IInvInit, IInvNext, PTL DEF Spec

(* Type correctness: every table, slot, event, notice and answer is of its *)
(* type in every reachable state.                                          *)
THEOREM TypeCorrect == Spec => []TypeOK
<1>1. IInv => TypeOK
  BY DEF IInv
<1> QED
  BY <1>1, Invariance, PTL

(* Idempotent sends: however many sends with one client id race, retry or  *)
(* fail, all their answers name one stored message of that sender.         *)
THEOREM RetriesAgree == Spec => []RetriesNameOneMessage
<1>1. IInv => RetriesNameOneMessage
  <2> SUFFICES ASSUME IInv, NEW a \in acks, NEW b \in acks,
                      a.user = b.user, a.cid = b.cid
               PROVE  /\ messages[a.msg].status # "none"
                      /\ messages[a.msg].sender = a.user
                      /\ messages[a.msg].cid = a.cid
                      /\ a.msg = b.msg
    BY DEF RetriesNameOneMessage
  <2>1. /\ a.msg \in Id /\ b.msg \in Id /\ a.cid # None
    BY MessagingAssumption DEF IInv, TypeOK, Ack
  <2> QED
    BY <2>1 DEF IInv, AckOK, TableOK
<1> QED
  BY <1>1, Invariance, PTL

(* A message withheld from a member when it was sent is never mentioned to *)
(* that member, whatever edits and deletions race with each other.         *)
THEOREM ShadowIsKept == Spec => []ShadowHolds
<1>1. IInv => ShadowHolds
  BY DEF IInv
<1> QED
  BY <1>1, Invariance, PTL

(* Messages change by the commit of a send, an edit or a deletion.         *)
LEMMA Commits ==
  ASSUME Next, messages' # messages \/ deletedFor' # deletedFor
  PROVE  \E r \in Request :
           SaveMessage(r) \/ UpdateMessage(r) \/ SaveDeletion(r)
<1>1. ASSUME NEW e \in events, HandleEvent(e) \/ LoseEvent(e)
      PROVE  FALSE
  BY <1>1 DEF HandleEvent, LoseEvent, tables
<1>2. ASSUME NEW r \in Request, Arrive(r) PROVE FALSE
  BY <1>2 DEF Arrive, ReceiveSend, ReceiveEdit, ReceiveDelete, ReceiveSeen,
              Receive, tables
<1>3. ASSUME NEW r \in Request, Reject(r) PROVE FALSE
  BY <1>3 DEF Reject, tables
<1>4. PICK r \in Request : Step(r)
  BY <1>1, <1>2, <1>3 DEF Next, FailRequest
<1>5. FindNoEarlierSend(r) \/ FindEarlierSend(r) \/ CreateMessage(r)
      \/ InsertMessage(r) \/ InsertConflict(r) \/ LoadExisting(r) => FALSE
  BY DEF FindNoEarlierSend, FindEarlierSend, CreateMessage, InsertMessage,
         InsertConflict, LoadExisting, tables
<1>6. FindConflictingSend(r) \/ LoadReply(r) \/ LoadForEdit(r)
      \/ LoadForDelete(r) => FALSE
  BY <1>3 DEF FindConflictingSend, LoadReply, LoadForEdit, LoadForDelete,
              tables
<1>7. BeginDeletion(r) \/ LoadConversation(r) \/ SaveConversation(r)
      \/ Publish(r) \/ PublishSeen(r) => FALSE
  BY DEF BeginDeletion, LoadConversation, SaveConversation, Publish,
         PublishSeen, tables
<1> QED
  BY <1>4, <1>5, <1>6, <1>7 DEF Step

(* No step takes a row out of deleted_messages: what is hidden from a      *)
(* member stays hidden.                                                    *)
THEOREM HiddenStaysHidden == Spec => HiddenForGood
<1>1. IInv /\ [Next]_vars
        => [\A m \in Id : deletedFor[m] \subseteq deletedFor'[m]]_deletedFor
  <2> SUFFICES ASSUME IInv, Next, deletedFor' # deletedFor
               PROVE  \A m \in Id : deletedFor[m] \subseteq deletedFor'[m]
    BY DEF vars
  <2>1. PICK r \in Request : SaveMessage(r) \/ SaveDeletion(r)
    BY Commits DEF UpdateMessage
  <2>2. CASE SaveMessage(r)
    <3>1. entity[r].id \in Id /\ deletedFor[entity[r].id] = {}
      BY <2>2, MessagingAssumption
      DEF IInv, TypeOK, SaveMessage, RequestOK, FreshOK, Minted, TableOK, Id,
          IdOrNull
    <3> QED
      BY <2>2, <3>1 DEF IInv, TypeOK, SaveMessage
  <2>3. CASE SaveDeletion(r)
    BY <2>3, SaveDeletionStep DEF KeepsRow
  <2> QED
    BY <2>1, <2>2, <2>3
<1> QED
  BY <1>1, Invariance, PTL DEF Spec, HiddenForGood

----------------------------------------------------------------------------
(* The newest message.                                                     *)

(* Message m has a row in msgs.                                            *)
StoredIn(m, msgs) == m \in Id /\ msgs[m].status # "none"

(* Message m is one that u can have as the last one, and the newest such.  *)
Shows(u, msgs, dfor, m) == msgs[m].status = "live" /\ u \notin dfor[m]
Tops(u, msgs, dfor) ==
  {m \in Id : /\ Shows(u, msgs, dfor, m)
              /\ \A k \in Id : Shows(u, msgs, dfor, k) => k <= m}

AnyOf(S) == IF S = {} THEN 0 ELSE CHOOSE m \in S : TRUE

(* Newest chooses among them.                                              *)
LEMMA NewestTop ==
  ASSUME NEW u, NEW msgs, NEW dfor
  PROVE  Newest(u, msgs, dfor) = AnyOf(Tops(u, msgs, dfor))
<1> DEFINE visible == {m \in Id : msgs[m].status = "live" /\ u \notin dfor[m]}
           newest == {m \in visible : \A k \in visible : k <= m}
<1>1. newest = Tops(u, msgs, dfor)
  BY DEF Tops, Shows
<1>2. Newest(u, msgs, dfor) = AnyOf(newest)
  BY DEF Newest, AnyOf
<1> HIDE DEF newest
<1> QED
  BY <1>1, <1>2

(* There is one newest message at most.                                    *)
LEMMA OneTop ==
  ASSUME NEW u, NEW msgs, NEW dfor, NEW m \in Tops(u, msgs, dfor)
  PROVE  Newest(u, msgs, dfor) = m
<1>1. \A k \in Tops(u, msgs, dfor) : k = m
  <2> SUFFICES ASSUME NEW k \in Tops(u, msgs, dfor) PROVE k = m
    OBVIOUS
  <2>1. k \in Nat /\ m \in Nat /\ k <= m /\ m <= k
    BY DEF Tops, Id
  <2> QED
    BY <2>1
<1>2. AnyOf(Tops(u, msgs, dfor)) = m
  BY <1>1 DEF AnyOf
<1> QED
  BY <1>2, NewestTop

(* The newest message stays the newest when nothing becomes visible, and   *)
(* no message is lost from view but one that was not the newest.           *)
LEMMA NewestStays ==
  ASSUME NEW u, NEW msgs, NEW dfor, NEW msgs2, NEW dfor2, NEW x \in Id,
         Newest(u, msgs, dfor) # x,
         \A m \in Id \ {x} :
           Shows(u, msgs2, dfor2, m) <=> Shows(u, msgs, dfor, m),
         Shows(u, msgs2, dfor2, x) => Shows(u, msgs, dfor, x)
  PROVE  Newest(u, msgs2, dfor2) = Newest(u, msgs, dfor)
<1>1. x \notin Tops(u, msgs, dfor)
  BY OneTop
<1>2. ASSUME NEW m \in Tops(u, msgs, dfor)
      PROVE  m \in Tops(u, msgs2, dfor2)
  BY <1>1, <1>2 DEF Tops
<1>3. ASSUME NEW m \in Tops(u, msgs2, dfor2)
      PROVE  m \in Tops(u, msgs, dfor)
  <2>1. m \in Id /\ Shows(u, msgs, dfor, m)
    BY <1>3 DEF Tops
  <2>2. \A k \in Id \ {x} : Shows(u, msgs, dfor, k) => k <= m
    BY <1>3 DEF Tops
  <2>3. CASE Shows(u, msgs, dfor, x) /\ ~(x <= m)
    <3>1. \A k \in Id : Shows(u, msgs, dfor, k) => k <= x
      BY <2>1, <2>2, <2>3 DEF Id
    <3> QED
      BY <1>1, <2>3, <3>1 DEF Tops
  <2>4. CASE Shows(u, msgs, dfor, x) => x <= m
    BY <2>1, <2>2, <2>4 DEF Tops
  <2> QED
    BY <2>3, <2>4
<1>4. Tops(u, msgs2, dfor2) = Tops(u, msgs, dfor)
  BY <1>2, <1>3
<1> QED
  BY <1>4, NewestTop

(* It is told by what is visible alone.                                    *)
LEMMA NewestSame ==
  ASSUME NEW u, NEW msgs, NEW dfor, NEW msgs2, NEW dfor2,
         \A m \in Id : Shows(u, msgs2, dfor2, m) <=> Shows(u, msgs, dfor, m)
  PROVE  Newest(u, msgs2, dfor2) = Newest(u, msgs, dfor)
<1>1. Tops(u, msgs2, dfor2) = Tops(u, msgs, dfor)
  BY DEF Tops
<1> QED
  BY <1>1, NewestTop

----------------------------------------------------------------------------
(* Who moves, and what a step can change.                                  *)

(* Slot q is left as it was.                                               *)
Rests(q) == pc'[q] = pc[q] /\ call'[q] = call[q] /\ entity'[q] = entity[q]

(* Slot q comes to wait at label l.                                        *)
Goes(q, l) ==
  /\ pc' = [pc EXCEPT ![q] = l]
  /\ \A p \in Request \ {q} : call'[p] = call[p] /\ entity'[p] = entity[p]

(* A request moves alone.                                                  *)
LEMMA AloneAt ==
  ASSUME IInv, NEW r \in Request, NEW l, Goes(r, l)
  PROVE  pc'[r] = l /\ \A q \in Request \ {r} : Rests(q)
BY DEF IInv, TypeOK, Goes, Rests

(* A request that ends leaves a free slot.                                 *)
LEMMA Ends ==
  ASSUME IInv, NEW r \in Request, Finish(r)
  PROVE  Goes(r, "idle")
BY DEF IInv, TypeOK, Finish, Goto, Hold, Goes

(* The steps that read, and what they are followed by ...                  *)
LEMMA GoesOnReading ==
  ASSUME IInv, NEW r \in Request
  PROVE  /\ FindNoEarlierSend(r) => Goes(r, AfterLookup(r))
         /\ LoadReply(r) => Goes(r, "create") \/ Goes(r, "idle")
         /\ InsertConflict(r) => Goes(r, "loadExisting")
         /\ LoadForEdit(r) => Goes(r, "updateMessage") \/ Goes(r, "idle")
         /\ LoadForDelete(r) => Goes(r, "beginDeletion") \/ Goes(r, "idle")
         /\ LoadConversation(r) => Goes(r, "saveConversation")
<1>1. Reject(r) => Goes(r, "idle")
  BY Ends DEF Reject
<1>2. /\ FindNoEarlierSend(r) => Goes(r, AfterLookup(r))
      /\ LoadReply(r) => Goes(r, "create") \/ Reject(r)
      /\ InsertConflict(r) => Goes(r, "loadExisting")
  BY DEF FindNoEarlierSend, LoadReply, InsertConflict, Goto, Goes
<1>3. ASSUME NEW x, Hold(r, x)
      PROVE  \A p \in Request \ {r} : entity'[p] = entity[p]
  BY <1>3 DEF IInv, TypeOK, Hold
<1>4. LoadForEdit(r) => Goes(r, "updateMessage") \/ Reject(r)
  BY <1>3 DEF LoadForEdit, Goto, Goes
<1>5. LoadForDelete(r) => Goes(r, "beginDeletion") \/ Reject(r)
  BY <1>3 DEF LoadForDelete, Goto, Goes
<1>6. LoadConversation(r) => Goes(r, "saveConversation")
  BY <1>3 DEF LoadConversation, Goto, Goes
<1> QED
  BY <1>1, <1>2, <1>4, <1>5, <1>6

(* ... and those that write.                                               *)
LEMMA GoesOnWriting ==
  ASSUME IInv, NEW r \in Request
  PROVE  /\ CreateMessage(r) => Goes(r, "insert")
         /\ InsertMessage(r) => Goes(r, "saveMessage")
         /\ BeginDeletion(r) => Goes(r, "saveDeletion")
         /\ LoadExisting(r) \/ SaveMessage(r) \/ UpdateMessage(r)
              \/ SaveDeletion(r) \/ SaveConversation(r) => Goes(r, "publish")
         /\ FindEarlierSend(r) \/ FindConflictingSend(r) \/ FailRequest(r)
              \/ Publish(r) \/ PublishSeen(r) => Goes(r, "idle")
<1>1. ASSUME NEW x, Hold(r, x)
      PROVE  \A p \in Request \ {r} : entity'[p] = entity[p]
  BY <1>1 DEF IInv, TypeOK, Hold
<1>2. CreateMessage(r) => Goes(r, "insert")
  BY <1>1 DEF CreateMessage, Goto, Goes
<1>3. InsertMessage(r) => Goes(r, "saveMessage")
  BY <1>1 DEF InsertMessage, Goto, Goes
<1>4. BeginDeletion(r) => Goes(r, "saveDeletion")
  BY <1>1 DEF BeginDeletion, Goto, Goes
<1>5. LoadExisting(r) => Goes(r, "publish")
  BY <1>1 DEF LoadExisting, Goto, Goes
<1>6. SaveMessage(r) => Goes(r, "publish")
  BY <1>1 DEF SaveMessage, Goto, Goes
<1>7. UpdateMessage(r) \/ SaveDeletion(r) \/ SaveConversation(r)
        => Goes(r, "publish")
  BY DEF UpdateMessage, SaveDeletion, SaveConversation, Goto, Goes
<1>8. FindEarlierSend(r) \/ FindConflictingSend(r) \/ FailRequest(r)
        \/ Publish(r) \/ PublishSeen(r) => Goes(r, "idle")
  BY Ends DEF FindEarlierSend, FindConflictingSend, FailRequest, Publish,
              PublishSeen, Reject
<1> QED
  BY <1>2, <1>3, <1>4, <1>5, <1>6, <1>7, <1>8

(* A request that comes in has read nothing, and looks up its key if it    *)
(* has one.                                                                *)
Enters(r) ==
  \E l \in {"findClientId", "loadReply", "create", "loadEdit", "loadDelete",
            "loadConversation"} :
    Goes(r, l) /\ (l \in {"loadReply", "create"} => call'[r].cid = None)

(* So does every request that Arrive lets in.                              *)
LEMMA ComesIn ==
  ASSUME IInv, NEW r \in Request, Arrive(r)
  PROVE  Enters(r)
<1>1. ASSUME NEW c, NEW l, Receive(r, c, l)
      PROVE  Goes(r, l) /\ call'[r] = c
  BY <1>1 DEF IInv, TypeOK, Receive, Goto, Goes
<1>2. ASSUME NEW u \in User, NEW t \in Text, NEW c \in ClientId \cup {None},
             NEW reply \in IdOrNull, NEW shadow \in {{}, User \ {u}},
             ReceiveSend(r, u, t, c, reply, shadow)
      PROVE  Enters(r)
  <2> DEFINE args == [op |-> "send", user |-> u, text |-> t, cid |-> c,
                      target |-> reply, shadow |-> shadow]
             l == IF c # None THEN "findClientId"
                  ELSE IF reply # 0 THEN "loadReply" ELSE "create"
  <2>1. Receive(r, args, l) /\ args.cid = c
    BY <1>2 DEF ReceiveSend
  <2>2. /\ l \in {"findClientId", "loadReply", "create"}
        /\ l \in {"loadReply", "create"} => c = None
    OBVIOUS
  <2> HIDE DEF args, l
  <2>3. Goes(r, l) /\ call'[r] = args
    BY <1>1, <2>1
  <2> QED
    BY <2>1, <2>2, <2>3 DEF Enters
<1>3. ASSUME NEW u \in User, NEW m \in Id, NEW t \in Text,
             ReceiveEdit(r, u, m, t)
      PROVE  Enters(r)
  BY <1>1, <1>3 DEF ReceiveEdit, Enters
<1>4. ASSUME NEW u \in User, NEW m \in Id,
             NEW scope \in {"deleteForMe", "deleteForEveryone"},
             ReceiveDelete(r, u, m, scope)
      PROVE  Enters(r)
  BY <1>1, <1>4 DEF ReceiveDelete, Enters
<1>5. ASSUME NEW u \in User, NEW m \in Id, ReceiveSeen(r, u, m)
      PROVE  Enters(r)
  BY <1>1, <1>5 DEF ReceiveSeen, Enters
<1>6. PICK u \in User :
        \/ \E t \in Text, c \in ClientId \cup {None}, reply \in IdOrNull,
              shadow \in {{}, User \ {u}} :
                ReceiveSend(r, u, t, c, reply, shadow)
        \/ \E m \in Id, t \in Text : ReceiveEdit(r, u, m, t)
        \/ \E m \in Id, scope \in {"deleteForMe", "deleteForEveryone"} :
              ReceiveDelete(r, u, m, scope)
        \/ \E m \in Id : ReceiveSeen(r, u, m)
  BY DEF Arrive
<1>7. CASE \E t \in Text, c \in ClientId \cup {None}, reply \in IdOrNull,
              shadow \in {{}, User \ {u}} :
                ReceiveSend(r, u, t, c, reply, shadow)
  <2>1. PICK t \in Text, c \in ClientId \cup {None}, reply \in IdOrNull,
             shadow \in {{}, User \ {u}} :
               ReceiveSend(r, u, t, c, reply, shadow)
    BY <1>7
  <2> QED
    BY <1>2, <2>1
<1>8. CASE \E m \in Id, t \in Text : ReceiveEdit(r, u, m, t)
  BY <1>3, <1>8
<1>9. CASE \E m \in Id, scope \in {"deleteForMe", "deleteForEveryone"} :
             ReceiveDelete(r, u, m, scope)
  BY <1>4, <1>9
<1>10. CASE \E m \in Id : ReceiveSeen(r, u, m)
  BY <1>5, <1>10
<1> QED
  BY <1>6, <1>7, <1>8, <1>9, <1>10

(* Every request goes on somewhere, and alone.                             *)
LEMMA OthersRest ==
  ASSUME IInv, NEW r \in Request, Arrive(r) \/ Step(r) \/ FailRequest(r)
  PROVE  \A q \in Request \ {r} : Rests(q)
<1>1. CASE Arrive(r)
  BY <1>1, ComesIn, AloneAt DEF Enters
<1>2. CASE Step(r) \/ FailRequest(r)
  <2>1. \E l : Goes(r, l)
    BY <1>2, GoesOnReading, GoesOnWriting DEF Step
  <2> QED
    BY <2>1, AloneAt
<1> QED
  BY <1>1, <1>2

(* So a slot that does not rest is that of the request that moves.         *)
LEMMA Moves ==
  ASSUME IInv, [Next]_vars, NEW q \in Request, ~Rests(q)
  PROVE  Arrive(q) \/ Step(q) \/ FailRequest(q)
<1>1. ASSUME NEW e \in events, HandleEvent(e) \/ LoseEvent(e)
      PROVE  FALSE
  BY <1>1 DEF HandleEvent, LoseEvent, Rests
<1>2. ~UNCHANGED vars
  BY DEF vars, Rests
<1>3. PICK r \in Request : Arrive(r) \/ Step(r) \/ FailRequest(r)
  BY <1>1, <1>2 DEF Next
<1> QED
  BY <1>3, OthersRest
(* How a request comes to wait where it waits: for a send ...              *)
LEMMA WaitsToSend ==
  ASSUME IInv, [Next]_vars, NEW q \in Request, ~Rests(q)
  PROVE  /\ pc'[q] = "loadReply"
              => FindNoEarlierSend(q) \/ call'[q].cid = None
         /\ pc'[q] = "create"
              => FindNoEarlierSend(q) \/ LoadReply(q) \/ call'[q].cid = None
         /\ pc'[q] = "insert" => CreateMessage(q)
         /\ pc'[q] = "saveMessage" => InsertMessage(q)
         /\ pc'[q] = "loadExisting" => InsertConflict(q)
<1>1. CASE Arrive(q)
  BY <1>1, ComesIn, AloneAt DEF Enters
<1>2. CASE Step(q) \/ FailRequest(q)
  BY <1>2, GoesOnReading, GoesOnWriting, AloneAt DEF Step, AfterLookup
<1> QED
  BY <1>1, <1>2, Moves

(* ... and for the others.                                                 *)
LEMMA WaitsToWrite ==
  ASSUME IInv, [Next]_vars, NEW q \in Request, ~Rests(q)
  PROVE  /\ pc'[q] = "updateMessage" => LoadForEdit(q)
         /\ pc'[q] = "beginDeletion" => LoadForDelete(q)
         /\ pc'[q] = "saveDeletion" => BeginDeletion(q)
         /\ pc'[q] = "saveConversation" => LoadConversation(q)
         /\ pc'[q] = "publish" =>
              LoadExisting(q) \/ SaveMessage(q) \/ UpdateMessage(q)
                \/ SaveDeletion(q) \/ SaveConversation(q)
<1>1. CASE Arrive(q)
  BY <1>1, ComesIn, AloneAt DEF Enters
<1>2. CASE Step(q) \/ FailRequest(q)
  BY <1>2, GoesOnReading, GoesOnWriting, AloneAt DEF Step, AfterLookup
<1> QED
  BY <1>1, <1>2, Moves

(* Member rows change by the commit of a send, of a deletion or of a read  *)
(* receipt ...                                                             *)
LEMMA MemberWrites ==
  ASSUME Next, members' # members
  PROVE  \E r \in Request :
           SaveMessage(r) \/ SaveDeletion(r) \/ SaveConversation(r)
<1>1. ASSUME NEW e \in events, HandleEvent(e) \/ LoseEvent(e)
      PROVE  FALSE
  BY <1>1 DEF HandleEvent, LoseEvent, tables
<1>2. ASSUME NEW r \in Request, Arrive(r) PROVE FALSE
  BY <1>2 DEF Arrive, ReceiveSend, ReceiveEdit, ReceiveDelete, ReceiveSeen,
              Receive, tables
<1>3. ASSUME NEW r \in Request, Reject(r) PROVE FALSE
  BY <1>3 DEF Reject, tables
<1>4. PICK r \in Request : Step(r)
  BY <1>1, <1>2, <1>3 DEF Next, FailRequest
<1>5. FindNoEarlierSend(r) \/ FindEarlierSend(r) \/ CreateMessage(r)
      \/ InsertMessage(r) \/ InsertConflict(r) \/ LoadExisting(r) => FALSE
  BY DEF FindNoEarlierSend, FindEarlierSend, CreateMessage, InsertMessage,
         InsertConflict, LoadExisting, tables
<1>6. FindConflictingSend(r) \/ LoadReply(r) \/ LoadForEdit(r)
      \/ LoadForDelete(r) => FALSE
  BY <1>3 DEF FindConflictingSend, LoadReply, LoadForEdit, LoadForDelete,
              tables
<1>7. UpdateMessage(r) \/ BeginDeletion(r) \/ LoadConversation(r)
      \/ Publish(r) \/ PublishSeen(r) => FALSE
  BY DEF UpdateMessage, BeginDeletion, LoadConversation, Publish,
         PublishSeen, tables
<1> QED
  BY <1>4, <1>5, <1>6, <1>7 DEF Step

(* ... ids are minted by CreateMessage alone ...                           *)
LEMMA Mints ==
  ASSUME Next, lastId' # lastId
  PROVE  \E r \in Request : CreateMessage(r)
<1>1. ASSUME NEW e \in events, HandleEvent(e) \/ LoseEvent(e)
      PROVE  FALSE
  BY <1>1 DEF HandleEvent, LoseEvent
<1>2. ASSUME NEW r \in Request, Arrive(r) PROVE FALSE
  BY <1>2 DEF Arrive, ReceiveSend, ReceiveEdit, ReceiveDelete, ReceiveSeen,
              Receive
<1>3. ASSUME NEW r \in Request, Reject(r) PROVE FALSE
  BY <1>3 DEF Reject
<1>4. PICK r \in Request : Step(r)
  BY <1>1, <1>2, <1>3 DEF Next, FailRequest
<1>5. FindNoEarlierSend(r) \/ FindEarlierSend(r) \/ SaveMessage(r)
      \/ InsertMessage(r) \/ InsertConflict(r) \/ LoadExisting(r) => FALSE
  BY DEF FindNoEarlierSend, FindEarlierSend, SaveMessage, InsertMessage,
         InsertConflict, LoadExisting
<1>6. FindConflictingSend(r) \/ LoadReply(r) \/ LoadForEdit(r)
      \/ LoadForDelete(r) => FALSE
  BY <1>3 DEF FindConflictingSend, LoadReply, LoadForEdit, LoadForDelete
<1>7. UpdateMessage(r) \/ BeginDeletion(r) \/ SaveDeletion(r)
      \/ LoadConversation(r) \/ SaveConversation(r) \/ Publish(r)
      \/ PublishSeen(r) => FALSE
  BY DEF UpdateMessage, BeginDeletion, SaveDeletion, LoadConversation,
         SaveConversation, Publish, PublishSeen
<1> QED
  BY <1>4, <1>5, <1>6, <1>7 DEF Step

(* ... events by Publish alone ...                                         *)
LEMMA Announces ==
  ASSUME Next, NEW x \in events', x \notin events
  PROVE  \E r \in Request : Publish(r) /\ x = EventOf(r)
<1>1. ASSUME NEW e \in events, HandleEvent(e) \/ LoseEvent(e)
      PROVE  FALSE
  BY <1>1 DEF HandleEvent, LoseEvent
<1>2. ASSUME NEW r \in Request, Arrive(r) PROVE FALSE
  BY <1>2 DEF Arrive, ReceiveSend, ReceiveEdit, ReceiveDelete, ReceiveSeen,
              Receive
<1>3. ASSUME NEW r \in Request, Reject(r) PROVE FALSE
  BY <1>3 DEF Reject
<1>4. PICK r \in Request : Step(r)
  BY <1>1, <1>2, <1>3 DEF Next, FailRequest
<1>5. FindNoEarlierSend(r) \/ FindEarlierSend(r) \/ CreateMessage(r)
      \/ InsertMessage(r) \/ InsertConflict(r) \/ LoadExisting(r)
      \/ SaveMessage(r) => FALSE
  BY DEF FindNoEarlierSend, FindEarlierSend, CreateMessage, InsertMessage,
         InsertConflict, LoadExisting, SaveMessage
<1>6. FindConflictingSend(r) \/ LoadReply(r) \/ LoadForEdit(r)
      \/ LoadForDelete(r) => FALSE
  BY <1>3 DEF FindConflictingSend, LoadReply, LoadForEdit, LoadForDelete
<1>7. UpdateMessage(r) \/ BeginDeletion(r) \/ SaveDeletion(r)
      \/ LoadConversation(r) \/ SaveConversation(r) \/ PublishSeen(r) => FALSE
  BY DEF UpdateMessage, BeginDeletion, SaveDeletion, LoadConversation,
         SaveConversation, PublishSeen
<1>8. Publish(r)
  BY <1>4, <1>5, <1>6, <1>7 DEF Step
<1> QED
  BY <1>8 DEF Publish

(* ... and a notice that a message was created by an event.                *)
LEMMA Tells ==
  ASSUME Next, NEW u \in User, NEW n \in inbox'[u], n \notin inbox[u],
         n.kind = "created"
  PROVE  \E e \in events : e.kind = "created" /\ e.msg = n.msg
<1>1. ASSUME NEW r \in Request, Arrive(r) PROVE FALSE
  BY <1>1 DEF Arrive, ReceiveSend, ReceiveEdit, ReceiveDelete, ReceiveSeen,
              Receive
<1>2. ASSUME NEW r \in Request, Reject(r) PROVE FALSE
  BY <1>2 DEF Reject
<1>3. ASSUME NEW r \in Request, PublishSeen(r) PROVE FALSE
  <2> DEFINE x == [kind |-> "seen", msg |-> entity[r].id, text |-> None]
  <2>1. inbox'[u] = inbox[u] \cup {x}
    BY <1>3 DEF PublishSeen
  <2>2. x.kind = "seen"
    OBVIOUS
  <2> HIDE DEF x
  <2> QED
    BY <2>1, <2>2
<1>4. ASSUME NEW r \in Request, Step(r) PROVE FALSE
  <2>1. FindNoEarlierSend(r) \/ FindEarlierSend(r) \/ CreateMessage(r)
        \/ InsertMessage(r) \/ InsertConflict(r) \/ LoadExisting(r)
        \/ SaveMessage(r) => FALSE
    BY DEF FindNoEarlierSend, FindEarlierSend, CreateMessage, InsertMessage,
           InsertConflict, LoadExisting, SaveMessage
  <2>2. FindConflictingSend(r) \/ LoadReply(r) \/ LoadForEdit(r)
        \/ LoadForDelete(r) => FALSE
    BY <1>2 DEF FindConflictingSend, LoadReply, LoadForEdit, LoadForDelete
  <2>3. UpdateMessage(r) \/ BeginDeletion(r) \/ SaveDeletion(r)
        \/ LoadConversation(r) \/ SaveConversation(r) \/ Publish(r) => FALSE
    BY DEF UpdateMessage, BeginDeletion, SaveDeletion, LoadConversation,
           SaveConversation, Publish
  <2> QED
    BY <1>3, <1>4, <2>1, <2>2, <2>3 DEF Step
<1>5. PICK e \in events : HandleEvent(e) \/ LoseEvent(e)
  BY <1>1, <1>2, <1>4 DEF Next, FailRequest
<1> DEFINE x == [kind |-> e.kind, msg |-> e.msg, text |-> e.text]
<1>6. n = x
  BY <1>5 DEF HandleEvent, LoseEvent
<1>7. x.kind = e.kind /\ x.msg = e.msg
  OBVIOUS
<1> HIDE DEF x
<1> QED
  BY <1>6, <1>7
----------------------------------------------------------------------------
(* What a commit does to the rows.  A send fills the row of its id ...     *)
LEMMA SavedRow ==
  ASSUME IInv, NEW r \in Request, SaveMessage(r)
  PROVE  LET x == entity[r].id
         IN  /\ x \in Id /\ messages[x].status = "none"
             /\ messages'[x].status = "live"
             /\ messages'[x].sender = call[r].user
             /\ messages'[x].cid = call[r].cid
             /\ deletedFor'[x] = entity[r].hidden
             /\ \A m \in Id \ {x} : /\ messages'[m] = messages[m]
                                    /\ deletedFor'[m] = deletedFor[m]
<1> DEFINE x == entity[r].id
           row == [status |-> "live", sender |-> call[r].user,
                   text |-> entity[r].text, cid |-> call[r].cid,
                   shadow |-> call[r].shadow]
<1>1. x \in Id /\ messages[x].status = "none"
  BY MessagingAssumption
  DEF IInv, SaveMessage, RequestOK, FreshOK, Minted, TypeOK, Id, IdOrNull
<1>2. /\ messages' = [messages EXCEPT ![x] = row]
      /\ deletedFor' = [deletedFor EXCEPT ![x] = entity[r].hidden]
  BY DEF SaveMessage
<1>3. row.status = "live" /\ row.sender = call[r].user /\ row.cid = call[r].cid
  OBVIOUS
<1> HIDE DEF x, row
<1>4. messages \in [Id -> Message] /\ deletedFor \in [Id -> SUBSET User]
  BY DEF IInv, TypeOK
<1>5. /\ messages'[x] = row /\ deletedFor'[x] = entity[r].hidden
      /\ \A m \in Id \ {x} : /\ messages'[m] = messages[m]
                             /\ deletedFor'[m] = deletedFor[m]
  BY <1>1, <1>2, <1>4
<1> QED
  BY <1>1, <1>3, <1>5 DEF x

(* ... an edit replaces a text ...                                         *)
LEMMA EditedRow ==
  ASSUME IInv, NEW r \in Request, UpdateMessage(r), NEW m \in Id
  PROVE  /\ messages'[m].status = messages[m].status
         /\ messages'[m].sender = messages[m].sender
         /\ messages'[m].cid = messages[m].cid
         /\ m # entity[r].id => messages'[m] = messages[m]
BY DEF IInv, TypeOK, Message, UpdateMessage

(* ... and a deletion writes the status that its entity says.              *)
LEMMA RemovedRow ==
  ASSUME IInv, NEW r \in Request, SaveDeletion(r)
  PROVE  LET x == entity[r].id
         IN  /\ x \in Id /\ messages[x].status # "none"
             /\ messages'[x].status
                  = IF entity[r].deleted THEN "tombstone" ELSE "live"
             /\ \A m \in Id : /\ messages'[m].text = messages[m].text
                              /\ messages'[m].sender = messages[m].sender
                              /\ messages'[m].cid = messages[m].cid
             /\ \A m \in Id \ {x} : /\ messages'[m] = messages[m]
                                    /\ deletedFor'[m] = deletedFor[m]
<1>1. entity[r].id \in Id /\ messages[entity[r].id].status # "none"
  BY DEF IInv, SaveDeletion, RequestOK, CallOK, EntityOK, Deleting, Stored
<1>2. /\ messages' = MessagesAfter(entity[r])
      /\ deletedFor' = DeletedForAfter(entity[r])
  BY DEF SaveDeletion
<1>3. messages \in [Id -> Message] /\ deletedFor \in [Id -> SUBSET User]
  BY DEF IInv, TypeOK
<1> QED
  BY <1>1, <1>2, <1>3 DEF MessagesAfter, DeletedForAfter, Message

(* So a message that is stored stays stored ...                            *)
LEMMA StoredStays ==
  ASSUME IInv, [Next]_vars, NEW m, StoredIn(m, messages)
  PROVE  StoredIn(m, messages')
<1>1. CASE messages' = messages
  BY <1>1
<1>2. CASE messages' # messages
  <2>1. Next
    BY <1>2 DEF vars
  <2>2. PICK r \in Request :
               SaveMessage(r) \/ UpdateMessage(r) \/ SaveDeletion(r)
    BY <1>2, <2>1, Commits
  <2> QED
    BY <2>2, SavedRow, EditedRow, RemovedRow DEF StoredIn
<1> QED
  BY <1>1, <1>2

(* ... one is marked as deleted by the commit of a deletion ...            *)
LEMMA TombstoneMade ==
  ASSUME IInv, [Next]_vars, NEW m \in Id,
         messages[m].status # "tombstone", messages'[m].status = "tombstone"
  PROVE  \E r \in Request : SaveDeletion(r) /\ entity[r].id = m
<1>1. Next /\ messages' # messages
  BY DEF vars
<1>2. PICK r \in Request :
             SaveMessage(r) \/ UpdateMessage(r) \/ SaveDeletion(r)
  BY <1>1, Commits
<1>3. ~SaveMessage(r)
  BY SavedRow
<1>4. ~UpdateMessage(r)
  BY EditedRow
<1> QED
  BY <1>2, <1>3, <1>4, RemovedRow

(* ... and a key is taken by the commit of a send.                         *)
LEMMA KeyTaken ==
  ASSUME IInv, [Next]_vars, NEW u, NEW c,
         RowsOf(u, c) = {}, RowsOf(u, c)' # {}
  PROVE  \E r \in Request :
           SaveMessage(r) /\ call[r].user = u /\ call[r].cid = c
<1>1. PICK m \in Id : /\ messages'[m].status # "none"
                      /\ messages'[m].sender = u /\ messages'[m].cid = c
  BY DEF RowsOf
<1>2. ~(/\ messages[m].status # "none"
        /\ messages[m].sender = u /\ messages[m].cid = c)
  BY DEF RowsOf
<1>3. Next /\ messages' # messages
  BY <1>1, <1>2 DEF vars
<1>4. PICK r \in Request :
             SaveMessage(r) \/ UpdateMessage(r) \/ SaveDeletion(r)
  BY <1>3, Commits
<1>5. ~UpdateMessage(r)
  BY <1>1, <1>2, EditedRow
<1>6. ~SaveDeletion(r)
  BY <1>1, <1>2, RemovedRow
<1> QED
  BY <1>1, <1>2, <1>4, <1>5, <1>6, SavedRow

----------------------------------------------------------------------------
(* Deletions of one message that do not overlap.  The entity of a deletion *)
(* says what its row said ...                                              *)
LEMMA DeletionReads ==
  ASSUME IInv, NEW r \in Request
  PROVE  /\ LoadForDelete(r) /\ pc'[r] = "beginDeletion" =>
              /\ entity'[r].id \in Id /\ messages' = messages
              /\ messages[entity'[r].id].status = "tombstone"
                   => entity'[r].deleted
         /\ BeginDeletion(r) =>
              /\ entity'[r].id = entity[r].id /\ messages' = messages
              /\ entity'[r].deleted = entity[r].deleted
              /\ entity'[r].hidden = entity[r].hidden
<1>1. ASSUME LoadForDelete(r), pc'[r] = "beginDeletion"
      PROVE  /\ entity'[r].id \in Id /\ messages' = messages
             /\ messages[entity'[r].id].status = "tombstone"
                  => entity'[r].deleted
  <2> DEFINE m == call[r].target
             e == Loaded(m)
  <2>1. m \in Id
    BY <1>1 DEF IInv, RequestOK, CallOK, Deleting, Stored, LoadForDelete
  <2>2. /\ e \in Entity /\ e.id = m
        /\ e.deleted = (messages[m].status = "tombstone")
    <3>1. NoEntity \in Entity
      BY Blanks
    <3>2. e.deleted = (messages[m].status = "tombstone")
      BY <3>1 DEF Loaded, Entity
    <3> QED
      BY <2>1, <3>2, LoadedType DEF IInv
  <2>3. ~Reject(r)
    BY <1>1, Ends, AloneAt DEF Reject
  <2>4. /\ messages' = messages
        /\ \/ Hold(r, DeletedForUser(e, call[r].user))
           \/ Hold(r, DeletedForEveryone(e))
    BY <1>1, <2>3 DEF LoadForDelete, tables
  <2> HIDE DEF m, e
  <2>5. \/ entity'[r] = DeletedForUser(e, call[r].user)
        \/ entity'[r] = DeletedForEveryone(e)
    BY <2>4 DEF IInv, TypeOK, Hold
  <2>6. entity'[r].id = m /\ (entity'[r].deleted \/ ~e.deleted)
    BY <2>2, <2>5 DEF DeletedForUser, DeletedForEveryone, Entity
  <2> QED
    BY <2>1, <2>2, <2>4, <2>6
<1>2. ASSUME BeginDeletion(r)
      PROVE  /\ entity'[r].id = entity[r].id /\ messages' = messages
             /\ entity'[r].deleted = entity[r].deleted
             /\ entity'[r].hidden = entity[r].hidden
  <2>1. /\ entity[r] \in Entity
        /\ entity \in [Request -> Entity]
    BY DEF IInv, TypeOK
  <2>2. /\ messages' = messages
        /\ \E f, w : Hold(r, [entity[r] EXCEPT !.members = f, !.touched = w])
    BY <1>2 DEF BeginDeletion, tables
  <2>3. PICK f, w :
          entity'[r] = [entity[r] EXCEPT !.members = f, !.touched = w]
    BY <2>1, <2>2 DEF Hold
  <2> QED
    BY <2>1, <2>2, <2>3 DEF Entity
<1> QED
  BY <1>1, <1>2

(* ... and no other deletion makes it a tombstone before this one commits. *)
LEMMA KnownNext ==
  ASSUME IInv, TombstonesKnown, DeletionsApart, [Next]_vars
  PROVE  TombstonesKnown'
<1> SUFFICES ASSUME NEW q \in Request,
                    pc'[q] \in {"beginDeletion", "saveDeletion"},
                    messages'[entity'[q].id].status = "tombstone"
             PROVE  entity'[q].deleted
  BY DEF TombstonesKnown
<1>1. CASE Rests(q)
  <2>1. /\ pc[q] \in {"beginDeletion", "saveDeletion"}
        /\ entity'[q] = entity[q] /\ entity[q].id \in Id
    BY <1>1 DEF Rests, IInv, RequestOK, CallOK, EntityOK, Deleting, Stored
  <2>2. ASSUME messages[entity[q].id].status # "tombstone"
        PROVE  FALSE
    <3>1. PICK r \in Request : SaveDeletion(r) /\ entity[r].id = entity[q].id
      BY <2>1, <2>2, TombstoneMade
    <3>2. r = q
      BY <2>1, <3>1 DEF DeletionsApart, SaveDeletion
    <3> QED
      BY <3>1, <3>2, GoesOnWriting, AloneAt
  <2> QED
    BY <2>1, <2>2 DEF TombstonesKnown
<1>2. CASE ~Rests(q) /\ pc'[q] = "beginDeletion"
  BY <1>2, WaitsToWrite, DeletionReads
<1>3. CASE ~Rests(q) /\ pc'[q] = "saveDeletion"
  <2>1. BeginDeletion(q)
    BY <1>3, WaitsToWrite
  <2> QED
    BY <2>1, DeletionReads DEF TombstonesKnown, BeginDeletion
<1> QED
  BY <1>1, <1>2, <1>3

(* Nobody deletes before the first request.                                *)
LEMMA KnownInit == Init => TombstonesKnown
BY DEF Init, TombstonesKnown

(* So a deletion knows the tombstone it finds, as long as no other one of  *)
(* the same message is under way.                                          *)
THEOREM DeletionsAgree == Spec /\ []DeletionsApart => []TombstonesKnown
BY Invariance, KnownInit, KnownNext, PTL DEF Spec

(* Then a message deleted for everyone stays deleted, however the other    *)
(* handlers interleave: no deletion for one member writes back the live    *)
(* row it read.                                                            *)
THEOREM DeletedStaysDeleted == Spec /\ []DeletionsApart => TombstoneIsFinal
<1>1. IInv /\ TombstonesKnown /\ [Next]_vars
        => [\A m \in Id : messages[m].status = "tombstone"
                            => messages'[m].status = "tombstone"]_messages
  <2> SUFFICES ASSUME IInv, TombstonesKnown, Next, messages' # messages,
                      NEW m \in Id, messages[m].status = "tombstone"
               PROVE  messages'[m].status = "tombstone"
    BY DEF vars
  <2>1. PICK r \in Request :
               SaveMessage(r) \/ UpdateMessage(r) \/ SaveDeletion(r)
    BY Commits
  <2>2. CASE SaveMessage(r)
    BY <2>2, SavedRow
  <2>3. CASE UpdateMessage(r)
    BY <2>3, EditedRow
  <2>4. CASE SaveDeletion(r)
    BY <2>4, RemovedRow DEF TombstonesKnown, SaveDeletion
  <2> QED
    BY <2>1, <2>2, <2>3, <2>4
<1> QED
  BY <1>1, Invariance, DeletionsAgree, PTL DEF Spec, TombstoneIsFinal
----------------------------------------------------------------------------
(* Edits and deletions of one message that do not overlap.  An edit goes   *)
(* on only when the message it read is no tombstone ...                    *)
LEMMA EditReads ==
  ASSUME IInv, NEW r \in Request, LoadForEdit(r), pc'[r] = "updateMessage"
  PROVE  /\ messages' = messages
         /\ messages[entity'[r].id].status # "tombstone"
<1> DEFINE m == call[r].target
           x == Loaded(m)
           e == [x EXCEPT !.text = call[r].text,
                          !.applied = (call[r].text # x.text)]
<1>1. m \in Id
  BY DEF IInv, RequestOK, CallOK, Editing, Stored, LoadForEdit
<1>2. /\ x \in Entity /\ x.id = m
      /\ x.deleted = (messages[m].status = "tombstone")
  <2>1. NoEntity \in Entity
    BY Blanks
  <2>2. x.deleted = (messages[m].status = "tombstone")
    BY <2>1 DEF Loaded, Entity
  <2> QED
    BY <1>1, <2>2, LoadedType DEF IInv
<1>3. ~Reject(r)
  BY Ends, AloneAt DEF Reject
<1>4. ~x.deleted /\ messages' = messages /\ Hold(r, e)
  BY <1>3 DEF LoadForEdit, tables
<1> HIDE DEF x, m
<1>5. e.id = m
  BY <1>2 DEF Entity
<1> HIDE DEF e
<1>6. entity'[r] = e
  BY <1>4 DEF IInv, TypeOK, Hold
<1> QED
  BY <1>2, <1>4, <1>5, <1>6

(* ... and no deletion makes it one before the edit commits.               *)
LEMMA LiveNext ==
  ASSUME IInv, EditsLive, EditsApart, [Next]_vars
  PROVE  EditsLive'
<1> SUFFICES ASSUME NEW q \in Request, pc'[q] = "updateMessage"
             PROVE  messages'[entity'[q].id].status # "tombstone"
  BY DEF EditsLive
<1>1. CASE Rests(q)
  <2>1. /\ pc[q] = "updateMessage"
        /\ entity'[q] = entity[q] /\ entity[q].id \in Id
    BY <1>1 DEF Rests, IInv, RequestOK, CallOK, EntityOK, Editing, Stored
  <2>2. messages[entity[q].id].status # "tombstone"
    BY <2>1 DEF EditsLive
  <2>3. ASSUME messages'[entity[q].id].status = "tombstone"
        PROVE  FALSE
    <3>1. PICK r \in Request : SaveDeletion(r) /\ entity[r].id = entity[q].id
      BY <2>1, <2>2, <2>3, TombstoneMade
    <3> QED
      BY <2>1, <3>1 DEF EditsApart, SaveDeletion
  <2> QED
    BY <2>1, <2>3
<1>2. CASE ~Rests(q)
  BY <1>2, WaitsToWrite, EditReads
<1> QED
  BY <1>1, <1>2

(* Nobody edits before the first request.                                  *)
LEMMA LiveInit == Init => EditsLive
BY DEF Init, EditsLive

(* So an edit commits to a message that is still there, as long as no      *)
(* deletion of it is about to commit when the edit is.                     *)
THEOREM EditsFindThemLive == Spec /\ []EditsApart => []EditsLive
BY Invariance, LiveInit, LiveNext, PTL DEF Spec

(* Then the text of a message deleted for everyone is no longer edited.    *)
THEOREM DeletedIsFrozen == Spec /\ []EditsApart => TombstoneIsFrozen
<1>1. IInv /\ EditsLive /\ [Next]_vars
        => [\A m \in Id : messages[m].status = "tombstone"
                            => messages'[m].text = messages[m].text]_messages
  <2> SUFFICES ASSUME IInv, EditsLive, Next, messages' # messages,
                      NEW m \in Id, messages[m].status = "tombstone"
               PROVE  messages'[m].text = messages[m].text
    BY DEF vars
  <2>1. PICK r \in Request :
               SaveMessage(r) \/ UpdateMessage(r) \/ SaveDeletion(r)
    BY Commits
  <2>2. CASE SaveMessage(r)
    BY <2>2, SavedRow
  <2>3. CASE UpdateMessage(r)
    BY <2>3, EditedRow DEF EditsLive, UpdateMessage
  <2>4. CASE SaveDeletion(r)
    BY <2>4, RemovedRow
  <2> QED
    BY <2>1, <2>2, <2>3, <2>4
<1> QED
  BY <1>1, Invariance, EditsFindThemLive, PTL DEF Spec, TombstoneIsFrozen

----------------------------------------------------------------------------
(* Sends with one client id that do not overlap.  A send whose lookup      *)
(* found no row still has its key to itself ...                            *)
LEMMA KeyStaysFree ==
  ASSUME IInv, KeysFree, KeysApart, [Next]_vars, NEW q \in Request,
         KeyChecked(q)'
  PROVE  RowsOf(call[q].user, call[q].cid)' = {}
<1>1. CASE Rests(q)
  <2>1. /\ KeyChecked(q) /\ call'[q] = call[q]
        /\ RowsOf(call[q].user, call[q].cid) = {}
    BY <1>1 DEF Rests, KeyChecked, KeysFree
  <2>2. ASSUME RowsOf(call[q].user, call[q].cid)' # {}
        PROVE  FALSE
    <3> DEFINE u == call[q].user
               c == call[q].cid
    <3>1. RowsOf(u, c) = {} /\ RowsOf(u, c)' # {}
      BY <2>1, <2>2
    <3>2. u' = u /\ c' = c
      BY <2>1
    <3>3. \E m \in Id : /\ messages'[m].status # "none"
                        /\ messages'[m].sender = u /\ messages'[m].cid = c
      BY <2>2, <3>2 DEF RowsOf
    <3> HIDE DEF u, c
    <3>4. PICK r \in Request :
                 SaveMessage(r) /\ call[r].user = u /\ call[r].cid = c
      BY <3>1, <3>3, KeyTaken DEF RowsOf
    <3>5. r = q
      BY <2>1, <3>4 DEF KeysApart, SaveMessage, u, c
    <3>6. pc'[q] = "publish"
      BY <3>4, <3>5, GoesOnWriting, AloneAt
    <3> QED
      BY <3>6 DEF KeyChecked
  <2> QED
    BY <2>2
<1>2. CASE ~Rests(q)
  <2>1. \/ FindNoEarlierSend(q) \/ LoadReply(q) \/ CreateMessage(q)
        \/ InsertMessage(q)
    BY <1>2, WaitsToSend DEF KeyChecked
  <2>2. pc'[q] # "idle"
    BY DEF KeyChecked
  <2>3. ~Reject(q)
    BY <2>2, Ends, AloneAt DEF Reject
  <2>4. messages' = messages /\ call' = call
    BY <2>1, <2>3
    DEF FindNoEarlierSend, LoadReply, CreateMessage, InsertMessage, tables
  <2>5. RowsOf(call[q].user, call[q].cid) = {}
    BY <2>1, <2>4
    DEF FindNoEarlierSend, LoadReply, CreateMessage, InsertMessage,
        KeyChecked, KeysFree
  <2> QED
    BY <2>4, <2>5 DEF RowsOf
<1> QED
  BY <1>1, <1>2

(* ... so the index turns it away from no INSERT ...                       *)
LEMMA KeysFreeNext ==
  ASSUME IInv, KeysFree, KeysApart, [Next]_vars
  PROVE  KeysFree'
<1>1. ASSUME NEW q \in Request, pc'[q] = "loadExisting" PROVE FALSE
  <2>1. CASE Rests(q)
    BY <1>1, <2>1 DEF Rests, KeysFree
  <2>2. CASE ~Rests(q)
    BY <1>1, <2>2, WaitsToSend DEF InsertConflict, KeysFree, KeyChecked
  <2> QED
    BY <2>1, <2>2
<1>2. ASSUME NEW q \in Request, pc'[q] = "publish", call'[q].op = "send"
      PROVE  StoredIn(entity'[q].id, messages')
  <2>1. CASE Rests(q)
    BY <1>2, <2>1, StoredStays DEF Rests, KeysFree, Stored, StoredIn
  <2>2. CASE ~Rests(q)
    <3>1. ~LoadExisting(q)
      BY DEF LoadExisting, KeysFree
    <3>2. ~(UpdateMessage(q) \/ SaveDeletion(q) \/ SaveConversation(q))
      BY <1>2 DEF IInv, RequestOK, CallOK, Editing, Deleting, Marking,
                  UpdateMessage, SaveDeletion, SaveConversation
    <3>3. SaveMessage(q)
      BY <1>2, <2>2, <3>1, <3>2, WaitsToWrite
    <3>4. entity'[q].id = entity[q].id
      BY <3>3 DEF IInv, TypeOK, Entity, SaveMessage, Hold
    <3> QED
      BY <3>3, <3>4, SavedRow DEF StoredIn
  <2> QED
    BY <2>1, <2>2
<1> QED
  BY <1>1, <1>2, KeyStaysFree DEF KeysFree, Stored, StoredIn

(* ... what it announces is stored ...                                     *)
LEMMA AnnouncedNext ==
  ASSUME IInv, KeysFree, AnnouncedStored, [Next]_vars
  PROVE  AnnouncedStored'
<1> SUFFICES ASSUME NEW x \in events', x.kind = "created"
             PROVE  StoredIn(x.msg, messages')
  BY DEF AnnouncedStored, Stored, StoredIn
<1>1. StoredIn(x.msg, messages)
  <2>1. CASE x \in events
    BY <2>1 DEF AnnouncedStored, Stored, StoredIn
  <2>2. CASE x \notin events
    <3>1. Next
      BY <2>2 DEF vars
    <3>2. PICK r \in Request : Publish(r) /\ x = EventOf(r)
      BY <2>2, <3>1, Announces
    <3>3. call[r].op \in {"send", "edit", "deleteForMe", "deleteForEveryone"}
      BY <3>2 DEF IInv, RequestOK, CallOK, Operation, Publish
    <3>4. call[r].op = "send" /\ x.msg = entity[r].id
      BY <3>2, <3>3 DEF EventOf
    <3> QED
      BY <3>2, <3>4 DEF KeysFree, Publish, Stored, StoredIn
  <2> QED
    BY <2>1, <2>2
<1> QED
  BY <1>1, StoredStays

(* ... and so is what the members are told of.                             *)
LEMMA GhostNext ==
  ASSUME IInv, AnnouncedStored, NoGhostBroadcast, [Next]_vars
  PROVE  NoGhostBroadcast'
<1> SUFFICES ASSUME NEW u \in User, NEW n \in inbox'[u], n.kind = "created"
             PROVE  StoredIn(n.msg, messages')
  BY DEF NoGhostBroadcast, StoredIn
<1>1. StoredIn(n.msg, messages)
  <2>1. CASE n \in inbox[u]
    BY <2>1 DEF NoGhostBroadcast, StoredIn, IInv, TypeOK, Notice
  <2>2. CASE n \notin inbox[u]
    <3>1. Next
      BY <2>2 DEF vars
    <3> QED
      BY <2>2, <3>1, Tells DEF AnnouncedStored, Stored, StoredIn
  <2> QED
    BY <2>1, <2>2
<1> QED
  BY <1>1, StoredStays

(* Before the first request nobody is told of anything.                    *)
LEMMA GhostInit == Init => GhostInv
BY DEF Init, GhostInv, KeysFree, KeyChecked, AnnouncedStored,
       NoGhostBroadcast

(* Every message announced to a member exists, as long as no send commits  *)
(* a key that another one has looked up in vain and still means to insert. *)
THEOREM AnnouncedExists == Spec /\ []KeysApart => []NoGhostBroadcast
<1>1. IInv /\ GhostInv /\ KeysApart /\ [Next]_vars => GhostInv'
  BY KeysFreeNext, AnnouncedNext, GhostNext DEF GhostInv
<1>2. GhostInv => NoGhostBroadcast
  BY DEF GhostInv
<1> QED
  BY <1>1, <1>2, Invariance, GhostInit, PTL DEF Spec
----------------------------------------------------------------------------
(* Sends that do not overlap.  The id on its way is the greatest one ...   *)
LEMMA NewestMintedNext ==
  ASSUME IInv, NewestMinted, SendsApart', [Next]_vars
  PROVE  NewestMinted'
<1> SUFFICES ASSUME NEW q \in Request, pc'[q] \in {"insert", "saveMessage"}
             PROVE  entity'[q].id = lastId'
  BY DEF NewestMinted
<1>1. CASE Rests(q)
  <2>1. pc[q] \in {"insert", "saveMessage"} /\ entity'[q] = entity[q]
    BY <1>1 DEF Rests
  <2>2. ASSUME lastId' # lastId PROVE FALSE
    <3>1. Next
      BY <2>2 DEF vars
    <3>2. PICK r \in Request : CreateMessage(r)
      BY <2>2, <3>1, Mints
    <3>3. pc'[r] = "insert"
      BY <3>2, GoesOnWriting, AloneAt
    <3>4. r = q
      BY <3>3 DEF SendsApart
    <3> QED
      BY <2>1, <3>2, <3>4 DEF CreateMessage
  <2> QED
    BY <2>1, <2>2 DEF NewestMinted
<1>2. CASE ~Rests(q) /\ pc'[q] = "insert"
  <2>1. CreateMessage(q)
    BY <1>2, WaitsToSend
  <2>2. entity'[q].id = lastId + 1 /\ lastId' = lastId + 1
    BY <2>1, Blanks DEF IInv, TypeOK, CreateMessage, Hold, Entity
  <2> QED
    BY <2>2
<1>3. CASE ~Rests(q) /\ pc'[q] = "saveMessage"
  <2>1. InsertMessage(q)
    BY <1>3, WaitsToSend
  <2>2. entity'[q].id = entity[q].id /\ lastId' = lastId
    BY <2>1 DEF IInv, TypeOK, InsertMessage, Hold, Entity
  <2> QED
    BY <2>1, <2>2 DEF NewestMinted, InsertMessage
<1> QED
  BY <1>1, <1>2, <1>3

(* What a request makes of the member rows it reads: a send ...            *)
LEMMA InsertReads ==
  ASSUME IInv, NEW r \in Request, InsertMessage(r), NEW u \in User
  PROVE  LET e == entity[r]
             row == entity'[r].members[u]
         IN  /\ row.last = IF u \in e.hidden THEN members[u].last ELSE e.id
             /\ row.seen = IF u = call[r].user THEN e.id ELSE members[u].seen
             /\ entity'[r].id = e.id /\ entity'[r].hidden = e.hidden
             /\ UNCHANGED <<messages, deletedFor, members, call>>
<1> DEFINE e == entity[r]
           rows == [p \in User |->
             [last |-> IF p \in e.hidden THEN members[p].last ELSE e.id,
              seen |-> IF p = call[r].user THEN e.id ELSE members[p].seen]]
<1>1. /\ entity'[r] = [e EXCEPT !.members = rows, !.touched = User]
      /\ UNCHANGED <<messages, deletedFor, members, call>>
  BY DEF IInv, TypeOK, InsertMessage, Hold, tables
<1>2. e \in Entity
  BY DEF IInv, TypeOK
<1>3. /\ rows[u].last = IF u \in e.hidden THEN members[u].last ELSE e.id
      /\ rows[u].seen = IF u = call[r].user THEN e.id ELSE members[u].seen
  OBVIOUS
<1> HIDE DEF rows
<1>4. /\ entity'[r].id = e.id /\ entity'[r].hidden = e.hidden
      /\ entity'[r].members = rows
  BY <1>1, <1>2 DEF Entity
<1> QED
  BY <1>1, <1>3, <1>4

(* ... a deletion ...                                                      *)
LEMMA BeginReads ==
  ASSUME IInv, NEW r \in Request, BeginDeletion(r)
  PROVE  /\ \A u \in User :
              /\ entity'[r].members[u].last = LastAfter(entity[r], u)
              /\ entity'[r].members[u].seen = members[u].seen
         /\ entity'[r].touched
              = {u \in User : members[u].last = entity[r].id}
         /\ UNCHANGED <<messages, deletedFor, members, call>>
<1> DEFINE e == entity[r]
           rows == [u \in User |->
                      [members[u] EXCEPT !.last = LastAfter(e, u)]]
           mine == {u \in User : members[u].last = e.id}
<1>1. /\ entity'[r] = [e EXCEPT !.members = rows, !.touched = mine]
      /\ UNCHANGED <<messages, deletedFor, members, call>>
  BY DEF IInv, TypeOK, BeginDeletion, Hold, tables, LastAfter
<1>2. e \in Entity /\ members \in [User -> Member]
  BY DEF IInv, TypeOK
<1>3. \A u \in User : /\ rows[u].last = LastAfter(e, u)
                      /\ rows[u].seen = members[u].seen
  BY <1>2 DEF Member
<1> HIDE DEF rows, mine
<1>4. entity'[r].members = rows /\ entity'[r].touched = mine
  BY <1>1, <1>2 DEF Entity
<1> QED
  BY <1>1, <1>3, <1>4 DEF mine

(* ... and a read receipt.                                                 *)
LEMMA ConversationReads ==
  ASSUME IInv, NEW r \in Request, LoadConversation(r), NEW u \in User
  PROVE  LET row == entity'[r].members[u]
         IN  /\ row.last = members[u].last
             /\ \/ row.seen = members[u].seen
                \/ StoredIn(row.seen, messages)
             /\ UNCHANGED <<messages, deletedFor, members, call>>
<1> DEFINE rows == [members EXCEPT ![call[r].user].seen = call[r].target]
           e == [NoEntity EXCEPT !.id = call[r].target, !.members = rows,
                                 !.touched = User]
<1>1. /\ entity'[r] = e
      /\ UNCHANGED <<messages, deletedFor, members, call>>
  BY DEF IInv, TypeOK, LoadConversation, Hold, tables
<1>2. StoredIn(call[r].target, messages)
  BY DEF IInv, RequestOK, CallOK, Marking, LoadConversation, Stored, StoredIn
<1>3. /\ rows[u].last = members[u].last
      /\ rows[u].seen = members[u].seen \/ rows[u].seen = call[r].target
  BY DEF IInv, TypeOK, Member
<1> HIDE DEF rows
<1>4. e.members = rows
  BY DEF NoEntity
<1> HIDE DEF e
<1> QED
  BY <1>1, <1>2, <1>3, <1>4

(* What the members have seen is stored, and what is about to be written   *)
(* of it, but for a message on its way that its sender has seen.           *)
SeenOK(r, u) ==
  LET seen == entity[r].members[u].seen
  IN  pc[r] \in {"saveMessage", "saveDeletion", "saveConversation"} =>
        \/ seen = 0 \/ StoredIn(seen, messages)
        \/ /\ pc[r] = "saveMessage" /\ u = call[r].user
           /\ seen = entity[r].id

(* A step of a request reads no id that is not stored ...                  *)
LEMMA SeenRead ==
  ASSUME IInv, SeenStored, [Next]_vars, NEW q \in Request, NEW u \in User
  PROVE  SeenOK(q, u)'
<1> SUFFICES ASSUME pc'[q] \in {"saveMessage", "saveDeletion",
                                "saveConversation"}
             PROVE  SeenOK(q, u)'
  BY DEF SeenOK
<1>1. members[u].seen = 0 \/ StoredIn(members[u].seen, messages)
  BY DEF SeenStored, Stored, StoredIn
<1>2. CASE Rests(q)
  <2>1. SeenOK(q, u)
    BY DEF SeenStored, SeenOK, Stored, StoredIn
  <2> QED
    BY <1>2, <2>1, StoredStays DEF SeenOK, Rests
<1>3. CASE ~Rests(q)
  <2>1. InsertMessage(q) \/ BeginDeletion(q) \/ LoadConversation(q)
    BY <1>3, WaitsToSend, WaitsToWrite
  <2>2. CASE InsertMessage(q)
    <3>1. pc'[q] = "saveMessage"
      BY <2>2, GoesOnWriting, AloneAt
    <3> QED
      BY <1>1, <2>2, <3>1, InsertReads DEF SeenOK
  <2>3. CASE BeginDeletion(q)
    BY <1>1, <2>3, BeginReads DEF SeenOK
  <2>4. CASE LoadConversation(q)
    BY <1>1, <2>4, ConversationReads DEF SeenOK
  <2> QED
    BY <2>1, <2>2, <2>3, <2>4
<1> QED
  BY <1>2, <1>3

(* ... and commits none.                                                   *)
LEMMA SeenNext ==
  ASSUME IInv, SeenStored, [Next]_vars
  PROVE  SeenStored'
<1>1. ASSUME NEW u \in User, members'[u].seen # 0
      PROVE  StoredIn(members'[u].seen, messages')
  <2>1. CASE members' = members
    BY <1>1, <2>1, StoredStays DEF SeenStored, Stored, StoredIn
  <2>2. CASE members' # members
    <3>1. Next
      BY <2>2 DEF vars
    <3>2. PICK r \in Request :
                 SaveMessage(r) \/ SaveDeletion(r) \/ SaveConversation(r)
      BY <2>2, <3>1, MemberWrites
    <3>3. \/ members'[u] = entity[r].members[u]
          \/ members'[u] = members[u]
      BY <3>2 DEF SaveMessage, SaveDeletion, SaveConversation
    <3>4. SeenOK(r, u)
      BY DEF SeenStored, SeenOK, Stored, StoredIn
    <3>5. /\ pc[r] \in {"saveMessage", "saveDeletion", "saveConversation"}
          /\ pc[r] = "saveMessage" => SaveMessage(r)
      BY <3>2 DEF SaveMessage, SaveDeletion, SaveConversation
    <3>6. CASE members'[u] = members[u]
      BY <1>1, <3>6, StoredStays DEF SeenStored, Stored, StoredIn
    <3>7. CASE members'[u] = entity[r].members[u]
      <4>1. CASE StoredIn(members'[u].seen, messages)
        BY <4>1, StoredStays
      <4>2. CASE SaveMessage(r) /\ members'[u].seen = entity[r].id
        BY <4>2, SavedRow DEF StoredIn
      <4> QED
        BY <1>1, <3>4, <3>5, <3>7, <4>1, <4>2 DEF SeenOK
    <3> QED
      BY <3>3, <3>6, <3>7
  <2> QED
    BY <2>1, <2>2
<1> QED
  BY <1>1, SeenRead DEF SeenStored, SeenOK, Stored, StoredIn

(* Nobody has seen anything before the first request.                      *)
LEMMA SeenInit == Init => SeenStored
BY DEF Init, SeenStored

(* Whatever overlaps, a member has only seen messages that exist: the      *)
(* unread count of a member compares with an id that is stored.            *)
THEOREM SeenExists == Spec => []SeenStored
BY Invariance, SeenInit, SeenNext, PTL DEF Spec

(* And no message is on its way before the first request.                  *)
LEMMA MintedInit == Init => NewestMinted
BY DEF Init, NewestMinted

(* What the members have seen is older than a message on its way, as long  *)
(* as no other send is under way: the message comes in unread by all but   *)
(* its sender.                                                             *)
THEOREM NewIsUnread == Spec /\ []SendsApart => ArrivesUnread
<1>1. IInv /\ NewestMinted /\ SendsApart' /\ [Next]_vars => NewestMinted'
  BY NewestMintedNext
<1>2. IInv /\ SeenStored /\ NewestMinted /\ [Next]_vars
        => [\A m \in Id, u \in User :
              /\ messages[m].status = "none" /\ messages'[m].status # "none"
              /\ u # messages'[m].sender
              => m > members'[u].seen]_messages
  <2> SUFFICES ASSUME IInv, SeenStored, NewestMinted, Next,
                      messages' # messages,
                      NEW m \in Id, NEW u \in User,
                      messages[m].status = "none",
                      messages'[m].status # "none",
                      u # messages'[m].sender
               PROVE  m > members'[u].seen
    BY DEF vars
  <2>1. PICK r \in Request : SaveMessage(r)
    <3>1. PICK r \in Request :
                 SaveMessage(r) \/ UpdateMessage(r) \/ SaveDeletion(r)
      BY Commits
    <3>2. ~UpdateMessage(r)
      BY EditedRow
    <3>3. ~SaveDeletion(r)
      BY RemovedRow
    <3> QED
      BY <3>1, <3>2, <3>3
  <2>2. m = entity[r].id /\ u # call[r].user
    BY <2>1, SavedRow
  <2>3. /\ m = lastId /\ pc[r] = "saveMessage"
        /\ members'[u].seen = entity[r].members[u].seen
    BY <2>1, <2>2 DEF NewestMinted, SaveMessage
  <2>4. SeenOK(r, u)
    BY DEF SeenStored, SeenOK, Stored, StoredIn
  <2>5. CASE members'[u].seen = 0
    BY <2>5 DEF Id
  <2>6. CASE StoredIn(members'[u].seen, messages)
    <3>1. members'[u].seen <= lastId /\ members'[u].seen # m
      BY <2>6 DEF IInv, TableOK, StoredIn
    <3> QED
      BY <2>3, <2>6, <3>1 DEF Id, StoredIn
  <2> QED
    BY <2>2, <2>3, <2>4, <2>5, <2>6 DEF SeenOK
<1> QED
  BY <1>1, <1>2, Invariance, SeenExists, MintedInit, PTL
  DEF Spec, ArrivesUnread
----------------------------------------------------------------------------
(* Writes of the member rows that do not overlap.  The rows a request has  *)
(* read are still in the table when it commits ...                         *)
LEMMA WriterAlone ==
  ASSUME IInv, WritersApart, Next, NEW q \in Request, Rests(q), Writing(q)
  PROVE  /\ members' = members
         /\ \A r \in Request : ~SaveMessage(r) /\ ~SaveDeletion(r)
<1>1. ASSUME NEW r \in Request,
             SaveMessage(r) \/ SaveDeletion(r) \/ SaveConversation(r)
      PROVE  FALSE
  <2>1. pc[r] # "publish" /\ pc'[r] = "publish"
    BY <1>1, GoesOnWriting, AloneAt
    DEF SaveMessage, SaveDeletion, SaveConversation
  <2>2. r = q
    BY <1>1
    DEF WritersApart, Writing, SaveMessage, SaveDeletion, SaveConversation
  <2> QED
    BY <2>1, <2>2 DEF Rests
<1> QED
  BY <1>1, MemberWrites

(* The tables a deletion with entity e makes of msgs and dfor.             *)
MsgsAfter(msgs, e) == [msgs EXCEPT ![e.id].status =
                         IF e.deleted THEN "tombstone" ELSE "live"]
DforAfter(dfor, e) == [dfor EXCEPT ![e.id] = @ \cup e.hidden]

(* An edit in between changes no status, and so nothing of what a deletion *)
(* will make the last messages ...                                         *)
LEMMA AfterStays ==
  ASSUME NEW e, e.id \in Id, NEW u, NEW dfor,
         NEW msgs \in [Id -> Message], NEW msgs2 \in [Id -> Message],
         \A m \in Id : msgs2[m].status = msgs[m].status
  PROVE  Newest(u, MsgsAfter(msgs2, e), DforAfter(dfor, e))
           = Newest(u, MsgsAfter(msgs, e), DforAfter(dfor, e))
<1>1. ASSUME NEW m \in Id
      PROVE  MsgsAfter(msgs2, e)[m].status = MsgsAfter(msgs, e)[m].status
  <2>1. CASE m = e.id
    BY <2>1 DEF MsgsAfter, Message
  <2>2. CASE m # e.id
    BY <2>2 DEF MsgsAfter
  <2> QED
    BY <2>1, <2>2
<1>2. \A m \in Id : Shows(u, MsgsAfter(msgs2, e), DforAfter(dfor, e), m)
                  <=> Shows(u, MsgsAfter(msgs, e), DforAfter(dfor, e), m)
  BY <1>1 DEF Shows
<1> QED
  BY <1>2, NewestSame

(* ... so that what a request holds of the member rows stays right while   *)
(* another one moves.                                                      *)
LEMMA LastsStay ==
  ASSUME IInv, \A r \in Request : LastsHold(r), WritersApart, [Next]_vars,
         NEW q \in Request, Rests(q)
  PROVE  LastsHold(q)'
<1> SUFFICES ASSUME pc[q] \in {"saveMessage", "saveDeletion",
                               "saveConversation"}
             PROVE  LastsHold(q)'
  BY DEF LastsHold, Rests
<1>1. /\ members' = members
      /\ \A r \in Request : ~SaveMessage(r) /\ ~SaveDeletion(r)
      /\ messages' # messages \/ deletedFor' # deletedFor
           => \E r \in Request : UpdateMessage(r)
  <2>1. CASE Next
    <3>1. /\ members' = members
          /\ \A r \in Request : ~SaveMessage(r) /\ ~SaveDeletion(r)
      BY <2>1, WriterAlone DEF Writing
    <3> QED
      BY <2>1, <3>1, Commits
  <2>2. CASE UNCHANGED vars
    BY <2>2, GoesOnWriting, AloneAt DEF vars, SaveMessage, SaveDeletion
  <2> QED
    BY <2>1, <2>2
<1>2. /\ deletedFor' = deletedFor
      /\ \A m \in Id : messages'[m].status = messages[m].status
  BY <1>1, EditedRow DEF UpdateMessage
<1>3. LastsHold(q)
  OBVIOUS
<1>4. CASE pc[q] # "saveDeletion"
  BY <1>1, <1>3, <1>4 DEF LastsHold, Rests
<1>5. CASE pc[q] = "saveDeletion"
  <2> DEFINE e == entity[q]
  <2>1. e.id \in Id
    BY <1>5 DEF IInv, RequestOK, CallOK, EntityOK, Deleting, Stored
  <2>2. messages \in [Id -> Message] /\ messages' \in [Id -> Message]
    BY IInvNext DEF IInv, TypeOK
  <2>3. entity'[q] = e /\ pc'[q] = "saveDeletion"
    BY <1>5 DEF Rests
  <2>4. ASSUME NEW u \in User
        PROVE  /\ LastAfter(entity[q], u)
                    = Newest(u, MsgsAfter(messages, e),
                             DforAfter(deletedFor, e))
               /\ LastAfter(entity[q], u)'
                    = Newest(u, MsgsAfter(messages', entity'[q]),
                             DforAfter(deletedFor', entity'[q]))
    BY DEF LastAfter, MessagesAfter, DeletedForAfter, MsgsAfter, DforAfter
  <2> HIDE DEF e
  <2>5. ASSUME NEW u \in User
        PROVE  LastAfter(entity[q], u)' = LastAfter(entity[q], u)
    BY <1>2, <2>1, <2>2, <2>3, <2>4, AfterStays
  <2>6. /\ \A u \in User : e.members[u].last = LastAfter(entity[q], u)
        /\ e.touched = {u \in User : members[u].last = e.id}
    BY <1>3, <1>5 DEF LastsHold, e
  <2> QED
    BY <1>1, <2>3, <2>5, <2>6 DEF LastsHold
<1> QED
  BY <1>4, <1>5

(* What a request has just read and computed of them holds.                *)
LEMMA LastsRead ==
  ASSUME IInv, [Next]_vars, NEW q \in Request, ~Rests(q)
  PROVE  LastsHold(q)'
<1>1. CASE pc'[q] = "saveMessage"
  <2>1. InsertMessage(q)
    BY <1>1, WaitsToSend
  <2> QED
    BY <1>1, <2>1, InsertReads DEF LastsHold
<1>2. CASE pc'[q] = "saveDeletion"
  <2>1. BeginDeletion(q)
    BY <1>2, WaitsToWrite
  <2> DEFINE e == entity[q]
             f == entity'[q]
  <2>2. /\ f.id = e.id /\ f.deleted = e.deleted /\ f.hidden = e.hidden
        /\ \A u \in User : f.members[u].last = LastAfter(entity[q], u)
        /\ f.touched = {u \in User : members[u].last = e.id}
        /\ UNCHANGED <<messages, deletedFor, members>>
    BY <2>1, DeletionReads, BeginReads
  <2>3. ASSUME NEW u \in User
        PROVE  /\ LastAfter(entity[q], u)
                    = Newest(u, MsgsAfter(messages, e),
                             DforAfter(deletedFor, e))
               /\ LastAfter(entity[q], u)'
                    = Newest(u, MsgsAfter(messages', f),
                             DforAfter(deletedFor', f))
    BY DEF LastAfter, MessagesAfter, DeletedForAfter, MsgsAfter, DforAfter
  <2> HIDE DEF e, f
  <2>4. /\ MsgsAfter(messages', f) = MsgsAfter(messages, e)
        /\ DforAfter(deletedFor', f) = DforAfter(deletedFor, e)
    BY <2>2 DEF MsgsAfter, DforAfter
  <2>5. ASSUME NEW u \in User
        PROVE  LastAfter(entity[q], u)' = LastAfter(entity[q], u)
    BY <2>3, <2>4
  <2> QED
    BY <1>2, <2>2, <2>5 DEF LastsHold, f
<1>3. CASE pc'[q] = "saveConversation"
  <2>1. LoadConversation(q)
    BY <1>3, WaitsToWrite
  <2> QED
    BY <1>3, <2>1, ConversationReads DEF LastsHold
<1> QED
  BY <1>1, <1>2, <1>3 DEF LastsHold
(* The message a send commits is the newest of those who see it, and it    *)
(* changes nothing for the others ...                                      *)
LEMMA ExactAfterSave ==
  ASSUME IInv, NewestMinted, LastExact, NEW r \in Request, LastsHold(r),
         SaveMessage(r)
  PROVE  LastExact'
<1> SUFFICES ASSUME NEW u \in User
             PROVE  members'[u].last = Newest(u, messages', deletedFor')
  BY DEF LastExact
<1> DEFINE e == entity[r]
<1>1. /\ e.id = lastId /\ members' = e.members
      /\ e.members[u].last = IF u \in e.hidden THEN members[u].last ELSE e.id
  BY DEF NewestMinted, LastsHold, SaveMessage
<1>2. /\ e.id \in Id /\ messages[e.id].status = "none"
      /\ messages'[e.id].status = "live" /\ deletedFor'[e.id] = e.hidden
      /\ \A m \in Id \ {e.id} : /\ messages'[m] = messages[m]
                                /\ deletedFor'[m] = deletedFor[m]
  BY SavedRow
<1> HIDE DEF e
<1>3. CASE u \in e.hidden
  <2>1. \A m \in Id : Shows(u, messages', deletedFor', m)
                        <=> Shows(u, messages, deletedFor, m)
    BY <1>2, <1>3 DEF Shows
  <2>2. Newest(u, messages', deletedFor') = Newest(u, messages, deletedFor)
    BY <2>1, NewestSame
  <2> QED
    BY <1>1, <1>3, <2>2 DEF LastExact
<1>4. CASE u \notin e.hidden
  <2>1. Shows(u, messages', deletedFor', e.id)
    BY <1>2, <1>4 DEF Shows
  <2>2. ASSUME NEW k \in Id, Shows(u, messages', deletedFor', k)
        PROVE  k <= e.id
    <3>1. CASE k = e.id
      BY <1>2, <3>1 DEF Id
    <3>2. CASE k # e.id
      <4>1. messages[k].status # "none"
        BY <1>2, <2>2, <3>2 DEF Shows
      <4> QED
        BY <1>1, <4>1 DEF IInv, TableOK
    <3> QED
      BY <3>1, <3>2
  <2>3. e.id \in Tops(u, messages', deletedFor')
    BY <1>2, <2>1, <2>2 DEF Tops
  <2> QED
    BY <1>1, <1>4, <2>3, OneTop
<1> QED
  BY <1>3, <1>4

(* ... a deletion replaces the last message of the members it takes it     *)
(* from, and takes nothing of what the others have ...                     *)
LEMMA ExactAfterDelete ==
  ASSUME IInv, TombstonesKnown, LastExact, NEW r \in Request, LastsHold(r),
         SaveDeletion(r)
  PROVE  LastExact'
<1> SUFFICES ASSUME NEW u \in User
             PROVE  members'[u].last = Newest(u, messages', deletedFor')
  BY DEF LastExact
<1> DEFINE e == entity[r]
<1>1. /\ members'[u] = IF u \in e.touched THEN e.members[u] ELSE members[u]
      /\ e.members[u].last = LastAfter(entity[r], u)
      /\ e.touched = {v \in User : members[v].last = e.id}
      /\ LastAfter(entity[r], u) = Newest(u, messages', deletedFor')
      /\ messages[e.id].status = "tombstone" => e.deleted
  BY DEF SaveDeletion, LastsHold, LastAfter, TombstonesKnown
<1>2. /\ e.id \in Id /\ messages[e.id].status # "none"
      /\ messages'[e.id].status = IF e.deleted THEN "tombstone" ELSE "live"
      /\ \A m \in Id \ {e.id} : /\ messages'[m] = messages[m]
                                /\ deletedFor'[m] = deletedFor[m]
  BY RemovedRow
<1>3. \A m \in Id : KeepsRow(m)
  BY SaveDeletionStep
<1> HIDE DEF e
<1>4. messages'[e.id].status = "live" => messages[e.id].status = "live"
  <2>1. messages[e.id].status \in {"none", "live", "tombstone"}
    BY <1>2 DEF IInv, TypeOK, Message
  <2> QED
    BY <1>1, <1>2, <2>1
<1>5. CASE members[u].last = e.id
  BY <1>1, <1>5
<1>6. CASE members[u].last # e.id
  <2>1. members'[u] = members[u]
    BY <1>1, <1>6
  <2>2. members[u].last = Newest(u, messages, deletedFor)
    BY DEF LastExact
  <2>3. \A m \in Id \ {e.id} : Shows(u, messages', deletedFor', m)
                                 <=> Shows(u, messages, deletedFor, m)
    BY <1>2 DEF Shows
  <2>4. Shows(u, messages', deletedFor', e.id)
          => Shows(u, messages, deletedFor, e.id)
    BY <1>2, <1>3, <1>4 DEF Shows, KeepsRow
  <2>5. Newest(u, messages', deletedFor') = Newest(u, messages, deletedFor)
    BY <1>2, <1>6, <2>2, <2>3, <2>4, NewestStays
  <2> QED
    BY <2>1, <2>2, <2>5
<1> QED
  BY <1>5, <1>6

(* ... and no other commit touches what it is told by.                     *)
LEMMA ExactNext ==
  ASSUME IInv, LastInv, WritersApart, [Next]_vars
  PROVE  LastExact'
<1>1. ASSUME NEW r \in Request, SaveMessage(r) PROVE LastExact'
  BY <1>1, ExactAfterSave DEF LastInv
<1>2. ASSUME NEW r \in Request, SaveDeletion(r) PROVE LastExact'
  BY <1>2, ExactAfterDelete DEF LastInv
<1>3. ASSUME \A r \in Request : ~SaveMessage(r) /\ ~SaveDeletion(r)
      PROVE  LastExact'
  <2> SUFFICES ASSUME NEW u \in User
               PROVE  members'[u].last = Newest(u, messages', deletedFor')
    BY DEF LastExact
  <2>1. members'[u].last = members[u].last
    <3>1. CASE members' # members
      <4>1. Next
        BY <3>1 DEF vars
      <4>2. PICK r \in Request : SaveConversation(r)
        BY <1>3, <3>1, <4>1, MemberWrites
      <4> QED
        BY <4>2 DEF SaveConversation, LastInv, LastsHold
    <3> QED
      BY <3>1
  <2>2. /\ deletedFor' = deletedFor
        /\ \A m \in Id : messages'[m].status = messages[m].status
    <3>1. CASE messages' # messages \/ deletedFor' # deletedFor
      <4>1. Next
        BY <3>1 DEF vars
      <4>2. PICK r \in Request : UpdateMessage(r)
        BY <1>3, <3>1, <4>1, Commits
      <4> QED
        BY <4>2, EditedRow DEF UpdateMessage
    <3> QED
      BY <3>1
  <2>3. \A m \in Id : Shows(u, messages', deletedFor', m)
                        <=> Shows(u, messages, deletedFor, m)
    BY <2>2 DEF Shows
  <2>4. Newest(u, messages', deletedFor') = Newest(u, messages, deletedFor)
    BY <2>3, NewestSame
  <2> QED
    BY <2>1, <2>4 DEF LastInv, LastExact
<1> QED
  BY <1>1, <1>2, <1>3

(* Before the first request nobody has a last message.                     *)
LEMMA LastInit == Init => LastInv
<1> SUFFICES ASSUME Init PROVE LastInv
  OBVIOUS
<1>1. \A m \in Id : messages[m].status = "none"
  BY DEF Init, NoMessage
<1>2. \A u \in User : Tops(u, messages, deletedFor) = {}
  BY <1>1 DEF Tops, Shows
<1>3. LastExact
  BY <1>2, NewestTop DEF Init, LastExact, AnyOf
<1>4. \A r \in Request : LastsHold(r)
  BY DEF Init, LastsHold
<1> QED
  BY <1>3, <1>4, MintedInit, KnownInit DEF LastInv

(* The last message of every member is the newest message that is neither  *)
(* deleted nor hidden from the member, as long as no two sends, deletions  *)
(* or read receipts that write the member rows are under way at once: what *)
(* saveMessage writes and what saveMessageDeletion recomputes agree.       *)
THEOREM LastMessageIsExact == Spec /\ []WritersApart => []LastMessageExact
<1>1. WritersApart => SendsApart /\ DeletionsApart
  BY DEF WritersApart, SendsApart, DeletionsApart, Writing
<1>2. WritersApart' => SendsApart'
  BY DEF WritersApart, SendsApart, Writing
<1>3. IInv /\ LastInv /\ WritersApart /\ WritersApart' /\ [Next]_vars
        => LastInv'
  <2> SUFFICES ASSUME IInv, LastInv, WritersApart, WritersApart',
                      [Next]_vars
               PROVE  LastInv'
    OBVIOUS
  <2>1. NewestMinted'
    BY <1>2, NewestMintedNext DEF LastInv
  <2>2. TombstonesKnown'
    BY <1>1, KnownNext DEF LastInv
  <2>3. \A r \in Request : LastsHold(r)'
    BY LastsStay, LastsRead DEF LastInv
  <2> QED
    BY <2>1, <2>2, <2>3, ExactNext DEF LastInv
<1>4. LastInv => LastMessageExact
  BY DEF LastInv, LastExact, LastMessageExact
<1> QED
  BY <1>3, <1>4, Invariance, LastInit, PTL DEF Spec

----------------------------------------------------------------------------
(* Handlers that run one at a time overlap in none of these ways.          *)
LEMMA OneSlotApart ==
  ASSUME \A r, q \in Request : r = q
  PROVE  /\ DeletionsApart /\ EditsApart /\ KeysApart /\ SendsApart
         /\ WritersApart
BY DEF DeletionsApart, EditsApart, KeysApart, SendsApart, WritersApart

(* So with one request slot, as in a process that takes one request after  *)
(* the other, all of this holds without a further hypothesis.              *)
THEOREM OneAtATime ==
  ASSUME \A r, q \in Request : r = q
  PROVE  Spec => /\ []LastMessageExact /\ []NoGhostBroadcast
                 /\ TombstoneIsFinal /\ TombstoneIsFrozen /\ ArrivesUnread
<1>1. /\ DeletionsApart /\ EditsApart /\ KeysApart /\ SendsApart
      /\ WritersApart
  BY OneSlotApart
<1> QED
  BY <1>1, LastMessageIsExact, AnnouncedExists, DeletedStaysDeleted,
     DeletedIsFrozen, NewIsUnread, PTL
=============================================================================
