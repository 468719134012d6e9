----------------------------- MODULE Messaging -----------------------------
(***************************************************************************)
(* The messages of one direct conversation: the command handlers of the    *)
(* chat module (send, edit, delete, mark as seen), the Postgres tables     *)
(* they share, the domain events they commit and the WebSocket handlers    *)
(* that turn an event into notices in the members' rooms.                  *)
(*                                                                         *)
(* A request is an execution of one handler.  Every await of the handler   *)
(* is a point where other requests, of the same process or of another      *)
(* instance, may run; one action stands for the code between two awaits.   *)
(* A database transaction is a read step and an atomic commit step: under  *)
(* READ COMMITTED what the transaction read may be old when it commits.    *)
(***************************************************************************)
EXTENDS Naturals, FiniteSets

CONSTANTS User,         \* the members of the conversation
          Text,         \* message texts
          ClientId,     \* clientMessageIds a client may attach to a send
          None,         \* "no text", "no client id", "no sender"
          Request,      \* slots for handlers running at the same time
          MaxRequests,  \* bound on the requests received
          MaxMessages,  \* bound on the message ids minted
          Failures      \* whether handlers and event handlers may fail

ASSUME MessagingAssumption ==
  /\ None \notin User \cup Text \cup ClientId
  /\ MaxRequests \in Nat
  /\ MaxMessages \in Nat
  /\ MaxRequests <= MaxMessages  \* so that the bound on ids blocks no send
  /\ Failures \in BOOLEAN

VARIABLES
  messages,    \* table chat.messages, by id
  deletedFor,  \* table chat.deleted_messages: who no longer sees the message
  members,     \* table chat.conversation_members, by user
  lastId,      \* the greatest message id minted so far
  pc,          \* what a request waits for
  call,        \* the arguments of a request
  entity,      \* the in-memory entity of a request
  events,      \* domain events published and not yet handled
  inbox,       \* notices broadcast to the room of each user
  acks,        \* answers to the sends that carried a client id
  received     \* number of requests received

tables == <<messages, deletedFor, members>>
vars == <<messages, deletedFor, members, lastId, pc, call, entity,
          events, inbox, acks, received>>

----------------------------------------------------------------------------
(* Ids are uuidv7, ordered by creation: a number stands for an id and for  *)
(* its created_at.  0 is NULL.                                             *)
Id == 1 .. MaxMessages
IdOrNull == 0 .. MaxMessages

(* A row of chat.messages.  "tombstone" is a row whose deleted_at is set.  *)
(* shadow is a history field: the deletedForUserIds the message was        *)
(* created with.                                                           *)
Message == [status : {"none", "live", "tombstone"},
            sender : User \cup {None},
            text   : Text \cup {None},
            cid    : ClientId \cup {None},
            shadow : SUBSET User]
NoMessage == [status |-> "none", sender |-> None, text |-> None,
              cid |-> None, shadow |-> {}]

Member == [last : IdOrNull, seen : IdOrNull]

Operation == {"send", "edit", "deleteForMe", "deleteForEveryone", "seen"}
Call == [op : Operation \cup {"none"}, user : User \cup {None},
         text : Text \cup {None}, cid : ClientId \cup {None},
         target : IdOrNull, shadow : SUBSET User]
NoCall == [op |-> "none", user |-> None, text |-> None, cid |-> None,
           target |-> 0, shadow |-> {}]

(* What a handler holds in memory across its awaits: the message (id,      *)
(* text, deletedAt, deletedForUserIds), whether an uncommitted domain      *)
(* event was applied to it, the id the repository returned, and the member *)
(* rows read, of which those of "touched" will be saved.                   *)
Entity == [id : IdOrNull, text : Text \cup {None}, deleted : BOOLEAN,
           hidden : SUBSET User, applied : BOOLEAN, saved : IdOrNull,
           members : [User -> Member], touched : SUBSET User]
NoEntity == [id |-> 0, text |-> None, deleted |-> FALSE, hidden |-> {},
             applied |-> FALSE, saved |-> 0,
             members |-> [u \in User |-> [last |-> 0, seen |-> 0]],
             touched |-> {}]

Label == {"idle", "findClientId", "loadReply", "create", "insert",
          "saveMessage", "loadExisting", "loadEdit", "updateMessage",
          "loadDelete", "beginDeletion", "saveDeletion",
          "loadConversation", "saveConversation", "publish"}

Event == [kind : {"created", "edited", "deletedForMe", "deletedForEveryone"},
          msg : Id, text : Text \cup {None}, actor : User,
          hidden : SUBSET User]
Notice == [kind : {"created", "edited", "deletedForMe",
                   "deletedForEveryone", "seen"},
           msg : Id, text : Text \cup {None}]
Ack == [user : User, cid : ClientId, msg : Id]

TypeOK ==
  /\ messages \in [Id -> Message]
  /\ deletedFor \in [Id -> SUBSET User]
  /\ members \in [User -> Member]
  /\ lastId \in IdOrNull
  /\ pc \in [Request -> Label]
  /\ call \in [Request -> Call]
  /\ entity \in [Request -> Entity]
  /\ events \subseteq Event
  /\ inbox \in [User -> SUBSET Notice]
  /\ acks \subseteq Ack
  /\ received \in 0 .. MaxRequests

Init ==
  /\ messages = [m \in Id |-> NoMessage]
  /\ deletedFor = [m \in Id |-> {}]
  /\ members = [u \in User |-> [last |-> 0, seen |-> 0]]
  /\ lastId = 0
  /\ pc = [r \in Request |-> "idle"]
  /\ call = [r \in Request |-> NoCall]
  /\ entity = [r \in Request |-> NoEntity]
  /\ events = {}
  /\ inbox = [u \in User |-> {}]
  /\ acks = {}
  /\ received = 0

----------------------------------------------------------------------------
(* Reads.                                                                  *)

Stored(m) == m \in Id /\ messages[m].status # "none"

(* getMessageByClientMessageId *)
RowsOf(u, c) == {m \in Id : /\ messages[m].status # "none"
                            /\ messages[m].sender = u
                            /\ messages[m].cid = c}

(* The newest message of msgs that is not a tombstone and that dfor does   *)
(* not hide from u; 0 when there is none.                                  *)
Newest(u, msgs, dfor) ==
  LET visible == {m \in Id : msgs[m].status = "live" /\ u \notin dfor[m]}
      newest == {m \in visible : \A k \in visible : k <= m}
  IN  IF newest = {} THEN 0 ELSE CHOOSE m \in newest : TRUE

(* The row of m is locked by a deletion between its UPDATE and its COMMIT. *)
RowLocked(m) == \E r \in Request : pc[r] = "saveDeletion" /\ entity[r].id = m

(* Mutant of KeyPending: an INSERT waits for an equal key that another      *)
(* request is only about to insert, so that two of them wait for each      *)
(* other.                                                                  *)
KeyPendingEarly(r) == \E q \in Request \ {r} :
  /\ pc[q] \in {"insert", "saveMessage"}
  /\ call[q].user = call[r].user
  /\ call[q].cid = call[r].cid

(* A transaction that has not committed yet inserted the same key of the   *)
(* index (conversation_id, sender_id, client_message_id).                  *)
KeyPending(r) == \E q \in Request \ {r} : /\ pc[q] = "saveMessage"
                                          /\ call[q].user = call[r].user
                                          /\ call[q].cid = call[r].cid

----------------------------------------------------------------------------
(* The life of a request.                                                  *)

Goto(r, l) == pc' = [pc EXCEPT ![r] = l]
Hold(r, e) == entity' = [entity EXCEPT ![r] = e]

(* The handler returns or throws, and the slot is free again.              *)
Finish(r) == /\ Goto(r, "idle")
             /\ call' = [call EXCEPT ![r] = NoCall]
             /\ Hold(r, NoEntity)

Reject(r) == /\ Finish(r)
             /\ UNCHANGED <<tables, lastId, events, inbox, acks, received>>

Receive(r, c, l) ==
  /\ pc[r] = "idle"
  /\ received < MaxRequests
  /\ received' = received + 1
  /\ call' = [call EXCEPT ![r] = c]
  /\ Goto(r, l)
  /\ UNCHANGED <<tables, lastId, entity, events, inbox, acks>>

(* ChatWsGateway.createMessage: the block status it read decides whether   *)
(* the other members are in deletedForUserIds (shadow).                    *)
ReceiveSend(r, u, t, c, reply, shadow) ==
  /\ shadow \in {{}, User \ {u}}
  /\ reply # 0 => Stored(reply)
  /\ Receive(r, [op |-> "send", user |-> u, text |-> t, cid |-> c,
                 target |-> reply, shadow |-> shadow],
             IF c # None THEN "findClientId"
             ELSE IF reply # 0 THEN "loadReply" ELSE "create")

(* ChatWsGateway.editMessage *)
ReceiveEdit(r, u, m, t) ==
  /\ Stored(m)
  /\ Receive(r, [op |-> "edit", user |-> u, text |-> t, cid |-> None,
                 target |-> m, shadow |-> {}], "loadEdit")

(* ChatWsGateway.deleteMessage *)
ReceiveDelete(r, u, m, scope) ==
  /\ Stored(m)
  /\ Receive(r, [op |-> scope, user |-> u, text |-> None, cid |-> None,
                 target |-> m, shadow |-> {}], "loadDelete")

(* ChatWsGateway.markMessageAsSeen *)
ReceiveSeen(r, u, m) ==
  /\ Stored(m)
  /\ Receive(r, [op |-> "seen", user |-> u, text |-> None, cid |-> None,
                 target |-> m, shadow |-> {}], "loadConversation")

----------------------------------------------------------------------------
(* CreateMessageHandler.                                                   *)

AfterLookup(r) == IF call[r].target # 0 THEN "loadReply" ELSE "create"

(* Mutant of Answer: sends without a client id are recorded as well.       *)
AnswerAnyKey(r, m) ==
  acks' = acks \cup {[user |-> call[r].user, cid |-> call[r].cid, msg |-> m]}

Answer(r, m) ==
  acks' = IF call[r].cid = None THEN acks
          ELSE acks \cup {[user |-> call[r].user, cid |-> call[r].cid,
                           msg |-> m]}

(* Mutant of FindNoEarlierSend: the lookup is skipped.                     *)
SkipLookup(r) ==
  /\ pc[r] = "findClientId"
  /\ Goto(r, AfterLookup(r))
  /\ UNCHANGED <<tables, lastId, call, entity, events, inbox, acks, received>>

(* The lookup by client id finds no earlier send ...                       *)
FindNoEarlierSend(r) ==
  /\ pc[r] = "findClientId"
  /\ RowsOf(call[r].user, call[r].cid) = {}
  /\ Goto(r, AfterLookup(r))
  /\ UNCHANGED <<tables, lastId, call, entity, events, inbox, acks, received>>

(* ... or an earlier send with the same text, which is the answer ...      *)
FindEarlierSend(r) ==
  /\ pc[r] = "findClientId"
  /\ \E m \in RowsOf(call[r].user, call[r].cid) :
       /\ messages[m].text = call[r].text
       /\ Answer(r, m)
  /\ Finish(r)
  /\ UNCHANGED <<tables, lastId, events, inbox, received>>

(* ... or one with another text: IdempotencyConflictException.             *)
FindConflictingSend(r) ==
  /\ pc[r] = "findClientId"
  /\ \E m \in RowsOf(call[r].user, call[r].cid) :
       messages[m].text # call[r].text
  /\ Reject(r)

(* The message replied to is there, is not deleted and is not hidden from  *)
(* the sender.                                                             *)
LoadReply(r) ==
  /\ pc[r] = "loadReply"
  /\ LET m == call[r].target
     IN  IF messages[m].status = "live" /\ call[r].user \notin deletedFor[m]
         THEN /\ Goto(r, "create")
              /\ UNCHANGED <<tables, lastId, call, entity, events, inbox,
                             acks, received>>
         ELSE Reject(r)

(* MessageEntity.create mints the id and applies MessageCreatedDomainEvent *)
CreateMessage(r) ==
  /\ pc[r] = "create"
  /\ lastId < MaxMessages
  /\ lastId' = lastId + 1
  /\ Hold(r, [NoEntity EXCEPT !.id = lastId + 1, !.text = call[r].text,
                              !.hidden = call[r].shadow, !.applied = TRUE])
  /\ Goto(r, "insert")
  /\ UNCHANGED <<tables, call, events, inbox, acks, received>>

(* Mutant of InsertMessage: every member counts as having seen the message *)
(* that is sent.                                                           *)
InsertMessageSeen(r) ==
  /\ pc[r] = "insert"
  /\ call[r].cid # None => RowsOf(call[r].user, call[r].cid) = {}
  /\ LET e == entity[r]
     IN  Hold(r, [e EXCEPT
           !.members = [u \in User |->
             [last |-> IF u \in e.hidden THEN members[u].last ELSE e.id,
              seen |-> e.id]],
           !.touched = User])
  /\ Goto(r, "saveMessage")
  /\ UNCHANGED <<tables, lastId, call, events, inbox, acks, received>>

(* Mutant of InsertMessage: there is no unique index to wait on.           *)
InsertWithoutIndex(r) ==
  /\ pc[r] = "insert"
  /\ LET e == entity[r]
     IN  Hold(r, [e EXCEPT
           !.members = [u \in User |->
             [last |-> IF u \in e.hidden THEN members[u].last ELSE e.id,
              seen |-> IF u = call[r].user THEN e.id ELSE members[u].seen]],
           !.touched = User])
  /\ Goto(r, "saveMessage")
  /\ UNCHANGED <<tables, lastId, call, events, inbox, acks, received>>

(* saveMessage, up to the reading of the member rows.  The INSERT waits    *)
(* while another transaction holds the same key.  Members who do not see   *)
(* the message keep their last message; the sender has seen it.            *)
InsertMessage(r) ==
  /\ pc[r] = "insert"
  /\ call[r].cid # None => /\ RowsOf(call[r].user, call[r].cid) = {}
                           /\ ~KeyPending(r)
  /\ LET e == entity[r]
     IN  Hold(r, [e EXCEPT
           !.members = [u \in User |->
             [last |-> IF u \in e.hidden THEN members[u].last ELSE e.id,
              seen |-> IF u = call[r].user THEN e.id ELSE members[u].seen]],
           !.touched = User])
  /\ Goto(r, "saveMessage")
  /\ UNCHANGED <<tables, lastId, call, events, inbox, acks, received>>

(* saveMessage: the INSERT fails with 23505, a duplicate key.              *)
InsertConflict(r) ==
  /\ pc[r] = "insert"
  /\ call[r].cid # None
  /\ RowsOf(call[r].user, call[r].cid) # {}
  /\ Goto(r, "loadExisting")
  /\ UNCHANGED <<tables, lastId, call, entity, events, inbox, acks, received>>

(* Mutant of LoadExisting: the id of the row that was not inserted is      *)
(* returned.                                                               *)
LoadOwn(r) ==
  /\ pc[r] = "loadExisting"
  /\ Hold(r, [entity[r] EXCEPT !.saved = entity[r].id])
  /\ Goto(r, "publish")
  /\ UNCHANGED <<tables, lastId, call, events, inbox, acks, received>>

(* saveMessage, catch: the row of the earlier send is returned.            *)
LoadExisting(r) ==
  /\ pc[r] = "loadExisting"
  /\ \E m \in RowsOf(call[r].user, call[r].cid) :
       Hold(r, [entity[r] EXCEPT !.saved = m])
  /\ Goto(r, "publish")
  /\ UNCHANGED <<tables, lastId, call, events, inbox, acks, received>>

(* saveMessage: COMMIT.                                                    *)
SaveMessage(r) ==
  /\ pc[r] = "saveMessage"
  /\ LET e == entity[r]
     IN  /\ messages' = [messages EXCEPT ![e.id] =
                           [status |-> "live", sender |-> call[r].user,
                            text |-> e.text, cid |-> call[r].cid,
                            shadow |-> call[r].shadow]]
         /\ deletedFor' = [deletedFor EXCEPT ![e.id] = e.hidden]
         /\ members' = e.members
         /\ Hold(r, [e EXCEPT !.saved = e.id])
  /\ Goto(r, "publish")
  /\ UNCHANGED <<lastId, call, events, inbox, acks, received>>

----------------------------------------------------------------------------
(* EditMessageHandler.                                                     *)

(* Mutant of Loaded: loadDeletedForUserId is forgotten.                    *)
LoadedUnhidden(m) ==
  [NoEntity EXCEPT !.id = m, !.text = messages[m].text,
                   !.deleted = (messages[m].status = "tombstone"),
                   !.saved = m]

(* The entity of a message as getMessageById returns it.                   *)
Loaded(m) == [NoEntity EXCEPT !.id = m, !.text = messages[m].text,
                              !.deleted = (messages[m].status = "tombstone"),
                              !.hidden = deletedFor[m], !.saved = m]

(* Mutant of LoadForEdit: edit does not look at deletedAt.                 *)
LoadForEditUnchecked(r) ==
  /\ pc[r] = "loadEdit"
  /\ LET e == Loaded(call[r].target)
     IN  IF messages[e.id].sender = call[r].user
         THEN /\ Hold(r, [e EXCEPT !.text = call[r].text,
                                   !.applied = (call[r].text # e.text)])
              /\ Goto(r, "updateMessage")
              /\ UNCHANGED <<tables, lastId, call, events, inbox, acks,
                             received>>
         ELSE Reject(r)

(* Mutant of LoadForEdit: edit does not look who sent the message.         *)
LoadForEditAnybody(r) ==
  /\ pc[r] = "loadEdit"
  /\ LET e == Loaded(call[r].target)
     IN  IF ~e.deleted
         THEN /\ Hold(r, [e EXCEPT !.text = call[r].text,
                                   !.applied = (call[r].text # e.text)])
              /\ Goto(r, "updateMessage")
              /\ UNCHANGED <<tables, lastId, call, events, inbox, acks,
                             received>>
         ELSE Reject(r)

(* getMessageById, then MessageEntity.edit: an unchanged text applies no   *)
(* event, and is saved all the same.                                       *)
LoadForEdit(r) ==
  /\ pc[r] = "loadEdit"
  /\ LET e == Loaded(call[r].target)
     IN  IF ~e.deleted /\ messages[e.id].sender = call[r].user
         THEN /\ Hold(r, [e EXCEPT !.text = call[r].text,
                                   !.applied = (call[r].text # e.text)])
              /\ Goto(r, "updateMessage")
              /\ UNCHANGED <<tables, lastId, call, events, inbox, acks,
                             received>>
         ELSE Reject(r)

UpdateMessage(r) ==
  /\ pc[r] = "updateMessage"
  /\ ~RowLocked(entity[r].id)
  /\ messages' = [messages EXCEPT ![entity[r].id].text = entity[r].text]
  /\ Goto(r, "publish")
  /\ UNCHANGED <<deletedFor, members, lastId, call, entity, events, inbox,
                 acks, received>>

----------------------------------------------------------------------------
(* DeleteMessageHandler.                                                   *)

(* Mutant of DeletedForUser: the entity is rebuilt without its deletedAt.  *)
DeletedForUserAlive(e, u) ==
  [e EXCEPT !.hidden = @ \cup {u}, !.applied = (u \notin e.hidden),
            !.deleted = FALSE]

(* MessageEntity.deleteForUser *)
DeletedForUser(e, u) ==
  [e EXCEPT !.hidden = @ \cup {u}, !.applied = (u \notin e.hidden)]

(* MessageEntity.deleteForEveryone *)
DeletedForEveryone(e) ==
  [e EXCEPT !.deleted = TRUE, !.applied = ~e.deleted]

LoadForDelete(r) ==
  /\ pc[r] = "loadDelete"
  /\ LET e == Loaded(call[r].target)
         u == call[r].user
         continue == /\ Goto(r, "beginDeletion")
                     /\ UNCHANGED <<tables, lastId, call, events, inbox,
                                    acks, received>>
     IN  \/ /\ call[r].op = "deleteForMe"
            /\ Hold(r, DeletedForUser(e, u))
            /\ continue
         \/ /\ call[r].op = "deleteForEveryone"
            /\ messages[e.id].sender = u
            /\ Hold(r, DeletedForEveryone(e))
            /\ continue
         \/ /\ call[r].op = "deleteForEveryone"
            /\ messages[e.id].sender # u
            /\ Reject(r)

(* Mutant of DeletedForAfter: the rows of the message are replaced by      *)
(* those of the entity.                                                    *)
DeletedForReplaced(e) == [deletedFor EXCEPT ![e.id] = e.hidden]

(* The tables as a deletion sees them inside its transaction.              *)
MessagesAfter(e) == [messages EXCEPT ![e.id].status =
                       IF e.deleted THEN "tombstone" ELSE "live"]
DeletedForAfter(e) == [deletedFor EXCEPT ![e.id] = @ \cup e.hidden]

(* Mutant of BeginDeletion: the last message is recomputed for the user    *)
(* who deletes, not for the other members.                                 *)
BeginDeletionOwnRow(r) ==
  /\ pc[r] = "beginDeletion"
  /\ ~RowLocked(entity[r].id)
  /\ LET e == entity[r]
     IN  Hold(r, [e EXCEPT
           !.members = [u \in User |->
             [members[u] EXCEPT
                !.last = Newest(u, MessagesAfter(e), DeletedForAfter(e))]],
           !.touched = {u \in {call[r].user} : members[u].last = e.id}])
  /\ Goto(r, "saveDeletion")
  /\ UNCHANGED <<tables, lastId, call, events, inbox, acks, received>>

(* saveMessageDeletion, up to the recomputation of the last message of the *)
(* members who had this one.                                               *)
BeginDeletion(r) ==
  /\ pc[r] = "beginDeletion"
  /\ ~RowLocked(entity[r].id)
  /\ LET e == entity[r]
     IN  Hold(r, [e EXCEPT
           !.members = [u \in User |->
             [members[u] EXCEPT
                !.last = Newest(u, MessagesAfter(e), DeletedForAfter(e))]],
           !.touched = {u \in User : members[u].last = e.id}])
  /\ Goto(r, "saveDeletion")
  /\ UNCHANGED <<tables, lastId, call, events, inbox, acks, received>>

(* saveMessageDeletion: COMMIT.                                            *)
SaveDeletion(r) ==
  /\ pc[r] = "saveDeletion"
  /\ LET e == entity[r]
     IN  /\ messages' = MessagesAfter(e)
         /\ deletedFor' = DeletedForAfter(e)
         /\ members' = [u \in User |-> IF u \in e.touched THEN e.members[u]
                                       ELSE members[u]]
  /\ Goto(r, "publish")
  /\ UNCHANGED <<lastId, call, entity, events, inbox, acks, received>>

----------------------------------------------------------------------------
(* MarkConversationAsReadHandler.                                          *)

(* getConversationById, then markAsRead.                                   *)
LoadConversation(r) ==
  /\ pc[r] = "loadConversation"
  /\ Hold(r, [NoEntity EXCEPT
       !.id = call[r].target,
       !.members = [members EXCEPT ![call[r].user].seen = call[r].target],
       !.touched = User])
  /\ Goto(r, "saveConversation")
  /\ UNCHANGED <<tables, lastId, call, events, inbox, acks, received>>

(* saveConversation writes the member rows of the aggregate, all of them.  *)
SaveConversation(r) ==
  /\ pc[r] = "saveConversation"
  /\ members' = entity[r].members
  /\ Goto(r, "publish")
  /\ UNCHANGED <<messages, deletedFor, lastId, call, entity, events, inbox,
                 acks, received>>

----------------------------------------------------------------------------
(* message.commit() and the answer to the client.                          *)

EventOf(r) == [kind |-> CASE call[r].op = "send" -> "created"
                          [] call[r].op = "edit" -> "edited"
                          [] call[r].op = "deleteForMe" -> "deletedForMe"
                          [] OTHER -> "deletedForEveryone",
               msg |-> entity[r].id,
               text |-> IF call[r].op \in {"send", "edit"}
                        THEN entity[r].text ELSE None,
               actor |-> call[r].user,
               hidden |-> entity[r].hidden]

Publish(r) ==
  /\ pc[r] = "publish"
  /\ call[r].op # "seen"
  /\ events' = IF entity[r].applied THEN events \cup {EventOf(r)} ELSE events
  /\ Answer(r, entity[r].saved)
  /\ Finish(r)
  /\ UNCHANGED <<tables, lastId, inbox, received>>

(* markMessageAsSeen broadcasts to the rooms of all members itself.        *)
PublishSeen(r) ==
  /\ pc[r] = "publish"
  /\ call[r].op = "seen"
  /\ inbox' = [u \in User |-> inbox[u] \cup
                 {[kind |-> "seen", msg |-> entity[r].id, text |-> None]}]
  /\ Finish(r)
  /\ UNCHANGED <<tables, lastId, events, acks, received>>

----------------------------------------------------------------------------
(* The WebSocket event handlers.                                           *)

(* Mutant of CreatedRooms: the sender's own devices are left out.          *)
CreatedRoomsOthers(e) == User \ (e.hidden \cup {e.actor})

CreatedRooms(e) == (User \ e.hidden) \cup {e.actor}
EditedRooms(e) == User \ e.hidden
DeletedRooms(e) == IF e.kind = "deletedForMe" THEN {e.actor}
                   ELSE User \ e.hidden

Rooms(e) == CASE e.kind = "created" -> CreatedRooms(e)
              [] e.kind = "edited" -> EditedRooms(e)
              [] OTHER -> DeletedRooms(e)

(* Handlers are not awaited: they complete in any order.                   *)
HandleEvent(e) ==
  /\ e \in events
  /\ events' = events \ {e}
  /\ inbox' = [u \in User |->
       IF u \in Rooms(e)
       THEN inbox[u] \cup {[kind |-> e.kind, msg |-> e.msg, text |-> e.text]}
       ELSE inbox[u]]
  /\ UNCHANGED <<tables, lastId, pc, call, entity, acks, received>>

(* A query fails or the process stops: the handler ends where it is, its   *)
(* open transaction rolled back, and a published event may be handled by   *)
(* nobody.                                                                 *)
FailRequest(r) == Failures /\ pc[r] # "idle" /\ Reject(r)

LoseEvent(e) ==
  /\ Failures
  /\ e \in events
  /\ events' = events \ {e}
  /\ UNCHANGED <<tables, lastId, pc, call, entity, inbox, acks, received>>

----------------------------------------------------------------------------

Arrive(r) ==
  \E u \in User :
    \/ \E t \in Text, c \in ClientId \cup {None}, reply \in IdOrNull,
          shadow \in {{}, User \ {u}} : ReceiveSend(r, u, t, c, reply, shadow)
    \/ \E m \in Id, t \in Text : ReceiveEdit(r, u, m, t)
    \/ \E m \in Id, scope \in {"deleteForMe", "deleteForEveryone"} :
          ReceiveDelete(r, u, m, scope)
    \/ \E m \in Id : ReceiveSeen(r, u, m)

Step(r) ==
  \/ FindNoEarlierSend(r) \/ FindEarlierSend(r) \/ FindConflictingSend(r)
  \/ LoadReply(r) \/ CreateMessage(r) \/ InsertMessage(r)
  \/ InsertConflict(r) \/ LoadExisting(r) \/ SaveMessage(r)
  \/ LoadForEdit(r) \/ UpdateMessage(r)
  \/ LoadForDelete(r) \/ BeginDeletion(r) \/ SaveDeletion(r)
  \/ LoadConversation(r) \/ SaveConversation(r)
  \/ Publish(r) \/ PublishSeen(r)

Next ==
  \/ \E r \in Request : Arrive(r) \/ Step(r) \/ FailRequest(r)
  \/ \E e \in events : HandleEvent(e) \/ LoseEvent(e)

Spec == Init /\ [][Next]_vars

(* A handler that is running is resumed, and an event published is         *)
(* handled; clients need not send anything.                                *)
Fairness ==
  /\ \A r \in Request : WF_vars(Step(r))
  /\ WF_vars(\E e \in events : HandleEvent(e))

FairSpec == Spec /\ Fairness

----------------------------------------------------------------------------
(* What holds however the handlers interleave and whatever fails.          *)

(* Every answer to a send with a client id, to the first one and to its    *)
(* retries, concurrent ones included, names the same stored message: the   *)
(* lookup, the unique index and the recovery from 23505 agree.             *)
RetriesNameOneMessage ==
  \A a \in acks :
    /\ messages[a.msg].status # "none"
    /\ messages[a.msg].sender = a.user
    /\ messages[a.msg].cid = a.cid
    /\ \A b \in acks : a.user = b.user /\ a.cid = b.cid => a.msg = b.msg

(* A member from whom a message was withheld when it was sent (the member  *)
(* had blocked the sender) is never told of it: not of the message, nor of *)
(* an edit, nor of its deletion for everyone.                              *)
ShadowHolds ==
  \A u \in User : \A n \in inbox[u] :
    n.kind \in {"created", "edited", "deletedForEveryone"}
      => u \notin messages[n.msg].shadow

(* A message hidden from a member, by the sender's shadow or by the        *)
(* member's own "delete for me", stays hidden: no stale entity that a      *)
(* concurrent deletion holds brings it back.                               *)
HiddenForGood ==
  [][\A m \in Id : deletedFor[m] \subseteq deletedFor'[m]]_deletedFor

(* A message that was saved is announced to its sender and to every member *)
(* it is not withheld from, as long as nothing fails.                      *)
MessagesAreAnnounced ==
  \A m \in Id, u \in User :
    Stored(m) /\ u \notin messages[m].shadow
      ~> \E n \in inbox[u] : n.kind = "created" /\ n.msg = m

(* No handler waits for ever on the index or on a row lock.                *)
RequestsEnd == \A r \in Request : pc[r] # "idle" ~> pc[r] = "idle"

----------------------------------------------------------------------------
(* What holds while handlers run one at a time (one request slot), and is  *)
(* lost when two of them overlap.                                          *)

Quiet == \A r \in Request : pc[r] = "idle"

(* The last message of every member is the newest message that is neither  *)
(* deleted nor hidden from the member.                                     *)
LastMessageExact ==
  Quiet => \A u \in User :
             members[u].last = Newest(u, messages, deletedFor)

(* A message deleted for everyone stays deleted.                           *)
TombstoneIsFinal ==
  [][\A m \in Id : messages[m].status = "tombstone"
                     => messages'[m].status = "tombstone"]_messages

(* The text of a message deleted for everyone is no longer edited.         *)
TombstoneIsFrozen ==
  [][\A m \in Id : messages[m].status = "tombstone"
                     => messages'[m].text = messages[m].text]_messages

(* Every message announced to a member exists.                             *)
NoGhostBroadcast ==
  \A u \in User : \A n \in inbox[u] :
    n.kind = "created" => messages[n.msg].status # "none"

(* A message that comes in is unread: no member but its sender has seen    *)
(* up to it already.  A send that commits late, after a newer message was  *)
(* marked as seen, is counted as seen by a member who never saw it.        *)
ArrivesUnread ==
  [][\A m \in Id, u \in User :
       /\ messages[m].status = "none" /\ messages'[m].status # "none"
       /\ u # messages'[m].sender
       => m > members'[u].seen]_messages

----------------------------------------------------------------------------
(* The inductive invariant behind the first three properties.              *)

Sending == {"findClientId", "loadReply", "create", "insert", "saveMessage",
            "loadExisting"}
Editing == {"loadEdit", "updateMessage"}
Deleting == {"loadDelete", "beginDeletion", "saveDeletion"}
Marking == {"loadConversation", "saveConversation"}

(* A request runs the handler its arguments are for.                       *)
CallOK(r) ==
  pc[r] # "idle" =>
    /\ call[r].user \in User
    /\ call[r].user \notin call[r].shadow
    /\ call[r].op \in Operation
    /\ pc[r] \in Sending => call[r].op = "send"
    /\ pc[r] \in Editing => call[r].op = "edit"
    /\ pc[r] \in Deleting => call[r].op \in {"deleteForMe",
                                             "deleteForEveryone"}
    /\ pc[r] \in Marking => call[r].op = "seen"
    /\ pc[r] \in {"findClientId", "loadExisting"} => call[r].cid # None
    /\ call[r].op # "send" => /\ Stored(call[r].target)
                              /\ call[r].cid = None

(* The id of a send in progress is minted, absent from the table, and      *)
(* carried by no other request, event or notice.                           *)
Minted(r) == pc[r] \in {"insert", "saveMessage", "loadExisting"}
FreshOK(r) ==
  Minted(r) =>
    /\ entity[r].id \in 1 .. lastId
    /\ messages[entity[r].id].status = "none"
    /\ entity[r].hidden = call[r].shadow
    /\ \A q \in Request \ {r} :
         Minted(q) \/ pc[q] = "publish" => entity[q].id # entity[r].id
    /\ \A e \in events : e.msg # entity[r].id
    /\ \A u \in User : \A n \in inbox[u] : n.msg # entity[r].id

(* A transaction that inserted a key is alone to hold it.                  *)
KeyOK(r) ==
  pc[r] = "saveMessage" /\ call[r].cid # None =>
    RowsOf(call[r].user, call[r].cid) = {} /\ ~KeyPending(r)

(* The entity of an edit or of a deletion carries the shadow of its        *)
(* message, and the row a send returns is the row of its key.              *)
EntityOK(r) ==
  /\ pc[r] \in {"updateMessage", "beginDeletion", "saveDeletion",
                "saveConversation"} => entity[r].id = call[r].target
  /\ pc[r] \in {"updateMessage", "beginDeletion", "saveDeletion"} =>
       messages[entity[r].id].shadow \subseteq entity[r].hidden
  /\ pc[r] = "publish" =>
       /\ entity[r].id \in 1 .. lastId
       /\ call[r].op # "send" => entity[r].id = call[r].target
       /\ call[r].op # "seen" =>
            messages[entity[r].id].shadow \subseteq entity[r].hidden
       /\ call[r].op = "send" =>
            /\ call[r].user \notin messages[entity[r].id].shadow
            /\ entity[r].saved \in Id
            /\ messages[entity[r].saved].status # "none"
            /\ messages[entity[r].saved].sender = call[r].user
            /\ messages[entity[r].saved].cid = call[r].cid

RequestOK(r) == CallOK(r) /\ FreshOK(r) /\ KeyOK(r) /\ EntityOK(r)

(* Ids beyond lastId are not in use, a row that is absent is blank, the    *)
(* shadow of a row that is there is still in force, and the index on       *)
(* (sender_id, client_message_id) is unique.                               *)
TableOK ==
  \A m \in Id :
    /\ messages[m].status = "none" => /\ messages[m].shadow = {}
                                      /\ deletedFor[m] = {}
    /\ messages[m].status # "none" =>
         /\ m <= lastId
         /\ messages[m].shadow \subseteq deletedFor[m]
         /\ \A k \in Id : /\ messages[k].status # "none"
                           /\ messages[k].sender = messages[m].sender
                           /\ messages[k].cid = messages[m].cid
                           /\ messages[m].cid # None
                           => k = m

EventOK ==
  \A e \in events :
    /\ e.msg <= lastId
    /\ messages[e.msg].shadow \subseteq e.hidden
    /\ e.kind = "created" => e.actor \notin messages[e.msg].shadow

NoticeOK == \A u \in User : \A n \in inbox[u] : n.msg <= lastId

AckOK ==
  \A a \in acks : /\ messages[a.msg].status # "none"
                  /\ messages[a.msg].sender = a.user
                  /\ messages[a.msg].cid = a.cid

(* The inductive invariant: what the requests in flight, the tables, the   *)
(* events and the notices must agree on for retries to name one message    *)
(* and for a shadow to hold.                                               *)
IInv == /\ TypeOK
        /\ \A r \in Request : RequestOK(r)
        /\ TableOK /\ EventOK /\ NoticeOK /\ AckOK /\ ShadowHolds

----------------------------------------------------------------------------
(* Which two handlers must not overlap, and where, for each property of    *)
(* handlers that run one at a time to hold although all others do overlap. *)

(* No two deletions of one message, from the reading of its row on.        *)
DeletionsApart ==
  \A r, q \in Request :
    /\ pc[r] \in {"beginDeletion", "saveDeletion"}
    /\ pc[q] \in {"beginDeletion", "saveDeletion"}
    /\ entity[r].id = entity[q].id
    => r = q

(* No edit of a message while a deletion of it is about to commit.         *)
EditsApart ==
  \A r, q \in Request :
    pc[r] = "updateMessage" /\ pc[q] = "saveDeletion"
      => entity[r].id # entity[q].id

(* No send commits while another one with its client id has looked it up   *)
(* in vain and is still on its way.                                        *)
KeyChecked(r) == /\ pc[r] \in {"loadReply", "create", "insert", "saveMessage"}
                 /\ call[r].cid # None
KeysApart ==
  \A r, q \in Request :
    /\ KeyChecked(r) /\ pc[q] = "saveMessage"
    /\ call[r].user = call[q].user /\ call[r].cid = call[q].cid
    => r = q

(* No two sends, from the minting of the id on.                            *)
SendsApart ==
  \A r, q \in Request :
    pc[r] \in {"insert", "saveMessage"} /\ pc[q] \in {"insert", "saveMessage"}
      => r = q

(* No two requests that will write what they make of the member rows: a    *)
(* send, a deletion or a read receipt.                                     *)
Writing(r) == pc[r] \in {"insert", "saveMessage", "beginDeletion",
                         "saveDeletion", "saveConversation"}
WritersApart == \A r, q \in Request : Writing(r) /\ Writing(q) => r = q

(* With each of them, what a handler has read, and what it decided by, is  *)
(* still so when it commits: a deletion knows the tombstone it finds, and  *)
(* an edit finds none.                                                     *)
TombstonesKnown ==
  \A r \in Request :
    /\ pc[r] \in {"beginDeletion", "saveDeletion"}
    /\ messages[entity[r].id].status = "tombstone"
    => entity[r].deleted
EditsLive ==
  \A r \in Request :
    pc[r] = "updateMessage" => messages[entity[r].id].status # "tombstone"

(* The index turns no send away, and what is announced is stored.          *)
KeysFree ==
  \A r \in Request :
    /\ pc[r] # "loadExisting"
    /\ KeyChecked(r) => RowsOf(call[r].user, call[r].cid) = {}
    /\ pc[r] = "publish" /\ call[r].op = "send" => Stored(entity[r].id)
AnnouncedStored == \A e \in events : e.kind = "created" => Stored(e.msg)
GhostInv == KeysFree /\ AnnouncedStored /\ NoGhostBroadcast

(* A message on its way has the greatest id.  What members have seen, also *)
(* by the rows that are about to be written, is stored.                    *)
NewestMinted ==
  \A r \in Request :
    pc[r] \in {"insert", "saveMessage"} => entity[r].id = lastId
SeenStored ==
  \A u \in User :
    /\ members[u].seen # 0 => Stored(members[u].seen)
    /\ \A r \in Request :
         LET seen == entity[r].members[u].seen
         IN  pc[r] \in {"saveMessage", "saveDeletion", "saveConversation"}
               => \/ seen = 0 \/ Stored(seen)
                  \/ /\ pc[r] = "saveMessage" /\ u = call[r].user
                     /\ seen = entity[r].id

(* The last messages are exact, and so will be those about to be written.  *)
LastExact == \A u \in User : members[u].last = Newest(u, messages, deletedFor)
LastAfter(e, u) == Newest(u, MessagesAfter(e), DeletedForAfter(e))
LastsHold(r) ==
  LET e == entity[r]
  IN  /\ pc[r] = "saveMessage" =>
           \A u \in User : e.members[u].last =
             IF u \in e.hidden THEN members[u].last ELSE e.id
      /\ pc[r] = "saveDeletion" =>
           /\ \A u \in User : e.members[u].last = LastAfter(e, u)
           /\ e.touched = {u \in User : members[u].last = e.id}
      /\ pc[r] = "saveConversation" =>
           \A u \in User : e.members[u].last = members[u].last
LastInv == /\ NewestMinted /\ TombstonesKnown /\ LastExact
           /\ \A r \in Request : LastsHold(r)
============================================================================
