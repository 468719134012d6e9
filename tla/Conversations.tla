--------------------------- MODULE Conversations ---------------------------
(***************************************************************************)
(* Direct conversations between accounts that may block each other:        *)
(* conversation.create (status check, creation, first message, rollback,   *)
(* announcement), message.send and message.edit of the gateway, composed   *)
(* with the blocks of UserBlocks that change underneath them.              *)
(*                                                                         *)
(* Messaging models the fate of a message once its shadow is fixed; here   *)
(* it is about how the shadow is decided, so a message is who sent it,     *)
(* where, and whether it was withheld from the other member.               *)
(***************************************************************************)
EXTENDS UserBlocks

CONSTANTS ChatRequest,      \* slots for gateway handlers
          None,             \* "no user"
          MaxChatRequests,  \* bound on the gateway requests
          MaxConversations, \* bound on the conversations created
          MaxMessages,      \* bound on the messages stored
          Failures          \* whether storing the first message may fail

ASSUME ConversationsAssumption ==
  /\ None \notin User
  /\ MaxChatRequests \in Nat
  /\ MaxConversations \in Nat /\ MaxChatRequests <= MaxConversations
  /\ MaxMessages \in Nat /\ MaxChatRequests <= MaxMessages
  /\ Failures \in BOOLEAN

VARIABLES
  convs,     \* chat.conversations with their two chat.conversation_members
  msgs,      \* chat.messages
  pc,        \* what a gateway request waits for
  call,      \* its arguments and what it has read
  since,     \* history: what has held of the two users' blocks without
             \* interruption since the request was received
  events,    \* message events not yet handled
  inbox,     \* notices emitted to the room of each user
  clashed,   \* history: pairs for whom two creations overlapped
  cut,       \* history: pairs for whom a creation was cut short
  received   \* number of gateway requests received

chatVars == <<convs, msgs, pc, call, events, inbox, clashed, cut, received>>
vars == <<blockVars, chatVars, since>>

----------------------------------------------------------------------------

ConvId == 1 .. MaxConversations
MsgId == 1 .. MaxMessages
Fact == {"blocked", "blocker", "free"}

Conversation == [status : {"none", "live", "deleted"},
                 by : User \cup {None}, to : User \cup {None},
                 since : SUBSET Fact]
NoConversation == [status |-> "none", by |-> None, to |-> None, since |-> {}]

(* conv is 0 in a row that is not there.                                   *)
Message == [conv : {0} \cup ConvId, sender : User \cup {None},
            withheld : BOOLEAN, since : SUBSET Fact]
NoMessage == [conv |-> 0, sender |-> None, withheld |-> FALSE, since |-> {}]

(* unread: which of the two status queries have not answered yet.          *)
Call == [op : {"none", "create", "send", "edit"},
         user : User \cup {None}, to : User \cup {None},
         conv : {0} \cup ConvId, msg : {0} \cup MsgId,
         unread : SUBSET {"blocker", "blocked"}, withheld : BOOLEAN]
NewCall(op, u, v, c, m, unread, withheld) ==
  [op |-> op, user |-> u, to |-> v, conv |-> c, msg |-> m,
   unread |-> unread, withheld |-> withheld]
NoCall == NewCall("none", None, None, 0, 0, {}, FALSE)

Label == {"idle", "status", "relation", "exists", "saveConversation",
          "firstMessage", "rollback", "announce", "insert", "update"}

Event == [kind : {"created", "edited"}, msg : MsgId, since : SUBSET Fact]
Notice == [kind : {"created", "edited", "conversation"}, conv : ConvId,
           sender : User, since : SUBSET Fact]

TypeOK ==
  /\ BlocksTypeOK
  /\ convs \in [ConvId -> Conversation]
  /\ msgs \in [MsgId -> Message]
  /\ pc \in [ChatRequest -> Label]
  /\ call \in [ChatRequest -> Call]
  /\ since \in [ChatRequest -> SUBSET Fact]
  /\ events \subseteq Event
  /\ inbox \in [User -> SUBSET Notice]
  /\ clashed \subseteq SUBSET User
  /\ cut \subseteq SUBSET User
  /\ received \in 0 .. MaxChatRequests

Init ==
  /\ BlocksInit
  /\ convs = [c \in ConvId |-> NoConversation]
  /\ msgs = [m \in MsgId |-> NoMessage]
  /\ pc = [r \in ChatRequest |-> "idle"]
  /\ call = [r \in ChatRequest |-> NoCall]
  /\ since = [r \in ChatRequest |-> {}]
  /\ events = {}
  /\ inbox = [u \in User |-> {}]
  /\ clashed = {}
  /\ cut = {}
  /\ received = 0

(* The next row of a table is the first that is not in use.                *)
NextConv(c) == /\ convs[c].status = "none"
               /\ \A k \in ConvId : k < c => convs[k].status # "none"
NextMsg(m) == /\ msgs[m].conv = 0
              /\ \A k \in MsgId : k < m => msgs[k].conv # 0

(* Mutant of Exists: only the conversations that u opened are looked at.   *)
ExistsBy(u, v) == \E c \in ConvId : /\ convs[c].status = "live"
                                    /\ convs[c].by = u /\ convs[c].to = v

(* conversationExists: a live direct conversation with both as members.    *)
Exists(u, v) == \E c \in ConvId : /\ convs[c].status = "live"
                                  /\ {convs[c].by, convs[c].to} = {u, v}

----------------------------------------------------------------------------

(* What holds between the user of a call and the other one: "blocked" by   *)
(* the other, "blocker" of the other, or "free" of both.                   *)
Facts(c) ==
  LET blocked == HasBlocked(c.to, c.user)
      blocker == HasBlocked(c.user, c.to)
  IN  {f \in Fact : \/ f = "blocked" /\ blocked
                    \/ f = "blocker" /\ blocker
                    \/ f = "free" /\ ~blocked /\ ~blocker}

Goto(r, l) == pc' = [pc EXCEPT ![r] = l]
Hold(r, c) == call' = [call EXCEPT ![r] = c]
Finish(r) == /\ Goto(r, "idle")
             /\ Hold(r, NoCall)
             /\ since' = [since EXCEPT ![r] = {}]
Reject(r) == /\ Finish(r)
             /\ UNCHANGED <<blockVars, convs, msgs, events, inbox, clashed,
                            cut, received>>
Continue(r, l, c) == /\ Goto(r, l)
                     /\ Hold(r, c)
                     /\ UNCHANGED <<blockVars, convs, msgs, since, events,
                                    inbox, clashed, cut, received>>

Receive(r, l, c) ==
  /\ pc[r] = "idle"
  /\ received < MaxChatRequests
  /\ received' = received + 1
  /\ Goto(r, l)
  /\ Hold(r, c)
  /\ since' = [since EXCEPT ![r] = Facts(c)]
  /\ UNCHANGED <<blockVars, convs, msgs, events, inbox, cut>>

Notify(rooms, n) ==
  inbox' = [u \in User |-> IF u \in rooms THEN inbox[u] \cup {n}
                           ELSE inbox[u]]
NoticeOf(kind, c, u, s) ==
  [kind |-> kind, conv |-> c, sender |-> u, since |-> s]

(* createDirectConversation, both users found.                             *)
ReceiveCreate(r, u, v) ==
  /\ u # v
  /\ Receive(r, "status",
             NewCall("create", u, v, 0, 0, {"blocker", "blocked"}, FALSE))
  /\ clashed' = IF \E q \in ChatRequest : /\ call[q].op = "create"
                                          /\ {call[q].user, call[q].to}
                                               = {u, v}
                THEN clashed \cup {{u, v}} ELSE clashed

(* createMessage of a member of a live conversation.                       *)
ReceiveSend(r, u, v, c) ==
  /\ convs[c].status = "live"
  /\ {convs[c].by, convs[c].to} = {u, v} /\ u # v
  /\ Receive(r, "status",
             NewCall("send", u, v, c, 0, {"blocker", "blocked"}, FALSE))
  /\ UNCHANGED clashed

(* editMessage looks at the membership and not at any block.               *)
ReceiveEdit(r, u, v, m) ==
  /\ msgs[m].conv # 0 /\ msgs[m].sender = u
  /\ LET c == convs[msgs[m].conv]
     IN  c.status = "live" /\ {c.by, c.to} = {u, v} /\ u # v
  /\ Receive(r, "update", NewCall("edit", u, v, msgs[m].conv, m, {}, FALSE))
  /\ UNCHANGED clashed

----------------------------------------------------------------------------
(* GetBlockStatusHandler: two queries, answered in any order.  The gateway *)
(* turns away a user who has blocked the other; CreateDirectConversation-  *)
(* Handler asks again (hasBlockRelation) and turns away both.              *)

(* Mutant of AfterStatus: hasBlockRelation is not asked.                   *)
AfterStatusUnrelated(r) ==
  IF call[r].op = "create" THEN "exists" ELSE "insert"

(* What comes after the last answer.                                       *)
AfterStatus(r) == IF pc[r] = "relation" THEN "exists"
                  ELSE IF call[r].op = "create" THEN "relation" ELSE "insert"
Asked(r, c, missing) ==
  IF missing # {} THEN Continue(r, pc[r],
    NewCall(c.op, c.user, c.to, c.conv, c.msg, missing, c.withheld))
  ELSE Continue(r, AfterStatus(r),
    NewCall(c.op, c.user, c.to, c.conv, c.msg,
            IF AfterStatus(r) = "relation" THEN {"blocker", "blocked"}
            ELSE {}, c.withheld))

ReadIsBlocker(r) ==
  /\ pc[r] \in {"status", "relation"} /\ "blocker" \in call[r].unread
  /\ IF HasBlocked(call[r].user, call[r].to) THEN Reject(r)
     ELSE Asked(r, call[r], call[r].unread \ {"blocker"})

(* Mutant of ReadIsBlocked: a blocked sender is turned away from opening   *)
(* a conversation, and not withheld from a member of one.                  *)
ReadIsBlockedAtFirst(r) ==
  /\ pc[r] \in {"status", "relation"} /\ "blocked" \in call[r].unread
  /\ IF HasBlocked(call[r].to, call[r].user) /\ pc[r] = "relation"
     THEN Reject(r)
     ELSE Asked(r, call[r], call[r].unread \ {"blocked"})

ReadIsBlocked(r) ==
  /\ pc[r] \in {"status", "relation"} /\ "blocked" \in call[r].unread
  /\ LET c == call[r]
         blocked == HasBlocked(c.to, c.user)
     IN  IF blocked /\ pc[r] = "relation" THEN Reject(r)
         ELSE Asked(r, NewCall(c.op, c.user, c.to, c.conv, c.msg, c.unread,
                               c.withheld \/ blocked),
                    c.unread \ {"blocked"})

----------------------------------------------------------------------------
(* CreateDirectConversationHandler and the rest of createDirectConversation*)

CheckConversation(r) ==
  /\ pc[r] = "exists"
  /\ IF Exists(call[r].user, call[r].to) THEN Reject(r)
     ELSE Continue(r, "saveConversation", call[r])

(* Mutant of SaveConversation: the conversation is announced at once.      *)
SaveConversationLoud(r) ==
  /\ pc[r] = "saveConversation"
  /\ LET c == call[r]
     IN  \E k \in ConvId :
           /\ NextConv(k)
           /\ convs' = [convs EXCEPT ![k] =
                          [status |-> "live", by |-> c.user, to |-> c.to,
                           since |-> since[r]]]
           /\ Hold(r, NewCall(c.op, c.user, c.to, k, 0, {}, c.withheld))
           /\ Notify({c.user, c.to},
                     NoticeOf("conversation", k, c.user, since[r]))
  /\ Goto(r, "firstMessage")
  /\ UNCHANGED <<blockVars, since, msgs, events, clashed, cut, received>>

(* saveConversation inserts the conversation and its members.              *)
SaveConversation(r) ==
  /\ pc[r] = "saveConversation"
  /\ LET c == call[r]
     IN  \E k \in ConvId :
           /\ NextConv(k)
           /\ convs' = [convs EXCEPT ![k] =
                          [status |-> "live", by |-> c.user, to |-> c.to,
                           since |-> since[r]]]
           /\ Hold(r, NewCall(c.op, c.user, c.to, k, 0, {}, c.withheld))
  /\ Goto(r, "firstMessage")
  /\ UNCHANGED <<blockVars, since, msgs, events, inbox, clashed, cut,
                 received>>

Store(r, m) ==
  /\ NextMsg(m)
  /\ msgs' = [msgs EXCEPT ![m] =
                [conv |-> call[r].conv, sender |-> call[r].user,
                 withheld |-> call[r].withheld, since |-> since[r]]]
EventOf(kind, m, s) == [kind |-> kind, msg |-> m, since |-> s]

SaveFirstMessage(r) ==
  /\ pc[r] = "firstMessage"
  /\ \E m \in MsgId : /\ Store(r, m)
                      /\ events' = events
                                   \cup {EventOf("created", m, since[r])}
  /\ Goto(r, "announce")
  /\ UNCHANGED <<blockVars, since, convs, call, inbox, clashed, cut,
                 received>>

(* The first message is not stored, or it is and the answer of the         *)
(* database is lost: the conversation is rolled back in either case.       *)
FirstMessageFails(r) ==
  /\ Failures
  /\ pc[r] = "firstMessage"
  /\ \/ UNCHANGED msgs
     \/ \E m \in MsgId : Store(r, m)
  /\ Goto(r, "rollback")
  /\ UNCHANGED <<blockVars, since, convs, call, events, inbox, clashed, cut,
                 received>>

(* Mutant of RollBack: deleteConversation is not called.                   *)
RollBackNothing(r) == pc[r] = "rollback" /\ Reject(r)

(* DeleteConversationHandler soft-deletes the conversation and its members *)
RollBack(r) ==
  /\ pc[r] = "rollback"
  /\ convs' = [convs EXCEPT ![call[r].conv].status = "deleted"]
  /\ Finish(r)
  /\ UNCHANGED <<blockVars, msgs, events, inbox, clashed, cut, received>>

(* The conversation is announced to the target, unless the first message   *)
(* was withheld, and to the other devices of its creator.                  *)
Announce(r) ==
  /\ pc[r] = "announce"
  /\ LET c == call[r]
     IN  Notify(IF c.withheld THEN {c.user} ELSE {c.user, c.to},
                NoticeOf("conversation", c.conv, c.user, since[r]))
  /\ Finish(r)
  /\ UNCHANGED <<blockVars, convs, msgs, events, clashed, cut, received>>

----------------------------------------------------------------------------
(* CreateMessageHandler and EditMessageHandler.                            *)

InsertMessage(r) ==
  /\ pc[r] = "insert"
  /\ \E m \in MsgId : /\ Store(r, m)
                      /\ events' = events
                                   \cup {EventOf("created", m, since[r])}
  /\ Finish(r)
  /\ UNCHANGED <<blockVars, convs, inbox, clashed, cut, received>>

UpdateMessage(r) ==
  /\ pc[r] = "update"
  /\ events' = events \cup {EventOf("edited", call[r].msg, since[r])}
  /\ Finish(r)
  /\ UNCHANGED <<blockVars, convs, msgs, inbox, clashed, cut, received>>

(* Mutant of Rooms: the other member is told of every message.             *)
RoomsOfAll(m) == {convs[msgs[m].conv].by, convs[msgs[m].conv].to}

(* The rooms a message is announced in.                                    *)
Rooms(m) == LET c == convs[msgs[m].conv]
            IN  IF msgs[m].withheld THEN {msgs[m].sender} ELSE {c.by, c.to}

(* The WebSocket event handlers; they find no conversation after rollback. *)
HandleEvent(e) ==
  /\ e \in events
  /\ events' = events \ {e}
  /\ LET m == msgs[e.msg]
     IN  IF convs[m.conv].status = "live"
         THEN Notify(Rooms(e.msg), NoticeOf(e.kind, m.conv, m.sender, e.since))
         ELSE UNCHANGED inbox
  /\ UNCHANGED <<blockVars, since, convs, msgs, pc, call, clashed, cut,
                 received>>

(* A query fails, the rollback included, or the process stops.             *)
Stop(r) ==
  /\ MayStop
  /\ pc[r] # "idle"
  /\ cut' = IF call[r].op = "create"
            THEN cut \cup {{call[r].user, call[r].to}} ELSE cut
  /\ Finish(r)
  /\ UNCHANGED <<blockVars, convs, msgs, events, inbox, clashed, received>>

----------------------------------------------------------------------------

Arrive(r) ==
  \E u, v \in User :
    \/ ReceiveCreate(r, u, v)
    \/ \E c \in ConvId : ReceiveSend(r, u, v, c)
    \/ \E m \in MsgId : ReceiveEdit(r, u, v, m)

Step(r) ==
  \/ ReadIsBlocker(r) \/ ReadIsBlocked(r) \/ CheckConversation(r)
  \/ SaveConversation(r) \/ SaveFirstMessage(r) \/ FirstMessageFails(r)
  \/ RollBack(r) \/ Announce(r) \/ InsertMessage(r) \/ UpdateMessage(r)

(* A block or unblock ends what no longer holds for the requests at work.  *)
Watch == since' = [r \in ChatRequest |->
                     IF pc[r] = "idle" THEN {}
                     ELSE since[r] \cap Facts(call[r])']

Next == \/ BlocksNext /\ UNCHANGED chatVars /\ Watch
        \/ \E r \in ChatRequest : Arrive(r) \/ Step(r) \/ Stop(r)
        \/ \E e \in events : HandleEvent(e)

Spec == Init /\ [][Next]_vars

----------------------------------------------------------------------------

(* A message is never stored for a user who had blocked the other member   *)
(* all along; one sent to a member who had blocked the sender all along is *)
(* withheld, and one sent while nobody blocked anybody is not: the two     *)
(* status queries are made after the request came in, and in the right     *)
(* direction, whatever blocks and unblocks happen around them.             *)
SendsRespectBlocks ==
  \A m \in MsgId : msgs[m].conv # 0 =>
    /\ "blocker" \notin msgs[m].since
    /\ "blocked" \in msgs[m].since => msgs[m].withheld
    /\ "free" \in msgs[m].since => ~msgs[m].withheld

(* No conversation is created across a block that stood, in either         *)
(* direction, as long as the request ran.                                  *)
CreationRespectsBlocks ==
  \A c \in ConvId : convs[c].since \cap {"blocked", "blocker"} = {}

(* Nobody is told of a conversation or of a message sent while that member *)
(* had the sender blocked all along.  An edit is told to all: editMessage  *)
(* withholds nothing.                                                      *)
BlockerHearsNothing ==
  \A u \in User : \A n \in inbox[u] :
    n.kind \in {"created", "conversation"} /\ "blocked" \in n.since
      => u = n.sender

(* Two members have one conversation, unless two creations overlapped.     *)
OneConversationPerPair ==
  \A c, d \in ConvId :
    /\ convs[c].status = "live" /\ convs[d].status = "live"
    /\ {convs[c].by, convs[c].to} = {convs[d].by, convs[d].to}
    /\ {convs[c].by, convs[c].to} \notin clashed
    => c = d

(* A conversation without a message, which would keep its members from     *)
(* ever opening one, has a request at work that will store a message or    *)
(* roll it back, unless that request was cut short.                        *)
NoEmptyLeftover ==
  \A c \in ConvId :
    /\ convs[c].status = "live"
    /\ {convs[c].by, convs[c].to} \notin cut
    /\ \A m \in MsgId : msgs[m].conv # c
    => \E r \in ChatRequest : /\ call[r].op = "create" /\ call[r].conv = c
                              /\ pc[r] \in {"firstMessage", "rollback"}

(* A conversation that was announced is never rolled back.                 *)
AnnouncedStays ==
  \A u \in User : \A n \in inbox[u] :
    n.kind = "conversation" => convs[n.conv].status = "live"

----------------------------------------------------------------------------
(* The inductive invariant.                                                *)

Working(r) == pc[r] # "idle"
(* The conversation of r is stored, and is announced or rolled back next.  *)
Owning(r) == pc[r] \in {"firstMessage", "rollback", "announce"}
PairOf(r) == {call[r].user, call[r].to}
Past(r, fact) == pc[r] # "status" \/ fact \notin call[r].unread

(* What r was asked to do fits the point it has reached.                   *)
CallOK(r) ==
  LET c == call[r]
  IN  /\ c.user \in User /\ c.to \in User /\ c.user # c.to
      /\ \/ pc[r] = "status" /\ c.op \in {"create", "send"}
         \/ pc[r] = "insert" /\ c.op = "send"
         \/ pc[r] = "update" /\ c.op = "edit"
         \/ /\ c.op = "create"
            /\ pc[r] \in {"relation", "exists", "saveConversation",
                          "firstMessage", "rollback", "announce"}
      /\ c.op = "send" => /\ c.conv \in ConvId
                          /\ convs[c.conv].status # "none"
      /\ c.op = "edit" => c.msg \in MsgId /\ msgs[c.msg].conv # 0

(* What held all along is what r has read, if it has read it.              *)
SinceOK(r) ==
  LET c == call[r]
  IN  /\ since[r] \subseteq Facts(c)
      /\ c.op # "edit" /\ Past(r, "blocker") => "blocker" \notin since[r]
      /\ c.op # "edit" /\ Past(r, "blocked") =>
           ("blocked" \in since[r] => c.withheld)
      /\ "free" \in since[r] => ~c.withheld
      /\ c.op = "create" /\ pc[r] # "status"
           /\ (pc[r] = "relation" => "blocked" \notin c.unread)
           => "blocked" \notin since[r]

(* A conversation being created is live and known to nobody yet.           *)
OwnedOK(r) ==
  LET c == call[r].conv
  IN  /\ Owning(r) =>
           /\ c \in ConvId /\ convs[c].status = "live"
           /\ {convs[c].by, convs[c].to} = PairOf(r)
           /\ \A u \in User : \A n \in inbox[u] :
                n.kind = "conversation" => n.conv # c
      /\ pc[r] = "saveConversation" /\ PairOf(r) \notin clashed
           => ~Exists(call[r].user, call[r].to)

RequestOK(r) == Working(r) => CallOK(r) /\ SinceOK(r) /\ OwnedOK(r)

(* Two creations have conversations of their own, and clash if they are    *)
(* for the same pair.                                                      *)
Apart ==
  \A r, q \in ChatRequest : r # q =>
    /\ Owning(r) /\ Owning(q) => call[r].conv # call[q].conv
    /\ /\ Working(r) /\ call[r].op = "create"
       /\ Working(q) /\ call[q].op = "create"
       /\ PairOf(r) = PairOf(q)
       => PairOf(r) \in clashed

StoredOK == \A m \in MsgId : msgs[m].conv # 0 =>
              /\ msgs[m].sender \in User
              /\ convs[msgs[m].conv].status # "none"
EventsOK == \A e \in events :
              /\ msgs[e.msg].conv # 0
              /\ e.kind = "created" => e.since = msgs[e.msg].since

IInv == /\ TypeOK
        /\ BlocksInv
        /\ \A r \in ChatRequest : RequestOK(r)
        /\ Apart
        /\ StoredOK
        /\ EventsOK
        /\ SendsRespectBlocks
        /\ CreationRespectsBlocks
        /\ BlockerHearsNothing
        /\ OneConversationPerPair
        /\ NoEmptyLeftover
        /\ AnnouncedStays
============================================================================
