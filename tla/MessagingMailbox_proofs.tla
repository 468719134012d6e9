----------------------- MODULE MessagingMailbox_proofs -----------------------
(***************************************************************************)
(* Messaging implements Mailbox: every step of a handler, a transaction or *)
(* an event is an atomic operation of the mailbox somebody entitled asked  *)
(* for, or changes nothing of it.                                          *)
(***************************************************************************)
EXTENDS MessagingMailbox, Messaging_proofs

MailInv == IInv /\ AskedForInv

(* The other requests hold what they were asked for as long as no row is   *)
(* given to another sender and nothing hidden comes back.                  *)
LEMMA AskedKeep ==
  ASSUME MailInv, NEW r \in Request,
         \A q \in Request \ {r} : /\ pc'[q] = pc[q] /\ call'[q] = call[q]
                                  /\ entity'[q] = entity[q],
         \A m \in Id : messages[m].status # "none" =>
                         messages'[m].sender = messages[m].sender,
         \A m \in Id : deletedFor[m] \subseteq deletedFor'[m],
         AskedFor(r)'
  PROVE  AskedForInv'
  <1> SUFFICES ASSUME NEW q \in Request, q # r PROVE AskedFor(q)'
    BY DEF AskedForInv
  <1>1. AskedFor(q)
    BY DEF MailInv, AskedForInv
  <1>2. pc[q] \in {"updateMessage", "beginDeletion", "saveDeletion"} =>
          entity[q].id \in Id /\ messages[entity[q].id].status # "none"
    BY DEF MailInv, IInv, RequestOK, CallOK, EntityOK, Stored, Editing,
           Deleting
  <1> QED
    BY <1>1, <1>2 DEF AskedFor

(* A request that has ended holds nothing.                                 *)
LEMMA FinishAsked ==
  ASSUME MailInv, NEW r \in Request, Finish(r),
         UNCHANGED <<messages, deletedFor>>
  PROVE  AskedForInv'
  <1>1. /\ \A q \in Request \ {r} : /\ pc'[q] = pc[q] /\ call'[q] = call[q]
                                    /\ entity'[q] = entity[q]
        /\ pc'[r] = "idle"
    BY DEF Finish, Goto, Hold, MailInv, IInv, TypeOK
  <1>2. AskedFor(r)'
    BY <1>1 DEF AskedFor
  <1> QED
    BY <1>1, <1>2, AskedKeep

(* A request that comes in or reads holds nothing yet.                     *)
LEMMA ReadAsked ==
  ASSUME MailInv, NEW r \in Request, NEW l, Goto(r, l),
         l \notin {"insert", "saveMessage", "updateMessage", "beginDeletion",
                   "saveDeletion"},
         \A q \in Request \ {r} : /\ call'[q] = call[q]
                                  /\ entity'[q] = entity[q],
         UNCHANGED <<messages, deletedFor>>
  PROVE  AskedForInv'
  <1>1. /\ \A q \in Request \ {r} : pc'[q] = pc[q]
        /\ pc'[r] = l
    BY DEF Goto, MailInv, IInv, TypeOK
  <1>2. AskedFor(r)'
    BY <1>1 DEF AskedFor
  <1> QED
    BY <1>1, <1>2, AskedKeep

(* The handlers of sends hold the text they were asked to send.            *)
LEMMA SendAsked ==
  ASSUME MailInv, NEW r \in Request,
         \/ FindNoEarlierSend(r) \/ FindEarlierSend(r)
         \/ FindConflictingSend(r) \/ LoadReply(r) \/ CreateMessage(r)
         \/ InsertMessage(r) \/ InsertConflict(r) \/ LoadExisting(r)
         \/ SaveMessage(r)
  PROVE  AskedForInv'
  <1> USE DEF tables
  <1>0. /\ pc \in [Request -> Label] /\ call \in [Request -> Call]
        /\ entity \in [Request -> Entity] /\ AskedFor(r)
    BY DEF MailInv, IInv, TypeOK, AskedForInv
  <1>1. CASE FindNoEarlierSend(r)
    <2>1. AfterLookup(r) \in {"loadReply", "create"}
      BY DEF AfterLookup
    <2> QED
      BY <1>1, <2>1, ReadAsked DEF FindNoEarlierSend
  <1>2. CASE FindEarlierSend(r) \/ FindConflictingSend(r)
    BY <1>2, FinishAsked DEF FindEarlierSend, FindConflictingSend, Reject
  <1>3. CASE LoadReply(r)
    <2>1. \/ Goto(r, "create") /\ UNCHANGED <<tables, call, entity>>
          \/ Finish(r) /\ UNCHANGED tables
      BY <1>3 DEF LoadReply, Reject
    <2> QED
      BY <2>1, ReadAsked, FinishAsked
  <1>4. CASE CreateMessage(r)
    <2>1. /\ \A q \in Request \ {r} : /\ pc'[q] = pc[q] /\ call'[q] = call[q]
                                      /\ entity'[q] = entity[q]
          /\ pc'[r] = "insert" /\ call'[r] = call[r]
      BY <1>0, <1>4 DEF CreateMessage, Goto, Hold
    <2>2. entity'[r].text = call[r].text
      BY <1>0, <1>4 DEF CreateMessage, Hold, NoEntity
    <2>3. AskedFor(r)'
      BY <2>1, <2>2 DEF AskedFor
    <2> QED
      BY <1>4, <2>1, <2>3, AskedKeep DEF CreateMessage
  <1>5. CASE InsertMessage(r)
    <2>1. /\ \A q \in Request \ {r} : /\ pc'[q] = pc[q] /\ call'[q] = call[q]
                                      /\ entity'[q] = entity[q]
          /\ pc'[r] = "saveMessage" /\ call'[r] = call[r]
      BY <1>0, <1>5 DEF InsertMessage, Goto, Hold
    <2>2. entity'[r].text = entity[r].text
      BY <1>0, <1>5 DEF InsertMessage, Hold, Entity
    <2>3. AskedFor(r)'
      BY <1>0, <1>5, <2>1, <2>2 DEF AskedFor, InsertMessage
    <2> QED
      BY <1>5, <2>1, <2>3, AskedKeep DEF InsertMessage
  <1>6. CASE InsertConflict(r)
    BY <1>6, ReadAsked DEF InsertConflict
  <1>7. CASE LoadExisting(r)
    <2>1. \A q \in Request \ {r} : entity'[q] = entity[q]
      BY <1>0, <1>7 DEF LoadExisting, Hold
    <2> QED
      BY <1>7, <2>1, ReadAsked DEF LoadExisting
  <1>8. CASE SaveMessage(r)
    <2> DEFINE e == entity[r]
               row == [status |-> "live", sender |-> call[r].user,
                       text |-> e.text, cid |-> call[r].cid,
                       shadow |-> call[r].shadow]
    <2>1. /\ e.id \in Id /\ messages[e.id].status = "none"
          /\ deletedFor[e.id] = {}
      BY <1>8, MessagingAssumption
      DEF MailInv, IInv, TypeOK, SaveMessage, RequestOK, FreshOK, Minted,
          TableOK, Id, IdOrNull
    <2>2. /\ messages' = [messages EXCEPT ![e.id] = row]
          /\ deletedFor' = [deletedFor EXCEPT ![e.id] = e.hidden]
      BY <1>8 DEF SaveMessage
    <2>3. /\ \A q \in Request \ {r} : /\ pc'[q] = pc[q] /\ call'[q] = call[q]
                                      /\ entity'[q] = entity[q]
          /\ pc'[r] = "publish"
      BY <1>0, <1>8 DEF SaveMessage, Goto, Hold
    <2>4. /\ \A m \in Id : messages[m].status # "none" =>
               messages'[m].sender = messages[m].sender
          /\ \A m \in Id : deletedFor[m] \subseteq deletedFor'[m]
      <3> HIDE DEF e, row
      <3> QED
        BY <2>1, <2>2 DEF MailInv, IInv, TypeOK
    <2>5. AskedFor(r)'
      BY <2>3 DEF AskedFor
    <2> QED
      BY <2>3, <2>4, <2>5, AskedKeep
  <1> QED
    BY <1>1, <1>2, <1>3, <1>4, <1>5, <1>6, <1>7, <1>8

(* Edits hold the new text, for a message of the one who edits.            *)
LEMMA EditAsked ==
  ASSUME MailInv, NEW r \in Request, LoadForEdit(r) \/ UpdateMessage(r)
  PROVE  AskedForInv'
  <1> USE DEF tables
  <1>0. /\ pc \in [Request -> Label] /\ call \in [Request -> Call]
        /\ entity \in [Request -> Entity] /\ AskedFor(r)
    BY DEF MailInv, IInv, TypeOK, AskedForInv
  <1>1. CASE LoadForEdit(r)
    <2> DEFINE m == call[r].target
               e == Loaded(m)
               n == [e EXCEPT !.text = call[r].text,
                              !.applied = (call[r].text # e.text)]
    <2>1. CASE Reject(r)
      BY <2>1, FinishAsked DEF Reject
    <2>2. CASE ~Reject(r)
      <3>1. m \in Id
        BY <1>1 DEF LoadForEdit, MailInv, IInv, RequestOK, CallOK, Stored,
                    Editing
      <3>2. e \in Entity /\ e.id = m
        BY <3>1, LoadedType DEF MailInv, IInv
      <3>3. n.text = call[r].text /\ n.id = m
        <4> HIDE DEF e
        <4> QED
          BY <3>2 DEF Entity
      <3>4. /\ Hold(r, n) /\ Goto(r, "updateMessage")
            /\ messages[m].sender = call[r].user
            /\ UNCHANGED <<tables, call>>
        BY <1>1, <2>2, <3>2 DEF LoadForEdit
      <3> HIDE DEF n
      <3>5. /\ \A q \in Request \ {r} : /\ pc'[q] = pc[q]
                                        /\ call'[q] = call[q]
                                        /\ entity'[q] = entity[q]
            /\ pc'[r] = "updateMessage" /\ call'[r] = call[r]
            /\ entity'[r] = n
        BY <1>0, <3>4 DEF Goto, Hold
      <3>6. AskedFor(r)'
        BY <3>3, <3>4, <3>5 DEF AskedFor
      <3> QED
        BY <3>4, <3>5, <3>6, AskedKeep
    <2> QED
      BY <2>1, <2>2
  <1>2. CASE UpdateMessage(r)
    <2>1. \A m \in Id : messages'[m].sender = messages[m].sender
      BY <1>2 DEF UpdateMessage, MailInv, IInv, TypeOK, Message
    <2>2. /\ \A q \in Request \ {r} : /\ pc'[q] = pc[q] /\ call'[q] = call[q]
                                      /\ entity'[q] = entity[q]
          /\ pc'[r] = "publish" /\ deletedFor' = deletedFor
      BY <1>0, <1>2 DEF UpdateMessage, Goto
    <2>3. AskedFor(r)'
      BY <2>2 DEF AskedFor
    <2> QED
      BY <2>1, <2>2, <2>3, AskedKeep
  <1> QED
    BY <1>1, <1>2

(* Deletions hide nobody but the one who asked and whom the message is     *)
(* hidden from already.                                                    *)
LEMMA DeleteAsked ==
  ASSUME MailInv, NEW r \in Request,
         LoadForDelete(r) \/ BeginDeletion(r) \/ SaveDeletion(r)
  PROVE  AskedForInv'
  <1> USE DEF tables
  <1>0. /\ pc \in [Request -> Label] /\ call \in [Request -> Call]
        /\ entity \in [Request -> Entity] /\ AskedFor(r)
    BY DEF MailInv, IInv, TypeOK, AskedForInv
  <1>1. CASE LoadForDelete(r)
    <2> DEFINE m == call[r].target
               u == call[r].user
               e == Loaded(m)
    <2>1. CASE Reject(r)
      BY <2>1, FinishAsked DEF Reject
    <2>2. CASE ~Reject(r)
      <3>1. m \in Id
        BY <1>1 DEF LoadForDelete, MailInv, IInv, RequestOK, CallOK, Stored,
                    Deleting
      <3>2. e \in Entity /\ e.id = m /\ e.hidden = deletedFor[m]
        BY <3>1, LoadedType DEF MailInv, IInv
      <3>3. /\ DeletedForUser(e, u).hidden = deletedFor[m] \cup {u}
            /\ DeletedForUser(e, u).id = m
            /\ DeletedForEveryone(e).hidden = deletedFor[m]
            /\ DeletedForEveryone(e).id = m
        <4> HIDE DEF e
        <4> QED
          BY <3>2 DEF DeletedForUser, DeletedForEveryone, Entity
      <3>4. /\ \/ /\ call[r].op = "deleteForMe"
                  /\ Hold(r, DeletedForUser(e, u))
               \/ /\ call[r].op = "deleteForEveryone"
                  /\ Hold(r, DeletedForEveryone(e))
            /\ Goto(r, "beginDeletion") /\ UNCHANGED <<tables, call>>
        BY <1>1, <2>2 DEF LoadForDelete
      <3>5. /\ \A q \in Request \ {r} : /\ pc'[q] = pc[q]
                                        /\ call'[q] = call[q]
                                        /\ entity'[q] = entity[q]
            /\ pc'[r] = "beginDeletion" /\ call'[r] = call[r]
            /\ entity'[r].id = m
            /\ IF call[r].op = "deleteForMe"
               THEN entity'[r].hidden = deletedFor[m] \cup {u}
               ELSE entity'[r].hidden = deletedFor[m]
        BY <1>0, <3>3, <3>4 DEF Goto, Hold
      <3>6. AskedFor(r)'
        BY <3>4, <3>5 DEF AskedFor
      <3> QED
        BY <3>4, <3>5, <3>6, AskedKeep
    <2> QED
      BY <2>1, <2>2
  <1>2. CASE BeginDeletion(r)
    <2>1. /\ \A q \in Request \ {r} : /\ pc'[q] = pc[q] /\ call'[q] = call[q]
                                      /\ entity'[q] = entity[q]
          /\ pc'[r] = "saveDeletion" /\ call'[r] = call[r]
      BY <1>0, <1>2 DEF BeginDeletion, Goto, Hold
    <2>2. entity'[r].id = entity[r].id /\ entity'[r].hidden = entity[r].hidden
      BY <1>0, <1>2 DEF BeginDeletion, Hold, Entity
    <2>3. AskedFor(r)'
      BY <1>0, <1>2, <2>1, <2>2 DEF AskedFor, BeginDeletion
    <2> QED
      BY <1>2, <2>1, <2>3, AskedKeep DEF BeginDeletion
  <1>3. CASE SaveDeletion(r)
    <2>1. \A m \in Id : messages'[m].sender = messages[m].sender
      BY <1>3 DEF SaveDeletion, MessagesAfter, MailInv, IInv, TypeOK, Message
    <2>2. \A m \in Id : deletedFor[m] \subseteq deletedFor'[m]
      BY <1>3 DEF SaveDeletion, DeletedForAfter, MailInv, IInv, TypeOK
    <2>3. /\ \A q \in Request \ {r} : /\ pc'[q] = pc[q] /\ call'[q] = call[q]
                                      /\ entity'[q] = entity[q]
          /\ pc'[r] = "publish"
      BY <1>0, <1>3 DEF SaveDeletion, Goto
    <2>4. AskedFor(r)'
      BY <2>3 DEF AskedFor
    <2> QED
      BY <2>1, <2>2, <2>3, <2>4, AskedKeep
  <1> QED
    BY <1>1, <1>2, <1>3

(* Every kind of request is received with a call of a member, who does not *)
(* ask to withhold the message from that member.                           *)
LEMMA ArriveReceives ==
  ASSUME NEW r \in Request, Arrive(r)
  PROVE  \E c : \E l \in {"findClientId", "loadReply", "create", "loadEdit",
                          "loadDelete", "loadConversation"} :
           Receive(r, c, l) /\ c.user \in User \ c.shadow
  <1> DEFINE Kinds == {"findClientId", "loadReply", "create", "loadEdit",
                       "loadDelete", "loadConversation"}
             C(o, u, t, k, m, s) == [op |-> o, user |-> u, text |-> t,
                                     cid |-> k, target |-> m, shadow |-> s]
  <1>0. \A o, u, t, k, m, s : /\ C(o, u, t, k, m, s).user = u
                              /\ C(o, u, t, k, m, s).shadow = s
    OBVIOUS
  <1>1. PICK u \in User :
          \/ \E t \in Text, k \in ClientId \cup {None}, reply \in IdOrNull,
                s \in {{}, User \ {u}} : ReceiveSend(r, u, t, k, reply, s)
          \/ \E m \in Id, t \in Text : ReceiveEdit(r, u, m, t)
          \/ \E m \in Id, scope \in {"deleteForMe", "deleteForEveryone"} :
                ReceiveDelete(r, u, m, scope)
          \/ \E m \in Id : ReceiveSeen(r, u, m)
    BY DEF Arrive
  <1>2. ASSUME NEW t, NEW k, NEW m, NEW s \in {{}, User \ {u}},
               ReceiveSend(r, u, t, k, m, s)
        PROVE  \E c : \E l \in Kinds :
                 Receive(r, c, l) /\ c.user \in User \ c.shadow
    <2>1. \E l \in Kinds : Receive(r, C("send", u, t, k, m, s), l)
      BY <1>2 DEF ReceiveSend
    <2> HIDE DEF C
    <2> QED
      BY <1>0, <1>2, <2>1
  <1>3. ASSUME NEW t, NEW m, ReceiveEdit(r, u, m, t)
        PROVE  \E c : \E l \in Kinds :
                 Receive(r, c, l) /\ c.user \in User \ c.shadow
    <2>1. Receive(r, C("edit", u, t, None, m, {}), "loadEdit")
      BY <1>3 DEF ReceiveEdit
    <2> HIDE DEF C
    <2> QED
      BY <1>0, <2>1
  <1>4. ASSUME NEW o, NEW m, ReceiveDelete(r, u, m, o)
        PROVE  \E c : \E l \in Kinds :
                 Receive(r, c, l) /\ c.user \in User \ c.shadow
    <2>1. Receive(r, C(o, u, None, None, m, {}), "loadDelete")
      BY <1>4 DEF ReceiveDelete
    <2> HIDE DEF C
    <2> QED
      BY <1>0, <2>1
  <1>5. ASSUME NEW m, ReceiveSeen(r, u, m)
        PROVE  \E c : \E l \in Kinds :
                 Receive(r, c, l) /\ c.user \in User \ c.shadow
    <2>1. Receive(r, C("seen", u, None, None, m, {}), "loadConversation")
      BY <1>5 DEF ReceiveSeen
    <2> HIDE DEF C
    <2> QED
      BY <1>0, <2>1
  <1> QED
    BY <1>1, <1>2, <1>3, <1>4, <1>5

(* Requests come in holding nothing.                                       *)
LEMMA ArriveAsked ==
  ASSUME MailInv, NEW r \in Request, Arrive(r)
  PROVE  AskedForInv'
  <1>1. PICK c : \E l \in {"findClientId", "loadReply", "create", "loadEdit",
                           "loadDelete", "loadConversation"} : Receive(r, c, l)
    BY ArriveReceives
  <1>2. \A q \in Request \ {r} : call'[q] = call[q] /\ entity'[q] = entity[q]
    BY <1>1 DEF Receive, MailInv, IInv, TypeOK
  <1> QED
    BY <1>1, <1>2, ReadAsked DEF Receive, tables

(* Every step keeps what the handlers hold in order.                       *)
LEMMA AskedNext == MailInv /\ [Next]_vars => MailInv'
  <1> SUFFICES ASSUME MailInv, [Next]_vars PROVE AskedForInv'
    BY IInvNext DEF MailInv
  <1>1. ASSUME NEW r \in Request, Arrive(r)
        PROVE  AskedForInv'
    BY <1>1, ArriveAsked
  <1>2. ASSUME NEW r \in Request, Step(r)
        PROVE  AskedForInv'
    <2>1. CASE LoadConversation(r) \/ SaveConversation(r)
      <3>1. PICK l \in {"saveConversation", "publish"} :
              Goto(r, l) /\ UNCHANGED <<messages, deletedFor, call>>
        BY <2>1 DEF LoadConversation, SaveConversation, tables
      <3>2. \A q \in Request \ {r} : entity'[q] = entity[q]
        BY <2>1 DEF LoadConversation, SaveConversation, Hold, MailInv, IInv,
                    TypeOK
      <3> QED
        BY <3>1, <3>2, ReadAsked
    <2>2. CASE Publish(r) \/ PublishSeen(r)
      BY <2>2, FinishAsked DEF Publish, PublishSeen, tables
    <2> QED
      BY <1>2, <2>1, <2>2, SendAsked, EditAsked, DeleteAsked DEF Step
  <1>3. ASSUME NEW r \in Request, FailRequest(r)
        PROVE  AskedForInv'
    BY <1>3, FinishAsked DEF FailRequest, Reject, tables
  <1>4. ASSUME NEW e \in events, HandleEvent(e) \/ LoseEvent(e)
        PROVE  AskedForInv'
    BY <1>4 DEF HandleEvent, LoseEvent, tables, MailInv, AskedForInv, AskedFor
  <1>5. CASE UNCHANGED vars
    BY <1>5 DEF vars, MailInv, AskedForInv, AskedFor
  <1> QED
    BY <1>1, <1>2, <1>3, <1>4, <1>5 DEF Next

(* At first nobody holds anything.                                         *)
LEMMA AskedInit == Init => MailInv
  BY IInvInit DEF Init, MailInv, AskedForInv, AskedFor

(* What a handler holds is what it was asked for.                          *)
THEOREM HandlersDoAsAsked == Spec => []AskedForInv
  <1>1. MailInv => AskedForInv
    BY DEF MailInv
  <1> QED
    BY <1>1, AskedInit, AskedNext, PTL DEF Spec

----------------------------------------------------------------------------
(* The steps, seen from the mailbox.                                       *)

(* A request that stays at work goes on having been asked.                 *)
LEMMA AsksStay ==
  ASSUME MailInv, NEW r \in Request, pc[r] # "idle", NEW l, l # "idle",
         Goto(r, l), UNCHANGED call
  PROVE  BoxAsks' = BoxAsks
  <1>1. \A q \in Request : pc'[q] # "idle" <=> pc[q] # "idle"
    BY DEF Goto, MailInv, IInv, TypeOK
  <1> QED
    BY <1>1 DEF BoxAsks

(* A request that ends adds nothing to what was asked.                     *)
LEMMA AsksShrink ==
  ASSUME MailInv, NEW r \in Request, Finish(r)
  PROVE  BoxAsks' \subseteq BoxAsks
  <1>1. \A q \in Request : pc'[q] # "idle" =>
                             pc[q] # "idle" /\ call'[q] = call[q]
    BY DEF Finish, Goto, MailInv, IInv, TypeOK
  <1> QED
    BY <1>1 DEF BoxAsks

(* A request that comes in adds its call.                                  *)
LEMMA AsksGrow ==
  ASSUME MailInv, NEW r \in Request, NEW c, NEW l, l # "idle",
         Receive(r, c, l)
  PROVE  BoxAsks' = BoxAsks \cup {c}
  <1>1. /\ pc[r] = "idle" /\ pc'[r] # "idle" /\ call'[r] = c
        /\ \A q \in Request \ {r} : pc'[q] = pc[q] /\ call'[q] = call[q]
    BY DEF Receive, Goto, MailInv, IInv, TypeOK
  <1> QED
    BY <1>1 DEF BoxAsks

(* The rows and what was told are what the tables and the rooms make them. *)
LEMMA BoxStays ==
  /\ UNCHANGED messages => BoxRow' = BoxRow
  /\ UNCHANGED inbox => BoxTold' = BoxTold
  BY DEF BoxRow, BoxTold

(* A request that goes on and changes no row: the mailbox stutters.        *)
LEMMA GoOn ==
  ASSUME MailInv, NEW r \in Request, pc[r] # "idle", NEW l, l # "idle",
         Goto(r, l), UNCHANGED <<call, messages, deletedFor, inbox, acks>>
  PROVE  UNCHANGED Box!boxVars
  BY AsksStay, BoxStays DEF Box!boxVars

(* A request that ends and changes no row: it leaves.                      *)
LEMMA GoAway ==
  ASSUME MailInv, NEW r \in Request, Finish(r),
         UNCHANGED <<messages, deletedFor, acks>>, BoxTold' = BoxTold
  PROVE  Box!Next
  BY AsksShrink, BoxStays DEF Box!Next, Box!Leave

(* A call at work is one that was asked.                                   *)
LEMMA AtWorkIsAsked ==
  ASSUME NEW r \in Request, pc[r] # "idle"
  PROVE  call[r] \in BoxAsks
  BY DEF BoxAsks

(* What arrives is asked.                                                  *)
LEMMA ArriveBox ==
  ASSUME MailInv, NEW r \in Request, Arrive(r)
  PROVE  Box!Next
  <1>1. PICK c : \E l \in {"findClientId", "loadReply", "create", "loadEdit",
                           "loadDelete", "loadConversation"} :
                   Receive(r, c, l) /\ c.user \in User \ c.shadow
    BY ArriveReceives
  <1>2. /\ BoxAsks' = BoxAsks \cup {c} /\ c.user \in User \ c.shadow
        /\ UNCHANGED <<messages, deletedFor, inbox, acks>>
    BY <1>1, AsksGrow DEF Receive, tables
  <1>3. Box!Ask(c) /\ c \in BoxAsks'
    BY <1>2, BoxStays DEF Box!Ask
  <1> QED
    BY <1>3 DEF Box!Next

(* A message that is committed is posted.                                  *)
LEMMA SaveMessageBox ==
  ASSUME MailInv, NEW r \in Request, SaveMessage(r)
  PROVE  Box!Next
  <1> DEFINE e == entity[r]
             c == call[r]
             row == [status |-> "live", sender |-> c.user, text |-> e.text,
                     cid |-> c.cid, shadow |-> c.shadow]
             seen == [there |-> TRUE, author |-> c.user, text |-> c.text,
                      cid |-> c.cid, shadow |-> c.shadow]
  <1>1. /\ pc[r] = "saveMessage" /\ Goto(r, "publish")
        /\ messages' = [messages EXCEPT ![e.id] = row]
        /\ deletedFor' = [deletedFor EXCEPT ![e.id] = e.hidden]
        /\ UNCHANGED <<call, inbox, acks>>
    BY DEF SaveMessage
  <1>2. /\ CallOK(r) /\ FreshOK(r) /\ KeyOK(r) /\ AskedFor(r)
        /\ messages \in [Id -> Message] /\ lastId \in IdOrNull
    BY DEF MailInv, IInv, RequestOK, AskedForInv, TypeOK
  <1>3. /\ e.id \in Id /\ messages[e.id].status = "none"
        /\ e.hidden = c.shadow /\ e.text = c.text /\ c.op = "send"
        /\ \A u \in User : \A n \in inbox[u] : n.msg # e.id
        /\ c.cid # None => RowsOf(c.user, c.cid) = {}
    BY <1>1, <1>2, MessagingAssumption
    DEF CallOK, FreshOK, Minted, KeyOK, AskedFor, Sending, Id, IdOrNull
  <1>4. c \in BoxAsks /\ BoxAsks' = BoxAsks
    BY <1>1, AsksStay, AtWorkIsAsked
  <1>5. ~BoxRow[e.id].there
    BY <1>3 DEF BoxRow
  <1>6. \A u \in User : e.id \notin BoxTold[u]
    BY <1>3 DEF BoxTold
  <1>7. c.cid # None => \A k \in Id : BoxRow[k].there
                                        /\ BoxRow[k].author = c.user
                                      => BoxRow[k].cid # c.cid
    BY <1>3 DEF BoxRow, RowsOf
  <1>8. BoxRow' = [BoxRow EXCEPT ![e.id] = seen]
    <2>1. row.text = c.text
      BY <1>3
    <2> HIDE DEF e
    <2> QED
      BY <1>1, <1>2, <1>3, <2>1 DEF BoxRow
  <1>9. BoxTold' = BoxTold
    BY <1>1, BoxStays
  <1>10. deletedFor' = [deletedFor EXCEPT ![e.id] = c.shadow]
    BY <1>1, <1>3
  <1> HIDE DEF e, c, row
  <1>11. Box!Post(e.id, c)
    BY <1>1, <1>3, <1>4, <1>5, <1>6, <1>7, <1>8, <1>9, <1>10 DEF Box!Post
  <1> QED
    BY <1>3, <1>4, <1>11 DEF Box!Next

(* An edit that is stored is one its author asked for.                     *)
LEMMA UpdateMessageBox ==
  ASSUME MailInv, NEW r \in Request, UpdateMessage(r)
  PROVE  Box!Next
  <1> DEFINE c == call[r]
             m == c.target
  <1>1. /\ pc[r] = "updateMessage" /\ Goto(r, "publish")
        /\ messages' = [messages EXCEPT ![entity[r].id].text = entity[r].text]
        /\ UNCHANGED <<deletedFor, call, inbox, acks>>
    BY DEF UpdateMessage
  <1>2. /\ CallOK(r) /\ EntityOK(r) /\ AskedFor(r)
        /\ messages \in [Id -> Message]
    BY DEF MailInv, IInv, RequestOK, AskedForInv, TypeOK
  <1>3. /\ entity[r].id = m /\ entity[r].text = c.text /\ c.op = "edit"
        /\ m \in Id /\ messages[m].status # "none"
        /\ messages[m].sender = c.user
    BY <1>1, <1>2 DEF CallOK, EntityOK, AskedFor, Stored, Editing
  <1>4. c \in BoxAsks /\ BoxAsks' = BoxAsks
    BY <1>1, AsksStay, AtWorkIsAsked
  <1>5. BoxRow[m].there /\ BoxRow[m].author = c.user
    BY <1>3 DEF BoxRow
  <1>6. BoxRow' = [BoxRow EXCEPT ![m].text = c.text]
    <2>1. messages' = [messages EXCEPT ![m].text = c.text]
      BY <1>1, <1>3
    <2> HIDE DEF m, c
    <2>2. /\ \A k \in Id \ {m} : messages'[k] = messages[k]
          /\ messages'[m].status = messages[m].status
          /\ messages'[m].sender = messages[m].sender
          /\ messages'[m].text = c.text
          /\ messages'[m].cid = messages[m].cid
          /\ messages'[m].shadow = messages[m].shadow
      BY <1>2, <1>3, <2>1 DEF Message
    <2>3. BoxRow'[m] = [BoxRow[m] EXCEPT !.text = c.text]
      BY <1>3, <2>2 DEF BoxRow
    <2>4. \A k \in Id \ {m} : BoxRow'[k] = BoxRow[k]
      BY <2>2 DEF BoxRow
    <2>5. /\ BoxRow = [k \in Id |-> BoxRow[k]]
          /\ BoxRow' = [k \in Id |-> BoxRow'[k]]
      BY DEF BoxRow
    <2> HIDE DEF BoxRow
    <2> QED
      BY <1>3, <2>3, <2>4, <2>5
  <1>7. BoxTold' = BoxTold
    BY <1>1, BoxStays
  <1> HIDE DEF m, c
  <1>8. Box!Edit(m, c)
    BY <1>1, <1>3, <1>4, <1>5, <1>6, <1>7 DEF Box!Edit, m
  <1> QED
    BY <1>3, <1>4, <1>8 DEF Box!Next

(* A deletion that is committed hides the message from the one who asked,  *)
(* or changes nothing but the status.                                      *)
LEMMA SaveDeletionBox ==
  ASSUME MailInv, NEW r \in Request, SaveDeletion(r)
  PROVE  Box!Next \/ UNCHANGED Box!boxVars
  <1> DEFINE c == call[r]
             m == c.target
             e == entity[r]
  <1>1. /\ pc[r] = "saveDeletion" /\ Goto(r, "publish")
        /\ messages' = [messages EXCEPT ![e.id].status =
                          IF e.deleted THEN "tombstone" ELSE "live"]
        /\ deletedFor' = [deletedFor EXCEPT ![e.id] = @ \cup e.hidden]
        /\ UNCHANGED <<call, inbox, acks>>
    BY DEF SaveDeletion, MessagesAfter, DeletedForAfter
  <1>2. /\ CallOK(r) /\ EntityOK(r) /\ AskedFor(r)
        /\ messages \in [Id -> Message] /\ deletedFor \in [Id -> SUBSET User]
    BY DEF MailInv, IInv, RequestOK, AskedForInv, TypeOK
  <1>3. /\ e.id = m /\ m \in Id /\ messages[m].status # "none"
        /\ IF c.op = "deleteForMe"
           THEN deletedFor[m] \cup e.hidden = deletedFor[m] \cup {c.user}
           ELSE e.hidden \subseteq deletedFor[m]
    BY <1>1, <1>2 DEF CallOK, EntityOK, AskedFor, Stored, Deleting
  <1>4. c \in BoxAsks /\ BoxAsks' = BoxAsks
    BY <1>1, AsksStay, AtWorkIsAsked
  <1> DEFINE status == IF e.deleted THEN "tombstone" ELSE "live"
  <1>5. status # "none"
    OBVIOUS
  <1>6. /\ messages' = [messages EXCEPT ![m].status = status]
        /\ deletedFor' = [deletedFor EXCEPT ![m] = deletedFor[m] \cup e.hidden]
    BY <1>1, <1>3
  <1> HIDE DEF c, m, e, status
  <1>7. BoxRow' = BoxRow
    <2>1. /\ \A k \in Id \ {m} : messages'[k] = messages[k]
          /\ messages'[m].status = status
          /\ messages'[m].sender = messages[m].sender
          /\ messages'[m].text = messages[m].text
          /\ messages'[m].cid = messages[m].cid
          /\ messages'[m].shadow = messages[m].shadow
      BY <1>2, <1>3, <1>6 DEF Message
    <2> QED
      BY <1>3, <1>5, <2>1 DEF BoxRow
  <1>8. BoxTold' = BoxTold
    BY <1>1, BoxStays
  <1>9. CASE c.op = "deleteForMe"
    <2>1. deletedFor' = [deletedFor EXCEPT ![m] = @ \cup {c.user}]
      BY <1>3, <1>6, <1>9
    <2>2. BoxRow[m].there
      BY <1>3 DEF BoxRow
    <2>3. Box!Hide(m, c)
      BY <1>1, <1>4, <1>7, <1>8, <1>9, <2>1, <2>2 DEF Box!Hide, m
    <2> QED
      BY <1>3, <1>4, <2>3 DEF Box!Next
  <1>10. CASE c.op # "deleteForMe"
    <2>1. deletedFor[m] \cup e.hidden = deletedFor[m]
      BY <1>3, <1>10
    <2>2. deletedFor' = deletedFor
      BY <1>2, <1>6, <2>1
    <2> QED
      BY <1>1, <1>4, <1>7, <1>8, <2>2 DEF Box!boxVars
  <1> QED
    BY <1>9, <1>10

(* A send is answered with the row of its key.                             *)
LEMMA AnswerBox ==
  ASSUME MailInv, NEW r \in Request, pc[r] # "idle", call[r].op = "send",
         NEW m \in Id, messages[m].status # "none",
         messages[m].sender = call[r].user, messages[m].cid = call[r].cid,
         Answer(r, m), Finish(r), UNCHANGED <<messages, deletedFor, inbox>>
  PROVE  Box!Next
  <1> DEFINE c == call[r]
  <1>1. CASE c.cid = None
    BY <1>1, GoAway, BoxStays DEF Answer
  <1>2. CASE c.cid # None
    <2>1. acks' = acks \cup {[user |-> c.user, cid |-> c.cid, msg |-> m]}
      BY <1>2 DEF Answer
    <2>2. /\ BoxRow[m].there /\ BoxRow[m].author = c.user
          /\ BoxRow[m].cid = c.cid
      BY DEF BoxRow
    <2>3. c \in BoxAsks
      BY AtWorkIsAsked
    <2> HIDE DEF c
    <2>4. Box!Answer(m, c)
      BY <1>2, <2>1, <2>2, <2>3, AsksShrink, BoxStays DEF Box!Answer, c
    <2> QED
      BY <2>3, <2>4 DEF Box!Next
  <1> QED
    BY <1>1, <1>2

(* The steps of a handler.                                                 *)
LEMMA StepBox ==
  ASSUME MailInv, NEW r \in Request, Step(r)
  PROVE  Box!Next \/ UNCHANGED Box!boxVars
  <1> USE DEF tables
  <1>0. CallOK(r) /\ EntityOK(r)
    BY DEF MailInv, IInv, RequestOK
  <1>1. CASE FindNoEarlierSend(r)
    <2>1. AfterLookup(r) # "idle"
      BY DEF AfterLookup
    <2> QED
      BY <1>1, <2>1, GoOn DEF FindNoEarlierSend
  <1>2. CASE FindEarlierSend(r)
    <2>1. PICK m \in RowsOf(call[r].user, call[r].cid) : Answer(r, m)
      BY <1>2 DEF FindEarlierSend
    <2>2. /\ m \in Id /\ messages[m].status # "none"
          /\ messages[m].sender = call[r].user /\ messages[m].cid = call[r].cid
      BY <2>1 DEF RowsOf
    <2>3. pc[r] # "idle" /\ call[r].op = "send"
      BY <1>0, <1>2 DEF FindEarlierSend, CallOK, Sending
    <2> QED
      BY <1>2, <2>1, <2>2, <2>3, AnswerBox DEF FindEarlierSend
  <1>3. CASE Reject(r)
    BY <1>3, GoAway, BoxStays DEF Reject
  <1>4. CASE LoadReply(r) \/ LoadForEdit(r) \/ LoadForDelete(r)
             \/ FindConflictingSend(r)
    <2>1. \/ Reject(r)
          \/ \E l \in {"create", "updateMessage", "beginDeletion"} :
               /\ pc[r] # "idle" /\ Goto(r, l)
               /\ UNCHANGED <<call, messages, deletedFor, inbox, acks>>
      BY <1>4 DEF LoadReply, LoadForEdit, LoadForDelete, FindConflictingSend
    <2> QED
      BY <1>3, <2>1, GoOn
  <1>5. CASE CreateMessage(r) \/ InsertMessage(r) \/ InsertConflict(r)
             \/ LoadExisting(r)
    BY <1>5, GoOn DEF CreateMessage, InsertMessage, InsertConflict,
                      LoadExisting
  <1>6. CASE BeginDeletion(r) \/ LoadConversation(r) \/ SaveConversation(r)
    BY <1>6, GoOn DEF BeginDeletion, LoadConversation, SaveConversation
  <1>7. CASE Publish(r)
    <2>1. CASE call[r].op = "send"
      <3>1. /\ entity[r].saved \in Id
            /\ messages[entity[r].saved].status # "none"
            /\ messages[entity[r].saved].sender = call[r].user
            /\ messages[entity[r].saved].cid = call[r].cid
        BY <1>0, <1>7, <2>1 DEF Publish, EntityOK
      <3> QED
        BY <1>7, <2>1, <3>1, AnswerBox DEF Publish
    <2>2. CASE call[r].op # "send"
      <3>1. acks' = acks
        BY <1>0, <1>7, <2>2 DEF Publish, CallOK, Answer
      <3> QED
        BY <1>7, <3>1, GoAway, BoxStays DEF Publish
    <2> QED
      BY <2>1, <2>2
  <1>8. CASE PublishSeen(r)
    <2> DEFINE n == [kind |-> "seen", msg |-> entity[r].id, text |-> None]
    <2>1. n.kind = "seen" /\ inbox' = [u \in User |-> inbox[u] \cup {n}]
      BY <1>8 DEF PublishSeen
    <2> HIDE DEF n
    <2>2. \A u \in User : {k \in inbox'[u] : k.kind \in Mentions}
                            = {k \in inbox[u] : k.kind \in Mentions}
      BY <2>1 DEF Mentions
    <2>3. BoxTold' = BoxTold
      BY <2>2 DEF BoxTold
    <2> QED
      BY <1>8, <2>3, GoAway DEF PublishSeen
  <1> QED
    BY <1>1, <1>2, <1>4, <1>5, <1>6, <1>7, <1>8, SaveMessageBox,
       UpdateMessageBox, SaveDeletionBox DEF Step

(* An event that is handled tells members of a message that was not        *)
(* withheld from them, or nobody of anything.                              *)
LEMMA HandleEventBox ==
  ASSUME MailInv, NEW e \in events, HandleEvent(e)
  PROVE  Box!Next \/ UNCHANGED Box!boxVars
  <1> DEFINE n == [kind |-> e.kind, msg |-> e.msg, text |-> e.text]
  <1>1. /\ e \in Event /\ e.msg \in Id
        /\ messages[e.msg].shadow \subseteq e.hidden
        /\ e.kind = "created" => e.actor \notin messages[e.msg].shadow
        /\ inbox \in [User -> SUBSET Notice]
    BY DEF MailInv, IInv, TypeOK, EventOK, Event
  <1>2. /\ inbox' = [u \in User |-> IF u \in Rooms(e) THEN inbox[u] \cup {n}
                                    ELSE inbox[u]]
        /\ UNCHANGED <<messages, deletedFor, pc, call, acks>>
    BY DEF HandleEvent, tables
  <1>3. n.kind = e.kind /\ n.msg = e.msg
    OBVIOUS
  <1>4. BoxAsks' = BoxAsks /\ BoxRow' = BoxRow
    BY <1>2, BoxStays DEF BoxAsks
  <1> HIDE DEF n
  <1>5. CASE e.kind \notin Mentions
    <2>1. \A u \in User : {k \in inbox'[u] : k.kind \in Mentions}
                            = {k \in inbox[u] : k.kind \in Mentions}
      BY <1>2, <1>3, <1>5
    <2>2. BoxTold' = BoxTold
      BY <2>1 DEF BoxTold
    <2> QED
      BY <1>2, <1>4, <2>2 DEF Box!boxVars
  <1>6. CASE e.kind \in Mentions
    <2> DEFINE rooms == Rooms(e) \cap User
    <2>1. rooms \cap BoxRow[e.msg].shadow = {}
      <3>1. Rooms(e) \cap messages[e.msg].shadow = {}
        <4>1. CASE e.kind = "created"
          BY <1>1, <4>1 DEF Rooms, CreatedRooms
        <4>2. CASE e.kind = "edited"
          BY <1>1, <4>2 DEF Rooms, EditedRooms
        <4>3. CASE e.kind = "deletedForEveryone"
          BY <1>1, <4>3 DEF Rooms, DeletedRooms
        <4> QED
          BY <1>6, <4>1, <4>2, <4>3 DEF Mentions
      <3> QED
        BY <1>1, <3>1 DEF BoxRow
    <2>2. BoxTold' = [u \in User |-> IF u \in rooms
                                     THEN BoxTold[u] \cup {e.msg}
                                     ELSE BoxTold[u]]
      <3>1. ASSUME NEW u \in User
            PROVE  {k.msg : k \in {j \in inbox'[u] : j.kind \in Mentions}}
                     = IF u \in rooms
                       THEN {k.msg : k \in {j \in inbox[u] :
                                              j.kind \in Mentions}}
                            \cup {e.msg}
                       ELSE {k.msg : k \in {j \in inbox[u] :
                                              j.kind \in Mentions}}
        <4>1. inbox'[u] = IF u \in rooms THEN inbox[u] \cup {n}
                          ELSE inbox[u]
          BY <1>2
        <4> HIDE DEF rooms
        <4> QED
          BY <1>3, <1>6, <4>1
      <3> HIDE DEF rooms
      <3> QED
        BY <3>1 DEF BoxTold
    <2>3. Box!Tell(e.msg, rooms)
      BY <1>2, <1>4, <2>1, <2>2 DEF Box!Tell
    <2>4. rooms \in SUBSET User
      OBVIOUS
    <2> HIDE DEF rooms
    <2> QED
      BY <1>1, <2>3, <2>4 DEF Box!Next
  <1> QED
    BY <1>5, <1>6

(* Every step is one of the mailbox, or changes nothing of it.             *)
LEMMA NextBox == MailInv /\ [Next]_vars => [Box!Next]_(Box!boxVars)
  <1> SUFFICES ASSUME MailInv, [Next]_vars
               PROVE  Box!Next \/ UNCHANGED Box!boxVars
    OBVIOUS
  <1>1. ASSUME NEW r \in Request, FailRequest(r)
        PROVE  Box!Next
    BY <1>1, GoAway, BoxStays DEF FailRequest, Reject, tables
  <1>2. ASSUME NEW e \in events, LoseEvent(e)
        PROVE  UNCHANGED Box!boxVars
    BY <1>2, BoxStays DEF LoseEvent, tables, Box!boxVars, BoxAsks
  <1>3. CASE UNCHANGED vars
    BY <1>3, BoxStays DEF vars, Box!boxVars, BoxAsks
  <1> QED
    BY <1>1, <1>2, <1>3, ArriveBox, StepBox, HandleEventBox DEF Next

(* The tables start empty, like the mailbox.                               *)
LEMMA InitBox == Init => Box!Init
  <1> SUFFICES ASSUME Init PROVE Box!Init
    OBVIOUS
  <1>1. BoxAsks = {}
    BY DEF Init, BoxAsks
  <1>2. BoxRow = [m \in Id |-> Box!Blank]
    BY DEF Init, BoxRow, NoMessage, Box!Blank
  <1>3. BoxTold = [u \in User |-> {}]
    BY DEF Init, BoxTold
  <1> QED
    BY <1>1, <1>2, <1>3 DEF Init, Box!Init

(* Messaging implements Mailbox.                                           *)
THEOREM MessagingIsMailbox == Spec => ImplementsMailbox
  BY AskedInit, AskedNext, InitBox, NextBox, PTL
  DEF Spec, Box!Spec, ImplementsMailbox
=============================================================================
