------------------------ MODULE Conversations_proofs ------------------------
(***************************************************************************)
(* Proofs about Conversations: the inductive invariant IInv, and from it   *)
(* that blocks which stood as long as a request ran are respected, whatever*)
(* else is blocked and unblocked meanwhile, that a pair has one            *)
(* conversation and that a rollback leaves nothing behind.                 *)
(***************************************************************************)
EXTENDS Conversations, UserBlocks_proofs

(* What Facts says of a call, by cases.                                    *)
LEMMA FactsMeaning ==
  ASSUME NEW c
  PROVE  /\ Facts(c) \subseteq Fact
         /\ "blocked" \in Facts(c) <=> HasBlocked(c.to, c.user)
         /\ "blocker" \in Facts(c) <=> HasBlocked(c.user, c.to)
         /\ "free" \in Facts(c) <=> /\ ~HasBlocked(c.to, c.user)
                                    /\ ~HasBlocked(c.user, c.to)
  BY DEF Facts, Fact

(* A call put together from parts of the right kind is one.                *)
LEMMA NewCallOK ==
  ASSUME NEW op \in {"none", "create", "send", "edit"},
         NEW u \in User \cup {None}, NEW v \in User \cup {None},
         NEW k \in {0} \cup ConvId, NEW m \in {0} \cup MsgId,
         NEW unread \in SUBSET {"blocker", "blocked"}, NEW withheld \in BOOLEAN
  PROVE  /\ NewCall(op, u, v, k, m, unread, withheld) \in Call
         /\ NewCall(op, u, v, k, m, unread, withheld).op = op
         /\ NewCall(op, u, v, k, m, unread, withheld).user = u
         /\ NewCall(op, u, v, k, m, unread, withheld).to = v
         /\ NewCall(op, u, v, k, m, unread, withheld).conv = k
         /\ NewCall(op, u, v, k, m, unread, withheld).msg = m
         /\ NewCall(op, u, v, k, m, unread, withheld).unread = unread
         /\ NewCall(op, u, v, k, m, unread, withheld).withheld = withheld
  BY DEF NewCall, Call

(* The parts of a call.                                                    *)
LEMMA CallParts ==
  ASSUME NEW c \in Call
  PROVE  /\ c.op \in {"none", "create", "send", "edit"}
         /\ c.user \in User \cup {None} /\ c.to \in User \cup {None}
         /\ c.conv \in {0} \cup ConvId /\ c.msg \in {0} \cup MsgId
         /\ c.unread \in SUBSET {"blocker", "blocked"}
         /\ c.withheld \in BOOLEAN
  BY DEF Call

(* Before the first request nothing has happened.                          *)
LEMMA InitOK == Init => IInv
  <1> SUFFICES ASSUME Init PROVE IInv
    OBVIOUS
  <1>1. BlocksInv
    BY BlocksInitOK DEF Init
  <1>2. NoCall \in Call
    BY NewCallOK DEF NoCall
  <1>3. TypeOK
    BY <1>1, <1>2, ConversationsAssumption
    DEF Init, TypeOK, BlocksInv, Conversation, NoConversation, Message,
        NoMessage, Label
  <1>4. \A r \in ChatRequest : RequestOK(r)
    BY DEF Init, RequestOK, Working
  <1>5. Apart
    BY DEF Init, Apart, Working, Owning
  <1>6. /\ StoredOK /\ EventsOK /\ SendsRespectBlocks /\ CreationRespectsBlocks
        /\ BlockerHearsNothing /\ OneConversationPerPair /\ NoEmptyLeftover
        /\ AnnouncedStays
    BY DEF Init, StoredOK, EventsOK, SendsRespectBlocks,
           CreationRespectsBlocks, BlockerHearsNothing,
           OneConversationPerPair, NoEmptyLeftover, AnnouncedStays,
           NoConversation, NoMessage
  <1> QED
    BY <1>1, <1>3, <1>4, <1>5, <1>6 DEF IInv

----------------------------------------------------------------------------
(* What a step of request r may do.                                        *)

Moves(r) == /\ pc' = [pc EXCEPT ![r] = pc'[r]]
            /\ call' = [call EXCEPT ![r] = call'[r]]
            /\ since' = [since EXCEPT ![r] = since'[r]]

(* It writes a new conversation for its pair, or deletes its own ...       *)
ConvsGrow(r) ==
  \A c \in ConvId :
    \/ convs'[c] = convs[c]
    \/ /\ pc[r] = "saveConversation" /\ call[r].op = "create"
       /\ convs[c].status = "none" /\ convs'[c].status = "live"
       /\ {convs'[c].by, convs'[c].to} = PairOf(r)
    \/ Owning(r) /\ c = call[r].conv /\ convs'[c].status = "deleted"

(* ... changes no message that is stored ...                               *)
MsgsGrow == \A m \in MsgId : msgs[m].conv # 0 => msgs'[m] = msgs[m]

(* ... and announces no conversation but its own.                          *)
InboxGrows(r) ==
  \A u \in User : \A n \in inbox'[u] :
    \/ n \in inbox[u]
    \/ n.kind # "conversation"
    \/ Owning(r) /\ n.conv = call[r].conv

(* Such a step keeps what the invariant says of the other requests.        *)
LEMMA OthersKeep ==
  ASSUME IInv, NEW r \in ChatRequest, Moves(r), UNCHANGED blocks,
         clashed \subseteq clashed', ConvsGrow(r), MsgsGrow, InboxGrows(r)
  PROVE  \A q \in ChatRequest \ {r} : RequestOK(q)'
  <1> SUFFICES ASSUME NEW q \in ChatRequest, q # r, Working(q)'
               PROVE  (CallOK(q) /\ SinceOK(q) /\ OwnedOK(q))'
    BY DEF RequestOK
  <1>1. /\ pc'[q] = pc[q] /\ call'[q] = call[q] /\ since'[q] = since[q]
        /\ PairOf(q)' = PairOf(q)
    BY DEF IInv, TypeOK, Moves, PairOf
  <1>2. Working(q) /\ CallOK(q) /\ SinceOK(q) /\ OwnedOK(q)
    BY <1>1 DEF IInv, RequestOK, Working
  <1>3. CallOK(q)'
    BY <1>1, <1>2 DEF CallOK, ConvsGrow, MsgsGrow
  <1>4. SinceOK(q)'
    <2>1. Facts(call[q])' = Facts(call[q])
      BY <1>1 DEF Facts, HasBlocked
    <2> QED
      BY <1>1, <1>2, <2>1 DEF SinceOK, Past
  <1>5. OwnedOK(q)'
    <2>1. ASSUME Owning(q)
          PROVE  /\ convs'[call[q].conv] = convs[call[q].conv]
                 /\ \A u \in User : \A n \in inbox'[u] :
                      n.kind = "conversation" => n.conv # call[q].conv
      <3>1. /\ call[q].conv \in ConvId /\ convs[call[q].conv].status = "live"
            /\ \A u \in User : \A n \in inbox[u] :
                 n.kind = "conversation" => n.conv # call[q].conv
        BY <1>2, <2>1 DEF OwnedOK
      <3>2. Owning(r) => call[r].conv # call[q].conv
        BY <2>1 DEF IInv, Apart
      <3> QED
        BY <3>1, <3>2 DEF ConvsGrow, InboxGrows
    <2>2. ASSUME pc[q] = "saveConversation",
                 PairOf(q) \notin clashed'
          PROVE  ~Exists(call[q].user, call[q].to)'
      <3>1. call[q].op = "create" /\ ~Exists(call[q].user, call[q].to)
        BY <1>2, <2>2 DEF OwnedOK, CallOK
      <3>2. ASSUME NEW c \in ConvId, convs'[c].status = "live",
                   {convs'[c].by, convs'[c].to} = PairOf(q)
            PROVE  FALSE
        <4>1. CASE convs'[c] = convs[c]
          BY <3>1, <3>2, <4>1 DEF Exists, PairOf
        <4>2. CASE /\ pc[r] = "saveConversation" /\ call[r].op = "create"
                   /\ {convs'[c].by, convs'[c].to} = PairOf(r)
          BY <1>2, <2>2, <3>1, <3>2, <4>2 DEF IInv, Apart, Working
        <4> QED
          BY <3>2, <4>1, <4>2 DEF ConvsGrow
      <3> QED
        BY <3>2, <1>1 DEF Exists, PairOf
    <2> QED
      BY <1>1, <1>2, <2>1, <2>2 DEF OwnedOK, Owning
  <1> QED
    BY <1>3, <1>4, <1>5

(* Conversations stay apart if r keeps its own, or has one that was free.  *)
LEMMA ApartKeep ==
  ASSUME IInv, NEW r \in ChatRequest, Moves(r), clashed \subseteq clashed',
         Working(r)' /\ call'[r].op = "create" =>
           \/ /\ Working(r) /\ call[r].op = "create"
              /\ PairOf(r)' = PairOf(r)
           \/ \A q \in ChatRequest \ {r} :
                Working(q) /\ call[q].op = "create"
                  /\ PairOf(q) = PairOf(r)'
                => PairOf(r)' \in clashed',
         Owning(r)' => \/ Owning(r) /\ call'[r].conv = call[r].conv
                       \/ /\ call'[r].conv \in ConvId
                          /\ convs[call'[r].conv].status = "none"
  PROVE  Apart'
  <1>1. \A q \in ChatRequest \ {r} : /\ pc'[q] = pc[q] /\ call'[q] = call[q]
                                     /\ PairOf(q)' = PairOf(q)
    BY DEF IInv, TypeOK, Moves, PairOf
  <1>2. \A q \in ChatRequest \ {r} :
          Owning(q) => convs[call[q].conv].status = "live"
    BY DEF IInv, RequestOK, OwnedOK, Working, Owning
  <1>3. \A q \in ChatRequest \ {r} :
          Owning(r)' /\ Owning(q) => call'[r].conv # call[q].conv
    BY <1>2 DEF IInv, Apart
  <1>4. \A q \in ChatRequest \ {r} :
          /\ Working(r)' /\ call'[r].op = "create"
          /\ Working(q) /\ call[q].op = "create"
          /\ PairOf(q) = PairOf(r)'
          => PairOf(r)' \in clashed'
    BY DEF IInv, Apart
  <1>5. \A p, q \in ChatRequest \ {r} : p # q =>
          /\ Owning(p) /\ Owning(q) => call[p].conv # call[q].conv
          /\ /\ Working(p) /\ call[p].op = "create"
             /\ Working(q) /\ call[q].op = "create"
             /\ PairOf(p) = PairOf(q)
             => PairOf(p) \in clashed'
    BY DEF IInv, Apart
  <1> SUFFICES ASSUME NEW p \in ChatRequest, NEW q \in ChatRequest, p # q
               PROVE
                 /\ Owning(p)' /\ Owning(q)' => call'[p].conv # call'[q].conv
                 /\ /\ Working(p)' /\ call'[p].op = "create"
                    /\ Working(q)' /\ call'[q].op = "create"
                    /\ PairOf(p)' = PairOf(q)'
                    => PairOf(p)' \in clashed'
    BY DEF Apart
  <1>6. CASE p # r /\ q # r
    BY <1>1, <1>5, <1>6 DEF Owning, Working
  <1>7. CASE p = r /\ q # r
    BY <1>1, <1>3, <1>4, <1>7 DEF Owning, Working
  <1>8. CASE p # r /\ q = r
    BY <1>1, <1>3, <1>4, <1>8 DEF Owning, Working
  <1> QED
    BY <1>6, <1>7, <1>8

(* The blocks stay as they are while a gateway handler works.              *)
LEMMA BlocksKeep ==
  ASSUME IInv, UNCHANGED blockVars
  PROVE  BlocksInv' /\ BlocksTypeOK' /\ blocks' = blocks
  BY DEF IInv, blockVars, BlocksInv, BlocksTypeOK, BlockRequestOK, OneAtATime,
         RestingAgree, AtWork

(* A step that touches none of the tables keeps what is said of them.      *)
LEMMA TablesKeep ==
  ASSUME IInv, UNCHANGED <<convs, msgs, events, inbox, clashed>>
  PROVE  /\ StoredOK' /\ EventsOK' /\ SendsRespectBlocks'
         /\ CreationRespectsBlocks' /\ BlockerHearsNothing'
         /\ OneConversationPerPair' /\ AnnouncedStays'
  BY DEF IInv, StoredOK, EventsOK, SendsRespectBlocks, CreationRespectsBlocks,
         BlockerHearsNothing, OneConversationPerPair, AnnouncedStays

(* A conversation without a message still has its request, if that request *)
(* goes on with it, was cut short, or has stored the message.              *)
LEMMA LeftoverKeep ==
  ASSUME IInv, NEW r \in ChatRequest, Moves(r), UNCHANGED convs, MsgsGrow,
         cut \subseteq cut',
         pc[r] \in {"firstMessage", "rollback"} =>
           \/ /\ pc'[r] \in {"firstMessage", "rollback"}
              /\ call'[r].op = call[r].op /\ call'[r].conv = call[r].conv
           \/ PairOf(r) \in cut'
           \/ \E m \in MsgId : msgs'[m].conv = call[r].conv
  PROVE  NoEmptyLeftover'
  <1> SUFFICES ASSUME NEW c \in ConvId, convs[c].status = "live",
                      {convs[c].by, convs[c].to} \notin cut',
                      \A m \in MsgId : msgs'[m].conv # c
               PROVE  \E q \in ChatRequest :
                        /\ call'[q].op = "create" /\ call'[q].conv = c
                        /\ pc'[q] \in {"firstMessage", "rollback"}
    BY DEF NoEmptyLeftover
  <1>1. \A m \in MsgId : msgs[m].conv # c
    BY DEF MsgsGrow, ConvId
  <1>2. PICK q \in ChatRequest : /\ call[q].op = "create" /\ call[q].conv = c
                                 /\ pc[q] \in {"firstMessage", "rollback"}
    BY <1>1 DEF IInv, NoEmptyLeftover
  <1>3. CASE q # r
    BY <1>2, <1>3 DEF IInv, TypeOK, Moves
  <1>4. CASE q = r
    <2>1. {convs[c].by, convs[c].to} = PairOf(r)
      BY <1>2, <1>4 DEF IInv, RequestOK, OwnedOK, Owning, Working
    <2> QED
      BY <1>2, <1>4, <2>1
  <1> QED
    BY <1>3, <1>4

(* A request ends, having left no conversation without a message.          *)
LEMMA RejectOK ==
  ASSUME IInv, NEW r \in ChatRequest, Working(r), Finish(r),
         UNCHANGED <<blockVars, convs, msgs, events, inbox, clashed,
                     received>>,
         cut \subseteq cut', cut' \subseteq SUBSET User,
         pc[r] \in {"firstMessage", "rollback"} => PairOf(r) \in cut'
  PROVE  IInv'
  <1>1. /\ Moves(r) /\ pc'[r] = "idle" /\ call'[r] = NoCall
        /\ ~Working(r)' /\ ~Owning(r)'
    BY DEF Moves, Finish, Goto, Hold, IInv, TypeOK, Working, Owning
  <1>2. BlocksInv' /\ BlocksTypeOK' /\ blocks' = blocks
    BY BlocksKeep
  <1>3. TypeOK'
    <2>1. NoCall \in Call
      BY NewCallOK DEF NoCall
    <2> QED
      BY <1>2, <2>1 DEF IInv, TypeOK, Finish, Goto, Hold, Label
  <1>4. ConvsGrow(r) /\ MsgsGrow /\ InboxGrows(r)
    BY DEF ConvsGrow, MsgsGrow, InboxGrows
  <1>5. \A q \in ChatRequest : RequestOK(q)'
    BY <1>1, <1>2, <1>4, OthersKeep DEF RequestOK
  <1>6. Apart'
    BY <1>1, ApartKeep
  <1>7. NoEmptyLeftover'
    BY <1>1, <1>4, LeftoverKeep
  <1> QED
    BY <1>2, <1>3, <1>5, <1>6, <1>7, TablesKeep DEF IInv

(* A request goes on to l with a call c for the same pair.                 *)
LEMMA ContinueOK ==
  ASSUME IInv, NEW r \in ChatRequest, Working(r), ~Owning(r),
         NEW l \in Label \ {"idle", "firstMessage", "rollback", "announce"},
         NEW c \in Call, Continue(r, l, c),
         c.op = call[r].op, c.user = call[r].user, c.to = call[r].to,
         RequestOK(r)'
  PROVE  IInv'
  <1>1. /\ Moves(r) /\ pc'[r] = l /\ call'[r] = c /\ ~Owning(r)'
        /\ UNCHANGED <<blockVars, convs, msgs, since, events, inbox, clashed,
                       cut, received>>
        /\ PairOf(r)' = PairOf(r)
    BY DEF Moves, Continue, Goto, Hold, IInv, TypeOK, Owning, PairOf
  <1>2. BlocksInv' /\ BlocksTypeOK' /\ blocks' = blocks
    BY <1>1, BlocksKeep
  <1>3. TypeOK'
    BY <1>1, <1>2 DEF IInv, TypeOK, Continue, Goto, Hold
  <1>4. ConvsGrow(r) /\ MsgsGrow /\ InboxGrows(r)
    BY <1>1 DEF ConvsGrow, MsgsGrow, InboxGrows
  <1>5. \A q \in ChatRequest : RequestOK(q)'
    BY <1>1, <1>2, <1>4, OthersKeep
  <1>6. Apart'
    BY <1>1, ApartKeep
  <1>7. NoEmptyLeftover'
    BY <1>1, <1>4, LeftoverKeep DEF Owning
  <1> QED
    BY <1>1, <1>2, <1>3, <1>5, <1>6, <1>7, TablesKeep DEF IInv

----------------------------------------------------------------------------
(* Requests come in.                                                       *)

(* A request that comes in with a call that fits keeps the invariant.      *)
LEMMA ReceiveOK ==
  ASSUME IInv, NEW r \in ChatRequest, NEW l \in {"status", "update"},
         NEW c \in Call, Receive(r, l, c),
         c.user \in User, c.to \in User, c.user # c.to,
         c.withheld = FALSE,
         \/ l = "status" /\ c.op \in {"create", "send"}
                         /\ c.unread = {"blocker", "blocked"}
         \/ l = "update" /\ c.op = "edit",
         c.op = "send" => c.conv \in ConvId /\ convs[c.conv].status # "none",
         c.op = "edit" => c.msg \in MsgId /\ msgs[c.msg].conv # 0,
         clashed \subseteq clashed', clashed' \subseteq SUBSET User,
         c.op = "create" =>
           \A q \in ChatRequest :
             call[q].op = "create" /\ PairOf(q) = {c.user, c.to}
               => {c.user, c.to} \in clashed'
  PROVE  IInv'
  <1>1. /\ Moves(r) /\ pc'[r] = l /\ call'[r] = c
        /\ since'[r] = Facts(c) /\ pc[r] = "idle" /\ ~Owning(r)'
        /\ UNCHANGED <<blockVars, convs, msgs, events, inbox, cut>>
        /\ PairOf(r)' = {c.user, c.to}
        /\ received' = received + 1 /\ received < MaxChatRequests
    BY DEF Moves, Receive, Goto, Hold, IInv, TypeOK, Owning, PairOf
  <1>2. BlocksInv' /\ BlocksTypeOK' /\ blocks' = blocks
    BY <1>1, BlocksKeep
  <1>3. TypeOK'
    <2>1. received' \in 0 .. MaxChatRequests
      BY <1>1, ConversationsAssumption DEF IInv, TypeOK
    <2>2. since' \in [ChatRequest -> SUBSET Fact]
      BY FactsMeaning DEF IInv, TypeOK, Receive
    <2> QED
      BY <1>1, <1>2, <2>1, <2>2
      DEF IInv, TypeOK, Receive, Goto, Hold, Label
  <1>4. ConvsGrow(r) /\ MsgsGrow /\ InboxGrows(r)
    BY <1>1 DEF ConvsGrow, MsgsGrow, InboxGrows
  <1>5. RequestOK(r)'
    <2>1. CallOK(r)'
      BY <1>1 DEF CallOK
    <2>2. SinceOK(r)'
      <3>1. Facts(call[r])' = Facts(c)
        BY <1>1, <1>2 DEF Facts, HasBlocked
      <3> QED
        BY <1>1, <3>1 DEF SinceOK, Past
    <2>3. OwnedOK(r)'
      BY <1>1 DEF OwnedOK, Owning
    <2> QED
      BY <2>1, <2>2, <2>3 DEF RequestOK
  <1>6. \A q \in ChatRequest : RequestOK(q)'
    BY <1>1, <1>2, <1>4, <1>5, OthersKeep
  <1>7. Apart'
    BY <1>1, ApartKeep
  <1>8. NoEmptyLeftover'
    BY <1>1, <1>4, LeftoverKeep
  <1>9. OneConversationPerPair'
    BY <1>1 DEF IInv, OneConversationPerPair
  <1>10. /\ StoredOK' /\ EventsOK' /\ SendsRespectBlocks'
         /\ CreationRespectsBlocks' /\ BlockerHearsNothing' /\ AnnouncedStays'
    BY <1>1 DEF IInv, StoredOK, EventsOK, SendsRespectBlocks,
                CreationRespectsBlocks, BlockerHearsNothing, AnnouncedStays
  <1> QED
    BY <1>2, <1>3, <1>6, <1>7, <1>8, <1>9, <1>10 DEF IInv

(* The three kinds of requests fit.                                        *)
LEMMA ArriveOK ==
  ASSUME IInv, NEW r \in ChatRequest, Arrive(r)
  PROVE  IInv'
  <1>1. ASSUME NEW u \in User, NEW v \in User, ReceiveCreate(r, u, v)
        PROVE  IInv'
    <2> DEFINE c == NewCall("create", u, v, 0, 0, {"blocker", "blocked"},
                            FALSE)
    <2>1. /\ c \in Call /\ c.op = "create" /\ c.user = u /\ c.to = v
          /\ c.withheld = FALSE /\ c.unread = {"blocker", "blocked"}
      BY DEF NewCall, Call
    <2>2. Receive(r, "status", c) /\ u # v
      BY <1>1 DEF ReceiveCreate
    <2> HIDE DEF c
    <2>3. clashed \subseteq clashed' /\ clashed' \subseteq SUBSET User
      BY <1>1 DEF ReceiveCreate, IInv, TypeOK
    <2>4. \A q \in ChatRequest :
            call[q].op = "create" /\ PairOf(q) = {u, v} => {u, v} \in clashed'
      BY <1>1 DEF ReceiveCreate, PairOf
    <2> QED
      BY <2>1, <2>2, <2>3, <2>4, ReceiveOK
  <1>2. ASSUME NEW u \in User, NEW v \in User, NEW k \in ConvId,
               ReceiveSend(r, u, v, k)
        PROVE  IInv'
    <2> DEFINE c == NewCall("send", u, v, k, 0, {"blocker", "blocked"}, FALSE)
    <2>1. /\ c \in Call /\ c.op = "send" /\ c.user = u /\ c.to = v
          /\ c.conv = k /\ c.withheld = FALSE
          /\ c.unread = {"blocker", "blocked"}
      BY DEF NewCall, Call
    <2>2. /\ Receive(r, "status", c) /\ u # v /\ convs[k].status # "none"
          /\ clashed' = clashed /\ clashed \subseteq SUBSET User
      BY <1>2 DEF ReceiveSend, IInv, TypeOK
    <2> HIDE DEF c
    <2> QED
      BY <2>1, <2>2, ReceiveOK
  <1>3. ASSUME NEW u \in User, NEW v \in User, NEW m \in MsgId,
               ReceiveEdit(r, u, v, m)
        PROVE  IInv'
    <2> DEFINE c == NewCall("edit", u, v, msgs[m].conv, m, {}, FALSE)
    <2>0. msgs[m].conv \in {0} \cup ConvId
      BY DEF IInv, TypeOK, Message
    <2>1. /\ c \in Call /\ c.op = "edit" /\ c.user = u /\ c.to = v
          /\ c.msg = m /\ c.withheld = FALSE
      BY <2>0 DEF NewCall, Call
    <2>2. /\ Receive(r, "update", c) /\ u # v /\ msgs[m].conv # 0
          /\ clashed' = clashed /\ clashed \subseteq SUBSET User
      BY <1>3 DEF ReceiveEdit, IInv, TypeOK
    <2> HIDE DEF c
    <2> QED
      BY <2>1, <2>2, ReceiveOK
  <1> QED
    BY <1>1, <1>2, <1>3 DEF Arrive

----------------------------------------------------------------------------
(* The status queries.                                                     *)

(* An answer that agrees with what has held all along keeps the invariant. *)
LEMMA AskedOK ==
  ASSUME IInv, NEW r \in ChatRequest, pc[r] \in {"status", "relation"},
         NEW fact \in {"blocker", "blocked"}, fact \in call[r].unread,
         NEW c \in Call, c.op = call[r].op, c.user = call[r].user,
         c.to = call[r].to, c.conv = call[r].conv, c.msg = call[r].msg,
         Asked(r, c, call[r].unread \ {fact}),
         Past(r, "blocker") \/ fact = "blocker" => "blocker" \notin since[r],
         Past(r, "blocked") \/ fact = "blocked" =>
           ("blocked" \in since[r] => c.withheld),
         "free" \in since[r] => ~c.withheld,
         pc[r] = "relation"
           /\ ("blocked" \notin call[r].unread \/ fact = "blocked")
           => "blocked" \notin since[r]
  PROVE  IInv'
  <1> DEFINE missing == call[r].unread \ {fact}
             both == {"blocker", "blocked"}
             l == IF missing # {} THEN pc[r] ELSE AfterStatus(r)
             unread == IF missing # {} THEN missing
                       ELSE IF AfterStatus(r) = "relation" THEN both ELSE {}
             n == NewCall(c.op, c.user, c.to, c.conv, c.msg, unread,
                          c.withheld)
  <1>1. /\ c.op \in {"none", "create", "send", "edit"}
        /\ c.user \in User \cup {None} /\ c.to \in User \cup {None}
        /\ c.conv \in {0} \cup ConvId /\ c.msg \in {0} \cup MsgId
        /\ c.withheld \in BOOLEAN
        /\ call[r].unread \in SUBSET both
    BY CallParts DEF IInv, TypeOK
  <1>2. Working(r) /\ CallOK(r) /\ SinceOK(r) /\ ~Owning(r)
    BY DEF IInv, RequestOK, Working, Owning
  <1>3. /\ n \in Call /\ n.op = call[r].op /\ n.user = call[r].user
        /\ n.to = call[r].to /\ n.conv = call[r].conv /\ n.msg = call[r].msg
        /\ n.unread = unread /\ n.withheld = c.withheld
    BY <1>1 DEF NewCall, Call
  <1>4. Continue(r, l, n)
    BY DEF Asked
  <1>5. \/ missing # {} /\ l = pc[r] /\ unread = missing
        \/ /\ missing = {} /\ pc[r] = "relation" /\ l = "exists"
           /\ call[r].op = "create"
        \/ /\ missing = {} /\ pc[r] = "status" /\ l = "relation"
           /\ call[r].op = "create" /\ unread = both
        \/ /\ missing = {} /\ pc[r] = "status" /\ l = "insert"
           /\ call[r].op = "send"
    BY <1>2 DEF AfterStatus, CallOK
  <1> HIDE DEF l, unread, n
  <1>6. /\ l \in Label \ {"idle", "firstMessage", "rollback", "announce"}
        /\ pc'[r] = l /\ call'[r] = n /\ since'[r] = since[r]
        /\ UNCHANGED <<blocks, convs, msgs, inbox, clashed>>
    BY <1>4, <1>5 DEF Label, Continue, Goto, Hold, IInv, TypeOK, blockVars
  <1>7. CallOK(r)'
    BY <1>2, <1>3, <1>5, <1>6 DEF CallOK
  <1>8. SinceOK(r)'
    <2>1. Facts(call[r])' = Facts(call[r])
      BY <1>3, <1>6 DEF Facts, HasBlocked
    <2>2. since'[r] \subseteq Facts(call[r])'
      BY <1>2, <1>6, <2>1 DEF SinceOK
    <2>4. n.op # "edit" /\ Past(r, "blocker")' => "blocker" \notin since[r]
      BY <1>1, <1>2, <1>3, <1>5, <1>6 DEF Past, SinceOK
    <2>5. n.op # "edit" /\ Past(r, "blocked")' =>
            ("blocked" \in since[r] => n.withheld)
      BY <1>1, <1>2, <1>3, <1>5, <1>6 DEF Past, SinceOK
    <2>6. n.op = "create" /\ l # "status"
            /\ (l = "relation" => "blocked" \notin n.unread)
            => "blocked" \notin since[r]
      BY <1>2, <1>3, <1>5 DEF SinceOK
    <2> QED
      BY <1>3, <1>6, <2>2, <2>4, <2>5, <2>6 DEF SinceOK
  <1>9. OwnedOK(r)'
    BY <1>5, <1>6 DEF OwnedOK, Owning
  <1>10. RequestOK(r)'
    BY <1>7, <1>8, <1>9 DEF RequestOK
  <1> QED
    BY <1>2, <1>3, <1>4, <1>6, <1>10, ContinueOK

(* Whoever has blocked the other is turned away.                           *)
LEMMA ReadIsBlockerOK ==
  ASSUME IInv, NEW r \in ChatRequest, ReadIsBlocker(r)
  PROVE  IInv'
  <1>1. /\ pc[r] \in {"status", "relation"} /\ "blocker" \in call[r].unread
        /\ Working(r) /\ SinceOK(r) /\ CallOK(r)
    BY DEF ReadIsBlocker, IInv, RequestOK, Working
  <1>2. CASE Reject(r)
    <2>1. Finish(r) /\ cut \subseteq cut' /\ cut' \subseteq SUBSET User
      BY <1>2 DEF Reject, IInv, TypeOK
    <2> QED
      BY <1>1, <1>2, <2>1, RejectOK DEF Reject
  <1>3. CASE /\ ~HasBlocked(call[r].user, call[r].to)
             /\ Asked(r, call[r], call[r].unread \ {"blocker"})
    <2>1. call[r] \in Call
      BY DEF IInv, TypeOK
    <2>2. "blocker" \notin since[r]
      BY <1>1, <1>3, FactsMeaning DEF SinceOK
    <2>3. call[r].op # "edit" /\ (pc[r] = "relation" => call[r].op = "create")
      BY <1>1 DEF CallOK
    <2> QED
      BY <1>1, <1>3, <2>1, <2>2, <2>3, AskedOK DEF SinceOK
  <1> QED
    BY <1>2, <1>3 DEF ReadIsBlocker

(* Whoever is blocked is turned away by the second look at a creation; a   *)
(* message is withheld.                                                    *)
LEMMA ReadIsBlockedOK ==
  ASSUME IInv, NEW r \in ChatRequest, ReadIsBlocked(r)
  PROVE  IInv'
  <1> DEFINE c == call[r]
             blocked == HasBlocked(c.to, c.user)
             n == NewCall(c.op, c.user, c.to, c.conv, c.msg, c.unread,
                          c.withheld \/ blocked)
  <1>1. /\ pc[r] \in {"status", "relation"} /\ "blocked" \in c.unread
        /\ Working(r) /\ SinceOK(r) /\ CallOK(r) /\ c \in Call
    BY DEF ReadIsBlocked, IInv, RequestOK, Working, TypeOK
  <1>2. c.op # "edit" /\ (pc[r] = "relation" => c.op = "create")
    BY <1>1 DEF CallOK
  <1>3. CASE Reject(r)
    <2>1. Finish(r) /\ cut \subseteq cut' /\ cut' \subseteq SUBSET User
      BY <1>3 DEF Reject, IInv, TypeOK
    <2> QED
      BY <1>1, <1>3, <2>1, RejectOK DEF Reject
  <1>4. CASE /\ blocked => pc[r] # "relation"
             /\ Asked(r, n, c.unread \ {"blocked"})
    <2>1. /\ c.op \in {"none", "create", "send", "edit"}
          /\ c.user \in User \cup {None} /\ c.to \in User \cup {None}
          /\ c.conv \in {0} \cup ConvId /\ c.msg \in {0} \cup MsgId
          /\ c.withheld \in BOOLEAN
          /\ c.unread \in SUBSET {"blocker", "blocked"}
      BY <1>1, CallParts
    <2>2. /\ n \in Call /\ n.op = c.op /\ n.user = c.user
          /\ n.to = c.to /\ n.conv = c.conv /\ n.msg = c.msg
          /\ n.unread = c.unread /\ n.withheld = (c.withheld \/ blocked)
      <3>1. (c.withheld \/ blocked) \in BOOLEAN
        BY Zenon
      <3> QED
        BY <2>1, <3>1 DEF NewCall, Call
    <2>3. /\ "blocked" \in since[r] => blocked
          /\ "free" \in since[r] => ~blocked
      BY <1>1, FactsMeaning DEF SinceOK
    <2>4. /\ "free" \in since[r] => ~n.withheld
          /\ "blocked" \in since[r] => n.withheld
          /\ pc[r] = "relation" => "blocked" \notin since[r]
      BY <1>1, <1>4, <2>1, <2>2, <2>3 DEF SinceOK
    <2>5. Past(r, "blocker") => "blocker" \notin since[r]
      BY <1>1, <1>2 DEF SinceOK
    <2> HIDE DEF n, blocked
    <2> QED
      BY <1>1, <1>4, <2>2, <2>4, <2>5, AskedOK
  <1> QED
    BY <1>3, <1>4 DEF ReadIsBlocked

----------------------------------------------------------------------------
(* A conversation is created.                                              *)

(* A pair that has a conversation is turned away.                          *)
LEMMA CheckConversationOK ==
  ASSUME IInv, NEW r \in ChatRequest, CheckConversation(r)
  PROVE  IInv'
  <1>1. pc[r] = "exists" /\ Working(r) /\ ~Owning(r)
        /\ CallOK(r) /\ SinceOK(r) /\ call[r] \in Call
    BY DEF CheckConversation, IInv, RequestOK, Working, Owning, TypeOK
  <1>2. CASE Reject(r)
    <2>1. Finish(r) /\ cut \subseteq cut' /\ cut' \subseteq SUBSET User
      BY <1>2 DEF Reject, IInv, TypeOK
    <2> QED
      BY <1>1, <1>2, <2>1, RejectOK DEF Reject
  <1>3. CASE /\ ~Exists(call[r].user, call[r].to)
             /\ Continue(r, "saveConversation", call[r])
    <2>1. /\ pc'[r] = "saveConversation" /\ call'[r] = call[r]
          /\ since'[r] = since[r]
          /\ UNCHANGED <<blocks, convs, msgs, inbox, clashed>>
      BY <1>3 DEF Continue, Goto, Hold, IInv, TypeOK, blockVars
    <2>2. CallOK(r)'
      BY <1>1, <2>1 DEF CallOK
    <2>3. SinceOK(r)'
      <3>1. Facts(call[r])' = Facts(call[r])
        BY <2>1 DEF Facts, HasBlocked
      <3> QED
        BY <1>1, <2>1, <3>1 DEF SinceOK, Past
    <2>4. OwnedOK(r)'
      BY <1>3, <2>1 DEF OwnedOK, Owning, Exists
    <2> QED
      BY <1>1, <1>3, <2>2, <2>3, <2>4, ContinueOK DEF RequestOK, Label
  <1> QED
    BY <1>2, <1>3 DEF CheckConversation

(* A new row is a conversation of its own, of a pair that has no other.    *)
LEMMA SaveConversationOK ==
  ASSUME IInv, NEW r \in ChatRequest, SaveConversation(r)
  PROVE  IInv'
  <1> DEFINE c == call[r]
  <1>1. PICK k \in ConvId :
          /\ NextConv(k)
          /\ convs' = [convs EXCEPT ![k] =
                         [status |-> "live", by |-> c.user, to |-> c.to,
                          since |-> since[r]]]
          /\ Hold(r, NewCall(c.op, c.user, c.to, k, 0, {}, c.withheld))
    BY DEF SaveConversation
  <1> DEFINE row == [status |-> "live", by |-> c.user, to |-> c.to,
                     since |-> since[r]]
             n == NewCall(c.op, c.user, c.to, k, 0, {}, c.withheld)
  <1>2. /\ pc[r] = "saveConversation" /\ Working(r) /\ ~Owning(r)
        /\ CallOK(r) /\ SinceOK(r) /\ OwnedOK(r) /\ c \in Call
        /\ c.op = "create" /\ c.user \in User /\ c.to \in User
        /\ since[r] \subseteq Fact /\ c.withheld \in BOOLEAN
    BY CallParts
    DEF SaveConversation, IInv, RequestOK, Working, Owning, TypeOK, CallOK
  <1>3. /\ n \in Call /\ n.op = "create" /\ n.user = c.user
        /\ n.to = c.to /\ n.conv = k /\ n.msg = 0
        /\ n.unread = {} /\ n.withheld = c.withheld
    BY <1>2 DEF NewCall, Call
  <1>4. /\ row \in Conversation /\ row.status = "live"
        /\ {row.by, row.to} = PairOf(r) /\ row.since = since[r]
    BY <1>2 DEF Conversation, PairOf
  <1> HIDE DEF row, n
  <1>5. /\ Moves(r) /\ pc'[r] = "firstMessage" /\ call'[r] = n
        /\ since' = since /\ Owning(r)'
        /\ UNCHANGED <<blockVars, msgs, events, inbox, clashed, cut, received>>
        /\ PairOf(r)' = PairOf(r)
        /\ convs[k].status = "none" /\ convs'[k] = row
        /\ \A j \in ConvId \ {k} : convs'[j] = convs[j]
    BY <1>1, <1>3
    DEF SaveConversation, Moves, Goto, Hold, IInv, TypeOK, Owning, PairOf,
        NextConv, n, row
  <1>6. BlocksInv' /\ BlocksTypeOK' /\ blocks' = blocks
    BY <1>5, BlocksKeep
  <1>7. TypeOK'
    BY <1>1, <1>3, <1>4, <1>5, <1>6
    DEF IInv, TypeOK, SaveConversation, Goto, Hold, Label, n, row
  <1>8. ConvsGrow(r) /\ MsgsGrow /\ InboxGrows(r)
    BY <1>2, <1>4, <1>5 DEF ConvsGrow, MsgsGrow, InboxGrows, PairOf
  <1>9. k # 0
    BY ConversationsAssumption DEF ConvId
  <1>10. RequestOK(r)'
    <2>1. CallOK(r)'
      BY <1>2, <1>3, <1>5 DEF CallOK
    <2>2. SinceOK(r)'
      <3>1. Facts(call[r])' = Facts(call[r])
        BY <1>3, <1>5, <1>6 DEF Facts, HasBlocked
      <3> QED
        BY <1>2, <1>3, <1>5, <3>1 DEF SinceOK, Past
    <2>3. OwnedOK(r)'
      <3>1. \A u \in User : \A a \in inbox[u] :
              a.kind = "conversation" => a.conv # k
        BY <1>5 DEF IInv, AnnouncedStays
      <3> QED
        BY <1>3, <1>4, <1>5, <3>1 DEF OwnedOK
    <2> QED
      BY <2>1, <2>2, <2>3 DEF RequestOK
  <1>11. \A q \in ChatRequest : RequestOK(q)'
    BY <1>5, <1>6, <1>8, <1>10, OthersKeep
  <1>12. Apart'
    BY <1>2, <1>3, <1>5, ApartKeep
  <1>13. /\ StoredOK' /\ EventsOK' /\ SendsRespectBlocks'
         /\ BlockerHearsNothing' /\ AnnouncedStays'
    BY <1>4, <1>5
    DEF IInv, StoredOK, EventsOK, SendsRespectBlocks, BlockerHearsNothing,
        AnnouncedStays, TypeOK, Message, Notice
  <1>14. CreationRespectsBlocks'
    <2>1. "blocker" \notin since[r] /\ "blocked" \notin since[r]
      BY <1>2 DEF SinceOK, Past
    <2> QED
      BY <1>4, <1>5, <2>1 DEF IInv, CreationRespectsBlocks
  <1>15. OneConversationPerPair'
    <2>1. ASSUME NEW j \in ConvId, j # k, convs[j].status = "live",
                 {convs[j].by, convs[j].to} = PairOf(r)
          PROVE  PairOf(r) \in clashed
      BY <1>2, <2>1 DEF OwnedOK, Exists, PairOf
    <2> SUFFICES ASSUME NEW i \in ConvId, NEW j \in ConvId,
                        convs'[i].status = "live", convs'[j].status = "live",
                        {convs'[i].by, convs'[i].to}
                          = {convs'[j].by, convs'[j].to},
                        {convs'[i].by, convs'[i].to} \notin clashed, i # j
                 PROVE  FALSE
      BY <1>5 DEF OneConversationPerPair
    <2>2. CASE i = k
      BY <1>4, <1>5, <2>1, <2>2
    <2>3. CASE j = k
      BY <1>4, <1>5, <2>1, <2>3
    <2>4. CASE i # k /\ j # k
      BY <1>5, <2>4 DEF IInv, OneConversationPerPair
    <2> QED
      BY <2>2, <2>3, <2>4
  <1>16. NoEmptyLeftover'
    <2> SUFFICES ASSUME NEW j \in ConvId, convs'[j].status = "live",
                        {convs'[j].by, convs'[j].to} \notin cut,
                        \A m \in MsgId : msgs[m].conv # j
                 PROVE  \E q \in ChatRequest :
                          /\ call'[q].op = "create" /\ call'[q].conv = j
                          /\ pc'[q] \in {"firstMessage", "rollback"}
      BY <1>5 DEF NoEmptyLeftover
    <2>1. CASE j = k
      BY <1>3, <1>5, <2>1
    <2>2. CASE j # k
      <3>1. PICK q \in ChatRequest :
              /\ call[q].op = "create" /\ call[q].conv = j
              /\ pc[q] \in {"firstMessage", "rollback"}
        BY <1>5, <2>2 DEF IInv, NoEmptyLeftover
      <3>2. q # r
        BY <1>2, <3>1
      <3> QED
        BY <1>5, <3>1, <3>2 DEF Moves, IInv, TypeOK
    <2> QED
      BY <2>1, <2>2
  <1> QED
    BY <1>6, <1>7, <1>11, <1>12, <1>13, <1>14, <1>15, <1>16 DEF IInv

(* A message stored by r fits what has held all along.                     *)
LEMMA StoreOK ==
  ASSUME IInv, NEW r \in ChatRequest, NEW m \in MsgId, Store(r, m),
         pc[r] \in {"firstMessage", "insert"}, UNCHANGED convs,
         events' \subseteq events \cup {EventOf("created", m, since[r])}
  PROVE  /\ MsgsGrow /\ StoredOK' /\ SendsRespectBlocks' /\ EventsOK'
         /\ msgs' \in [MsgId -> Message] /\ events' \subseteq Event
         /\ msgs'[m].conv = call[r].conv
  <1> DEFINE row == [conv |-> call[r].conv, sender |-> call[r].user,
                     withheld |-> call[r].withheld, since |-> since[r]]
             new == EventOf("created", m, since[r])
  <1>1. /\ CallOK(r) /\ SinceOK(r) /\ OwnedOK(r) /\ call[r] \in Call
        /\ since[r] \subseteq Fact /\ msgs \in [MsgId -> Message]
    BY DEF IInv, RequestOK, Working, TypeOK
  <1>2. call[r].conv \in ConvId /\ convs[call[r].conv].status # "none"
    BY <1>1 DEF CallOK, OwnedOK, Owning
  <1>3. call[r].user \in User /\ call[r].withheld \in BOOLEAN
    BY <1>1, CallParts DEF CallOK
  <1>4. /\ row \in Message /\ row.conv = call[r].conv
        /\ row.sender = call[r].user /\ row.withheld = call[r].withheld
        /\ row.since = since[r]
    BY <1>1, <1>2, <1>3 DEF Message
  <1>5. /\ new \in Event /\ new.msg = m /\ new.kind = "created"
        /\ new.since = since[r]
    BY <1>1 DEF Event, EventOf
  <1>6. /\ msgs[m].conv = 0 /\ msgs' = [msgs EXCEPT ![m] = row]
        /\ events' \subseteq events \cup {new}
    BY DEF Store, NextMsg
  <1> HIDE DEF row, new
  <1>7. /\ msgs'[m] = row /\ \A k \in MsgId \ {m} : msgs'[k] = msgs[k]
        /\ msgs' \in [MsgId -> Message]
    BY <1>1, <1>4, <1>6
  <1>8. row.conv # 0
    BY <1>2, <1>4, ConversationsAssumption DEF ConvId
  <1>9. MsgsGrow
    BY <1>6, <1>7 DEF MsgsGrow
  <1>10. StoredOK'
    BY <1>2, <1>3, <1>4, <1>7 DEF IInv, StoredOK
  <1>11. SendsRespectBlocks'
    <2>1. /\ "blocker" \notin since[r]
          /\ "blocked" \in since[r] => call[r].withheld
          /\ "free" \in since[r] => ~call[r].withheld
      BY <1>1 DEF SinceOK, Past, CallOK
    <2> QED
      BY <1>4, <1>7, <2>1 DEF IInv, SendsRespectBlocks
  <1>12. events' \subseteq Event
    BY <1>5, <1>6 DEF IInv, TypeOK
  <1>13. EventsOK'
    <2> SUFFICES ASSUME NEW e \in events'
                 PROVE  /\ msgs'[e.msg].conv # 0
                        /\ e.kind = "created" => e.since = msgs'[e.msg].since
      BY DEF EventsOK
    <2>1. CASE e = new
      BY <1>4, <1>5, <1>7, <1>8, <2>1
    <2>2. CASE e \in events
      <3>1. /\ e.msg \in MsgId /\ msgs[e.msg].conv # 0
            /\ e.kind = "created" => e.since = msgs[e.msg].since
        BY <2>2 DEF IInv, TypeOK, Event, EventsOK
      <3> QED
        BY <1>9, <3>1 DEF MsgsGrow
    <2> QED
      BY <1>6, <2>1, <2>2
  <1> QED
    BY <1>4, <1>7, <1>9, <1>10, <1>11, <1>12, <1>13

(* The owner of a conversation goes on with it to l.                       *)
LEMMA OwnerGoesOn ==
  ASSUME IInv, NEW r \in ChatRequest, pc[r] = "firstMessage",
         NEW l \in {"rollback", "announce"}, Goto(r, l),
         UNCHANGED <<blockVars, since, convs, call, inbox, clashed, cut,
                     received>>,
         MsgsGrow, StoredOK', SendsRespectBlocks', EventsOK',
         msgs' \in [MsgId -> Message], events' \subseteq Event,
         \/ l = "rollback"
         \/ \E m \in MsgId : msgs'[m].conv = call[r].conv
  PROVE  IInv'
  <1>1. /\ Moves(r) /\ pc'[r] = l /\ Owning(r) /\ Owning(r)' /\ Working(r)
        /\ PairOf(r)' = PairOf(r)
    BY DEF Moves, Goto, IInv, TypeOK, Owning, Working, PairOf
  <1>2. BlocksInv' /\ BlocksTypeOK' /\ blocks' = blocks
    BY BlocksKeep
  <1>3. TypeOK'
    BY <1>1, <1>2 DEF IInv, TypeOK, Goto, Label
  <1>4. ConvsGrow(r) /\ InboxGrows(r)
    BY DEF ConvsGrow, InboxGrows
  <1>5. RequestOK(r)'
    <2>1. CallOK(r) /\ SinceOK(r) /\ OwnedOK(r)
      BY <1>1 DEF IInv, RequestOK
    <2>2. CallOK(r)' /\ OwnedOK(r)'
      BY <1>1, <2>1 DEF CallOK, OwnedOK, Owning, PairOf
    <2>3. Facts(call[r])' = Facts(call[r])
      BY <1>2 DEF Facts, HasBlocked
    <2>4. SinceOK(r)'
      BY <1>1, <2>1, <2>3 DEF SinceOK, Past
    <2> QED
      BY <2>2, <2>4 DEF RequestOK
  <1>6. \A q \in ChatRequest : RequestOK(q)'
    BY <1>1, <1>2, <1>4, <1>5, OthersKeep
  <1>7. Apart'
    BY <1>1, ApartKeep
  <1>8. NoEmptyLeftover'
    BY <1>1, LeftoverKeep
  <1>9. /\ CreationRespectsBlocks' /\ BlockerHearsNothing'
        /\ OneConversationPerPair' /\ AnnouncedStays'
    BY DEF IInv, CreationRespectsBlocks, BlockerHearsNothing,
           OneConversationPerPair, AnnouncedStays
  <1> QED
    BY <1>2, <1>3, <1>6, <1>7, <1>8, <1>9 DEF IInv

(* The first message is stored.                                            *)
LEMMA SaveFirstMessageOK ==
  ASSUME IInv, NEW r \in ChatRequest, SaveFirstMessage(r)
  PROVE  IInv'
  <1>1. PICK m \in MsgId :
          Store(r, m) /\ events' = events
                                   \cup {EventOf("created", m, since[r])}
    BY DEF SaveFirstMessage
  <1>2. /\ MsgsGrow /\ StoredOK' /\ SendsRespectBlocks' /\ EventsOK'
        /\ msgs' \in [MsgId -> Message] /\ events' \subseteq Event
        /\ msgs'[m].conv = call[r].conv
    BY <1>1, StoreOK DEF SaveFirstMessage
  <1> QED
    BY <1>2, OwnerGoesOn DEF SaveFirstMessage

(* Storing it fails, with or without a message in the table.               *)
LEMMA FirstMessageFailsOK ==
  ASSUME IInv, NEW r \in ChatRequest, FirstMessageFails(r)
  PROVE  IInv'
  <1>1. CASE UNCHANGED msgs
    <2>1. /\ MsgsGrow /\ StoredOK' /\ SendsRespectBlocks' /\ EventsOK'
          /\ msgs' \in [MsgId -> Message] /\ events' \subseteq Event
      BY <1>1 DEF FirstMessageFails, MsgsGrow, IInv, TypeOK, StoredOK,
                  SendsRespectBlocks, EventsOK
    <2> QED
      BY <2>1, OwnerGoesOn DEF FirstMessageFails
  <1>2. ASSUME NEW m \in MsgId, Store(r, m)
        PROVE  IInv'
    <2>1. /\ MsgsGrow /\ StoredOK' /\ SendsRespectBlocks' /\ EventsOK'
          /\ msgs' \in [MsgId -> Message] /\ events' \subseteq Event
      BY <1>2, StoreOK DEF FirstMessageFails
    <2> QED
      BY <2>1, OwnerGoesOn DEF FirstMessageFails
  <1> QED
    BY <1>1, <1>2 DEF FirstMessageFails

(* A row that is soft-deleted keeps the rest.                              *)
LEMMA DeletedRow ==
  ASSUME NEW c \in Conversation
  PROVE  /\ [c EXCEPT !.status = "deleted"] \in Conversation
         /\ [c EXCEPT !.status = "deleted"].status = "deleted"
         /\ [c EXCEPT !.status = "deleted"].since = c.since
  BY DEF Conversation

(* A conversation nobody was told of is deleted.                           *)
LEMMA RollBackOK ==
  ASSUME IInv, NEW r \in ChatRequest, RollBack(r)
  PROVE  IInv'
  <1> DEFINE k == call[r].conv
  <1>1. /\ pc[r] = "rollback" /\ Owning(r) /\ Working(r) /\ OwnedOK(r)
        /\ k \in ConvId /\ convs[k].status = "live"
    BY DEF RollBack, Owning, Working, IInv, RequestOK, OwnedOK
  <1>2. /\ Moves(r) /\ pc'[r] = "idle" /\ call'[r] = NoCall
        /\ ~Working(r)' /\ ~Owning(r)'
        /\ UNCHANGED <<blockVars, msgs, events, inbox, clashed, cut, received>>
    BY DEF RollBack, Moves, Finish, Goto, Hold, IInv, TypeOK, Working, Owning
  <1>3. /\ convs' \in [ConvId -> Conversation]
        /\ convs'[k] = [convs[k] EXCEPT !.status = "deleted"]
        /\ \A c \in ConvId \ {k} : convs'[c] = convs[c]
    <2>1. convs \in [ConvId -> Conversation]
      BY DEF IInv, TypeOK
    <2>2. convs' = [convs EXCEPT ![k] = [convs[k] EXCEPT !.status = "deleted"]]
      BY <1>1, <2>1 DEF RollBack
    <2>3. [convs[k] EXCEPT !.status = "deleted"] \in Conversation
      BY <1>1, <2>1, DeletedRow
    <2> HIDE DEF k
    <2> QED
      BY <1>1, <2>1, <2>2, <2>3
  <1>4. /\ convs'[k].status = "deleted" /\ convs'[k].since = convs[k].since
    <2> HIDE DEF k
    <2>1. convs[k] \in Conversation
      BY <1>1 DEF IInv, TypeOK
    <2>2. /\ [convs[k] EXCEPT !.status = "deleted"].status = "deleted"
          /\ [convs[k] EXCEPT !.status = "deleted"].since = convs[k].since
      BY <2>1, DeletedRow
    <2> QED
      BY <1>3, <2>2
  <1> HIDE DEF k
  <1>5. BlocksInv' /\ BlocksTypeOK' /\ blocks' = blocks
    BY <1>2, BlocksKeep
  <1>6. TypeOK'
    <2>1. NoCall \in Call
      BY NewCallOK DEF NoCall
    <2> QED
      BY <1>2, <1>3, <1>5, <2>1
      DEF IInv, TypeOK, RollBack, Finish, Goto, Hold, Label
  <1>7. ConvsGrow(r) /\ MsgsGrow /\ InboxGrows(r)
    BY <1>1, <1>2, <1>3, <1>4 DEF ConvsGrow, MsgsGrow, InboxGrows, k
  <1>8. \A q \in ChatRequest : RequestOK(q)'
    BY <1>2, <1>5, <1>7, OthersKeep DEF RequestOK
  <1>9. Apart'
    BY <1>2, ApartKeep
  <1>10. /\ StoredOK' /\ EventsOK' /\ SendsRespectBlocks'
         /\ CreationRespectsBlocks' /\ BlockerHearsNothing'
    <2>1. /\ StoredOK /\ EventsOK /\ SendsRespectBlocks
          /\ CreationRespectsBlocks /\ BlockerHearsNothing
          /\ msgs \in [MsgId -> Message]
      BY DEF IInv, TypeOK
    <2>2. \A m \in MsgId : msgs[m].conv # 0 =>
            convs'[msgs[m].conv].status # "none"
      <3> SUFFICES ASSUME NEW m \in MsgId, msgs[m].conv # 0
                   PROVE  convs'[msgs[m].conv].status # "none"
        OBVIOUS
      <3>1. /\ msgs[m].conv \in ConvId
            /\ convs[msgs[m].conv].status # "none"
        BY <2>1 DEF Message, StoredOK
      <3> QED
        BY <1>3, <1>4, <3>1
    <2>3. StoredOK'
      BY <1>2, <2>1, <2>2 DEF StoredOK
    <2>4. EventsOK' /\ SendsRespectBlocks' /\ BlockerHearsNothing'
      BY <1>2, <2>1 DEF EventsOK, SendsRespectBlocks, BlockerHearsNothing
    <2>5. CreationRespectsBlocks'
      BY <1>3, <1>4, <2>1 DEF CreationRespectsBlocks
    <2> QED
      BY <2>3, <2>4, <2>5
  <1>11. OneConversationPerPair'
    <2> SUFFICES ASSUME NEW c \in ConvId, NEW d \in ConvId,
                        convs'[c].status = "live", convs'[d].status = "live",
                        {convs'[c].by, convs'[c].to}
                          = {convs'[d].by, convs'[d].to},
                        {convs'[c].by, convs'[c].to} \notin clashed
                 PROVE  c = d
      BY <1>2 DEF OneConversationPerPair
    <2>1. convs'[c] = convs[c] /\ convs'[d] = convs[d]
      BY <1>3, <1>4
    <2> QED
      BY <2>1 DEF IInv, OneConversationPerPair
  <1>12. AnnouncedStays'
    BY <1>1, <1>2, <1>3 DEF IInv, TypeOK, Notice, AnnouncedStays, OwnedOK,
                           Owning, k
  <1>13. NoEmptyLeftover'
    <2> SUFFICES ASSUME NEW c \in ConvId, convs'[c].status = "live",
                        {convs'[c].by, convs'[c].to} \notin cut,
                        \A m \in MsgId : msgs[m].conv # c
                 PROVE  \E q \in ChatRequest :
                          /\ call'[q].op = "create" /\ call'[q].conv = c
                          /\ pc'[q] \in {"firstMessage", "rollback"}
      BY <1>2 DEF NoEmptyLeftover
    <2>1. c # k /\ convs'[c] = convs[c]
      BY <1>3, <1>4
    <2>2. PICK q \in ChatRequest : /\ call[q].op = "create"
                                   /\ call[q].conv = c
                                   /\ pc[q] \in {"firstMessage", "rollback"}
      BY <2>1 DEF IInv, NoEmptyLeftover
    <2>3. q # r
      BY <2>1, <2>2 DEF k
    <2> QED
      BY <1>2, <2>2, <2>3 DEF Moves, IInv, TypeOK
  <1> QED
    BY <1>5, <1>6, <1>8, <1>9, <1>10, <1>11, <1>12, <1>13 DEF IInv

(* What r tells of its conversation may be told to both members: the other *)
(* had not blocked its creator all along.                                  *)
LEMMA AnnounceOK ==
  ASSUME IInv, NEW r \in ChatRequest, Announce(r)
  PROVE  IInv'
  <1> DEFINE k == call[r].conv
             n == NoticeOf("conversation", k, call[r].user, since[r])
  <1>1. /\ pc[r] = "announce" /\ Owning(r) /\ Working(r) /\ CallOK(r)
        /\ SinceOK(r) /\ OwnedOK(r)
        /\ k \in ConvId /\ convs[k].status = "live" /\ since[r] \subseteq Fact
    BY DEF Announce, Owning, Working, IInv, RequestOK, OwnedOK, TypeOK
  <1>2. /\ Moves(r) /\ pc'[r] = "idle" /\ call'[r] = NoCall
        /\ ~Working(r)' /\ ~Owning(r)'
        /\ UNCHANGED <<blockVars, convs, msgs, events, clashed, cut, received>>
    BY DEF Announce, Moves, Finish, Goto, Hold, IInv, TypeOK, Working, Owning
  <1>3. /\ n \in Notice /\ n.kind = "conversation" /\ n.conv = k
        /\ n.since = since[r]
    BY <1>1 DEF Notice, NoticeOf, CallOK
  <1> HIDE DEF n
  <1>4. /\ inbox' \in [User -> SUBSET Notice]
        /\ \A u \in User : inbox'[u] \subseteq inbox[u] \cup {n}
    BY <1>3 DEF Announce, Notify, IInv, TypeOK, n
  <1>5. BlocksInv' /\ BlocksTypeOK' /\ blocks' = blocks
    BY <1>2, BlocksKeep
  <1>6. TypeOK'
    <2>1. NoCall \in Call
      BY NewCallOK DEF NoCall
    <2> QED
      BY <1>2, <1>4, <1>5, <2>1
      DEF IInv, TypeOK, Announce, Finish, Goto, Hold, Label
  <1>7. ConvsGrow(r) /\ MsgsGrow /\ InboxGrows(r)
    BY <1>1, <1>2, <1>3, <1>4 DEF ConvsGrow, MsgsGrow, InboxGrows
  <1>8. \A q \in ChatRequest : RequestOK(q)'
    BY <1>2, <1>5, <1>7, OthersKeep DEF RequestOK
  <1>9. Apart'
    BY <1>2, ApartKeep
  <1>10. /\ StoredOK' /\ EventsOK' /\ SendsRespectBlocks'
         /\ CreationRespectsBlocks' /\ OneConversationPerPair'
    BY <1>2 DEF IInv, StoredOK, EventsOK, SendsRespectBlocks,
                CreationRespectsBlocks, OneConversationPerPair
  <1>11. BlockerHearsNothing'
    <2>1. "blocked" \notin since[r]
      BY <1>1 DEF SinceOK, CallOK
    <2> QED
      BY <1>3, <1>4, <2>1 DEF IInv, BlockerHearsNothing
  <1>12. AnnouncedStays'
    BY <1>1, <1>2, <1>3, <1>4 DEF IInv, AnnouncedStays
  <1>13. NoEmptyLeftover'
    BY <1>1, <1>2, <1>7, LeftoverKeep
  <1> QED
    BY <1>5, <1>6, <1>8, <1>9, <1>10, <1>11, <1>12, <1>13 DEF IInv

----------------------------------------------------------------------------
(* Messages are sent, edited and announced.                                *)

(* A sender or an editor is done.                                          *)
LEMMA WriterDone ==
  ASSUME IInv, NEW r \in ChatRequest, pc[r] \in {"insert", "update"},
         Finish(r),
         UNCHANGED <<blockVars, convs, inbox, clashed, cut, received>>,
         MsgsGrow, StoredOK', SendsRespectBlocks', EventsOK',
         msgs' \in [MsgId -> Message], events' \subseteq Event
  PROVE  IInv'
  <1>1. /\ Moves(r) /\ pc'[r] = "idle" /\ call'[r] = NoCall
        /\ ~Working(r)' /\ ~Owning(r)'
    BY DEF Moves, Finish, Goto, Hold, IInv, TypeOK, Working, Owning
  <1>2. BlocksInv' /\ BlocksTypeOK' /\ blocks' = blocks
    BY BlocksKeep
  <1>3. TypeOK'
    <2>1. NoCall \in Call
      BY NewCallOK DEF NoCall
    <2> QED
      BY <1>2, <2>1 DEF IInv, TypeOK, Finish, Goto, Hold, Label
  <1>4. ConvsGrow(r) /\ InboxGrows(r)
    BY DEF ConvsGrow, InboxGrows
  <1>5. \A q \in ChatRequest : RequestOK(q)'
    BY <1>1, <1>2, <1>4, OthersKeep DEF RequestOK
  <1>6. Apart'
    BY <1>1, ApartKeep
  <1>7. NoEmptyLeftover'
    BY <1>1, LeftoverKeep
  <1>8. /\ CreationRespectsBlocks' /\ BlockerHearsNothing'
        /\ OneConversationPerPair' /\ AnnouncedStays'
    BY DEF IInv, CreationRespectsBlocks, BlockerHearsNothing,
           OneConversationPerPair, AnnouncedStays
  <1> QED
    BY <1>2, <1>3, <1>5, <1>6, <1>7, <1>8 DEF IInv

(* A message is stored.                                                    *)
LEMMA InsertMessageOK ==
  ASSUME IInv, NEW r \in ChatRequest, InsertMessage(r)
  PROVE  IInv'
  <1>1. PICK m \in MsgId :
          Store(r, m) /\ events' = events
                                   \cup {EventOf("created", m, since[r])}
    BY DEF InsertMessage
  <1>2. /\ MsgsGrow /\ StoredOK' /\ SendsRespectBlocks' /\ EventsOK'
        /\ msgs' \in [MsgId -> Message] /\ events' \subseteq Event
    BY <1>1, StoreOK DEF InsertMessage
  <1> QED
    BY <1>2, WriterDone DEF InsertMessage

(* An edited message was stored.                                           *)
LEMMA UpdateMessageOK ==
  ASSUME IInv, NEW r \in ChatRequest, UpdateMessage(r)
  PROVE  IInv'
  <1> DEFINE new == EventOf("edited", call[r].msg, since[r])
  <1>1. call[r].msg \in MsgId /\ msgs[call[r].msg].conv # 0
    BY DEF UpdateMessage, IInv, RequestOK, Working, CallOK
  <1>2. /\ new \in Event /\ new.msg = call[r].msg /\ new.kind = "edited"
        /\ events' = events \cup {new}
    BY <1>1 DEF UpdateMessage, Event, EventOf, IInv, TypeOK
  <1> HIDE DEF new
  <1>3. /\ MsgsGrow /\ StoredOK' /\ SendsRespectBlocks' /\ EventsOK'
        /\ msgs' \in [MsgId -> Message] /\ events' \subseteq Event
    BY <1>1, <1>2 DEF UpdateMessage, MsgsGrow, IInv, TypeOK, StoredOK,
                      SendsRespectBlocks, EventsOK
  <1> QED
    BY <1>3, WriterDone DEF UpdateMessage

(* A message withheld from a member is announced to its sender only.       *)
LEMMA HandleEventOK ==
  ASSUME IInv, NEW e \in events, HandleEvent(e)
  PROVE  IInv'
  <1> DEFINE m == msgs[e.msg]
             n == NoticeOf(e.kind, m.conv, m.sender, e.since)
  <1>1. /\ e.msg \in MsgId /\ e.kind \in {"created", "edited"}
        /\ e.since \subseteq Fact /\ m.conv # 0
        /\ e.kind = "created" => e.since = m.since
        /\ m.conv \in ConvId /\ m.sender \in User
    BY DEF IInv, TypeOK, Event, EventsOK, StoredOK, Message
  <1>2. /\ n \in Notice /\ n.kind = e.kind /\ n.conv = m.conv
        /\ n.sender = m.sender /\ n.since = e.since
    BY <1>1 DEF Notice, NoticeOf
  <1>3. /\ UNCHANGED <<blockVars, since, convs, msgs, pc, call, clashed, cut,
                       received>>
        /\ events' \subseteq events
    BY DEF HandleEvent
  <1>4. /\ inbox' \in [User -> SUBSET Notice]
        /\ \A u \in User : /\ inbox'[u] \subseteq inbox[u] \cup {n}
                           /\ n \in inbox'[u] =>
                                n \in inbox[u] \/ u \in Rooms(e.msg)
    <2>1. CASE UNCHANGED inbox
      BY <2>1 DEF IInv, TypeOK
    <2>2. CASE Notify(Rooms(e.msg), n)
      <3> HIDE DEF n, m
      <3> QED
        BY <1>2, <2>2 DEF Notify, IInv, TypeOK
    <2> QED
      BY <2>1, <2>2 DEF HandleEvent
  <1> HIDE DEF n, m
  <1>5. BlocksInv' /\ BlocksTypeOK' /\ blocks' = blocks
    BY <1>3, BlocksKeep
  <1>6. TypeOK'
    BY <1>3, <1>4, <1>5 DEF IInv, TypeOK
  <1>7. \A u \in User : \A a \in inbox'[u] :
          a.kind = "conversation" => a \in inbox[u]
    BY <1>1, <1>2, <1>4
  <1>8. \A q \in ChatRequest : RequestOK(q)'
    <2> SUFFICES ASSUME NEW q \in ChatRequest, Working(q)
                 PROVE  (CallOK(q) /\ SinceOK(q) /\ OwnedOK(q))'
      BY <1>3 DEF RequestOK, Working
    <2>1. CallOK(q) /\ SinceOK(q) /\ OwnedOK(q)
      BY DEF IInv, RequestOK
    <2>2. Facts(call[q])' = Facts(call[q])
      BY <1>3, <1>5 DEF Facts, HasBlocked
    <2>3. CallOK(q)' /\ SinceOK(q)'
      BY <1>3, <2>1, <2>2 DEF CallOK, SinceOK, Past
    <2>4. OwnedOK(q)'
      BY <1>3, <1>7, <2>1 DEF OwnedOK, Owning, PairOf, Exists
    <2> QED
      BY <2>3, <2>4
  <1>9. /\ Apart' /\ StoredOK' /\ EventsOK' /\ SendsRespectBlocks'
        /\ CreationRespectsBlocks' /\ OneConversationPerPair'
        /\ NoEmptyLeftover'
    <2>1. Apart'
      BY <1>3 DEF IInv, Apart, Owning, Working, PairOf
    <2>2. StoredOK' /\ EventsOK'
      BY <1>3 DEF IInv, StoredOK, EventsOK
    <2>3. /\ SendsRespectBlocks' /\ CreationRespectsBlocks'
          /\ OneConversationPerPair'
      BY <1>3 DEF IInv, SendsRespectBlocks, CreationRespectsBlocks,
                  OneConversationPerPair
    <2>4. NoEmptyLeftover'
      BY <1>3 DEF IInv, NoEmptyLeftover
    <2> QED
      BY <2>1, <2>2, <2>3, <2>4
  <1>10. AnnouncedStays'
    BY <1>3, <1>7 DEF IInv, AnnouncedStays
  <1>11. BlockerHearsNothing'
    <2>1. e.kind = "created" /\ "blocked" \in e.since
            => Rooms(e.msg) = {m.sender}
      BY <1>1 DEF IInv, SendsRespectBlocks, Rooms, m
    <2> QED
      BY <1>1, <1>2, <1>4, <2>1 DEF IInv, BlockerHearsNothing
  <1> QED
    BY <1>5, <1>6, <1>8, <1>9, <1>10, <1>11 DEF IInv

----------------------------------------------------------------------------
(* Handlers that are cut short, blocks, and the whole.                     *)

(* A creation that is cut short is recorded as such.                       *)
LEMMA StopOK ==
  ASSUME IInv, NEW r \in ChatRequest, Stop(r)
  PROVE  IInv'
  <1>1. Working(r) /\ CallOK(r)
    BY DEF Stop, IInv, RequestOK, Working
  <1>2. /\ cut' = IF call[r].op = "create" THEN cut \cup {PairOf(r)} ELSE cut
        /\ PairOf(r) \subseteq User /\ cut \subseteq SUBSET User
    BY <1>1 DEF Stop, CallOK, PairOf, IInv, TypeOK
  <1>3. pc[r] \in {"firstMessage", "rollback"} => call[r].op = "create"
    BY <1>1 DEF CallOK
  <1>4. /\ cut \subseteq cut' /\ cut' \subseteq SUBSET User
        /\ pc[r] \in {"firstMessage", "rollback"} => PairOf(r) \in cut'
    <2> HIDE DEF PairOf
    <2> QED
      BY <1>2, <1>3
  <1> QED
    BY <1>1, <1>4, RejectOK DEF Stop

(* The conversations being created stay apart where no request moves.      *)
LEMMA ApartStays ==
  ASSUME Apart, UNCHANGED <<pc, call, clashed>>
  PROVE  Apart'
  <1>1. \A r \in ChatRequest : /\ Owning(r)' = Owning(r)
                              /\ Working(r)' = Working(r)
                              /\ PairOf(r)' = PairOf(r)
                              /\ call'[r] = call[r]
    BY DEF Owning, Working, PairOf
  <1> QED
    BY <1>1 DEF Apart

(* A conversation without a message keeps the request that creates it.     *)
LEMMA LeftoverStays ==
  ASSUME NoEmptyLeftover, UNCHANGED <<convs, msgs, pc, call, cut>>
  PROVE  NoEmptyLeftover'
  BY DEF NoEmptyLeftover

(* A block or an unblock only ends what held for the requests at work.     *)
LEMMA BlocksStepOK ==
  ASSUME IInv, BlocksNext, UNCHANGED chatVars, Watch
  PROVE  IInv'
  <1>1. BlocksInv' /\ BlocksTypeOK'
    BY BlocksNextOK DEF IInv, BlocksInv
  <1>2. /\ UNCHANGED <<convs, msgs, pc, call, events, inbox, clashed, cut,
                       received>>
        /\ since' \in [ChatRequest -> SUBSET Fact]
        /\ \A r \in ChatRequest : Working(r) =>
             /\ since'[r] \subseteq since[r]
             /\ since'[r] \subseteq Facts(call[r])'
    BY DEF chatVars, Watch, Working, IInv, TypeOK
  <1>3. TypeOK'
    BY <1>1, <1>2 DEF IInv, TypeOK
  <1>4. \A r \in ChatRequest : RequestOK(r)'
    <2> SUFFICES ASSUME NEW r \in ChatRequest, Working(r)
                 PROVE  (CallOK(r) /\ SinceOK(r) /\ OwnedOK(r))'
      BY <1>2 DEF RequestOK, Working
    <2>1. CallOK(r) /\ SinceOK(r) /\ OwnedOK(r)
      BY DEF IInv, RequestOK
    <2>2. CallOK(r)' /\ OwnedOK(r)'
      BY <1>2, <2>1 DEF CallOK, OwnedOK, Owning, PairOf, Exists
    <2>3. SinceOK(r)'
      BY <1>2, <2>1 DEF SinceOK, Past
    <2> QED
      BY <2>2, <2>3
  <1>5. Apart' /\ NoEmptyLeftover'
    BY <1>2, ApartStays, LeftoverStays DEF IInv
  <1> QED
    BY <1>1, <1>2, <1>3, <1>4, <1>5, TablesKeep DEF IInv

(* Every step keeps the invariant.                                         *)
LEMMA NextOK == IInv /\ [Next]_vars => IInv'
  <1> SUFFICES ASSUME IInv, [Next]_vars PROVE IInv'
    OBVIOUS
  <1>1. CASE BlocksNext /\ UNCHANGED chatVars /\ Watch
    BY <1>1, BlocksStepOK
  <1>2. ASSUME NEW r \in ChatRequest, Arrive(r) \/ Step(r) \/ Stop(r)
        PROVE  IInv'
    BY <1>2, ArriveOK, ReadIsBlockerOK, ReadIsBlockedOK, CheckConversationOK,
       SaveConversationOK, SaveFirstMessageOK, FirstMessageFailsOK,
       RollBackOK, AnnounceOK, InsertMessageOK, UpdateMessageOK, StopOK
    DEF Step
  <1>3. ASSUME NEW e \in events, HandleEvent(e)
        PROVE  IInv'
    BY <1>3, HandleEventOK
  <1>4. CASE UNCHANGED vars
    <2>1. UNCHANGED <<blockVars, chatVars, since>>
      BY <1>4 DEF vars
    <2>2. BlocksInv' /\ BlocksTypeOK' /\ blocks' = blocks
      BY <2>1, BlocksKeep
    <2>3. \A r \in ChatRequest : Facts(call[r])' = Facts(call[r])
      BY <2>1, <2>2 DEF chatVars, Facts, HasBlocked
    <2>4. \A r \in ChatRequest : RequestOK(r)'
      <3> SUFFICES ASSUME NEW r \in ChatRequest, Working(r)
                   PROVE  CallOK(r)' /\ SinceOK(r)' /\ OwnedOK(r)'
        BY <2>1 DEF chatVars, RequestOK, Working
      <3>1. CallOK(r) /\ SinceOK(r) /\ OwnedOK(r)
        BY DEF IInv, RequestOK
      <3>2. CallOK(r)'
        BY <2>1, <3>1 DEF chatVars, CallOK
      <3>3. SinceOK(r)'
        BY <2>1, <2>3, <3>1 DEF chatVars, SinceOK, Past
      <3>4. OwnedOK(r)'
        BY <2>1, <3>1 DEF chatVars, OwnedOK, Owning, PairOf, Exists
      <3> QED
        BY <3>2, <3>3, <3>4
    <2>5. TypeOK'
      BY <2>1, <2>2 DEF chatVars, IInv, TypeOK
    <2>6. Apart' /\ NoEmptyLeftover'
      BY <2>1, ApartStays, LeftoverStays DEF chatVars, IInv
    <2> QED
      BY <2>1, <2>2, <2>4, <2>5, <2>6, TablesKeep DEF chatVars, IInv
  <1> QED
    BY <1>1, <1>2, <1>3, <1>4 DEF Next

(* The inductive invariant holds in every reachable state.                 *)
THEOREM Invariance == Spec => []IInv
  BY InitOK, NextOK, PTL DEF Spec

(* Every variable keeps its type.                                          *)
THEOREM TypeCorrect == Spec => []TypeOK
  <1>1. IInv => TypeOK
    BY DEF IInv
  <1> QED
    BY <1>1, Invariance, PTL

(* Whoever is told last about a pair is told what the table says, also     *)
(* next to the gateway that reads it.                                      *)
THEOREM EventsAgreeNextToGateway == Spec => []EventsAgree
  <1>1. IInv => EventsAgree
    BY DEF IInv, BlocksInv, RestingAgree, EventsAgree, AtWork
  <1> QED
    BY <1>1, Invariance, PTL

(* Sends respect every block that stood as long as they ran: none is stored*)
(* for a blocker, and what is sent to one is withheld.                     *)
THEOREM SendsAreRespectful == Spec => []SendsRespectBlocks
  <1>1. IInv => SendsRespectBlocks
    BY DEF IInv
  <1> QED
    BY <1>1, Invariance, PTL

(* No conversation is created across a block that stood all along.         *)
THEOREM CreationIsRespectful == Spec => []CreationRespectsBlocks
  <1>1. IInv => CreationRespectsBlocks
    BY DEF IInv
  <1> QED
    BY <1>1, Invariance, PTL

(* A blocker is told of no conversation and no new message of the blocked. *)
THEOREM BlockersHearNothing == Spec => []BlockerHearsNothing
  <1>1. IInv => BlockerHearsNothing
    BY DEF IInv
  <1> QED
    BY <1>1, Invariance, PTL

(* A pair has one conversation, unless two creations overlapped.           *)
THEOREM PairsHaveOneConversation == Spec => []OneConversationPerPair
  <1>1. IInv => OneConversationPerPair
    BY DEF IInv
  <1> QED
    BY <1>1, Invariance, PTL

(* A rollback that is not cut short leaves no conversation without message.*)
THEOREM RollbackLeavesNothing == Spec => []NoEmptyLeftover
  <1>1. IInv => NoEmptyLeftover
    BY DEF IInv
  <1> QED
    BY <1>1, Invariance, PTL

(* What was announced is not rolled back.                                  *)
THEOREM AnnouncedIsKept == Spec => []AnnouncedStays
  <1>1. IInv => AnnouncedStays
    BY DEF IInv
  <1> QED
    BY <1>1, Invariance, PTL
=============================================================================
