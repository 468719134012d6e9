--------------------------- MODULE Sockets_proofs ---------------------------
(***************************************************************************)
(* Proofs about Sockets: the inductive invariant IInv, and from it that a  *)
(* socket hears its own user only, misses nothing once it is ready and     *)
(* handles no message that came in after its token had expired.            *)
(***************************************************************************)
EXTENDS Sockets, TLAPS

(* Before the first connection nothing has happened.                       *)
LEMMA InitOK == Init => IInv
  <1> SUFFICES ASSUME Init PROVE IInv
    OBVIOUS
  <1>1. TypeOK
    BY SocketsAssumption DEF Init, TypeOK, Token, Data, Fresh
  <1>2. \A s \in Socket : SocketOK(s)
    BY DEF Init, SocketOK, Untouched
  <1>3. \A s \in Socket, m \in Slot : LateOK(s, m)
    BY DEF Init, LateOK
  <1> QED
    BY <1>1, <1>2, <1>3 DEF IInv, Init, ReadyMissesNothing

(* What the invariant says of a socket depends on these only.              *)
LEMMA SocketKeeps ==
  ASSUME IInv, NEW s \in Socket,
         token'[s] = token[s], conn'[s] = conn[s], attempt'[s] = attempt[s],
         opening'[s] = opening[s], waiting'[s] = waiting[s],
         heard'[s] = heard[s], s \in ready' <=> s \in ready,
         \A u \in User : s \in room'[u] <=> s \in room[u]
  PROVE  SocketOK(s)'
  <1>1. SocketOK(s)
    BY DEF IInv
  <1>2. conn[s] = "new" \/ token[s].user \in User
    BY <1>1 DEF SocketOK
  <1> QED
    BY <1>1, <1>2 DEF SocketOK, Untouched

(* A socket that is connected keeps in order while attempts and messages   *)
(* come and go.                                                            *)
LEMMA OpenKeeps ==
  ASSUME IInv, NEW s \in Socket, conn[s] # "new",
         conn' = conn, room' = room, ready' = ready, heard' = heard,
         token'[s].user = token[s].user, token'[s].good = token[s].good,
         \A k \in AttemptId : attempt'[s][k] = "ok" =>
           attempt[s][k] = "ok" \/ token[s].good
  PROVE  SocketOK(s)'
  <1>1. SocketOK(s)
    BY DEF IInv
  <1> QED
    BY <1>1 DEF SocketOK

(* What it says of a message depends on these only.                        *)
LEMMA LateKeeps ==
  ASSUME IInv, NEW s \in Socket, NEW m \in Slot,
         late'[s][m] = late[s][m], waiting'[s][m] = waiting[s][m],
         running'[s][m] = running[s][m],
         token[s].expired => token'[s].expired,
         \A k \in AttemptId : attempt'[s][k] = attempt[s][k]
  PROVE  LateOK(s, m)'
  <1>1. LateOK(s, m) /\ waiting[s][m] \in {0} \cup AttemptId
    BY DEF IInv, TypeOK
  <1> QED
    BY <1>1 DEF LateOK

(* What a socket is known by stays of its kind when an attempt starts or   *)
(* ends, and its token when it expires.                                    *)
LEMMA PromiseOK ==
  ASSUME data \in [Socket -> Data], NEW s \in Socket,
         NEW k \in {0} \cup AttemptId,
         data' = [data EXCEPT ![s].authPromise = k]
  PROVE  data' \in [Socket -> Data]
  <1>1. data[s] \in Data
    OBVIOUS
  <1>2. [data[s] EXCEPT !.authPromise = k] \in Data
    BY <1>1 DEF Data
  <1>3. data' = [data EXCEPT ![s] = [data[s] EXCEPT !.authPromise = k]]
    OBVIOUS
  <1> QED
    BY <1>2, <1>3

(* An expired token is still whose it was.                                 *)
LEMMA ExpiredOK ==
  ASSUME NEW t \in Token
  PROVE  /\ [t EXCEPT !.expired = TRUE] \in Token
         /\ [t EXCEPT !.expired = TRUE].user = t.user
         /\ [t EXCEPT !.expired = TRUE].good = t.good
         /\ [t EXCEPT !.expired = TRUE].expired = TRUE
  BY DEF Token

(* A socket that connects brings a token and starts its first attempt.     *)
LEMMA ConnectOK ==
  ASSUME IInv, NEW s \in Socket, Connect(s)
  PROVE  IInv'
  <1>1. PICK k \in AttemptId :
          /\ attempt' = [attempt EXCEPT ![s][k] = "verifying"]
          /\ data' = [data EXCEPT ![s].authPromise = k]
          /\ opening' = [opening EXCEPT ![s] = k]
    BY DEF Connect
  <1>2. PICK u \in User, good \in BOOLEAN, expired \in BOOLEAN :
          token' = [token EXCEPT ![s] = [user |-> u, good |-> good,
                                         expired |-> expired]]
    BY DEF Connect
  <1>3. /\ conn[s] = "new" /\ conn' = [conn EXCEPT ![s] = "open"]
        /\ UNCHANGED <<waiting, late, running, arrived, room, ready, heard,
                       missed, sent>>
    BY DEF Connect, rooms
  <1>4. TypeOK'
    <2>1. token' \in [Socket -> Token]
      BY <1>2 DEF IInv, TypeOK, Token
    <2>2. data' \in [Socket -> Data]
      BY <1>1, PromiseOK DEF IInv, TypeOK
    <2>3. attempt' \in [Socket -> [AttemptId -> {"none", "verifying", "ok",
                                                 "failed"}]]
      BY <1>1 DEF IInv, TypeOK
    <2> QED
      BY <1>1, <1>3, <2>1, <2>2, <2>3 DEF IInv, TypeOK
  <1>5. \A t \in Socket : SocketOK(t)'
    <2> SUFFICES ASSUME NEW t \in Socket PROVE SocketOK(t)'
      OBVIOUS
    <2>1. CASE t # s
      BY <1>1, <1>2, <1>3, <2>1, SocketKeeps DEF IInv, TypeOK
    <2>2. CASE t = s
      <3>1. Untouched(s)
        BY <1>3 DEF IInv, SocketOK
      <3>2. /\ conn'[s] = "open" /\ token'[s].user = u
            /\ \A j \in AttemptId : attempt'[s][j] # "ok"
        BY <1>1, <1>2, <1>3, <3>1 DEF Untouched, IInv, TypeOK
      <3> QED
        BY <1>3, <2>2, <3>1, <3>2 DEF SocketOK, Untouched
    <2> QED
      BY <2>1, <2>2
  <1>6. \A t \in Socket, m \in Slot : LateOK(t, m)'
    <2> SUFFICES ASSUME NEW t \in Socket, NEW m \in Slot PROVE LateOK(t, m)'
      OBVIOUS
    <2>1. CASE t # s
      BY <1>1, <1>2, <1>3, <2>1, LateKeeps DEF IInv, TypeOK
    <2>2. CASE t = s
      <3>1. waiting[s][m] = 0 /\ LateOK(s, m)
        BY <1>3 DEF IInv, SocketOK, Untouched
      <3> QED
        BY <1>3, <2>2, <3>1 DEF LateOK
    <2> QED
      BY <2>1, <2>2
  <1> QED
    BY <1>3, <1>4, <1>5, <1>6 DEF IInv, ReadyMissesNothing

(* Only a token that is good and has not expired is accepted.              *)
LEMMA VerifyOK ==
  ASSUME IInv, NEW s \in Socket, NEW k \in AttemptId, Verify(s, k)
  PROVE  IInv'
  <1> DEFINE accepted == token[s].good /\ ~token[s].expired /\ ~data[s].null
             outcome == IF accepted THEN "ok" ELSE "failed"
  <1>1. /\ attempt[s][k] = "verifying"
        /\ attempt' = [attempt EXCEPT ![s][k] = outcome]
        /\ UNCHANGED <<token, conn, opening, waiting, late, running, arrived,
                       room, ready, heard, missed, sent>>
    BY DEF Verify, rooms
  <1>2. conn[s] # "new" /\ token[s].user \in User
    BY <1>1 DEF IInv, SocketOK, Untouched
  <1>3. data' \in [Socket -> Data]
    <2>1. [null |-> FALSE, authUser |-> token[s].user, authPromise |-> 0]
            \in Data
      BY <1>2 DEF Data
    <2> QED
      BY <2>1 DEF Verify, IInv, TypeOK
  <1>4. attempt' \in [Socket -> [AttemptId -> {"none", "verifying", "ok",
                                               "failed"}]]
    BY <1>1 DEF IInv, TypeOK
  <1>5. TypeOK'
    BY <1>1, <1>3, <1>4 DEF IInv, TypeOK
  <1>6. \A t \in Socket : SocketOK(t)'
    <2> SUFFICES ASSUME NEW t \in Socket PROVE SocketOK(t)'
      OBVIOUS
    <2>1. CASE t # s
      BY <1>1, <2>1, SocketKeeps DEF IInv, TypeOK
    <2>2. CASE t = s
      <3>1. \A j \in AttemptId : attempt'[s][j] = "ok" =>
              attempt[s][j] = "ok" \/ token[s].good
        BY <1>1 DEF IInv, TypeOK
      <3> QED
        BY <1>1, <1>2, <2>2, <3>1, OpenKeeps
    <2> QED
      BY <2>1, <2>2
  <1>7. \A t \in Socket, m \in Slot : LateOK(t, m)'
    <2> SUFFICES ASSUME NEW t \in Socket, NEW m \in Slot PROVE LateOK(t, m)'
      OBVIOUS
    <2>1. CASE t # s
      BY <1>1, <2>1, LateKeeps DEF IInv, TypeOK
    <2>2. CASE t = s
      <3>1. LateOK(s, m) /\ waiting[s][m] \in {0} \cup AttemptId
        BY DEF IInv, TypeOK
      <3>2. \A j \in AttemptId : attempt'[s][j] = "ok" =>
              attempt[s][j] = "ok" \/ ~token[s].expired
        BY <1>1 DEF IInv, TypeOK
      <3> QED
        BY <1>1, <2>2, <3>1, <3>2 DEF LateOK
    <2> QED
      BY <2>1, <2>2
  <1> QED
    BY <1>1, <1>5, <1>6, <1>7 DEF IInv, ReadyMissesNothing

(* Every message stays as it is when only the sockets' state changes.      *)
LEMMA AllLateKeep ==
  ASSUME IInv, UNCHANGED <<token, late, waiting, running, attempt>>
  PROVE  \A t \in Socket, m \in Slot : LateOK(t, m)'
  BY LateKeeps

(* The socket joins the room of its user before it hears that it is ready. *)
LEMMA OpenSocketOK ==
  ASSUME IInv, NEW s \in Socket, OpenSocket(s)
  PROVE  IInv'
  <1>1. /\ opening[s] # 0 /\ attempt[s][opening[s]] = "ok"
        /\ opening' = [opening EXCEPT ![s] = 0]
        /\ UNCHANGED <<token, conn, data, attempt, waiting, late, running,
                       arrived, heard, missed, sent>>
    BY DEF OpenSocket, session
  <1>2. /\ SocketOK(s) /\ conn[s] # "new" /\ token[s].user \in User
        /\ token[s].good
    BY <1>1 DEF IInv, SocketOK, Untouched, TypeOK
  <1>3. \/ /\ conn[s] = "open" /\ ready' = ready \cup {s}
           /\ room' = [room EXCEPT ![token[s].user] = @ \cup {s}]
        \/ conn[s] # "open" /\ room' = room /\ ready' = ready
    BY DEF OpenSocket
  <1>4. TypeOK'
    <2>1. opening' \in [Socket -> {0} \cup AttemptId]
      <3>1. opening \in [Socket -> {0} \cup AttemptId]
        BY DEF IInv, TypeOK
      <3> QED
        BY <1>1, <3>1
    <2>2. room' \in [User -> SUBSET Socket]
      <3>1. room \in [User -> SUBSET Socket]
        BY DEF IInv, TypeOK
      <3> QED
        BY <1>2, <1>3, <3>1
    <2>3. ready' \subseteq Socket
      <3>1. ready \subseteq Socket
        BY DEF IInv, TypeOK
      <3> QED
        BY <1>3, <3>1
    <2> QED
      BY <1>1, <2>1, <2>2, <2>3 DEF IInv, TypeOK
  <1>5. \A t \in Socket : SocketOK(t)'
    <2> SUFFICES ASSUME NEW t \in Socket PROVE SocketOK(t)'
      OBVIOUS
    <2>1. CASE t # s
      <3>1. /\ opening'[t] = opening[t]
            /\ t \in ready' <=> t \in ready
            /\ \A u \in User : t \in room'[u] <=> t \in room[u]
        <4>1. CASE conn[s] = "open"
          <5>1. /\ room' = [room EXCEPT ![token[s].user] = @ \cup {s}]
                /\ ready' = ready \cup {s}
                /\ opening' = [opening EXCEPT ![s] = 0]
            BY <1>1, <1>3, <4>1
          <5>2. /\ opening'[t] = opening[t]
                /\ t \in ready' <=> t \in ready
            BY <2>1, <5>1 DEF IInv, TypeOK
          <5>3. \A u \in User : t \in room'[u] <=> t \in room[u]
            BY <2>1, <5>1 DEF IInv, TypeOK
          <5> QED
            BY <5>2, <5>3
        <4>2. CASE conn[s] # "open"
          BY <1>1, <1>3, <2>1, <4>2 DEF IInv, TypeOK
        <4> QED
          BY <4>1, <4>2
      <3> QED
        BY <1>1, <3>1, SocketKeeps
    <2>2. CASE t = s
      <3>1. CASE conn[s] = "open"
        <4>1. /\ s \in room'[token[s].user]
              /\ \A u \in User : s \in room'[u] =>
                   s \in room[u] \/ u = token[s].user
          BY <1>2, <1>3, <3>1 DEF IInv, TypeOK
        <4> QED
          BY <1>1, <1>2, <2>2, <3>1, <4>1 DEF SocketOK
      <3>2. CASE conn[s] # "open"
        BY <1>1, <1>2, <1>3, <2>2, <3>2, OpenKeeps
      <3> QED
        BY <3>1, <3>2
    <2> QED
      BY <2>1, <2>2
  <1> QED
    BY <1>1, <1>4, <1>5, AllLateKeep DEF IInv, ReadyMissesNothing

(* A socket that is closed is in no room.                                  *)
LEMMA CloseKeeps ==
  ASSUME IInv, NEW s \in Socket, conn[s] # "new", Close(s),
         UNCHANGED <<token, attempt, waiting, ready, heard>>,
         \A t \in Socket \ {s} : opening'[t] = opening[t]
  PROVE  /\ \A t \in Socket : SocketOK(t)'
         /\ conn' \in [Socket -> {"new", "open", "closed"}]
         /\ room' \in [User -> SUBSET Socket]
  <1>1. /\ conn'[s] = "closed" /\ \A u \in User : s \notin room'[u]
        /\ \A t \in Socket \ {s} :
             /\ conn'[t] = conn[t]
             /\ \A u \in User : t \in room'[u] <=> t \in room[u]
    BY DEF Close, IInv, TypeOK
  <1>2. SocketOK(s)'
    BY <1>1 DEF IInv, SocketOK
  <1>3. \A t \in Socket \ {s} : SocketOK(t)'
    BY <1>1, SocketKeeps
  <1>4. /\ conn' \in [Socket -> {"new", "open", "closed"}]
        /\ room' \in [User -> SUBSET Socket]
    BY DEF Close, IInv, TypeOK
  <1> QED
    BY <1>2, <1>3, <1>4

(* A socket whose token was refused is closed.                             *)
LEMMA TurnAwayOK ==
  ASSUME IInv, NEW s \in Socket, TurnAway(s)
  PROVE  IInv'
  <1>1. /\ opening[s] # 0 /\ opening' = [opening EXCEPT ![s] = 0] /\ Close(s)
        /\ UNCHANGED <<token, data, attempt, waiting, late, running, arrived,
                       ready, heard, missed, sent>>
    BY DEF TurnAway, session
  <1>2. conn[s] # "new"
    BY <1>1 DEF IInv, SocketOK, Untouched
  <1>3. \A t \in Socket \ {s} : opening'[t] = opening[t]
    BY <1>1 DEF IInv, TypeOK
  <1>4. /\ \A t \in Socket : SocketOK(t)'
        /\ conn' \in [Socket -> {"new", "open", "closed"}]
        /\ room' \in [User -> SUBSET Socket]
    BY <1>1, <1>2, <1>3, CloseKeeps
  <1>5. TypeOK'
    BY <1>1, <1>4 DEF IInv, TypeOK
  <1> QED
    BY <1>1, <1>4, <1>5, AllLateKeep DEF IInv, ReadyMissesNothing

(* A client leaves, or is made to.                                         *)
LEMMA DisconnectOK ==
  ASSUME IInv, NEW s \in Socket, Disconnect(s)
  PROVE  IInv'
  <1>1. /\ conn[s] # "new" /\ Close(s)
        /\ UNCHANGED <<token, opening, data, attempt, waiting, late, running,
                       arrived, ready, heard, missed, sent>>
    BY DEF Disconnect, session
  <1>2. /\ \A t \in Socket : SocketOK(t)'
        /\ conn' \in [Socket -> {"new", "open", "closed"}]
        /\ room' \in [User -> SUBSET Socket]
    BY <1>1, CloseKeeps
  <1>3. TypeOK'
    BY <1>1, <1>2 DEF IInv, TypeOK
  <1> QED
    BY <1>1, <1>2, <1>3, AllLateKeep DEF IInv, ReadyMissesNothing

(* An expired token makes nobody's session longer.                         *)
LEMMA ExpireOK ==
  ASSUME IInv, NEW s \in Socket, Expire(s)
  PROVE  IInv'
  <1>1. /\ conn[s] = "open"
        /\ token' = [token EXCEPT ![s].expired = TRUE]
        /\ UNCHANGED <<conn, opening, data, attempt, waiting, late, running,
                       arrived, room, ready, heard, missed, sent>>
    BY DEF Expire, session, rooms
  <1>2. /\ token' \in [Socket -> Token]
        /\ \A t \in Socket : /\ token'[t].user = token[t].user
                             /\ token'[t].good = token[t].good
                             /\ token[t].expired => token'[t].expired
                             /\ t # s => token'[t] = token[t]
    <2> DEFINE row == [token[s] EXCEPT !.expired = TRUE]
    <2>1. /\ row \in Token /\ row.user = token[s].user
          /\ row.good = token[s].good /\ row.expired = TRUE
      BY ExpiredOK DEF IInv, TypeOK
    <2>2. token' = [token EXCEPT ![s] = row] /\ token \in [Socket -> Token]
      BY <1>1 DEF IInv, TypeOK
    <2> HIDE DEF row
    <2> QED
      BY <2>1, <2>2
  <1>3. \A t \in Socket : SocketOK(t)'
    <2> SUFFICES ASSUME NEW t \in Socket PROVE SocketOK(t)'
      OBVIOUS
    <2>1. CASE t = s
      BY <1>1, <1>2, <2>1, OpenKeeps
    <2>2. CASE t # s
      BY <1>1, <1>2, <2>2, SocketKeeps
    <2> QED
      BY <2>1, <2>2
  <1>4. \A t \in Socket, m \in Slot : LateOK(t, m)'
    BY <1>1, <1>2, LateKeeps
  <1>5. TypeOK'
    BY <1>1, <1>2 DEF IInv, TypeOK
  <1> QED
    BY <1>1, <1>3, <1>4, <1>5 DEF IInv, ReadyMissesNothing

(* What is sent to a user reaches every socket of that user that is ready. *)
LEMMA BroadcastOK ==
  ASSUME IInv, NEW u \in User, NEW except \in SUBSET Socket,
         Broadcast(u, except)
  PROVE  IInv'
  <1>1. /\ UNCHANGED <<token, conn, opening, data, attempt, waiting, late,
                       running, arrived, room, ready>>
        /\ sent < MaxBroadcasts /\ sent' = sent + 1
    BY DEF Broadcast, session
  <1>2. /\ heard' \in [Socket -> SUBSET User]
        /\ \A s \in Socket : \A v \in heard'[s] :
             \/ v \in heard[s]
             \/ v = u /\ s \in room[u]
    BY DEF Broadcast, IInv, TypeOK
  <1>3. missed' = {}
    BY DEF Broadcast, IInv, SocketOK, ReadyMissesNothing, TypeOK
  <1>4. \A s \in Socket : SocketOK(s)'
    <2> SUFFICES ASSUME NEW s \in Socket PROVE SocketOK(s)'
      OBVIOUS
    <2>1. SocketOK(s)
      BY DEF IInv
    <2>2. heard[s] = {} /\ s \notin room[u] => heard'[s] = {}
      BY <1>2
    <2>3. \A v \in heard'[s] : token[s].user = v /\ token[s].good
      BY <1>2, <2>1 DEF SocketOK
    <2> QED
      BY <1>1, <2>1, <2>2, <2>3 DEF SocketOK, Untouched
  <1>5. TypeOK'
    <2>1. sent' \in 0 .. MaxBroadcasts
      BY <1>1, SocketsAssumption DEF IInv, TypeOK
    <2> QED
      BY <1>1, <1>2, <1>3, <2>1 DEF IInv, TypeOK
  <1> QED
    BY <1>1, <1>3, <1>4, <1>5, AllLateKeep DEF IInv, ReadyMissesNothing

----------------------------------------------------------------------------
(* Messages.                                                               *)

(* What a message changes of its own socket and slot, all the rest keeps.  *)
LEMMA MessageKeeps ==
  ASSUME IInv, NEW s \in Socket, NEW m \in Slot, conn[s] # "new",
         UNCHANGED <<token, conn, opening, room, ready, heard, missed, sent>>,
         NEW w \in {0} \cup AttemptId,
         waiting' = [waiting EXCEPT ![s][m] = w],
         NEW l \in BOOLEAN, late' = [late EXCEPT ![s][m] = l],
         NEW x \in User \cup {None, "idle"},
         running' = [running EXCEPT ![s][m] = x],
         NEW k \in AttemptId,
         \/ attempt' = attempt
         \/ /\ attempt[s][k] = "none"
            /\ attempt' = [attempt EXCEPT ![s][k] = "verifying"],
         data' \in [Socket -> Data],
         arrived' \in [Socket -> 0 .. MaxMessages],
         LateOK(s, m)'
  PROVE  IInv'
  <1>1. /\ attempt' \in [Socket -> [AttemptId -> {"none", "verifying", "ok",
                                                  "failed"}]]
        /\ \A t \in Socket : \A j \in AttemptId :
             /\ attempt'[t][j] = "ok" <=> attempt[t][j] = "ok"
             /\ t # s => attempt'[t] = attempt[t]
    <2>1. CASE attempt' = attempt
      BY <2>1 DEF IInv, TypeOK
    <2>2. CASE /\ attempt[s][k] = "none"
               /\ attempt' = [attempt EXCEPT ![s][k] = "verifying"]
      <3>1. attempt' \in [Socket -> [AttemptId -> {"none", "verifying", "ok",
                                                  "failed"}]]
        BY <2>2 DEF IInv, TypeOK
      <3>2. \A t \in Socket : t # s => attempt'[t] = attempt[t]
        BY <2>2 DEF IInv, TypeOK
      <3>3. \A j \in AttemptId :
              attempt'[s][j] = "ok" <=> attempt[s][j] = "ok"
        BY <2>2 DEF IInv, TypeOK
      <3> QED
        BY <3>1, <3>2, <3>3
    <2> QED
      BY <2>1, <2>2
  <1>2. TypeOK'
    <2>1. /\ waiting' \in [Socket -> [Slot -> {0} \cup AttemptId]]
          /\ late' \in [Socket -> [Slot -> BOOLEAN]]
          /\ running' \in [Socket -> [Slot -> User \cup {None, "idle"}]]
      BY DEF IInv, TypeOK
    <2> QED
      BY <1>1, <2>1 DEF IInv, TypeOK
  <1>3. \A t \in Socket : SocketOK(t)'
    <2> SUFFICES ASSUME NEW t \in Socket PROVE SocketOK(t)'
      OBVIOUS
    <2>1. CASE t = s
      BY <1>1, <2>1, OpenKeeps
    <2>2. CASE t # s
      <3>1. attempt'[t] = attempt[t] /\ waiting'[t] = waiting[t]
        BY <2>2 DEF IInv, TypeOK
      <3> QED
        BY <3>1, SocketKeeps
    <2> QED
      BY <2>1, <2>2
  <1>4. \A t \in Socket, n \in Slot : LateOK(t, n)'
    <2> SUFFICES ASSUME NEW t \in Socket, NEW n \in Slot, t # s \/ n # m
                 PROVE  LateOK(t, n)'
      OBVIOUS
    <2>1. /\ late'[t][n] = late[t][n] /\ waiting'[t][n] = waiting[t][n]
          /\ running'[t][n] = running[t][n]
      BY DEF IInv, TypeOK
    <2>2. LateOK(t, n) /\ waiting[t][n] \in {0} \cup AttemptId
      BY DEF IInv, TypeOK
    <2> QED
      BY <1>1, <2>1, <2>2 DEF LateOK
  <1> QED
    BY <1>2, <1>3, <1>4 DEF IInv, ReadyMissesNothing

(* What Receive leaves of a message: nothing is under way in its slot.     *)
LEMMA ReceiveMeaning ==
  ASSUME IInv, NEW s \in Socket, NEW m \in Slot, Receive(s, m)
  PROVE  /\ conn[s] # "new" /\ waiting[s][m] = 0 /\ running[s][m] = "idle"
         /\ arrived' \in [Socket -> 0 .. MaxMessages]
         /\ (token[s].expired /\ ~Attempting(s)) \in BOOLEAN
         /\ late' = [late EXCEPT ![s][m] = token[s].expired /\ ~Attempting(s)]
         /\ late'[s][m] = (token[s].expired /\ ~Attempting(s))
  <1>1. (token[s].expired /\ ~Attempting(s)) \in BOOLEAN
    BY DEF IInv, TypeOK, Token, Attempting
  <1>2. arrived' \in [Socket -> 0 .. MaxMessages]
    <2>1. arrived[s] + 1 \in 0 .. MaxMessages
      BY SocketsAssumption DEF Receive, IInv, TypeOK
    <2> QED
      BY <2>1 DEF Receive, IInv, TypeOK
  <1>3. /\ late' = [late EXCEPT ![s][m] = token[s].expired /\ ~Attempting(s)]
        /\ late'[s][m] = (token[s].expired /\ ~Attempting(s))
    BY DEF Receive, IInv, TypeOK
  <1> QED
    BY <1>1, <1>2, <1>3 DEF Receive, Idle

(* A message that finds a user in client.data and a token that is valid.   *)
LEMMA MessageOfUserOK ==
  ASSUME IInv, NEW s \in Socket, NEW m \in Slot, MessageOfUser(s, m)
  PROVE  IInv'
  <1> DEFINE l == token[s].expired /\ ~Attempting(s)
             x == data[s].authUser
  <1>1. /\ conn[s] # "new" /\ waiting[s][m] = 0
        /\ arrived' \in [Socket -> 0 .. MaxMessages] /\ l \in BOOLEAN
        /\ late' = [late EXCEPT ![s][m] = l] /\ late'[s][m] = l
    BY ReceiveMeaning DEF MessageOfUser
  <1>2. x \in User \cup {None, "idle"} /\ data \in [Socket -> Data]
    BY DEF IInv, TypeOK, Data
  <1>3. /\ ~token[s].expired /\ running' = [running EXCEPT ![s][m] = x]
        /\ UNCHANGED <<token, conn, opening, data, attempt, waiting, room,
                       ready, heard, missed, sent>>
    BY DEF MessageOfUser, rooms
  <1>4. waiting' = [waiting EXCEPT ![s][m] = 0]
    BY <1>1, <1>3 DEF IInv, TypeOK
  <1>5. ~l
    BY <1>3
  <1> HIDE DEF l, x
  <1>6. LateOK(s, m)'
    BY <1>1, <1>5 DEF LateOK
  <1>7. 1 \in AttemptId
    BY SocketsAssumption DEF AttemptId
  <1> QED
    BY <1>1, <1>2, <1>3, <1>4, <1>6, <1>7, MessageKeeps

(* A message that finds an expired token: the socket is closed.            *)
LEMMA MessageExpiredOK ==
  ASSUME IInv, NEW s \in Socket, NEW m \in Slot, MessageExpired(s, m)
  PROVE  IInv'
  <1> DEFINE l == token[s].expired /\ ~Attempting(s)
  <1>1. /\ conn[s] # "new" /\ waiting[s][m] = 0 /\ running[s][m] = "idle"
        /\ arrived' \in [Socket -> 0 .. MaxMessages] /\ l \in BOOLEAN
        /\ late' = [late EXCEPT ![s][m] = l]
    BY ReceiveMeaning DEF MessageExpired
  <1> HIDE DEF l
  <1>2. /\ Close(s) /\ data' = [data EXCEPT ![s] = NullData]
        /\ UNCHANGED <<token, opening, attempt, waiting, running, ready, heard,
                       missed, sent>>
    BY DEF MessageExpired
  <1>3. /\ \A t \in Socket : SocketOK(t)'
        /\ conn' \in [Socket -> {"new", "open", "closed"}]
        /\ room' \in [User -> SUBSET Socket]
    BY <1>1, <1>2, CloseKeeps
  <1>4. data' \in [Socket -> Data]
    BY <1>2 DEF IInv, TypeOK, Data, NullData
  <1>5. late' \in [Socket -> [Slot -> BOOLEAN]]
    BY <1>1 DEF IInv, TypeOK
  <1>6. TypeOK'
    BY <1>1, <1>2, <1>3, <1>4, <1>5 DEF IInv, TypeOK
  <1>7. \A t \in Socket, n \in Slot : LateOK(t, n)'
    <2> SUFFICES ASSUME NEW t \in Socket, NEW n \in Slot PROVE LateOK(t, n)'
      OBVIOUS
    <2>1. CASE t = s /\ n = m
      BY <1>1, <1>2, <2>1 DEF LateOK
    <2>2. CASE t # s \/ n # m
      <3>1. late'[t][n] = late[t][n]
        BY <1>1, <2>2 DEF IInv, TypeOK
      <3> QED
        BY <1>2, <3>1, LateKeeps
    <2> QED
      BY <2>1, <2>2
  <1> QED
    BY <1>2, <1>3, <1>6, <1>7 DEF IInv, ReadyMissesNothing

(* A message that waits for the attempt in progress is not late.           *)
LEMMA MessageWaitsOK ==
  ASSUME IInv, NEW s \in Socket, NEW m \in Slot, MessageWaits(s, m)
  PROVE  IInv'
  <1> DEFINE l == token[s].expired /\ ~Attempting(s)
             w == data[s].authPromise
  <1>1. /\ conn[s] # "new" /\ running[s][m] = "idle"
        /\ arrived' \in [Socket -> 0 .. MaxMessages] /\ l \in BOOLEAN
        /\ late' = [late EXCEPT ![s][m] = l] /\ late'[s][m] = l
    BY ReceiveMeaning DEF MessageWaits
  <1>2. /\ w \in {0} \cup AttemptId /\ data \in [Socket -> Data]
        /\ "idle" \in User \cup {None, "idle"}
    BY DEF IInv, TypeOK, Data
  <1>3. /\ Attempting(s) /\ waiting' = [waiting EXCEPT ![s][m] = w]
        /\ UNCHANGED <<token, conn, opening, data, attempt, running, room,
                       ready, heard, missed, sent>>
    BY DEF MessageWaits, rooms
  <1>4. running' = [running EXCEPT ![s][m] = "idle"]
    BY <1>1, <1>3 DEF IInv, TypeOK
  <1>5. ~l
    BY <1>3
  <1> HIDE DEF l, w
  <1>6. LateOK(s, m)'
    BY <1>1, <1>5 DEF LateOK
  <1>7. 1 \in AttemptId
    BY SocketsAssumption DEF AttemptId
  <1> QED
    BY <1>1, <1>2, <1>3, <1>4, <1>6, <1>7, MessageKeeps

(* A late message starts an attempt when the token has expired.            *)
LEMMA MessageAuthenticatesOK ==
  ASSUME IInv, NEW s \in Socket, NEW m \in Slot, MessageAuthenticates(s, m)
  PROVE  IInv'
  <1> DEFINE l == token[s].expired /\ ~Attempting(s)
  <1>1. /\ conn[s] # "new" /\ running[s][m] = "idle"
        /\ arrived' \in [Socket -> 0 .. MaxMessages] /\ l \in BOOLEAN
        /\ late' = [late EXCEPT ![s][m] = l] /\ late'[s][m] = l
    BY ReceiveMeaning DEF MessageAuthenticates
  <1>2. PICK k \in AttemptId :
          /\ NextAttempt(s, k)
          /\ attempt' = [attempt EXCEPT ![s][k] = "verifying"]
          /\ data' = [data EXCEPT ![s].authPromise = k]
          /\ waiting' = [waiting EXCEPT ![s][m] = k]
    BY DEF MessageAuthenticates
  <1>3. UNCHANGED <<token, conn, opening, running, room, ready, heard, missed,
                    sent>>
    BY DEF MessageAuthenticates, rooms
  <1>4. /\ running' = [running EXCEPT ![s][m] = "idle"]
        /\ "idle" \in User \cup {None, "idle"}
        /\ k \in {0} \cup AttemptId
    BY <1>1, <1>3 DEF IInv, TypeOK
  <1>5. data' \in [Socket -> Data]
    BY <1>2, PromiseOK DEF IInv, TypeOK
  <1>6. /\ attempt[s][k] = "none" /\ attempt'[s][k] = "verifying"
        /\ waiting'[s][m] = k
    BY <1>2 DEF NextAttempt, IInv, TypeOK
  <1>7. l => token'[s].expired
    BY <1>3
  <1> HIDE DEF l
  <1>8. LateOK(s, m)'
    BY <1>1, <1>3, <1>6, <1>7 DEF LateOK
  <1> QED
    BY <1>1, <1>2, <1>3, <1>4, <1>5, <1>6, <1>8, MessageKeeps

(* A guard that was waiting lets its message through ...                   *)
LEMMA GuardPassesOK ==
  ASSUME IInv, NEW s \in Socket, NEW m \in Slot, GuardPasses(s, m)
  PROVE  IInv'
  <1> DEFINE x == data[s].authUser
  <1>1. /\ waiting[s][m] # 0 /\ attempt[s][waiting[s][m]] = "ok"
        /\ waiting' = [waiting EXCEPT ![s][m] = 0]
        /\ running' = [running EXCEPT ![s][m] = x]
        /\ UNCHANGED <<token, conn, opening, data, attempt, late, arrived,
                       room, ready, heard, missed, sent>>
    BY DEF GuardPasses, rooms
  <1>2. conn[s] # "new" /\ LateOK(s, m)
    BY <1>1 DEF IInv, SocketOK, Untouched
  <1>3. late[s][m] \in BOOLEAN /\ late' = [late EXCEPT ![s][m] = late[s][m]]
    BY <1>1 DEF IInv, TypeOK
  <1>4. LateOK(s, m)'
    BY <1>1, <1>2 DEF LateOK
  <1>5. /\ x \in User \cup {None, "idle"} /\ data' \in [Socket -> Data]
        /\ arrived' \in [Socket -> 0 .. MaxMessages]
    BY <1>1 DEF IInv, TypeOK, Data
  <1> HIDE DEF x
  <1>6. 1 \in AttemptId
    BY SocketsAssumption DEF AttemptId
  <1> QED
    BY <1>1, <1>2, <1>3, <1>4, <1>5, <1>6, MessageKeeps

(* ... or refuses it ...                                                   *)
LEMMA GuardRefusesOK ==
  ASSUME IInv, NEW s \in Socket, NEW m \in Slot, GuardRefuses(s, m)
  PROVE  IInv'
  <1>1. /\ waiting[s][m] # 0
        /\ waiting' = [waiting EXCEPT ![s][m] = 0]
        /\ data' = [data EXCEPT ![s].authPromise = 0]
        /\ UNCHANGED <<token, conn, opening, attempt, late, running, arrived,
                       room, ready, heard, missed, sent>>
    BY DEF GuardRefuses, rooms
  <1>2. conn[s] # "new" /\ LateOK(s, m)
    BY <1>1 DEF IInv, SocketOK, Untouched
  <1>3. /\ late[s][m] \in BOOLEAN /\ late' = [late EXCEPT ![s][m] = late[s][m]]
        /\ running[s][m] \in User \cup {None, "idle"}
        /\ running' = [running EXCEPT ![s][m] = running[s][m]]
        /\ waiting'[s][m] = 0 /\ arrived' \in [Socket -> 0 .. MaxMessages]
    BY <1>1 DEF IInv, TypeOK
  <1>4. LateOK(s, m)'
    BY <1>1, <1>2, <1>3 DEF LateOK
  <1>5. data' \in [Socket -> Data]
    BY <1>1, PromiseOK DEF IInv, TypeOK
  <1>6. 1 \in AttemptId
    BY SocketsAssumption DEF AttemptId
  <1> QED
    BY <1>1, <1>2, <1>3, <1>4, <1>5, <1>6, MessageKeeps

(* ... and a message that was let through ends.                            *)
LEMMA EndMessageOK ==
  ASSUME IInv, NEW s \in Socket, NEW m \in Slot, EndMessage(s, m)
  PROVE  IInv'
  <1>1. /\ running[s][m] # "idle"
        /\ running' = [running EXCEPT ![s][m] = "idle"]
        /\ UNCHANGED <<token, conn, opening, data, attempt, waiting, late,
                       arrived, room, ready, heard, missed, sent>>
    BY DEF EndMessage, rooms
  <1>2. /\ \A t \in Socket : SocketOK(t)'
    BY <1>1, SocketKeeps
  <1>3. TypeOK'
    <2>1. running' \in [Socket -> [Slot -> User \cup {None, "idle"}]]
      BY <1>1 DEF IInv, TypeOK
    <2> QED
      BY <1>1, <2>1 DEF IInv, TypeOK
  <1>4. \A t \in Socket, n \in Slot : LateOK(t, n)'
    <2> SUFFICES ASSUME NEW t \in Socket, NEW n \in Slot PROVE LateOK(t, n)'
      OBVIOUS
    <2>1. LateOK(t, n)
      BY DEF IInv
    <2>2. running'[t][n] = running[t][n] \/ running'[t][n] = "idle"
      BY <1>1 DEF IInv, TypeOK
    <2> QED
      BY <1>1, <2>1, <2>2 DEF LateOK
  <1> QED
    BY <1>1, <1>2, <1>3, <1>4 DEF IInv, ReadyMissesNothing

----------------------------------------------------------------------------

(* Every step keeps the invariant.                                         *)
LEMMA NextOK == IInv /\ [Next]_vars => IInv'
  <1> SUFFICES ASSUME IInv, [Next]_vars PROVE IInv'
    OBVIOUS
  <1>1. ASSUME NEW s \in Socket, Connect(s) \/ Expire(s) \/ Disconnect(s)
        PROVE  IInv'
    BY <1>1, ConnectOK, ExpireOK, DisconnectOK
  <1>2. ASSUME NEW s \in Socket, Step(s)
        PROVE  IInv'
    BY <1>2, VerifyOK, OpenSocketOK, TurnAwayOK, GuardPassesOK, GuardRefusesOK,
       EndMessageOK DEF Step
  <1>3. ASSUME NEW s \in Socket, NEW m \in Slot,
               \/ MessageOfUser(s, m) \/ MessageExpired(s, m)
               \/ MessageWaits(s, m) \/ MessageAuthenticates(s, m)
        PROVE  IInv'
    BY <1>3, MessageOfUserOK, MessageExpiredOK, MessageWaitsOK,
       MessageAuthenticatesOK
  <1>4. ASSUME NEW u \in User,
               \/ Broadcast(u, {})
               \/ \E s \in Socket, m \in Slot :
                    running[s][m] # "idle" /\ Broadcast(u, {s})
        PROVE  IInv'
    BY <1>4, BroadcastOK
  <1>5. CASE UNCHANGED vars
    <2>1. UNCHANGED <<token, conn, opening, data, attempt, waiting, late,
                      running, arrived, room, ready, heard, missed, sent>>
      BY <1>5 DEF vars, session, rooms
    <2>2. \A t \in Socket : SocketOK(t)'
      BY <2>1, SocketKeeps
    <2>3. TypeOK'
      BY <2>1 DEF IInv, TypeOK
    <2> QED
      BY <2>1, <2>2, <2>3, AllLateKeep DEF IInv, ReadyMissesNothing
  <1> QED
    BY <1>1, <1>2, <1>3, <1>4, <1>5 DEF Next

(* The inductive invariant holds in every reachable state.                 *)
THEOREM Invariance == Spec => []IInv
  BY InitOK, NextOK, PTL DEF Spec

(* Every variable keeps its type.                                          *)
THEOREM TypeCorrect == Spec => []TypeOK
  <1>1. IInv => TypeOK
    BY DEF IInv
  <1> QED
    BY <1>1, Invariance, PTL

(* A socket hears only what is sent to the user of its valid token.        *)
THEOREM SocketsHearTheirOwn == Spec => []HearsItsOwn
  <1>1. IInv => HearsItsOwn
    BY DEF IInv, SocketOK, HearsItsOwn
  <1> QED
    BY <1>1, Invariance, PTL

(* A socket that was told "ready" misses no broadcast to its user.         *)
THEOREM ReadySocketsMissNothing == Spec => []ReadyMissesNothing
  <1>1. IInv => ReadyMissesNothing
    BY DEF IInv
  <1> QED
    BY <1>1, Invariance, PTL

(* No message that came in after the token had expired is handled.         *)
THEOREM ExpiredTokensAreRefused == Spec => []ExpiredIsRefused
  <1>1. IInv => ExpiredIsRefused
    BY DEF IInv, LateOK, ExpiredIsRefused
  <1> QED
    BY <1>1, Invariance, PTL
=============================================================================
