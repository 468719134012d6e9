------------------------------ MODULE Sockets ------------------------------
(***************************************************************************)
(* The sockets of the /chat namespace: how handleConnection and the guard  *)
(* of every message share one authentication, when a socket joins the room *)
(* of its user, what an access token that expires does to it, and which    *)
(* sockets a broadcast to a room reaches.                                  *)
(*                                                                         *)
(* Every await is a point where another message of the socket may come in. *)
(* An attempt is one call of authenticateUser and the promise it returned; *)
(* client.data holds the attempt in progress (authPromise), the user once  *)
(* one succeeded (authUser), or is null after an expired session.          *)
(***************************************************************************)
EXTENDS Naturals, FiniteSets

CONSTANTS User,          \* the accounts
          Socket,        \* the connections
          Slot,          \* messages of one socket handled at the same time
          None,          \* "no user"
          MaxAttempts,   \* bound on the authentications of a socket
          MaxMessages,   \* bound on the messages of a socket
          MaxBroadcasts  \* bound on the broadcasts

ASSUME SocketsAssumption ==
  /\ None \notin User
  /\ MaxMessages \in Nat /\ MaxAttempts \in Nat
  /\ MaxMessages < MaxAttempts  \* so that the bound stops no attempt
  /\ MaxBroadcasts \in Nat

VARIABLES
  token,     \* the access token of the handshake: whose, valid, expired
  conn,      \* whether the socket is connected
  data,      \* client.data
  attempt,   \* the authentications of a socket, by number
  opening,   \* the attempt handleConnection waits for
  waiting,   \* the attempt the guard of a message waits for
  late,      \* history: the message came in after the token had expired,
             \* and no authentication was in progress
  running,   \* the user a message handler runs as
  room,      \* the sockets in the room of each user
  ready,     \* the sockets that were told "ready"
  heard,     \* the users whose broadcasts a socket has received
  missed,    \* history: sockets that did not receive a broadcast to their
             \* user, although connected and told "ready"
  arrived,   \* number of messages of a socket
  sent       \* number of broadcasts

session == <<data, attempt, waiting, late, running, arrived>>
rooms == <<room, ready, heard, missed, sent>>
vars == <<token, conn, opening, session, rooms>>

----------------------------------------------------------------------------

AttemptId == 1 .. MaxAttempts
Token == [user : User \cup {None}, good : BOOLEAN, expired : BOOLEAN]
(* The attempt in authPromise, 0 when there is none.                       *)
Data == [null : BOOLEAN, authUser : User \cup {None},
         authPromise : {0} \cup AttemptId]
Fresh == [null |-> FALSE, authUser |-> None, authPromise |-> 0]
NullData == [null |-> TRUE, authUser |-> None, authPromise |-> 0]

TypeOK ==
  /\ token \in [Socket -> Token]
  /\ conn \in [Socket -> {"new", "open", "closed"}]
  /\ data \in [Socket -> Data]
  /\ attempt \in [Socket -> [AttemptId ->
                               {"none", "verifying", "ok", "failed"}]]
  /\ opening \in [Socket -> {0} \cup AttemptId]
  /\ waiting \in [Socket -> [Slot -> {0} \cup AttemptId]]
  /\ late \in [Socket -> [Slot -> BOOLEAN]]
  /\ running \in [Socket -> [Slot -> User \cup {None, "idle"}]]
  /\ room \in [User -> SUBSET Socket]
  /\ ready \subseteq Socket
  /\ heard \in [Socket -> SUBSET User]
  /\ missed \subseteq Socket
  /\ arrived \in [Socket -> 0 .. MaxMessages]
  /\ sent \in 0 .. MaxBroadcasts

Init ==
  /\ token = [s \in Socket |-> [user |-> None, good |-> FALSE,
                                expired |-> FALSE]]
  /\ conn = [s \in Socket |-> "new"]
  /\ data = [s \in Socket |-> Fresh]
  /\ attempt = [s \in Socket |-> [k \in AttemptId |-> "none"]]
  /\ opening = [s \in Socket |-> 0]
  /\ waiting = [s \in Socket |-> [m \in Slot |-> 0]]
  /\ late = [s \in Socket |-> [m \in Slot |-> FALSE]]
  /\ running = [s \in Socket |-> [m \in Slot |-> "idle"]]
  /\ room = [u \in User |-> {}]
  /\ ready = {}
  /\ heard = [s \in Socket |-> {}]
  /\ missed = {}
  /\ arrived = [s \in Socket |-> 0]
  /\ sent = 0

----------------------------------------------------------------------------

Idle(s, m) == waiting[s][m] = 0 /\ running[s][m] = "idle"
Attempting(s) == data[s].authPromise # 0

(* The next number of an attempt.                                          *)
NextAttempt(s, k) == /\ attempt[s][k] = "none"
                     /\ \A j \in AttemptId : j < k => attempt[s][j] # "none"

(* A socket that is disconnected leaves its rooms, and joins none again.   *)
Close(s) == /\ conn' = [conn EXCEPT ![s] = "closed"]
            /\ room' = [u \in User |-> room[u] \ {s}]

(* handleConnection starts the authentication: a handshake without a       *)
(* bearer token, or with one that is not valid, is turned away later.      *)
Connect(s) ==
  /\ conn[s] = "new"
  /\ conn' = [conn EXCEPT ![s] = "open"]
  /\ \E u \in User, good, expired \in BOOLEAN :
       token' = [token EXCEPT ![s] = [user |-> u, good |-> good,
                                      expired |-> expired]]
  /\ \E k \in AttemptId :
       /\ NextAttempt(s, k)
       /\ attempt' = [attempt EXCEPT ![s][k] = "verifying"]
       /\ data' = [data EXCEPT ![s].authPromise = k]
       /\ opening' = [opening EXCEPT ![s] = k]
  /\ UNCHANGED <<waiting, late, running, arrived, rooms>>

(* Mutant of Verify: a token that is refused settles no promise.           *)
VerifyNeverRejects(s, k) ==
  /\ attempt[s][k] = "verifying"
  /\ token[s].good /\ ~token[s].expired /\ ~data[s].null
  /\ attempt' = [attempt EXCEPT ![s][k] = "ok"]
  /\ data' = [data EXCEPT ![s] = [null |-> FALSE, authUser |-> token[s].user,
                                  authPromise |-> 0]]
  /\ UNCHANGED <<token, conn, opening, waiting, late, running, arrived, rooms>>

(* Mutant of Verify: the token is kept in the place of its payload.        *)
VerifyKeepsToken(s, k) ==
  /\ attempt[s][k] = "verifying"
  /\ LET accepted == token[s].good /\ ~token[s].expired /\ ~data[s].null
     IN  /\ attempt' = [attempt EXCEPT ![s][k] = IF accepted THEN "ok"
                                                 ELSE "failed"]
         /\ data' = IF accepted
                    THEN [data EXCEPT ![s] = [null |-> FALSE,
                                              authUser |-> token[s],
                                              authPromise |-> 0]]
                    ELSE data
  /\ UNCHANGED <<token, conn, opening, waiting, late, running, arrived, rooms>>

(* authenticateUser: the token is verified, its expiry included.           *)
Verify(s, k) ==
  /\ attempt[s][k] = "verifying"
  /\ LET accepted == token[s].good /\ ~token[s].expired /\ ~data[s].null
     IN  /\ attempt' = [attempt EXCEPT ![s][k] = IF accepted THEN "ok"
                                                 ELSE "failed"]
         /\ data' = IF accepted
                    THEN [data EXCEPT ![s] = [null |-> FALSE,
                                              authUser |-> token[s].user,
                                              authPromise |-> 0]]
                    ELSE data
  /\ UNCHANGED <<token, conn, opening, waiting, late, running, arrived, rooms>>

(* Mutant of OpenSocket: "ready" is told, the room is joined later.        *)
OpenSocketEarly(s) ==
  /\ opening[s] # 0
  /\ attempt[s][opening[s]] = "ok"
  /\ ready' = IF conn[s] = "open" THEN ready \cup {s} ELSE ready
  /\ opening' = [opening EXCEPT ![s] = 0]
  /\ UNCHANGED <<token, conn, session, room, heard, missed, sent>>

(* Mutant of OpenSocket: the attempt is not waited for.                    *)
OpenSocketUnchecked(s) ==
  /\ opening[s] # 0
  /\ conn[s] = "open"
  /\ room' = [room EXCEPT ![token[s].user] = @ \cup {s}]
  /\ ready' = ready \cup {s}
  /\ opening' = [opening EXCEPT ![s] = 0]
  /\ UNCHANGED <<token, conn, session, heard, missed, sent>>

(* handleConnection goes on: the socket joins user-<sub>, then hears that  *)
(* it is ready, unless it was disconnected meanwhile ...                   *)
OpenSocket(s) ==
  /\ opening[s] # 0
  /\ attempt[s][opening[s]] = "ok"
  /\ IF conn[s] = "open"
     THEN /\ room' = [room EXCEPT ![token[s].user] = @ \cup {s}]
          /\ ready' = ready \cup {s}
     ELSE UNCHANGED <<room, ready>>
  /\ opening' = [opening EXCEPT ![s] = 0]
  /\ UNCHANGED <<token, conn, session, heard, missed, sent>>

(* Mutant of TurnAway: the socket stays connected.                         *)
TurnAwayOpen(s) ==
  /\ opening[s] # 0
  /\ attempt[s][opening[s]] = "failed"
  /\ opening' = [opening EXCEPT ![s] = 0]
  /\ UNCHANGED <<token, conn, session, rooms>>

(* ... or hears the error and is disconnected.                             *)
TurnAway(s) ==
  /\ opening[s] # 0
  /\ attempt[s][opening[s]] = "failed"
  /\ Close(s)
  /\ opening' = [opening EXCEPT ![s] = 0]
  /\ UNCHANGED <<token, session, ready, heard, missed, sent>>

----------------------------------------------------------------------------
(* BaseWsAuthGuard.canActivate, for a message of a connected socket.       *)

Receive(s, m) ==
  /\ conn[s] = "open"
  /\ Idle(s, m)
  /\ arrived[s] < MaxMessages
  /\ arrived' = [arrived EXCEPT ![s] = @ + 1]
  /\ late' = [late EXCEPT ![s][m] = token[s].expired /\ ~Attempting(s)]

(* Mutant of MessageOfUser: the expiry is looked at in the handshake only. *)
MessageOfUserExpired(s, m) ==
  /\ Receive(s, m)
  /\ data[s].authUser # None
  /\ running' = [running EXCEPT ![s][m] = data[s].authUser]
  /\ UNCHANGED <<token, conn, opening, data, attempt, waiting, rooms>>

(* The socket is authenticated and the token still valid ...               *)
MessageOfUser(s, m) ==
  /\ Receive(s, m)
  /\ data[s].authUser # None
  /\ ~token[s].expired
  /\ running' = [running EXCEPT ![s][m] = data[s].authUser]
  /\ UNCHANGED <<token, conn, opening, data, attempt, waiting, rooms>>

(* ... or expired: handleExpiredSession forgets the session and            *)
(* disconnects the socket.                                                 *)
MessageExpired(s, m) ==
  /\ Receive(s, m)
  /\ data[s].authUser # None
  /\ token[s].expired
  /\ data' = [data EXCEPT ![s] = NullData]
  /\ Close(s)
  /\ UNCHANGED <<token, opening, attempt, waiting, running, ready, heard,
                 missed, sent>>

(* The socket is being authenticated: the guard waits for that attempt.    *)
MessageWaits(s, m) ==
  /\ Receive(s, m)
  /\ data[s].authUser = None /\ Attempting(s)
  /\ waiting' = [waiting EXCEPT ![s][m] = data[s].authPromise]
  /\ UNCHANGED <<token, conn, opening, data, attempt, running, rooms>>

(* Nobody is authenticating it: the guard starts an attempt of its own.    *)
MessageAuthenticates(s, m) ==
  /\ Receive(s, m)
  /\ data[s].authUser = None /\ ~Attempting(s) /\ ~data[s].null
  /\ \E k \in AttemptId :
       /\ NextAttempt(s, k)
       /\ attempt' = [attempt EXCEPT ![s][k] = "verifying"]
       /\ data' = [data EXCEPT ![s].authPromise = k]
       /\ waiting' = [waiting EXCEPT ![s][m] = k]
  /\ UNCHANGED <<token, conn, opening, running, rooms>>

(* The attempt succeeded: the handler runs as the user of client.data.     *)
GuardPasses(s, m) ==
  /\ waiting[s][m] # 0
  /\ attempt[s][waiting[s][m]] = "ok"
  /\ waiting' = [waiting EXCEPT ![s][m] = 0]
  /\ running' = [running EXCEPT ![s][m] = data[s].authUser]
  /\ UNCHANGED <<token, conn, opening, data, attempt, late, arrived, rooms>>

(* It failed: the promise is forgotten, the message refused.               *)
GuardRefuses(s, m) ==
  /\ waiting[s][m] # 0
  /\ attempt[s][waiting[s][m]] = "failed"
  /\ waiting' = [waiting EXCEPT ![s][m] = 0]
  /\ data' = [data EXCEPT ![s].authPromise = 0]
  /\ UNCHANGED <<token, conn, opening, attempt, late, running, arrived, rooms>>

(* The handler of the message returns.                                     *)
EndMessage(s, m) ==
  /\ running[s][m] # "idle"
  /\ running' = [running EXCEPT ![s][m] = "idle"]
  /\ UNCHANGED <<token, conn, opening, data, attempt, waiting, late, arrived,
                 rooms>>

----------------------------------------------------------------------------
(* Time, the network and the other handlers.                               *)

Expire(s) ==
  /\ conn[s] = "open"
  /\ ~token[s].expired
  /\ token' = [token EXCEPT ![s].expired = TRUE]
  /\ UNCHANGED <<conn, opening, session, rooms>>

Disconnect(s) ==
  /\ conn[s] = "open"
  /\ Close(s)
  /\ UNCHANGED <<token, opening, session, ready, heard, missed, sent>>

(* An event to user-<u>: from the server (serverBroadcast, except = {}),   *)
(* or from a socket of the user, which does not hear it itself (broadcast).*)
Broadcast(u, except) ==
  /\ sent < MaxBroadcasts
  /\ sent' = sent + 1
  /\ heard' = [s \in Socket |-> IF s \in room[u] \ except
                                THEN heard[s] \cup {u} ELSE heard[s]]
  /\ missed' = missed \cup {s \in ready : /\ conn[s] = "open"
                                          /\ token[s].user = u
                                          /\ s \notin room[u]}
  /\ UNCHANGED <<token, conn, opening, session, room, ready>>

Step(s) ==
  \/ \E k \in AttemptId : Verify(s, k)
  \/ OpenSocket(s) \/ TurnAway(s)
  \/ \E m \in Slot : GuardPasses(s, m) \/ GuardRefuses(s, m)
                     \/ EndMessage(s, m)

Next ==
  \/ \E s \in Socket :
       \/ Connect(s) \/ Step(s) \/ Expire(s) \/ Disconnect(s)
       \/ \E m \in Slot : \/ MessageOfUser(s, m) \/ MessageExpired(s, m)
                          \/ MessageWaits(s, m) \/ MessageAuthenticates(s, m)
  \/ \E u \in User :
       \/ Broadcast(u, {})
       \/ \E s \in Socket, m \in Slot :
            running[s][m] # "idle" /\ Broadcast(u, {s})

Spec == Init /\ [][Next]_vars

(* The event loop resumes whoever waits for a promise that is settled, and *)
(* verification answers.                                                   *)
FairSpec == Spec /\ \A s \in Socket : WF_vars(Step(s))

----------------------------------------------------------------------------

(* A socket hears only what is sent to the user its token names, and only  *)
(* if that token was valid: no order of attempts, failures, expiry and     *)
(* disconnection puts it into the room of somebody else.                   *)
HearsItsOwn ==
  \A s \in Socket : \A u \in heard[s] : token[s].user = u /\ token[s].good

(* A socket that was told "ready" receives every broadcast to its user     *)
(* until it is disconnected.                                               *)
ReadyMissesNothing == missed = {}

(* A message that comes in after the token expired is never handled, even  *)
(* though the socket was authenticated long before.                        *)
ExpiredIsRefused ==
  \A s \in Socket, m \in Slot : late[s][m] => running[s][m] = "idle"

(* Every connection and every message that waits for an authentication     *)
(* gets its answer, whoever started that one and whatever became of it.    *)
NobodyHangs ==
  \A s \in Socket :
    /\ opening[s] # 0 ~> opening[s] = 0
    /\ \A m \in Slot : waiting[s][m] # 0 ~> waiting[s][m] = 0

(* A handshake with a token that is not valid ends in a disconnection.     *)
ImpostorsAreClosed ==
  \A s \in Socket : conn[s] = "open" /\ ~token[s].good ~> conn[s] = "closed"

----------------------------------------------------------------------------
(* The inductive invariant.                                                *)

(* Nothing has happened to a socket that is not connected yet.             *)
Untouched(s) ==
  /\ \A k \in AttemptId : attempt[s][k] = "none"
  /\ opening[s] = 0
  /\ \A m \in Slot : waiting[s][m] = 0
  /\ \A u \in User : s \notin room[u]
  /\ heard[s] = {} /\ s \notin ready

(* A socket that is connected carries the token of one user; it is in the  *)
(* room of that user only, if an attempt succeeded, and stays there from   *)
(* "ready" to the end.                                                     *)
SocketOK(s) ==
  /\ conn[s] = "new" => Untouched(s)
  /\ conn[s] # "new" => token[s].user \in User
  /\ \A k \in AttemptId : attempt[s][k] = "ok" => token[s].good
  /\ \A u \in User : s \in room[u] =>
       token[s].user = u /\ token[s].good /\ conn[s] = "open"
  /\ s \in ready /\ conn[s] = "open" => s \in room[token[s].user]
  /\ \A u \in heard[s] : token[s].user = u /\ token[s].good

(* A message that came in late waits, if at all, for an attempt that began *)
(* when the token had expired.                                             *)
LateOK(s, m) ==
  late[s][m] => /\ running[s][m] = "idle"
                /\ waiting[s][m] # 0 =>
                     token[s].expired /\ attempt[s][waiting[s][m]] # "ok"

IInv == /\ TypeOK
        /\ \A s \in Socket : SocketOK(s)
        /\ \A s \in Socket, m \in Slot : LateOK(s, m)
        /\ ReadyMissesNothing
============================================================================
