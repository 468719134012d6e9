-------------------------- MODULE Sessions_proofs --------------------------
(***************************************************************************)
(* Proofs about Sessions: the inductive invariant IInv, and from it that   *)
(* an exchange is atomic, that revocation is for good, that a refresh that *)
(* comes too late obtains nothing, and that the saga leaves no account     *)
(* behind as long as no handler is cut short.  OneInv is inductive beside  *)
(* it where no two refreshes exchange one token (RefreshesApart), and      *)
(* gives OneTokenPerSession; EndInv is where no end of a session overtakes *)
(* a refresh either (EndsApart), and gives EndedSessionsStayEnded.         *)
(***************************************************************************)
EXTENDS Sessions, TLAPS

USE DEF UserId, TokenId

(* The empty tables are consistent.                                        *)
LEMMA InitOK == Init => IInv
  <1> SUFFICES ASSUME Init PROVE IInv
    OBVIOUS
  <1>1. TypeOK
    BY SessionsAssumption
    DEF Init, TypeOK, Token, NoToken, Call, NoCall, NewCall, Label
  <1>2. \A r \in Request : CallOK(r)
    BY DEF Init, CallOK, NoCall, NewCall
  <1>3. TokensOK /\ ExchangedIsRevoked /\ IssuedOK /\ AccountsOK
    BY DEF Init, TokensOK, ExchangedIsRevoked, IssuedOK, AccountsOK, NoToken
  <1> QED
    BY <1>1, <1>2, <1>3 DEF IInv

(* What a step may change of the request that takes it: nothing else.      *)
Moves(r) == /\ pc' = [pc EXCEPT ![r] = pc'[r]]
            /\ call' = [call EXCEPT ![r] = call'[r]]

(* Requests whose rows and events do not change stay as they are.          *)
LEMMA OthersKeep ==
  ASSUME IInv, NEW r \in Request, Moves(r),
         \A t \in TokenId :
           /\ tokens[t].status # "none" => /\ tokens'[t].status # "none"
                                           /\ tokens'[t].user = tokens[t].user
           /\ tokens[t].status = "revoked" => tokens'[t].status = "revoked"
  PROVE  \A q \in Request \ {r} : CallOK(q)'
  <1> SUFFICES ASSUME NEW q \in Request, q # r PROVE CallOK(q)'
    OBVIOUS
  <1>1. pc'[q] = pc[q] /\ call'[q] = call[q]
    BY DEF IInv, TypeOK, Moves
  <1>2. CallOK(q)
    BY DEF IInv
  <1> QED
    BY <1>1, <1>2 DEF CallOK

(* A step that touches neither tables nor events keeps what is said of     *)
(* them, if no sign-up is dropped on the way.                              *)
LEMMA TablesKeep ==
  ASSUME IInv, UNCHANGED <<users, tokens, lastUser, lastToken, failed, issued>>
  PROVE  TokensOK' /\ ExchangedIsRevoked' /\ IssuedOK'
  BY DEF IInv, TokensOK, ExchangedIsRevoked, IssuedOK

(* Nor is an account left behind by a request that owes no token.          *)
LEMMA AccountsKeep ==
  ASSUME IInv, NEW r \in Request, Moves(r),
         UNCHANGED <<users, tokens, failed, issued>>,
         ~MayStop /\ pc[r] \in {"saveToken", "answer"} => call[r].op # "signup"
  PROVE  AccountsOK'
  <1>1. \A q \in Request \ {r} : pc'[q] = pc[q] /\ call'[q] = call[q]
    BY DEF IInv, TypeOK, Moves
  <1> QED
    BY <1>1 DEF IInv, AccountsOK

----------------------------------------------------------------------------
(* Requests come and go.                                                   *)

(* What a request that comes in, to wait at l, holds in memory.            *)
Fits(c, l) ==
  /\ l \in {"checkEmail", "validatePassword", "loadToken", "revokeOne",
            "revokeAll"}
  /\ l \in {"checkEmail", "validatePassword"} => ~c.late
  /\ l = "checkEmail" => c.op = "signup"
  /\ l \in {"loadToken", "revokeOne"} => /\ c.token \in TokenId
                                         /\ tokens[c.token].status # "none"
                                         /\ tokens[c.token].user = c.user
  /\ l = "loadToken" /\ c.late => tokens[c.token].status = "revoked"

(* A request that comes in with arguments that fit keeps the invariant.    *)
LEMMA ReceiveOK ==
  ASSUME IInv, NEW r \in Request, NEW c \in Call, NEW l, Fits(c, l),
         Receive(r, c, l)
  PROVE  IInv'
  <1>1. /\ Moves(r) /\ pc[r] = "idle" /\ pc'[r] = l /\ call'[r] = c
        /\ UNCHANGED <<users, tokens, lastUser, lastToken, failed, issued,
                       ended>>
        /\ received' = received + 1 /\ received < MaxRequests
    BY DEF Receive, Goto, Moves, IInv, TypeOK
  <1>2. TypeOK'
    <2>1. pc' \in [Request -> Label] /\ call' \in [Request -> Call]
      BY DEF Receive, Goto, IInv, TypeOK, Label, Fits
    <2>2. received' \in 0 .. MaxRequests
      BY <1>1, SessionsAssumption DEF IInv, TypeOK
    <2> QED
      BY <1>1, <2>1, <2>2 DEF IInv, TypeOK
  <1>3. CallOK(r)'
    BY <1>1 DEF CallOK, Fits
  <1>4. \A q \in Request \ {r} : CallOK(q)'
    BY <1>1, OthersKeep
  <1>5. TokensOK' /\ ExchangedIsRevoked' /\ IssuedOK'
    BY <1>1, TablesKeep
  <1>6. AccountsOK'
    BY <1>1, AccountsKeep
  <1> QED
    BY <1>2, <1>3, <1>4, <1>5, <1>6 DEF IInv

(* A request that comes in presents tokens that were issued, hence stored. *)
LEMMA ArriveOK == ASSUME IInv, NEW r \in Request, Arrive(r) PROVE IInv'
  <1>1. ASSUME NEW e \in Email, ReceiveSignup(r, e) PROVE IInv'
    <2> DEFINE c == NewCall("signup", e, 0, 0, FALSE)
    <2>1. c \in Call
      BY SessionsAssumption DEF Call, Operation, NewCall
    <2>2. Receive(r, c, "checkEmail")
      BY <1>1 DEF ReceiveSignup
    <2>3. Fits(c, "checkEmail")
      BY DEF Fits, NewCall
    <2> HIDE DEF c
    <2> QED
      BY <2>1, <2>2, <2>3, ReceiveOK
  <1>2. ASSUME NEW e \in Email, ReceiveSignin(r, e) PROVE IInv'
    <2> DEFINE c == NewCall("signin", e, 0, 0, FALSE)
    <2>1. c \in Call
      BY SessionsAssumption DEF Call, Operation, NewCall
    <2>2. Receive(r, c, "validatePassword")
      BY <1>2 DEF ReceiveSignin
    <2>3. Fits(c, "validatePassword")
      BY DEF Fits, NewCall
    <2> HIDE DEF c
    <2> QED
      BY <2>1, <2>2, <2>3, ReceiveOK
  <1>3. ASSUME NEW t \in issued
        PROVE  /\ t \in TokenId /\ t \in 0 .. MaxTokens
               /\ tokens[t].status # "none"
               /\ tokens[t].user \in 0 .. MaxUsers
    BY SessionsAssumption DEF IInv, TypeOK, IssuedOK, Token
  <1>4. ASSUME NEW t \in issued, ReceiveRefresh(r, t) PROVE IInv'
    <2> DEFINE c == NewCall("refresh", None, tokens[t].user, t,
                             tokens[t].status = "revoked")
    <2>1. c \in Call
      BY <1>3, SessionsAssumption DEF Call, Operation, NewCall
    <2>2. Receive(r, c, "loadToken")
      BY <1>4 DEF ReceiveRefresh
    <2>3. Fits(c, "loadToken")
      BY <1>3 DEF Fits, NewCall
    <2> HIDE DEF c
    <2> QED
      BY <2>1, <2>2, <2>3, ReceiveOK
  <1>5. ASSUME NEW t \in issued, ReceiveLogout(r, t) PROVE IInv'
    <2> DEFINE c == NewCall("logout", None, tokens[t].user, t, FALSE)
    <2>1. c \in Call
      BY <1>3, SessionsAssumption DEF Call, Operation, NewCall
    <2>2. Receive(r, c, "revokeOne")
      BY <1>5 DEF ReceiveLogout
    <2>3. Fits(c, "revokeOne")
      BY <1>3 DEF Fits, NewCall
    <2> HIDE DEF c
    <2> QED
      BY <2>1, <2>2, <2>3, ReceiveOK
  <1>6. ASSUME NEW t \in issued, ReceiveLogoutAll(r, tokens[t].user)
        PROVE  IInv'
    <2> DEFINE c == NewCall("logoutAll", None, tokens[t].user, 0, FALSE)
    <2>1. c \in Call
      BY <1>3, SessionsAssumption DEF Call, Operation, NewCall
    <2>2. Receive(r, c, "revokeAll")
      BY <1>6 DEF ReceiveLogoutAll
    <2>3. Fits(c, "revokeAll")
      BY DEF Fits, NewCall
    <2> HIDE DEF c
    <2> QED
      BY <2>1, <2>2, <2>3, ReceiveOK
  <1> QED
    BY <1>1, <1>2, <1>4, <1>5, <1>6 DEF Arrive

(* A request may be rejected, unless it just created an account and is not *)
(* allowed to stop.                                                        *)
LEMMA RejectOK ==
  ASSUME IInv, NEW r \in Request, Reject(r),
         ~MayStop /\ pc[r] \in {"saveToken", "answer"} => call[r].op # "signup"
  PROVE  IInv'
  <1>1. /\ Moves(r) /\ pc'[r] = "idle" /\ call'[r] = NoCall
        /\ UNCHANGED <<users, tokens, lastUser, lastToken, failed, issued,
                       ended, received>>
    BY DEF Reject, Finish, Goto, Moves, IInv, TypeOK
  <1>2. TypeOK'
    <2>1. pc' \in [Request -> Label] /\ call' \in [Request -> Call]
      BY SessionsAssumption
      DEF Reject, Finish, Goto, IInv, TypeOK, Label, Call, NoCall, NewCall
    <2> QED
      BY <1>1, <2>1 DEF IInv, TypeOK
  <1>3. CallOK(r)'
    BY <1>1 DEF CallOK
  <1>4. \A q \in Request \ {r} : CallOK(q)'
    BY <1>1, OthersKeep
  <1>5. TokensOK' /\ ExchangedIsRevoked' /\ IssuedOK'
    BY <1>1, TablesKeep
  <1>6. AccountsOK'
    BY <1>1, AccountsKeep
  <1> QED
    BY <1>2, <1>3, <1>4, <1>5, <1>6 DEF IInv

(* A request goes on without having touched a table.                       *)
LEMMA ContinueOK ==
  ASSUME IInv, NEW r \in Request, NEW l \in Label, NEW c \in Call,
         pc' = [pc EXCEPT ![r] = l], call' = [call EXCEPT ![r] = c],
         UNCHANGED <<users, tokens, lastUser, lastToken, failed, issued,
                     ended, received>>,
         pc[r] \notin {"saveToken", "answer"},
         CallOK(r)'
  PROVE  IInv'
  <1>1. Moves(r)
    BY DEF Moves, IInv, TypeOK
  <1>2. TypeOK'
    BY DEF IInv, TypeOK
  <1>3. \A q \in Request \ {r} : CallOK(q)'
    BY <1>1, OthersKeep
  <1>4. TokensOK' /\ ExchangedIsRevoked' /\ IssuedOK'
    BY TablesKeep
  <1>5. AccountsOK'
    BY <1>1, AccountsKeep
  <1> QED
    BY <1>2, <1>3, <1>4, <1>5 DEF IInv

(* Reading the tables and going on, or turning the request away.           *)
LEMMA ReadingOK ==
  ASSUME IInv, NEW r \in Request,
         \/ CheckEmail(r) \/ ValidatePassword(r) \/ LoadToken(r)
         \/ FindUser(r) \/ RotateFails(r)
  PROVE  IInv'
  <1>1. /\ call[r] \in Call /\ CallOK(r)
        /\ call = [call EXCEPT ![r] = call[r]]
        /\ pc \in [Request -> Label] /\ call \in [Request -> Call]
    BY DEF IInv, TypeOK
  <1>2. CASE CheckEmail(r)
    <2>1. CASE Account(call[r].email) = {}
      <3>1. /\ pc' = [pc EXCEPT ![r] = "createUser"]
            /\ call' = call
            /\ pc[r] = "checkEmail"
            /\ UNCHANGED <<users, tokens, lastUser, lastToken, failed, issued,
                           ended, received>>
        BY <1>2, <2>1 DEF CheckEmail, Goto
      <3>2. CallOK(r)'
        BY <1>1, <3>1 DEF CallOK
      <3> QED
        BY <1>1, <3>1, <3>2, ContinueOK DEF Label
    <2> QED
      BY <1>2, <2>1, RejectOK DEF CheckEmail
  <1>3. CASE ValidatePassword(r)
    <2>1. ASSUME NEW u \in Account(call[r].email),
                 call' = [call EXCEPT ![r].user = u],
                 pc' = [pc EXCEPT ![r] = "saveToken"],
                 UNCHANGED <<users, tokens, lastUser, lastToken, failed,
                             issued, ended, received>>
          PROVE  IInv'
      <3> DEFINE c == [call[r] EXCEPT !.user = u]
      <3>1. /\ u \in UserId /\ u \in 0 .. MaxUsers
            /\ pc[r] = "validatePassword"
        BY <1>3, SessionsAssumption DEF Account, ValidatePassword
      <3>2. c \in Call /\ c.user = u /\ c.late = call[r].late
        BY <1>1, <3>1 DEF Call
      <3>3. call' = [call EXCEPT ![r] = c]
        BY <1>1, <2>1
      <3> HIDE DEF c
      <3>4. pc'[r] = "saveToken" /\ call'[r] = c
        BY <1>1, <2>1, <3>3
      <3>5. CallOK(r)'
        BY <1>1, <3>1, <3>2, <3>4 DEF CallOK
      <3> QED
        BY <2>1, <3>1, <3>2, <3>3, <3>5, ContinueOK DEF Label
    <2>2. CASE Reject(r)
      BY <1>3, <2>2, RejectOK DEF ValidatePassword
    <2> QED
      BY <1>3, <2>1, <2>2 DEF ValidatePassword, Goto
  <1>4. CASE LoadToken(r)
    <2> DEFINE l == IF tokens[call[r].token].status = "revoked"
                    THEN "revokeAll" ELSE "findUser"
    <2>1. /\ pc' = [pc EXCEPT ![r] = l] /\ call' = call
          /\ pc[r] = "loadToken" /\ pc'[r] = l /\ l \in Label
          /\ UNCHANGED <<users, tokens, lastUser, lastToken, failed, issued,
                         ended, received>>
      BY <1>1, <1>4 DEF LoadToken, Goto, Label
    <2>2. CallOK(r)'
      BY <1>1, <2>1 DEF CallOK
    <2> QED
      BY <1>1, <2>1, <2>2, ContinueOK
  <1>5. CASE FindUser(r)
    <2>1. CASE users[call[r].user] # None
      <3>1. /\ pc' = [pc EXCEPT ![r] = "rotate"]
            /\ call' = call
            /\ pc[r] = "findUser"
            /\ UNCHANGED <<users, tokens, lastUser, lastToken, failed, issued,
                           ended, received>>
        BY <1>5, <2>1 DEF FindUser, Goto
      <3>2. CallOK(r)'
        BY <1>1, <3>1 DEF CallOK
      <3> QED
        BY <1>1, <3>1, <3>2, ContinueOK DEF Label
    <2> QED
      BY <1>5, <2>1, RejectOK DEF FindUser
  <1>6. CASE RotateFails(r)
    BY <1>6, RejectOK DEF RotateFails
  <1> QED
    BY <1>2, <1>3, <1>4, <1>5, <1>6

----------------------------------------------------------------------------
(* Accounts come and go.                                                   *)

(* The account that is created is being signed up.                         *)
LEMMA CreateUserOK ==
  ASSUME IInv, NEW r \in Request, CreateUser(r) PROVE IInv'
  <1>1. CASE Reject(r)
    BY <1>1, RejectOK DEF CreateUser
  <1>2. CASE ~Reject(r)
    <2> DEFINE u == lastUser + 1
               c == [call[r] EXCEPT !.user = u]
    <2>1. /\ lastUser < MaxUsers /\ lastUser' = u
          /\ users' = [users EXCEPT ![u] = call[r].email]
          /\ call' = [call EXCEPT ![r].user = u]
          /\ pc' = [pc EXCEPT ![r] = "saveToken"]
          /\ pc[r] = "createUser"
          /\ UNCHANGED <<tokens, lastToken, failed, issued, ended, received>>
      BY <1>2 DEF CreateUser, Goto
    <2>2. u \in UserId /\ u \in 0 .. MaxUsers
      BY <2>1, SessionsAssumption DEF IInv, TypeOK
    <2>3. call[r] \in Call /\ CallOK(r)
      BY DEF IInv, TypeOK
    <2>4. /\ c \in Call /\ c.user = u /\ c.late = call[r].late
          /\ c.op = call[r].op
      BY <2>2, <2>3 DEF Call
    <2>5. call' = [call EXCEPT ![r] = c]
      BY <2>1 DEF IInv, TypeOK
    <2> HIDE DEF c
    <2>6. pc'[r] = "saveToken" /\ call'[r] = c /\ Moves(r)
      BY <2>1, <2>5 DEF IInv, TypeOK, Moves
    <2>7. TypeOK'
      <3>1. pc' \in [Request -> Label] /\ call' \in [Request -> Call]
        BY <2>1, <2>4, <2>5 DEF IInv, TypeOK, Label
      <3>2. users' \in [UserId -> Email \cup {None}]
        BY <2>1, <2>2, <2>3 DEF IInv, TypeOK, Call
      <3> QED
        BY <2>1, <2>2, <3>1, <3>2 DEF IInv, TypeOK
    <2>8. CallOK(r)'
      BY <2>2, <2>3, <2>4, <2>6, <2>1 DEF CallOK
    <2>9. \A q \in Request \ {r} : CallOK(q)'
      BY <2>1, <2>6, OthersKeep
    <2>10. TokensOK' /\ ExchangedIsRevoked' /\ IssuedOK'
      BY <2>1 DEF IInv, TokensOK, ExchangedIsRevoked, IssuedOK
    <2>11. AccountsOK'
      <3> SUFFICES ASSUME ~MayStop, NEW w \in UserId, users'[w] # None
                   PROVE  \/ w \in failed
                          \/ \E t \in issued : tokens[t].user = w
                          \/ \E q \in Request :
                               /\ pc'[q] \in {"saveToken", "answer"}
                               /\ call'[q].op = "signup"
                               /\ call'[q].user = w
        BY <2>1 DEF AccountsOK
      <3>1. CASE w = u
        BY <3>1, <2>1, <2>3, <2>4, <2>6 DEF CallOK
      <3>2. CASE w # u
        <4>1. users[w] # None
          BY <3>2, <2>1, <2>2 DEF IInv, TypeOK
        <4>2. \A q \in Request : pc[q] \in {"saveToken", "answer"} =>
                pc'[q] = pc[q] /\ call'[q] = call[q]
          BY <2>1, <2>5 DEF IInv, TypeOK
        <4> QED
          BY <4>1, <4>2 DEF IInv, AccountsOK
      <3> QED
        BY <3>1, <3>2
    <2> QED
      BY <2>7, <2>8, <2>9, <2>10, <2>11 DEF IInv
  <1> QED
    BY <1>1, <1>2

(* A signup that loses its token hands its account to the saga.            *)
LEMMA SaveTokenFailsOK ==
  ASSUME IInv, NEW r \in Request, SaveTokenFails(r) PROVE IInv'
  <1>1. /\ pc[r] = "saveToken" /\ pc'[r] = "idle" /\ call'[r] = NoCall
        /\ Moves(r)
        /\ failed' = IF call[r].op = "signup" THEN failed \cup {call[r].user}
                     ELSE failed
        /\ UNCHANGED <<users, tokens, lastUser, lastToken, issued, ended,
                       received>>
    BY DEF SaveTokenFails, Finish, Goto, Moves, IInv, TypeOK
  <1>2. CallOK(r)
    BY DEF IInv
  <1>3. TypeOK'
    <2>1. pc' \in [Request -> Label] /\ call' \in [Request -> Call]
      BY SessionsAssumption
      DEF SaveTokenFails, Finish, Goto, IInv, TypeOK, Label, Call, NoCall,
          NewCall
    <2>2. failed' \subseteq UserId
      BY <1>1, <1>2 DEF IInv, TypeOK, CallOK
    <2> QED
      BY <1>1, <2>1, <2>2 DEF IInv, TypeOK
  <1>4. CallOK(r)'
    BY <1>1 DEF CallOK
  <1>5. \A q \in Request \ {r} : CallOK(q)'
    BY <1>1, OthersKeep
  <1>6. TokensOK' /\ ExchangedIsRevoked' /\ IssuedOK'
    BY <1>1 DEF IInv, TokensOK, ExchangedIsRevoked, IssuedOK
  <1>7. AccountsOK'
    <2>1. \A q \in Request \ {r} : pc'[q] = pc[q] /\ call'[q] = call[q]
      BY <1>1 DEF IInv, TypeOK, Moves
    <2> QED
      BY <1>1, <2>1 DEF IInv, AccountsOK
  <1> QED
    BY <1>3, <1>4, <1>5, <1>6, <1>7 DEF IInv

(* The saga deletes the account, or the event is lost with the process.    *)
LEMMA SagaOK ==
  ASSUME IInv, NEW u \in failed, DeleteUser(u) \/ LoseEvent(u) PROVE IInv'
  <1>1. UNCHANGED <<tokens, lastUser, lastToken, pc, call, issued, ended,
                    received>>
        /\ failed' = failed \ {u}
    BY DEF DeleteUser, LoseEvent
  <1>2. u \in UserId
    BY DEF IInv, TypeOK
  <1>3. TypeOK'
    <2>1. users' \in [UserId -> Email \cup {None}]
      BY <1>2 DEF IInv, TypeOK, DeleteUser, LoseEvent
    <2> QED
      BY <1>1, <2>1 DEF IInv, TypeOK
  <1>4. \A r \in Request : CallOK(r)'
    BY <1>1 DEF IInv, CallOK
  <1>5. TokensOK' /\ ExchangedIsRevoked' /\ IssuedOK'
    BY <1>1 DEF IInv, TokensOK, ExchangedIsRevoked, IssuedOK
  <1>6. AccountsOK'
    <2>1. CASE LoseEvent(u)
      BY <2>1 DEF LoseEvent, AccountsOK
    <2>2. CASE DeleteUser(u)
      <3>1. \A w \in UserId : users'[w] # None => users[w] # None /\ w # u
        BY <2>2, <1>2 DEF DeleteUser, IInv, TypeOK
      <3> QED
        BY <3>1, <1>1 DEF IInv, AccountsOK
    <2> QED
      BY <2>1, <2>2
  <1> QED
    BY <1>3, <1>4, <1>5, <1>6 DEF IInv

----------------------------------------------------------------------------
(* Tokens are stored and revoked.                                          *)

(* A token is stored in exchange for p, or for none if p is 0.             *)
LEMMA StoreOK ==
  ASSUME IInv, NEW r \in Request, NEW p \in 0 .. MaxTokens, NEW o \in TokenId,
         pc[r] \in {"saveToken", "rotate"},
         lastToken < MaxTokens, lastToken' = lastToken + 1,
         tokens' \in [TokenId -> Token],
         tokens'[lastToken + 1] = [status |-> "live", user |-> call[r].user,
                                   parent |-> p, origin |-> o],
         \A t \in TokenId \ {lastToken + 1} :
           /\ tokens'[t].user = tokens[t].user
           /\ tokens'[t].parent = tokens[t].parent
           /\ tokens'[t].origin = tokens[t].origin
           /\ tokens'[t].status = IF t = p THEN "revoked"
                                  ELSE tokens[t].status,
         p # 0 => /\ pc[r] = "rotate"
                  /\ p = call[r].token,
         call' = [call EXCEPT ![r].new = lastToken + 1],
         pc' = [pc EXCEPT ![r] = "answer"],
         UNCHANGED <<users, lastUser, failed, issued, ended, received>>
  PROVE  IInv'
  <1> DEFINE n == lastToken + 1
             c == [call[r] EXCEPT !.new = n]
  <1>1. /\ n \in TokenId /\ n \in 0 .. MaxTokens
    BY SessionsAssumption DEF IInv, TypeOK
  <1>2. call[r] \in Call /\ CallOK(r)
    BY DEF IInv, TypeOK
  <1>3. /\ c \in Call /\ c.new = n /\ c.user = call[r].user
        /\ c.late = call[r].late /\ c.op = call[r].op
    BY <1>1, <1>2 DEF Call
  <1>4. call' = [call EXCEPT ![r] = c]
    BY DEF IInv, TypeOK
  <1> HIDE DEF c
  <1>5. pc'[r] = "answer" /\ call'[r] = c /\ Moves(r)
    BY <1>4 DEF IInv, TypeOK, Moves
  <1>6. call[r].user \in UserId /\ ~call[r].late
    BY <1>2 DEF CallOK, IInv, TokensOK
  <1>7. tokens[n].status = "none"
    <2>1. ~(n <= lastToken)
      BY DEF IInv, TypeOK
    <2> QED
      BY <1>1, <2>1 DEF IInv, TokensOK
  <1>8. p # 0 => /\ p \in TokenId /\ p # n
                 /\ tokens[p].status # "none"
                 /\ tokens[p].user = call[r].user
    BY <1>2, <1>7 DEF CallOK
  <1>9. ASSUME NEW t \in TokenId, t # n
        PROVE  /\ tokens'[t].user = tokens[t].user
               /\ tokens'[t].parent = tokens[t].parent
               /\ tokens'[t].origin = tokens[t].origin
               /\ tokens[t].status # "none" <=> tokens'[t].status # "none"
               /\ tokens[t].status = "revoked" => tokens'[t].status = "revoked"
    BY <1>8, <1>9
  <1>10. TypeOK'
    <2>1. pc' \in [Request -> Label] /\ call' \in [Request -> Call]
      BY <1>3, <1>4 DEF IInv, TypeOK, Label
    <2> QED
      BY <1>1, <2>1 DEF IInv, TypeOK
  <1>11. CallOK(r)'
    BY <1>1, <1>3, <1>5, <1>6 DEF CallOK
  <1>12. \A q \in Request \ {r} : CallOK(q)'
    BY <1>5, <1>7, <1>9, OthersKeep
  <1>13. TokensOK'
    <2> SUFFICES ASSUME NEW t \in TokenId
                 PROVE  /\ tokens'[t].status = "none" => tokens'[t].parent = 0
                        /\ tokens'[t].status # "none" =>
                             /\ t <= lastToken'
                             /\ tokens'[t].user \in UserId
                             /\ tokens'[t].origin \in TokenId
      BY DEF TokensOK
    <2>1. CASE t = n
      BY <2>1, <1>1, <1>6
    <2>2. CASE t # n
      <3>1. tokens[t].status # "none" => t <= lastToken'
        BY DEF IInv, TypeOK, TokensOK
      <3> QED
        BY <2>2, <3>1, <1>9 DEF IInv, TokensOK
    <2> QED
      BY <2>1, <2>2
  <1>14. ExchangedIsRevoked'
    <2> SUFFICES ASSUME NEW t \in TokenId, tokens'[t].parent # 0
                 PROVE  /\ tokens'[tokens'[t].parent].status = "revoked"
                        /\ tokens'[tokens'[t].parent].user = tokens'[t].user
      BY DEF ExchangedIsRevoked
    <2>1. CASE t = n
      <3>1. tokens'[t].parent = p /\ tokens'[t].user = call[r].user
        BY <2>1
      <3> QED
        BY <3>1, <1>8
    <2>2. CASE t # n
      <3> DEFINE q == tokens[t].parent
      <3>1. /\ tokens'[t].parent = q /\ q # 0 /\ q \in TokenId
            /\ tokens'[t].user = tokens[t].user
        BY <2>2, <1>9 DEF IInv, TypeOK, Token
      <3>2. tokens[q].status = "revoked" /\ tokens[q].user = tokens[t].user
        BY <3>1 DEF IInv, ExchangedIsRevoked
      <3>3. q # n
        BY <3>2, <1>7
      <3> QED
        BY <3>1, <3>2, <3>3, <1>9
    <2> QED
      BY <2>1, <2>2
  <1>15. IssuedOK'
    BY <1>1, <1>7, <1>9 DEF IInv, TypeOK, IssuedOK
  <1>16. AccountsOK'
    <2> SUFFICES ASSUME ~MayStop, NEW w \in UserId, users[w] # None
                 PROVE  \/ w \in failed
                        \/ \E t \in issued : tokens'[t].user = w
                        \/ \E q \in Request :
                             /\ pc'[q] \in {"saveToken", "answer"}
                             /\ call'[q].op = "signup"
                             /\ call'[q].user = w
      BY DEF AccountsOK
    <2>1. \A t \in issued : tokens'[t].user = tokens[t].user
      BY <1>7, <1>9 DEF IInv, TypeOK, IssuedOK
    <2>2. \A q \in Request : pc[q] \in {"saveToken", "answer"} =>
            /\ pc'[q] \in {"saveToken", "answer"}
            /\ call'[q].op = call[q].op /\ call'[q].user = call[q].user
      BY <1>3, <1>4, <1>5 DEF IInv, TypeOK
    <2> QED
      BY <2>1, <2>2 DEF IInv, AccountsOK
  <1> QED
    BY <1>10, <1>11, <1>12, <1>13, <1>14, <1>15, <1>16 DEF IInv

(* Sign-up and sign-in store a token that replaces none.                   *)
LEMMA SaveTokenOK ==
  ASSUME IInv, NEW r \in Request, SaveToken(r) PROVE IInv'
  <1> DEFINE n == lastToken + 1
             row == [status |-> "live", user |-> call[r].user, parent |-> 0,
                     origin |-> n]
  <1>1. /\ tokens \in [TokenId -> Token] /\ n \in TokenId
        /\ n \in 0 .. MaxTokens /\ 0 \in 0 .. MaxTokens /\ 0 \notin TokenId
        /\ call[r].user \in 0 .. MaxUsers
    BY SessionsAssumption DEF IInv, TypeOK, SaveToken, Call
  <1>2. row \in Token
    BY <1>1 DEF Token
  <1>3. tokens' = [tokens EXCEPT ![n] = row]
    BY DEF SaveToken
  <1> HIDE DEF row
  <1>4. /\ tokens' \in [TokenId -> Token] /\ tokens'[n] = row
        /\ \A t \in TokenId \ {n} : tokens'[t] = tokens[t] /\ t # 0
    BY <1>1, <1>2, <1>3
  <1>5. tokens'[n] = [status |-> "live", user |-> call[r].user, parent |-> 0,
                      origin |-> n]
    BY <1>4 DEF row
  <1> QED
    BY <1>1, <1>4, <1>5, StoreOK DEF SaveToken, Goto

(* A row that is revoked keeps the rest.                                   *)
LEMMA RevokedRow ==
  ASSUME NEW x \in Token
  PROVE  /\ [x EXCEPT !.status = "revoked"] \in Token
         /\ [x EXCEPT !.status = "revoked"].status = "revoked"
         /\ [x EXCEPT !.status = "revoked"].user = x.user
         /\ [x EXCEPT !.status = "revoked"].parent = x.parent
         /\ [x EXCEPT !.status = "revoked"].origin = x.origin
  BY DEF Token

(* A refresh stores a token and revokes the one it replaces.               *)
LEMMA RotateOK ==
  ASSUME IInv, NEW r \in Request, Rotate(r) PROVE IInv'
  <1> DEFINE n == lastToken + 1
             p == call[r].token
             o == tokens[p].origin
             row == [status |-> "live", user |-> call[r].user, parent |-> p,
                     origin |-> o]
             old == [tokens[p] EXCEPT !.status = "revoked"]
  <1>1. /\ tokens \in [TokenId -> Token] /\ n \in TokenId
        /\ n \in 0 .. MaxTokens /\ 0 \notin TokenId
        /\ call[r].user \in 0 .. MaxUsers
        /\ pc[r] = "rotate"
    BY SessionsAssumption DEF IInv, TypeOK, Rotate, Call
  <1>2. p \in TokenId /\ p \in 0 .. MaxTokens /\ tokens[p].status # "none"
    BY <1>1, SessionsAssumption DEF IInv, CallOK
  <1>3. o \in TokenId /\ o \in 0 .. MaxTokens /\ p <= lastToken
    BY <1>2, SessionsAssumption DEF IInv, TokensOK
  <1>4. p # n
    BY <1>2, <1>3, SessionsAssumption DEF IInv, TypeOK
  <1>5. row \in Token
    BY <1>1, <1>2, <1>3 DEF Token
  <1>6. /\ old \in Token /\ old.status = "revoked"
        /\ old.user = tokens[p].user /\ old.parent = tokens[p].parent
        /\ old.origin = tokens[p].origin
    BY <1>1, <1>2, RevokedRow
  <1>7. tokens' = [tokens EXCEPT ![p] = old, ![n] = row]
    BY <1>1, <1>2 DEF Rotate
  <1> HIDE DEF row, old, o
  <1>8. /\ tokens' \in [TokenId -> Token] /\ tokens'[n] = row
        /\ tokens'[p] = old
        /\ \A t \in TokenId \ {n, p} : tokens'[t] = tokens[t]
    BY <1>1, <1>2, <1>4, <1>5, <1>6, <1>7
  <1>9. tokens'[n] = [status |-> "live", user |-> call[r].user, parent |-> p,
                      origin |-> o]
    BY <1>8 DEF row
  <1>10. \A t \in TokenId \ {n} :
           /\ tokens'[t].user = tokens[t].user
           /\ tokens'[t].parent = tokens[t].parent
           /\ tokens'[t].origin = tokens[t].origin
           /\ tokens'[t].status = IF t = p THEN "revoked"
                                  ELSE tokens[t].status
    <2> SUFFICES ASSUME NEW t \in TokenId \ {n}
                 PROVE
                   /\ tokens'[t].user = tokens[t].user
                   /\ tokens'[t].parent = tokens[t].parent
                   /\ tokens'[t].origin = tokens[t].origin
                   /\ tokens'[t].status = IF t = p THEN "revoked"
                                          ELSE tokens[t].status
      OBVIOUS
    <2>1. CASE t = p
      BY <1>6, <1>8, <2>1
    <2>2. CASE t # p
      <3>1. tokens'[t] = tokens[t]
        BY <1>8, <2>2
      <3> QED
        BY ONLY <2>2, <3>1
    <2> QED
      BY <2>1, <2>2
  <1>11. /\ lastToken < MaxTokens /\ lastToken' = lastToken + 1
         /\ p = call[r].token
         /\ call' = [call EXCEPT ![r].new = lastToken + 1]
         /\ pc' = [pc EXCEPT ![r] = "answer"]
         /\ UNCHANGED <<users, lastUser, failed, issued, ended, received>>
    BY DEF Rotate, Goto
  <1> HIDE DEF p
  <1> QED
    BY <1>1, <1>2, <1>3, <1>8, <1>9, <1>10, <1>11, StoreOK

(* A logout or reuse detection revokes tokens and ends their sessions.     *)
LEMMA RevokeOK ==
  ASSUME IInv, NEW r \in Request, NEW T \in SUBSET TokenId,
         pc[r] \notin {"saveToken", "answer"},
         \A t \in T : tokens[t].status # "none",
         tokens' = [t \in TokenId |->
                      IF t \in T THEN [tokens[t] EXCEPT !.status = "revoked"]
                      ELSE tokens[t]],
         ended' \subseteq TokenId,
         Finish(r),
         UNCHANGED <<users, lastUser, lastToken, failed, issued, received>>
  PROVE  IInv'
  <1>1. /\ Moves(r) /\ pc'[r] = "idle" /\ call'[r] = NoCall
        /\ pc' \in [Request -> Label] /\ call' \in [Request -> Call]
    BY SessionsAssumption
    DEF Finish, Goto, Moves, IInv, TypeOK, Label, Call, NoCall, NewCall
  <1>2. ASSUME NEW t \in TokenId
        PROVE  /\ tokens'[t] \in Token
               /\ tokens'[t].user = tokens[t].user
               /\ tokens'[t].parent = tokens[t].parent
               /\ tokens'[t].origin = tokens[t].origin
               /\ tokens[t].status # "none" <=> tokens'[t].status # "none"
               /\ tokens[t].status = "revoked" => tokens'[t].status = "revoked"
    <2>1. tokens[t] \in Token /\ (t \in T => tokens[t].status # "none")
      BY DEF IInv, TypeOK
    <2>2. CASE t \in T
      <3>1. tokens'[t] = [tokens[t] EXCEPT !.status = "revoked"]
        BY <2>2
      <3> QED
        BY <2>1, <2>2, <3>1, RevokedRow
    <2>3. CASE t \notin T
      BY <2>1, <2>3
    <2> QED
      BY <2>2, <2>3
  <1>3. TypeOK'
    <2>1. tokens' \in [TokenId -> Token]
      BY <1>2
    <2> QED
      BY <1>1, <2>1 DEF IInv, TypeOK
  <1>4. CallOK(r)'
    BY <1>1 DEF CallOK
  <1>5. \A q \in Request \ {r} : CallOK(q)'
    BY <1>1, <1>2, OthersKeep
  <1>6. TokensOK'
    BY <1>2 DEF IInv, TokensOK
  <1>7. ExchangedIsRevoked'
    <2> SUFFICES ASSUME NEW t \in TokenId, tokens'[t].parent # 0
                 PROVE  /\ tokens'[tokens'[t].parent].status = "revoked"
                        /\ tokens'[tokens'[t].parent].user = tokens'[t].user
      BY DEF ExchangedIsRevoked
    <2> DEFINE q == tokens[t].parent
    <2>1. /\ tokens'[t].parent = q /\ q # 0 /\ q \in TokenId
          /\ tokens'[t].user = tokens[t].user
      BY <1>2 DEF IInv, TypeOK, Token
    <2>2. tokens[q].status = "revoked" /\ tokens[q].user = tokens[t].user
      BY <2>1 DEF IInv, ExchangedIsRevoked
    <2> QED
      BY <2>1, <2>2, <1>2
  <1>8. IssuedOK'
    BY <1>2 DEF IInv, TypeOK, IssuedOK
  <1>9. AccountsOK'
    <2>1. \A q \in Request : pc[q] \in {"saveToken", "answer"} =>
            pc'[q] = pc[q] /\ call'[q] = call[q]
      BY <1>1 DEF IInv, TypeOK, Moves
    <2>2. \A t \in issued : tokens'[t].user = tokens[t].user
      BY <1>2 DEF IInv, TypeOK
    <2> QED
      BY <2>1, <2>2 DEF IInv, AccountsOK
  <1> QED
    BY <1>3, <1>4, <1>5, <1>6, <1>7, <1>8, <1>9 DEF IInv

(* All the tokens of the user are revoked.                                 *)
LEMMA RevokeAllOK ==
  ASSUME IInv, NEW r \in Request, RevokeAll(r) PROVE IInv'
  <1> DEFINE T == Owned(call[r].user)
  <1>1. T \in SUBSET TokenId /\ \A t \in T : tokens[t].status # "none"
    BY DEF Owned
  <1>2. ended' \subseteq TokenId
    BY <1>1 DEF RevokeAll, IInv, TypeOK, TokensOK
  <1>3. /\ tokens' = [t \in TokenId |->
                        IF t \in T THEN [tokens[t] EXCEPT !.status = "revoked"]
                        ELSE tokens[t]]
        /\ pc[r] = "revokeAll" /\ Finish(r)
        /\ UNCHANGED <<users, lastUser, lastToken, failed, issued, received>>
    BY DEF RevokeAll
  <1> HIDE DEF T
  <1> QED
    BY <1>1, <1>2, <1>3, RevokeOK

(* The token presented is revoked.                                         *)
LEMMA RevokeOneOK ==
  ASSUME IInv, NEW r \in Request, RevokeOne(r) PROVE IInv'
  <1> DEFINE p == call[r].token
             T == {p}
  <1>1. p \in TokenId /\ tokens[p].status # "none"
    BY DEF RevokeOne, IInv, CallOK
  <1>2. T \in SUBSET TokenId /\ \A t \in T : tokens[t].status # "none"
    BY <1>1
  <1>3. ended' \subseteq TokenId
    BY <1>1 DEF RevokeOne, IInv, TypeOK, TokensOK
  <1>4. tokens' = [t \in TokenId |->
                     IF t \in T THEN [tokens[t] EXCEPT !.status = "revoked"]
                     ELSE tokens[t]]
    BY <1>1 DEF RevokeOne, IInv, TypeOK
  <1>5. /\ pc[r] = "revokeOne" /\ Finish(r)
        /\ UNCHANGED <<users, lastUser, lastToken, failed, issued, received>>
    BY DEF RevokeOne
  <1> HIDE DEF T
  <1> QED
    BY <1>2, <1>3, <1>4, <1>5, RevokeOK

(* The account whose owner is told its token needs nobody else any more.   *)
LEMMA AnswerTokenOK ==
  ASSUME IInv, NEW r \in Request, AnswerToken(r) PROVE IInv'
  <1>1. /\ Moves(r) /\ pc[r] = "answer" /\ pc'[r] = "idle"
        /\ call'[r] = NoCall
        /\ issued' = issued \cup {call[r].new}
        /\ UNCHANGED <<users, tokens, lastUser, lastToken, failed, ended,
                       received>>
        /\ pc' \in [Request -> Label] /\ call' \in [Request -> Call]
    BY SessionsAssumption
    DEF AnswerToken, Finish, Goto, Moves, IInv, TypeOK, Label, Call, NoCall,
        NewCall
  <1>2. /\ call[r].new \in TokenId /\ tokens[call[r].new].status # "none"
        /\ tokens[call[r].new].user = call[r].user
    BY <1>1 DEF IInv, CallOK
  <1>3. TypeOK'
    BY <1>1, <1>2 DEF IInv, TypeOK
  <1>4. CallOK(r)'
    BY <1>1 DEF CallOK
  <1>5. \A q \in Request \ {r} : CallOK(q)'
    BY <1>1, OthersKeep
  <1>6. TokensOK' /\ ExchangedIsRevoked' /\ IssuedOK'
    BY <1>1, <1>2 DEF IInv, TokensOK, ExchangedIsRevoked, IssuedOK
  <1>7. AccountsOK'
    <2>1. \A q \in Request \ {r} : pc'[q] = pc[q] /\ call'[q] = call[q]
      BY <1>1 DEF IInv, TypeOK, Moves
    <2> QED
      BY <1>1, <1>2, <2>1 DEF IInv, AccountsOK
  <1> QED
    BY <1>3, <1>4, <1>5, <1>6, <1>7 DEF IInv

----------------------------------------------------------------------------

(* The invariant is inductive.                                             *)
LEMMA NextOK == IInv /\ [Next]_vars => IInv'
  <1> SUFFICES ASSUME IInv, [Next]_vars PROVE IInv'
    OBVIOUS
  <1>1. ASSUME NEW r \in Request, Step(r) PROVE IInv'
    BY <1>1, ReadingOK, CreateUserOK, SaveTokenOK, SaveTokenFailsOK, RotateOK,
       RevokeAllOK, RevokeOneOK, AnswerTokenOK
    DEF Step
  <1>2. ASSUME NEW r \in Request, FailRequest(r) PROVE IInv'
    BY <1>2, RejectOK DEF FailRequest
  <1>3. CASE UNCHANGED vars
    BY <1>3
    DEF vars, IInv, TypeOK, CallOK, TokensOK, ExchangedIsRevoked, IssuedOK,
        AccountsOK
  <1> QED
    BY <1>1, <1>2, <1>3, ArriveOK, SagaOK DEF Next

(* IInv holds in every reachable state.                                    *)
THEOREM Invariance == Spec => []IInv
  BY InitOK, NextOK, PTL DEF Spec

(* The tables, the queue and the requests in flight have their types.      *)
THEOREM TypeCorrect == Spec => []TypeOK
  <1>1. IInv => TypeOK
    BY DEF IInv
  <1> QED
    BY <1>1, Invariance, PTL

(* rotateRefreshToken: whatever fails and whoever interferes, a token that *)
(* was exchanged for another is revoked, and the account stays the same.   *)
THEOREM ExchangeIsAtomic == Spec => []ExchangedIsRevoked
  <1>1. IInv => ExchangedIsRevoked
    BY DEF IInv
  <1> QED
    BY <1>1, Invariance, PTL

(* RefreshTokensHandler: a refresh whose token was revoked when it came in *)
(* is never answered with a token.                                         *)
THEOREM LateIsTurnedAway == Spec => []LateRefreshGetsNothing
  <1>1. IInv => LateRefreshGetsNothing
    BY DEF IInv, CallOK, LateRefreshGetsNothing
  <1> QED
    BY <1>1, Invariance, PTL

(* SignupHandler and AuthSaga: when nothing is in flight no account is     *)
(* left whose owner was never given a token.                               *)
THEOREM SagaCleansUp == ~MayStop => (Spec => []NoOrphanAccount)
  <1> SUFFICES ASSUME ~MayStop PROVE Spec => []NoOrphanAccount
    OBVIOUS
  <1>1. IInv => NoOrphanAccount
    BY DEF IInv, AccountsOK, NoOrphanAccount, Quiet
  <1> QED
    BY <1>1, Invariance, PTL

(* No step of any handler makes a revoked token live again.                *)
THEOREM RevocationIsFinal == Spec => RevokedForGood
  <1> DEFINE A == \A t \in TokenId : tokens[t].status = "revoked"
                                       => tokens'[t].status = "revoked"
  <1>1. IInv /\ [Next]_vars => [A]_tokens
    <2> SUFFICES ASSUME IInv, [Next]_vars,
                        NEW t \in TokenId, tokens[t].status = "revoked"
                 PROVE  tokens'[t].status = "revoked"
      OBVIOUS
    <2>1. CASE UNCHANGED tokens
      BY <2>1
    <2>2. ASSUME NEW r \in Request, SaveToken(r) \/ Rotate(r)
          PROVE  tokens'[t].status = "revoked"
      <3>1. t <= lastToken /\ t # lastToken + 1
        BY SessionsAssumption DEF IInv, TypeOK, TokensOK
      <3>2. CASE SaveToken(r)
        BY <3>1, <3>2 DEF SaveToken, IInv, TypeOK
      <3>3. CASE Rotate(r)
        <4>1. call[r].token \in TokenId
          BY <3>3 DEF Rotate, IInv, CallOK
        <4> QED
          BY <3>1, <3>3, <4>1 DEF Rotate, IInv, TypeOK, Token
      <3> QED
        BY <2>2, <3>2, <3>3
    <2>3. ASSUME NEW r \in Request, RevokeAll(r) \/ RevokeOne(r)
          PROVE  tokens'[t].status = "revoked"
      <3>1. tokens[t] \in Token /\ tokens \in [TokenId -> Token]
        BY DEF IInv, TypeOK
      <3>2. CASE RevokeAll(r)
        <4>1. \/ tokens'[t] = tokens[t]
              \/ tokens'[t] = [tokens[t] EXCEPT !.status = "revoked"]
          BY <3>2 DEF RevokeAll
        <4> QED
          BY <3>1, <4>1, RevokedRow
      <3>3. CASE RevokeOne(r)
        <4>1. \/ tokens'[t] = tokens[t]
              \/ tokens'[t] = [tokens[t] EXCEPT !.status = "revoked"]
          BY <3>1, <3>3 DEF RevokeOne
        <4> QED
          BY <3>1, <4>1, RevokedRow
      <3> QED
        BY <2>3, <3>2, <3>3
    <2>4. ASSUME NEW r \in Request,
                 \/ Arrive(r) \/ FailRequest(r)
                 \/ CheckEmail(r) \/ CreateUser(r) \/ ValidatePassword(r)
                 \/ SaveTokenFails(r) \/ LoadToken(r) \/ FindUser(r)
                 \/ RotateFails(r) \/ AnswerToken(r)
          PROVE  UNCHANGED tokens
      BY <2>4
      DEF Arrive, ReceiveSignup, ReceiveSignin, ReceiveRefresh, ReceiveLogout,
          ReceiveLogoutAll, Receive, FailRequest, Reject, CheckEmail,
          CreateUser, ValidatePassword, SaveTokenFails, LoadToken, FindUser,
          RotateFails, AnswerToken
    <2>5. ASSUME NEW u \in failed, DeleteUser(u) \/ LoseEvent(u)
          PROVE  UNCHANGED tokens
      BY <2>5 DEF DeleteUser, LoseEvent
    <2> QED
      BY <2>1, <2>2, <2>3, <2>4, <2>5 DEF Next, Step, vars
  <1> QED
    BY <1>1, Invariance, PTL DEF Spec, RevokedForGood

----------------------------------------------------------------------------
(* Handlers that overlap, but for the pairs that RefreshesApart and        *)
(* EndsApart exclude: what a refresh has read of its session is still so   *)
(* when it exchanges its token.                                            *)

(* The tokens and the sessions that ended change by four steps.            *)
LEMMA TokenWrites ==
  ASSUME [Next]_vars, ~UNCHANGED <<tokens, lastToken, ended>>
  PROVE  \E r \in Request :
           SaveToken(r) \/ Rotate(r) \/ RevokeAll(r) \/ RevokeOne(r)
  <1>1. ASSUME NEW r \in Request,
               \/ Arrive(r) \/ FailRequest(r) \/ CheckEmail(r)
               \/ CreateUser(r) \/ ValidatePassword(r) \/ SaveTokenFails(r)
               \/ LoadToken(r) \/ FindUser(r) \/ RotateFails(r)
               \/ AnswerToken(r)
        PROVE  FALSE
    BY <1>1
    DEF Arrive, ReceiveSignup, ReceiveSignin, ReceiveRefresh, ReceiveLogout,
        ReceiveLogoutAll, Receive, FailRequest, Reject, CheckEmail,
        CreateUser, ValidatePassword, SaveTokenFails, LoadToken, FindUser,
        RotateFails, AnswerToken
  <1>2. ASSUME NEW u \in failed, DeleteUser(u) \/ LoseEvent(u)
        PROVE  FALSE
    BY <1>2 DEF DeleteUser, LoseEvent
  <1> QED
    BY <1>1, <1>2 DEF Next, Step, vars

(* A request moves alone.                                                  *)
LEMMA OthersRest ==
  ASSUME IInv, NEW r \in Request, Arrive(r) \/ Step(r) \/ FailRequest(r)
  PROVE  \A q \in Request \ {r} : pc'[q] = pc[q] /\ call'[q] = call[q]
  <1>1. /\ \E l : pc' = [pc EXCEPT ![r] = l]
        /\ call' = call \/ \E c : call' = [call EXCEPT ![r] = c]
    <2>1. CASE Arrive(r)
      BY <2>1 DEF Arrive, ReceiveSignup, ReceiveSignin, ReceiveRefresh,
                  ReceiveLogout, ReceiveLogoutAll, Receive, Goto
    <2>2. CASE \/ FailRequest(r) \/ RotateFails(r) \/ SaveTokenFails(r)
               \/ AnswerToken(r) \/ RevokeAll(r) \/ RevokeOne(r)
      BY <2>2 DEF FailRequest, RotateFails, SaveTokenFails, AnswerToken,
                  RevokeAll, RevokeOne, Reject, Finish, Goto
    <2>3. CASE CheckEmail(r) \/ LoadToken(r) \/ FindUser(r)
      BY <2>3 DEF CheckEmail, LoadToken, FindUser, Reject, Finish, Goto
    <2>4. CASE CreateUser(r) \/ ValidatePassword(r)
      BY <2>4 DEF CreateUser, ValidatePassword, Reject, Finish, Goto
    <2>5. CASE SaveToken(r) \/ Rotate(r)
      BY <2>5 DEF SaveToken, Rotate, Goto
    <2> QED
      BY <2>1, <2>2, <2>3, <2>4, <2>5 DEF Step
  <1> QED
    BY <1>1 DEF IInv, TypeOK

(* A request about to exchange a token was so before, or has just found it *)
(* live, and has not written anything.                                     *)
LEMMA ExchangesFrom ==
  ASSUME IInv, [Next]_vars, NEW q \in Request, Exchanging(q)'
  PROVE  /\ call'[q] = call[q]
         /\ \/ Exchanging(q)
            \/ /\ pc[q] = "loadToken"
               /\ tokens[call[q].token].status = "live"
               /\ UNCHANGED <<tokens, lastToken, ended>>
         /\ \/ UNCHANGED <<tokens, lastToken, ended>>
            \/ pc'[q] = pc[q]
  <1>1. CASE pc'[q] = pc[q] /\ call'[q] = call[q]
    BY <1>1 DEF Exchanging
  <1>2. CASE LoadToken(q)
    <2>1. /\ pc[q] = "loadToken" /\ call'[q] = call[q]
          /\ tokens[call[q].token].status # "revoked"
          /\ UNCHANGED <<tokens, lastToken, ended>>
      BY <1>2 DEF Exchanging, LoadToken, Goto, IInv, TypeOK
    <2>2. /\ call[q].token \in TokenId
          /\ tokens[call[q].token].status # "none"
      BY <2>1 DEF IInv, CallOK
    <2>3. tokens[call[q].token].status \in {"none", "live", "revoked"}
      BY <2>2 DEF IInv, TypeOK, Token
    <2> QED
      BY <2>1, <2>2, <2>3
  <1>3. CASE FindUser(q)
    BY <1>3 DEF Exchanging, FindUser, Reject, Finish, Goto, IInv, TypeOK
  <1>4. ASSUME \/ Arrive(q) \/ FailRequest(q) \/ CheckEmail(q)
               \/ CreateUser(q) \/ ValidatePassword(q) \/ SaveToken(q)
               \/ SaveTokenFails(q) \/ Rotate(q) \/ RotateFails(q)
               \/ RevokeAll(q) \/ RevokeOne(q) \/ AnswerToken(q)
        PROVE  FALSE
    <2>1. pc \in [Request -> Label]
      BY DEF IInv, TypeOK
    <2>2. ~Arrive(q)
      BY <2>1 DEF Exchanging, Arrive, ReceiveSignup, ReceiveSignin,
                  ReceiveRefresh, ReceiveLogout, ReceiveLogoutAll, Receive,
                  Goto
    <2>3. ~(\/ FailRequest(q) \/ SaveTokenFails(q) \/ RotateFails(q)
            \/ RevokeAll(q) \/ RevokeOne(q) \/ AnswerToken(q))
      BY <2>1 DEF Exchanging, FailRequest, SaveTokenFails, RotateFails,
                  RevokeAll, RevokeOne, AnswerToken, Reject, Finish, Goto
    <2>4. ~(\/ CheckEmail(q) \/ CreateUser(q) \/ ValidatePassword(q)
            \/ SaveToken(q) \/ Rotate(q))
      BY <2>1 DEF Exchanging, CheckEmail, CreateUser, ValidatePassword,
                  SaveToken, Rotate, Reject, Finish, Goto
    <2> QED
      BY <1>4, <2>2, <2>3, <2>4
  <1>5. ASSUME NEW u \in failed, DeleteUser(u) \/ LoseEvent(u)
        PROVE  pc' = pc /\ call' = call
    BY <1>5 DEF DeleteUser, LoseEvent
  <1> QED
    BY <1>1, <1>2, <1>3, <1>4, <1>5, OthersRest DEF Next, Step, vars

(* A token that a sign-up or a sign-in stores begins a session ...         *)
LEMMA SavedToken ==
  ASSUME IInv, NEW r \in Request, SaveToken(r)
  PROVE  /\ lastToken \in Nat /\ lastToken' = lastToken + 1
         /\ lastToken' \in TokenId
         /\ tokens[lastToken'].status = "none"
         /\ tokens'[lastToken'].status = "live"
         /\ tokens'[lastToken'].origin = lastToken'
         /\ \A t \in TokenId \ {lastToken'} : tokens'[t] = tokens[t]
         /\ ended' = ended /\ pc[r] = "saveToken"
  <1> DEFINE row == [status |-> "live", user |-> call[r].user,
                     parent |-> 0, origin |-> lastToken + 1]
  <1>1. /\ lastToken \in Nat /\ lastToken' = lastToken + 1
        /\ lastToken' \in TokenId /\ tokens \in [TokenId -> Token]
        /\ ended' = ended /\ pc[r] = "saveToken"
    BY SessionsAssumption DEF IInv, TypeOK, SaveToken
  <1>2. tokens' = [tokens EXCEPT ![lastToken'] = row]
    BY <1>1 DEF SaveToken
  <1>3. row.status = "live" /\ row.origin = lastToken'
    BY <1>1
  <1> HIDE DEF row
  <1>4. tokens[lastToken'].status = "none"
    BY <1>1 DEF IInv, TokensOK
  <1> QED
    BY <1>1, <1>2, <1>3, <1>4

(* ... one that a refresh stores belongs to the session of the token it    *)
(* replaces ...                                                            *)
LEMMA RotatedToken ==
  ASSUME IInv, OriginsOK, NEW r \in Request, Rotate(r)
  PROVE  LET p == call[r].token
         IN  /\ lastToken \in Nat /\ lastToken' = lastToken + 1
             /\ lastToken' \in TokenId /\ p \in TokenId
             /\ p # lastToken' /\ tokens[p].status # "none"
             /\ tokens[lastToken'].status = "none"
             /\ tokens'[lastToken'].status = "live"
             /\ tokens'[lastToken'].origin = tokens[p].origin
             /\ tokens'[lastToken'].user = tokens[tokens[p].origin].user
             /\ tokens'[p].status = "revoked"
             /\ tokens'[p].origin = tokens[p].origin
             /\ tokens'[p].user = tokens[p].user
             /\ \A t \in TokenId \ {p, lastToken'} : tokens'[t] = tokens[t]
             /\ ended' = ended /\ pc[r] = "rotate" /\ pc'[r] = "answer"
  <1> DEFINE p == call[r].token
             old == [tokens[p] EXCEPT !.status = "revoked"]
             row == [status |-> "live", user |-> call[r].user, parent |-> p,
                     origin |-> tokens[p].origin]
  <1>1. /\ lastToken \in Nat /\ lastToken' = lastToken + 1
        /\ lastToken' \in TokenId /\ tokens \in [TokenId -> Token]
        /\ ended' = ended /\ pc[r] = "rotate" /\ pc'[r] = "answer"
    BY SessionsAssumption DEF IInv, TypeOK, Rotate, Goto
  <1>2. /\ p \in TokenId /\ tokens[p].status # "none"
        /\ tokens[p].user = call[r].user
        /\ tokens[tokens[p].origin].user = tokens[p].user
    BY <1>1 DEF IInv, CallOK, OriginsOK
  <1>3. tokens[lastToken'].status = "none" /\ p # lastToken'
    BY <1>1, <1>2 DEF IInv, TokensOK
  <1>4. /\ old.status = "revoked" /\ old.user = tokens[p].user
        /\ old.origin = tokens[p].origin
    BY <1>1, <1>2, RevokedRow
  <1>5. /\ row.status = "live" /\ row.user = call[r].user
        /\ row.origin = tokens[p].origin
    OBVIOUS
  <1>6. tokens' = [tokens EXCEPT ![p] = old, ![lastToken'] = row]
    BY <1>1, <1>2 DEF Rotate
  <1> HIDE DEF old, row
  <1>7. /\ tokens'[lastToken'] = row /\ tokens'[p] = old
        /\ \A t \in TokenId \ {p, lastToken'} : tokens'[t] = tokens[t]
    BY <1>1, <1>2, <1>3, <1>6
  <1> QED
    BY <1>1, <1>2, <1>3, <1>4, <1>5, <1>7

(* ... and one that is revoked keeps its session.                          *)
LEMMA RevokedTokens ==
  ASSUME IInv, NEW r \in Request, RevokeAll(r) \/ RevokeOne(r),
         NEW t \in TokenId
  PROVE  /\ lastToken' = lastToken
         /\ tokens'[t].user = tokens[t].user
         /\ tokens'[t].origin = tokens[t].origin
         /\ tokens'[t].status # "none" => tokens[t].status # "none"
         /\ tokens'[t].status = "live" =>
              /\ tokens[t].status = "live"
              /\ RevokeAll(r) => tokens[t].user # call[r].user
              /\ RevokeOne(r) => t # call[r].token
         /\ RevokeAll(r) /\ tokens[t].user # call[r].user
              => tokens'[t] = tokens[t]
         /\ RevokeOne(r) /\ t # call[r].token => tokens'[t] = tokens[t]
  <1> DEFINE old == [tokens[t] EXCEPT !.status = "revoked"]
  <1>1. tokens[t] \in Token /\ tokens \in [TokenId -> Token]
    BY DEF IInv, TypeOK
  <1>2. /\ old.status = "revoked" /\ old.user = tokens[t].user
        /\ old.origin = tokens[t].origin
    BY <1>1, RevokedRow
  <1> HIDE DEF old
  <1>3. CASE RevokeAll(r)
    <2>1. /\ lastToken' = lastToken
          /\ tokens'[t] = IF t \in Owned(call[r].user) THEN old ELSE tokens[t]
      BY <1>3 DEF RevokeAll, old
    <2>2. t \in Owned(call[r].user) <=> /\ tokens[t].status # "none"
                                        /\ tokens[t].user = call[r].user
      BY DEF Owned
    <2>3. pc[r] = "revokeAll" /\ ~RevokeOne(r)
      BY <1>3 DEF RevokeAll, RevokeOne
    <2> QED
      BY <1>2, <1>3, <2>1, <2>2, <2>3
  <1>4. CASE RevokeOne(r)
    <2>1. /\ lastToken' = lastToken
          /\ tokens'[t] = IF t = call[r].token THEN old ELSE tokens[t]
          /\ ~RevokeAll(r)
      BY <1>1, <1>4 DEF RevokeOne, RevokeAll, old
    <2>2. call[r].token \in TokenId /\ tokens[call[r].token].status # "none"
      BY <1>4 DEF RevokeOne, IInv, CallOK
    <2> QED
      BY <1>2, <1>4, <2>1, <2>2
  <1> QED
    BY <1>3, <1>4
(* The one live token of a session.  It is clear before the first request. *)
LEMMA OneInit == Init => OneInv
  BY SessionsAssumption
  DEF Init, OneInv, OriginsOK, OneTokenPerSession, ExchangeOK, Exchanging,
      NoToken

(* While no token is written, a refresh that begins to exchange one has    *)
(* found it live, and it is the only one of its session ...                *)
LEMMA OneKept ==
  ASSUME IInv, OneInv, [Next]_vars, UNCHANGED <<tokens, lastToken, ended>>
  PROVE  OneInv'
  <1>1. \A q \in Request : Exchanging(q)' =>
          /\ call'[q] = call[q] /\ call[q].token \in TokenId
          /\ Exchanging(q) \/ tokens[call[q].token].status = "live"
    <2> SUFFICES ASSUME NEW q \in Request, Exchanging(q)'
                 PROVE  /\ call'[q] = call[q] /\ call[q].token \in TokenId
                        /\ \/ Exchanging(q)
                           \/ tokens[call[q].token].status = "live"
      OBVIOUS
    <2>1. /\ call'[q] = call[q]
          /\ \/ Exchanging(q)
             \/ /\ pc[q] = "loadToken"
                /\ tokens[call[q].token].status = "live"
      BY ExchangesFrom
    <2> QED
      BY <2>1 DEF IInv, CallOK, Exchanging
  <1>2. ASSUME NEW r \in Request PROVE ExchangeOK(r)'
    <2> SUFFICES ASSUME Exchanging(r)' PROVE ExchangeOK(r)'
      BY DEF ExchangeOK
    <2> DEFINE p == call[r].token
    <2>1. /\ call'[r] = call[r] /\ p \in TokenId
          /\ Exchanging(r) \/ tokens[p].status = "live"
      BY <1>1
    <2>2. \A t \in TokenId :
            tokens[t].status = "live" /\ tokens[t].origin = tokens[p].origin
              => t = p
      BY <2>1 DEF OneInv, ExchangeOK, OneTokenPerSession
    <2>3. ASSUME NEW q \in Request, Exchanging(q)',
                 tokens[call[q].token].origin = tokens[p].origin
          PROVE  call[q].token = p
      <3>1. /\ call[q].token \in TokenId
            /\ Exchanging(q) \/ tokens[call[q].token].status = "live"
        BY <1>1, <2>3
      <3>2. CASE tokens[call[q].token].status = "live"
        BY <2>2, <2>3, <3>1, <3>2
      <3>3. CASE Exchanging(q)
        BY <2>1, <2>3, <3>3 DEF OneInv, ExchangeOK
      <3> QED
        BY <3>1, <3>2, <3>3
    <2> QED
      BY <1>1, <2>1, <2>2, <2>3 DEF ExchangeOK
  <1>3. OriginsOK' /\ OneTokenPerSession'
    BY DEF OneInv, OriginsOK, OneTokenPerSession
  <1> QED
    BY <1>2, <1>3 DEF OneInv

(* ... and a step that writes one lets nobody begin.                       *)
LEMMA NobodyBegins ==
  ASSUME IInv, [Next]_vars, ~UNCHANGED <<tokens, lastToken, ended>>,
         NEW q \in Request, Exchanging(q)'
  PROVE  /\ Exchanging(q) /\ pc'[q] = pc[q] /\ call'[q] = call[q]
         /\ call[q].token \in TokenId
         /\ tokens[call[q].token].status # "none"
         /\ tokens[call[q].token].user = call[q].user
  <1>1. Exchanging(q) /\ pc'[q] = pc[q] /\ call'[q] = call[q]
    BY ExchangesFrom
  <1> QED
    BY <1>1 DEF IInv, CallOK, Exchanging

(* A session that begins is nobody else's ...                              *)
LEMMA OneAfterSave ==
  ASSUME IInv, OneInv, [Next]_vars, NEW r \in Request, SaveToken(r)
  PROVE  OneInv'
  <1> DEFINE n == lastToken'
  <1>1. /\ lastToken \in Nat /\ n = lastToken + 1 /\ n \in TokenId
        /\ tokens[n].status = "none"
        /\ tokens'[n].status = "live" /\ tokens'[n].origin = n
        /\ \A t \in TokenId \ {n} : tokens'[t] = tokens[t]
    BY SavedToken
  <1> HIDE DEF n
  <1>2. \A t \in TokenId : tokens[t].status # "none" =>
          /\ t # n /\ tokens[t].origin \in TokenId /\ tokens[t].origin # n
          /\ tokens[t].origin <= n
          /\ tokens[tokens[t].origin].user = tokens[t].user
    BY <1>1 DEF IInv, TokensOK, OneInv, OriginsOK
  <1>3. OriginsOK'
    <2>1. \A t \in TokenId : tokens'[t].status # "none" =>
            /\ tokens'[t].origin <= n
            /\ tokens'[tokens'[t].origin].user = tokens'[t].user
      BY <1>1, <1>2
    <2> QED
      BY <2>1 DEF OriginsOK, n
  <1>4. OneTokenPerSession'
    BY <1>1, <1>2 DEF OneInv, OneTokenPerSession
  <1>5. ASSUME NEW q \in Request PROVE ExchangeOK(q)'
    <2>1. ~UNCHANGED <<tokens, lastToken, ended>>
      BY <1>1
    <2>2. \A k \in Request : Exchanging(k)' =>
            /\ Exchanging(k) /\ call'[k] = call[k]
            /\ call[k].token \in TokenId
            /\ tokens[call[k].token].status # "none"
      BY <2>1, NobodyBegins
    <2> QED
      BY <1>1, <1>2, <2>2 DEF OneInv, ExchangeOK
  <1> QED
    BY <1>3, <1>4, <1>5 DEF OneInv

(* ... an exchange replaces the live token of its session, if any is left, *)
(* and nobody else is to exchange it any more ...                          *)
LEMMA OneAfterRotate ==
  ASSUME IInv, OneInv, RefreshesApart, [Next]_vars,
         NEW r \in Request, Rotate(r)
  PROVE  OneInv'
  <1> DEFINE n == lastToken'
             p == call[r].token
             o == tokens[p].origin
  <1>1. /\ lastToken \in Nat /\ n = lastToken + 1 /\ n \in TokenId
        /\ p \in TokenId /\ p # n /\ tokens[p].status # "none"
        /\ tokens[n].status = "none" /\ tokens'[n].status = "live"
        /\ tokens'[n].origin = o /\ tokens'[n].user = tokens[o].user
        /\ tokens'[p].status = "revoked" /\ tokens'[p].origin = o
        /\ tokens'[p].user = tokens[p].user
        /\ \A t \in TokenId \ {p, n} : tokens'[t] = tokens[t]
        /\ pc[r] = "rotate" /\ pc'[r] = "answer"
    BY RotatedToken DEF OneInv
  <1>2. /\ \A t \in TokenId :
             tokens[t].status = "live" /\ tokens[t].origin = o => t = p
        /\ \A q \in Request :
             Exchanging(q) /\ tokens[call[q].token].origin = o
               => call[q].token = p
    BY <1>1 DEF OneInv, ExchangeOK, Exchanging
  <1>3. \A q \in Request : Exchanging(q) /\ call[q].token = p => q = r
    BY <1>1 DEF RefreshesApart
  <1> HIDE DEF n, p, o
  <1>4. \A t \in TokenId : tokens[t].status # "none" =>
          /\ t # n /\ tokens[t].origin \in TokenId /\ tokens[t].origin # n
          /\ tokens[t].origin <= n
          /\ tokens[tokens[t].origin].user = tokens[t].user
    BY <1>1 DEF IInv, TokensOK, OneInv, OriginsOK
  <1>5. \A t \in TokenId \ {n} :
          /\ tokens'[t].origin = tokens[t].origin
          /\ tokens'[t].user = tokens[t].user
          /\ tokens'[t].status # "none" => tokens[t].status # "none"
          /\ tokens'[t].status = "live" =>
               tokens[t].status = "live" /\ tokens[t].origin # o
    BY <1>1, <1>2 DEF o
  <1>6. OriginsOK'
    <2>1. ASSUME NEW t \in TokenId, tokens'[t].status # "none"
          PROVE  /\ tokens'[t].origin <= n
                 /\ tokens'[tokens'[t].origin].user = tokens'[t].user
      <3>1. o \in TokenId /\ o # n /\ o <= n
        BY <1>1, <1>4 DEF o
      <3>2. CASE t = n
        BY <1>1, <1>5, <3>1, <3>2
      <3>3. CASE t # n
        BY <1>4, <1>5, <2>1, <3>3
      <3> QED
        BY <3>2, <3>3
    <2> QED
      BY <2>1 DEF OriginsOK, n
  <1>7. OneTokenPerSession'
    BY <1>1, <1>5 DEF OneInv, OneTokenPerSession
  <1>8. ASSUME NEW q \in Request PROVE ExchangeOK(q)'
    <2>1. ~UNCHANGED <<tokens, lastToken, ended>>
      BY <1>1 DEF n
    <2>2. \A k \in Request : Exchanging(k)' =>
            /\ Exchanging(k) /\ call'[k] = call[k] /\ k # r
            /\ call[k].token \in TokenId /\ call[k].token # n
      BY <1>1, <1>4, <2>1, NobodyBegins DEF Exchanging
    <2>3. \A k \in Request : Exchanging(k)' =>
            /\ tokens'[call[k].token].origin = tokens[call[k].token].origin
            /\ tokens[call[k].token].origin # o
      BY <1>2, <1>3, <1>5, <2>2
    <2> QED
      BY <1>1, <1>5, <2>2, <2>3 DEF OneInv, ExchangeOK
  <1> QED
    BY <1>6, <1>7, <1>8 DEF OneInv

(* ... and a revocation takes tokens away only.                            *)
LEMMA OneAfterRevoke ==
  ASSUME IInv, OneInv, [Next]_vars, ~UNCHANGED <<tokens, lastToken, ended>>,
         NEW r \in Request, RevokeAll(r) \/ RevokeOne(r)
  PROVE  OneInv'
  <1>1. /\ lastToken' = lastToken
        /\ \A t \in TokenId :
             /\ tokens'[t].user = tokens[t].user
             /\ tokens'[t].origin = tokens[t].origin
             /\ tokens'[t].status # "none" => tokens[t].status # "none"
             /\ tokens'[t].status = "live" => tokens[t].status = "live"
    <2>1. lastToken' = lastToken
      BY DEF RevokeAll, RevokeOne
    <2> QED
      BY <2>1, RevokedTokens
  <1>2. \A t \in TokenId : tokens[t].status # "none" =>
                             tokens[t].origin \in TokenId
    BY DEF IInv, TokensOK
  <1>3. OriginsOK' /\ OneTokenPerSession'
    BY <1>1, <1>2 DEF OneInv, OriginsOK, OneTokenPerSession
  <1>4. ASSUME NEW q \in Request PROVE ExchangeOK(q)'
    <2>1. \A k \in Request : Exchanging(k)' =>
            /\ Exchanging(k) /\ call'[k] = call[k]
            /\ call[k].token \in TokenId
      BY NobodyBegins
    <2> QED
      BY <1>1, <2>1 DEF OneInv, ExchangeOK
  <1> QED
    BY <1>3, <1>4 DEF OneInv

(* RefreshTokensHandler: refreshing leaves a session with one live token,  *)
(* as long as no two refreshes exchange one token at the same time,        *)
(* whatever logs out or signs in meanwhile.                                *)
THEOREM SessionsHaveOneToken ==
  Spec /\ []RefreshesApart => []OneInv /\ []OneTokenPerSession
  <1>1. IInv /\ OneInv /\ RefreshesApart /\ [Next]_vars => OneInv'
    <2> SUFFICES ASSUME IInv, OneInv, RefreshesApart, [Next]_vars
                 PROVE  OneInv'
      OBVIOUS
    <2>1. CASE UNCHANGED <<tokens, lastToken, ended>>
      BY <2>1, OneKept
    <2>2. CASE ~UNCHANGED <<tokens, lastToken, ended>>
      BY <2>2, TokenWrites, OneAfterSave, OneAfterRotate, OneAfterRevoke
    <2> QED
      BY <2>1, <2>2
  <1>2. OneInv => OneTokenPerSession
    BY DEF OneInv
  <1> QED
    BY <1>1, <1>2, Invariance, OneInit, PTL DEF Spec
(* Sessions that were ended.  There is none before the first request.      *)
LEMMA EndInit == Init => EndInv
  BY DEF Init, EndInv, StillLive, Exchanging, EndedOK,
         EndedSessionsStayEnded, NoToken

(* The token a refresh has found live is neither exchanged nor revoked by  *)
(* another request before it is exchanged ...                              *)
LEMMA StillLiveNext ==
  ASSUME IInv, OneInv, StillLive, RefreshesApart, EndsApart, [Next]_vars
  PROVE  StillLive'
  <1> SUFFICES ASSUME NEW q \in Request, Exchanging(q)'
               PROVE  tokens'[call'[q].token].status = "live"
    BY DEF StillLive
  <1>1. CASE UNCHANGED <<tokens, lastToken, ended>>
    BY <1>1, ExchangesFrom DEF StillLive
  <1>2. CASE ~UNCHANGED <<tokens, lastToken, ended>>
    <2>1. /\ Exchanging(q) /\ pc'[q] = pc[q] /\ call'[q] = call[q]
          /\ call[q].token \in TokenId
          /\ tokens[call[q].token].user = call[q].user
          /\ tokens[call[q].token].status = "live"
      BY <1>2, NobodyBegins DEF StillLive
    <2>2. PICK r \in Request :
                 SaveToken(r) \/ Rotate(r) \/ RevokeAll(r) \/ RevokeOne(r)
      BY <1>2, TokenWrites
    <2>3. CASE SaveToken(r)
      BY <2>1, <2>3, SavedToken
    <2>4. CASE Rotate(r)
      <3>1. q # r
        BY <2>1, <2>4, RotatedToken DEF OneInv, Exchanging
      <3>2. call[q].token # call[r].token
        BY <2>1, <2>4, <3>1, RotatedToken DEF OneInv, RefreshesApart
      <3> QED
        BY <2>1, <2>4, <3>2, RotatedToken DEF OneInv
    <2>5. CASE RevokeAll(r)
      <3>1. call[q].user # call[r].user
        BY <2>1, <2>5 DEF EndsApart, RevokeAll
      <3> QED
        BY <2>1, <2>5, <3>1, RevokedTokens
    <2>6. CASE RevokeOne(r)
      <3>1. call[q].token # call[r].token
        BY <2>1, <2>6 DEF EndsApart, RevokeOne
      <3> QED
        BY <2>1, <2>6, <3>1, RevokedTokens
    <2> QED
      BY <2>2, <2>3, <2>4, <2>5, <2>6
  <1> QED
    BY <1>1, <1>2

(* ... so that it belongs to a session that was not ended, like every      *)
(* token that is stored.  A session that ends loses its live token.        *)
LEMMA EndedNext ==
  ASSUME IInv, OneInv, EndInv, [Next]_vars
  PROVE  EndedOK' /\ EndedSessionsStayEnded'
  <1>1. /\ \A k \in ended : k \in TokenId /\ k <= lastToken
        /\ \A t \in TokenId : /\ tokens[t].status = "live"
                                   => tokens[t].origin \notin ended
                              /\ tokens[t].status # "none"
                                   => tokens[t].origin <= lastToken
    BY DEF IInv, TypeOK, EndInv, EndedOK, EndedSessionsStayEnded, OneInv,
           OriginsOK
  <1>2. CASE UNCHANGED <<tokens, lastToken, ended>>
    BY <1>1, <1>2 DEF EndedOK, EndedSessionsStayEnded
  <1>3. ASSUME NEW r \in Request, SaveToken(r)
        PROVE  EndedOK' /\ EndedSessionsStayEnded'
    <2>1. /\ lastToken \in Nat /\ lastToken' = lastToken + 1
          /\ tokens'[lastToken'].origin = lastToken'
          /\ \A t \in TokenId \ {lastToken'} : tokens'[t] = tokens[t]
          /\ ended' = ended
      BY <1>3, SavedToken
    <2>2. \A k \in ended : k <= lastToken' /\ k # lastToken'
      BY <1>1, <2>1
    <2> QED
      BY <1>1, <2>1, <2>2 DEF EndedOK, EndedSessionsStayEnded
  <1>4. ASSUME NEW r \in Request, Rotate(r)
        PROVE  EndedOK' /\ EndedSessionsStayEnded'
    <2> DEFINE p == call[r].token
    <2>1. /\ lastToken \in Nat /\ lastToken' = lastToken + 1
          /\ p \in TokenId /\ pc[r] = "rotate"
          /\ tokens'[lastToken'].origin = tokens[p].origin
          /\ tokens'[p].status = "revoked"
          /\ \A t \in TokenId \ {p, lastToken'} : tokens'[t] = tokens[t]
          /\ ended' = ended
      BY <1>4, RotatedToken DEF OneInv
    <2>2. tokens[p].status = "live"
      BY <2>1 DEF EndInv, StillLive, Exchanging
    <2> HIDE DEF p
    <2>3. tokens[p].origin \notin ended
      BY <1>1, <2>1, <2>2
    <2>4. \A k \in ended : k <= lastToken'
      BY <1>1, <2>1
    <2>5. ASSUME NEW t \in TokenId, tokens'[t].status = "live"
          PROVE  tokens'[t].origin \notin ended
      <3>1. CASE t = lastToken'
        BY <2>1, <2>3, <3>1
      <3>2. CASE t # lastToken'
        BY <1>1, <2>1, <2>5, <3>2
      <3> QED
        BY <3>1, <3>2
    <2> QED
      BY <2>1, <2>4, <2>5 DEF EndedOK, EndedSessionsStayEnded
  <1>5. ASSUME NEW r \in Request, RevokeAll(r)
        PROVE  EndedOK' /\ EndedSessionsStayEnded'
    <2> DEFINE T == Owned(call[r].user)
    <2>1. /\ ended' = ended \cup {tokens[t].origin : t \in T}
          /\ lastToken' = lastToken
      BY <1>5 DEF RevokeAll
    <2>2. \A t \in T : /\ t \in TokenId /\ tokens[t].status # "none"
                       /\ tokens[t].user = call[r].user
      BY DEF Owned
    <2> HIDE DEF T
    <2>3. EndedOK'
      BY <1>1, <2>1, <2>2 DEF EndedOK
    <2>4. ASSUME NEW t \in TokenId, tokens'[t].status = "live"
          PROVE  tokens'[t].origin \notin ended'
      <3>1. /\ tokens'[t].origin = tokens[t].origin
            /\ tokens[t].status = "live" /\ tokens[t].user # call[r].user
        BY <1>5, <2>4, RevokedTokens
      <3>2. ASSUME NEW k \in T, tokens[t].origin = tokens[k].origin
            PROVE  FALSE
        <4>1. /\ tokens[tokens[t].origin].user = tokens[t].user
              /\ tokens[tokens[k].origin].user = tokens[k].user
          BY <2>2, <3>1 DEF OneInv, OriginsOK
        <4> QED
          BY <2>2, <3>1, <3>2, <4>1
      <3> QED
        BY <1>1, <2>1, <3>1, <3>2
    <2> QED
      BY <2>3, <2>4 DEF EndedSessionsStayEnded
  <1>6. ASSUME NEW r \in Request, RevokeOne(r)
        PROVE  EndedOK' /\ EndedSessionsStayEnded'
    <2> DEFINE p == call[r].token
    <2>1. /\ ended' = IF tokens[p].status = "live"
                      THEN ended \cup {tokens[p].origin} ELSE ended
          /\ lastToken' = lastToken
          /\ p \in TokenId /\ tokens[p].status # "none"
      BY <1>6 DEF RevokeOne, IInv, CallOK
    <2>2. ASSUME NEW t \in TokenId, tokens'[t].status = "live"
          PROVE  /\ tokens'[t].origin = tokens[t].origin
                 /\ tokens[t].status = "live" /\ t # p
      BY <1>6, <2>2, RevokedTokens
    <2> HIDE DEF p
    <2>3. EndedOK'
      BY <1>1, <2>1 DEF EndedOK
    <2>4. ASSUME NEW t \in TokenId, tokens'[t].status = "live"
          PROVE  tokens'[t].origin \notin ended'
      <3>1. tokens[p].status = "live" => tokens[t].origin # tokens[p].origin
        BY <2>1, <2>2, <2>4 DEF OneInv, OneTokenPerSession
      <3> QED
        BY <1>1, <2>1, <2>2, <2>4, <3>1
    <2> QED
      BY <2>3, <2>4 DEF EndedSessionsStayEnded
  <1> QED
    BY <1>2, <1>3, <1>4, <1>5, <1>6, TokenWrites

(* LogoutHandler and reuse detection: a session that was ended obtains no  *)
(* live token again, as long as no refresh that found its token live is    *)
(* overtaken by an exchange or by the end of its session.                  *)
THEOREM EndedIsEnded ==
  Spec /\ []RefreshesApart /\ []EndsApart => []EndedSessionsStayEnded
  <1>1. IInv /\ OneInv /\ EndInv /\ RefreshesApart /\ EndsApart
          /\ [Next]_vars => EndInv'
    BY StillLiveNext, EndedNext DEF EndInv
  <1>2. EndInv => EndedSessionsStayEnded
    BY DEF EndInv
  <1> QED
    BY <1>1, <1>2, Invariance, SessionsHaveOneToken, EndInit, PTL DEF Spec

(* With one request slot nothing overlaps, and both hold without a further *)
(* hypothesis.                                                             *)
THEOREM OneAtATime ==
  ASSUME \A r, q \in Request : r = q
  PROVE  Spec => []OneTokenPerSession /\ []EndedSessionsStayEnded
  <1>1. RefreshesApart /\ EndsApart
    BY DEF RefreshesApart, EndsApart, Exchanging
  <1> QED
    BY <1>1, SessionsHaveOneToken, EndedIsEnded, PTL
=============================================================================
