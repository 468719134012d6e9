------------------------------ MODULE Sessions ------------------------------
(***************************************************************************)
(* Accounts and sessions: the sign-up, sign-in, refresh and logout         *)
(* handlers of the auth module, the tables users and refresh_tokens they   *)
(* share with the user module, and the saga that deletes the account of a  *)
(* failed signup.                                                          *)
(*                                                                         *)
(* A session begins with the token of a sign-up or a sign-in; every        *)
(* refresh exchanges its token for the next.  One action stands for the    *)
(* code between two awaits that reach the database; signatures, hashes and *)
(* passwords are taken to be right, and a token that does not verify is    *)
(* turned away before anything is read.                                    *)
(***************************************************************************)
EXTENDS Naturals, FiniteSets

CONSTANTS Email,        \* addresses people sign up with
          None,         \* "no address"
          Request,      \* slots for handlers running at the same time
          MaxRequests,  \* bound on the requests received
          MaxUsers,     \* bound on the user ids minted
          MaxTokens,    \* bound on the token ids minted
          SaveMayFail,  \* whether writing a refresh token may fail
          MayStop       \* whether a handler may throw elsewhere, or the
                        \* process stop, between two steps

ASSUME SessionsAssumption ==
  /\ None \notin Email
  /\ MaxRequests \in Nat
  /\ MaxUsers \in Nat
  /\ MaxTokens \in Nat
  /\ MaxRequests <= MaxUsers   \* so that neither bound on ids blocks
  /\ MaxRequests <= MaxTokens  \* a handler
  /\ SaveMayFail \in BOOLEAN
  /\ MayStop \in BOOLEAN

VARIABLES
  users,      \* table user.users: the address of an account, by user id
  tokens,     \* table auth.refresh_tokens, by token id
  lastUser,   \* the greatest user id minted so far
  lastToken,  \* the greatest token id minted so far
  pc,         \* what a request waits for
  call,       \* the arguments of a request and what it holds in memory
  failed,     \* SignupFailedEvents published and not yet handled
  issued,     \* tokens that were answered to a client
  ended,      \* history: sessions that were ended, by their first token
  received    \* number of requests received

vars == <<users, tokens, lastUser, lastToken, pc, call, failed, issued,
          ended, received>>

----------------------------------------------------------------------------

UserId == 1 .. MaxUsers
TokenId == 1 .. MaxTokens

(* A row of auth.refresh_tokens.  "revoked" is a row whose deleted_at is   *)
(* set.  parent (the token this one was exchanged for) and origin (the     *)
(* first token of the session) are history fields.                         *)
Token == [status : {"none", "live", "revoked"}, user : 0 .. MaxUsers,
          parent : 0 .. MaxTokens, origin : 0 .. MaxTokens]
NoToken == [status |-> "none", user |-> 0, parent |-> 0, origin |-> 0]

Operation == {"signup", "signin", "refresh", "logout", "logoutAll"}

(* user is the account found or created, token the one presented, new the  *)
(* one saved.  late is a history field: the token presented was revoked    *)
(* when the request came in.                                               *)
Call == [op : Operation \cup {"none"}, email : Email \cup {None},
         user : 0 .. MaxUsers, token : 0 .. MaxTokens,
         new : 0 .. MaxTokens, late : BOOLEAN]
NewCall(op, email, user, token, late) ==
  [op |-> op, email |-> email, user |-> user, token |-> token, new |-> 0,
   late |-> late]
NoCall == NewCall("none", None, 0, 0, FALSE)

Label == {"idle", "checkEmail", "createUser", "validatePassword",
          "saveToken", "loadToken", "findUser", "rotate", "revokeAll",
          "revokeOne", "answer"}

TypeOK ==
  /\ users \in [UserId -> Email \cup {None}]
  /\ tokens \in [TokenId -> Token]
  /\ lastUser \in 0 .. MaxUsers
  /\ lastToken \in 0 .. MaxTokens
  /\ pc \in [Request -> Label]
  /\ call \in [Request -> Call]
  /\ failed \subseteq UserId
  /\ issued \subseteq TokenId
  /\ ended \subseteq TokenId
  /\ received \in 0 .. MaxRequests

Init ==
  /\ users = [u \in UserId |-> None]
  /\ tokens = [t \in TokenId |-> NoToken]
  /\ lastUser = 0
  /\ lastToken = 0
  /\ pc = [r \in Request |-> "idle"]
  /\ call = [r \in Request |-> NoCall]
  /\ failed = {}
  /\ issued = {}
  /\ ended = {}
  /\ received = 0

----------------------------------------------------------------------------
(* The life of a request.                                                  *)

Account(e) == {u \in UserId : users[u] = e}
Owned(u) == {t \in TokenId : tokens[t].status # "none" /\ tokens[t].user = u}

Goto(r, l) == pc' = [pc EXCEPT ![r] = l]

Finish(r) == Goto(r, "idle") /\ call' = [call EXCEPT ![r] = NoCall]

Reject(r) == /\ Finish(r)
             /\ UNCHANGED <<users, tokens, lastUser, lastToken, failed, issued,
                            ended, received>>

Receive(r, c, l) ==
  /\ pc[r] = "idle"
  /\ received < MaxRequests
  /\ received' = received + 1
  /\ call' = [call EXCEPT ![r] = c]
  /\ Goto(r, l)
  /\ UNCHANGED <<users, tokens, lastUser, lastToken, failed, issued, ended>>

ReceiveSignup(r, e) ==
  Receive(r, NewCall("signup", e, 0, 0, FALSE), "checkEmail")

(* The password is right; a wrong one is turned away like an address that  *)
(* has no account.                                                         *)
ReceiveSignin(r, e) ==
  Receive(r, NewCall("signin", e, 0, 0, FALSE), "validatePassword")

ReceiveRefresh(r, t) ==
  Receive(r, NewCall("refresh", None, tokens[t].user, t,
                     tokens[t].status = "revoked"),
          "loadToken")

(* Logout of the session of t, by its own user.                            *)
ReceiveLogout(r, t) ==
  Receive(r, NewCall("logout", None, tokens[t].user, t, FALSE), "revokeOne")

(* Logout of all devices: asked for, or because the logout named no token  *)
(* or one that does not verify.                                            *)
ReceiveLogoutAll(r, u) ==
  Receive(r, NewCall("logoutAll", None, u, 0, FALSE), "revokeAll")

----------------------------------------------------------------------------
(* SignupHandler and CreateUserHandler.                                    *)

CheckEmail(r) ==
  /\ pc[r] = "checkEmail"
  /\ IF Account(call[r].email) = {}
     THEN /\ Goto(r, "createUser")
          /\ UNCHANGED <<users, tokens, lastUser, lastToken, call, failed,
                         issued, ended, received>>
     ELSE Reject(r)

(* The unique index on email turns away the second of two signups.         *)
CreateUser(r) ==
  /\ pc[r] = "createUser"
  /\ \/ /\ Account(call[r].email) = {}
        /\ lastUser < MaxUsers
        /\ lastUser' = lastUser + 1
        /\ users' = [users EXCEPT ![lastUser + 1] = call[r].email]
        /\ call' = [call EXCEPT ![r].user = lastUser + 1]
        /\ Goto(r, "saveToken")
        /\ UNCHANGED <<tokens, lastToken, failed, issued, ended, received>>
     \/ /\ Account(call[r].email) # {}
        /\ Reject(r)

(* SigninHandler.                                                          *)
ValidatePassword(r) ==
  /\ pc[r] = "validatePassword"
  /\ \/ \E u \in Account(call[r].email) :
          /\ call' = [call EXCEPT ![r].user = u]
          /\ Goto(r, "saveToken")
          /\ UNCHANGED <<users, tokens, lastUser, lastToken, failed, issued,
                         ended, received>>
     \/ /\ Account(call[r].email) = {}
        /\ Reject(r)

(* The token of a sign-up or a sign-in begins a session.                   *)
SaveToken(r) ==
  /\ pc[r] = "saveToken"
  /\ lastToken < MaxTokens
  /\ lastToken' = lastToken + 1
  /\ tokens' = [tokens EXCEPT ![lastToken + 1] =
                  [status |-> "live", user |-> call[r].user,
                   parent |-> 0, origin |-> lastToken + 1]]
  /\ call' = [call EXCEPT ![r].new = lastToken + 1]
  /\ Goto(r, "answer")
  /\ UNCHANGED <<users, lastUser, failed, issued, ended, received>>

(* Mutant of SaveTokenFails: the event is not published.                   *)
SaveTokenFailsSilently(r) == pc[r] = "saveToken" /\ SaveMayFail /\ Reject(r)

(* Mutant of SaveTokenFails: the event names the token, not the user.      *)
SaveTokenFailsMisnamed(r) ==
  /\ pc[r] = "saveToken"
  /\ SaveMayFail
  /\ failed' = IF call[r].op = "signup" THEN failed \cup {call[r].new}
               ELSE failed
  /\ Finish(r)
  /\ UNCHANGED <<users, tokens, lastUser, lastToken, issued, ended, received>>

(* The write fails: TokenGenerationException, and after a sign-up a        *)
(* SignupFailedEvent.                                                      *)
SaveTokenFails(r) ==
  /\ pc[r] = "saveToken"
  /\ SaveMayFail
  /\ failed' = IF call[r].op = "signup" THEN failed \cup {call[r].user}
               ELSE failed
  /\ Finish(r)
  /\ UNCHANGED <<users, tokens, lastUser, lastToken, issued, ended, received>>

(* AuthSaga, then DeleteUserHandler.  The refresh tokens of the account,   *)
(* if any, are in another schema and stay.                                 *)
DeleteUser(u) ==
  /\ u \in failed
  /\ users' = [users EXCEPT ![u] = None]
  /\ failed' = failed \ {u}
  /\ UNCHANGED <<tokens, lastUser, lastToken, pc, call, issued, ended,
                 received>>

----------------------------------------------------------------------------
(* RefreshTokensHandler.                                                   *)

(* Mutant of LoadToken: deletedAt is not looked at.                        *)
LoadTokenUnchecked(r) ==
  /\ pc[r] = "loadToken"
  /\ Goto(r, "findUser")
  /\ UNCHANGED <<users, tokens, lastUser, lastToken, call, failed, issued,
                 ended, received>>

(* Reuse detection: the row is read with the revoked ones.                 *)
LoadToken(r) ==
  /\ pc[r] = "loadToken"
  /\ Goto(r, IF tokens[call[r].token].status = "revoked"
             THEN "revokeAll" ELSE "findUser")
  /\ UNCHANGED <<users, tokens, lastUser, lastToken, call, failed, issued,
                 ended, received>>

FindUser(r) ==
  /\ pc[r] = "findUser"
  /\ IF users[call[r].user] # None
     THEN /\ Goto(r, "rotate")
          /\ UNCHANGED <<users, tokens, lastUser, lastToken, call, failed,
                         issued, ended, received>>
     ELSE Reject(r)

(* Mutant of Rotate: revoke() is not called, so that the old row is        *)
(* written with the deletedAt it was loaded with.                          *)
RotateUnrevoked(r) ==
  /\ pc[r] = "rotate"
  /\ lastToken < MaxTokens
  /\ lastToken' = lastToken + 1
  /\ tokens' = [tokens EXCEPT
       ![call[r].token].status = "live",
       ![lastToken + 1] = [status |-> "live", user |-> call[r].user,
                           parent |-> call[r].token,
                           origin |-> tokens[call[r].token].origin]]
  /\ call' = [call EXCEPT ![r].new = lastToken + 1]
  /\ Goto(r, "answer")
  /\ UNCHANGED <<users, lastUser, failed, issued, ended, received>>

(* rotateRefreshToken, one transaction: the old row is written as revoked, *)
(* whatever it is by now, and the new one is inserted.                     *)
Rotate(r) ==
  /\ pc[r] = "rotate"
  /\ lastToken < MaxTokens
  /\ lastToken' = lastToken + 1
  /\ tokens' = [tokens EXCEPT
       ![call[r].token].status = "revoked",
       ![lastToken + 1] = [status |-> "live", user |-> call[r].user,
                           parent |-> call[r].token,
                           origin |-> tokens[call[r].token].origin]]
  /\ call' = [call EXCEPT ![r].new = lastToken + 1]
  /\ Goto(r, "answer")
  /\ UNCHANGED <<users, lastUser, failed, issued, ended, received>>

RotateFails(r) == pc[r] = "rotate" /\ SaveMayFail /\ Reject(r)

----------------------------------------------------------------------------
(* LogoutHandler.                                                          *)

(* revokeAllRefreshTokens, of a logout and of reuse detection.             *)
RevokeAll(r) ==
  /\ pc[r] = "revokeAll"
  /\ tokens' = [t \in TokenId |-> IF t \in Owned(call[r].user)
                                  THEN [tokens[t] EXCEPT !.status = "revoked"]
                                  ELSE tokens[t]]
  /\ ended' = ended \cup {tokens[t].origin : t \in Owned(call[r].user)}
  /\ Finish(r)
  /\ UNCHANGED <<users, lastUser, lastToken, failed, issued, received>>

(* revokeRefreshToken.  The session ends if the token was its current one. *)
RevokeOne(r) ==
  /\ pc[r] = "revokeOne"
  /\ LET t == call[r].token
     IN  /\ tokens' = [tokens EXCEPT ![t].status = "revoked"]
         /\ ended' = IF tokens[t].status = "live"
                     THEN ended \cup {tokens[t].origin} ELSE ended
  /\ Finish(r)
  /\ UNCHANGED <<users, lastUser, lastToken, failed, issued, received>>

----------------------------------------------------------------------------

(* The client is given its new token.                                      *)
AnswerToken(r) ==
  /\ pc[r] = "answer"
  /\ issued' = issued \cup {call[r].new}
  /\ Finish(r)
  /\ UNCHANGED <<users, tokens, lastUser, lastToken, failed, ended, received>>

(* Signing or hashing throws, another query fails, or the process stops.   *)
FailRequest(r) == MayStop /\ pc[r] # "idle" /\ Reject(r)

LoseEvent(u) ==
  /\ MayStop
  /\ u \in failed
  /\ failed' = failed \ {u}
  /\ UNCHANGED <<users, tokens, lastUser, lastToken, pc, call, issued, ended,
                 received>>

----------------------------------------------------------------------------

(* Clients present tokens they were given, the current one or an old one,  *)
(* and log out with an access token that came with a refresh token.        *)
Arrive(r) ==
  \/ \E e \in Email : ReceiveSignup(r, e) \/ ReceiveSignin(r, e)
  \/ \E t \in issued : \/ ReceiveRefresh(r, t)
                       \/ ReceiveLogout(r, t)
                       \/ ReceiveLogoutAll(r, tokens[t].user)

Step(r) ==
  \/ CheckEmail(r) \/ CreateUser(r) \/ ValidatePassword(r)
  \/ SaveToken(r) \/ SaveTokenFails(r)
  \/ LoadToken(r) \/ FindUser(r) \/ Rotate(r) \/ RotateFails(r)
  \/ RevokeAll(r) \/ RevokeOne(r) \/ AnswerToken(r)

Next ==
  \/ \E r \in Request : Arrive(r) \/ Step(r) \/ FailRequest(r)
  \/ \E u \in failed : DeleteUser(u) \/ LoseEvent(u)

Spec == Init /\ [][Next]_vars

----------------------------------------------------------------------------
(* What holds however the handlers interleave.                             *)

(* A refresh token that was revoked, by an exchange, a logout or reuse     *)
(* detection, is never live again, though handlers in flight write the row *)
(* they loaded while it was live.                                          *)
RevokedForGood ==
  [][\A t \in TokenId : tokens[t].status = "revoked"
                          => tokens'[t].status = "revoked"]_tokens

(* A refresh token is stored only with the one it replaces revoked, and    *)
(* for the same account: no failure leaves a session with both.            *)
ExchangedIsRevoked ==
  \A t \in TokenId : tokens[t].parent # 0 =>
    /\ tokens[tokens[t].parent].status = "revoked"
    /\ tokens[tokens[t].parent].user = tokens[t].user

(* A refresh that comes in after its token was revoked obtains nothing,    *)
(* whatever else is going on.                                              *)
LateRefreshGetsNothing ==
  \A r \in Request : pc[r] = "answer" => ~call[r].late

(* When nothing is in flight, every account has been told of to somebody:  *)
(* the saga deletes the account of a signup that failed.                   *)
Quiet == failed = {} /\ \A r \in Request : pc[r] = "idle"
NoOrphanAccount ==
  Quiet => \A u \in UserId : users[u] # None
                               => \E t \in issued : tokens[t].user = u

----------------------------------------------------------------------------
(* What holds while handlers run one at a time (one request slot), and is  *)
(* lost when two of them overlap.                                          *)

(* A session has one live token at most: refreshing invalidates the old    *)
(* one, and a second use of it is noticed.                                 *)
OneTokenPerSession ==
  \A s, t \in TokenId :
    /\ tokens[s].status = "live" /\ tokens[t].status = "live"
    /\ tokens[s].origin = tokens[t].origin
    => s = t

(* A session ended by a logout or by reuse detection has no live token     *)
(* again.                                                                  *)
EndedSessionsStayEnded ==
  \A t \in TokenId : tokens[t].status = "live" => tokens[t].origin \notin ended

----------------------------------------------------------------------------
(* The inductive invariant behind the first four properties.               *)

(* What a request holds belongs to the handler it runs: a token presented  *)
(* is stored and its user is the request's; a request past reuse detection *)
(* was not late, and one that was late will find its token revoked.        *)
CallOK(r) ==
  LET c == call[r]
  IN  /\ pc[r] \in {"saveToken", "answer"} => c.user \in UserId
      /\ pc[r] \in {"loadToken", "findUser", "rotate", "revokeOne"} =>
           /\ c.token \in TokenId
           /\ tokens[c.token].status # "none"
           /\ tokens[c.token].user = c.user
      /\ pc[r] = "loadToken" /\ c.late => tokens[c.token].status = "revoked"
      /\ pc[r] \in {"checkEmail", "createUser", "validatePassword",
                    "saveToken", "findUser", "rotate", "answer"} => ~c.late
      /\ pc[r] \in {"checkEmail", "createUser"} => c.op = "signup"
      /\ pc[r] = "answer" => /\ c.new \in TokenId
                             /\ tokens[c.new].status # "none"
                             /\ tokens[c.new].user = c.user

(* Ids are used in order, a row that is absent has no parent, and every    *)
(* session has a first token.                                              *)
TokensOK ==
  \A t \in TokenId :
    /\ tokens[t].status = "none" => tokens[t].parent = 0
    /\ tokens[t].status # "none" => /\ t <= lastToken
                                   /\ tokens[t].user \in UserId
                                   /\ tokens[t].origin \in TokenId

IssuedOK == \A t \in issued : tokens[t].status # "none"

(* Unless a handler may be cut short, an account whose owner was told      *)
(* nothing is being signed up, or about to be deleted by the saga.         *)
AccountsOK ==
  ~MayStop =>
    \A u \in UserId : users[u] # None =>
      \/ u \in failed
      \/ \E t \in issued : tokens[t].user = u
      \/ \E r \in Request : /\ pc[r] \in {"saveToken", "answer"}
                            /\ call[r].op = "signup"
                            /\ call[r].user = u

IInv == /\ TypeOK
        /\ \A r \in Request : CallOK(r)
        /\ TokensOK /\ ExchangedIsRevoked /\ IssuedOK /\ AccountsOK

----------------------------------------------------------------------------
(* Which two handlers must not overlap, and where, for the properties of   *)
(* handlers that run one at a time to hold although all others do overlap. *)

Exchanging(r) == pc[r] \in {"findUser", "rotate"}

(* No refresh is about to exchange a token that another refresh has found  *)
(* live and is still to exchange.                                          *)
RefreshesApart ==
  \A r, q \in Request :
    Exchanging(r) /\ pc[q] = "rotate" /\ call[r].token = call[q].token
      => r = q

(* No logout, and no reuse detection, is about to revoke such a token.     *)
EndsApart ==
  \A r, q \in Request : Exchanging(r) =>
    /\ pc[q] = "revokeOne" => call[q].token # call[r].token
    /\ pc[q] = "revokeAll" => call[q].user # call[r].user

(* A session belongs to the account of its first token, which is stored.   *)
OriginsOK ==
  \A t \in TokenId : tokens[t].status # "none" =>
    /\ tokens[t].origin <= lastToken
    /\ tokens[tokens[t].origin].user = tokens[t].user

(* While a refresh is about to exchange a token, nobody has, or is about   *)
(* to exchange, another one of the same session.                           *)
ExchangeOK(r) ==
  Exchanging(r) =>
    LET p == call[r].token
    IN  /\ \A t \in TokenId :
             tokens[t].status = "live" /\ tokens[t].origin = tokens[p].origin
               => t = p
        /\ \A q \in Request :
             Exchanging(q) /\ tokens[call[q].token].origin = tokens[p].origin
               => call[q].token = p

OneInv == /\ OriginsOK /\ OneTokenPerSession
          /\ \A r \in Request : ExchangeOK(r)

(* The token a refresh has found live is live when it is exchanged, and a  *)
(* session that was ended had begun.                                       *)
StillLive ==
  \A r \in Request : Exchanging(r) => tokens[call[r].token].status = "live"
EndedOK == \A k \in ended : k <= lastToken
EndInv == StillLive /\ EndedOK /\ EndedSessionsStayEnded
============================================================================
