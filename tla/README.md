# A verification of Chatterbox

Chatterbox is a chat back end: NestJS with CQRS command and query handlers,
TypeORM over Postgres, Socket.IO (with a Redis adapter, so that several
instances serve one set of rooms) for the conversations, HTTP for accounts and
sessions. This directory holds TLA+ models of its handlers, the TLC runs that
check them and TLAPS proofs of what matters most. Paths below are relative to
the repository's `src/modules/` unless they say otherwise.

## 1. Inventory

| component | state it keeps | operations | correct when |
|---|---|---|---|
| message commands (`chat/application/commands`) | none between requests; an in-memory entity across the awaits of one | send, edit, delete for me, delete for everyone, mark as seen | retries are answered with one message; a deletion is final; what is hidden stays hidden |
| message storage (`chat/infrastructure/database`) | `messages`, `deleted_messages`, `conversation_members` (last message, last seen), `conversations` | `saveMessage`, `updateMessage`, `saveMessageDeletion`, `saveConversation`, `deleteConversation` and reads | the member rows agree with the messages; the client id is unique per sender |
| domain events and WebSocket handlers (`chat/presentation/ws/events`) | events in memory between `commit()` and their handler | created, edited, deleted, blocked, unblocked | every stored change is announced, and only to those who may know |
| chat gateway (`chat/presentation/ws/chat-ws.gateway.ts`) | sockets and rooms | connect, create a conversation, send, edit, delete, list, mark as seen | the block status it read decides who is told |
| direct conversations | `conversations`, `conversation_members` | check, create, first message, rollback | one conversation per pair, no empty leftover |
| read model and pagination | none | conversation list, unread counts, message pages | a page shows exactly what the member may see |
| user blocks (`user`) | `user_blocks` (soft-deleted rows) | block, unblock, status | one row per pair, one event per change |
| user accounts (`user`) | `users` | create, delete, look up, check a password | one account per e-mail address |
| refresh tokens (`auth`) | `refresh_tokens` (soft-deleted rows) | sign in, refresh, log out of one or of all sessions | a token is exchanged once; replay and logout end what they should |
| sign up and its saga (`auth`) | none; `SignupFailedEvent` in memory | create the user, save a token, compensate | a failed signup leaves no account |
| WebSocket sessions and guards (`common/websocket`) | `client.data` of a socket | authenticate, expire, join the user's room | only an authenticated socket is in a room |
| HTTP controllers, DTOs, filters, logger, configuration, adapters | none | map a request to a command and an error to an answer | not modelled (section 6) |

**How they interact.** A gateway or controller method calls the command bus and
awaits it. A handler reads through a repository, mutates an entity, writes
through the repository, and calls `commit()`, which hands the entity's domain
events to the in-process event bus. Event handlers are not awaited, ask the
repositories again and emit to the rooms `user-<id>`. The modules see each
other only through integration adapters (`chat` asks `user` for the block
status, `auth` asks `user` to create, check and find accounts) and through one
saga (`SignupFailedEvent` to `DeleteUserCommand`).

**What is hard.** Every `await` is a point where another request runs, in the
same process or in another instance. Nothing is versioned or locked by the
application: a handler that read an entity writes what it read, seconds later,
over what others wrote. Transactions run under READ COMMITTED. Events live in
memory, so a crash loses them. Clients retry. These are the hazards listed in
`PROJECT.json`, each at its line.

## 2. The modules

| module | what it is |
|---|---|
| `Messaging` | the messages of one direct conversation: handlers, tables, events, notices |
| `Mailbox` | what those messages promise: an abstract specification, every operation one step |
| `MessagingMailbox` | the refinement mapping: `Messaging` implements `Mailbox` |
| `UserBlocks` | block, unblock, their events |
| `Conversations` | extends `UserBlocks`: creating a direct conversation, sending and editing while the blocks change |
| `Sockets` | the life of a connection: authentication, guards, expiry, rooms, broadcasts |
| `Pages` | the arithmetic of pages, and the rows of one |
| `History` | extends `Pages`: what a member reads back while both members write |
| `Sessions` | accounts and refresh tokens: sign up, sign in, refresh, log out, the saga |
| `MC<X>` | `X` for TLC, with its symmetry where no liveness is checked |
| `<X>_proofs` | the inductive invariant of `X` and what follows from it; `MessagingMailbox_proofs` proves the refinement |

`Messaging` takes what `Conversations` decides, the shadow of a message, as an
arbitrary choice, and follows it through storage, events and notices;
`Conversations` takes storage as one step and asks whether the shadow was
decided well. `History` takes every write as one step and follows the reads.

### Messaging

A *request* is one execution of a handler; `Request` is a set of slots, so its
size is how many handlers overlap. `pc[r]` says what the request waits for,
`call[r]` holds its arguments, `entity[r]` what it has in memory.

| state | in the code |
|---|---|
| `messages` | `chat.messages`; status `live`, or `tombstone` when `deleted_at` is set; `shadow` is a history field, the `deletedForUserIds` the message was created with |
| `deletedFor` | `chat.deleted_messages` |
| `members` | `last_message_id` and `last_seen_message_id` of `chat.conversation_members` |
| `events` | domain events between `commit()` and their handler |
| `inbox` | what was emitted to the room of each user |
| `acks` | the message named in the answers to sends with a `clientMessageId` |
| `lastId` | the newest uuidv7: ids are ordered by creation, so a number is both the id and `created_at` |

| actions | in the code |
|---|---|
| `ReceiveSend`, `ReceiveEdit`, `ReceiveDelete`, `ReceiveSeen` | the gateway methods; the block status a send has read is any of the two values, because it may be old |
| `FindNoEarlierSend`, `FindEarlierSend`, `FindConflictingSend` | the idempotency lookup of `CreateMessageHandler` |
| `LoadReply`, `CreateMessage` | its reply checks and `MessageEntity.create` |
| `InsertMessage`, `SaveMessage` | `saveMessage` up to the reading of the member rows, and its COMMIT |
| `InsertConflict`, `LoadExisting` | its recovery from 23505, a duplicate key |
| `LoadForEdit`, `UpdateMessage` | `EditMessageHandler` |
| `LoadForDelete`, `BeginDeletion`, `SaveDeletion` | `DeleteMessageHandler` and `saveMessageDeletion` |
| `LoadConversation`, `SaveConversation`, `PublishSeen` | `MarkConversationAsReadCommandHandler`, `saveConversation`, the broadcast of `markMessageAsSeen` |
| `Publish` | `commit()` and the answer |
| `HandleEvent` | one of the three WebSocket event handlers |
| `FailRequest`, `LoseEvent` | a query that fails, a process that stops |

Abstractions, and why they are sound for the properties stated:

- A transaction is a read step and a commit step. TypeORM's `save` selects the
  row, compares and updates the columns that differ, so a column that another
  transaction changed after the entity was read is written back: the commit
  step writes the whole of what was read. Row locks and the wait of an INSERT on
  an equal key of an open transaction are the guards `RowLocked` and
  `KeyPending`; the locks on member rows are not modelled, the last committer
  wins, and a deadlock that Postgres breaks is a `FailRequest`.
- `getMessageById` makes two queries (the message, its `deleted_messages`); the
  model reads both at once.
- The conversation exists and has its two members throughout, so the membership
  checks pass. Creation and rollback are in `Conversations`.
- The reply pointer, `edited_at`, formatting and user names are left out. A
  message is of type TEXT, the only type the gateway sends.

### Mailbox and MessagingMailbox

`Mailbox` is the view of the members: requests are asked for (`Ask`), end
(`Leave`), store a message under a key nobody has (`Post`), change a text
(`Edit`), hide (`Hide`), tell (`Tell`) and answer (`Answer`), each atomically and
each only when somebody entitled asked. It says nothing of transactions, of
entities held across awaits, or of the order in which things are told.

| in `Mailbox` | from `Messaging` |
|---|---|
| `asks` | the calls of the slots that are not idle |
| `row` | `messages` without the deletion status |
| `hidden` | `deletedFor` |
| `told` | the messages named by the notices in a member's room, except read receipts and "deleted for me" |
| `acks` | `acks` |

The deletion status is left out of the view because a tombstone is not final
(finding 1); `TombstoneIsFinal` is about it. Failures and lost events map to
stuttering or `Leave`: nothing is promised to happen, only that nothing else
does.

### UserBlocks and Conversations

| state | in the code |
|---|---|
| `blocks` | `user.user_blocks`: `active`, or `lifted` when `deleted_at` is set |
| `announced` | the last of `user.blocked` and `user.unblocked` about a pair, emitted to both users |
| `convs`, `msgs` | `chat.conversations` with its two members, `chat.messages` |
| `pc`, `call` | what a gateway request waits for, and what it has read |
| `events`, `inbox` | message events in memory, and what was emitted |
| `since[r]` | history: what has held of the blocks between the two users without interruption since request `r` came in: "blocked", "blocker" or "free" |
| `disturbed`, `clashed`, `cut` | history: pairs whose block requests overlapped or were cut short, pairs for whom two creations overlapped, pairs for whom a creation was cut short |

| actions | in the code |
|---|---|
| `ReceiveBlock`, `CheckStatus` | the controller methods, the status check of both handlers |
| `CheckExists`, `InsertBlock`, `InsertBlockFails` | `UserPostgresRepository.block`; its result is ignored by the handler |
| `LiftBlock`, `PublishBlock` | `unblock`; `commit()` and the two WebSocket handlers |
| `ReadIsBlocker`, `ReadIsBlocked` | the two queries behind `getBlockStatus` and `hasBlockRelation`, answered in any order |
| `CheckConversation`, `SaveConversation` | `conversationExists`, `saveConversation` |
| `SaveFirstMessage`, `FirstMessageFails`, `RollBack`, `Announce` | the rest of `createDirectConversation` |
| `InsertMessage`, `UpdateMessage`, `HandleEvent` | `CreateMessageHandler`, `EditMessageHandler`, the message event handlers |
| `Stop`, `StopBlock` | a query that fails, the rollback included, or a process that stops |

Abstractions: users exist and nobody blocks themselves (the handlers turn both
away before any write). The INSERT of a block and its COMMIT are one step: a
second INSERT of the same key waits for the first and then fails, which is the
order `InsertBlock`, `InsertBlockFails`. A message that was stored although its
request failed is covered (`FirstMessageFails`). Edits look at no block, so an
edit by a blocked member is told to the one who blocked; the properties are
about messages and conversations.

### Sockets

| state | in the code |
|---|---|
| `token[s]` | the bearer token of the handshake: whose, whether its signature is good, whether it has expired; a handshake without one is a token that is not good |
| `data[s]` | `client.data`: `authUser`, `authPromise` (the number of an attempt), or null after an expired session |
| `attempt[s]` | the calls of `authenticateUser`, and how their promises settled |
| `opening[s]`, `waiting[s][m]` | the attempt awaited by `handleConnection`, and by the guard of a message |
| `running[s][m]` | the user the handler of the message runs as |
| `room`, `ready`, `heard` | the rooms `user-<id>`, who was told "ready", whose broadcasts a socket has received |

`Connect`, `OpenSocket` and `TurnAway` are `handleConnection`; `Verify` is
`authenticateUser`; `MessageOfUser`, `MessageExpired`, `MessageWaits`,
`MessageAuthenticates`, `GuardPasses` and `GuardRefuses` are `canActivate`;
`Broadcast` is `broadcast` and `serverBroadcast`. A settled promise resumes
those who wait for it in any order, with other messages in between: more
interleavings than the microtask queue has, so what holds here holds there.
Socket.IO is external: a disconnected socket leaves its rooms, and joining one
afterwards has no effect. The attempts are bounded by more than the messages, so
the bound stops none.

### Pages and History

| state | in the code |
|---|---|
| `state`, `sender`, `at`, `quoted` | `chat.messages`: not yet committed, stored or a tombstone; its author, `created_at` in milliseconds, `reply_to_message_id` |
| `hidden`, `lastSeen`, `last` | `deleted_messages`, the receipts of the members, the last message of the reader |
| `request` | what the queries of the request in progress have returned |
| `walk` | history: the pages a client has turned, what was there when it began and what it got |
| `seenBy`, `overlapped` | history: what was stored when a member last read; whether two messages were ever on their way at once |

| actions | in the code |
|---|---|
| `Create`, `Commit` | `MessageEntity.create`, which takes id and time in the process, and the COMMIT of `saveMessage` |
| `Tombstone`, `Hide`, `MarkSeen` | the other three commands, each one step |
| `AskPage` ... `AnswerPage` | `conversation.message.list`: the receipts, the rows, the count (`getManyAndCount` is two statements), the quoted messages hidden from the reader, the answer |
| `AskList` ... `AnswerList` | `conversation.list`, for one entry: the reader's row, the unread count, the other member's row, the answer |

Ids (uuidv7) and times are taken in one order in one process; two messages may
share a millisecond, and then the database returns them in either order. The
page and size a client asks for may be missing, not a number, zero or too large
(`NaN` stands for what `Number()` cannot read). The filter and the order of the
conversation list are left out.

### Sessions

The handlers of `auth` and those of `user` that they call, over the two tables
`user.users` and `auth.refresh_tokens`, which no foreign key ties together. As
in `Messaging` a request occupies a slot and an action runs up to the next
query; hashing and signing touch no shared state and are part of the action
that follows them.

| state | in the code |
|---|---|
| `users` | `user.users`: the address of each account; user ids are uuids that are never reused, here numbers |
| `tokens` | `auth.refresh_tokens`; `revoked` is a row with `deleted_at` set. `parent` and `origin` are history fields: the token it was exchanged for, and the first token of the session |
| `call[r]` | the command, and the user and tokens the handler holds; `late` is a history field: the token presented was revoked when the request came in |
| `failed` | `SignupFailedEvent`s between the event bus and the saga |
| `issued` | the tokens clients were answered with, the only ones they can present |
| `ended` | history: the sessions that a logout or reuse detection ended |

| actions | in the code |
|---|---|
| `ReceiveSignup` ... `ReceiveLogoutAll` | the controller methods; a logout that names no token, or one that does not verify, is a logout of all devices |
| `CheckEmail`, `CreateUser` | `CreateUserHandler`, behind the integration adapter; the unique index on `email` turns away what the check let through |
| `ValidatePassword` | `ValidatePasswordHandler` |
| `SaveToken`, `SaveTokenFails` | `save` of the first token of a session, and its `catch`, which for a signup publishes `SignupFailedEvent` |
| `DeleteUser` | `AuthSaga` and `DeleteUserHandler` |
| `LoadToken`, `FindUser`, `Rotate`, `RotateFails` | `RefreshTokensHandler`: reuse detection, the user lookup, the transaction `rotateRefreshToken` |
| `RevokeAll`, `RevokeOne` | `revokeAllRefreshTokens` (of a logout and of reuse detection), `revokeRefreshToken` |
| `AnswerToken` | the answer |
| `FailRequest`, `LoseEvent` | signing or another query throws, or the process stops |

Abstractions:

- A wrong password and a token that does not verify, is not stored or does not
  match its hash are turned away before anything is written, so only right ones
  come in.
- The two writes of `rotateRefreshToken` are one step. No other transaction sees
  them apart under READ COMMITTED, except that `revokeAllRefreshTokens` may wait
  for the row of the old token and then does not see the new one, inserted after
  its statement began; that is the order `RevokeAll`, `Rotate`, which the model
  has. The old row is overwritten whatever it has become, as TypeORM's `save`
  does with an entity loaded before.
- A user logs out sessions of their own; `revokeRefreshToken` with the token of
  somebody else matches no row.
- The search for a free generated username repeats until it finds one, and is
  left out. Access tokens are not stored and so are not part of the state.

## 3. The runs

| run | instance | shows |
|---|---|---|
| `concurrent` | 2 members, 2 texts, 1 client id, 2 slots, 3 requests, no failures | retries name one message, shadows hold, what is hidden stays hidden, whatever overlaps; `IInv`, the invariant the proofs rest on, holds; every behaviour is one of `Mailbox` |
| `sequential` | the same with 1 slot and failures | one handler at a time, a tombstone is final and frozen, no notice names a message that is not stored, and the last message of each member is exactly the newest one the member sees; a message arrives unread at everybody but its author |
| `liveness` | 2 slots, 2 requests, no failures, fairness | every stored message is announced, every handler ends |
| `sessions` | 2 addresses, 2 slots, 6 requests; storing a token may fail | an exchange is atomic, revocation is for good, a late refresh obtains nothing, the saga leaves no account; `IInv` of `Sessions` holds |
| `onebyone` | 1 slot, 6 requests; a handler may be cut short anywhere | one handler at a time, a session has one live token at most, and one that ended stays ended |
| `contacts` | 2 users, 2 block slots and 2 gateway slots with 2 requests each, failures and stops | events agree with the table; sends, creations and notices respect a block that stood all along; one conversation per pair, none left empty, none announced and rolled back |
| `sockets` | 2 users, 1 connection, 2 messages at a time of 4, 5 attempts, 2 broadcasts, fairness | a socket hears its own user and misses nothing once ready; nothing is served after expiry; no message waits for ever and no impostor stays connected |
| `history` | 3 messages, 1 reply, 1 deletion, hiding or receipt, pages of 2 | a walk through the pages is complete; what was withheld stays so; ticks and badges mean what they say |
| `resurrection` | 2 slots, 3 requests, no failures | `TombstoneIsFinal` fails when two deletions overlap: finding 1 |
| `ghost` | the same | `NoGhostBroadcast` fails when two sends overlap: finding 2 |
| `survivor` | as `sessions`, no failures | `EndedSessionsStayEnded` fails when a refresh overlaps the end of its session: finding 3 |
| `reblock` | 1 block slot, 3 block requests | `BlockTakesEffect` fails without any overlap: finding 4 |

*Bounds of Messaging.* Two overlapping handlers are what each race needs; the
third request provides the message they race over. A conversation is direct, so
two members are all it has. Two texts distinguish "same" from "other", one
client id gives retries and conflicts. `MaxMessages >= MaxRequests`, so the
bound on ids blocks no send. With failures the two-slot instance is too large
for a run of minutes; failures are explored with one slot, and the proofs cover
both values of `Failures` for any number of slots.

*Bounds of Sessions.* Six requests let two users sign up, refresh, replay and
log out. Two addresses give both "another account" and "the same address
again", and the id bounds are at least `MaxRequests`, so they block nothing.

*Bounds of Conversations.* Two users are a pair in both directions. Two gateway
requests give two creations that race, or a creation and a send or edit in the
conversation it made; two block requests give a block and its lifting around
them, or two that race. The id bounds are at least the requests, so they block
nothing. Larger numbers are left to the proofs.

*Bounds of Sockets.* The properties relate a socket to its own token, attempts
and room, and broadcasts are to one user at a time, so sockets do not meet; the
proofs are for any number. Two messages at a time and the connection itself are
three that wait for one promise.

*Bounds of History.* Three messages are two pages of two, one message more than
a page, so that a write between two pages can move a message across the border.
`SizesAsked` holds one missing and one too large. One change per behaviour, on
top of any sends, is what each property needs to be put at risk; the mutants
are found with it.

*Fairness.* `WF(Step(r))`: the event loop resumes a handler whose query
answered. `WF(HandleEvent)`: the event bus calls the handlers of an event
published. There is none on requests: clients need not send anything.
`WF(Step(s))` of `Sockets`: the event loop resumes whoever waits for a settled
promise, and verification answers; clients need not send, disconnect or let a
token expire. Events are finitely many, so fairness of handling *some* event
suffices. Liveness of messages is checked with `Failures = FALSE` only: after a
crash the code promises nothing.

`CHECK_DEADLOCK FALSE` everywhere but in `history`: once the requests of the
bound were received and ended the system stops, as it should. That nobody waits
for ever is `RequestsEnd` and `NobodyHangs`. A reader can always ask again, so
`history` checks for deadlock.

### Findings

1. **A tombstone is undone** (`resurrection`). `saveMessageDeletion` writes
   `deleted_at` from the entity it was given. A "delete for me" by the other
   member that loaded the message before its sender deleted it for everyone
   writes NULL back.
2. **A message that does not exist is announced** (`ghost`). When two sends with
   one client id overlap, the loser answers with the stored message but commits
   the event of its own.
3. **A session survives its end** (`survivor`). A refresh that passed reuse
   detection stores its new token after a logout, or reuse detection in another
   request, has revoked what the user had.
4. **Nobody can be blocked twice** (`reblock`). `unblock` soft-deletes the row,
   `block` looks for a live row and then inserts the same primary key: after
   block, unblock, every further block of that user fails with an error.

The other properties of `sequential` and `onebyone` fail as well once two
handlers overlap, which is why those runs have one slot: an edit checked before
a deletion for everyone changes the text of the tombstone
(`TombstoneIsFrozen`; `updateMessage` updates by id alone); three writers of the
member rows save what they read without a lock or a version, and leave a wrong
last message (`LastMessageExact`); two overlapping refreshes with one token both
pass reuse detection and the session goes on in two branches
(`OneTokenPerSession`). To see it, set `Request = {r1, r2}` and the failures to
`FALSE` in the configuration of the run.

Properties that hold only with a reservation name it: `disturbed`, `clashed`,
`cut`, `overlapped`, `NoTies` and `walk.hid` are each needed, the property fails
without it. They are the limits of what the code promises: overlapping block
requests may be announced in the wrong order, two creations at once give two
conversations, a crash leaves an empty one, a receipt may vouch for a message
that was committed late, and an offset walk loses messages when the reader hides
some on another device or when times tie.

## 4. The proofs

They hold for any sets of users, texts, client ids, addresses and slots, any
bounds, and with or without failures; the only assumptions are those named
`<X>Assumption` in the modules. Every invariant was checked by TLC on the
instance of a run before it was proved.

Five properties of messages and two of sessions fail when certain handlers
overlap (section 3). They are proved in the form `Spec /\ []H => ...`, where `H`
names the one overlap that breaks them, between which waiting points of which
handlers; everything else overlaps, fails or is cut short as before. Each `H` is
a state predicate of the module, not a fact about the code: the code enforces
none of them, and the theorem says what a lock or a version column would have
to exclude. TLC confirmed both sides with two slots and failures: under the
constraint `H` the invariants below hold, and without it each property has a
counterexample in which just that overlap occurs. With one slot all hypotheses
hold by themselves; the theorems `OneAtATime` of both modules state this, and so
extend the runs `sequential` and `onebyone` to all constants.

### Messaging_proofs

Type correctness, `RetriesNameOneMessage`, `ShadowHolds`, and the action
property `HiddenForGood`. The properties are not inductive, `IInv` is. Its
argument:

- *A key has one owner.* Between the INSERT and the COMMIT of a send with a
  client id nobody else is in that window with the same key and no row has it
  (`KeyOK`); so the index is unique (`TableOK`), and what a send is about to
  answer is the row of its own key (`EntityOK`). Hence `AckOK`, and two answers
  for one key name one row.
- *A shadow is carried everywhere.* A row's shadow is contained in its
  `deletedFor` (`TableOK`), an entity loaded from it contains the shadow
  (`EntityOK`), so does the event it commits (`EventOK`), so no room of a
  shadowed member is addressed (`ShadowHolds`).
- *A fresh id is unknown.* The id of a send in progress is in no row, event or
  notice (`FreshOK`), so storing it cannot give a shadow to a message somebody
  was already told of.

What holds while an overlap is excluded:

| theorem | excluded overlap | what it makes invariant, and why |
|---|---|---|
| `DeletedStaysDeleted`: `TombstoneIsFinal` | `DeletionsApart`: two deletions of one message, from the reading of its row to their COMMIT | `TombstonesKnown`: a deletion that finds a tombstone has read one, for only another deletion could have made it since; so what it writes back is not NULL |
| `DeletedIsFrozen`: `TombstoneIsFrozen` | `EditsApart`: an edit about to write while a deletion of the message is about to commit | `EditsLive`: the row of an edit is still live when it is written |
| `AnnouncedExists`: `NoGhostBroadcast` | `KeysApart`: a send at its COMMIT while another with the same key is past the lookup | `GhostInv`: a key looked up in vain stays free, so the unique index turns nobody away and the event of a send is that of the row it stored |
| `NewIsUnread`: `ArrivesUnread` | `SendsApart`: two sends from the minting of the id to the COMMIT | `NewestMinted`: the id on its way is the greatest, and what a member has seen is stored (`SeenStored`, proved with no hypothesis), hence older |
| `LastMessageIsExact`: `LastMessageExact` | `WritersApart`: two of the handlers that write the member rows (send, deletion, receipt) between reading and writing them | `LastInv`: the rows about to be written agree with what the tables will be after the COMMIT (`LastsHold`) |

Ids are what the last two turn on. A message committed after one with a greater
id would be older than what somebody has already seen, and `Newest` would not
pick it although it arrived last.

### Sessions_proofs

Type correctness, `ExchangedIsRevoked`, `LateRefreshGetsNothing`, the action
property `RevokedForGood`, and `NoOrphanAccount` for `MayStop = FALSE`. The
inductive invariant adds to them:

- *A request holds a row that is there* (`CallOK`, `TokensOK`). Ids are used in
  order, so a token about to be stored gets the id of an absent row, which is
  nobody's parent; the token a rotation revokes is a stored one of the same
  user. Hence `ExchangedIsRevoked` survives `Rotate`, and since no handler
  writes a row as live but the one it inserts, revocation is for good.
- *Late means revoked* (`CallOK`). While a late request waits to load its token
  that token stays revoked, by the same argument, so it goes to `revokeAll`; no
  other waiting point is reached by a late request.
- *Somebody owes the account* (`AccountsOK`). An account whose owner was given
  no token is being signed up or is in `failed`. The case that breaks it is a
  signup that ends without either, which is what `MayStop` allows.

`SessionsHaveOneToken` proves `OneTokenPerSession` while `RefreshesApart` holds:
no refresh is about to exchange a token that another has found live and still
holds. Its invariant, `OneInv`, says of a refresh past reuse detection that its
token is the only one of the session that may be live, and that nobody else
holds another one of it (`ExchangeOK`): so the exchange replaces the one live
token. `EndedIsEnded` adds `EndsApart`, that no logout and no reuse detection is
about to revoke such a token. Then a token found live is live when exchanged
(`StillLive` in `EndInv`), so its session was not ended in between and the new
token does not revive one. Each hypothesis is an overlap of finding 3 or of the
two branches described below it.

### MessagingMailbox_proofs and Mailbox_proofs

`MessagingIsMailbox`: every step of `Messaging` is a step of `Mailbox` under the
mapping, or stutters. Besides `IInv` it needs `AskedForInv`: what a handler holds
across its awaits is what its caller asked for, that is the text of the call, a
message of the caller's own when it is about to be edited, and nobody hidden in
the entity who neither is hidden already nor asked for it. The case that needs
it most is `SaveDeletion`, which writes a list of hidden members read earlier:
it adds the caller, because nobody is ever removed from `deletedFor`, so what
was read is still contained in what is there.

`Mailbox_proofs` derives from the promise alone that one client id has one
answer and that what is withheld stays hidden and unmentioned. By the refinement
`Messaging` has both.

### UserBlocks_proofs and Conversations_proofs

`BlocksInv`: a request at work on a pair that nobody disturbs finds the row as
it left it, and the two users told what was so before (`BlockRequestOK`);
two requests on one pair disturb it (`OneAtATime`). Hence `EventsAgree`. It is
kept by the gateway's steps, which leave the blocks alone, and by the steps of
the blocks in the composition.

`IInv` of `Conversations` adds: what held since a request came in is what the
request has read, if it has read it (`SinceOK`: a fact in `since` was true at
every moment, the moment of the query included, hence `SendsRespectBlocks` and
`CreationRespectsBlocks`); an event carries the shadow of its message
(`EventsOK`), hence `BlockerHearsNothing`; a conversation being created belongs
to one request, is live and is known to nobody (`OwnedOK`, `Apart`), hence
`NoEmptyLeftover` and `AnnouncedStays`; and between `conversationExists` and the
insert nobody else can create for that pair without a clash, hence
`OneConversationPerPair`.

### Sockets_proofs

`SocketOK`: an attempt succeeds only for a good token, a socket that was told
"ready" is in the room of its user as long as it is connected, and in no other.
`LateOK`: a message that came in after the expiry waits only for attempts that
are yet to verify the token, and so fail, or finds the session gone.

### History_proofs

`PagesWithhold`, `ReceiptsVouch` and `BadgesAgree`, each from a part of `IInv`.
What was withheld is not among what a request has read (`PageOK`): the rows are
read after the request came in, and the hidden messages last. A receipt vouches
for every message up to its own (`Vouches`), because ids and times follow the
order of creation and, unless two messages were on their way at once, all but
the newest are stored (`IdsOK`); a message not newer than the receipt therefore
has no greater id when no two times tie (`ReceiptCovers`). The last message of
the reader is the newest of those left to them (`LastOK`), so there is an unread
one exactly if the last one is unread.

`WalksAreComplete` proves `WalkComplete` from a second invariant, `WalkOK`: a
message the walk started with and has not got lies behind the pages turned
(`Beyond`: more messages are at least as new as it than those pages hold), or on
the page being read. Nothing moves it forward: messages that come in are ahead
of it or behind it, a tombstone still takes its place, and nothing is hidden
while `walk.hid` is false (`AheadGrows`, `BeyondStays`). Without ties its place is
the number of those ahead (`PlaceAhead`), so the page read has it or it is behind
that page as well (`FoundOnPage`); and the total, counted after the rows, counts
it, so the page is not told to be the last one (`LastPage`).

`PagesShareOut` is about `Pages` alone: for any finite rows in any strict total
order, every row is on just one page from 1 to `TotalPages`, and no page is
longer than its size; `PagesAreWhole` says it of the messages of `History` in
every reachable state, ties ordered in whatever way. It is what a walk relies on
while nothing is written. The first part needs the rounding up in `TotalPages`,
the last an injection of a page into the places it stands for.

Out of the prover's reach, and only model-checked: liveness under fairness
(`MessagesAreAnnounced`, `RequestsEnd`, `NobodyHangs`, `ImpostorsAreClosed`).
Every other property of the passing runs is proved, seven of them under the
hypotheses named above and `NoOrphanAccount` for handlers that are not cut short.

## 5. Plan

Done: `Messaging` and its refinement of `Mailbox`, `Sessions`, `UserBlocks` and
`Conversations`, `Sockets`, `Pages` and `History`. Left, in this order:

1. The list of several conversations and its order by last message, which moves
   a conversation to another page when a message arrives.
2. A read receipt that restores a conversation being rolled back
   (`saveConversation` writes `deleted_at` as it was loaded): `Messaging` and
   `Conversations` together.

## 6. Not modelled

HTTP controllers, DTO validation, exception filters, Swagger, the logger,
configuration, the Redis client and the WebSocket adapter hold no state the
properties speak of. Names, avatars and the search for users by name are left
out, and with them the filter of the conversation list. Migrations are used for
the indexes they create.
Cryptography (bcrypt, RS256) is taken to do what it says.
