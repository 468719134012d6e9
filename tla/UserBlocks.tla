----------------------------- MODULE UserBlocks -----------------------------
(***************************************************************************)
(* Who has blocked whom: the table user.user_blocks, the two handlers that *)
(* write it and the events they commit.                                    *)
(*                                                                         *)
(* As in Messaging a request is an execution of a handler, and one action  *)
(* stands for the code between two queries.  A block that is lifted stays  *)
(* in the table, soft-deleted: reads do not see it, the primary key does.  *)
(***************************************************************************)
EXTENDS Naturals, FiniteSets

CONSTANTS User,             \* the accounts
          BlockRequest,     \* slots for block and unblock handlers
          MaxBlockRequests, \* bound on the block and unblock requests
          MayStop           \* whether a handler may be cut short

ASSUME UserBlocksAssumption ==
  MaxBlockRequests \in Nat /\ MayStop \in BOOLEAN

VARIABLES
  blocks,        \* table user.user_blocks: the row of a blocker and a blocked
  blockPc,       \* what a block or unblock request waits for
  blockCall,     \* its command
  announced,     \* the last event that told both users about the pair
  disturbed,     \* history: pairs two requests of which overlapped, or one
                 \* of which was cut short
  blockReceived  \* number of block and unblock requests received

blockVars == <<blocks, blockPc, blockCall, announced, disturbed,
               blockReceived>>

----------------------------------------------------------------------------

(* blocker, blocked *)
Pair == {p \in User \X User : p[1] # p[2]}
Row == {"none", "active", "lifted"}

BlockCall == [op : {"none"}, pair : {<<>>}]
             \cup [op : {"block", "unblock"}, pair : Pair]
NoBlockCall == [op |-> "none", pair |-> <<>>]
BlockLabel == {"idle", "status", "exists", "insert", "lift", "publish"}

BlocksTypeOK ==
  /\ blocks \in [Pair -> Row]
  /\ blockPc \in [BlockRequest -> BlockLabel]
  /\ blockCall \in [BlockRequest -> BlockCall]
  /\ announced \in [Pair -> Row]
  /\ disturbed \subseteq Pair
  /\ blockReceived \in 0 .. MaxBlockRequests

BlocksInit ==
  /\ blocks = [p \in Pair |-> "none"]
  /\ blockPc = [b \in BlockRequest |-> "idle"]
  /\ blockCall = [b \in BlockRequest |-> NoBlockCall]
  /\ announced = [p \in Pair |-> "none"]
  /\ disturbed = {}
  /\ blockReceived = 0

(* getBlockStatus(blocker, blocked): soft-deleted rows are not seen.       *)
HasBlocked(u, v) == blocks[<<u, v>>] = "active"

----------------------------------------------------------------------------

BlockGoto(b, l) == blockPc' = [blockPc EXCEPT ![b] = l]
BlockFinish(b) == /\ BlockGoto(b, "idle")
                  /\ blockCall' = [blockCall EXCEPT ![b] = NoBlockCall]
BlockReject(b) == BlockFinish(b) /\ UNCHANGED <<blocks, announced>>
BlockContinue(b, l) == /\ BlockGoto(b, l)
                       /\ UNCHANGED <<blocks, blockCall, announced>>

(* UserHttpController.block and unblock; both users exist.                 *)
ReceiveBlock(b, op, p) ==
  /\ blockPc[b] = "idle"
  /\ blockReceived < MaxBlockRequests
  /\ blockReceived' = blockReceived + 1
  /\ blockCall' = [blockCall EXCEPT ![b] = [op |-> op, pair |-> p]]
  /\ BlockGoto(b, "status")
  /\ disturbed' = IF \E c \in BlockRequest : blockCall[c].pair = p
                  THEN disturbed \cup {p} ELSE disturbed
  /\ UNCHANGED <<blocks, announced>>

(* Mutant of CheckStatus: unblock does not look whether there is a block.  *)
CheckStatusOfBlockOnly(b) ==
  /\ blockPc[b] = "status"
  /\ LET c == blockCall[b]
     IN  CASE c.op = "block" /\ blocks[c.pair] = "active" -> BlockReject(b)
           [] c.op = "block" /\ blocks[c.pair] # "active" ->
                BlockContinue(b, "exists")
           [] OTHER -> BlockContinue(b, "lift")

(* The handlers look at the status first: blocking again and lifting what  *)
(* is not there end here.                                                  *)
CheckStatus(b) ==
  /\ blockPc[b] = "status"
  /\ LET c == blockCall[b]
         active == blocks[c.pair] = "active"
     IN  \/ c.op = "block" /\ active /\ BlockReject(b)
         \/ c.op = "block" /\ ~active /\ BlockContinue(b, "exists")
         \/ c.op = "unblock" /\ active /\ BlockContinue(b, "lift")
         \/ c.op = "unblock" /\ ~active /\ BlockReject(b)

(* UserPostgresRepository.block looks again inside its transaction; what   *)
(* it returns is ignored by the handler.                                   *)
CheckExists(b) ==
  /\ blockPc[b] = "exists"
  /\ BlockContinue(b, IF blocks[blockCall[b].pair] = "active"
                      THEN "publish" ELSE "insert")

(* The INSERT and its COMMIT ...                                           *)
InsertBlock(b) ==
  /\ blockPc[b] = "insert"
  /\ blocks[blockCall[b].pair] = "none"
  /\ blocks' = [blocks EXCEPT ![blockCall[b].pair] = "active"]
  /\ BlockGoto(b, "publish")
  /\ UNCHANGED <<blockCall, announced>>

(* ... or a violation of the primary key (blocker_id, blocked_id), which   *)
(* a row that was soft-deleted causes as well.                             *)
InsertBlockFails(b) ==
  /\ blockPc[b] = "insert"
  /\ blocks[blockCall[b].pair] # "none"
  /\ BlockReject(b)

(* Mutant of LiftBlock: the row is deleted, not soft-deleted.              *)
LiftBlockHard(b) ==
  /\ blockPc[b] = "lift"
  /\ blocks' = [p \in Pair \ {blockCall[b].pair} |-> blocks[p]]
  /\ BlockGoto(b, "publish")
  /\ UNCHANGED <<blockCall, announced>>

(* UserPostgresRepository.unblock *)
LiftBlock(b) ==
  /\ blockPc[b] = "lift"
  /\ blocks' = [blocks EXCEPT ![blockCall[b].pair] =
                  IF @ = "none" THEN "none" ELSE "lifted"]
  /\ BlockGoto(b, "publish")
  /\ UNCHANGED <<blockCall, announced>>

(* commit(): the event handlers emit to the rooms of both users before     *)
(* they wait for anything.                                                 *)
PublishBlock(b) ==
  /\ blockPc[b] = "publish"
  /\ announced' = [announced EXCEPT ![blockCall[b].pair] =
                     IF blockCall[b].op = "block" THEN "active" ELSE "lifted"]
  /\ BlockFinish(b)
  /\ UNCHANGED blocks

(* A query fails, or the process stops.                                    *)
StopBlock(b) == /\ MayStop
                /\ blockPc[b] # "idle"
                /\ disturbed' = disturbed \cup {blockCall[b].pair}
                /\ BlockReject(b)
                /\ UNCHANGED blockReceived

BlockStep(b) ==
  /\ \/ CheckStatus(b) \/ CheckExists(b) \/ InsertBlock(b)
     \/ InsertBlockFails(b) \/ LiftBlock(b) \/ PublishBlock(b)
  /\ UNCHANGED <<disturbed, blockReceived>>

BlocksNext ==
  \E b \in BlockRequest :
    \/ \E op \in {"block", "unblock"}, p \in Pair : ReceiveBlock(b, op, p)
    \/ BlockStep(b)
    \/ StopBlock(b)

BlocksSpec == BlocksInit /\ [][BlocksNext]_blockVars

----------------------------------------------------------------------------

(* When nothing is in flight, the last event both users received about a   *)
(* pair agrees with the table, unless two requests for that pair overlapped*)
(* or one was cut short: neither a request that was turned away nor one    *)
(* for another pair, the reverse pair included, tells them anything wrong. *)
EventsAgree ==
  (\A b \in BlockRequest : blockPc[b] = "idle")
    => \A p \in Pair \ disturbed : announced[p] = blocks[p]

(* A block that passed the check of its status takes effect.  It does not  *)
(* when the pair was blocked and unblocked before.                         *)
BlockTakesEffect ==
  [][\A b \in BlockRequest :
       blockPc[b] = "insert" /\ blockPc'[b] # "insert"
         => blocks'[blockCall[b].pair] = "active"]_blockVars

----------------------------------------------------------------------------
(* The inductive invariant.                                                *)

AtWork(b) == blockPc[b] # "idle"

(* A request at work, for a pair that no other request has disturbed, finds*)
(* the row as it left it, and the two users told what was so before it.    *)
BlockRequestOK(b) ==
  LET c == blockCall[b]
      p == c.pair
  IN  AtWork(b) =>
        /\ p \in Pair /\ c.op \in {"block", "unblock"}
        /\ blockPc[b] \in {"exists", "insert"} => c.op = "block"
        /\ blockPc[b] = "lift" => c.op = "unblock"
        /\ p \notin disturbed =>
             /\ blockPc[b] # "publish" => announced[p] = blocks[p]
             /\ blockPc[b] = "publish" =>
                  blocks[p] = IF c.op = "block" THEN "active" ELSE "lifted"
             /\ blockPc[b] = "insert" => blocks[p] # "active"
             /\ blockPc[b] = "lift" => blocks[p] = "active"

(* Two requests at work for one pair disturb it.                           *)
OneAtATime ==
  \A b, c \in BlockRequest :
    AtWork(b) /\ AtWork(c) /\ blockCall[b].pair = blockCall[c].pair /\ b # c
      => blockCall[b].pair \in disturbed

(* A pair nobody is working on is announced as it is.                      *)
RestingAgree ==
  \A p \in Pair \ disturbed :
    (\A b \in BlockRequest : AtWork(b) => blockCall[b].pair # p)
      => announced[p] = blocks[p]

BlocksInv == /\ BlocksTypeOK
             /\ \A b \in BlockRequest : BlockRequestOK(b)
             /\ OneAtATime
             /\ RestingAgree
============================================================================
