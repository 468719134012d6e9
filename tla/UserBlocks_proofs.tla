------------------------- MODULE UserBlocks_proofs -------------------------
(***************************************************************************)
(* Proofs about UserBlocks: its inductive invariant BlocksInv, and from it *)
(* that the events agree with the table.                                   *)
(***************************************************************************)
EXTENDS UserBlocks, TLAPS

(* The empty table agrees with no event at all.                            *)
LEMMA BlocksInitOK == BlocksInit => BlocksInv
  BY UserBlocksAssumption
  DEF BlocksInit, BlocksInv, BlocksTypeOK, BlockRequestOK, OneAtATime,
      RestingAgree, AtWork, BlockLabel, BlockCall, NoBlockCall, Row

(* A request ends without having changed a row: its pair is as announced.  *)
LEMMA BlockRejectOK ==
  ASSUME BlocksInv, NEW b \in BlockRequest, AtWork(b), BlockReject(b),
         \/ disturbed' = disturbed /\ blockPc[b] # "publish"
         \/ disturbed' = disturbed \cup {blockCall[b].pair},
         UNCHANGED blockReceived
  PROVE  BlocksInv'
  <1> USE DEF AtWork, BlockReject, BlockFinish, BlockGoto
  <1>1. BlockRequestOK(b) /\ blockCall[b].pair \in Pair
    BY DEF BlocksInv, BlockRequestOK
  <1>2. BlocksTypeOK'
    BY <1>1 DEF BlocksInv, BlocksTypeOK, BlockLabel, BlockCall, NoBlockCall
  <1>3. /\ blockPc'[b] = "idle"
        /\ \A c \in BlockRequest \ {b} : /\ blockPc'[c] = blockPc[c]
                                         /\ blockCall'[c] = blockCall[c]
    BY DEF BlocksInv, BlocksTypeOK
  <1>4. \A c \in BlockRequest : BlockRequestOK(c)'
    BY <1>3 DEF BlocksInv, BlockRequestOK
  <1>5. OneAtATime'
    BY <1>3 DEF BlocksInv, OneAtATime
  <1>6. RestingAgree'
    BY <1>1, <1>3 DEF BlocksInv, RestingAgree, BlockRequestOK
  <1> QED
    BY <1>2, <1>4, <1>5, <1>6 DEF BlocksInv

(* A request goes on to l and leaves the tables alone.                     *)
LEMMA BlockContinueOK ==
  ASSUME BlocksInv, NEW b \in BlockRequest, NEW l \in BlockLabel,
         AtWork(b), blockPc[b] # "publish", l # "idle", BlockContinue(b, l),
         UNCHANGED <<disturbed, blockReceived>>,
         BlockRequestOK(b)'
  PROVE  BlocksInv'
  <1> USE DEF AtWork, BlockContinue, BlockGoto
  <1>1. BlocksTypeOK'
    BY DEF BlocksInv, BlocksTypeOK
  <1>2. \A c \in BlockRequest \ {b} : BlockRequestOK(c)'
    BY DEF BlocksInv, BlocksTypeOK, BlockRequestOK
  <1>3. OneAtATime'
    BY DEF BlocksInv, BlocksTypeOK, OneAtATime
  <1>4. RestingAgree'
    BY DEF BlocksInv, BlocksTypeOK, RestingAgree
  <1> QED
    BY <1>1, <1>2, <1>3, <1>4 DEF BlocksInv

(* A request that comes in for a pair another one works on disturbs it.    *)
LEMMA ReceiveBlockOK ==
  ASSUME BlocksInv, NEW b \in BlockRequest, NEW op \in {"block", "unblock"},
         NEW p \in Pair, ReceiveBlock(b, op, p)
  PROVE  BlocksInv'
  <1> USE DEF AtWork, ReceiveBlock, BlockGoto
  <1>1. BlocksTypeOK'
    BY UserBlocksAssumption DEF BlocksInv, BlocksTypeOK, BlockLabel, BlockCall
  <1>2. /\ blockPc'[b] = "status" /\ blockCall'[b].pair = p
        /\ blockCall'[b].op = op
        /\ \A c \in BlockRequest \ {b} : /\ blockPc'[c] = blockPc[c]
                                         /\ blockCall'[c] = blockCall[c]
    BY DEF BlocksInv, BlocksTypeOK
  <1>3. \A c \in BlockRequest \ {b} :
          AtWork(c) /\ blockCall[c].pair = p => p \in disturbed'
    OBVIOUS
  <1>4. \A c \in BlockRequest \ {b} : BlockRequestOK(c)'
    BY <1>2 DEF BlocksInv, BlockRequestOK
  <1>5. BlockRequestOK(b)'
    BY <1>2, <1>3 DEF BlocksInv, BlockRequestOK, RestingAgree
  <1>6. OneAtATime'
    BY <1>2, <1>3 DEF BlocksInv, OneAtATime
  <1>7. RestingAgree'
    BY <1>2 DEF BlocksInv, RestingAgree
  <1> QED
    BY <1>1, <1>4, <1>5, <1>6, <1>7 DEF BlocksInv

(* The status decides whether the request goes on.                         *)
LEMMA CheckStatusOK ==
  ASSUME BlocksInv, NEW b \in BlockRequest, CheckStatus(b),
         UNCHANGED <<disturbed, blockReceived>>
  PROVE  BlocksInv'
  <1>1. blockPc[b] = "status" /\ AtWork(b) /\ BlockRequestOK(b)
    BY DEF CheckStatus, AtWork, BlocksInv
  <1>2. CASE BlockReject(b)
    BY <1>1, <1>2, BlockRejectOK
  <1>3. CASE BlockContinue(b, "exists") /\ blockCall[b].op = "block"
    <2>1. BlockRequestOK(b)'
      BY <1>1, <1>3
      DEF BlockRequestOK, BlockContinue, BlockGoto, AtWork, BlocksInv,
          BlocksTypeOK
    <2> QED
      BY <1>1, <1>3, <2>1, BlockContinueOK DEF BlockLabel
  <1>4. CASE /\ BlockContinue(b, "lift") /\ blockCall[b].op = "unblock"
             /\ blocks[blockCall[b].pair] = "active"
    <2>1. BlockRequestOK(b)'
      BY <1>1, <1>4
      DEF BlockRequestOK, BlockContinue, BlockGoto, AtWork, BlocksInv,
          BlocksTypeOK
    <2> QED
      BY <1>1, <1>4, <2>1, BlockContinueOK DEF BlockLabel
  <1> QED
    BY <1>2, <1>3, <1>4 DEF CheckStatus

(* A second look inside the transaction.                                   *)
LEMMA CheckExistsOK ==
  ASSUME BlocksInv, NEW b \in BlockRequest, CheckExists(b),
         UNCHANGED <<disturbed, blockReceived>>
  PROVE  BlocksInv'
  <1>1. blockPc[b] = "exists" /\ AtWork(b) /\ BlockRequestOK(b)
    BY DEF CheckExists, AtWork, BlocksInv
  <1> DEFINE l == IF blocks[blockCall[b].pair] = "active"
                  THEN "publish" ELSE "insert"
  <1>2. BlockContinue(b, l) /\ l \in BlockLabel /\ l # "idle"
    BY DEF CheckExists, BlockLabel
  <1>3. BlockRequestOK(b)'
    BY <1>1, <1>2
    DEF BlockRequestOK, BlockContinue, BlockGoto, AtWork, BlocksInv,
        BlocksTypeOK
  <1> HIDE DEF l
  <1> QED
    BY <1>1, <1>2, <1>3, BlockContinueOK

(* The row of the pair is written: the request will announce it.           *)
LEMMA WriteOK ==
  ASSUME BlocksInv, NEW b \in BlockRequest, NEW row \in Row,
         AtWork(b), blockPc[b] \in {"insert", "lift"},
         blocks' = [blocks EXCEPT ![blockCall[b].pair] = row],
         BlockGoto(b, "publish"),
         blockCall[b].pair \notin disturbed =>
           row = IF blockCall[b].op = "block" THEN "active" ELSE "lifted",
         UNCHANGED <<blockCall, announced, disturbed, blockReceived>>
  PROVE  BlocksInv'
  <1> USE DEF AtWork, BlockGoto
  <1>1. BlockRequestOK(b) /\ blockCall[b].pair \in Pair
    BY DEF BlocksInv, BlockRequestOK
  <1>2. BlocksTypeOK'
    BY <1>1 DEF BlocksInv, BlocksTypeOK, BlockLabel
  <1>3. /\ blockPc'[b] = "publish"
        /\ \A c \in BlockRequest \ {b} : blockPc'[c] = blockPc[c]
        /\ blocks'[blockCall[b].pair] = row
        /\ \A p \in Pair \ {blockCall[b].pair} : blocks'[p] = blocks[p]
    BY <1>1 DEF BlocksInv, BlocksTypeOK
  <1>4. BlockRequestOK(b)'
    BY <1>1, <1>3 DEF BlockRequestOK
  <1>5. \A c \in BlockRequest \ {b} : BlockRequestOK(c)'
    BY <1>3 DEF BlocksInv, BlockRequestOK, OneAtATime
  <1>6. OneAtATime'
    BY <1>3 DEF BlocksInv, OneAtATime
  <1>7. RestingAgree'
    BY <1>3 DEF BlocksInv, RestingAgree
  <1> QED
    BY <1>2, <1>4, <1>5, <1>6, <1>7 DEF BlocksInv

(* The insert writes the row of a new block.                               *)
LEMMA InsertBlockOK ==
  ASSUME BlocksInv, NEW b \in BlockRequest, InsertBlock(b),
         UNCHANGED <<disturbed, blockReceived>>
  PROVE  BlocksInv'
  <1>1. blockCall[b].op = "block"
    BY DEF InsertBlock, AtWork, BlocksInv, BlockRequestOK
  <1> QED
    BY <1>1, WriteOK DEF InsertBlock, AtWork, Row

(* The row that is lifted is there, or else was disturbed.                 *)
LEMMA LiftBlockOK ==
  ASSUME BlocksInv, NEW b \in BlockRequest, LiftBlock(b),
         UNCHANGED <<disturbed, blockReceived>>
  PROVE  BlocksInv'
  <1> DEFINE p == blockCall[b].pair
             row == IF blocks[p] = "none" THEN "none" ELSE "lifted"
  <1>1. /\ blockCall[b].op = "unblock" /\ p \in Pair
        /\ p \notin disturbed => blocks[p] = "active"
    BY DEF LiftBlock, AtWork, BlocksInv, BlockRequestOK
  <1>2. blocks' = [blocks EXCEPT ![p] = row] /\ row \in Row
    BY <1>1 DEF LiftBlock, BlocksInv, BlocksTypeOK, Row
  <1>3. p \notin disturbed => row = "lifted"
    BY <1>1
  <1> HIDE DEF row
  <1> QED
    BY <1>1, <1>2, <1>3, WriteOK DEF LiftBlock, AtWork

(* The event tells both users what the row says.                           *)
LEMMA PublishBlockOK ==
  ASSUME BlocksInv, NEW b \in BlockRequest, PublishBlock(b),
         UNCHANGED <<disturbed, blockReceived>>
  PROVE  BlocksInv'
  <1> USE DEF AtWork, PublishBlock, BlockFinish, BlockGoto
  <1> DEFINE p == blockCall[b].pair
             told == IF blockCall[b].op = "block" THEN "active" ELSE "lifted"
  <1>1. BlockRequestOK(b) /\ p \in Pair /\ told \in Row
    BY DEF BlocksInv, BlockRequestOK, Row
  <1>2. BlocksTypeOK'
    BY <1>1 DEF BlocksInv, BlocksTypeOK, BlockLabel, BlockCall, NoBlockCall,
                Row
  <1>3. /\ blockPc'[b] = "idle"
        /\ \A c \in BlockRequest \ {b} : /\ blockPc'[c] = blockPc[c]
                                         /\ blockCall'[c] = blockCall[c]
        /\ announced'[p] = told
        /\ \A q \in Pair \ {p} : announced'[q] = announced[q]
        /\ p \notin disturbed => blocks[p] = told
    BY <1>1 DEF BlocksInv, BlocksTypeOK, BlockRequestOK
  <1> HIDE DEF told
  <1>4. \A c \in BlockRequest : BlockRequestOK(c)'
    BY <1>3 DEF BlocksInv, BlockRequestOK, OneAtATime
  <1>5. OneAtATime'
    BY <1>3 DEF BlocksInv, OneAtATime
  <1>6. RestingAgree'
    BY <1>3 DEF BlocksInv, RestingAgree
  <1> QED
    BY <1>2, <1>4, <1>5, <1>6 DEF BlocksInv

(* Every step of the block handlers preserves the invariant.               *)
LEMMA BlocksNextOK == BlocksInv /\ BlocksNext => BlocksInv'
  <1> SUFFICES ASSUME BlocksInv, NEW b \in BlockRequest,
                      \/ \E op \in {"block", "unblock"}, p \in Pair :
                           ReceiveBlock(b, op, p)
                      \/ BlockStep(b)
                      \/ StopBlock(b)
               PROVE  BlocksInv'
    BY DEF BlocksNext
  <1>1. CASE \E op \in {"block", "unblock"}, p \in Pair :
               ReceiveBlock(b, op, p)
    BY <1>1, ReceiveBlockOK
  <1>2. CASE BlockStep(b)
    <2>1. CASE InsertBlockFails(b)
      BY <1>2, <2>1, BlockRejectOK DEF InsertBlockFails, AtWork, BlockStep
    <2> QED
      BY <1>2, <2>1, CheckStatusOK, CheckExistsOK, InsertBlockOK,
         LiftBlockOK, PublishBlockOK
      DEF BlockStep
  <1>3. CASE StopBlock(b)
    BY <1>3, BlockRejectOK DEF StopBlock, AtWork
  <1> QED
    BY <1>1, <1>2, <1>3

(* BlocksInv holds in every state a sequence of blocks and unblocks        *)
(* reaches.                                                                *)
THEOREM BlocksInvariance == BlocksSpec => []BlocksInv
  <1>1. BlocksInv /\ UNCHANGED blockVars => BlocksInv'
    BY DEF blockVars, BlocksInv, BlocksTypeOK, BlockRequestOK, OneAtATime,
           RestingAgree, AtWork
  <1> QED
    BY <1>1, BlocksInitOK, BlocksNextOK, PTL DEF BlocksSpec

(* What the two users were told last about a block is what the table says, *)
(* whatever handlers turned away, failed or worked on other pairs.         *)
THEOREM EventsAgreeWithTable == BlocksSpec => []EventsAgree
  <1>1. BlocksInv => EventsAgree
    BY DEF BlocksInv, RestingAgree, EventsAgree, AtWork
  <1> QED
    BY <1>1, BlocksInvariance, PTL
=============================================================================
