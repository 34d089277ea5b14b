--------------------------- MODULE SecretHashSwap ---------------------------
(***************************************************************************)
(* One secret-hash swap (SwapTypes.SELLER_FIRST) as the two swap engines   *)
(* of basicswap.py run it.  The seller "S" (was_received) locks coin A in  *)
(* the initiate transaction (ITX), the buyer "B" (was_sent) answers with   *)
(* the participate transaction (PTX) on coin B.  The seller's redeem of    *)
(* the PTX reveals the secret with which the buyer redeems the ITX.        *)
(*                                                                         *)
(* Each engine runs update() as three stages in a fixed order: the check of*)
(* its in-memory bid, the watched outputs, and the accept timeout with the *)
(* queued actions.  A block is found on both chains at once; a timely      *)
(* engine finishes a round between two blocks, a late one need not.        *)
(* States carry the source's names; in_progress is never set for this swap *)
(* type, so a bid is reloaded by its state alone.                          *)
(***************************************************************************)
EXTENDS Integers, FiniteSets

CONSTANTS
  LockValue,       \* offer.lock_value, in blocks
  ConfA,           \* coin_clients[coin_from]["blocks_confirmed"]
  ConfB,           \* coin_clients[coin_to]["blocks_confirmed"]
  MineDelay,       \* blocks within which a broadcast tx is mined
  AcceptTimeout,   \* _sc_lock_tx_timeout, in blocks
  BidValid,        \* blocks until bid.expire_at
  Late,            \* engines that may fall behind or stay down
  MaxFaults,       \* bound: crashes and daemon failures in a behaviour
  WatchScripts,    \* ci_to.watch_blocks_for_scripts()
  Bad              \* locks that may have a wrong amount (MAKE_INVALID_ITX, _PTX)

ASSUME TimesAssumption ==
  /\ {LockValue, ConfA, ConfB, MineDelay, AcceptTimeout, BidValid} \subseteq Nat \ {0}
  /\ MaxFaults \in Nat
  /\ ConfB < LockValue \div 2

ASSUME SettingsAssumption ==
  /\ Late \subseteq {"S", "B"}
  /\ WatchScripts \in BOOLEAN
  /\ Bad \subseteq {"itx", "ptx"}

Nodes == {"S", "B"}

Tx == {"itx", "itx_redeem", "itx_refund", "ptx", "ptx_redeem", "ptx_refund"}

Chain == [t \in Tx |-> "both"]

Parent == [t \in Tx |->
  CASE t \in {"itx", "ptx"}               -> "wallet"
    [] t \in {"itx_redeem", "itx_refund"} -> "itx"
    [] OTHER                              -> "ptx"]

\* Mutant: the participate tx is locked as long as the initiate tx.
ParticipateLockFull == LockValue

\* deriveParticipateScript: locked for half the time of the initiate txn.
ParticipateLock == LockValue \div 2

Csv == [t \in Tx |-> CASE t = "itx_refund" -> LockValue
                       [] t = "ptx_refund" -> ParticipateLock
                       [] OTHER            -> 0]

Cap == [t \in Tx |-> CASE t = "itx" -> LockValue
                       [] t = "ptx" -> ParticipateLock
                       [] OTHER     -> 1]

BidStates == {"NONE", "BID_SENT", "BID_RECEIVED", "BID_ACCEPTED", "SWAP_INITIATED",
              "SWAP_PARTICIPATING", "SWAP_COMPLETED", "SWAP_TIMEDOUT",
              "BID_ERROR"}

TxStates == {"None", "TX_NONE", "TX_SENT", "TX_CONFIRMED", "TX_REDEEMED",
             "TX_REFUNDED", "TX_IN_CHAIN"}

\* What one engine records of the swap.
Bids == [state : BidStates,
         itx   : TxStates,
         ptx   : TxStates,
         ih    : BOOLEAN,                       \* ITX block height known
         pt    : {"None", "Script", "Known"},   \* participate_tx, its txid
         pconf : {"None", "Pool", "Chain"},     \* its conf and block height
         secret : BOOLEAN]                      \* recovered_secret

NoBid == [state |-> "NONE", itx |-> "None", ptx |-> "None", ih |-> FALSE,
          pt |-> "None", pconf |-> "None", secret |-> FALSE]

\* Mutant: a bid that was only accepted is not reloaded.
ReloadedLate == {"SWAP_INITIATED", "SWAP_PARTICIPATING"}

\* loadFromDB reloads BID_RECEIVED < state < SWAP_COMPLETED.
Reloaded == {"BID_ACCEPTED", "SWAP_INITIATED", "SWAP_PARTICIPATING"}

Stages == {"check", "watch", "queue"}

VARIABLES
  conf, sent,  \* the two networks, see Ledger
  accept_sent, \* BID_ACCEPT was sent; it may be delayed or lost
  db,          \* db[n]: the bid row
  mem,         \* mem[n]: swaps_in_progress, lost in a crash
  watch,       \* watch[n]: watched outputs and scripts, lost in a crash
  redeems,     \* REDEEM_ITX actions in the buyer's queue
  bid_age,     \* blocks since the bid was made
  age,         \* age[n]: blocks since the bid was accepted
  pc,          \* pc[n]: the stage of update() that n runs next
  ran,         \* ran[n]: stages n ran since the last block
  up,          \* up[n]: the engine runs
  bad,         \* lock transactions made with a wrong amount
  faults       \* faults so far

INSTANCE Ledger

vars == <<conf, sent, accept_sent, db, mem, watch, redeems, bid_age, age, pc,
          ran, up, bad, faults>>

\* Bound: REDEEM_ITX actions queued at once.
MaxRedeems == 2

TypeOK ==
  /\ conf \in [Tx -> Int]
  /\ sent \subseteq Tx
  /\ accept_sent \in BOOLEAN
  /\ db \in [Nodes -> Bids]
  /\ mem \in [Nodes -> Bids]
  /\ watch \in [Nodes -> SUBSET {"ITX", "PTX", "SCRIPT"}]
  /\ redeems \in 0..MaxRedeems
  /\ bid_age \in 0..BidValid
  /\ age \in [Nodes -> 0..AcceptTimeout]
  /\ pc \in [Nodes -> Stages]
  /\ ran \in [Nodes -> 0..3]
  /\ up \in [Nodes -> BOOLEAN]
  /\ bad \subseteq Bad
  /\ faults \in 0..MaxFaults

Init ==
  /\ conf = [t \in Tx |-> 0]
  /\ sent = {}
  /\ accept_sent = FALSE
  /\ db = [n \in Nodes |-> [NoBid EXCEPT
             !.state = IF n = "S" THEN "BID_RECEIVED" ELSE "BID_SENT"]]
  /\ mem = [n \in Nodes |-> NoBid]
  /\ watch = [n \in Nodes |-> {}]
  /\ redeems = 0
  /\ bid_age = 0
  /\ age = [n \in Nodes |-> 0]
  /\ pc = [n \in Nodes |-> "check"]
  /\ ran = [n \in Nodes |-> 3]
  /\ up = [n \in Nodes |-> TRUE]
  /\ bad \in SUBSET Bad
  /\ faults = 0

-----------------------------------------------------------------------------
\* Helpers.

Spent(t) == \E u \in Tx : Parent[u] = t /\ conf[u] > 0

Fault == faults < MaxFaults /\ faults' = faults + 1

NextStage == [check |-> "watch", watch |-> "queue", queue |-> "check"]

\* n finished a stage of update().
StageDone(n) ==
  /\ pc' = [pc EXCEPT ![n] = NextStage[@]]
  /\ ran' = [ran EXCEPT ![n] = IF @ < 3 THEN @ + 1 ELSE 3]

\* saveBid: the row becomes the in-memory bid.
SaveBid(n, b) ==
  /\ mem' = [mem EXCEPT ![n] = b]
  /\ db' = [db EXCEPT ![n] = b]

\* The in-memory bid changed and was not saved.
KeepUnsaved(n, b) ==
  /\ mem' = [mem EXCEPT ![n] = b]
  /\ UNCHANGED db

\* deactivateBid: b is saved, nothing is watched or queued for it any more.
DeactivateBid(n, b) ==
  /\ db' = [db EXCEPT ![n] = b]
  /\ mem' = [mem EXCEPT ![n] = NoBid]
  /\ watch' = [watch EXCEPT ![n] = {}]
  /\ redeems' = IF n = "B" THEN 0 ELSE redeems

\* Mutant: a spent output is seen as well as an unspent one.
SeesSpent(n, t) == {conf[t] # 0}

\* Whether getLockTxHeight of n sees t.  gettxout knows unspent outputs only;
\* the buyer does not know the output of the ITX before it saw it, and finds it
\* by its transaction, spent or not.  The pools of two nodes may differ.
Sees(n, t) ==
  {r \in BOOLEAN :
     /\ r => conf[t] # 0 /\ (Spent(t) => t = "itx" /\ n = "B" /\ ~mem[n].ih)
     /\ ~r => conf[t] <= 0 \/ \E u \in Tx : Parent[u] = t /\ conf[u] # 0}

\* Mutant: the amount is not compared.
RightAmountAny(t) == TRUE

\* The output of t has the agreed value.
RightAmount(t) == t \notin bad

-----------------------------------------------------------------------------
\* Accepting the bid.

\* The seller sends BID_ACCEPT and follows the bid.
SendBidAccept(b) == accept_sent' = TRUE /\ SaveBid("S", b)

\* acceptBid: the seller publishes the ITX, stores its signed refund and sends
\* BID_ACCEPT.
AcceptBid ==
  LET b == [NoBid EXCEPT !.state = "BID_ACCEPTED", !.itx = "TX_SENT"]
  IN /\ up["S"] /\ db["S"].state = "BID_RECEIVED" /\ bid_age < BidValid
     /\ Broadcast({"itx"})
     /\ SendBidAccept(b)
     /\ age' = [age EXCEPT !["S"] = 0]
     /\ UNCHANGED <<watch, redeems, bid_age, pc, ran, up, bad,
                    faults>>

\* processBidAccept: the buyer verified the contract script.
ProcessBidAccept ==
  LET b == [NoBid EXCEPT !.state = "BID_ACCEPTED", !.itx = "TX_NONE"]
  IN /\ up["B"] /\ accept_sent
     /\ db["B"].state = "BID_SENT" /\ bid_age < BidValid
     /\ SaveBid("B", b)
     /\ age' = [age EXCEPT !["B"] = 0]
     /\ UNCHANGED <<conf, sent, accept_sent, watch, redeems, bid_age, pc, ran, up,
                    bad, faults>>

-----------------------------------------------------------------------------
\* checkBidState.

\* Mutants: a confirmed lock is not refunded.
RefundsUnconfirmed(n, b) ==
  {t \in {"itx_refund", "ptx_refund"} :
     /\ \/ n = "S" /\ t = "itx_refund" /\ b.ih /\ b.itx = "TX_SENT"
        \/ n = "B" /\ t = "ptx_refund" /\ b.pconf = "Chain" /\ b.ptx = "TX_SENT"
     /\ conf[Parent[t]] >= Csv[t]
     /\ Takes(t)}

\* _isScriptRefundMature and the tries at the end of checkBidState: the refunds
\* n publishes for its bid b.  A refused one is logged and tried again.
Refunds(n, b) ==
  {t \in {"itx_refund", "ptx_refund"} :
     /\ \/ n = "S" /\ t = "itx_refund" /\ b.ih
           /\ b.itx \in {"TX_SENT", "TX_CONFIRMED"}
        \/ n = "B" /\ t = "ptx_refund" /\ b.pconf = "Chain"
           /\ b.ptx \in {"TX_SENT", "TX_CONFIRMED"}
     /\ conf[Parent[t]] >= Csv[t]
     /\ Takes(t)}

\* Mutant: the height is not looked up.
PtxHeightUnknown(n, b) == b

\* An invalid ptx is never confirmed: its block height is looked up.
PtxHeight(n, b) ==
  IF /\ n = "B" /\ b.ptx \in {"TX_SENT", "TX_CONFIRMED"}
     /\ b.pt = "Known" /\ conf["ptx"] > 0
  THEN [b EXCEPT !.pconf = "Chain"] ELSE b

\* Mutant: only the PTX is looked at.
AllSpentPTX(b) == b.ptx \in {"None", "TX_REDEEMED", "TX_REFUNDED", "TX_IN_CHAIN"}

\* Wait for spend of all known swap txns; TX_IN_CHAIN is above TX_REDEEMED.
AllSpent(b) ==
  /\ b.itx \in {"None", "TX_REDEEMED", "TX_REFUNDED", "TX_IN_CHAIN"}
  /\ b.ptx \in {"None", "TX_REDEEMED", "TX_REFUNDED", "TX_IN_CHAIN"}

\* The end of checkBidState: the bid is completed and archived, or saved if the
\* handler says so and its refunds tried.  pub is what the handler published
\* before, w the watches.
Conclude(n, b, pub, w, save) ==
  IF b.state # "BID_ACCEPTED" /\ AllSpent(b)
  THEN /\ DeactivateBid(n, [b EXCEPT !.state = "SWAP_COMPLETED"])
       /\ Broadcast(pub)
  ELSE /\ IF save \/ PtxHeight(n, b) # b THEN SaveBid(n, PtxHeight(n, b))
                                         ELSE KeepUnsaved(n, b)
       /\ watch' = [watch EXCEPT ![n] = w]
       /\ Broadcast(pub \union Refunds(n, PtxHeight(n, b)))
       /\ UNCHANGED redeems

\* The ITX has blocks_confirmed confirmations.
ITXDeep == conf["itx"] >= ConfA

\* initiateTxnConfirmed, up to the publishing of the PTX.
Initiated(n, b) ==
  [b EXCEPT !.state = "SWAP_INITIATED", !.itx = "TX_CONFIRMED",
            !.pt = IF n = "B" THEN "Known" ELSE "Script"]

\* Mutant: the buyer does not watch its own PTX.
InitiatedWatchITX(n) == watch[n] \union {"ITX"}

\* addParticipateTxn, addWatchedScript: what n watches from then on.
InitiatedWatch(n) ==
  watch[n] \union {"ITX"} \union (IF n = "B" THEN {"PTX"}
                                  ELSE IF WatchScripts THEN {"SCRIPT"} ELSE {})

\* State BID_ACCEPTED: wait for the ITX to be confirmed.
CheckAccepted(n) ==
  LET b  == mem[n]
      b1 == [b EXCEPT !.ih = TRUE,
                      !.itx = IF @ = "TX_NONE" THEN "TX_SENT" ELSE @]
      b2 == Initiated(n, b1)
  IN /\ b.state = "BID_ACCEPTED"
     /\ \E seen \in Sees(n, "itx") :
          \/ /\ ~seen \/ conf["itx"] < 0
             /\ Conclude(n, b, {}, watch[n], FALSE)
             /\ UNCHANGED faults
          \/ /\ seen /\ conf["itx"] > 0 /\ ~RightAmount("itx")
             /\ DeactivateBid(n, [b EXCEPT !.state = "BID_ERROR"])
             /\ UNCHANGED <<conf, sent, faults>>
          \/ /\ seen /\ conf["itx"] > 0 /\ RightAmount("itx") /\ ~ITXDeep
             /\ Conclude(n, b1, {}, watch[n] \union {"ITX"}, TRUE)
             /\ UNCHANGED faults
          \/ /\ seen /\ conf["itx"] > 0 /\ RightAmount("itx") /\ ITXDeep
             /\ \/ /\ n = "B" /\ b.pt = "None"
                   /\ Takes("ptx")
                   /\ SaveBid(n, [b2 EXCEPT !.ptx = "TX_SENT"])
                   /\ Broadcast({"ptx"})
                   /\ watch' = [watch EXCEPT ![n] = InitiatedWatch(n)]
                   /\ UNCHANGED <<redeems, faults>>
                \/ /\ n = "S" \/ b.pt # "None"
                   /\ SaveBid(n, b2)
                   /\ Broadcast(Refunds(n, b2))
                   /\ watch' = [watch EXCEPT ![n] = InitiatedWatch(n)]
                   /\ UNCHANGED <<redeems, faults>>
                \* Funding or publishing the PTX fails: the in-memory bid is
                \* changed all the same.
                \/ /\ n = "B" /\ b.pt = "None" /\ Fault
                   /\ \E made \in BOOLEAN :
                        LET b3 == [b2 EXCEPT !.pt = IF made THEN @ ELSE "None"]
                        IN /\ \/ KeepUnsaved(n, b3)
                              \/ SaveBid(n, [b3 EXCEPT !.state = "BID_ERROR"])
                           /\ watch' = [watch EXCEPT ![n] =
                                IF made THEN InitiatedWatch(n) ELSE @ \union {"ITX"}]
                   /\ UNCHANGED <<conf, sent, redeems>>

\* Mutant: the depth asked for is that of a PTX whose refund has matured.
PTXDeepLate == conf["ptx"] >= ParticipateLock

\* The PTX has blocks_confirmed confirmations.
PTXDeep == conf["ptx"] >= ConfB

\* State SWAP_INITIATED: wait for the PTX to be confirmed.  The seller redeems
\* it then (participateTxnConfirmed), whatever is left of its lock.
CheckInitiated(n) ==
  LET b  == mem[n]
      b1 == [b EXCEPT
               !.ptx = IF @ \in {"None", "TX_NONE"} THEN "TX_SENT" ELSE @,
               !.pt = "Known",
               !.pconf = IF conf["ptx"] > 0 THEN "Chain"
                         ELSE IF @ = "None" THEN "Pool" ELSE @]
      w  == IF b.pconf = "None" /\ b.ptx # "TX_SENT"
            THEN watch[n] \union {"PTX"} ELSE watch[n]
      b2 == [b1 EXCEPT !.state = "SWAP_PARTICIPATING", !.ptx = "TX_CONFIRMED"]
      redeem == IF n = "S" THEN {"ptx_redeem"} ELSE {}
  IN /\ b.state = "SWAP_INITIATED" /\ b.pt # "None"
     /\ \E seen \in Sees(n, "ptx") :
          \/ /\ ~seen \/ ~RightAmount("ptx")
             /\ Conclude(n, b, {}, watch[n], FALSE)
             /\ UNCHANGED faults
          \/ /\ seen /\ RightAmount("ptx") /\ ~PTXDeep
             /\ \E save \in {TRUE, b1 # b} :      \* its depth may have changed
                  Conclude(n, b1, {}, w, save)
             /\ UNCHANGED faults
          \/ /\ seen /\ RightAmount("ptx") /\ PTXDeep
             /\ \/ /\ \A t \in redeem : Takes(t)
                   /\ Conclude(n, b2, redeem, w, TRUE)
                   /\ UNCHANGED faults
                \* publishTx turns the redeem down, or the daemon fails.
                \/ /\ n = "S"
                   /\ \/ /\ Rejects("ptx_redeem")
                         /\ SaveBid(n, [b2 EXCEPT !.state = "BID_ERROR"])
                         /\ UNCHANGED faults
                      \/ /\ Fault
                         /\ \/ KeepUnsaved(n, b2)
                            \/ SaveBid(n, [b2 EXCEPT !.state = "BID_ERROR"])
                   /\ watch' = [watch EXCEPT ![n] = w]
                   /\ UNCHANGED <<conf, sent, redeems>>

\* The participate tx was never made: reading its script raises.
CheckNothingMade(n) ==
  /\ mem[n].state = "SWAP_INITIATED" /\ mem[n].pt = "None"
  /\ SaveBid(n, [mem[n] EXCEPT !.state = "BID_ERROR"])
  /\ UNCHANGED <<conf, sent, watch, redeems, faults>>

\* Other states: only spends and refunds are looked at.
CheckOther(n) ==
  /\ mem[n].state \in {"SWAP_PARTICIPATING", "BID_ERROR"}
  /\ Conclude(n, mem[n], {}, watch[n], FALSE)
  /\ UNCHANGED faults

\* A daemon call of checkBidState fails before anything changed.
CheckFails(n) ==
  /\ Fault
  /\ \/ UNCHANGED <<mem, db>>
     \/ SaveBid(n, [mem[n] EXCEPT !.state = "BID_ERROR"])
  /\ UNCHANGED <<conf, sent, watch, redeems>>

CheckBidState(n) ==
  /\ up[n] /\ pc[n] = "check"
  /\ \/ mem[n] # NoBid
        /\ \/ CheckAccepted(n) \/ CheckInitiated(n) \/ CheckNothingMade(n) \/ CheckOther(n)
           \/ CheckFails(n)
     \/ /\ mem[n] = NoBid
        /\ UNCHANGED <<conf, sent, mem, db, watch, redeems, faults>>
  /\ StageDone(n)
  /\ UNCHANGED <<accept_sent, age, bid_age, up, bad>>

-----------------------------------------------------------------------------
\* checkWatched: mined spends of watched outputs, found scripts.

\* initiateTxnSpent.
InitiateTxnSpent(n) ==
  /\ "ITX" \in watch[n] /\ Spent("itx")
  /\ SaveBid(n, [mem[n] EXCEPT !.itx = IF conf["itx_redeem"] > 0
                                       THEN "TX_REDEEMED" ELSE "TX_REFUNDED"])
  /\ watch' = [watch EXCEPT ![n] = @ \ {"ITX"}]
  /\ UNCHANGED <<redeems, up, faults, pc, ran>>

\* The process is gone: what is not in the database is lost.
LoseMemory(n) ==
  /\ up' = [up EXCEPT ![n] = FALSE]
  /\ mem' = [mem EXCEPT ![n] = NoBid]
  /\ watch' = [watch EXCEPT ![n] = {}]
  /\ pc' = [pc EXCEPT ![n] = "check"]
  /\ ran' = [ran EXCEPT ![n] = 0]

\* Mutant: the redeem of the ITX is not queued.
ParticipateTxnSpentOnly(n) ==
  /\ "PTX" \in watch[n] /\ Spent("ptx")
  /\ SaveBid(n, [mem[n] EXCEPT !.ptx = "TX_REDEEMED", !.secret = TRUE])
  /\ watch' = [watch EXCEPT ![n] = @ \ {"PTX"}]
  /\ UNCHANGED <<redeems, up, faults, pc, ran>>

\* participateTxnSpent.  The action and the recovered secret are saved in two
\* commits: the process may die between them.
ParticipateTxnSpent(n) ==
  /\ "PTX" \in watch[n] /\ Spent("ptx")
  /\ \/ /\ conf["ptx_refund"] > 0
        /\ SaveBid(n, [mem[n] EXCEPT !.ptx = "TX_REFUNDED"])
        /\ watch' = [watch EXCEPT ![n] = @ \ {"PTX"}]
        /\ UNCHANGED <<redeems, up, faults, pc, ran>>
     \/ /\ conf["ptx_redeem"] > 0
        /\ redeems' = IF n = "B" /\ redeems < MaxRedeems THEN redeems + 1
                                                         ELSE redeems
        /\ \/ /\ SaveBid(n, [mem[n] EXCEPT !.ptx = "TX_REDEEMED", !.secret = TRUE])
              /\ watch' = [watch EXCEPT ![n] = @ \ {"PTX"}]
              /\ UNCHANGED <<up, faults, pc, ran>>
           \/ /\ n = "B" /\ Fault /\ LoseMemory(n)
              /\ UNCHANGED db

\* processFoundScript for a PTX.
ProcessFoundScript(n) ==
  /\ "SCRIPT" \in watch[n] /\ conf["ptx"] > 0
  /\ SaveBid(n, [mem[n] EXCEPT !.pt = "Known", !.ptx = "TX_IN_CHAIN"])
  /\ watch' = [watch EXCEPT ![n] = @ \ {"SCRIPT"}]
  /\ UNCHANGED <<redeems, up, faults, pc, ran>>

\* The scan reaches a block with a spend after the block with the output: a
\* script is found before its spend.
CheckWatched(n) ==
  /\ up[n] /\ pc[n] = "watch"
  /\ \/ InitiateTxnSpent(n)
     \/ "SCRIPT" \notin watch[n] /\ ParticipateTxnSpent(n)
     \/ ProcessFoundScript(n)
     \/ /\ \/ /\ ~("ITX" \in watch[n] /\ Spent("itx"))
              /\ ~("PTX" \in watch[n] /\ Spent("ptx"))
              /\ ~("SCRIPT" \in watch[n] /\ conf["ptx"] > 0)
              /\ UNCHANGED faults
           \/ Fault
        /\ StageDone(n)
        /\ UNCHANGED <<db, mem, watch, redeems, up>>
  /\ UNCHANGED <<conf, sent, accept_sent, age, bid_age, bad>>

-----------------------------------------------------------------------------
\* The accept timeout and the queued actions.

\* checkAcceptedBids, timeoutBid: a bid stuck as accepted is archived.
CheckAcceptedBids(n) ==
  /\ db[n].state = "BID_ACCEPTED" /\ age[n] = AcceptTimeout
  /\ DeactivateBid(n, [db[n] EXCEPT !.state = "SWAP_TIMEDOUT"])
  /\ UNCHANGED <<conf, sent, faults>>

\* Mutants: the queue is not looked at; a failed redeem is not kept.
RedeemITxAlways(n) ==
  /\ n = "B" /\ redeems' = redeems - 1
  /\ UNCHANGED <<conf, sent, db, mem, watch, faults>>
RedeemITxOnce(n) ==
  /\ n = "B" /\ redeems > 0
  /\ redeems' = redeems - 1
  /\ \/ Takes("itx_redeem") /\ Broadcast({"itx_redeem"}) /\ UNCHANGED faults
     \/ Fault /\ UNCHANGED <<conf, sent>>
  /\ UNCHANGED <<db, mem, watch>>

\* redeemITx: the bid is read from its row.  Without the recovered secret the
\* redeem does not verify; an error sets BID_ERROR on the row.
RedeemITx(n) ==
  /\ n = "B" /\ redeems > 0
  /\ \/ /\ db[n].secret /\ Takes("itx_redeem")
        /\ Broadcast({"itx_redeem"})
        /\ redeems' = redeems - 1
        /\ UNCHANGED <<db, faults>>
     \/ /\ ~db[n].secret \/ Rejects("itx_redeem")
        /\ db' = [db EXCEPT ![n].state = "BID_ERROR"]
        /\ redeems' = redeems - 1
        /\ UNCHANGED <<conf, sent, faults>>
     \/ /\ Fault                               \* transient: kept
        /\ UNCHANGED <<conf, sent, db, redeems>>
  /\ UNCHANGED <<mem, watch>>

CheckQueuedActions(n) ==
  /\ up[n] /\ pc[n] = "queue"
  /\ \/ CheckAcceptedBids(n)
     \/ /\ ~(db[n].state = "BID_ACCEPTED" /\ age[n] = AcceptTimeout)
        /\ \/ RedeemITx(n)
           \/ /\ n = "S" \/ redeems = 0
              /\ UNCHANGED <<conf, sent, db, mem, watch, redeems, faults>>
  /\ StageDone(n)
  /\ UNCHANGED <<accept_sent, age, bid_age, up, bad>>

-----------------------------------------------------------------------------
\* Crashes and blocks.

Crash(n) ==
  /\ up[n]
  /\ Fault
  /\ LoseMemory(n)
  /\ UNCHANGED <<conf, sent, accept_sent, db, redeems, age, bid_age, bad>>

\* start, loadFromDB, activateBid: the bid is reloaded by its state and the
\* outputs and scripts its row knows of are watched again.
Restart(n) ==
  /\ ~up[n]
  /\ up' = [up EXCEPT ![n] = TRUE]
  /\ IF db[n].state \in Reloaded
     THEN /\ mem' = [mem EXCEPT ![n] = db[n]]
          /\ watch' = [watch EXCEPT ![n] =
               {"ITX"}
               \union (IF db[n].pt = "Known" THEN {"PTX"} ELSE {})
               \union (IF db[n].pt = "Script" /\ WatchScripts
                       THEN {"SCRIPT"} ELSE {})]
     ELSE UNCHANGED <<mem, watch>>
  /\ UNCHANGED <<conf, sent, accept_sent, db, redeems, age, bid_age, pc,
                 ran, bad, faults>>

\* A block on both chains.  Engines that are not late ran a round since the
\* last one.
Tick ==
  /\ \A n \in Nodes \ Late : up[n] /\ ran[n] = 3
  /\ NewBlock("both")
  /\ age' = [n \in Nodes |->
               IF db[n].state = "BID_ACCEPTED" /\ age[n] < AcceptTimeout
               THEN age[n] + 1 ELSE age[n]]
  /\ bid_age' = IF bid_age < BidValid THEN bid_age + 1 ELSE bid_age
  /\ ran' = [n \in Nodes |-> 0]
  /\ UNCHANGED <<accept_sent, db, mem, watch, redeems, pc, up, bad, faults>>

Engine(n) ==
  \/ CheckBidState(n)
  \/ CheckWatched(n)
  \/ CheckQueuedActions(n)

Next ==
  \/ AcceptBid
  \/ ProcessBidAccept
  \/ Tick
  \/ \E n \in Nodes : Engine(n) \/ Crash(n) \/ Restart(n)

Spec == Init /\ [][Next]_vars

-----------------------------------------------------------------------------
\* Properties.

\* The seller publishes the redeem of the PTX, and with it the secret, without
\* looking at what is left of the lock (participateTxnConfirmed).  A timely
\* seller is never overtaken: once the secret is out the PTX is not refunded.
SecretNeverRaced == "ptx_redeem" \in sent => conf["ptx_refund"] <= 0

\* A timely buyer does not end with neither coin: while the seller can take the
\* PTX, the ITX is not refunded, however late the seller acts.
BuyerNotCheated == ~(conf["ptx_redeem"] > 0 /\ conf["itx_refund"] > 0)

\* While the ITX is locked the seller's engine keeps the bid in progress, and
\* watches the ITX once its block is known; only an error ends that.
SellerTracksITX ==
  up["S"] /\ "itx" \in sent /\ ~Spent("itx") /\ db["S"].state # "BID_ERROR"
    => mem["S"] # NoBid /\ (mem["S"].ih => "ITX" \in watch["S"])

\* While the PTX is locked the buyer's engine has it in progress, watches it and
\* records it as a transaction to refund.
BuyerTracksPTX ==
  up["B"] /\ "ptx" \in sent /\ ~Spent("ptx") /\ db["B"].state # "BID_ERROR"
    => /\ mem["B"].ptx \in {"TX_SENT", "TX_CONFIRMED"}
       /\ "PTX" \in watch["B"]

\* A recovered secret is used: the redeem of the ITX stays queued until it was
\* published, whatever was lost between the commit of the action and the commit
\* of the secret.
SecretUsed ==
  db["B"].secret /\ ~Spent("itx") /\ db["B"].state # "BID_ERROR"
    => redeems > 0 \/ "itx_redeem" \in sent

\* SWAP_COMPLETED is only recorded by a party whose own lock is spent, and by a
\* buyer whose PTX was taken only when the ITX is spent as well.
EndStatesTrue ==
  /\ db["S"].state = "SWAP_COMPLETED" => Spent("itx")
  /\ db["B"].state = "SWAP_COMPLETED" =>
       /\ conf["ptx"] # 0 => Spent("ptx")
       /\ conf["ptx_redeem"] > 0 => Spent("itx")

\* The recorded end of a lock is never taken back: a spend seen by the watcher
\* before checkBidState looked is not overwritten by the confirmation of the
\* transaction it spends (initiateTxnConfirmed, participateTxnConfirmed).
Ended == {"TX_REDEEMED", "TX_REFUNDED"}
SpendsRemembered ==
  [][\A n \in Nodes : mem[n] # NoBid /\ mem'[n] # NoBid =>
        /\ mem[n].itx \in Ended => mem'[n].itx = mem[n].itx
        /\ mem[n].ptx \in Ended => mem'[n].ptx = mem[n].ptx]_vars

\* A lock of the wrong amount is not answered: no PTX against such an ITX, no
\* secret for such a PTX.
BadLockRefused ==
  /\ "itx" \in bad => "ptx" \notin sent
  /\ "ptx" \in bad => "ptx_redeem" \notin sent

-----------------------------------------------------------------------------
\* The swap implements AtomicSwap: the coins are where the mined transactions
\* put them, coin A with the ITX and coin B with the PTX.

Mined(t) == conf[t] > 0

CoinA ==
  IF Mined("itx_redeem")      THEN "taken"
  ELSE IF Mined("itx_refund") THEN "returned"
  ELSE IF Mined("itx")        THEN "locked"
  ELSE "none"

CoinB ==
  IF Mined("ptx_redeem")      THEN "taken"
  ELSE IF Mined("ptx_refund") THEN "returned"
  ELSE IF Mined("ptx")        THEN "locked"
  ELSE "none"

Swap == INSTANCE AtomicSwap WITH a <- CoinA, b <- CoinB

\* The engines of basicswap.py keep the promise of a swap to a timely buyer:
\* whenever the seller's engine runs, and whatever crashes, the PTX is mined after
\* the ITX, no outcome changes, and nobody gets both coins.
ImplementsAtomicSwap == Swap!Spec
=============================================================================
