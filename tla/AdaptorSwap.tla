---------------------------- MODULE AdaptorSwap ----------------------------
(***************************************************************************)
(* One adaptor-signature swap (SwapTypes.XMR_SWAP), from the accepted bid  *)
(* to its end, as the two swap engines of basicswap.py run it.             *)
(*                                                                         *)
(* The leader "L" (was_received) locks coin A in a script, the follower    *)
(* "F" (was_sent) locks coin B under a key of two shares.  Spending the A  *)
(* lock reveals the follower's share to the leader, spending the A refund  *)
(* reveals the leader's share to the follower.                             *)
(*                                                                         *)
(* Each engine is a loop over three kinds of step: checkXmrBidState on its *)
(* in-memory copy of the bid (swaps_in_progress), the actions queued in    *)
(* the database, and the watched outputs.  Messages, blocks, crashes and   *)
(* daemon failures happen between any two steps.  Timelocks are measured   *)
(* in blocks of chain A.  State names drop the source's XMR_SWAP_ prefix.  *)
(***************************************************************************)
EXTENDS Integers, FiniteSets

CONSTANTS
  Lock1,              \* xmr_offer.lock_time_1: A lock to A lock refund
  Lock2,              \* xmr_offer.lock_time_2: A lock refund to swipe
  ConfA,              \* ci_from.blocks_confirmed
  ConfB,              \* ci_to.blocks_confirmed
  Spendable,          \* ci_to.depth_spendable()
  ReleaseMargin,      \* _sc_lock_release_min_margin
  SpendMargin,        \* _sc_lock_spend_min_margin
  MineDelay,          \* blocks within which a broadcast tx is mined
  MercyTimeout,       \* _mercy_watch_timeout_blocks
  MaxErrors,          \* _max_transient_errors
  MaxFaults,          \* bound: crashes and daemon failures in a behaviour
  Altruistic,         \* values the altruistic setting may have when read
  CanSendMercy,       \* ci_from.canSendMercyTx()
  RedeemAddressOwned, \* the leader's coin B address is in its own wallet
  PartialFailures     \* handlers that may fail between effect and commit

\* Durations are counted in blocks.
ASSUME TimesAssumption ==
  /\ {Lock1, Lock2, ConfA, Spendable, MercyTimeout, MineDelay} \subseteq Nat \ {0}
  /\ {ConfB, ReleaseMargin, SpendMargin, MaxErrors, MaxFaults} \subseteq Nat

\* The margin is chosen so that a spend broadcast before it is mined before the
\* refund matures.
ASSUME MarginAssumption == SpendMargin >= MineDelay

ASSUME SettingsAssumption ==
  /\ Altruistic \in (SUBSET BOOLEAN) \ {{}}
  /\ CanSendMercy \in BOOLEAN
  /\ RedeemAddressOwned \in BOOLEAN

Tx == {"a_lock", "spend", "refund", "refund_spend", "swipe", "mercy", "sweep",
       "b_lock", "b_lock_dup", "b_redeem", "b_recover"}

TxB == {"b_lock", "b_lock_dup", "b_redeem", "b_recover"}

Chain == [t \in Tx |-> IF t \in TxB THEN "B" ELSE "A"]

Parent == [t \in Tx |->
  CASE t \in {"a_lock", "b_lock", "b_lock_dup"} -> "wallet"
    [] t \in {"spend", "refund"}                -> "a_lock"
    [] t \in {"refund_spend", "swipe"}          -> "refund"
    [] t \in {"mercy", "sweep"}                 -> "swipe"
    [] OTHER                                    -> "b_lock"]

Csv == [t \in Tx |->
  CASE t = "refund"       -> Lock1
    [] t = "refund_spend" -> 1
    [] t = "swipe"        -> Lock2
    [] OTHER              -> 0]

\* Depths beyond these are never told apart by the code.
Cap == [t \in Tx |->
  CASE t = "a_lock" -> IF Lock1 > ConfA THEN Lock1 ELSE ConfA
    [] t = "refund" -> IF Lock2 > ConfA THEN Lock2 ELSE ConfA
    [] t = "swipe"  -> ConfA
    [] t = "b_lock" -> 1 + (IF Spendable > ConfB THEN Spendable ELSE ConfB)
    [] OTHER        -> 1]

Nodes == {"L", "F"}

BidStates ==
  {"NONE", "BID_ACCEPTED", "MSG_SCRIPT_LOCK_TX_SIGS",
   "HAVE_SCRIPT_COIN_SPEND_TX", "MSG_SCRIPT_LOCK_SPEND_TX",
   "SCRIPT_COIN_LOCKED", "NOSCRIPT_COIN_LOCKED", "LOCK_RELEASED",
   "SCRIPT_TX_REDEEMED", "SWAP_DELAYING", "NOSCRIPT_TX_REDEEMED",
   "SWAP_COMPLETED", "SCRIPT_TX_PREREFUND", "NOSCRIPT_TX_RECOVERED",
   "FAILED", "FAILED_REFUNDED", "FAILED_SWIPED",
   "FAILED_SWIPED_SENDING_MERCY", "FAILED_SWIPED_USING_MERCY",
   "FAILED_SWIPED_USED_MERCY", "FAILED_SWIPED_MERCY_UNUSED",
   "SWAP_TIMEDOUT", "BID_ERROR"}

\* The states checkXmrBidState removes from swaps_in_progress.
EndStates ==
  {"SWAP_COMPLETED", "FAILED_REFUNDED", "FAILED_SWIPED",
   "FAILED_SWIPED_USED_MERCY", "FAILED_SWIPED_MERCY_UNUSED"}

\* States in which an accepted bid that makes no progress is timed out.
CanTimeout ==
  {"BID_ACCEPTED", "MSG_SCRIPT_LOCK_TX_SIGS", "HAVE_SCRIPT_COIN_SPEND_TX",
   "MSG_SCRIPT_LOCK_SPEND_TX"}

ActionTypes ==
  {"SIGN_LOCK_TX_A", "SEND_LOCK_TX_A", "SEND_LOCK_SPEND_MSG",
   "SEND_LOCK_TX_B", "SEND_LOCK_RELEASE", "REDEEM_LOCK_TX_A",
   "REDEEM_LOCK_TX_B", "RECOVER_LOCK_TX_B", "SEND_MERCY_TX"}

\* Failures that are counted in the bid's event log.
ErrorKinds == {"FAILED_TX_B_LOCK_PUBLISH", "FAILED_TX_B_SPEND",
               "FAILED_TX_B_REFUND", "LOCK_TX_B_RPC_ERROR"}

\* What is_transient_error makes of an error.
Failures == {"transient", "lasting"}

Messages == {"TXN_SIGS_FL", "LOCK_SPEND_TX_LF", "LOCK_RELEASE_LF"}

WatchTypes == {"A_LOCK", "A_LOCK_REFUND", "MERCY"}

\* What a bid row records: its state, how far its two lock transactions are
\* known to be, which other transactions are on record, and in_progress.
\* The coin B lock is "Spent" from when its spend_txid is recorded, which nothing
\* resets; the code's tx state can still go back to TX_CONFIRMED after that.
Bids == [state : BidStates,
         a : {"None", "New", "Sent", "InChain"},
         b : {"None", "Sent", "InChain", "Confirmed", "Spent"},
         txns : SUBSET Tx,
         in_progress : BOOLEAN]

NoBid == [state |-> "NONE", a |-> "None", b |-> "None", txns |-> {},
          in_progress |-> FALSE]

VARIABLES
  conf, sent, \* the two networks, see Ledger
  msgs,     \* messages ever sent; delivery may fail or repeat
  db,       \* db[n]: the bid row and its transactions
  xmr_swap, \* xmr_swap[n]: signatures stored in the swap row
  actions,  \* actions[n]: queued actions (a table)
  delayed,  \* queued actions whose retry time has not come
  errs,     \* errs[n][k]: failures of kind k in n's event log
  mem,      \* mem[n]: swaps_in_progress, lost in a crash
  watch,    \* watch[n]: watched outputs, lost in a crash
  up,       \* up[n]: the engine of n runs
  waited,   \* waited[n]: A blocks since n recorded the swipe, -1 if it has not
  faults    \* faults so far

INSTANCE Ledger

vars == <<conf, sent, msgs, db, xmr_swap, actions, delayed, errs, mem, watch,
          up, waited, faults>>

TypeOK ==
  /\ conf \in [Tx -> Int]
  /\ sent \subseteq Tx
  /\ msgs \subseteq Messages
  /\ db \in [Nodes -> Bids]
  /\ xmr_swap \in [Nodes -> SUBSET {"esig", "spend_tx", "refund_spend_tx"}]
  /\ actions \in [Nodes -> SUBSET ActionTypes]
  /\ delayed \subseteq ActionTypes
  /\ errs \in [Nodes -> [ErrorKinds -> 0..MaxErrors]]
  /\ mem \in [Nodes -> Bids]
  /\ watch \in [Nodes -> SUBSET WatchTypes]
  /\ up \in [Nodes -> BOOLEAN]
  /\ waited \in [Nodes -> -1..MercyTimeout]
  /\ faults \in 0..MaxFaults

\* The bid has just been accepted: the leader funded the A lock transaction and
\* sent BID_ACCEPT, the follower verified it and queued its signatures.
Init ==
  /\ conf = [t \in Tx |-> 0]
  /\ sent = {}
  /\ msgs = {}
  /\ db = [n \in Nodes |-> [NoBid EXCEPT !.state = "BID_ACCEPTED"]]
  /\ xmr_swap = [n \in Nodes |-> {}]
  /\ actions = [n \in Nodes |-> IF n = "F" THEN {"SIGN_LOCK_TX_A"} ELSE {}]
  /\ delayed = {}
  /\ errs = [n \in Nodes |-> [k \in ErrorKinds |-> 0]]
  /\ mem = [n \in Nodes |-> NoBid]
  /\ watch = [n \in Nodes |-> {}]
  /\ up = [n \in Nodes |-> TRUE]
  /\ waited = [n \in Nodes |-> -1]
  /\ faults = 0

-----------------------------------------------------------------------------
\* Steps every handler is built from.

\* A daemon failure or a crash, of which a behaviour has at most MaxFaults.
Fault == faults < MaxFaults /\ faults' = faults + 1

\* A queued action of n whose time has come.
Due(n, act) == up[n] /\ act \in actions[n] /\ act \notin delayed

\* Mutant of SaveBid: save_in_progress is forgotten.
SaveBidRowOnly(n, b, done, more) ==
  /\ db' = [db EXCEPT ![n] = b]
  /\ mem' = [mem EXCEPT ![n] = IF @ = NoBid THEN b ELSE @]
  /\ actions' = [actions EXCEPT ![n] = (@ \ done) \union more]

\* saveBidInSession with save_in_progress, in one commit with the queue: the
\* row and the in-memory copy become b, the actions done leave the queue.
SaveBid(n, b, done, more) ==
  /\ db' = [db EXCEPT ![n] = b]
  /\ mem' = [mem EXCEPT ![n] = b]
  /\ actions' = [actions EXCEPT ![n] = (@ \ done) \union more]

\* The handler returns early and checkQueuedActions deletes its action.
Drop(n, act) ==
  /\ actions' = [actions EXCEPT ![n] = @ \ {act}]
  /\ UNCHANGED <<db, mem>>

\* An exception reaches checkQueuedActions: it sets BID_ERROR on a fresh copy
\* of the row, the in-memory copy keeps its state.
ActionError(n, act) ==
  /\ db' = [db EXCEPT ![n].state = "BID_ERROR"]
  /\ actions' = [actions EXCEPT ![n] = @ \ {act}]
  /\ UNCHANGED mem

\* The process is gone: everything that is not in the database is lost.
LoseMemory(n) ==
  /\ up' = [up EXCEPT ![n] = FALSE]
  /\ mem' = [mem EXCEPT ![n] = NoBid]
  /\ watch' = [watch EXCEPT ![n] = {}]

\* The process dies inside a handler after its outside effect and before the
\* commit of the session.
Die(n, act) ==
  /\ act \in PartialFailures
  /\ Fault
  /\ LoseMemory(n)
  /\ UNCHANGED <<db, actions>>

\* Mutant of Deactivate: the queued actions stay.
DeactivateKeepActions(n, b) ==
  /\ db' = [db EXCEPT ![n] = [b EXCEPT !.in_progress = FALSE]]
  /\ mem' = [mem EXCEPT ![n] = NoBid]
  /\ watch' = [watch EXCEPT ![n] = {}]
  /\ UNCHANGED actions

\* deactivateBid: b is final, nothing is watched or queued for it any more.
Deactivate(n, b) ==
  /\ db' = [db EXCEPT ![n] = [b EXCEPT !.in_progress = FALSE]]
  /\ mem' = [mem EXCEPT ![n] = NoBid]
  /\ watch' = [watch EXCEPT ![n] = {}]
  /\ actions' = [actions EXCEPT ![n] = {}]

\* Outputs watchXmrSwap watches for the bid b of n.
WatchSet(n, b) ==
  (IF b.a = "None" THEN {} ELSE {"A_LOCK"})
  \union {"A_LOCK_REFUND"}
  \union (IF /\ n = "L" /\ CanSendMercy
             /\ "swipe" \in b.txns
             /\ b.txns \intersect {"mercy", "refund_spend"} = {}
          THEN {"MERCY"} ELSE {})

\* Results findTxB can have: only a mined lock is seen, a spent one may not be.
FindTxB ==
  {r \in BOOLEAN :
     /\ r => conf["b_lock"] > 0
     /\ ~r => \/ conf["b_lock"] <= 0
              \/ conf["b_redeem"] > 0 \/ conf["b_recover"] > 0}

\* The bid after findTxB found the coin B lock transaction.
FoundB(b) == IF b.b \in {"None", "Sent"} THEN [b EXCEPT !.b = "InChain"] ELSE b

\* csvLockRemaining on the coin A lock, in blocks.
LockRemaining == Lock1 - conf["a_lock"]

\* Mutant: the margin is not looked at.
NeverTooClose == FALSE

\* Too late for the leader to release the lock, for the follower to spend it.
ReleaseTooClose == LockRemaining < ReleaseMargin
SpendTooClose == LockRemaining < SpendMargin

\* Mutant: a lock that was sent and not yet seen in the chain is overlooked.
LockNotSeen(b) == b.b \in {"None", "Sent"}

\* The follower has no coin B lock on record.
NothingLocked(b) == b.b = "None"

-----------------------------------------------------------------------------
\* Queued actions.  Each reads the bid from the database.

\* sendXmrBidTxnSigsFtoL: MSG3L.
SendTxnSigsFtoL ==
  LET b == [db["F"] EXCEPT !.state = "MSG_SCRIPT_LOCK_TX_SIGS",
                           !.a = IF @ = "None" THEN "New" ELSE @,
                           !.in_progress = TRUE]
  IN /\ Due("F", "SIGN_LOCK_TX_A")
     /\ msgs' = msgs \union {"TXN_SIGS_FL"}
     /\ \/ /\ SaveBid("F", b, {"SIGN_LOCK_TX_A"}, {})
           /\ watch' = [watch EXCEPT !["F"] = WatchSet("F", b)]
           /\ UNCHANGED <<up, faults>>
        \/ Die("F", "SIGN_LOCK_TX_A")
     /\ UNCHANGED <<conf, sent, xmr_swap, delayed, errs, waited>>

\* sendXmrBidCoinALockTx: the leader publishes the coin A lock.  Publishing a
\* transaction that is already in the chain raises.
SendCoinALockTx ==
  LET act == "SEND_LOCK_TX_A"
      b == [db["L"] EXCEPT !.state = "HAVE_SCRIPT_COIN_SPEND_TX",
                           !.a = "Sent",
                           !.in_progress = TRUE]
  IN /\ Due("L", act)
     /\ \/ /\ db["L"].state # "MSG_SCRIPT_LOCK_TX_SIGS"
           /\ Drop("L", act)
           /\ UNCHANGED <<conf, sent, watch, up, faults>>
        \/ /\ db["L"].state = "MSG_SCRIPT_LOCK_TX_SIGS"
           /\ Broadcast(IF db["L"].a = "Sent" THEN {} ELSE {"a_lock"})
           /\ \/ /\ SaveBid("L", b, {act}, {"SEND_LOCK_SPEND_MSG"})
                 /\ watch' = [watch EXCEPT !["L"] = WatchSet("L", b)]
                 /\ UNCHANGED <<up, faults>>
              \/ Die("L", act)
        \/ /\ db["L"].state = "MSG_SCRIPT_LOCK_TX_SIGS"
           /\ db["L"].a # "Sent" /\ Rejects("a_lock")
           /\ ActionError("L", act)
           /\ UNCHANGED <<conf, sent, watch, up, faults>>
     /\ UNCHANGED <<msgs, xmr_swap, delayed, errs, waited>>

\* sendXmrBidCoinALockSpendTxMsg: MSG4F.
SendCoinALockSpendTxMsg ==
  /\ Due("L", "SEND_LOCK_SPEND_MSG")
  /\ msgs' = msgs \union {"LOCK_SPEND_TX_LF"}
  /\ \/ /\ SaveBid("L", [db["L"] EXCEPT !.state = "MSG_SCRIPT_LOCK_SPEND_TX"],
                   {"SEND_LOCK_SPEND_MSG"}, {})
        /\ UNCHANGED <<watch, up, faults>>
     \/ Die("L", "SEND_LOCK_SPEND_MSG")
  /\ UNCHANGED <<conf, sent, xmr_swap, delayed, errs, waited>>

\* Mutant of RetryOrError: the number of retries is not limited.
RetryForever(n, act, k, failure) ==
  /\ errs' = [errs EXCEPT ![n][k] = @ + 1]
  /\ delayed' = delayed \union {act}
  /\ UNCHANGED <<db, mem, actions>>

\* A coin B transaction failed with a logged error of kind k: it is retried
\* later or, when the error is lasting or the retries are used up, the bid
\* goes to BID_ERROR.
RetryOrError(n, act, k, failure) ==
  LET retry == errs[n][k] < MaxErrors /\ failure = "transient"
  IN /\ errs' = [errs EXCEPT ![n][k] = IF @ < MaxErrors THEN @ + 1 ELSE @]
     /\ delayed' = IF retry THEN delayed \union {act} ELSE delayed
     /\ IF retry THEN UNCHANGED <<db, mem, actions>>
        ELSE SaveBid(n, [db[n] EXCEPT !.state = "BID_ERROR"], {act}, {})

\* What publishBLockTx sends: the wallet funds a new transaction every time.
NewLockTxB == IF conf["b_lock"] = 0 THEN "b_lock" ELSE "b_lock_dup"

\* Mutant: the lock is published and not recorded.
LockTxBUnrecorded(bid) == bid

\* The bid with the published coin B lock on record.
LockTxBSent(bid) == [bid EXCEPT !.b = "Sent"]

\* sendXmrBidCoinBLockTx: the follower locks coin B.  Neither the state of the
\* bid nor the coin A timelock is looked at.
SendCoinBLockTx ==
  LET act == "SEND_LOCK_TX_B"
      bid == db["F"]
  IN /\ Due("F", act)
     /\ \/ /\ TRUE \in FindTxB
           /\ SaveBid("F", FoundB(bid), {act}, {})
           /\ UNCHANGED <<conf, sent, delayed, errs, watch, up, faults>>
        \/ \* the log line of this return names a field SwapTx lacks
           /\ FALSE \in FindTxB /\ bid.b # "None"
           /\ ActionError("F", act)
           /\ UNCHANGED <<conf, sent, delayed, errs, watch, up, faults>>
        \/ /\ FALSE \in FindTxB /\ bid.b = "None"
           /\ Broadcast({NewLockTxB})
           /\ \/ /\ SaveBid("F", LockTxBSent(bid), {act}, {})
                 /\ UNCHANGED <<watch, up, faults>>
              \/ Die("F", act)
           /\ UNCHANGED <<delayed, errs>>
        \/ \* publishBLockTx fails, in some cases after the network got the tx
           /\ FALSE \in FindTxB /\ bid.b = "None"
           /\ Fault
           /\ \E T \in {{}} \union (IF "MISSED_SEND" \in PartialFailures
                               THEN {{NewLockTxB}} ELSE {}) : Broadcast(T)
           /\ \E failure \in Failures :
                RetryOrError("F", act, "FAILED_TX_B_LOCK_PUBLISH", failure)
           /\ UNCHANGED <<watch, up>>
     /\ UNCHANGED <<msgs, xmr_swap, waited>>

\* sendXmrBidLockRelease: MSG5F, unless the refund is out or its timelock is
\* too close.  An unknown lock height is a TemporaryError, the action stays.
SendLockRelease ==
  LET act == "SEND_LOCK_RELEASE"
  IN /\ Due("L", act)
     /\ \/ /\ "refund" \in db["L"].txns
           /\ Drop("L", act)
           /\ UNCHANGED <<msgs, watch, up, faults>>
        \/ /\ "refund" \notin db["L"].txns
           /\ db["L"].a = "InChain"
           /\ ReleaseTooClose
           /\ Drop("L", act)
           /\ UNCHANGED <<msgs, watch, up, faults>>
        \/ /\ "refund" \notin db["L"].txns
           /\ db["L"].a = "InChain"
           /\ ~ReleaseTooClose
           /\ msgs' = msgs \union {"LOCK_RELEASE_LF"}
           /\ \/ /\ SaveBid("L", [db["L"] EXCEPT !.state = "LOCK_RELEASED"],
                            {act}, {})
                 /\ UNCHANGED <<watch, up, faults>>
              \/ Die("L", act)
     /\ UNCHANGED <<conf, sent, xmr_swap, delayed, errs, waited>>

\* redeemXmrBidCoinALockTx: the follower publishes the A lock spend, and with
\* it its key share, only while the refund is far enough away.
RedeemCoinALockTx ==
  LET act == "REDEEM_LOCK_TX_A"
      open == /\ "refund" \notin db["F"].txns
              /\ "spend" \notin db["F"].txns
              /\ db["F"].a = "InChain"
  IN /\ Due("F", act)
     /\ \/ /\ db["F"].txns \intersect {"refund", "spend"} # {} \/ (open /\ SpendTooClose)
           /\ Drop("F", act)
           /\ UNCHANGED <<conf, sent, watch, up, faults>>
        \/ /\ open /\ ~SpendTooClose
           /\ "esig" \in xmr_swap["F"]
           /\ Broadcast({"spend"})
           /\ \/ /\ SaveBid("F", [db["F"] EXCEPT !.txns = @ \union {"spend"}],
                            {act}, {})
                 /\ UNCHANGED <<watch, up, faults>>
              \/ Die("F", act)
        \/ /\ open /\ ~SpendTooClose
           /\ "esig" \notin xmr_swap["F"] \/ Rejects("spend")
           /\ ActionError("F", act)
           /\ UNCHANGED <<conf, sent, watch, up, faults>>
     /\ UNCHANGED <<msgs, xmr_swap, delayed, errs, waited>>

\* spendBLockTx can be tried: the lock's height is known and deep enough.
BSpendable(n) ==
  /\ db[n].b \in {"InChain", "Confirmed", "Spent"}
  /\ conf["b_lock"] - 1 >= Spendable

\* redeemXmrBidCoinBLockTx: the leader takes coin B with the key share found
\* in the mercy transaction or in the coin A lock spend.
RedeemCoinBLockTx ==
  LET act == "REDEEM_LOCK_TX_B"
      bid == db["L"]
      key == "mercy" \in bid.txns \/ "spend_tx" \in xmr_swap["L"]
      mercy == bid.state = "FAILED_SWIPED_USING_MERCY"
      state == CASE mercy /\ RedeemAddressOwned  -> bid.state
                 [] mercy /\ ~RedeemAddressOwned -> "FAILED_SWIPED_USED_MERCY"
                 [] ~mercy /\ RedeemAddressOwned -> "NOSCRIPT_TX_REDEEMED"
                 [] OTHER                        -> "SWAP_COMPLETED"
  IN /\ Due("L", act)
     /\ \/ /\ bid.b = "Spent"
           /\ Drop("L", act)
           /\ UNCHANGED <<conf, sent, delayed, errs, watch, up, faults>>
        \/ /\ bid.b # "Spent" /\ ~BSpendable("L")
           /\ RetryOrError("L", act, "FAILED_TX_B_SPEND", "transient")
           /\ UNCHANGED <<conf, sent, watch, up, faults>>
        \/ /\ bid.b # "Spent" /\ BSpendable("L") /\ key
           /\ Accepts("b_redeem") /\ Broadcast({"b_redeem"})
           /\ \/ /\ SaveBid("L", [bid EXCEPT !.b = "Spent", !.state = state],
                            {act}, {})
                 /\ UNCHANGED <<watch, up, faults>>
              \/ Die("L", act)
           /\ UNCHANGED <<delayed, errs>>
        \/ /\ bid.b # "Spent" /\ BSpendable("L")
           /\ \/ ~key \/ ~Accepts("b_redeem")
              \/ faults < MaxFaults
           /\ faults' = IF key /\ Accepts("b_redeem") THEN faults + 1 ELSE faults
           /\ \E failure \in Failures :
                RetryOrError("L", act, "FAILED_TX_B_SPEND", failure)
           /\ UNCHANGED <<conf, sent, watch, up>>
     /\ UNCHANGED <<msgs, xmr_swap, waited>>

\* recoverXmrBidCoinBLockTx: the follower takes coin B back with the key share
\* found in the coin A refund spend.  A lock already spent is not noticed.  The
\* action is only queued once the signed refund spend is stored.
RecoverCoinBLockTx ==
  LET act == "RECOVER_LOCK_TX_B"
      bid == db["F"]
      key == "refund_spend_tx" \in xmr_swap["F"]
  IN /\ Due("F", act)
     /\ \/ /\ key /\ ~BSpendable("F")
           /\ RetryOrError("F", act, "FAILED_TX_B_REFUND", "transient")
           /\ UNCHANGED <<conf, sent, watch, up, faults>>
        \/ /\ key /\ BSpendable("F")
           /\ Accepts("b_recover") /\ Broadcast({"b_recover"})
           /\ \/ /\ SaveBid("F", [bid EXCEPT !.b = "Spent",
                                             !.state = "NOSCRIPT_TX_RECOVERED"],
                            {act}, {})
                 /\ UNCHANGED <<watch, up, faults>>
              \/ Die("F", act)
           /\ UNCHANGED <<delayed, errs>>
        \/ /\ key /\ BSpendable("F")
           /\ ~Accepts("b_recover") \/ faults < MaxFaults
           /\ faults' = IF Accepts("b_recover") THEN faults + 1 ELSE faults
           /\ \E failure \in Failures :
                RetryOrError("F", act, "FAILED_TX_B_REFUND", failure)
           /\ UNCHANGED <<conf, sent, watch, up>>
     /\ UNCHANGED <<msgs, xmr_swap, waited>>

\* _recoverSwipePayout: the transactions the follower publishes to take the
\* payout of its swipe for good.
SweepTxs(b) ==
  IF /\ CanSendMercy /\ "swipe" \in b.txns
     /\ conf["swipe"] > 0 /\ ~Rejects("sweep")
  THEN {"sweep"} ELSE {}

\* Mutant: a swipe that only waits in the pool counts.
SwipeSeen == conf["swipe"] # 0

\* The swipe is deep enough for the key share to go out.
SwipeDeep == conf["swipe"] >= ConfA

\* sendMercyTx: hands the follower's key share to a leader that was swiped,
\* once the swipe is deep enough.  Until then it is a TemporaryError.
SendMercyTx ==
  LET act == "SEND_MERCY_TX"
      bid == db["F"]
      open == bid.txns \intersect {"mercy", "sweep"} = {}
      T == SweepTxs(bid)
  IN /\ Due("F", act)
     /\ \/ /\ ~open
           /\ Drop("F", act)
           /\ UNCHANGED <<conf, sent, watch, up, faults>>
        \/ /\ open
           /\ FALSE \in Altruistic \/ ~CanSendMercy
           /\ Broadcast(T)
           /\ SaveBid("F", [bid EXCEPT !.state = "FAILED_SWIPED",
                                       !.txns = @ \union T], {act}, {})
           /\ UNCHANGED <<watch, up, faults>>
        \/ /\ open
           /\ TRUE \in Altruistic /\ CanSendMercy
           /\ SwipeDeep
           /\ Broadcast({"mercy"})
           /\ \/ /\ SaveBid("F",
                      [bid EXCEPT !.txns = @ \union {"mercy"},
                                  !.state =
                                    IF @ = "FAILED_SWIPED_SENDING_MERCY"
                                    THEN "FAILED_SWIPED" ELSE @], {act}, {})
                 /\ UNCHANGED <<watch, up, faults>>
              \/ Die("F", act)
     /\ UNCHANGED <<msgs, xmr_swap, delayed, errs, waited>>

-----------------------------------------------------------------------------
\* Messages.  A handler whose expected state does not hold ignores its message.

\* processXmrBidCoinALockSigs.  The action and the bid are two commits, and
\* swaps_in_progress is not touched.
ProcessCoinALockSigs ==
  /\ up["L"] /\ "TXN_SIGS_FL" \in msgs
  /\ db["L"].state = "BID_ACCEPTED"
  /\ actions' = [actions EXCEPT !["L"] = @ \union {"SEND_LOCK_TX_A"}]
  /\ \/ /\ db' = [db EXCEPT !["L"].state = "MSG_SCRIPT_LOCK_TX_SIGS"]
        /\ UNCHANGED <<mem, watch, up, faults>>
     \/ /\ "RECV_TXN_SIGS" \in PartialFailures
        /\ Fault /\ LoseMemory("L")
        /\ UNCHANGED db
  /\ UNCHANGED <<conf, sent, msgs, xmr_swap, delayed, errs, waited>>

\* processXmrBidLockSpendTx.
ProcessLockSpendTx ==
  /\ up["F"] /\ "LOCK_SPEND_TX_LF" \in msgs
  /\ db["F"].state = "MSG_SCRIPT_LOCK_TX_SIGS"
  /\ SaveBid("F", [db["F"] EXCEPT !.state = "MSG_SCRIPT_LOCK_SPEND_TX"], {}, {})
  /\ UNCHANGED <<conf, sent, msgs, xmr_swap, delayed, errs, watch, up, waited,
                 faults>>

\* processXmrLockReleaseMessage.  The action is queued in a commit of its own;
\* in BID_ERROR only the signature is kept.
ProcessLockRelease ==
  /\ up["F"] /\ "LOCK_RELEASE_LF" \in msgs
  /\ \/ /\ db["F"].state \in {"SCRIPT_COIN_LOCKED", "NOSCRIPT_COIN_LOCKED"}
        /\ \/ /\ SaveBid("F", [db["F"] EXCEPT !.state = "LOCK_RELEASED"],
                         {}, {"REDEEM_LOCK_TX_A"})
              /\ xmr_swap' = [xmr_swap EXCEPT !["F"] = @ \union {"esig"}]
              /\ UNCHANGED <<watch, up, faults>>
           \/ /\ "RECV_LOCK_RELEASE" \in PartialFailures
              /\ Fault /\ LoseMemory("F")
              /\ actions' = [actions EXCEPT !["F"] =
                                              @ \union {"REDEEM_LOCK_TX_A"}]
              /\ UNCHANGED <<db, xmr_swap>>
     \/ /\ db["F"].state = "BID_ERROR" /\ "esig" \notin xmr_swap["F"]
        /\ xmr_swap' = [xmr_swap EXCEPT !["F"] = @ \union {"esig"}]
        /\ mem' = [mem EXCEPT !["F"] = IF @ = NoBid THEN @ ELSE db["F"]]
        /\ UNCHANGED <<db, actions, watch, up, faults>>
  /\ UNCHANGED <<conf, sent, msgs, delayed, errs, waited>>

-----------------------------------------------------------------------------
\* Watched outputs.

\* Mutant: spends in the memory pool are reported too.
ReportedFromPool(t) == conf[t] # 0

\* checkForSpends reports that t spends a watched output: t is in a block.
Reported(t) == conf[t] > 0

\* The bid b of n after the spend of the coin A lock was seen.
SpendSeen(n, b) ==
  IF b.state = "LOCK_RELEASED"
  THEN [b EXCEPT !.state =
          IF n = "L" THEN "SCRIPT_TX_REDEEMED" ELSE "SWAP_COMPLETED"]
  ELSE b

\* The signed spend is kept only by a bid that waits for it.
KeepSpendTx(n, b) ==
  xmr_swap' = [xmr_swap EXCEPT ![n] =
                 IF b.state = "LOCK_RELEASED" THEN @ \union {"spend_tx"} ELSE @]

\* process_XMR_SWAP_A_LOCK_tx_spend, from a block.
ProcessALockSpend(n) ==
  /\ up[n] /\ "A_LOCK" \in watch[n]
  /\ \/ /\ Reported("spend")
        /\ SaveBid(n, SpendSeen(n, db[n]), {}, {})
        /\ KeepSpendTx(n, db[n])
     \/ /\ Reported("refund")
        /\ SaveBid(n, [db[n] EXCEPT !.state = "SCRIPT_TX_PREREFUND",
                                    !.txns = @ \union {"refund"}], {}, {})
        /\ UNCHANGED xmr_swap
  /\ watch' = [watch EXCEPT ![n] = @ \ {"A_LOCK"}]
  /\ UNCHANGED <<conf, sent, msgs, delayed, errs, up, waited, faults>>

\* process_XMR_SWAP_A_LOCK_REFUND_tx_spend.  Blocks are scanned in order, so
\* the spend of the lock itself was processed before.
ProcessALockRefundSpend(n) ==
  LET bid == db[n]
      swiped == [bid EXCEPT
        !.txns = @ \union {"swipe"},
        !.state = CASE n = "L" /\ CanSendMercy -> @
                    [] n = "F" /\ "SEND_MERCY_TX" \in actions[n] ->
                         "FAILED_SWIPED_SENDING_MERCY"
                    [] OTHER -> "FAILED_SWIPED"]
      refunded == [bid EXCEPT
        !.txns = IF n = "F" THEN @ \union {"refund_spend"} ELSE @,
        !.state = CASE n = "L" -> "FAILED_REFUNDED"
                    [] n = "F" /\ NothingLocked(bid) -> "FAILED"
                    [] OTHER -> @]
  IN /\ up[n] /\ "A_LOCK_REFUND" \in watch[n] /\ "A_LOCK" \notin watch[n]
     /\ \/ /\ Reported("refund_spend")
           /\ SaveBid(n, refunded, {},
                IF n = "F" /\ ~NothingLocked(bid) THEN {"RECOVER_LOCK_TX_B"} ELSE {})
           /\ xmr_swap' = [xmr_swap EXCEPT ![n] =
                IF n = "F" THEN @ \union {"refund_spend_tx"} ELSE @]
           /\ watch' = [watch EXCEPT ![n] = @ \ {"A_LOCK_REFUND"}]
           /\ UNCHANGED waited
        \/ /\ Reported("swipe")
           /\ SaveBid(n, swiped, {}, {})
           /\ watch' = [watch EXCEPT ![n] =
                (@ \ {"A_LOCK_REFUND"})
                \union (IF n = "L" /\ CanSendMercy THEN {"MERCY"} ELSE {})]
           /\ waited' = [waited EXCEPT ![n] =
                           IF "swipe" \in bid.txns THEN @ ELSE 0]
           /\ UNCHANGED xmr_swap
     /\ UNCHANGED <<conf, sent, msgs, delayed, errs, up, faults>>

\* process_MERCY_tx: the payout of the swipe was spent.  A spend without a key
\* share only ends the watch.  The bid and the action are two commits.  Blocks
\* are scanned in order, the spends before it were processed.
ProcessMercyTx ==
  LET bid == [mem["L"] EXCEPT
        !.txns = @ \union {"mercy"},
        !.state = IF mem["L"].b = "None" THEN "FAILED_SWIPED_MERCY_UNUSED"
                                  ELSE "FAILED_SWIPED_USING_MERCY"]
      redeem == IF bid.b = "None" THEN {} ELSE {"REDEEM_LOCK_TX_B"}
  IN /\ up["L"] /\ watch["L"] = {"MERCY"} /\ mem["L"] # NoBid
     /\ \/ /\ Reported("mercy")
           /\ SaveBid("L", bid, {}, redeem)
           /\ watch' = [watch EXCEPT !["L"] = @ \ {"MERCY"}]
           /\ UNCHANGED <<up, faults>>
        \/ /\ Reported("mercy")
           /\ "RECV_MERCY" \in PartialFailures
           /\ Fault /\ LoseMemory("L")
           /\ db' = [db EXCEPT !["L"] = bid]
           /\ UNCHANGED actions
        \/ /\ Reported("sweep")
           /\ watch' = [watch EXCEPT !["L"] = @ \ {"MERCY"}]
           /\ UNCHANGED <<db, mem, actions, up, faults>>
     /\ UNCHANGED <<conf, sent, msgs, xmr_swap, delayed, errs, waited>>

-----------------------------------------------------------------------------
\* checkXmrBidState, on the in-memory copy.  Its first part publishes the next
\* refund transaction; unless that ends the check, the second part depends on
\* the state of the bid.

\* Results of the first part: the bid, what was published and queued, whether
\* the bid was saved and whether the check returns here.
Unchanged(m) == [bid |-> m, txs |-> {}, acts |-> {}, saved |-> FALSE,
                 ret |-> FALSE]

Recorded(m, t, T) == [bid |-> [m EXCEPT !.txns = @ \union {t}], txs |-> T,
                      acts |-> {}, saved |-> TRUE, ret |-> FALSE]

\* Publish t for the bid m; a failure is logged and swallowed.
TryPublish(m, t) ==
  {o \in {Recorded(m, t, {t}), Unchanged(m)} :
     IF o.saved THEN Takes(t) ELSE Rejects(t)}

\* The refund is out: the leader spends it when it is deep enough, the follower
\* swipes it when the second timelock has passed.
RefundSpendPhase(n, m) ==
  CASE n = "L" /\ "refund_spend" \notin m.txns /\ conf["refund"] >= ConfA ->
         TryPublish(m, "refund_spend")
    [] n = "F" /\ "swipe" \notin m.txns /\ conf["refund"] >= Lock2 ->
         {[o EXCEPT !.acts = IF o.saved /\ alt /\ CanSendMercy
                             THEN {"SEND_MERCY_TX"} ELSE {}] :
            o \in TryPublish(m, "swipe"), alt \in Altruistic}
    [] OTHER -> {Unchanged(m)}

\* The refund is not out: publish it when the first timelock has passed.
RefundPublishPhase(m) ==
  IF m.a = "InChain" /\ conf["a_lock"] >= Lock1
  THEN {[Recorded(m, "refund", T) EXCEPT !.ret = TRUE] :
          T \in {T \in {{}, {"refund"}} :
                   IF T = {} THEN conf["refund"] > 0 ELSE Takes("refund")}}
       \union (IF Rejects("refund") /\ conf["refund"] <= 0
               THEN {Unchanged(m)} ELSE {})
  ELSE {Unchanged(m)}

RefundPhase(n, m) ==
  IF "refund" \in m.txns
  THEN {[o EXCEPT !.ret = o.bid.state = "NOSCRIPT_TX_RECOVERED"] :
          o \in RefundSpendPhase(n, m)}
  ELSE RefundPublishPhase(m)

\* The row as the first part left it.
Row(n, o) == IF o.saved THEN o.bid ELSE db[n]

\* The check ends with the in-memory copy b, saved or not.
CommitCheck(n, o, b, save, more) ==
  /\ mem' = [mem EXCEPT ![n] = b]
  /\ db' = [db EXCEPT ![n] = IF save THEN b ELSE Row(n, o)]
  /\ actions' = [actions EXCEPT ![n] = @ \union o.acts \union more]

\* The first part ended the check.
CheckReturned(n, o) ==
  /\ IF o.bid.state = "NOSCRIPT_TX_RECOVERED" /\ conf["b_recover"] > 0
     THEN Deactivate(n, [o.bid EXCEPT !.state = "FAILED_REFUNDED"])
     ELSE /\ CommitCheck(n, o, o.bid, FALSE, {})
          /\ UNCHANGED watch
  /\ UNCHANGED <<xmr_swap, errs, faults>>

\* Nothing is left to do for the bid: update() deactivates it.
CheckEnded(n, o) ==
  /\ \/ o.bid.state \in EndStates
     \/ o.bid.state = "FAILED" /\ NothingLocked(o.bid)
  /\ Deactivate(n, o.bid)
  /\ UNCHANGED <<xmr_swap, errs, faults>>

\* A failed swap with a coin B lock to recover.
CheckFailed(n, o) ==
  /\ o.bid.state = "FAILED" /\ ~NothingLocked(o.bid)
  /\ CommitCheck(n, o, o.bid, FALSE,
                 IF n = "F" THEN {"RECOVER_LOCK_TX_B"} ELSE {})
  /\ UNCHANGED <<xmr_swap, errs, watch, faults>>

\* Waiting for the coin A lock to be mined and confirmed.
CheckLockTxA(n, o) ==
  LET locked == conf["a_lock"] >= ConfA
      b == [o.bid EXCEPT !.a = "InChain",
                         !.state = IF locked THEN "SCRIPT_COIN_LOCKED" ELSE @]
      send == IF n = "F" /\ locked THEN {"SEND_LOCK_TX_B"} ELSE {}
  IN /\ o.bid.state = "MSG_SCRIPT_LOCK_SPEND_TX"
     /\ IF conf["a_lock"] > 0 THEN CommitCheck(n, o, b, TRUE, send)
        ELSE CommitCheck(n, o, o.bid, FALSE, {})
     /\ UNCHANGED <<xmr_swap, errs, watch, faults>>

\* Mutant: a confirmed coin B lock always moves the bid forward.
AlwaysForward(b) == TRUE

\* The swap can still complete.
CanGoForward(b) == "refund" \notin b.txns

\* Mutant: a mercy transaction is waited for without end.
NeverOverdue(n) == FALSE

\* n has waited long enough for a mercy transaction to be sent or seen.
MercyOverdue(n) == waited[n] >= MercyTimeout

\* The rest of the check for a coin B lock after findTxB left the bid b:
\* queue a lost send again, notice the confirmation, give up on mercy.
AfterFindTxB(n, o, b, save) ==
  LET state == o.bid.state
      resend == n = "F" /\ state = "SCRIPT_COIN_LOCKED" /\ b.b = "None"
      confirmed == b.b \in {"InChain", "Spent"} /\ conf["b_lock"] - 1 >= ConfB
      forward == confirmed /\ CanGoForward(b)
      b2 == [b EXCEPT !.b = IF confirmed /\ @ # "Spent" THEN "Confirmed" ELSE @,
                      !.state = IF forward THEN "NOSCRIPT_COIN_LOCKED" ELSE @]
      give_up == /\ n = "L" /\ state = "SCRIPT_TX_PREREFUND"
                 /\ "mercy" \notin b.txns
                 /\ MercyOverdue(n)
      b3 == IF give_up THEN [b2 EXCEPT !.state = "FAILED_SWIPED"] ELSE b2
  IN /\ CommitCheck(n, o, b3, save \/ give_up,
           (IF resend THEN {"SEND_LOCK_TX_B"} ELSE {})
           \union (IF n = "L" /\ forward THEN {"SEND_LOCK_RELEASE"} ELSE {}))
     /\ watch' = [watch EXCEPT ![n] = IF give_up THEN @ \ {"MERCY"} ELSE @]

\* Waiting for the coin B lock.  When only the confirmation is noticed the bid
\* is not saved; too many daemon errors set BID_ERROR.
CheckLockTxB(n, o) ==
  LET k == "LOCK_TX_B_RPC_ERROR"
      broken == errs[n][k] = MaxErrors
  IN /\ o.bid.state \in {"SCRIPT_COIN_LOCKED", "SCRIPT_TX_PREREFUND"}
     /\ \/ /\ \E found \in FindTxB :
                AfterFindTxB(n, o, IF found THEN FoundB(o.bid) ELSE o.bid, found)
           /\ UNCHANGED <<errs, faults>>
        \/ /\ Fault
           /\ errs' = [errs EXCEPT ![n][k] = IF broken THEN @ ELSE @ + 1]
           /\ AfterFindTxB(n, o, IF broken THEN [o.bid EXCEPT !.state = "BID_ERROR"]
                                 ELSE o.bid, broken)
     /\ UNCHANGED xmr_swap

\* The leader looks for the coin A lock spend in the memory pool.
CheckReleased(n, o) ==
  LET row == Row(n, o)
  IN /\ o.bid.state = "LOCK_RELEASED"
     /\ IF n = "L" /\ conf["spend"] < 0
        THEN /\ SaveBid(n, SpendSeen(n, row), {}, o.acts)
             /\ KeepSpendTx(n, row)
        ELSE /\ CommitCheck(n, o, o.bid, FALSE, {})
             /\ UNCHANGED xmr_swap
     /\ UNCHANGED <<errs, watch, faults>>

\* The leader goes for coin B.
CheckRedeemed(n, o) ==
  LET redeem == n = "L" /\ "REDEEM_LOCK_TX_B" \notin actions[n]
  IN /\ o.bid.state = "SCRIPT_TX_REDEEMED"
     /\ IF redeem
        THEN CommitCheck(n, o, [o.bid EXCEPT !.state = "SWAP_DELAYING"], TRUE,
                         {"REDEEM_LOCK_TX_B"})
        ELSE CommitCheck(n, o, o.bid, FALSE, {})
     /\ UNCHANGED <<xmr_swap, errs, watch, faults>>

\* The leader's spend of coin B has confirmed.
CheckRedeemB(n, o) ==
  LET mercy == o.bid.state = "FAILED_SWIPED_USING_MERCY"
      end == IF mercy THEN "FAILED_SWIPED_USED_MERCY" ELSE "SWAP_COMPLETED"
  IN /\ o.bid.state \in {"NOSCRIPT_TX_REDEEMED", "FAILED_SWIPED_USING_MERCY"}
     /\ IF o.bid.b = "Spent" /\ conf["b_redeem"] > 0
        THEN Deactivate(n, [o.bid EXCEPT !.state = end])
        ELSE CommitCheck(n, o, o.bid, FALSE, {}) /\ UNCHANGED watch
     /\ UNCHANGED <<xmr_swap, errs, faults>>

\* _checkMercySend: the follower has a mercy transaction to send.
CheckMercySend(n, o) ==
  LET give_up == "swipe" \notin o.bid.txns \/ MercyOverdue(n)
      T == IF give_up THEN SweepTxs(o.bid) ELSE {}
      b == [o.bid EXCEPT !.state = "FAILED_SWIPED", !.txns = @ \union T]
  IN /\ o.bid.state = "FAILED_SWIPED_SENDING_MERCY"
     /\ Broadcast(o.txs \union T)
     /\ IF give_up THEN SaveBid(n, b, {"SEND_MERCY_TX"}, {})
        ELSE CommitCheck(n, o, o.bid, FALSE, {"SEND_MERCY_TX"})
     /\ UNCHANGED <<xmr_swap, errs, watch, faults>>

\* States in which the second part waits for somebody else.
CheckIdle(n, o) ==
  /\ o.bid.state \in {"BID_ACCEPTED", "MSG_SCRIPT_LOCK_TX_SIGS",
       "HAVE_SCRIPT_COIN_SPEND_TX", "NOSCRIPT_COIN_LOCKED", "SWAP_DELAYING",
       "NOSCRIPT_TX_RECOVERED", "BID_ERROR"}
  /\ CommitCheck(n, o, o.bid, FALSE, {})
  /\ UNCHANGED <<xmr_swap, errs, watch, faults>>

CheckXmrBidState(n) ==
  /\ up[n] /\ mem[n] # NoBid
  /\ \E o \in RefundPhase(n, mem[n]) :
       /\ \/ o.ret /\ Broadcast(o.txs) /\ CheckReturned(n, o)
          \/ ~o.ret /\ CheckMercySend(n, o)
          \/ /\ ~o.ret /\ Broadcast(o.txs)
             /\ \/ CheckEnded(n, o)    \/ CheckFailed(n, o)
                \/ CheckLockTxA(n, o)  \/ CheckLockTxB(n, o)
                \/ CheckReleased(n, o) \/ CheckRedeemed(n, o)
                \/ CheckRedeemB(n, o)  \/ CheckIdle(n, o)
       /\ waited' = [waited EXCEPT ![n] =
            IF "swipe" \in o.bid.txns \ mem[n].txns THEN 0 ELSE @]
  /\ UNCHANGED <<msgs, delayed, up>>

-----------------------------------------------------------------------------
\* The environment of the handlers.

\* Mutant of TimeoutBid: the leader's lock is not looked at.
TimeoutAnyBid(n) ==
  /\ up[n] /\ db[n].state \in CanTimeout
  /\ Deactivate(n, [db[n] EXCEPT !.state = "SWAP_TIMEDOUT"])
  /\ UNCHANGED <<conf, sent, msgs, xmr_swap, delayed, errs, up, waited, faults>>

\* checkAcceptedBids: a bid that made no progress for too long is timed out,
\* never by a leader that has published its lock.
TimeoutBid(n) ==
  /\ up[n] /\ db[n].state \in CanTimeout
  /\ ~(n = "L" /\ db[n].a \in {"Sent", "InChain"})
  /\ Deactivate(n, [db[n] EXCEPT !.state = "SWAP_TIMEDOUT"])
  /\ UNCHANGED <<conf, sent, msgs, xmr_swap, delayed, errs, up, waited, faults>>

\* The engine stops between two handlers.
Crash(n) ==
  /\ up[n] /\ Fault /\ LoseMemory(n)
  /\ UNCHANGED <<conf, sent, msgs, db, xmr_swap, actions, delayed, errs, waited>>

\* Mutant of Restart: the outputs are not watched again.
RestartBlind(n) ==
  /\ ~up[n]
  /\ up' = [up EXCEPT ![n] = TRUE]
  /\ IF db[n].in_progress \/ db[n].state = "BID_ACCEPTED"
     THEN mem' = [mem EXCEPT ![n] = [db[n] EXCEPT !.in_progress = TRUE]]
     ELSE UNCHANGED mem
  /\ UNCHANGED <<conf, sent, msgs, db, xmr_swap, actions, delayed, errs, watch,
                 waited, faults>>

\* loadFromDB and activateBid: a bid in progress is loaded and its outputs are
\* watched again from the height where the swap began.
Restart(n) ==
  /\ ~up[n]
  /\ up' = [up EXCEPT ![n] = TRUE]
  /\ IF db[n].in_progress \/ db[n].state = "BID_ACCEPTED"
     THEN /\ mem' = [mem EXCEPT ![n] = [db[n] EXCEPT !.in_progress = TRUE]]
          /\ watch' = [watch EXCEPT ![n] = WatchSet(n, db[n])]
     ELSE UNCHANGED <<mem, watch>>
  /\ UNCHANGED <<conf, sent, msgs, db, xmr_swap, actions, delayed, errs, waited,
                 faults>>

\* A block of chain A.
NewBlockA ==
  /\ NewBlock("A")
  /\ waited' = [n \in Nodes |->
       IF waited[n] \in 0..(MercyTimeout - 1) THEN waited[n] + 1 ELSE waited[n]]
  /\ UNCHANGED <<msgs, db, xmr_swap, actions, delayed, errs, mem, watch, up,
                 faults>>

\* A block of chain B.  The retry delay is of the order of a block interval, so
\* by then the delayed actions are due again.
NewBlockB ==
  /\ NewBlock("B")
  /\ delayed' = {}
  /\ UNCHANGED <<msgs, db, xmr_swap, actions, errs, mem, watch, up, waited,
                 faults>>

\* Work an engine finds in a pass of its update loop.
LeaderActions ==
  \/ SendCoinALockTx \/ SendCoinALockSpendTxMsg \/ SendLockRelease
  \/ RedeemCoinBLockTx \/ ProcessMercyTx

FollowerActions ==
  \/ SendTxnSigsFtoL \/ SendCoinBLockTx \/ RedeemCoinALockTx
  \/ RecoverCoinBLockTx \/ SendMercyTx

Update(n) ==
  \/ n = "L" /\ LeaderActions
  \/ n = "F" /\ FollowerActions
  \/ CheckXmrBidState(n) \/ ProcessALockSpend(n) \/ ProcessALockRefundSpend(n)
  \/ TimeoutBid(n)

ReceiveMessage ==
  ProcessCoinALockSigs \/ ProcessLockSpendTx \/ ProcessLockRelease

Next ==
  \/ ReceiveMessage
  \/ \E n \in Nodes : Update(n) \/ Crash(n) \/ Restart(n)
  \/ NewBlockA \/ NewBlockB

Spec == Init /\ [][Next]_vars

\* A running engine that finds work does some of it, an engine that stopped is
\* started again, both networks find blocks.  Nothing makes a message arrive
\* and nothing makes one kind of work go before another.
Fairness ==
  /\ WF_vars(NewBlockA) /\ WF_vars(NewBlockB)
  /\ \A n \in Nodes : WF_vars(Update(n) \/ Restart(n))

FairSpec == Spec /\ Fairness

-----------------------------------------------------------------------------
\* Properties.

\* Transaction t is in a block.
Mined(t) == conf[t] > 0

\* The follower's spend of the coin A lock makes its key share public, so it is
\* broadcast only when the refund can no longer get in front of it: once the
\* spend is out the refund never reaches the pools or a block.  This is what
\* the margin checks of redeemXmrBidCoinALockTx and the maturity check of
\* checkXmrBidState achieve together.
SpendNeverRaced == "spend" \in sent => conf["refund"] = 0

\* A mercy transaction carries the follower's key share too: it is out only
\* when the swipe it spends from can no longer lose to the leader's refund
\* spend (sendMercyTx, "The keyshare must not go out while the swipe can still
\* be replaced").
MercyNeverRaced ==
  "mercy" \in sent => Mined("swipe") /\ conf["refund_spend"] = 0

\* Nobody takes both coins: a leader that got its coin A back has not spent
\* coin B, a follower that takes coin B back has got nothing of coin A.  Holds
\* for the transactions redeemXmrBidCoinBLockTx, recoverXmrBidCoinBLockTx and
\* checkXmrBidState publish between them.
NoDoubleWin ==
  /\ "b_redeem" \in sent => ~Mined("refund_spend")
  /\ "b_recover" \in sent => ~Mined("spend") /\ ~Mined("swipe")

\* The end state a bid is saved with (checkXmrBidState, the process_XMR_SWAP
\* handlers, checkAcceptedBids) tells what happened to the coins.
EndStatesTrue ==
  /\ db["L"].state = "SWAP_COMPLETED" => "b_redeem" \in sent
  /\ db["F"].state = "SWAP_COMPLETED" => Mined("spend")
  /\ db["L"].state = "FAILED_REFUNDED" => Mined("refund_spend")
  /\ db["F"].state = "FAILED_REFUNDED" => Mined("b_recover")
  /\ \A n \in Nodes : db[n].state = "FAILED_SWIPED" => Mined("swipe")
  /\ db["L"].state = "FAILED_SWIPED_USED_MERCY" =>
       Mined("mercy") /\ "b_redeem" \in sent
  /\ db["L"].state = "SWAP_TIMEDOUT" => "a_lock" \notin sent

\* While its coin A is locked and nobody's yet, the leader's engine follows the
\* bid: it is in progress in the database, so that a restart loads it again
\* (loadFromDB) and checkXmrBidState gets to publish the refunds.
LeaderTracksLock ==
  /\ Mined("a_lock") /\ "spend" \notin sent
  /\ ~Mined("refund_spend") /\ ~Mined("swipe")
  => db["L"].in_progress

\* While the follower's coin B waits to be recovered its engine follows the
\* bid: deactivateBid is not reached before recoverXmrBidCoinBLockTx.
FollowerTracksB ==
  Mined("b_lock") /\ Mined("refund_spend") /\ "b_recover" \notin sent
    => db["F"].in_progress

\* Coin B is locked once, however often SEND_XMR_SWAP_LOCK_TX_B is queued again
\* by checkXmrBidState or run again after a restart.
OneLockB == "b_lock_dup" \notin sent

\* The engines keep track of the coins they locked, through crashes, failing
\* daemons and rows written by several handlers: a locked coin is watched by its
\* owner's engine, and coin B is locked once.
TracksChain == LeaderTracksLock /\ FollowerTracksB /\ OneLockB

\* deactivateBid is final: no late message, queued action or spent output
\* changes the row of a bid that ended.
EndStatesFinal ==
  [][\A n \in Nodes :
       /\ db[n].state \in EndStates \union {"SWAP_TIMEDOUT"}
       /\ ~db[n].in_progress
       => db'[n] = db[n]]_vars

\* The states of a swap on its way to completion.
ForwardStates ==
  {"BID_ACCEPTED", "MSG_SCRIPT_LOCK_TX_SIGS", "HAVE_SCRIPT_COIN_SPEND_TX",
   "MSG_SCRIPT_LOCK_SPEND_TX", "SCRIPT_COIN_LOCKED", "NOSCRIPT_COIN_LOCKED",
   "LOCK_RELEASED", "SCRIPT_TX_REDEEMED", "SWAP_DELAYING"}

\* A bid that left the way to completion with the refund on record never gets
\* back onto it: a late confirmation of the coin B lock or a late release
\* message does not take the refund back (checkXmrBidState, "late chain b
\* confirmation must not take it back").
NoWayBack ==
  [][\A n \in Nodes :
       /\ "refund" \in db[n].txns
       /\ db[n].state \notin ForwardStates
       => db'[n].state \notin ForwardStates]_vars

\* What was recorded stays recorded: saving the in-memory copy of a bid does
\* not overwrite what a queued action or a watched output wrote to the row in
\* between (saveBidInSession from checkXmrBidState).
RecordsKept ==
  [][\A n \in Nodes :
       /\ db[n].txns \subseteq db'[n].txns
       /\ db[n].a = "InChain" => db'[n].a = "InChain"
       /\ db[n].b = "Spent" => db'[n].b = "Spent"]_vars

\* The rows of the bid only advance: an end is final, the way of refunds is not
\* left again, and no handler overwrites what another one recorded.
RowsOnlyAdvance == EndStatesFinal /\ NoWayBack /\ RecordsKept

\* The coins are where the outcome of the swap puts them.  A bid in BID_ERROR
\* is left to its user.
Settled ==
  \/ Mined("spend") /\ (Mined("b_redeem") \/ db["L"].state = "BID_ERROR")
  \/ /\ Mined("refund_spend")
     /\ \/ "b_lock" \notin sent \/ Mined("b_recover")
        \/ db["F"].state = "BID_ERROR"
  \/ /\ Mined("swipe")
     /\ db["L"].state = "FAILED_SWIPED_USED_MERCY" => Mined("b_redeem")

\* A swap whose coin A lock was mined settles for good, whatever messages are
\* lost: either both coins change hands, or the leader gets coin A back and the
\* follower coin B, or the follower swipes a leader that did not refund in
\* time.  This is the promise of checkXmrBidState and its queued actions.
SwapSettles == <>Mined("a_lock") => <>[]Settled

\* Every bid ends: update() stops following it, but for one in BID_ERROR.
SwapEnds ==
  <>[](\A n \in Nodes : db[n].in_progress => db[n].state = "BID_ERROR")

\* What a comment of redeemXmrBidCoinBLockTx says of a leader that was swiped
\* and got coin B by mercy: its bid does not end as a completed swap.
MercyNotCompleted == db["L"].state = "SWAP_COMPLETED" => "spend" \in sent

\* What a comment of checkXmrBidState says of a follower's bid that is dropped
\* in XMR_SWAP_FAILED without a chain B lock on record: none exists.
NothingLockedB ==
  (db["F"].state = "FAILED" /\ ~db["F"].in_progress) => "b_lock" \notin sent

-----------------------------------------------------------------------------
\* The swap implements AtomicSwap: the coins are where the mined transactions
\* put them.

CoinA ==
  IF Mined("spend")             THEN "taken"
  ELSE IF Mined("refund_spend") THEN "returned"
  ELSE IF Mined("swipe")        THEN "swiped"
  ELSE IF Mined("a_lock")       THEN "locked"
  ELSE "none"

CoinB ==
  IF Mined("b_redeem")       THEN "taken"
  ELSE IF Mined("b_recover") THEN "returned"
  ELSE IF Mined("b_lock")    THEN "locked"
  ELSE "none"

Swap == INSTANCE AtomicSwap WITH a <- CoinA, b <- CoinB

\* The engines of basicswap.py keep the promise of a swap: no interleaving of
\* their handlers with blocks, lost messages, crashes and failing daemons lets
\* coin B be locked before coin A is, changes an outcome, or gives one party
\* both coins.
ImplementsAtomicSwap == Swap!Spec
=============================================================================
