------------------------ MODULE AdaptorSwap_proofs ------------------------
(***************************************************************************)
(* Proofs about AdaptorSwap for every value of its constants, in three     *)
(* parts: who ends up with which coin, that the rows of a swap are true of *)
(* the coins, and that a swap implements AtomicSwap.                       *)
(*                                                                         *)
(* The inductive invariant Inv of the first part has two parts.  LedgerInv *)
(* speaks of the two networks only: which transactions exclude each other, *)
(* and which secrets were public before a coin B transaction was sent.     *)
(* RowsInv and SwapRowInv say that what an engine has on record (the spend *)
(* it took a key from, the mercy transaction, the mined lock) is true of   *)
(* the networks, so that the guards of the handlers give MayPublish.       *)
(***************************************************************************)
EXTENDS AdaptorSwap, TLAPS

-----------------------------------------------------------------------------
\* Facts about the transactions.

\* The parents and timelocks of the coin A transactions.
LEMMA TxFacts ==
  /\ Tx = {"a_lock", "spend", "refund", "refund_spend", "swipe", "mercy",
           "sweep", "b_lock", "b_lock_dup", "b_redeem", "b_recover"}
  /\ Parent["spend"] = "a_lock" /\ Parent["refund"] = "a_lock"
  /\ Parent["refund_spend"] = "refund" /\ Parent["swipe"] = "refund"
  /\ Parent["mercy"] = "swipe" /\ Parent["a_lock"] = "wallet"
  /\ Csv["refund"] = Lock1 /\ Csv["refund_spend"] = 1 /\ Csv["swipe"] = Lock2
  /\ \A t \in Tx : Cap[t] \in Nat \ {0}
  /\ \A t \in Tx \ {"spend", "refund"} : Parent[t] # "a_lock"
  /\ \A t \in Tx \ TxB : Chain[t] = "A"
  /\ TxB = {"b_lock", "b_lock_dup", "b_redeem", "b_recover"}
  BY TimesAssumption DEF Tx, TxB, Parent, Csv, Chain, Cap

\* Which of them spend the same output.
LEMMA ConflictFacts ==
  /\ Conflicts("spend", "refund") /\ Conflicts("refund", "spend")
  /\ Conflicts("swipe", "refund_spend") /\ Conflicts("refund_spend", "swipe")
  /\ \A u \in Tx : Conflicts("spend", u) => u = "refund"
  /\ \A u \in Tx : ~Conflicts("a_lock", u)
  BY TxFacts DEF Conflicts, Wallet

-----------------------------------------------------------------------------
\* The ledger part of the invariant.

\* The types of the ledger.
LedgerTypeOK == conf \in [Tx -> Int] /\ sent \subseteq Tx

\* Of two transactions that spend one output at most one is mined, and the
\* other is then out of the pools; a refund or a spend of it is accepted only
\* when its timelock has passed.
ExclusionInv ==
  /\ \A t \in Tx : conf[t] # 0 => t \in sent
  /\ conf["refund"] # 0 => conf["a_lock"] >= Lock1
  /\ conf["refund_spend"] # 0 => Mined("refund")
  /\ conf["swipe"] # 0 => Mined("refund")
  /\ Mined("swipe") => conf["refund_spend"] = 0
  /\ Mined("refund_spend") => conf["swipe"] = 0

\* A spend that waits in the pool is mined before the refund matures.
SpendWindow ==
  "spend" \in sent =>
     \/ Mined("spend")
     \/ /\ conf["spend"] < 0 /\ Mined("a_lock")
        /\ conf["a_lock"] - conf["spend"] <= Lock1

\* A coin B transaction was sent by somebody who had the other key share.
KeysInv ==
  /\ "b_redeem" \in sent => "spend" \in sent \/ "mercy" \in sent
  /\ "b_recover" \in sent => Mined("refund_spend")

\* What is true of the two networks at all times.
LedgerInv ==
  /\ LedgerTypeOK /\ ExclusionInv /\ SpendWindow /\ KeysInv
  /\ SpendNeverRaced /\ MercyNeverRaced

\* Nobody takes both coins, because of what excludes what.
LEMMA LedgerSafety == LedgerInv => NoDoubleWin
  BY TxFacts DEF LedgerInv, LedgerTypeOK, ExclusionInv, SpendWindow, KeysInv,
     SpendNeverRaced, MercyNeverRaced, NoDoubleWin, Mined

\* What must hold for the transactions T before an engine publishes them.
MayPublish(T) ==
  /\ T \subseteq Tx
  /\ "spend" \in T => Mined("a_lock") /\ ~SpendTooClose
  /\ "mercy" \in T => SwipeDeep
  /\ "b_redeem" \in T => "spend" \in sent \/ "mercy" \in sent
  /\ "b_recover" \in T => Mined("refund_spend")

\* Broadcasting leaves the depth of everything else alone.
LEMMA BroadcastConf ==
  ASSUME LedgerTypeOK, NEW T \in SUBSET Tx, Broadcast(T)
  PROVE  /\ LedgerTypeOK'
         /\ \A t \in Tx : conf[t] # 0 => conf'[t] = conf[t]
         /\ \A t \in Tx \ T : conf'[t] = conf[t]
         /\ \A t \in T : conf[t] = 0 => conf'[t] = -MineDelay
         /\ sent' = sent \union T
         /\ -MineDelay < 0
  BY TimesAssumption DEF Broadcast, LedgerTypeOK

\* A transaction the network takes satisfies the rules of its timelock.
LEMMA TakesFacts ==
  ASSUME LedgerTypeOK
  PROVE  /\ Takes("refund") => \/ conf["refund"] < 0
                               \/ conf["a_lock"] >= Lock1 /\ conf["spend"] <= 0
         /\ Takes("refund_spend") => \/ conf["refund_spend"] < 0
                                     \/ conf["refund"] >= 1 /\ conf["swipe"] <= 0
         /\ Takes("swipe") => \/ conf["swipe"] < 0
                              \/ conf["refund"] >= 1 /\ conf["refund_spend"] <= 0
  <1> USE TxFacts, ConflictFacts, TimesAssumption DEF LedgerTypeOK
  <1>1. \A t \in {"refund", "refund_spend", "swipe"} :
          Accepts(t) => conf[Parent[t]] >= Csv[t]
    BY DEF Accepts, Mature
  <1>2. \A t, u \in Tx : Accepts(t) /\ Conflicts(t, u) => conf[u] <= 0
    BY DEF Accepts, SpentByOther
  <1> QED BY <1>1, <1>2 DEF Takes

\* Publishing within the engine's guards keeps the ledger invariant.
LEMMA BroadcastLedger ==
  ASSUME LedgerInv, NEW T \in SUBSET Tx, MayPublish(T), Broadcast(T)
  PROVE  LedgerInv'
  <1> USE TxFacts, TimesAssumption, MarginAssumption
  <1>0. LedgerTypeOK BY DEF LedgerInv
  <1>1. /\ LedgerTypeOK'
        /\ \A t \in Tx : conf[t] # 0 => conf'[t] = conf[t]
        /\ \A t \in Tx \ T : conf'[t] = conf[t]
        /\ \A t \in T : conf[t] = 0 => conf'[t] = -MineDelay
        /\ sent' = sent \union T
        /\ -MineDelay < 0
    BY <1>0, BroadcastConf
  <1>2. \A t \in T : Takes(t)
    BY DEF Broadcast
  <1>3. ExclusionInv'
    BY <1>0, <1>1, <1>2, TakesFacts DEF LedgerInv, LedgerTypeOK, ExclusionInv, Mined
  <1>4. SpendWindow'
    BY <1>0, <1>1 DEF LedgerInv, LedgerTypeOK, ExclusionInv, SpendWindow, Mined,
                MayPublish, SpendTooClose, LockRemaining
  <1>5. SpendNeverRaced'
    BY <1>0, <1>1, <1>2, TakesFacts DEF LedgerInv, LedgerTypeOK, ExclusionInv,
       SpendWindow, SpendNeverRaced, Mined, MayPublish, SpendTooClose,
       LockRemaining
  <1>6. MercyNeverRaced'
    BY <1>0, <1>1, <1>2, TakesFacts DEF LedgerInv, LedgerTypeOK, ExclusionInv,
       MercyNeverRaced, Mined, MayPublish, SwipeDeep
  <1>7. KeysInv'
    BY <1>0, <1>1 DEF LedgerInv, LedgerTypeOK, KeysInv, Mined, MayPublish
  <1> QED BY <1>1, <1>3, <1>4, <1>5, <1>6, <1>7 DEF LedgerInv

\* What a block does to the depth of a transaction.
LEMMA NewBlockConf ==
  ASSUME LedgerTypeOK, NEW c, NewBlock(c)
  PROVE  /\ LedgerTypeOK' /\ sent' = sent
         /\ \A t \in Tx : /\ conf[t] = 0 => conf'[t] = 0
                          /\ conf[t] > 0 => conf'[t] \in {conf[t], conf[t] + 1}
                          /\ conf[t] < 0 => conf'[t] <= 1
  <1> USE TxFacts DEF LedgerTypeOK
  <1>1. PICK S \in SUBSET {t \in Tx : Chain[t] = c /\ Mineable(t)} :
          /\ conf' = [t \in Tx |-> IF Chain[t] = c THEN NextConf(t, S) ELSE conf[t]]
          /\ sent' = sent
    BY DEF NewBlock
  <1>2. \A t \in Tx : /\ NextConf(t, S) \in Int
                      /\ conf[t] = 0 => NextConf(t, S) = 0
                      /\ conf[t] > 0 => NextConf(t, S) \in {conf[t], conf[t] + 1}
                      /\ conf[t] < 0 => NextConf(t, S) <= 1
    <2> TAKE t \in Tx
    <2>1. conf[t] \in Int /\ Cap[t] \in Int /\ (t \in S => conf[t] < 0)
      BY <1>1 DEF Mineable
    <2>2. Mineable(t) => conf[t] < 0
      BY DEF Mineable
    <2> QED BY <2>1, <2>2 DEF NextConf
  <1> QED BY <1>1, <1>2

\* Mining a transaction evicts what conflicts with it, and the spend in the
\* pool comes one block closer.
LEMMA NewBlockPool ==
  ASSUME LedgerInv, NEW c, NewBlock(c)
  PROVE  /\ conf["swipe"] < 0 /\ conf["refund_spend"] < 0 =>
              ~(conf'["swipe"] > 0 /\ conf'["refund_spend"] # 0)
         /\ conf["swipe"] < 0 /\ conf["refund_spend"] < 0 =>
              ~(conf'["refund_spend"] > 0 /\ conf'["swipe"] # 0)
         /\ conf["spend"] < 0 /\ Mined("a_lock") /\ conf["refund"] = 0 =>
              \/ conf' ["spend"] = 1
              \/ conf'["spend"] < 0 /\ conf'["spend"] = conf["spend"] + 1
              \/ conf' ["spend"] = conf["spend"] /\ conf'["a_lock"] = conf["a_lock"]
  <1> USE TxFacts, ConflictFacts DEF LedgerInv, LedgerTypeOK
  <1>1. PICK S \in SUBSET {t \in Tx : Chain[t] = c /\ Mineable(t)} :
          /\ \A t, u \in S : ~Conflicts(t, u)
          /\ \A t \in Tx : (Chain[t] = c /\ Mineable(t) /\ conf[t] = -1) =>
                              (t \in S \/ Evicted(t, S))
          /\ conf' = [t \in Tx |-> IF Chain[t] = c THEN NextConf(t, S) ELSE conf[t]]
    BY DEF NewBlock
  <1>2. \A t \in S : conf[t] < 0
    BY <1>1 DEF Mineable
  <1>3. CASE c # "A"
    BY <1>1, <1>3
  <1>4. CASE c = "A"
    <2>1. \A t \in Tx \ TxB : conf'[t] = NextConf(t, S)
      BY <1>1, <1>4
    <2>2. \A t \in {"swipe", "refund_spend"} :
            (t \in S => \A u \in Tx : Conflicts(u, t) => Evicted(u, S))
      BY <1>1 DEF Evicted
    <2>3. \A t \in Tx \ TxB : conf[t] < 0 /\ conf'[t] > 0 => t \in S
      BY <1>1, <1>4, <2>1 DEF NextConf
    <2>4. \A t \in Tx : conf[t] < 0 /\ t \notin S /\ Evicted(t, S) => NextConf(t, S) = 0
      BY DEF NextConf
    <2>5. conf["refund"] = 0 => ~Evicted("spend", S)
      BY <1>2 DEF Evicted
    <2>6. conf["spend"] < 0 /\ Mined("a_lock") => Mineable("spend")
      BY DEF Mineable, Mined
    <2>7. conf["spend"] < 0 /\ Mined("a_lock") /\ conf["refund"] = 0 =>
              \/ conf'["spend"] = 1
              \/ conf'["spend"] < 0 /\ conf'["spend"] = conf["spend"] + 1
      BY <1>1, <1>4, <2>1, <2>5, <2>6 DEF NextConf
    <2> QED BY <1>1, <2>1, <2>2, <2>3, <2>4, <2>7
  <1> QED BY <1>3, <1>4

\* A block keeps the ledger invariant.
LEMMA NewBlockLedger ==
  ASSUME LedgerInv, NEW c, NewBlock(c)
  PROVE  LedgerInv'
  <1> USE TxFacts, TimesAssumption DEF LedgerTypeOK, Mined
  <1>1. /\ LedgerTypeOK /\ LedgerTypeOK' /\ sent' = sent
        /\ \A t \in Tx : /\ conf[t] = 0 => conf'[t] = 0
                         /\ conf[t] > 0 => conf'[t] \in {conf[t], conf[t] + 1}
                         /\ conf[t] < 0 => conf'[t] <= 1
    BY NewBlockConf DEF LedgerInv
  <1>2. ExclusionInv'
    BY <1>1, NewBlockPool DEF LedgerInv, ExclusionInv
  <1>3. SpendWindow'
    BY <1>1, NewBlockPool DEF LedgerInv, SpendWindow, SpendNeverRaced
  <1>4. SpendNeverRaced' /\ MercyNeverRaced' /\ KeysInv'
    BY <1>1 DEF LedgerInv, SpendNeverRaced, MercyNeverRaced, KeysInv
  <1> QED BY <1>1, <1>2, <1>3, <1>4 DEF LedgerInv
-----------------------------------------------------------------------------
\* The engine part of the invariant: types, and what the records imply.

\* What the bid b of node n says about networks with the depths c and the
\* broadcast transactions s.
Knows(n, b, c, s) ==
  /\ n = "L" /\ "mercy" \in b.txns => "mercy" \in s
  /\ n = "F" /\ b.a = "InChain" => c["a_lock"] > 0

\* The rows, their in-memory copies and the queues have their types, and what
\* the copies say is so.
RowsInv ==
  /\ db \in [Nodes -> Bids]
  /\ mem \in [Nodes -> Bids]
  /\ actions \in [Nodes -> SUBSET ActionTypes]
  /\ \A n \in Nodes : Knows(n, db[n], conf, sent) /\ Knows(n, mem[n], conf, sent)

\* The types of what an engine loses in a crash, and the fault counter.
EngineInv ==
  /\ watch \in [Nodes -> SUBSET WatchTypes]
  /\ up \in [Nodes -> BOOLEAN]
  /\ faults \in 0..MaxFaults

\* The transactions a key share was taken from are really out.
SwapRowInv ==
  /\ xmr_swap \in [Nodes -> SUBSET {"esig", "spend_tx", "refund_spend_tx"}]
  /\ "spend_tx" \in xmr_swap["L"] => "spend" \in sent
  /\ "refund_spend_tx" \in xmr_swap["F"] => Mined("refund_spend")

\* The types of the retry bookkeeping.
RetryInv ==
  /\ delayed \subseteq ActionTypes
  /\ errs \in [Nodes -> [ErrorKinds -> 0..MaxErrors]]

\* The types of the messages and of the mercy clocks.
OthersInv ==
  /\ msgs \subseteq Messages
  /\ waited \in [Nodes -> -1..MercyTimeout]

\* The inductive invariant.
Inv == LedgerInv /\ RowsInv /\ EngineInv /\ SwapRowInv /\ RetryInv /\ OthersInv

\* The invariant contains the type invariant and two of the properties.
LEMMA InvImplies == Inv => TypeOK /\ SpendNeverRaced /\ MercyNeverRaced
  BY DEF Inv, LedgerInv, LedgerTypeOK, RowsInv, EngineInv, SwapRowInv, RetryInv,
     OthersInv, TypeOK

\* What is public stays public and what is mined stays mined.
LedgerGrows ==
  /\ sent \subseteq sent'
  /\ \A t \in Tx : conf[t] > 0 => conf'[t] > 0

\* A step that touches neither network keeps the ledger invariant.
LEMMA LedgerStays ==
  ASSUME LedgerInv, UNCHANGED <<conf, sent>>
  PROVE  LedgerInv' /\ LedgerGrows
  BY DEF LedgerInv, LedgerTypeOK, ExclusionInv, SpendWindow, KeysInv, Mined,
     SpendNeverRaced, MercyNeverRaced, LedgerGrows

\* Publishing within the guards keeps the ledger invariant and takes nothing
\* back.
LEMMA Publishes ==
  ASSUME LedgerInv, NEW T \in SUBSET Tx, MayPublish(T), Broadcast(T)
  PROVE  LedgerInv' /\ LedgerGrows
  <1>1. LedgerGrows
    BY BroadcastConf DEF LedgerInv, LedgerTypeOK, LedgerGrows
  <1> QED BY <1>1, BroadcastLedger

\* A block keeps the ledger invariant and takes nothing back.
LEMMA BlockGrows ==
  ASSUME LedgerInv, NEW c, NewBlock(c)
  PROVE  LedgerInv' /\ LedgerGrows
  <1>1. LedgerGrows
    BY NewBlockConf DEF LedgerInv, LedgerTypeOK, LedgerGrows
  <1> QED BY <1>1, NewBlockLedger

\* What a bid says stays true while the networks only grow.
LEMMA KnowsMore ==
  ASSUME LedgerGrows, NEW n, NEW b, Knows(n, b, conf, sent)
  PROVE  Knows(n, b, conf', sent')
  BY TxFacts DEF LedgerGrows, Knows

\* A swap row that is not written stays true while the networks only grow.
LEMMA SwapRowStays ==
  ASSUME SwapRowInv, LedgerGrows, xmr_swap' = xmr_swap
  PROVE  SwapRowInv'
  BY TxFacts DEF SwapRowInv, LedgerGrows, Mined

\* Rows that are not written stay true while the networks only grow.
LEMMA RowsStay ==
  ASSUME RowsInv, LedgerGrows, UNCHANGED <<db, mem, actions>>
  PROVE  RowsInv'
  BY KnowsMore DEF RowsInv

\* The empty bid is a bid and claims nothing.
LEMMA NodeFacts ==
  /\ Nodes = {"L", "F"} /\ NoBid \in Bids
  /\ \A n, c, s : Knows(n, NoBid, c, s)
  BY DEF Nodes, NoBid, Bids, BidStates, Knows

\* What can be written to a field of a bid.
LEMMA BidFields ==
  ASSUME NEW b \in Bids
  PROVE  /\ b.state \in BidStates /\ b.txns \in SUBSET Tx
         /\ \A s \in BidStates : [b EXCEPT !.state = s] \in Bids
         /\ \A T \in SUBSET Tx : [b EXCEPT !.txns = T] \in Bids
         /\ \A p \in BOOLEAN : [b EXCEPT !.in_progress = p] \in Bids
         /\ \A x \in {"None", "New", "Sent", "InChain"} : [b EXCEPT !.a = x] \in Bids
         /\ \A x \in {"None", "Sent", "InChain", "Confirmed", "Spent"} :
              [b EXCEPT !.b = x] \in Bids
  BY DEF Bids

\* A bid that copies the A lock and the transactions of b knows what b knows.
LEMMA KnowsSame ==
  ASSUME NEW n, NEW b, NEW d, NEW c, NEW s, Knows(n, b, c, s),
         d.a = b.a, d.txns = b.txns
  PROVE  Knows(n, d, c, s)
  BY DEF Knows

-----------------------------------------------------------------------------
\* The common steps keep the invariant of the rows.

\* saveBidInSession with a bid that is true of the networks.
LEMMA SaveBidRows ==
  ASSUME RowsInv, LedgerGrows, NEW n \in Nodes, NEW b \in Bids,
         Knows(n, b, conf', sent'), NEW done, NEW more \in SUBSET ActionTypes,
         SaveBid(n, b, done, more)
  PROVE  RowsInv'
  BY KnowsMore DEF RowsInv, SaveBid

\* Dropping an action writes nothing to the rows.
LEMMA DropRows ==
  ASSUME RowsInv, LedgerGrows, NEW n \in Nodes, NEW act, Drop(n, act)
  PROVE  RowsInv'
  BY KnowsMore DEF RowsInv, Drop

\* BID_ERROR changes the state of the row only.
LEMMA ActionErrorRows ==
  ASSUME RowsInv, LedgerGrows, NEW n \in Nodes, NEW act, ActionError(n, act)
  PROVE  RowsInv'
  <1> DEFINE b == [db[n] EXCEPT !.state = "BID_ERROR"]
  <1>1. b \in Bids
    BY BidFields DEF RowsInv, BidStates
  <1>2. b.a = db[n].a /\ b.txns = db[n].txns
    BY DEF RowsInv, Bids
  <1>3. Knows(n, b, conf', sent')
    BY <1>2, KnowsSame, KnowsMore DEF RowsInv
  <1>4. db' = [db EXCEPT ![n] = b]
    BY DEF ActionError, RowsInv
  <1> QED BY <1>1, <1>3, <1>4, KnowsMore DEF RowsInv, ActionError

\* deactivateBid with a bid that is true of the networks.
LEMMA DeactivateRows ==
  ASSUME RowsInv, LedgerGrows, EngineInv, NEW n \in Nodes, NEW b \in Bids,
         Knows(n, b, conf', sent'), Deactivate(n, b)
  PROVE  RowsInv' /\ watch' \in [Nodes -> SUBSET WatchTypes]
  <1> DEFINE d == [b EXCEPT !.in_progress = FALSE]
  <1>1. d \in Bids
    BY BidFields
  <1>2. d.a = b.a /\ d.txns = b.txns
    BY DEF Bids
  <1>3. Knows(n, d, conf', sent')
    BY <1>2, KnowsSame
  <1>4. db' = [db EXCEPT ![n] = d]
    BY DEF Deactivate
  <1> QED BY <1>1, <1>3, <1>4, NodeFacts, KnowsMore
          DEF RowsInv, EngineInv, Deactivate

\* The fault counter stays within its bound.
LEMMA FaultType ==
  ASSUME faults \in 0..MaxFaults, Fault
  PROVE  faults' \in 0..MaxFaults
  BY TimesAssumption DEF Fault

\* Losing the memory leaves nothing that could be wrong.
LEMMA LoseMemoryRows ==
  ASSUME RowsInv, EngineInv, NEW n \in Nodes, LoseMemory(n), Fault, LedgerGrows,
         db' \in [Nodes -> Bids], actions' \in [Nodes -> SUBSET ActionTypes],
         \A m \in Nodes : Knows(m, db'[m], conf', sent')
  PROVE  RowsInv' /\ EngineInv'
  BY NodeFacts, FaultType, KnowsMore DEF RowsInv, EngineInv, LoseMemory

\* Dying inside a handler leaves the rows as they were.
LEMMA DieRows ==
  ASSUME RowsInv, EngineInv, NEW n \in Nodes, NEW act, Die(n, act), LedgerGrows
  PROVE  RowsInv' /\ EngineInv'
  BY LoseMemoryRows, KnowsMore DEF RowsInv, EngineInv, Die

\* A failed coin B transaction leaves the row or sets BID_ERROR, and counts at
\* most MaxErrors failures.
LEMMA RetryOrErrorRows ==
  ASSUME RowsInv, RetryInv, LedgerGrows, NEW n \in Nodes, NEW act \in ActionTypes,
         NEW k \in ErrorKinds, NEW failure \in Failures,
         RetryOrError(n, act, k, failure)
  PROVE  RowsInv' /\ RetryInv'
  <1> DEFINE b == [db[n] EXCEPT !.state = "BID_ERROR"]
  <1>1. errs' \in [Nodes -> [ErrorKinds -> 0..MaxErrors]]
    BY TimesAssumption DEF RetryOrError, RetryInv
  <1>2. delayed' \subseteq ActionTypes
    BY DEF RetryOrError, RetryInv
  <1>3. b \in Bids
    BY BidFields DEF RowsInv, BidStates
  <1>4. b.a = db[n].a /\ b.txns = db[n].txns
    BY DEF RowsInv, Bids
  <1>5. Knows(n, b, conf', sent')
    BY <1>4, KnowsSame, KnowsMore DEF RowsInv
  <1>6. UNCHANGED <<db, mem, actions>> \/ SaveBid(n, b, {act}, {})
    BY DEF RetryOrError
  <1>7. RowsInv'
    BY <1>3, <1>5, <1>6, SaveBidRows, RowsStay
  <1> QED BY <1>1, <1>2, <1>7 DEF RetryInv

\* The operators that compute a bid return one.
LEMMA HelperTypes ==
  ASSUME NEW n \in Nodes, NEW b \in Bids
  PROVE  /\ WatchSet(n, b) \in SUBSET WatchTypes
         /\ FoundB(b) \in Bids /\ SpendSeen(n, b) \in Bids
         /\ LockTxBSent(b) \in Bids
         /\ SweepTxs(b) \in SUBSET {"sweep"} /\ NewLockTxB \in {"b_lock", "b_lock_dup"}
         /\ \A d \in {FoundB(b), SpendSeen(n, b), LockTxBSent(b)} :
              d.a = b.a /\ d.txns = b.txns
  <1>1. WatchSet(n, b) \in SUBSET WatchTypes
    BY DEF WatchSet, WatchTypes
  <1>2. FoundB(b) \in Bids /\ LockTxBSent(b) \in Bids
    BY BidFields DEF FoundB, LockTxBSent
  <1>3. SpendSeen(n, b) \in Bids
    BY BidFields DEF SpendSeen, BidStates
  <1>4. SweepTxs(b) \in SUBSET {"sweep"} /\ NewLockTxB \in {"b_lock", "b_lock_dup"}
    BY DEF SweepTxs, NewLockTxB
  <1>5. \A d \in {FoundB(b), SpendSeen(n, b), LockTxBSent(b)} :
              d.a = b.a /\ d.txns = b.txns
    BY DEF Bids, FoundB, SpendSeen, LockTxBSent
  <1> QED BY <1>1, <1>2, <1>3, <1>4, <1>5

\* Saving a bid that differs from the row in neither the A lock nor the
\* transactions on record.
LEMMA SaveSameRows ==
  ASSUME RowsInv, LedgerGrows, NEW n \in Nodes, NEW b \in Bids,
         b.a = db[n].a, b.txns = db[n].txns,
         NEW done, NEW more \in SUBSET ActionTypes, SaveBid(n, b, done, more)
  PROVE  RowsInv'
  <1>1. Knows(n, b, conf', sent')
    BY KnowsSame, KnowsMore DEF RowsInv
  <1> QED BY <1>1, SaveBidRows

\* A handler that saves a bid and watches outputs, or dies before that.
LEMMA CommitOrDie ==
  ASSUME RowsInv, EngineInv, LedgerGrows, NEW n \in Nodes, NEW act,
         NEW b \in Bids, Knows(n, b, conf', sent'),
         NEW done, NEW more \in SUBSET ActionTypes,
         NEW W \in SUBSET WatchTypes,
         \/ /\ SaveBid(n, b, done, more)
            /\ UNCHANGED watch \/ watch' = [watch EXCEPT ![n] = W]
            /\ UNCHANGED <<up, faults>>
         \/ Die(n, act)
  PROVE  RowsInv' /\ EngineInv'
  <1>1. CASE Die(n, act)
    BY <1>1, DieRows
  <1>2. CASE /\ SaveBid(n, b, done, more)
             /\ UNCHANGED watch \/ watch' = [watch EXCEPT ![n] = W]
             /\ UNCHANGED <<up, faults>>
    <2>1. RowsInv'
      BY <1>2, SaveBidRows
    <2> QED BY <1>2, <2>1 DEF EngineInv
  <1> QED BY <1>1, <1>2

\* A handler that returns early, or raises, and leaves the networks alone.
LEMMA EarlyReturn ==
  ASSUME Inv, NEW n \in Nodes, NEW act,
         UNCHANGED <<conf, sent, xmr_swap, watch, up, faults>>,
         Drop(n, act) \/ ActionError(n, act)
  PROVE  LedgerInv' /\ RowsInv' /\ EngineInv' /\ SwapRowInv'
  <1>1. LedgerInv' /\ LedgerGrows
    BY LedgerStays DEF Inv
  <1>2. RowsInv'
    BY <1>1, DropRows, ActionErrorRows DEF Inv
  <1>3. SwapRowInv' /\ EngineInv'
    BY <1>1, SwapRowStays DEF Inv, EngineInv
  <1> QED BY <1>1, <1>2, <1>3

-----------------------------------------------------------------------------
\* The queued actions keep the invariant.

\* sendXmrBidTxnSigsFtoL publishes nothing but a message and claims nothing
\* new about the lock.
LEMMA SendTxnSigsFtoLInv == Inv /\ SendTxnSigsFtoL => Inv'
  <1> SUFFICES ASSUME Inv, SendTxnSigsFtoL PROVE Inv'
    OBVIOUS
  <1> DEFINE b == [db["F"] EXCEPT !.state = "MSG_SCRIPT_LOCK_TX_SIGS",
                                  !.a = IF @ = "None" THEN "New" ELSE @,
                                  !.in_progress = TRUE]
  <1>1. LedgerInv' /\ LedgerGrows
    BY LedgerStays DEF SendTxnSigsFtoL, Inv
  <1>2. b \in Bids /\ (b.a = "InChain" => db["F"].a = "InChain")
    BY NodeFacts, ZenonT(40) DEF Inv, RowsInv, Bids, BidStates
  <1>3. Knows("F", b, conf', sent')
    BY <1>1, <1>2, NodeFacts, KnowsMore DEF Inv, RowsInv, Knows
  <1>4. WatchSet("F", b) \in SUBSET WatchTypes
    BY <1>2, NodeFacts, HelperTypes
  <1>5. RowsInv' /\ EngineInv'
    BY <1>1, <1>2, <1>3, <1>4, NodeFacts, CommitOrDie DEF SendTxnSigsFtoL, Inv
  <1>6. SwapRowInv' /\ RetryInv'
    BY <1>1, SwapRowStays DEF SendTxnSigsFtoL, Inv, RetryInv
  <1>7. OthersInv'
    BY DEF SendTxnSigsFtoL, Inv, OthersInv, Messages
  <1> QED BY <1>1, <1>5, <1>6, <1>7 DEF Inv

\* sendXmrBidCoinALockTx publishes the coin A lock, which reveals nothing.
LEMMA SendCoinALockTxInv == Inv /\ SendCoinALockTx => Inv'
  <1> SUFFICES ASSUME Inv, SendCoinALockTx PROVE Inv'
    OBVIOUS
  <1> DEFINE act == "SEND_LOCK_TX_A"
             b == [db["L"] EXCEPT !.state = "HAVE_SCRIPT_COIN_SPEND_TX",
                                  !.a = "Sent", !.in_progress = TRUE]
             T == IF db["L"].a = "Sent" THEN {} ELSE {"a_lock"}
  <1>1. RetryInv' /\ OthersInv' /\ xmr_swap' = xmr_swap
    BY DEF SendCoinALockTx, Inv, RetryInv, OthersInv
  <1>2. CASE UNCHANGED <<conf, sent, watch, up, faults>>
             /\ (Drop("L", act) \/ ActionError("L", act))
    BY <1>1, <1>2, NodeFacts, EarlyReturn DEF Inv
  <1>3. CASE Broadcast(T) /\
             \/ /\ SaveBid("L", b, {act}, {"SEND_LOCK_SPEND_MSG"})
                /\ watch' = [watch EXCEPT !["L"] = WatchSet("L", b)]
                /\ UNCHANGED <<up, faults>>
             \/ Die("L", act)
    <2>1. T \in SUBSET Tx /\ MayPublish(T)
      BY TxFacts DEF MayPublish
    <2>2. LedgerInv' /\ LedgerGrows
      BY <1>3, <2>1, Publishes DEF Inv
    <2>3. b \in Bids /\ b.txns = db["L"].txns
      BY NodeFacts DEF Inv, RowsInv, Bids, BidStates
    <2>4. Knows("L", b, conf', sent')
      BY <2>2, <2>3, NodeFacts, KnowsMore DEF Inv, RowsInv, Knows
    <2>5. WatchSet("L", b) \in SUBSET WatchTypes
      BY <2>3, NodeFacts, HelperTypes
    <2>6. {"SEND_LOCK_SPEND_MSG"} \in SUBSET ActionTypes
      BY DEF ActionTypes
    <2>7. RowsInv' /\ EngineInv'
      BY <1>3, <2>2, <2>3, <2>4, <2>5, <2>6, NodeFacts, CommitOrDie DEF Inv
    <2>8. SwapRowInv'
      BY <1>1, <2>2, SwapRowStays DEF Inv
    <2> QED BY <1>1, <2>2, <2>7, <2>8 DEF Inv
  <1> QED BY <1>2, <1>3 DEF SendCoinALockTx

\* sendXmrBidCoinALockSpendTxMsg publishes nothing but a message.
LEMMA SendCoinALockSpendTxMsgInv == Inv /\ SendCoinALockSpendTxMsg => Inv'
  <1> SUFFICES ASSUME Inv, SendCoinALockSpendTxMsg PROVE Inv'
    OBVIOUS
  <1> DEFINE b == [db["L"] EXCEPT !.state = "MSG_SCRIPT_LOCK_SPEND_TX"]
  <1>1. LedgerInv' /\ LedgerGrows
    BY LedgerStays DEF SendCoinALockSpendTxMsg, Inv
  <1>2. b \in Bids /\ b.a = db["L"].a /\ b.txns = db["L"].txns
    BY NodeFacts DEF Inv, RowsInv, Bids, BidStates
  <1>3. Knows("L", b, conf', sent')
    BY <1>1, <1>2, NodeFacts, KnowsMore, KnowsSame DEF Inv, RowsInv
  <1>4. RowsInv' /\ EngineInv'
    BY <1>1, <1>2, <1>3, NodeFacts, CommitOrDie DEF SendCoinALockSpendTxMsg, Inv
  <1>5. SwapRowInv' /\ RetryInv'
    BY <1>1, SwapRowStays DEF SendCoinALockSpendTxMsg, Inv, RetryInv
  <1>6. OthersInv'
    BY DEF SendCoinALockSpendTxMsg, Inv, OthersInv, Messages
  <1> QED BY <1>1, <1>4, <1>5, <1>6 DEF Inv

\* sendXmrBidCoinBLockTx publishes the coin B lock, once or twice, which
\* reveals nothing.
LEMMA SendCoinBLockTxInv == Inv /\ SendCoinBLockTx => Inv'
  <1> SUFFICES ASSUME Inv, SendCoinBLockTx PROVE Inv'
    OBVIOUS
  <1> DEFINE act == "SEND_LOCK_TX_B"
             bid == db["F"]
  <1>0. bid \in Bids /\ Knows("F", bid, conf, sent)
    BY NodeFacts DEF Inv, RowsInv
  <1>1. /\ FoundB(bid) \in Bids /\ LockTxBSent(bid) \in Bids
        /\ FoundB(bid).a = bid.a /\ FoundB(bid).txns = bid.txns
        /\ LockTxBSent(bid).a = bid.a /\ LockTxBSent(bid).txns = bid.txns
        /\ {NewLockTxB} \in SUBSET Tx /\ MayPublish({NewLockTxB}) /\ MayPublish({})
    BY <1>0, NodeFacts, HelperTypes, TxFacts DEF MayPublish
  <1>2. OthersInv' /\ xmr_swap' = xmr_swap
    BY DEF SendCoinBLockTx, Inv, OthersInv
  <1>3. CASE /\ SaveBid("F", FoundB(bid), {act}, {})
             /\ UNCHANGED <<conf, sent, delayed, errs, watch, up, faults>>
    <2>1. LedgerInv' /\ LedgerGrows
      BY <1>3, LedgerStays DEF Inv
    <2>2. RowsInv'
      BY <1>1, <1>3, <2>1, NodeFacts, SaveSameRows DEF Inv
    <2> QED BY <1>2, <1>3, <2>1, <2>2, SwapRowStays DEF Inv, EngineInv, RetryInv
  <1>4. CASE /\ ActionError("F", act)
             /\ UNCHANGED <<conf, sent, delayed, errs, watch, up, faults>>
    BY <1>2, <1>4, NodeFacts, EarlyReturn DEF Inv, RetryInv
  <1>5. CASE /\ Broadcast({NewLockTxB})
             /\ \/ /\ SaveBid("F", LockTxBSent(bid), {act}, {})
                   /\ UNCHANGED <<watch, up, faults>>
                \/ Die("F", act)
             /\ UNCHANGED <<delayed, errs>>
    <2>1. LedgerInv' /\ LedgerGrows
      BY <1>1, <1>5, Publishes DEF Inv
    <2>2. Knows("F", LockTxBSent(bid), conf', sent')
      BY <1>0, <1>1, <2>1, KnowsMore, KnowsSame
    <2>3. RowsInv' /\ EngineInv'
      BY <1>1, <1>5, <2>1, <2>2, NodeFacts, CommitOrDie DEF Inv
    <2> QED BY <1>2, <1>5, <2>1, <2>3, SwapRowStays DEF Inv, RetryInv
  <1>6. CASE /\ Fault
             /\ \E T \in {{}} \union (IF "MISSED_SEND" \in PartialFailures
                               THEN {{NewLockTxB}} ELSE {}) : Broadcast(T)
             /\ \E failure \in Failures :
                  RetryOrError("F", act, "FAILED_TX_B_LOCK_PUBLISH", failure)
             /\ UNCHANGED <<watch, up>>
    <2>1. LedgerInv' /\ LedgerGrows
      BY <1>1, <1>6, Publishes DEF Inv
    <2>2. act \in ActionTypes /\ "FAILED_TX_B_LOCK_PUBLISH" \in ErrorKinds
      BY DEF ActionTypes, ErrorKinds
    <2>3. RowsInv' /\ RetryInv'
      BY <1>6, <2>1, <2>2, NodeFacts, RetryOrErrorRows DEF Inv
    <2>4. EngineInv'
      BY <1>6, FaultType DEF Inv, EngineInv
    <2> QED BY <1>2, <2>1, <2>3, <2>4, SwapRowStays DEF Inv
  <1> QED BY <1>3, <1>4, <1>5, <1>6 DEF SendCoinBLockTx

\* sendXmrBidLockRelease publishes nothing but a message.
LEMMA SendLockReleaseInv == Inv /\ SendLockRelease => Inv'
  <1> SUFFICES ASSUME Inv, SendLockRelease PROVE Inv'
    OBVIOUS
  <1> DEFINE act == "SEND_LOCK_RELEASE"
             b == [db["L"] EXCEPT !.state = "LOCK_RELEASED"]
  <1>1. LedgerInv' /\ LedgerGrows
    BY LedgerStays DEF SendLockRelease, Inv
  <1>2. b \in Bids /\ b.a = db["L"].a /\ b.txns = db["L"].txns
    BY NodeFacts DEF Inv, RowsInv, Bids, BidStates
  <1>3. Knows("L", b, conf', sent')
    BY <1>1, <1>2, NodeFacts, KnowsMore, KnowsSame DEF Inv, RowsInv
  <1>4. SwapRowInv' /\ RetryInv'
    BY <1>1, SwapRowStays DEF SendLockRelease, Inv, RetryInv
  <1>5. OthersInv'
    BY DEF SendLockRelease, Inv, OthersInv, Messages
  <1>6. CASE Drop("L", act) /\ UNCHANGED <<watch, up, faults>>
    <2>1. RowsInv' /\ EngineInv'
      BY <1>1, <1>6, NodeFacts, DropRows DEF Inv, EngineInv
    <2> QED BY <1>1, <1>4, <1>5, <2>1 DEF Inv
  <1>7. CASE \/ SaveBid("L", b, {act}, {}) /\ UNCHANGED <<watch, up, faults>>
             \/ Die("L", act)
    <2>1. RowsInv' /\ EngineInv'
      BY <1>1, <1>2, <1>3, <1>7, NodeFacts, CommitOrDie DEF Inv
    <2> QED BY <1>1, <1>4, <1>5, <2>1 DEF Inv
  <1> QED BY <1>6, <1>7 DEF SendLockRelease

\* redeemXmrBidCoinALockTx publishes the spend only within its margin: the lock
\* is in the chain on record, so it is mined.
LEMMA RedeemCoinALockTxInv == Inv /\ RedeemCoinALockTx => Inv'
  <1> SUFFICES ASSUME Inv, RedeemCoinALockTx PROVE Inv'
    OBVIOUS
  <1> DEFINE act == "REDEEM_LOCK_TX_A"
             b == [db["F"] EXCEPT !.txns = @ \union {"spend"}]
  <1>1. RetryInv' /\ OthersInv' /\ xmr_swap' = xmr_swap
    BY DEF RedeemCoinALockTx, Inv, RetryInv, OthersInv
  <1>2. CASE UNCHANGED <<conf, sent, watch, up, faults>>
             /\ (Drop("F", act) \/ ActionError("F", act))
    BY <1>1, <1>2, NodeFacts, EarlyReturn DEF Inv
  <1>3. CASE /\ db["F"].a = "InChain" /\ ~SpendTooClose
             /\ Broadcast({"spend"})
             /\ \/ SaveBid("F", b, {act}, {}) /\ UNCHANGED <<watch, up, faults>>
                \/ Die("F", act)
    <2>1. Mined("a_lock")
      BY <1>3, NodeFacts DEF Inv, RowsInv, Knows, Mined
    <2>2. {"spend"} \in SUBSET Tx /\ MayPublish({"spend"})
      BY <1>3, <2>1, TxFacts DEF MayPublish
    <2>3. LedgerInv' /\ LedgerGrows
      BY <1>3, <2>2, Publishes DEF Inv
    <2>4. b \in Bids /\ b.a = db["F"].a
      BY NodeFacts, TxFacts DEF Inv, RowsInv, Bids
    <2>5. Knows("F", b, conf', sent')
      BY <2>3, <2>4, NodeFacts, KnowsMore DEF Inv, RowsInv, Knows
    <2>6. RowsInv' /\ EngineInv'
      BY <1>3, <2>3, <2>4, <2>5, NodeFacts, CommitOrDie DEF Inv
    <2> QED BY <1>1, <2>3, <2>6, SwapRowStays DEF Inv
  <1> QED BY <1>2, <1>3 DEF RedeemCoinALockTx

\* A coin B spend: it is dropped, retried, given up, or published by somebody
\* who has the key.
LEMMA SpendBInv ==
  ASSUME Inv, NEW n \in Nodes, NEW act \in ActionTypes, NEW k \in ErrorKinds,
         NEW t \in {"b_redeem", "b_recover"}, MayPublish({t}),
         NEW s \in BidStates,
         UNCHANGED <<msgs, xmr_swap, waited>>,
         \/ /\ Drop(n, act)
            /\ UNCHANGED <<conf, sent, delayed, errs, watch, up, faults>>
         \/ /\ Broadcast({t})
            /\ \/ /\ SaveBid(n, [db[n] EXCEPT !.b = "Spent", !.state = s], {act}, {})
                  /\ UNCHANGED <<watch, up, faults>>
               \/ Die(n, act)
            /\ UNCHANGED <<delayed, errs>>
         \/ /\ \E failure \in Failures : RetryOrError(n, act, k, failure)
            /\ faults' \in 0..MaxFaults
            /\ UNCHANGED <<conf, sent, watch, up>>
  PROVE  Inv'
  <1> DEFINE b == [db[n] EXCEPT !.b = "Spent", !.state = s]
  <1>1. OthersInv'
    BY DEF Inv, OthersInv
  <1>2. CASE /\ Drop(n, act)
             /\ UNCHANGED <<conf, sent, delayed, errs, watch, up, faults>>
    BY <1>1, <1>2, EarlyReturn DEF Inv, RetryInv
  <1>3. CASE /\ Broadcast({t})
             /\ \/ SaveBid(n, b, {act}, {}) /\ UNCHANGED <<watch, up, faults>>
                \/ Die(n, act)
             /\ UNCHANGED <<delayed, errs>>
    <2>1. {t} \in SUBSET Tx
      BY TxFacts
    <2>2. LedgerInv' /\ LedgerGrows
      BY <1>3, <2>1, Publishes DEF Inv
    <2>3. b \in Bids /\ b.a = db[n].a /\ b.txns = db[n].txns
      BY ZenonT(40) DEF Inv, RowsInv, Bids
    <2>4. Knows(n, b, conf', sent')
      BY <2>2, <2>3, KnowsMore, KnowsSame DEF Inv, RowsInv
    <2>5. RowsInv' /\ EngineInv'
      BY <1>3, <2>2, <2>3, <2>4, CommitOrDie DEF Inv
    <2> QED BY <1>1, <1>3, <2>2, <2>5, SwapRowStays DEF Inv, RetryInv
  <1>4. CASE /\ \E failure \in Failures : RetryOrError(n, act, k, failure)
             /\ faults' \in 0..MaxFaults
             /\ UNCHANGED <<conf, sent, watch, up>>
    <2>1. LedgerInv' /\ LedgerGrows
      BY <1>4, LedgerStays DEF Inv
    <2>2. RowsInv' /\ RetryInv'
      BY <1>4, <2>1, RetryOrErrorRows DEF Inv
    <2>3. EngineInv'
      BY <1>4 DEF Inv, EngineInv
    <2> QED BY <1>1, <2>1, <2>2, <2>3, SwapRowStays DEF Inv
  <1> QED BY <1>2, <1>3, <1>4

\* redeemXmrBidCoinBLockTx publishes only with a key from a transaction that is
\* out.
LEMMA RedeemCoinBLockTxInv == Inv /\ RedeemCoinBLockTx => Inv'
  <1> SUFFICES ASSUME Inv, RedeemCoinBLockTx PROVE Inv'
    OBVIOUS
  <1> DEFINE act == "REDEEM_LOCK_TX_B"
             k == "FAILED_TX_B_SPEND"
             bid == db["L"]
             key == "mercy" \in bid.txns \/ "spend_tx" \in xmr_swap["L"]
             mercy == bid.state = "FAILED_SWIPED_USING_MERCY"
             state == CASE mercy /\ RedeemAddressOwned  -> bid.state
                        [] mercy /\ ~RedeemAddressOwned -> "FAILED_SWIPED_USED_MERCY"
                        [] ~mercy /\ RedeemAddressOwned -> "NOSCRIPT_TX_REDEEMED"
                        [] OTHER                        -> "SWAP_COMPLETED"
  <1>1. state \in BidStates
    BY NodeFacts, BidFields DEF Inv, RowsInv, BidStates
  <1>2. act \in ActionTypes /\ k \in ErrorKinds
    BY DEF ActionTypes, ErrorKinds
  <1>3. UNCHANGED <<msgs, xmr_swap, waited>>
    BY DEF RedeemCoinBLockTx
  <1>4. key => "spend" \in sent \/ "mercy" \in sent
    BY NodeFacts DEF Inv, RowsInv, Knows, SwapRowInv
  <1>5. key => MayPublish({"b_redeem"})
    BY <1>4, TxFacts DEF MayPublish
  <1>6. faults \in 0..MaxFaults /\ MaxFaults \in Nat
    BY TimesAssumption DEF Inv, EngineInv
  <1>7. CASE /\ Drop("L", act)
             /\ UNCHANGED <<conf, sent, delayed, errs, watch, up, faults>>
    BY <1>3, <1>7, NodeFacts, EarlyReturn DEF Inv, RetryInv, OthersInv
  <1>8. CASE /\ key /\ Broadcast({"b_redeem"})
             /\ \/ /\ SaveBid("L", [bid EXCEPT !.b = "Spent", !.state = state],
                              {act}, {})
                   /\ UNCHANGED <<watch, up, faults>>
                \/ Die("L", act)
             /\ UNCHANGED <<delayed, errs>>
    <2> HIDE DEF state
    <2> QED BY <1>1, <1>2, <1>3, <1>5, <1>8, NodeFacts, SpendBInv
  <1>9. CASE /\ \E failure \in Failures : RetryOrError("L", act, k, failure)
             /\ faults' \in 0..MaxFaults
             /\ UNCHANGED <<conf, sent, watch, up>>
    <2>1. LedgerInv' /\ LedgerGrows
      BY <1>9, LedgerStays DEF Inv
    <2>2. RowsInv' /\ RetryInv'
      BY <1>2, <1>9, <2>1, NodeFacts, RetryOrErrorRows DEF Inv
    <2>3. EngineInv' /\ OthersInv'
      BY <1>3, <1>9 DEF Inv, EngineInv, OthersInv
    <2> QED BY <1>3, <2>1, <2>2, <2>3, SwapRowStays DEF Inv
  <1>10. RetryOrError("L", act, k, "transient") =>
           \E failure \in Failures : RetryOrError("L", act, k, failure)
    BY DEF Failures
  <1>11. faults' = faults \/ (faults < MaxFaults /\ faults' = faults + 1)
           => faults' \in 0..MaxFaults
    BY <1>6
  <1> QED BY <1>6, <1>7, <1>8, <1>9, <1>10, <1>11, SMTT(30) DEF RedeemCoinBLockTx

\* recoverXmrBidCoinBLockTx publishes only with a key from the refund spend,
\* which was stored when it was mined.
LEMMA RecoverCoinBLockTxInv == Inv /\ RecoverCoinBLockTx => Inv'
  <1> SUFFICES ASSUME Inv, RecoverCoinBLockTx PROVE Inv'
    OBVIOUS
  <1> DEFINE act == "RECOVER_LOCK_TX_B"
             k == "FAILED_TX_B_REFUND"
             s == "NOSCRIPT_TX_RECOVERED"
  <1>1. s \in BidStates /\ act \in ActionTypes /\ k \in ErrorKinds
    BY DEF BidStates, ActionTypes, ErrorKinds
  <1>2. UNCHANGED <<msgs, xmr_swap, waited>>
    BY DEF RecoverCoinBLockTx
  <1>3. Mined("refund_spend")
    BY DEF RecoverCoinBLockTx, Inv, SwapRowInv
  <1>4. MayPublish({"b_recover"})
    BY <1>3, TxFacts DEF MayPublish
  <1>5. faults \in 0..MaxFaults /\ MaxFaults \in Nat
    BY TimesAssumption DEF Inv, EngineInv
  <1>6. \/ /\ Broadcast({"b_recover"})
           /\ \/ /\ SaveBid("F", [db["F"] EXCEPT !.b = "Spent", !.state = s],
                            {act}, {})
                 /\ UNCHANGED <<watch, up, faults>>
              \/ Die("F", act)
           /\ UNCHANGED <<delayed, errs>>
        \/ /\ \E failure \in Failures : RetryOrError("F", act, k, failure)
           /\ faults' \in 0..MaxFaults
           /\ UNCHANGED <<conf, sent, watch, up>>
    <2>1. RetryOrError("F", act, k, "transient") =>
            \E failure \in Failures : RetryOrError("F", act, k, failure)
      BY DEF Failures
    <2>2. faults' = faults \/ (faults < MaxFaults /\ faults' = faults + 1)
            => faults' \in 0..MaxFaults
      BY <1>5
    <2> QED BY <1>5, <2>1, <2>2, SMTT(30) DEF RecoverCoinBLockTx
  <1> QED BY <1>1, <1>2, <1>4, <1>6, NodeFacts, SpendBInv

\* sendMercyTx publishes the key share only when the swipe is deep.
LEMMA SendMercyTxInv == Inv /\ SendMercyTx => Inv'
  <1> SUFFICES ASSUME Inv, SendMercyTx PROVE Inv'
    OBVIOUS
  <1> DEFINE act == "SEND_MERCY_TX"
             bid == db["F"]
             T == SweepTxs(bid)
             b1 == [bid EXCEPT !.state = "FAILED_SWIPED", !.txns = @ \union T]
             b2 == [bid EXCEPT !.txns = @ \union {"mercy"},
                               !.state = IF @ = "FAILED_SWIPED_SENDING_MERCY"
                                         THEN "FAILED_SWIPED" ELSE @]
  <1>0. bid \in Bids /\ Knows("F", bid, conf, sent)
    BY NodeFacts DEF Inv, RowsInv
  <1>1. RetryInv' /\ OthersInv' /\ xmr_swap' = xmr_swap
    BY DEF SendMercyTx, Inv, RetryInv, OthersInv
  <1>2. CASE Drop("F", act) /\ UNCHANGED <<conf, sent, watch, up, faults>>
    BY <1>1, <1>2, NodeFacts, EarlyReturn DEF Inv
  <1>3. CASE /\ Broadcast(T)
             /\ SaveBid("F", b1, {act}, {}) /\ UNCHANGED <<watch, up, faults>>
    <2>1. T \in SUBSET Tx /\ T \in SUBSET {"sweep"}
      BY <1>0, NodeFacts, HelperTypes, TxFacts
    <2>2. MayPublish(T)
      BY <2>1 DEF MayPublish
    <2>3. LedgerInv' /\ LedgerGrows
      BY <1>3, <2>1, <2>2, Publishes DEF Inv
    <2>4. b1 \in Bids /\ b1.a = bid.a
      BY <1>0, <2>1 DEF Bids, BidStates
    <2>5. Knows("F", b1, conf', sent')
      BY <1>0, <2>3, <2>4, KnowsMore DEF Knows
    <2>6. RowsInv'
      BY <1>3, <2>3, <2>4, <2>5, NodeFacts, SaveBidRows DEF Inv
    <2> QED BY <1>1, <1>3, <2>3, <2>6, SwapRowStays DEF Inv, EngineInv
  <1>4. CASE /\ SwipeDeep /\ Broadcast({"mercy"})
             /\ \/ SaveBid("F", b2, {act}, {}) /\ UNCHANGED <<watch, up, faults>>
                \/ Die("F", act)
    <2>1. {"mercy"} \in SUBSET Tx /\ MayPublish({"mercy"})
      BY <1>4, TxFacts DEF MayPublish
    <2>2. LedgerInv' /\ LedgerGrows
      BY <1>4, <2>1, Publishes DEF Inv
    <2>3. b2 \in Bids /\ b2.a = bid.a
      BY <1>0, <2>1 DEF Bids, BidStates
    <2>4. Knows("F", b2, conf', sent')
      BY <1>0, <2>2, <2>3, KnowsMore DEF Knows
    <2>5. RowsInv' /\ EngineInv'
      BY <1>4, <2>2, <2>3, <2>4, NodeFacts, CommitOrDie DEF Inv
    <2> QED BY <1>1, <2>2, <2>5, SwapRowStays DEF Inv
  <1> QED BY <1>2, <1>3, <1>4 DEF SendMercyTx

-----------------------------------------------------------------------------
\* The message handlers keep the invariant.

\* processXmrBidCoinALockSigs changes the state of the row and the queue.
LEMMA ProcessCoinALockSigsInv == Inv /\ ProcessCoinALockSigs => Inv'
  <1> SUFFICES ASSUME Inv, ProcessCoinALockSigs PROVE Inv'
    OBVIOUS
  <1> DEFINE b == [db["L"] EXCEPT !.state = "MSG_SCRIPT_LOCK_TX_SIGS"]
  <1>1. LedgerInv' /\ LedgerGrows
    BY LedgerStays DEF ProcessCoinALockSigs, Inv
  <1>2. actions' \in [Nodes -> SUBSET ActionTypes]
    BY DEF ProcessCoinALockSigs, Inv, RowsInv, ActionTypes
  <1>3. b \in Bids /\ b.a = db["L"].a /\ b.txns = db["L"].txns
    BY NodeFacts DEF Inv, RowsInv, Bids, BidStates
  <1>4. Knows("L", b, conf', sent')
    BY <1>1, <1>3, NodeFacts, KnowsMore, KnowsSame DEF Inv, RowsInv
  <1>5. SwapRowInv' /\ RetryInv' /\ OthersInv'
    BY <1>1, SwapRowStays DEF ProcessCoinALockSigs, Inv, RetryInv, OthersInv
  <1>6. CASE db' = [db EXCEPT !["L"] = b] /\ UNCHANGED <<mem, watch, up, faults>>
    <2>1. RowsInv'
      BY <1>1, <1>2, <1>3, <1>4, <1>6, KnowsMore DEF Inv, RowsInv
    <2>2. EngineInv'
      BY <1>6 DEF Inv, EngineInv
    <2> QED BY <1>1, <1>5, <2>1, <2>2 DEF Inv
  <1>7. CASE Fault /\ LoseMemory("L") /\ UNCHANGED db
    <2>1. RowsInv' /\ EngineInv'
      BY <1>1, <1>2, <1>7, NodeFacts, KnowsMore, LoseMemoryRows DEF Inv, RowsInv
    <2> QED BY <1>1, <1>5, <2>1 DEF Inv
  <1> QED BY <1>6, <1>7 DEF ProcessCoinALockSigs

\* processXmrBidLockSpendTx changes the state of the bid.
LEMMA ProcessLockSpendTxInv == Inv /\ ProcessLockSpendTx => Inv'
  <1> SUFFICES ASSUME Inv, ProcessLockSpendTx PROVE Inv'
    OBVIOUS
  <1> DEFINE b == [db["F"] EXCEPT !.state = "MSG_SCRIPT_LOCK_SPEND_TX"]
  <1>1. LedgerInv' /\ LedgerGrows
    BY LedgerStays DEF ProcessLockSpendTx, Inv
  <1>2. b \in Bids /\ b.a = db["F"].a /\ b.txns = db["F"].txns
    BY NodeFacts DEF Inv, RowsInv, Bids, BidStates
  <1>3. RowsInv'
    <2>1. SaveBid("F", b, {}, {})
      BY DEF ProcessLockSpendTx
    <2> HIDE DEF b
    <2> QED BY <1>1, <1>2, <2>1, NodeFacts, SaveSameRows DEF Inv
  <1>4. SwapRowInv' /\ RetryInv' /\ OthersInv' /\ EngineInv'
    BY <1>1, SwapRowStays
       DEF ProcessLockSpendTx, Inv, RetryInv, OthersInv, EngineInv
  <1> QED BY <1>1, <1>3, <1>4 DEF Inv

\* A signature added to the swap row reveals nothing about the networks.
LEMMA EsigStored ==
  ASSUME SwapRowInv, LedgerGrows,
         \/ UNCHANGED xmr_swap
         \/ xmr_swap' = [xmr_swap EXCEPT !["F"] = @ \union {"esig"}]
  PROVE  SwapRowInv'
  BY TxFacts, NodeFacts DEF SwapRowInv, LedgerGrows, Mined

\* processXmrLockReleaseMessage stores the signature and queues the spend.
LEMMA ProcessLockReleaseInv == Inv /\ ProcessLockRelease => Inv'
  <1> SUFFICES ASSUME Inv, ProcessLockRelease PROVE Inv'
    OBVIOUS
  <1> DEFINE b == [db["F"] EXCEPT !.state = "LOCK_RELEASED"]
  <1>1. LedgerInv' /\ LedgerGrows
    BY LedgerStays DEF ProcessLockRelease, Inv
  <1>2. b \in Bids /\ b.a = db["F"].a /\ b.txns = db["F"].txns
    BY NodeFacts DEF Inv, RowsInv, Bids, BidStates
  <1>3. {"REDEEM_LOCK_TX_A"} \in SUBSET ActionTypes
    BY DEF ActionTypes
  <1>4. SwapRowInv'
    BY <1>1, EsigStored DEF ProcessLockRelease, Inv
  <1>5. RetryInv' /\ OthersInv'
    BY DEF ProcessLockRelease, Inv, RetryInv, OthersInv
  <1>6. CASE /\ SaveBid("F", b, {}, {"REDEEM_LOCK_TX_A"})
             /\ UNCHANGED <<watch, up, faults>>
    <2>1. RowsInv'
      BY <1>1, <1>2, <1>3, <1>6, NodeFacts, SaveSameRows DEF Inv
    <2>2. EngineInv'
      BY <1>6 DEF Inv, EngineInv
    <2> QED BY <1>1, <1>4, <1>5, <2>1, <2>2 DEF Inv
  <1>7. CASE /\ Fault /\ LoseMemory("F") /\ UNCHANGED db
             /\ actions' = [actions EXCEPT !["F"] = @ \union {"REDEEM_LOCK_TX_A"}]
    <2>1. actions' \in [Nodes -> SUBSET ActionTypes]
      BY <1>3, <1>7 DEF Inv, RowsInv
    <2>2. RowsInv' /\ EngineInv'
      BY <1>1, <1>7, <2>1, NodeFacts, KnowsMore, LoseMemoryRows DEF Inv, RowsInv
    <2> QED BY <1>1, <1>4, <1>5, <2>2 DEF Inv
  <1>8. CASE /\ mem' = [mem EXCEPT !["F"] = IF @ = NoBid THEN @ ELSE db["F"]]
             /\ UNCHANGED <<db, actions, watch, up, faults>>
    <2>1. RowsInv'
      BY <1>1, <1>8, NodeFacts, KnowsMore DEF Inv, RowsInv
    <2>2. EngineInv'
      BY <1>8 DEF Inv, EngineInv
    <2> QED BY <1>1, <1>4, <1>5, <2>1, <2>2 DEF Inv
  <1> QED BY <1>6, <1>7, <1>8 DEF ProcessLockRelease

-----------------------------------------------------------------------------
\* The handlers of watched outputs keep the invariant.

\* Storing the signed coin A lock spend, when it is out.
LEMMA KeepSpendTxRow ==
  ASSUME SwapRowInv, LedgerGrows, NEW n \in Nodes, NEW b, "spend" \in sent',
         KeepSpendTx(n, b)
  PROVE  SwapRowInv'
  BY TxFacts, NodeFacts DEF SwapRowInv, LedgerGrows, Mined, KeepSpendTx

\* process_XMR_SWAP_A_LOCK_tx_spend stores a spend that is in a block.
LEMMA ProcessALockSpendInv ==
  ASSUME Inv, NEW n \in Nodes, ProcessALockSpend(n)
  PROVE  Inv'
  <1> DEFINE b == [db[n] EXCEPT !.state = "SCRIPT_TX_PREREFUND",
                                !.txns = @ \union {"refund"}]
             W == watch[n] \ {"A_LOCK"}
  <1>1. LedgerInv' /\ LedgerGrows
    BY LedgerStays DEF ProcessALockSpend, Inv
  <1>2. RetryInv' /\ OthersInv'
    BY DEF ProcessALockSpend, Inv, RetryInv, OthersInv
  <1>3. EngineInv'
    BY DEF ProcessALockSpend, Inv, EngineInv
  <1>4. db[n] \in Bids /\ Knows(n, db[n], conf, sent)
    BY DEF Inv, RowsInv
  <1>5. CASE /\ Reported("spend")
             /\ SaveBid(n, SpendSeen(n, db[n]), {}, {})
             /\ KeepSpendTx(n, db[n])
    <2>1. "spend" \in sent'
      BY <1>1, <1>5, TxFacts
         DEF Inv, LedgerInv, LedgerTypeOK, ExclusionInv, Reported, LedgerGrows
    <2>2. SwapRowInv'
      BY <1>1, <1>5, <2>1, KeepSpendTxRow DEF Inv
    <2>3. RowsInv'
      BY <1>1, <1>4, <1>5, HelperTypes, SaveSameRows DEF Inv
    <2> QED BY <1>1, <1>2, <1>3, <2>2, <2>3 DEF Inv
  <1>6. CASE SaveBid(n, b, {}, {}) /\ UNCHANGED xmr_swap
    <2>1. b \in Bids /\ b.a = db[n].a
      BY <1>4, TxFacts DEF Bids, BidStates
    <2>2. b.txns = db[n].txns \union {"refund"}
      BY <1>4 DEF Bids
    <2>3. Knows(n, b, conf', sent')
      BY <1>1, <1>4, <2>1, <2>2, KnowsMore DEF Knows
    <2>4. RowsInv'
      BY <1>1, <1>6, <2>1, <2>3, SaveBidRows DEF Inv
    <2> QED BY <1>1, <1>2, <1>3, <1>6, <2>4, SwapRowStays DEF Inv
  <1> QED BY <1>5, <1>6 DEF ProcessALockSpend

\* process_XMR_SWAP_A_LOCK_REFUND_tx_spend stores a refund spend that is in a
\* block.
LEMMA ProcessALockRefundSpendInv ==
  ASSUME Inv, NEW n \in Nodes, ProcessALockRefundSpend(n)
  PROVE  Inv'
  <1> DEFINE bid == db[n]
             swiped == [bid EXCEPT
               !.txns = @ \union {"swipe"},
               !.state = CASE n = "L" /\ CanSendMercy -> @
                           [] n = "F" /\ "SEND_MERCY_TX" \in actions[n] ->
                                "FAILED_SWIPED_SENDING_MERCY"
                           [] OTHER -> "FAILED_SWIPED"]
             refunded == [bid EXCEPT
               !.txns = IF n = "F" THEN @ \union {"refund_spend"} ELSE @,
               !.state = CASE n = "L" -> "FAILED_REFUNDED"
                           [] n = "F" /\ NothingLocked(bid) -> "FAILED"
                           [] OTHER -> @]
             recover == IF n = "F" /\ ~NothingLocked(bid)
                        THEN {"RECOVER_LOCK_TX_B"} ELSE {}
  <1>1. LedgerInv' /\ LedgerGrows
    BY LedgerStays DEF ProcessALockRefundSpend, Inv
  <1>2. bid \in Bids /\ Knows(n, bid, conf', sent')
    BY <1>1, KnowsMore DEF Inv, RowsInv
  <1>3. RetryInv' /\ msgs' = msgs
    BY DEF ProcessALockRefundSpend, Inv, RetryInv
  <1>4. EngineInv'
    BY DEF ProcessALockRefundSpend, Inv, EngineInv, WatchTypes
  <1>5. OthersInv'
    BY <1>3, TimesAssumption DEF ProcessALockRefundSpend, Inv, OthersInv
  <1>6. CASE /\ Reported("refund_spend")
             /\ SaveBid(n, refunded, {}, recover)
             /\ xmr_swap' = [xmr_swap EXCEPT ![n] =
                  IF n = "F" THEN @ \union {"refund_spend_tx"} ELSE @]
    <2>1. refunded \in Bids /\ refunded.a = bid.a
          /\ ("mercy" \in refunded.txns => "mercy" \in bid.txns)
      BY <1>2, TxFacts DEF Bids, BidStates
    <2>2. Knows(n, refunded, conf', sent')
      BY <1>2, <2>1 DEF Knows
    <2>3. recover \in SUBSET ActionTypes
      BY DEF ActionTypes
    <2>4. RowsInv'
      BY <1>1, <1>6, <2>1, <2>2, <2>3, SaveBidRows DEF Inv
    <2>5. SwapRowInv'
      BY <1>1, <1>6, TxFacts, NodeFacts
         DEF Inv, SwapRowInv, Reported, LedgerGrows, Mined
    <2> QED BY <1>1, <1>3, <1>4, <1>5, <2>4, <2>5 DEF Inv
  <1>7. CASE SaveBid(n, swiped, {}, {}) /\ UNCHANGED xmr_swap
    <2>1. swiped \in Bids /\ swiped.a = bid.a
          /\ ("mercy" \in swiped.txns => "mercy" \in bid.txns)
      BY <1>2, TxFacts DEF Bids, BidStates
    <2>2. Knows(n, swiped, conf', sent')
      BY <1>2, <2>1 DEF Knows
    <2>3. RowsInv'
      BY <1>1, <1>7, <2>1, <2>2, SaveBidRows DEF Inv
    <2> QED BY <1>1, <1>3, <1>4, <1>5, <1>7, <2>3, SwapRowStays DEF Inv
  <1> QED BY <1>6, <1>7 DEF ProcessALockRefundSpend

\* process_MERCY_tx records a mercy transaction that is in a block.
LEMMA ProcessMercyTxInv == Inv /\ ProcessMercyTx => Inv'
  <1> SUFFICES ASSUME Inv, ProcessMercyTx PROVE Inv'
    OBVIOUS
  <1> DEFINE m == mem["L"]
             bid == [m EXCEPT
               !.txns = @ \union {"mercy"},
               !.state = IF mem["L"].b = "None" THEN "FAILED_SWIPED_MERCY_UNUSED"
                                 ELSE "FAILED_SWIPED_USING_MERCY"]
             redeem == IF bid.b = "None" THEN {} ELSE {"REDEEM_LOCK_TX_B"}
  <1>1. LedgerInv' /\ LedgerGrows
    BY LedgerStays DEF ProcessMercyTx, Inv
  <1>2. m \in Bids
    BY NodeFacts DEF Inv, RowsInv
  <1>3. bid \in Bids /\ redeem \in SUBSET ActionTypes
    BY <1>2, TxFacts DEF Bids, BidStates, ActionTypes
  <1>4. SwapRowInv' /\ RetryInv' /\ OthersInv'
    BY <1>1, SwapRowStays DEF ProcessMercyTx, Inv, RetryInv, OthersInv
  <1>5. Reported("mercy") => "mercy" \in sent'
    BY <1>1, TxFacts
       DEF Inv, LedgerInv, LedgerTypeOK, ExclusionInv, Reported, LedgerGrows
  <1>6. Reported("mercy") => Knows("L", bid, conf', sent')
    BY <1>5 DEF Knows
  <1>7. CASE /\ Reported("mercy") /\ SaveBid("L", bid, {}, redeem)
             /\ watch' = [watch EXCEPT !["L"] = @ \ {"MERCY"}]
             /\ UNCHANGED <<up, faults>>
    <2>1. RowsInv'
      BY <1>1, <1>3, <1>6, <1>7, NodeFacts, SaveBidRows DEF Inv
    <2>2. EngineInv'
      BY <1>7 DEF Inv, EngineInv
    <2> QED BY <1>1, <1>4, <2>1, <2>2 DEF Inv
  <1>8. CASE /\ Reported("mercy") /\ Fault /\ LoseMemory("L")
             /\ db' = [db EXCEPT !["L"] = bid] /\ UNCHANGED actions
    <2> HIDE DEF bid
    <2>1. /\ db' \in [Nodes -> Bids]
          /\ actions' \in [Nodes -> SUBSET ActionTypes]
          /\ \A p \in Nodes : Knows(p, db'[p], conf', sent')
      BY <1>1, <1>3, <1>6, <1>8, NodeFacts, KnowsMore DEF Inv, RowsInv
    <2>2. RowsInv' /\ EngineInv'
      BY <1>1, <1>8, <2>1, NodeFacts, LoseMemoryRows DEF Inv
    <2> QED BY <1>1, <1>4, <2>2 DEF Inv
  <1>9. CASE /\ watch' = [watch EXCEPT !["L"] = @ \ {"MERCY"}]
             /\ UNCHANGED <<db, mem, actions, up, faults>>
    <2>1. RowsInv' /\ EngineInv'
      BY <1>1, <1>9, RowsStay DEF Inv, EngineInv
    <2> QED BY <1>1, <1>4, <2>1 DEF Inv
  <1> QED BY <1>7, <1>8, <1>9 DEF ProcessMercyTx

-----------------------------------------------------------------------------
\* checkXmrBidState keeps the invariant.

\* An outcome of the first part for the bid m: it may have recorded and
\* published a refund transaction, and nothing else.
OutcomeOK(m, o) ==
  /\ o.bid \in Bids /\ o.bid.a = m.a
  /\ "mercy" \in o.bid.txns => "mercy" \in m.txns
  /\ o.txs \in SUBSET {"refund", "refund_spend", "swipe"}
  /\ o.acts \in SUBSET ActionTypes

\* The two ways of making an outcome are sound.
LEMMA OutcomeFacts ==
  ASSUME NEW m \in Bids
  PROVE  /\ OutcomeOK(m, Unchanged(m))
         /\ \A t \in {"refund", "refund_spend", "swipe"} :
              \A T \in SUBSET {t} : OutcomeOK(m, Recorded(m, t, T))
  <1>1. OutcomeOK(m, Unchanged(m))
    BY DEF OutcomeOK, Unchanged
  <1>2. \A t \in {"refund", "refund_spend", "swipe"} : \A T \in SUBSET {t} :
          OutcomeOK(m, Recorded(m, t, T))
    <2> TAKE t \in {"refund", "refund_spend", "swipe"}
    <2> TAKE T \in SUBSET {t}
    <2>1. /\ [m EXCEPT !.txns = @ \union {t}] \in Bids
          /\ [m EXCEPT !.txns = @ \union {t}].a = m.a
          /\ [m EXCEPT !.txns = @ \union {t}].txns = m.txns \union {t}
      BY TxFacts DEF Bids
    <2> QED BY <2>1 DEF OutcomeOK, Recorded
  <1> QED BY <1>1, <1>2

\* Every outcome of the first part is sound.
LEMMA RefundPhaseFacts ==
  ASSUME NEW n \in Nodes, NEW m \in Bids, NEW o \in RefundPhase(n, m)
  PROVE  OutcomeOK(m, o)
  <1> DEFINE Base == {Unchanged(m)} \union
               {Recorded(m, t, T) : t \in {"refund", "refund_spend", "swipe"},
                                    T \in SUBSET Tx}
  <1>1. ASSUME NEW t \in {"refund", "refund_spend", "swipe"},
               NEW p \in TryPublish(m, t)
        PROVE  p \in Base /\ OutcomeOK(m, p)
    BY OutcomeFacts, TxFacts DEF TryPublish
  <1>2. ASSUME NEW p \in RefundPublishPhase(m)
        PROVE  OutcomeOK(m, p)
    <2>1. CASE p = Unchanged(m)
      BY <2>1, OutcomeFacts
    <2>2. CASE \E T \in SUBSET {"refund"} :
                 p = [Recorded(m, "refund", T) EXCEPT !.ret = TRUE]
      <3>1. PICK T \in SUBSET {"refund"} :
                   p = [Recorded(m, "refund", T) EXCEPT !.ret = TRUE]
        BY <2>2
      <3>2. /\ p.bid = Recorded(m, "refund", T).bid
            /\ p.txs = Recorded(m, "refund", T).txs
            /\ p.acts = Recorded(m, "refund", T).acts
        BY <3>1 DEF Recorded
      <3>3. OutcomeOK(m, Recorded(m, "refund", T))
        BY OutcomeFacts
      <3> QED BY <3>2, <3>3 DEF OutcomeOK
    <2> QED BY <2>1, <2>2 DEF RefundPublishPhase
  <1>3. ASSUME NEW p \in RefundSpendPhase(n, m)
        PROVE  /\ OutcomeOK(m, p)
               /\ \A r : LET q == [p EXCEPT !.ret = r]
                         IN q.bid = p.bid /\ q.txs = p.txs /\ q.acts = p.acts
    <2>1. CASE p = Unchanged(m)
      BY <2>1, OutcomeFacts DEF Unchanged
    <2>2. CASE p \in TryPublish(m, "refund_spend")
      <3>1. p \in Base /\ OutcomeOK(m, p)
        BY <1>1, <2>2
      <3> QED BY <3>1 DEF Unchanged, Recorded
    <2>3. CASE \E q \in TryPublish(m, "swipe"), A \in SUBSET ActionTypes :
                 p = [q EXCEPT !.acts = A]
      <3>1. PICK q \in TryPublish(m, "swipe"), A \in SUBSET ActionTypes :
                 p = [q EXCEPT !.acts = A]
        BY <2>3
      <3>2. q \in Base /\ OutcomeOK(m, q)
        BY <1>1
      <3>3. p.bid = q.bid /\ p.txs = q.txs /\ p.acts = A
        BY <3>1, <3>2 DEF Unchanged, Recorded
      <3>4. \A r : LET w == [p EXCEPT !.ret = r]
                   IN w.bid = p.bid /\ w.txs = p.txs /\ w.acts = p.acts
        BY <3>1, <3>2 DEF Unchanged, Recorded
      <3> QED BY <3>2, <3>3, <3>4 DEF OutcomeOK
    <2>4. {"SEND_MERCY_TX"} \in SUBSET ActionTypes /\ {} \in SUBSET ActionTypes
      BY DEF ActionTypes
    <2> QED BY <2>1, <2>2, <2>3, <2>4 DEF RefundSpendPhase
  <1>4. CASE "refund" \in m.txns
    <2>1. PICK p \in RefundSpendPhase(n, m) :
            o = [p EXCEPT !.ret = p.bid.state = "NOSCRIPT_TX_RECOVERED"]
      BY <1>4 DEF RefundPhase
    <2>2. o.bid = p.bid /\ o.txs = p.txs /\ o.acts = p.acts
      BY <1>3, <2>1
    <2> QED BY <1>3, <2>2 DEF OutcomeOK
  <1>5. CASE "refund" \notin m.txns
    BY <1>2, <1>5 DEF RefundPhase
  <1> QED BY <1>4, <1>5

\* What holds when the second part of the check runs for the outcome o.
CheckContext(n, o) ==
  /\ LedgerInv /\ RowsInv /\ EngineInv /\ SwapRowInv /\ RetryInv
  /\ LedgerGrows /\ UNCHANGED <<delayed, up>>
  /\ o.bid \in Bids /\ Row(n, o) \in Bids /\ o.acts \in SUBSET ActionTypes
  /\ Knows(n, o.bid, conf', sent') /\ Knows(n, Row(n, o), conf', sent')

\* Ending the check with a bid that is true of the networks.
LEMMA CommitCheckRows ==
  ASSUME NEW n \in Nodes, NEW o, CheckContext(n, o),
         NEW b \in Bids, Knows(n, b, conf', sent'),
         NEW save, NEW more \in SUBSET ActionTypes,
         CommitCheck(n, o, b, save, more)
  PROVE  RowsInv'
  <1>1. db' \in [Nodes -> Bids] /\ mem' \in [Nodes -> Bids]
    BY DEF CheckContext, RowsInv, CommitCheck
  <1>2. actions' \in [Nodes -> SUBSET ActionTypes]
    BY DEF CheckContext, RowsInv, CommitCheck
  <1>3. \A p \in Nodes : Knows(p, db'[p], conf', sent')
    BY KnowsMore DEF CheckContext, RowsInv, CommitCheck
  <1>4. \A p \in Nodes : Knows(p, mem'[p], conf', sent')
    BY KnowsMore DEF CheckContext, RowsInv, CommitCheck
  <1> QED BY <1>1, <1>2, <1>3, <1>4 DEF RowsInv

\* What a step of the check leaves alone keeps its part of the invariant.
LEMMA CheckRest ==
  ASSUME NEW n \in Nodes, NEW o, CheckContext(n, o)
  PROVE  /\ UNCHANGED xmr_swap => SwapRowInv'
         /\ UNCHANGED errs => RetryInv'
         /\ UNCHANGED <<watch, faults>> => EngineInv'
         /\ UNCHANGED faults /\ watch' \in [Nodes -> SUBSET WatchTypes] => EngineInv'
  BY SwapRowStays DEF CheckContext, RetryInv, EngineInv

\* The step ends with the engine's part of the invariant.
CheckDone == RowsInv' /\ EngineInv' /\ SwapRowInv' /\ RetryInv'

\* A bid that differs from the outcome in its state and the B lock only.
LEMMA KnowsOutcome ==
  ASSUME NEW n \in Nodes, NEW o, CheckContext(n, o), NEW b,
         b.a = o.bid.a, b.txns = o.bid.txns
  PROVE  Knows(n, b, conf', sent')
  BY KnowsSame DEF CheckContext

\* The check returns after its first part.
LEMMA CheckReturnedInv ==
  ASSUME NEW n \in Nodes, NEW o, CheckContext(n, o), CheckReturned(n, o)
  PROVE  CheckDone
  <1> DEFINE b == [o.bid EXCEPT !.state = "FAILED_REFUNDED"]
  <1>1. SwapRowInv' /\ RetryInv' /\ UNCHANGED faults
    BY CheckRest DEF CheckReturned
  <1>2. CASE Deactivate(n, b)
    <2>1. b \in Bids /\ b.a = o.bid.a /\ b.txns = o.bid.txns
      BY DEF CheckContext, Bids, BidStates
    <2>2. Knows(n, b, conf', sent')
      BY <2>1, KnowsOutcome
    <2>3. RowsInv' /\ watch' \in [Nodes -> SUBSET WatchTypes]
      BY <1>2, <2>1, <2>2, DeactivateRows DEF CheckContext
    <2> QED BY <1>1, <2>3, CheckRest DEF CheckDone
  <1>3. CASE CommitCheck(n, o, o.bid, FALSE, {}) /\ UNCHANGED watch
    <2>1. RowsInv'
      <3>1. {} \in SUBSET ActionTypes
        OBVIOUS
      <3> QED BY <1>3, <3>1, CommitCheckRows DEF CheckContext
    <2> QED BY <1>1, <1>3, <2>1, CheckRest DEF CheckDone
  <1> QED BY <1>2, <1>3 DEF CheckReturned

\* The bid is deactivated as it is.
LEMMA CheckEndedInv ==
  ASSUME NEW n \in Nodes, NEW o, CheckContext(n, o), CheckEnded(n, o)
  PROVE  CheckDone
  <1>1. SwapRowInv' /\ RetryInv' /\ UNCHANGED faults
    BY CheckRest DEF CheckEnded
  <1>2. RowsInv' /\ watch' \in [Nodes -> SUBSET WatchTypes]
    BY DeactivateRows DEF CheckContext, CheckEnded
  <1> QED BY <1>1, <1>2, CheckRest DEF CheckDone

\* The bid is left as the first part made it: a failed bid, or an idle one.
LEMMA CheckFailedOrIdleInv ==
  ASSUME NEW n \in Nodes, NEW o, CheckContext(n, o),
         CheckFailed(n, o) \/ CheckIdle(n, o)
  PROVE  CheckDone
  <1> DEFINE R == IF n = "F" THEN {"RECOVER_LOCK_TX_B"} ELSE {}
  <1>1. SwapRowInv' /\ RetryInv' /\ EngineInv'
    BY CheckRest DEF CheckFailed, CheckIdle
  <1>2. R \in SUBSET ActionTypes /\ {} \in SUBSET ActionTypes
    BY DEF ActionTypes
  <1>3. CommitCheck(n, o, o.bid, FALSE, R) \/ CommitCheck(n, o, o.bid, FALSE, {})
    BY DEF CheckFailed, CheckIdle
  <1> HIDE DEF R
  <1>4. RowsInv'
    BY <1>2, <1>3, CommitCheckRows DEF CheckContext
  <1> QED BY <1>1, <1>4 DEF CheckDone

\* The A lock is recorded as mined only when it is.
LEMMA CheckLockTxAInv ==
  ASSUME NEW n \in Nodes, NEW o, CheckContext(n, o), CheckLockTxA(n, o)
  PROVE  CheckDone
  <1> DEFINE locked == conf["a_lock"] >= ConfA
             b == [o.bid EXCEPT !.a = "InChain",
                     !.state = IF locked THEN "SCRIPT_COIN_LOCKED" ELSE @]
             send == IF n = "F" /\ locked THEN {"SEND_LOCK_TX_B"} ELSE {}
  <1>1. SwapRowInv' /\ RetryInv' /\ EngineInv'
    BY CheckRest DEF CheckLockTxA
  <1>2. CASE CommitCheck(n, o, o.bid, FALSE, {})
    <2>1. RowsInv'
      <3>1. {} \in SUBSET ActionTypes
        OBVIOUS
      <3> QED BY <1>2, <3>1, CommitCheckRows DEF CheckContext
    <2> QED BY <1>1, <2>1 DEF CheckDone
  <1>3. CASE conf["a_lock"] > 0 /\ CommitCheck(n, o, b, TRUE, send)
    <2>1. b \in Bids /\ b.txns = o.bid.txns
      BY DEF CheckContext, Bids, BidStates
    <2>2. conf'["a_lock"] > 0
      BY <1>3, TxFacts DEF CheckContext, LedgerGrows
    <2>3. Knows(n, b, conf', sent')
      BY <2>1, <2>2 DEF CheckContext, Knows
    <2>4. send \in SUBSET ActionTypes
      BY DEF ActionTypes
    <2> HIDE DEF b, send
    <2>5. RowsInv'
      BY <1>3, <2>1, <2>3, <2>4, CommitCheckRows
    <2> QED BY <1>1, <2>5 DEF CheckDone
  <1> QED BY <1>2, <1>3 DEF CheckLockTxA

\* After findTxB the bid's B lock and state may change.
LEMMA AfterFindTxBInv ==
  ASSUME NEW n \in Nodes, NEW o, CheckContext(n, o), NEW b \in Bids,
         b.a = o.bid.a, b.txns = o.bid.txns, NEW save,
         AfterFindTxB(n, o, b, save)
  PROVE  RowsInv' /\ watch' \in [Nodes -> SUBSET WatchTypes]
  <1> DEFINE state == o.bid.state
             resend == n = "F" /\ state = "SCRIPT_COIN_LOCKED" /\ b.b = "None"
             confirmed == b.b \in {"InChain", "Spent"} /\ conf["b_lock"] - 1 >= ConfB
             forward == confirmed /\ CanGoForward(b)
             b2 == [b EXCEPT !.b = IF confirmed /\ @ # "Spent" THEN "Confirmed" ELSE @,
                     !.state = IF forward THEN "NOSCRIPT_COIN_LOCKED" ELSE @]
             give_up == /\ n = "L" /\ state = "SCRIPT_TX_PREREFUND"
                        /\ "mercy" \notin b.txns /\ MercyOverdue(n)
             b3 == IF give_up THEN [b2 EXCEPT !.state = "FAILED_SWIPED"] ELSE b2
             more == (IF resend THEN {"SEND_LOCK_TX_B"} ELSE {})
               \union (IF n = "L" /\ forward THEN {"SEND_LOCK_RELEASE"} ELSE {})
  <1>1. CommitCheck(n, o, b3, save \/ give_up, more)
    BY DEF AfterFindTxB
  <1>2. b2 \in Bids /\ b2.a = o.bid.a /\ b2.txns = o.bid.txns
    <2> HIDE DEF confirmed, forward
    <2> QED BY DEF Bids, BidStates
  <1>3. b3 \in Bids /\ b3.a = o.bid.a /\ b3.txns = o.bid.txns
    <2> HIDE DEF b2, give_up
    <2> QED BY <1>2 DEF Bids, BidStates
  <1>4. more \in SUBSET ActionTypes
    BY DEF ActionTypes
  <1>5. watch' \in [Nodes -> SUBSET WatchTypes]
    BY DEF AfterFindTxB, CheckContext, EngineInv
  <1> HIDE DEF b3, more, give_up
  <1>6. Knows(n, b3, conf', sent')
    BY <1>3, KnowsOutcome
  <1>7. RowsInv'
    BY <1>1, <1>3, <1>4, <1>6, CommitCheckRows
  <1> QED BY <1>5, <1>7

\* The B lock is found, or a failure to look for it is counted.
LEMMA CheckLockTxBInv ==
  ASSUME NEW n \in Nodes, NEW o, CheckContext(n, o), CheckLockTxB(n, o)
  PROVE  CheckDone
  <1> DEFINE k == "LOCK_TX_B_RPC_ERROR"
             broken == errs[n][k] = MaxErrors
             e == [o.bid EXCEPT !.state = "BID_ERROR"]
  <1>1. SwapRowInv' /\ o.bid \in Bids
    BY CheckRest DEF CheckLockTxB, CheckContext
  <1>2. CASE /\ \E found \in FindTxB :
                  AfterFindTxB(n, o, IF found THEN FoundB(o.bid) ELSE o.bid, found)
             /\ UNCHANGED <<errs, faults>>
    <2>1. PICK found \in FindTxB :
            AfterFindTxB(n, o, IF found THEN FoundB(o.bid) ELSE o.bid, found)
      BY <1>2
    <2> DEFINE b == IF found THEN FoundB(o.bid) ELSE o.bid
    <2>2. b \in Bids /\ b.a = o.bid.a /\ b.txns = o.bid.txns
      BY <1>1, HelperTypes
    <2> HIDE DEF b
    <2>3. RowsInv' /\ watch' \in [Nodes -> SUBSET WatchTypes]
      BY <2>1, <2>2, AfterFindTxBInv DEF b
    <2> QED BY <1>1, <1>2, <2>3, CheckRest DEF CheckDone
  <1>3. CASE /\ Fault
             /\ errs' = [errs EXCEPT ![n][k] = IF broken THEN @ ELSE @ + 1]
             /\ AfterFindTxB(n, o, IF broken THEN e ELSE o.bid, broken)
    <2> DEFINE b == IF broken THEN e ELSE o.bid
    <2>1. b \in Bids /\ b.a = o.bid.a /\ b.txns = o.bid.txns
      <3> HIDE DEF broken
      <3> QED BY <1>1 DEF Bids, BidStates
    <2>2. RowsInv' /\ watch' \in [Nodes -> SUBSET WatchTypes]
      <3> HIDE DEF b, broken
      <3> QED BY <1>3, <2>1, AfterFindTxBInv DEF b
    <2>3. RetryInv'
      <3>1. k \in ErrorKinds /\ errs \in [Nodes -> [ErrorKinds -> 0..MaxErrors]]
        BY DEF ErrorKinds, CheckContext, RetryInv
      <3>2. errs' \in [Nodes -> [ErrorKinds -> 0..MaxErrors]]
        BY <1>3, <3>1, TimesAssumption, SMTT(20)
      <3> QED BY <3>2 DEF CheckContext, RetryInv
    <2>4. EngineInv'
      BY <1>3, <2>2, FaultType DEF CheckContext, EngineInv
    <2> QED BY <1>1, <2>2, <2>3, <2>4 DEF CheckDone
  <1> QED BY <1>2, <1>3 DEF CheckLockTxB

\* A spend seen in the pool was broadcast.
LEMMA CheckReleasedInv ==
  ASSUME NEW n \in Nodes, NEW o, CheckContext(n, o), CheckReleased(n, o)
  PROVE  CheckDone
  <1> DEFINE row == Row(n, o)
             b == SpendSeen(n, row)
  <1>1. RetryInv' /\ EngineInv'
    BY CheckRest DEF CheckReleased
  <1>2. CASE /\ conf["spend"] < 0
             /\ SaveBid(n, b, {}, o.acts) /\ KeepSpendTx(n, row)
    <2>1. "spend" \in sent'
      BY <1>2, TxFacts DEF CheckContext, LedgerInv, LedgerTypeOK, ExclusionInv,
                           LedgerGrows
    <2>2. SwapRowInv'
      BY <1>2, <2>1, KeepSpendTxRow DEF CheckContext
    <2>3. row \in Bids /\ Knows(n, row, conf', sent') /\ o.acts \in SUBSET ActionTypes
      BY DEF CheckContext
    <2> HIDE DEF row
    <2>4. b \in Bids /\ b.a = row.a /\ b.txns = row.txns
      BY <2>3, HelperTypes
    <2>5. Knows(n, b, conf', sent')
      BY <2>3, <2>4, KnowsSame
    <2> HIDE DEF b
    <2>6. RowsInv'
      BY <1>2, <2>3, <2>4, <2>5, SaveBidRows DEF CheckContext
    <2> QED BY <1>1, <2>2, <2>6 DEF CheckDone
  <1>3. CASE CommitCheck(n, o, o.bid, FALSE, {}) /\ UNCHANGED xmr_swap
    <2>1. {} \in SUBSET ActionTypes
      OBVIOUS
    <2>2. RowsInv'
      BY <1>3, <2>1, CommitCheckRows DEF CheckContext
    <2> QED BY <1>1, <1>3, <2>2, CheckRest DEF CheckDone
  <1> QED BY <1>2, <1>3 DEF CheckReleased

\* The bid waits for its redeem of coin B.
LEMMA CheckRedeemedInv ==
  ASSUME NEW n \in Nodes, NEW o, CheckContext(n, o), CheckRedeemed(n, o)
  PROVE  CheckDone
  <1> DEFINE b == [o.bid EXCEPT !.state = "SWAP_DELAYING"]
  <1>1. SwapRowInv' /\ RetryInv' /\ EngineInv'
    BY CheckRest DEF CheckRedeemed
  <1>2. b \in Bids /\ b.a = o.bid.a /\ b.txns = o.bid.txns
    BY DEF CheckContext, Bids, BidStates
  <1>3. {} \in SUBSET ActionTypes /\ {"REDEEM_LOCK_TX_B"} \in SUBSET ActionTypes
    BY DEF ActionTypes
  <1>4. CommitCheck(n, o, o.bid, FALSE, {})
        \/ CommitCheck(n, o, b, TRUE, {"REDEEM_LOCK_TX_B"})
    BY DEF CheckRedeemed
  <1> HIDE DEF b
  <1>5. Knows(n, b, conf', sent')
    BY <1>2, KnowsOutcome
  <1>6. RowsInv'
    BY <1>2, <1>3, <1>4, <1>5, CommitCheckRows DEF CheckContext
  <1> QED BY <1>1, <1>6 DEF CheckDone

\* The redeem of coin B has confirmed, or is waited for.
LEMMA CheckRedeemBInv ==
  ASSUME NEW n \in Nodes, NEW o, CheckContext(n, o), CheckRedeemB(n, o)
  PROVE  CheckDone
  <1> DEFINE mercy == o.bid.state = "FAILED_SWIPED_USING_MERCY"
             end == IF mercy THEN "FAILED_SWIPED_USED_MERCY" ELSE "SWAP_COMPLETED"
             b == [o.bid EXCEPT !.state = end]
  <1>1. SwapRowInv' /\ RetryInv' /\ UNCHANGED faults
    BY CheckRest DEF CheckRedeemB
  <1>2. CASE Deactivate(n, b)
    <2>1. b \in Bids /\ b.a = o.bid.a /\ b.txns = o.bid.txns
      BY DEF CheckContext, Bids, BidStates
    <2> HIDE DEF b
    <2>2. Knows(n, b, conf', sent')
      BY <2>1, KnowsOutcome
    <2>3. RowsInv' /\ watch' \in [Nodes -> SUBSET WatchTypes]
      BY <1>2, <2>1, <2>2, DeactivateRows DEF CheckContext
    <2> QED BY <1>1, <2>3, CheckRest DEF CheckDone
  <1>3. CASE CommitCheck(n, o, o.bid, FALSE, {}) /\ UNCHANGED watch
    <2>1. {} \in SUBSET ActionTypes
      OBVIOUS
    <2>2. RowsInv'
      BY <1>3, <2>1, CommitCheckRows DEF CheckContext
    <2> QED BY <1>1, <1>3, <2>2, CheckRest DEF CheckDone
  <1> QED BY <1>2, <1>3 DEF CheckRedeemB

\* The follower waits to send its mercy transaction, or sweeps the payout.
LEMMA CheckMercySendInv ==
  ASSUME NEW n \in Nodes, NEW o, CheckContext(n, o), CheckMercySend(n, o)
  PROVE  CheckDone
  <1> DEFINE give_up == "swipe" \notin o.bid.txns \/ MercyOverdue(n)
             T == IF give_up THEN SweepTxs(o.bid) ELSE {}
             b == [o.bid EXCEPT !.state = "FAILED_SWIPED", !.txns = @ \union T]
             act == {"SEND_MERCY_TX"}
  <1>1. SwapRowInv' /\ RetryInv' /\ EngineInv'
    BY CheckRest DEF CheckMercySend
  <1>2. T \in SUBSET {"sweep"} /\ o.bid \in Bids
    BY HelperTypes DEF CheckContext
  <1>3. act \in SUBSET ActionTypes /\ {} \in SUBSET ActionTypes
    BY DEF ActionTypes
  <1>4. CASE SaveBid(n, b, act, {})
    <2> HIDE DEF T
    <2>1. b \in Bids /\ b.a = o.bid.a /\ ("mercy" \in b.txns => "mercy" \in o.bid.txns)
      <3>1. T \subseteq Tx /\ "mercy" \notin T
        BY <1>2, TxFacts
      <3>2. b.a = o.bid.a /\ b.txns = o.bid.txns \union T
        BY <1>2 DEF Bids
      <3>3. b \in Bids
        BY <1>2, <3>1 DEF Bids, BidStates
      <3> QED BY <3>1, <3>2, <3>3
    <2> HIDE DEF b
    <2>2. Knows(n, b, conf', sent')
      BY <2>1 DEF CheckContext, Knows
    <2>3. RowsInv'
      BY <1>3, <1>4, <2>1, <2>2, SaveBidRows DEF CheckContext
    <2> QED BY <1>1, <2>3 DEF CheckDone
  <1>5. CASE CommitCheck(n, o, o.bid, FALSE, act)
    <2>1. RowsInv'
      BY <1>3, <1>5, CommitCheckRows DEF CheckContext
    <2> QED BY <1>1, <2>1 DEF CheckDone
  <1> QED BY <1>4, <1>5 DEF CheckMercySend

\* checkXmrBidState publishes only refunds, swipes and sweeps, which need no
\* secret, and records what is so.
LEMMA CheckXmrBidStateInv ==
  ASSUME Inv, NEW n \in Nodes, CheckXmrBidState(n)
  PROVE  Inv'
  <1> DEFINE m == mem[n]
  <1>1. PICK o \in RefundPhase(n, m) :
          /\ \/ o.ret /\ Broadcast(o.txs) /\ CheckReturned(n, o)
             \/ ~o.ret /\ CheckMercySend(n, o)
             \/ /\ ~o.ret /\ Broadcast(o.txs)
                /\ \/ CheckEnded(n, o)    \/ CheckFailed(n, o)
                   \/ CheckLockTxA(n, o)  \/ CheckLockTxB(n, o)
                   \/ CheckReleased(n, o) \/ CheckRedeemed(n, o)
                   \/ CheckRedeemB(n, o)  \/ CheckIdle(n, o)
          /\ waited' = [waited EXCEPT ![n] =
               IF "swipe" \in o.bid.txns \ m.txns THEN 0 ELSE @]
    BY DEF CheckXmrBidState
  <1>2. m \in Bids /\ Knows(n, m, conf, sent)
    BY DEF Inv, RowsInv
  <1>3. OutcomeOK(m, o)
    BY <1>2, RefundPhaseFacts
  <1>4. OthersInv'
    BY <1>1, TimesAssumption DEF Inv, OthersInv, CheckXmrBidState
  <1>5. LedgerInv' /\ LedgerGrows
    <2>1. \E T \in SUBSET {"sweep"} : Broadcast(o.txs \union T)
      <3>1. CASE CheckMercySend(n, o)
        <4>1. SweepTxs(o.bid) \in SUBSET {"sweep"}
          BY <1>3, HelperTypes DEF OutcomeOK
        <4> QED BY <3>1, <4>1 DEF CheckMercySend
      <3>2. CASE Broadcast(o.txs)
        <4>1. o.txs = o.txs \union {}
          OBVIOUS
        <4> QED BY <3>2, <4>1
      <3> QED BY <1>1, <3>1, <3>2
    <2>2. PICK T \in SUBSET {"sweep"} : Broadcast(o.txs \union T)
      BY <2>1
    <2>3. o.txs \union T \in SUBSET Tx /\ MayPublish(o.txs \union T)
      BY <1>3, TxFacts DEF OutcomeOK, MayPublish
    <2> QED BY <2>2, <2>3, Publishes DEF Inv
  <1>6. CheckContext(n, o)
    <2>1. Knows(n, o.bid, conf', sent')
      <3>1. Knows(n, m, conf', sent')
        BY <1>2, <1>5, KnowsMore
      <3> QED BY <1>3, <3>1 DEF OutcomeOK, Knows
    <2>2. db[n] \in Bids /\ Knows(n, db[n], conf', sent')
      BY <1>5, KnowsMore DEF Inv, RowsInv
    <2>3. UNCHANGED <<delayed, up>>
      BY DEF CheckXmrBidState
    <2>4. Row(n, o) \in Bids /\ Knows(n, Row(n, o), conf', sent')
      BY <1>3, <2>1, <2>2 DEF Row, OutcomeOK
    <2> QED BY <1>3, <1>5, <2>1, <2>3, <2>4 DEF CheckContext, Inv, OutcomeOK
  <1>7. CheckDone
    BY <1>1, <1>6, CheckReturnedInv, CheckMercySendInv, CheckEndedInv,
       CheckFailedOrIdleInv, CheckLockTxAInv, CheckLockTxBInv, CheckReleasedInv,
       CheckRedeemedInv, CheckRedeemBInv
  <1> QED BY <1>4, <1>5, <1>7 DEF Inv, CheckDone

-----------------------------------------------------------------------------
\* Timeouts, crashes, restarts and blocks keep the invariant.

\* checkAcceptedBids deactivates a bid.
LEMMA TimeoutBidInv ==
  ASSUME Inv, NEW n \in Nodes, TimeoutBid(n)
  PROVE  Inv'
  <1> DEFINE b == [db[n] EXCEPT !.state = "SWAP_TIMEDOUT"]
  <1>1. LedgerInv' /\ LedgerGrows
    BY LedgerStays DEF TimeoutBid, Inv
  <1>2. b \in Bids /\ b.a = db[n].a /\ b.txns = db[n].txns
    BY ZenonT(40) DEF Inv, RowsInv, Bids, BidStates
  <1>3. Deactivate(n, b)
    BY DEF TimeoutBid
  <1> HIDE DEF b
  <1>4. Knows(n, b, conf', sent')
    BY <1>1, <1>2, KnowsMore, KnowsSame DEF Inv, RowsInv
  <1>5. RowsInv' /\ watch' \in [Nodes -> SUBSET WatchTypes]
    BY <1>1, <1>2, <1>3, <1>4, DeactivateRows DEF Inv
  <1>6. EngineInv' /\ SwapRowInv' /\ RetryInv' /\ OthersInv'
    BY <1>1, <1>5, SwapRowStays
       DEF TimeoutBid, Inv, EngineInv, RetryInv, OthersInv
  <1> QED BY <1>1, <1>5, <1>6 DEF Inv

\* A crash forgets, it writes nothing.
LEMMA CrashInv ==
  ASSUME Inv, NEW n \in Nodes, Crash(n)
  PROVE  Inv'
  <1>1. LedgerInv' /\ LedgerGrows
    BY LedgerStays DEF Crash, Inv
  <1>2. RowsInv' /\ EngineInv'
    BY <1>1, LoseMemoryRows, KnowsMore DEF Crash, Inv, RowsInv
  <1>3. SwapRowInv' /\ RetryInv' /\ OthersInv'
    BY <1>1, SwapRowStays DEF Crash, Inv, RetryInv, OthersInv
  <1> QED BY <1>1, <1>2, <1>3 DEF Inv

\* loadFromDB copies the row.
LEMMA RestartInv ==
  ASSUME Inv, NEW n \in Nodes, Restart(n)
  PROVE  Inv'
  <1> DEFINE b == [db[n] EXCEPT !.in_progress = TRUE]
  <1>1. LedgerInv' /\ LedgerGrows
    BY LedgerStays DEF Restart, Inv
  <1>2. db[n] \in Bids /\ b \in Bids /\ b.a = db[n].a /\ b.txns = db[n].txns
    BY ZenonT(40) DEF Inv, RowsInv, Bids
  <1>3. WatchSet(n, db[n]) \in SUBSET WatchTypes
    BY <1>2, HelperTypes
  <1>4. /\ mem' = [mem EXCEPT ![n] = b] \/ UNCHANGED mem
        /\ watch' = [watch EXCEPT ![n] = WatchSet(n, db[n])] \/ UNCHANGED watch
        /\ up' = [up EXCEPT ![n] = TRUE]
        /\ UNCHANGED <<db, actions, xmr_swap, faults>>
    BY DEF Restart
  <1> HIDE DEF b
  <1>5. Knows(n, b, conf', sent')
    BY <1>1, <1>2, KnowsMore, KnowsSame DEF Inv, RowsInv
  <1>6. RowsInv'
    BY <1>1, <1>2, <1>4, <1>5, KnowsMore DEF Inv, RowsInv
  <1>7. EngineInv'
    BY <1>3, <1>4 DEF Inv, EngineInv
  <1>8. SwapRowInv' /\ RetryInv' /\ OthersInv'
    BY <1>1, SwapRowStays DEF Restart, Inv, RetryInv, OthersInv
  <1> QED BY <1>1, <1>6, <1>7, <1>8 DEF Inv

\* A block changes nothing but depths, and the time that is waited.
LEMMA BlockInv == Inv /\ (NewBlockA \/ NewBlockB) => Inv'
  <1> SUFFICES ASSUME Inv, NewBlockA \/ NewBlockB PROVE Inv'
    OBVIOUS
  <1>1. LedgerInv' /\ LedgerGrows
    BY BlockGrows DEF NewBlockA, NewBlockB, Inv
  <1>2. RowsInv' /\ SwapRowInv'
    BY <1>1, RowsStay, SwapRowStays DEF NewBlockA, NewBlockB, Inv
  <1>3. EngineInv'
    BY DEF NewBlockA, NewBlockB, Inv, EngineInv
  <1>4. RetryInv'
    BY DEF NewBlockA, NewBlockB, Inv, RetryInv
  <1>5. OthersInv'
    BY TimesAssumption DEF NewBlockA, NewBlockB, Inv, OthersInv
  <1> QED BY <1>1, <1>2, <1>3, <1>4, <1>5 DEF Inv

\* Nothing changes.
LEMMA StutterInv == Inv /\ UNCHANGED vars => Inv'
  <1> SUFFICES ASSUME Inv, UNCHANGED vars PROVE Inv'
    OBVIOUS
  <1>1. LedgerInv' /\ LedgerGrows
    BY LedgerStays DEF vars, Inv
  <1>2. RowsInv' /\ SwapRowInv'
    BY <1>1, RowsStay, SwapRowStays DEF vars, Inv
  <1>3. EngineInv' /\ RetryInv' /\ OthersInv'
    BY DEF vars, Inv, EngineInv, RetryInv, OthersInv
  <1> QED BY <1>1, <1>2, <1>3 DEF Inv

-----------------------------------------------------------------------------
\* The theorems.

\* The invariant holds of an accepted bid.
LEMMA InitInv == Init => Inv
  <1> SUFFICES ASSUME Init PROVE Inv
    OBVIOUS
  <1> USE TxFacts, TimesAssumption DEF Init
  <1>1. LedgerInv
    BY DEF LedgerInv, LedgerTypeOK, ExclusionInv, SpendWindow, KeysInv, Mined,
       SpendNeverRaced, MercyNeverRaced
  <1>2. RowsInv
    <2> DEFINE b == [NoBid EXCEPT !.state = "BID_ACCEPTED"]
    <2>1. b \in Bids /\ b.a = "None" /\ b.txns = {}
      BY DEF NoBid, Bids, BidStates
    <2>2. \A n : Knows(n, b, conf, sent)
      BY <2>1 DEF Knows
    <2> HIDE DEF b
    <2>3. db = [n \in Nodes |-> b]
      BY DEF b
    <2>4. actions \in [Nodes -> SUBSET ActionTypes]
      BY DEF ActionTypes
    <2> QED BY <2>1, <2>2, <2>3, <2>4, NodeFacts DEF RowsInv
  <1>3. EngineInv /\ SwapRowInv /\ RetryInv /\ OthersInv
    BY DEF EngineInv, SwapRowInv, RetryInv, OthersInv, Nodes
  <1> QED BY <1>1, <1>2, <1>3 DEF Inv

\* Every step keeps the invariant.
LEMMA NextInv == Inv /\ [Next]_vars => Inv'
  <1> SUFFICES ASSUME Inv, [Next]_vars PROVE Inv'
    OBVIOUS
  <1>1. CASE ReceiveMessage
    BY <1>1, ProcessCoinALockSigsInv, ProcessLockSpendTxInv,
       ProcessLockReleaseInv DEF ReceiveMessage
  <1>2. CASE LeaderActions
    BY <1>2, SendCoinALockTxInv, SendCoinALockSpendTxMsgInv, SendLockReleaseInv,
       RedeemCoinBLockTxInv, ProcessMercyTxInv DEF LeaderActions
  <1>3. CASE FollowerActions
    BY <1>3, SendTxnSigsFtoLInv, SendCoinBLockTxInv, RedeemCoinALockTxInv,
       RecoverCoinBLockTxInv, SendMercyTxInv DEF FollowerActions
  <1>4. ASSUME NEW n \in Nodes, Update(n) PROVE Inv'
    BY <1>2, <1>3, <1>4, CheckXmrBidStateInv, ProcessALockSpendInv,
       ProcessALockRefundSpendInv, TimeoutBidInv DEF Update
  <1> QED BY <1>1, <1>4, CrashInv, RestartInv, BlockInv, StutterInv DEF Next

\* The inductive invariant.
THEOREM Invariant == Spec => []Inv
  <1> QED BY InitInv, NextInv, PTL DEF Spec

\* Every variable keeps its type.
THEOREM TypeCorrect == Spec => []TypeOK
  <1> QED BY Invariant, InvImplies, PTL

\* The follower's coin A lock spend is out only when the refund can no longer
\* get in front of it, for every choice of timelocks whose spend margin is at
\* least the time a transaction takes to be mined.
THEOREM SpendSafe == Spec => []SpendNeverRaced
  <1> QED BY Invariant, InvImplies, PTL

\* The follower's mercy transaction is out only when the swipe is in a block
\* and the leader's refund spend is gone.
THEOREM MercySafe == Spec => []MercyNeverRaced
  <1> QED BY Invariant, InvImplies, PTL

\* Nobody takes both coins, whatever crashes, fails, is lost or comes late.
THEOREM Atomic == Spec => []NoDoubleWin
  <1>1. Inv => NoDoubleWin
    BY LedgerSafety DEF Inv
  <1> QED BY Invariant, <1>1, PTL

-----------------------------------------------------------------------------
(***************************************************************************)
(* Proofs about the rows of an adaptor-signature swap, for every value of  *)
(* the constants: what a bid is saved with is true of the coins, an engine *)
(* never loses track of a coin it locked, and the rows only advance.       *)
(*                                                                         *)
(* The invariant TrackInv has one part per node (NodeInv: what the states  *)
(* tell, how far the in-memory copy may be from the row, what is left in   *)
(* the queue and watched for a bid that is not in progress) and one that   *)
(* relates the two nodes, the messages and the networks (PhaseInv).        *)
(***************************************************************************)

-----------------------------------------------------------------------------
\* The hypotheses.

\* The outside effect of these handlers and its commit are not separated: the
\* process does not die between the two.  The others may die there.
CommitsWithEffect ==
  PartialFailures \intersect {"SIGN_LOCK_TX_A", "SEND_LOCK_TX_A",
    "SEND_LOCK_SPEND_MSG", "SEND_LOCK_TX_B", "MISSED_SEND"} = {}

\* The altruistic setting is not changed while it matters.
SteadySetting == CanSendMercy => Altruistic # BOOLEAN

-----------------------------------------------------------------------------
\* The invariant.

\* The states in which the leader has not published its lock.
UnlockedStates == {"BID_ACCEPTED", "MSG_SCRIPT_LOCK_TX_SIGS"}

\* The states a bid of the leader is ever in.
LeaderStates ==
  UnlockedStates \union
  {"NONE", "HAVE_SCRIPT_COIN_SPEND_TX", "MSG_SCRIPT_LOCK_SPEND_TX",
   "SCRIPT_COIN_LOCKED", "NOSCRIPT_COIN_LOCKED", "LOCK_RELEASED",
   "SCRIPT_TX_REDEEMED", "SWAP_DELAYING", "NOSCRIPT_TX_REDEEMED",
   "SWAP_COMPLETED", "SCRIPT_TX_PREREFUND", "FAILED_REFUNDED",
   "FAILED_SWIPED", "FAILED_SWIPED_USING_MERCY", "FAILED_SWIPED_USED_MERCY",
   "FAILED_SWIPED_MERCY_UNUSED", "SWAP_TIMEDOUT", "BID_ERROR"}

\* The states a bid of the follower is ever in.
FollowerStates ==
  UnlockedStates \union
  {"NONE", "MSG_SCRIPT_LOCK_SPEND_TX", "SCRIPT_COIN_LOCKED",
   "NOSCRIPT_COIN_LOCKED", "LOCK_RELEASED", "SWAP_COMPLETED",
   "SCRIPT_TX_PREREFUND", "NOSCRIPT_TX_RECOVERED", "FAILED",
   "FAILED_REFUNDED", "FAILED_SWIPED", "FAILED_SWIPED_SENDING_MERCY",
   "SWAP_TIMEDOUT", "BID_ERROR"}

\* What the state s of the leader's bid says about networks with the depths c
\* and the broadcast transactions S.
LeaderTold(s, c, S) ==
  /\ s \in LeaderStates
  /\ s \in {"SWAP_COMPLETED", "FAILED_SWIPED_USED_MERCY"} => "b_redeem" \in S
  /\ s = "FAILED_REFUNDED" => c["refund_spend"] > 0
  /\ s = "FAILED_SWIPED" => c["swipe"] > 0
  /\ s \in {"FAILED_SWIPED_USING_MERCY", "FAILED_SWIPED_USED_MERCY",
            "FAILED_SWIPED_MERCY_UNUSED"} => c["mercy"] > 0

\* The same of the follower.  One whose altruistic setting is switched off while
\* its swipe waits to be mined ends its bid before the swipe is mined.
FollowerTold(s, c) ==
  /\ s \in FollowerStates
  /\ s = "SWAP_COMPLETED" => c["spend"] > 0
  /\ s = "FAILED_REFUNDED" => c["b_recover"] > 0
  /\ s = "FAILED_SWIPED_SENDING_MERCY" =>
       c["swipe"] > 0 /\ TRUE \in Altruistic /\ CanSendMercy
  /\ s = "FAILED_SWIPED" /\ SteadySetting => c["swipe"] > 0

\* What the state s of a bid of node n says.
Told(n, s, c, S) ==
  IF n = "L" THEN LeaderTold(s, c, S) ELSE FollowerTold(s, c)

\* The in-memory copy m has what the row d has.  It may be ahead of it by a
\* confirmation of the coin B lock, which is not saved.
Mirrors(d, m) ==
  m # NoBid =>
    /\ m.in_progress /\ m.state \notin {"NONE", "SWAP_TIMEDOUT"}
    /\ m.txns = d.txns /\ m.a = d.a
    /\ m.b = d.b \/ (m.b = "Confirmed" /\ d.b = "InChain")
    /\ "refund" \in d.txns /\ d.state \notin ForwardStates =>
         m.state \notin ForwardStates

\* Nothing is left to do for the row d.
Closed(d, m, q, w) ==
  /\ d.state \in EndStates \union {"SWAP_TIMEDOUT", "FAILED"}
  /\ q = {} /\ w = {} /\ m = NoBid
  /\ d.state \in {"SWAP_TIMEDOUT", "FAILED"} => d.b = "None"

\* Nothing was done yet for the row d.
Fresh(n, d, m, q, w) ==
  /\ d.state \in UnlockedStates /\ m.state \in UnlockedStates \union {"NONE"}
  /\ n = "F" => d.state = "BID_ACCEPTED"
  /\ d.a = "None" /\ d.b = "None" /\ d.txns = {}
  /\ q \subseteq IF n = "L" THEN {"SEND_LOCK_TX_A"} ELSE {"SIGN_LOCK_TX_A"}
  /\ w \subseteq {"A_LOCK_REFUND"}

\* The leader's row d, its copy m and its queue q.
LeaderRow(d, m, q) ==
  /\ d.state \in UnlockedStates => ~d.in_progress
  /\ d.state = "HAVE_SCRIPT_COIN_SPEND_TX" => q \subseteq {"SEND_LOCK_SPEND_MSG"}
  /\ "SEND_LOCK_SPEND_MSG" \in q => d.state = "HAVE_SCRIPT_COIN_SPEND_TX"
  /\ d.state \in {"HAVE_SCRIPT_COIN_SPEND_TX", "MSG_SCRIPT_LOCK_SPEND_TX"} =>
       d.a \in {"Sent", "InChain"}
  /\ m.state \in UnlockedStates => d.state \in UnlockedStates
  /\ m.state \in CanTimeout \ UnlockedStates => d.state = m.state

\* The follower's row d, its copy m and its queue q.
FollowerRow(d, m, q) ==
  /\ "SIGN_LOCK_TX_A" \in q => d.state = "BID_ACCEPTED"
  /\ "SEND_LOCK_TX_B" \in q => d.b = "None"
  /\ "SEND_MERCY_TX" \in q => TRUE \in Altruistic /\ CanSendMercy
  /\ d.state \in CanTimeout =>
       d.b = "None" /\ q \subseteq {"SIGN_LOCK_TX_A", "SEND_MERCY_TX"}
  /\ d.state \in UnlockedStates =>
       q \subseteq {"SIGN_LOCK_TX_A"} /\ d.a # "InChain" /\ "refund" \notin d.txns
  /\ m.state \in CanTimeout \/ (d.state \in CanTimeout /\ m # NoBid) =>
       d.state = m.state

\* The row d of node n, its copy m, its queue q and what is watched, w.
NodeInv(n, d, m, q, w, c, S) ==
  /\ Told(n, d.state, c, S) /\ Told(n, m.state, c, S)
  /\ Mirrors(d, m)
  /\ d.state # "NONE"
  /\ d.in_progress => d.state \notin {"BID_ACCEPTED", "SWAP_TIMEDOUT"}
  /\ ~d.in_progress => Closed(d, m, q, w) \/ Fresh(n, d, m, q, w)
  /\ n = "L" => LeaderRow(d, m, q)
  /\ n = "F" => FollowerRow(d, m, q)

\* Before the leader's lock spend message nothing of coin A moves: the bid b is
\* in one of the first states and does not know of a mined lock.
Quiet(b) ==
  /\ b.a # "InChain"
  /\ b.state \in UnlockedStates \union
       {"NONE", "HAVE_SCRIPT_COIN_SPEND_TX", "SWAP_TIMEDOUT"}

\* How far the swap is, for networks with the broadcast transactions S and the
\* sent messages M.
PhaseInv(M, S) ==
  /\ db["F"].state = "BID_ACCEPTED" => "TXN_SIGS_FL" \notin M
  /\ "TXN_SIGS_FL" \notin M => db["L"].state \in {"BID_ACCEPTED", "SWAP_TIMEDOUT"}
  /\ db["L"].state \in UnlockedStates \union {"SWAP_TIMEDOUT"} => "a_lock" \notin S
  /\ db["L"].state \in UnlockedStates \union
       {"HAVE_SCRIPT_COIN_SPEND_TX", "SWAP_TIMEDOUT"} => "LOCK_SPEND_TX_LF" \notin M
  /\ "LOCK_SPEND_TX_LF" \notin M =>
       /\ "refund" \notin S
       /\ \A n \in Nodes : Quiet(db[n]) /\ Quiet(mem[n])
  /\ db["F"].b = "None" => "b_lock" \notin S
  /\ "b_lock_dup" \notin S

\* What the two engines have on record, in memory, queued and watched fits with
\* the networks and with each other.
TrackInv ==
  /\ \A n \in Nodes :
       NodeInv(n, db[n], mem[n], actions[n], watch[n], conf, sent)
  /\ waited["L"] >= 0 => Mined("swipe")
  /\ PhaseInv(msgs, sent)

\* Coin B is locked after coin A.  Kept apart from TrackInv, as it needs none of
\* the hypotheses.
OrderInv ==
  /\ db["F"].state = "SCRIPT_COIN_LOCKED" => Mined("a_lock")
  /\ mem["F"].state = "SCRIPT_COIN_LOCKED" => Mined("a_lock")
  /\ "SEND_LOCK_TX_B" \in actions["F"] => Mined("a_lock")
  /\ "b_lock" \in sent => Mined("a_lock")

\* The row d of a bid may become e.
Advances(d, e) ==
  /\ d.state \in EndStates \union {"SWAP_TIMEDOUT"} /\ ~d.in_progress => e = d
  /\ "refund" \in d.txns /\ d.state \notin ForwardStates =>
       e.state \notin ForwardStates
  /\ d.txns \subseteq e.txns
  /\ d.a = "InChain" => e.a = "InChain"
  /\ d.b = "Spent" => e.b = "Spent"

\* Every row advances.
RowsAdvance == \A n \in Nodes : Advances(db[n], db'[n])

\* What is shown of every step.
Tracked ==
  /\ OrderInv'
  /\ CommitsWithEffect /\ TrackInv => TrackInv' /\ RowsAdvance

-----------------------------------------------------------------------------
\* What a step writes.

\* What the node n has on record becomes d, in memory m and in its queue q.
Writes(n, d, m, q) ==
  /\ db' = [db EXCEPT ![n] = d]
  /\ mem' = [mem EXCEPT ![n] = m]
  /\ actions' = [actions EXCEPT ![n] = q]

\* The ways in which a handler writes, each as what it writes.
LEMMA WritesForms ==
  ASSUME RowsInv, NEW n \in Nodes
  PROVE  /\ \A b, done, more : SaveBid(n, b, done, more) =>
              Writes(n, b, b, (actions[n] \ done) \union more)
         /\ \A act : Drop(n, act) => Writes(n, db[n], mem[n], actions[n] \ {act})
         /\ \A act : ActionError(n, act) =>
              Writes(n, [db[n] EXCEPT !.state = "BID_ERROR"], mem[n],
                     actions[n] \ {act})
         /\ LoseMemory(n) /\ UNCHANGED <<db, actions>> =>
              Writes(n, db[n], NoBid, actions[n])
         /\ \A b : Deactivate(n, b) =>
              Writes(n, [b EXCEPT !.in_progress = FALSE], NoBid, {})
         /\ \A o, b, save, more : CommitCheck(n, o, b, save, more) =>
              Writes(n, IF save THEN b ELSE Row(n, o), b,
                     actions[n] \union o.acts \union more)
         /\ UNCHANGED <<db, mem, actions>> =>
              Writes(n, db[n], mem[n], actions[n])
  <1>1. /\ [db EXCEPT ![n] = db[n]] = db /\ [mem EXCEPT ![n] = mem[n]] = mem
        /\ [actions EXCEPT ![n] = actions[n]] = actions
    BY DEF RowsInv
  <1>2. \A b, done, more : SaveBid(n, b, done, more) =>
              Writes(n, b, b, (actions[n] \ done) \union more)
    BY DEF SaveBid, Writes
  <1>3. \A act : Drop(n, act) => Writes(n, db[n], mem[n], actions[n] \ {act})
    BY <1>1 DEF Drop, Writes
  <1>4. \A act : ActionError(n, act) =>
              Writes(n, [db[n] EXCEPT !.state = "BID_ERROR"], mem[n],
                     actions[n] \ {act})
    BY <1>1 DEF ActionError, Writes
  <1>5. LoseMemory(n) /\ UNCHANGED <<db, actions>> =>
              Writes(n, db[n], NoBid, actions[n])
    BY <1>1 DEF LoseMemory, Writes
  <1>6. \A b : Deactivate(n, b) =>
              Writes(n, [b EXCEPT !.in_progress = FALSE], NoBid, {})
    BY DEF Deactivate, Writes
  <1>7. \A o, b, save, more : CommitCheck(n, o, b, save, more) =>
              Writes(n, IF save THEN b ELSE Row(n, o), b,
                     actions[n] \union o.acts \union more)
    BY DEF CommitCheck, Writes
  <1>8. UNCHANGED <<db, mem, actions>> => Writes(n, db[n], mem[n], actions[n])
    BY <1>1 DEF Writes
  <1> QED BY <1>2, <1>3, <1>4, <1>5, <1>6, <1>7, <1>8

\* What a state says stays true while the networks only grow.
LEMMA ToldMore ==
  ASSUME LedgerGrows, NEW n, NEW s, Told(n, s, conf, sent)
  PROVE  Told(n, s, conf', sent')
  BY TxFacts DEF LedgerGrows, Told, LeaderTold, FollowerTold

\* So does a node's part of the invariant.
LEMMA NodeInvMore ==
  ASSUME LedgerGrows, NEW n, NEW d, NEW m, NEW q, NEW w,
         NodeInv(n, d, m, q, w, conf, sent)
  PROVE  NodeInv(n, d, m, q, w, conf', sent')
  BY ToldMore DEF NodeInv

\* A row that stays advances.
LEMMA AdvancesSame == \A d : Advances(d, d)
  BY DEF Advances

\* A step of node n that writes what the node's invariant allows, and that
\* leaves the phase as it should be.
LEMMA NodeStep ==
  ASSUME Inv, TrackInv, LedgerGrows, NEW n \in Nodes, NEW d, NEW m, NEW q, NEW w,
         Writes(n, d, m, q), watch' = [watch EXCEPT ![n] = w],
         NodeInv(n, d, m, q, w, conf', sent'), Advances(db[n], d),
         PhaseInv(msgs, sent)',
         waited' = waited \/ (waited["L"] >= 0 => Mined("swipe"))'
  PROVE  TrackInv' /\ RowsAdvance
  <1>1. /\ db'[n] = d /\ mem'[n] = m /\ actions'[n] = q /\ watch'[n] = w
        /\ \A k \in Nodes \ {n} : /\ db'[k] = db[k] /\ mem'[k] = mem[k]
                                  /\ actions'[k] = actions[k] /\ watch'[k] = watch[k]
    BY DEF Writes, Inv, RowsInv, EngineInv
  <1>2. \A k \in Nodes :
          NodeInv(k, db'[k], mem'[k], actions'[k], watch'[k], conf', sent')
    BY <1>1, NodeInvMore DEF TrackInv
  <1>3. (waited["L"] >= 0 => Mined("swipe"))'
    BY TxFacts DEF TrackInv, LedgerGrows, Mined
  <1>4. RowsAdvance
    BY <1>1, AdvancesSame DEF RowsAdvance
  <1> QED BY <1>2, <1>3, <1>4 DEF TrackInv

\* A step of the follower keeps the order when what it writes names a locked
\* coin A, or queues or sends the coin B lock, only with coin A locked.
LEMMA OrderWritten ==
  ASSUME RowsInv, OrderInv, LedgerGrows,
         NEW d, NEW m, NEW q, Writes("F", d, m, q),
         \A s \in {d.state, m.state} : s = "SCRIPT_COIN_LOCKED" =>
            s \in {db["F"].state, mem["F"].state} \/ Mined("a_lock"),
         "SEND_LOCK_TX_B" \in q => "SEND_LOCK_TX_B" \in actions["F"] \/ Mined("a_lock"),
         "b_lock" \in sent' => "b_lock" \in sent \/ Mined("a_lock")
  PROVE  OrderInv'
  BY TxFacts, NodeFacts DEF RowsInv, OrderInv, LedgerGrows, Writes, Mined

\* A step of the leader leaves the follower's order alone.
LEMMA OrderKept ==
  ASSUME RowsInv, OrderInv, LedgerGrows, NEW d, NEW m, NEW q, Writes("L", d, m, q),
         "b_lock" \in sent' => "b_lock" \in sent
  PROVE  OrderInv'
  BY TxFacts, NodeFacts DEF RowsInv, OrderInv, LedgerGrows, Writes, Mined

\* The messages and transactions that mark the phases are the same after the
\* step, but for a refund past the first phase.
SamePhase ==
  /\ \A x \in {"TXN_SIGS_FL", "LOCK_SPEND_TX_LF"} : x \in msgs' <=> x \in msgs
  /\ \A t \in {"a_lock", "b_lock", "b_lock_dup"} : t \in sent' <=> t \in sent
  /\ "refund" \in sent' => "refund" \in sent \/ "LOCK_SPEND_TX_LF" \in msgs

\* A node that is past the first states has seen the leader's lock spend
\* message go out.
LEMMA Late ==
  ASSUME TrackInv, NEW n \in Nodes, ~Quiet(db[n]) \/ ~Quiet(mem[n])
  PROVE  "LOCK_SPEND_TX_LF" \in msgs
  BY DEF TrackInv, PhaseInv

\* Past the first phase only the coin B lock is left to mark a phase.
LEMMA PhaseLate ==
  ASSUME RowsInv, PhaseInv(msgs, sent), NEW n \in Nodes, NEW d, NEW m, NEW q,
         Writes(n, d, m, q), "LOCK_SPEND_TX_LF" \in msgs, msgs \subseteq msgs',
         n = "L" => d.state \notin UnlockedStates \union
                       {"HAVE_SCRIPT_COIN_SPEND_TX", "SWAP_TIMEDOUT"},
         n = "F" => d.state # "BID_ACCEPTED",
         n = "F" /\ d.b = "None" => "b_lock" \notin sent',
         n = "L" /\ "b_lock" \in sent' => "b_lock" \in sent,
         "b_lock_dup" \notin sent'
  PROVE  PhaseInv(msgs, sent)'
  <1>1. /\ db["L"].state \notin UnlockedStates \union
                       {"HAVE_SCRIPT_COIN_SPEND_TX", "SWAP_TIMEDOUT"}
        /\ "TXN_SIGS_FL" \in msgs /\ db["F"].state # "BID_ACCEPTED"
    BY DEF PhaseInv, UnlockedStates
  <1>2. /\ db'[n] = d /\ \A k \in Nodes \ {n} : db'[k] = db[k]
        /\ "L" \in Nodes /\ "F" \in Nodes /\ Nodes = {"L", "F"}
    BY NodeFacts DEF Writes, RowsInv
  <1>3. /\ db'["F"].state # "BID_ACCEPTED"
        /\ db'["L"].state \notin UnlockedStates \union
                       {"HAVE_SCRIPT_COIN_SPEND_TX", "SWAP_TIMEDOUT"}
        /\ "TXN_SIGS_FL" \in msgs' /\ "LOCK_SPEND_TX_LF" \in msgs'
    BY <1>1, <1>2
  <1>4. db'["F"].b = "None" => "b_lock" \notin sent'
    BY <1>2 DEF PhaseInv
  <1> QED BY <1>3, <1>4 DEF PhaseInv

\* A process that dies forgets what it had in memory.
LEMMA Forgets ==
  ASSUME Inv, TrackInv, LedgerGrows, NEW n \in Nodes, LoseMemory(n),
         UNCHANGED <<db, actions, waited>>, SamePhase
  PROVE  TrackInv' /\ RowsAdvance
  <1>1. NoBid.state = "NONE" /\ NoBid.a = "None" /\ ~NoBid.in_progress
    BY DEF NoBid
  <1>2. Writes(n, db[n], NoBid, actions[n]) /\ watch' = [watch EXCEPT ![n] = {}]
    BY WritesForms DEF Inv, LoseMemory
  <1>3. NodeInv(n, db[n], NoBid, actions[n], {}, conf', sent')
    <2>1. NodeInv(n, db[n], mem[n], actions[n], watch[n], conf', sent')
      BY NodeInvMore DEF TrackInv
    <2>2. Told(n, "NONE", conf', sent')
      BY DEF Told, LeaderTold, FollowerTold, LeaderStates, FollowerStates
    <2>3. ~db[n].in_progress =>
            \/ Closed(db[n], NoBid, actions[n], {})
            \/ Fresh(n, db[n], NoBid, actions[n], {})
      BY <1>1, <2>1 DEF NodeInv, Closed, Fresh
    <2>4. n = "F" => FollowerRow(db[n], NoBid, actions[n])
      BY <1>1, <2>1 DEF NodeInv, FollowerRow, CanTimeout
    <2>5. n = "L" => LeaderRow(db[n], NoBid, actions[n])
      BY <1>1, <2>1 DEF NodeInv, LeaderRow, CanTimeout, UnlockedStates
    <2> QED BY <1>1, <2>1, <2>2, <2>3, <2>4, <2>5 DEF NodeInv, Mirrors
  <1>4. Quiet(NoBid)
    BY <1>1 DEF Quiet
  <1>5. \A k \in Nodes : mem'[k] \in {mem[k], NoBid}
    BY DEF LoseMemory, Inv, RowsInv
  <1>6. PhaseInv(msgs, sent)'
    BY <1>4, <1>5 DEF TrackInv, PhaseInv, SamePhase
  <1> QED BY <1>2, <1>3, <1>6, AdvancesSame, NodeStep

\* The fields of a bid whose state is changed.
LEMMA EditFacts ==
  ASSUME NEW b \in Bids
  PROVE  /\ b.state \in BidStates /\ b.txns \in SUBSET Tx /\ b.in_progress \in BOOLEAN
         /\ \A s : LET e == [b EXCEPT !.state = s]
                   IN e.state = s /\ e.a = b.a /\ e.b = b.b /\ e.txns = b.txns
                      /\ e.in_progress = b.in_progress
  BY DEF Bids

\* An action is dropped, or nothing is written at all.
LEMMA DropTracked ==
  ASSUME Inv, TrackInv, LedgerGrows, NEW n \in Nodes, NEW act,
         Drop(n, act) \/ UNCHANGED <<db, mem, actions>>,
         UNCHANGED <<watch, waited>>, SamePhase
  PROVE  TrackInv' /\ RowsAdvance
  <1>1. PICK q \in SUBSET actions[n] : Writes(n, db[n], mem[n], q)
    <2>1. actions[n] \ {act} \in SUBSET actions[n] /\ actions[n] \in SUBSET actions[n]
      OBVIOUS
    <2> QED BY <2>1, WritesForms DEF Inv
  <1>2. watch' = [watch EXCEPT ![n] = watch[n]]
    BY DEF Inv, EngineInv
  <1>3. NodeInv(n, db[n], mem[n], q, watch[n], conf', sent')
    <2>1. NodeInv(n, db[n], mem[n], actions[n], watch[n], conf', sent')
      BY NodeInvMore DEF TrackInv
    <2> QED BY <2>1 DEF NodeInv, Closed, Fresh, LeaderRow, FollowerRow
  <1>4. UNCHANGED <<db, mem>>
    BY DEF Drop
  <1>5. PhaseInv(msgs, sent)'
    BY <1>4 DEF TrackInv, PhaseInv, SamePhase
  <1> QED BY <1>1, <1>2, <1>3, <1>5, AdvancesSame, NodeStep

\* A handler past the first phase saves a bid that is in progress.
LEMMA LateSaved ==
  ASSUME Inv, TrackInv, LedgerGrows, NEW n \in Nodes, NEW b, NEW done, NEW more,
         NEW w, SaveBid(n, b, done, more), watch' = [watch EXCEPT ![n] = w],
         waited' = waited, SamePhase, "LOCK_SPEND_TX_LF" \in msgs,
         b.in_progress, Told(n, b.state, conf', sent'), Advances(db[n], b),
         b.state \notin {"NONE", "SWAP_TIMEDOUT"},
         b.state \in CanTimeout =>
           /\ n = "F" /\ b.state = "MSG_SCRIPT_LOCK_SPEND_TX"
           /\ db[n].state = b.state /\ more = {},
         n = "F" => (b.b = "None" <=> db[n].b = "None"),
         more \intersect {"SIGN_LOCK_TX_A", "SEND_LOCK_SPEND_MSG",
                          "SEND_LOCK_TX_B", "SEND_MERCY_TX"} = {}
  PROVE  TrackInv' /\ RowsAdvance
  <1> DEFINE q == (actions[n] \ done) \union more
  <1>1. Writes(n, b, b, q)
    BY WritesForms DEF Inv
  <1>3. NodeInv(n, db[n], mem[n], actions[n], watch[n], conf, sent)
    BY DEF TrackInv
  <1>4. /\ n = "L" => db[n].state # "HAVE_SCRIPT_COIN_SPEND_TX"
        /\ n = "F" => db[n].state # "BID_ACCEPTED"
    BY DEF TrackInv, PhaseInv, UnlockedStates
  <1>5. Mirrors(b, b)
    BY DEF Mirrors
  <1>6. n = "L" => LeaderRow(b, b, q)
    BY <1>3, <1>4 DEF NodeInv, LeaderRow, CanTimeout, UnlockedStates
  <1>7. n = "F" => FollowerRow(b, b, q)
    BY <1>3, <1>4 DEF NodeInv, FollowerRow, CanTimeout, UnlockedStates
  <1>8. NodeInv(n, b, b, q, w, conf', sent')
    BY <1>5, <1>6, <1>7 DEF NodeInv, CanTimeout
  <1>9. PhaseInv(msgs, sent)'
    <2>1. db'[n] = b /\ \A k \in Nodes \ {n} : db'[k] = db[k]
      BY <1>1 DEF Writes, Inv, RowsInv
    <2> QED BY <2>1, NodeFacts DEF TrackInv, PhaseInv, SamePhase,
            UnlockedStates, CanTimeout
  <1> HIDE DEF q
  <1> QED BY <1>1, <1>8, <1>9, NodeStep

\* An exception in a handler past the first phase, whose bid has no refund on
\* record.
LEMMA LateError ==
  ASSUME Inv, TrackInv, LedgerGrows, NEW act \in actions["F"],
         ActionError("F", act), UNCHANGED <<watch, waited>>, SamePhase,
         "LOCK_SPEND_TX_LF" \in msgs, db["F"].in_progress,
         "refund" \notin db["F"].txns, act \notin {"SIGN_LOCK_TX_A", "SEND_MERCY_TX"}
  PROVE  TrackInv' /\ RowsAdvance
  <1> DEFINE n == "F"
             d == [db[n] EXCEPT !.state = "BID_ERROR"]
             q == actions[n] \ {act}
  <1>0. db[n] \in Bids /\ mem[n] \in Bids
    BY NodeFacts DEF Inv, RowsInv
  <1>1. Writes(n, d, mem[n], q) /\ watch' = [watch EXCEPT ![n] = watch[n]]
    BY NodeFacts, WritesForms DEF Inv, EngineInv
  <1>2. /\ d.state = "BID_ERROR" /\ d.a = db[n].a /\ d.b = db[n].b
        /\ d.txns = db[n].txns /\ d.in_progress = db[n].in_progress
    BY <1>0, EditFacts
  <1> HIDE DEF d
  <1>4. NodeInv(n, db[n], mem[n], actions[n], watch[n], conf', sent')
    BY NodeFacts, NodeInvMore DEF TrackInv
  <1>5. db["F"].state # "BID_ACCEPTED"
    BY DEF TrackInv, PhaseInv, UnlockedStates
  <1>6. Told(n, "BID_ERROR", conf', sent')
    BY DEF Told, LeaderTold, FollowerTold, LeaderStates, FollowerStates
  <1>7. FollowerRow(d, mem[n], q)
    BY <1>2, <1>4, <1>5 DEF NodeInv, FollowerRow, CanTimeout, UnlockedStates
  <1>9. NodeInv(n, d, mem[n], q, watch[n], conf', sent')
    BY <1>2, <1>4, <1>6, <1>7 DEF NodeInv, Mirrors
  <1>10. Advances(db[n], d)
    BY <1>2 DEF Advances
  <1>11. PhaseInv(msgs, sent)'
    <2>1. db'[n] = d /\ \A k \in Nodes \ {n} : db'[k] = db[k]
      BY <1>1, NodeFacts DEF Writes, Inv, RowsInv
    <2> QED BY <1>2, <2>1, NodeFacts DEF TrackInv, PhaseInv, SamePhase,
            UnlockedStates
  <1> HIDE DEF q
  <1> QED BY NodeFacts, <1>1, <1>9, <1>10, <1>11, NodeStep

\* A node with one of the later actions in its queue is past the first phase
\* and follows its bid.
LEMMA Running ==
  ASSUME TrackInv, NEW n \in Nodes, NEW act \in actions[n],
         act \notin {"SIGN_LOCK_TX_A", "SEND_LOCK_TX_A", "SEND_LOCK_SPEND_MSG"}
  PROVE  /\ db[n].in_progress /\ "LOCK_SPEND_TX_LF" \in msgs
         /\ db[n].state \notin UnlockedStates \union
              {"NONE", "HAVE_SCRIPT_COIN_SPEND_TX", "SWAP_TIMEDOUT"}
         /\ n = "F" => db[n].state \notin CanTimeout \/
              (act = "SEND_MERCY_TX" /\ db[n].state = "MSG_SCRIPT_LOCK_SPEND_TX")
  <1>1. NodeInv(n, db[n], mem[n], actions[n], watch[n], conf, sent)
    BY DEF TrackInv
  <1>2. db[n].in_progress
    BY <1>1 DEF NodeInv, Closed, Fresh
  <1>3. /\ db[n].state \notin UnlockedStates \union
              {"NONE", "HAVE_SCRIPT_COIN_SPEND_TX", "SWAP_TIMEDOUT"}
        /\ n = "F" => db[n].state \notin CanTimeout \/
             (act = "SEND_MERCY_TX" /\ db[n].state = "MSG_SCRIPT_LOCK_SPEND_TX")
    BY <1>1, <1>2, NodeFacts DEF NodeInv, LeaderRow, FollowerRow, UnlockedStates,
       CanTimeout, Told, FollowerTold, FollowerStates
  <1>4. ~Quiet(db[n])
    BY <1>3 DEF Quiet
  <1> QED BY <1>2, <1>3, <1>4, Late

\* A failed coin B transaction leaves the row or saves it with BID_ERROR.
LEMMA RetryForms ==
  ASSUME RowsInv, NEW n \in Nodes, NEW act, NEW k, NEW failure,
         RetryOrError(n, act, k, failure)
  PROVE  \/ UNCHANGED <<db, mem, actions>>
         \/ SaveBid(n, [db[n] EXCEPT !.state = "BID_ERROR"], {act}, {})
  BY DEF RetryOrError

\* The order is kept by a step of the leader.
LEMMA OrderLeader ==
  ASSUME RowsInv, OrderInv, LedgerGrows, "b_lock" \in sent' => "b_lock" \in sent,
         \/ \E b, done, more : SaveBid("L", b, done, more)
         \/ \E act : Drop("L", act) \/ ActionError("L", act) \/ Die("L", act)
         \/ \E b : Deactivate("L", b)
         \/ \E o, b, save, more : CommitCheck("L", o, b, save, more)
         \/ UNCHANGED <<db, mem, actions>>
  PROVE  OrderInv'
  <1>1. db'["F"] = db["F"] /\ mem'["F"] = mem["F"] /\ actions'["F"] = actions["F"]
    BY NodeFacts DEF RowsInv, SaveBid, Drop, ActionError, Die, LoseMemory,
       Deactivate, CommitCheck
  <1> QED BY <1>1, TxFacts DEF OrderInv, LedgerGrows, Mined

\* The order is kept by a handler of the follower that neither moves the bid to
\* SCRIPT_COIN_LOCKED nor queues the coin B lock.
LEMMA OrderFollower ==
  ASSUME RowsInv, OrderInv, LedgerGrows,
         "b_lock" \in sent' => "b_lock" \in sent \/ Mined("a_lock"),
         \/ \E b, done, more :
              /\ SaveBid("F", b, done, more) /\ "SEND_LOCK_TX_B" \notin more
              /\ b.state = "SCRIPT_COIN_LOCKED" =>
                   db["F"].state = "SCRIPT_COIN_LOCKED"
         \/ \E act : Drop("F", act) \/ ActionError("F", act) \/ Die("F", act)
         \/ UNCHANGED <<db, mem, actions>>
  PROVE  OrderInv'
  <1> DEFINE err == [db["F"] EXCEPT !.state = "BID_ERROR"]
  <1>0. "F" \in Nodes /\ NoBid.state = "NONE" /\ err.state = "BID_ERROR"
    BY NodeFacts DEF NoBid, RowsInv, Bids
  <1>1. CASE \E b, done, more :
              /\ SaveBid("F", b, done, more) /\ "SEND_LOCK_TX_B" \notin more
              /\ b.state = "SCRIPT_COIN_LOCKED" =>
                   db["F"].state = "SCRIPT_COIN_LOCKED"
    <2>1. PICK b, done, more :
              /\ SaveBid("F", b, done, more) /\ "SEND_LOCK_TX_B" \notin more
              /\ b.state = "SCRIPT_COIN_LOCKED" =>
                   db["F"].state = "SCRIPT_COIN_LOCKED"
      BY <1>1
    <2>2. Writes("F", b, b, (actions["F"] \ done) \union more)
      BY <1>0, <2>1, WritesForms
    <2> QED BY <2>1, <2>2, OrderWritten
  <1>2. CASE \E act : Drop("F", act) \/ ActionError("F", act) \/ Die("F", act)
    <2>1. PICK act : Drop("F", act) \/ ActionError("F", act) \/ Die("F", act)
      BY <1>2
    <2> HIDE DEF err
    <2>2. \E d \in {db["F"], err}, m \in {mem["F"], NoBid}, q \in SUBSET actions["F"] :
            Writes("F", d, m, q)
      <3>1. actions["F"] \ {act} \in SUBSET actions["F"]
            /\ actions["F"] \in SUBSET actions["F"]
        OBVIOUS
      <3> QED BY <1>0, <2>1, <3>1, WritesForms DEF Die, err
    <2> QED BY <1>0, <2>2, OrderWritten
  <1>3. CASE UNCHANGED <<db, mem, actions>>
    BY <1>3, TxFacts DEF OrderInv, LedgerGrows, Mined
  <1> QED BY <1>1, <1>2, <1>3

\* A failed coin B transaction past the first phase.
LEMMA LateRetry ==
  ASSUME Inv, TrackInv, LedgerGrows, NEW n \in Nodes, NEW act \in actions[n],
         NEW k, NEW failure, RetryOrError(n, act, k, failure),
         act \notin {"SIGN_LOCK_TX_A", "SEND_LOCK_TX_A", "SEND_LOCK_SPEND_MSG"},
         UNCHANGED <<watch, waited>>, SamePhase
  PROVE  TrackInv' /\ RowsAdvance
  <1> DEFINE b == [db[n] EXCEPT !.state = "BID_ERROR"]
  <1>1. /\ b.state = "BID_ERROR" /\ b.a = db[n].a /\ b.b = db[n].b
        /\ b.txns = db[n].txns /\ b.in_progress = db[n].in_progress
    BY EditFacts DEF Inv, RowsInv
  <1>2. UNCHANGED <<db, mem, actions>> \/ SaveBid(n, b, {act}, {})
    BY RetryForms DEF Inv
  <1>3. CASE UNCHANGED <<db, mem, actions>>
    BY <1>3, DropTracked
  <1>4. CASE SaveBid(n, b, {act}, {})
    <2> HIDE DEF b
    <2>1. db[n].in_progress /\ "LOCK_SPEND_TX_LF" \in msgs
      BY Running
    <2>2. Told(n, b.state, conf', sent')
      BY <1>1 DEF Told, LeaderTold, FollowerTold, LeaderStates, FollowerStates
    <2>3. Advances(db[n], b)
      BY <1>1, <2>1 DEF Advances, ForwardStates
    <2>4. watch' = [watch EXCEPT ![n] = watch[n]]
      BY DEF Inv, EngineInv
    <2>5. b.state \notin CanTimeout \union {"NONE", "SWAP_TIMEDOUT"}
      BY <1>1 DEF CanTimeout
    <2> QED BY <1>1, <1>4, <2>1, <2>2, <2>3, <2>4, <2>5, LateSaved
  <1> QED BY <1>2, <1>3, <1>4

\* A step of node n past the first phase.
LEMMA LateStep ==
  ASSUME Inv, TrackInv, LedgerGrows, NEW n \in Nodes, NEW d, NEW m, NEW q, NEW w,
         Writes(n, d, m, q), watch' = [watch EXCEPT ![n] = w],
         NodeInv(n, d, m, q, w, conf', sent'), Advances(db[n], d),
         SamePhase, "LOCK_SPEND_TX_LF" \in msgs,
         n = "L" => d.state \notin UnlockedStates \union
                      {"HAVE_SCRIPT_COIN_SPEND_TX", "SWAP_TIMEDOUT"},
         n = "F" => d.state # "BID_ACCEPTED",
         n = "F" /\ d.b = "None" => db[n].b = "None",
         waited' = waited \/ (waited["L"] >= 0 => Mined("swipe"))'
  PROVE  TrackInv' /\ RowsAdvance
  <1>1. PhaseInv(msgs, sent)'
    <2>1. db'[n] = d /\ \A k \in Nodes \ {n} : db'[k] = db[k]
      BY DEF Writes, Inv, RowsInv
    <2>2. PhaseInv(msgs, sent)
      BY DEF TrackInv
    <2> QED BY <2>1, <2>2, NodeFacts DEF PhaseInv, SamePhase, UnlockedStates
  <1> QED BY <1>1, NodeStep

-----------------------------------------------------------------------------
\* The queued actions.

\* sendXmrBidTxnSigsFtoL starts the follower's bid.
LEMMA SendTxnSigsFtoLTracked ==
  ASSUME Inv, OrderInv, LedgerGrows, SendTxnSigsFtoL
  PROVE  Tracked
  <1> DEFINE b == [db["F"] EXCEPT !.state = "MSG_SCRIPT_LOCK_TX_SIGS",
                                  !.a = IF @ = "None" THEN "New" ELSE @,
                                  !.in_progress = TRUE]
             q == (actions["F"] \ {"SIGN_LOCK_TX_A"}) \union {}
  <1>1. /\ b.state = "MSG_SCRIPT_LOCK_TX_SIGS" /\ b.in_progress
        /\ b.a = (IF db["F"].a = "None" THEN "New" ELSE db["F"].a)
        /\ b.b = db["F"].b /\ b.txns = db["F"].txns /\ NoBid.state = "NONE"
    BY NodeFacts DEF Inv, RowsInv, Bids, NoBid
  <1>2. \/ /\ Writes("F", b, b, q)
           /\ watch' = [watch EXCEPT !["F"] = WatchSet("F", b)]
        \/ /\ Writes("F", db["F"], NoBid, actions["F"])
           /\ "SIGN_LOCK_TX_A" \in PartialFailures
    BY NodeFacts, WritesForms DEF Inv, SendTxnSigsFtoL, Die
  <1>3. sent' = sent /\ waited' = waited /\ msgs' = msgs \union {"TXN_SIGS_FL"}
    BY DEF SendTxnSigsFtoL
  <1> HIDE DEF b
  <1>4. OrderInv'
    BY <1>1, <1>2, <1>3, OrderWritten DEF Inv
  <1>5. ASSUME CommitsWithEffect, TrackInv PROVE TrackInv' /\ RowsAdvance
    <2>1. /\ Writes("F", b, b, q)
          /\ watch' = [watch EXCEPT !["F"] = WatchSet("F", b)]
      BY <1>2, <1>5 DEF CommitsWithEffect
    <2>2. /\ "F" \in Nodes /\ "SIGN_LOCK_TX_A" \in actions["F"]
          /\ NodeInv("F", db["F"], mem["F"], actions["F"], watch["F"], conf, sent)
      BY <1>5, NodeFacts DEF TrackInv, SendTxnSigsFtoL, Due
    <2>3. /\ db["F"].state = "BID_ACCEPTED" /\ db["F"].a = "None"
          /\ db["F"].b = "None" /\ db["F"].txns = {} /\ q = {}
          /\ ~db["F"].in_progress
      BY <2>2 DEF NodeInv, FollowerRow, Closed, Fresh, CanTimeout, EndStates
    <2>4. NodeInv("F", b, b, q, WatchSet("F", b), conf', sent')
      BY <1>1, <2>3 DEF NodeInv, Mirrors, FollowerRow, Told, FollowerTold,
         FollowerStates, UnlockedStates
    <2>5. Advances(db["F"], b)
      BY <1>1, <2>3 DEF Advances, EndStates
    <2>6. PhaseInv(msgs, sent)'
      <3>1. db'["F"] = b /\ mem'["F"] = b /\ db'["L"] = db["L"] /\ mem'["L"] = mem["L"]
        BY <2>1, NodeFacts DEF Writes, Inv, RowsInv
      <3>2. Quiet(b)
        BY <1>1, <2>3 DEF Quiet, UnlockedStates
      <3> QED BY <1>1, <1>3, <1>5, <2>3, <3>1, <3>2, NodeFacts DEF TrackInv, PhaseInv
    <2> HIDE DEF q
    <2> QED BY <1>3, <1>5, <2>1, <2>2, <2>4, <2>5, <2>6, NodeStep
  <1> QED BY <1>4, <1>5 DEF Tracked

\* sendXmrBidCoinALockTx starts the leader's bid, unless it was started.
LEMMA SendCoinALockTxTracked ==
  ASSUME Inv, OrderInv, LedgerGrows, SendCoinALockTx
  PROVE  Tracked
  <1> DEFINE act == "SEND_LOCK_TX_A"
             b == [db["L"] EXCEPT !.state = "HAVE_SCRIPT_COIN_SPEND_TX",
                                  !.a = "Sent", !.in_progress = TRUE]
             q == (actions["L"] \ {act}) \union {"SEND_LOCK_SPEND_MSG"}
             T == IF db["L"].a = "Sent" THEN {} ELSE {"a_lock"}
  <1>0. "L" \in Nodes /\ db["L"] \in Bids /\ RowsInv /\ LedgerTypeOK
    BY NodeFacts DEF Inv, RowsInv, LedgerInv
  <1>1. /\ b.state = "HAVE_SCRIPT_COIN_SPEND_TX" /\ b.in_progress /\ b.a = "Sent"
        /\ b.b = db["L"].b /\ b.txns = db["L"].txns
    BY <1>0 DEF Bids
  <1>2. waited' = waited /\ msgs' = msgs
    BY DEF SendCoinALockTx
  <1>3. \/ Drop("L", act) /\ UNCHANGED <<conf, sent, watch>>
        \/ /\ db["L"].state = "MSG_SCRIPT_LOCK_TX_SIGS" /\ Broadcast(T)
           /\ Writes("L", b, b, q)
           /\ watch' = [watch EXCEPT !["L"] = WatchSet("L", b)]
        \/ Broadcast(T) /\ Die("L", act)
        \/ /\ db["L"].state = "MSG_SCRIPT_LOCK_TX_SIGS" /\ Rejects("a_lock")
           /\ ActionError("L", act) /\ UNCHANGED sent
    BY <1>0, WritesForms DEF SendCoinALockTx
  <1> HIDE DEF b
  <1>4. OrderInv'
    <2>1. "b_lock" \in sent' => "b_lock" \in sent
      BY <1>3 DEF Broadcast
    <2>2. \E d, m, q1 : Writes("L", d, m, q1)
      BY <1>0, <1>3, WritesForms DEF Die
    <2> QED BY <1>0, <2>1, <2>2, OrderKept
  <1>5. ASSUME CommitsWithEffect, TrackInv PROVE TrackInv' /\ RowsAdvance
    <2>1. NodeInv("L", db["L"], mem["L"], actions["L"], watch["L"], conf, sent)
      BY <1>0, <1>5 DEF TrackInv
    <2>2. ~Die("L", act)
      BY <1>5 DEF Die, CommitsWithEffect
    <2>3. CASE Drop("L", act) /\ UNCHANGED <<conf, sent, watch>>
      BY <1>0, <1>2, <1>5, <2>3, DropTracked DEF SamePhase
    <2>4. ASSUME db["L"].state = "MSG_SCRIPT_LOCK_TX_SIGS", Rejects("a_lock")
          PROVE  FALSE
      <3>1. "a_lock" \notin sent
        BY <1>5, <2>4 DEF TrackInv, PhaseInv, UnlockedStates
      <3>2. conf["a_lock"] = 0
        BY <3>1, TxFacts DEF Inv, LedgerInv, ExclusionInv
      <3>3. Mature("a_lock") /\ ~SpentByOther("a_lock")
        BY TxFacts, ConflictFacts DEF Mature, SpentByOther
      <3> QED BY <2>4, <3>2, <3>3, TxFacts, ConflictFacts DEF Rejects
    <2>5. CASE /\ db["L"].state = "MSG_SCRIPT_LOCK_TX_SIGS" /\ Broadcast(T)
               /\ Writes("L", b, b, q)
               /\ watch' = [watch EXCEPT !["L"] = WatchSet("L", b)]
      <3>1. /\ ~db["L"].in_progress /\ db["L"].b = "None" /\ db["L"].txns = {}
            /\ db["L"].a = "None" /\ q = {"SEND_LOCK_SPEND_MSG"}
        BY <2>1, <2>5 DEF NodeInv, LeaderRow, FollowerRow, Closed, Fresh,
           UnlockedStates, EndStates
      <3>2. NodeInv("L", b, b, q, WatchSet("L", b), conf', sent')
        BY <1>1, <3>1 DEF NodeInv, Mirrors, LeaderRow, Told, LeaderTold,
           LeaderStates, UnlockedStates
      <3>3. Advances(db["L"], b)
        BY <1>1, <2>5, <3>1 DEF Advances, EndStates
      <3>4. PhaseInv(msgs, sent)'
        <4>1. db'["L"] = b /\ mem'["L"] = b /\ db'["F"] = db["F"] /\ mem'["F"] = mem["F"]
          BY <1>0, <2>5, NodeFacts DEF Writes, RowsInv
        <4>2. Quiet(b)
          BY <1>1 DEF Quiet
        <4>3. "LOCK_SPEND_TX_LF" \notin msgs /\ "TXN_SIGS_FL" \in msgs
          BY <1>5, <2>5 DEF TrackInv, PhaseInv, UnlockedStates
        <4>4. sent' = sent \union {"a_lock"}
          BY <2>5, <3>1 DEF Broadcast
        <4> QED BY <1>1, <1>2, <1>5, <4>1, <4>2, <4>3, <4>4, NodeFacts
                DEF TrackInv, PhaseInv, UnlockedStates
      <3> HIDE DEF q
      <3> QED BY <1>0, <1>2, <1>5, <2>5, <3>2, <3>3, <3>4, NodeStep
    <2> QED BY <1>3, <2>2, <2>3, <2>4, <2>5
  <1> QED BY <1>4, <1>5 DEF Tracked

\* sendXmrBidCoinALockSpendTxMsg ends the first phase.
LEMMA SendCoinALockSpendTxMsgTracked ==
  ASSUME Inv, OrderInv, LedgerGrows, SendCoinALockSpendTxMsg
  PROVE  Tracked
  <1> DEFINE act == "SEND_LOCK_SPEND_MSG"
             b == [db["L"] EXCEPT !.state = "MSG_SCRIPT_LOCK_SPEND_TX"]
             q == (actions["L"] \ {act}) \union {}
  <1>0. "L" \in Nodes /\ db["L"] \in Bids /\ RowsInv
    BY NodeFacts DEF Inv, RowsInv
  <1>1. /\ b.state = "MSG_SCRIPT_LOCK_SPEND_TX" /\ b.in_progress = db["L"].in_progress
        /\ b.a = db["L"].a /\ b.b = db["L"].b /\ b.txns = db["L"].txns
    BY <1>0 DEF Bids
  <1>2. /\ waited' = waited /\ sent' = sent /\ act \in actions["L"]
        /\ msgs' = msgs \union {"LOCK_SPEND_TX_LF"}
    BY DEF SendCoinALockSpendTxMsg, Due
  <1>3. \/ Writes("L", b, b, q) /\ watch' = [watch EXCEPT !["L"] = watch["L"]]
        \/ Die("L", act)
    BY <1>0, WritesForms DEF SendCoinALockSpendTxMsg, Inv, EngineInv
  <1> HIDE DEF b
  <1>4. OrderInv'
    <2>1. \E d, m, q1 : Writes("L", d, m, q1)
      BY <1>0, <1>3, WritesForms DEF Die
    <2> QED BY <1>0, <1>2, <2>1, OrderKept
  <1>5. ASSUME CommitsWithEffect, TrackInv PROVE TrackInv' /\ RowsAdvance
    <2>1. NodeInv("L", db["L"], mem["L"], actions["L"], watch["L"], conf, sent)
      BY <1>0, <1>5 DEF TrackInv
    <2>2. Writes("L", b, b, q) /\ watch' = [watch EXCEPT !["L"] = watch["L"]]
      BY <1>3, <1>5 DEF Die, CommitsWithEffect
    <2>3. db["L"].state = "HAVE_SCRIPT_COIN_SPEND_TX" /\ db["L"].in_progress /\ q = {}
      BY <1>2, <2>1 DEF NodeInv, LeaderRow, Closed, Fresh, UnlockedStates
    <2>4. NodeInv("L", b, b, q, watch["L"], conf', sent')
      BY <1>1, <2>1, <2>3 DEF NodeInv, Mirrors, LeaderRow, Told, LeaderTold,
         LeaderStates, UnlockedStates
    <2>5. Advances(db["L"], b)
      BY <1>1, <2>3 DEF Advances, EndStates, ForwardStates
    <2>6. PhaseInv(msgs, sent)'
      <3>1. db'["L"] = b /\ db'["F"] = db["F"]
        BY <1>0, <2>2, NodeFacts DEF Writes, RowsInv
      <3>2. "TXN_SIGS_FL" \in msgs
        BY <1>5, <2>3 DEF TrackInv, PhaseInv
      <3> QED BY <1>1, <1>2, <1>5, <3>1, <3>2 DEF TrackInv, PhaseInv, UnlockedStates
    <2> HIDE DEF q
    <2> QED BY <1>0, <1>2, <1>5, <2>2, <2>4, <2>5, <2>6, NodeStep
  <1> QED BY <1>4, <1>5 DEF Tracked

\* sendXmrBidCoinBLockTx: coin A is mined by then, and nothing is on record or
\* in the network for coin B.
LEMMA SendCoinBLockTxTracked ==
  ASSUME Inv, OrderInv, LedgerGrows, SendCoinBLockTx
  PROVE  Tracked
  <1> DEFINE act == "SEND_LOCK_TX_B"
             bid == db["F"]
             b == LockTxBSent(bid)
             err == [bid EXCEPT !.state = "BID_ERROR"]
  <1>0. /\ "F" \in Nodes /\ bid \in Bids /\ RowsInv /\ act \in actions["F"]
        /\ waited' = waited /\ msgs' = msgs
    BY NodeFacts DEF Inv, RowsInv, SendCoinBLockTx, Due
  <1>1. /\ b.state = bid.state /\ b.b = "Sent" /\ b.a = bid.a /\ b.txns = bid.txns
        /\ b.in_progress = bid.in_progress /\ FoundB(bid).state = bid.state
        /\ err.state = "BID_ERROR"
    BY <1>0 DEF LockTxBSent, FoundB, Bids
  <1> HIDE DEF b, err
  <1>2. \A k, failure : RetryOrError("F", act, k, failure) =>
          UNCHANGED <<db, mem, actions>> \/ SaveBid("F", err, {act}, {})
    BY <1>0, RetryForms DEF err
  <1>3. OrderInv'
    <2>1. Mined("a_lock")
      BY <1>0 DEF OrderInv
    <2>2. \/ SaveBid("F", FoundB(bid), {act}, {}) \/ SaveBid("F", b, {act}, {})
          \/ SaveBid("F", err, {act}, {}) \/ UNCHANGED <<db, mem, actions>>
          \/ ActionError("F", act) \/ Die("F", act)
      BY <1>2 DEF SendCoinBLockTx, b
    <2> QED BY <1>0, <1>1, <2>1, <2>2, OrderFollower
  <1>4. ASSUME CommitsWithEffect, TrackInv PROVE TrackInv' /\ RowsAdvance
    <2>1. NodeInv("F", bid, mem["F"], actions["F"], watch["F"], conf, sent)
      BY <1>0, <1>4 DEF TrackInv
    <2>2. bid.b = "None" /\ "b_lock" \notin sent
      BY <1>0, <1>4, <2>1 DEF NodeInv, FollowerRow, TrackInv, PhaseInv
    <2>3. TRUE \notin FindTxB /\ NewLockTxB = "b_lock"
      <3>1. conf["b_lock"] = 0
        BY <2>2, TxFacts DEF Inv, LedgerInv, ExclusionInv
      <3> QED BY <3>1 DEF FindTxB, NewLockTxB
    <2>4. /\ bid.in_progress /\ "LOCK_SPEND_TX_LF" \in msgs
          /\ bid.state \notin CanTimeout \union {"NONE", "SWAP_TIMEDOUT"}
      BY <1>0, <1>4, Running
    <2>5. \/ /\ Broadcast({"b_lock"}) /\ SaveBid("F", b, {act}, {})
             /\ UNCHANGED watch
          \/ /\ Broadcast({}) /\ UNCHANGED watch
             /\ \E failure : RetryOrError("F", act, "FAILED_TX_B_LOCK_PUBLISH", failure)
      <3>1. act \notin PartialFailures /\ "MISSED_SEND" \notin PartialFailures
        BY <1>4 DEF CommitsWithEffect
      <3> QED BY <2>2, <2>3, <3>1 DEF SendCoinBLockTx, Die, b
    <2>6. CASE /\ Broadcast({}) /\ UNCHANGED watch
               /\ \E failure : RetryOrError("F", act, "FAILED_TX_B_LOCK_PUBLISH", failure)
      <3>1. SamePhase
        BY <1>0, <2>6 DEF SamePhase, Broadcast
      <3> QED BY <1>0, <1>4, <2>6, <3>1, LateRetry
    <2>7. CASE Broadcast({"b_lock"}) /\ SaveBid("F", b, {act}, {}) /\ UNCHANGED watch
      <3> DEFINE q == (actions["F"] \ {act}) \union {}
      <3>1. Writes("F", b, b, q) /\ watch' = [watch EXCEPT !["F"] = watch["F"]]
        BY <1>0, <2>7, WritesForms DEF Inv, EngineInv
      <3>2. NodeInv("F", bid, mem["F"], actions["F"], watch["F"], conf', sent')
        BY <1>0, <2>1, NodeInvMore
      <3>3. FollowerRow(b, b, q) /\ Mirrors(b, b)
        BY <1>1, <2>4, <3>2 DEF NodeInv, FollowerRow, Mirrors, CanTimeout
      <3>4. NodeInv("F", b, b, q, watch["F"], conf', sent')
        BY <1>1, <2>4, <3>2, <3>3 DEF NodeInv, CanTimeout
      <3>5. Advances(bid, b)
        BY <1>1, <2>2, <2>4 DEF Advances
      <3>6. PhaseInv(msgs, sent)'
        <4>1. "b_lock_dup" \notin sent'
          BY <1>4, <2>7 DEF TrackInv, PhaseInv, Broadcast
        <4>2. PhaseInv(msgs, sent) /\ b.state # "BID_ACCEPTED" /\ b.b # "None"
          BY <1>1, <1>4, <2>4 DEF TrackInv, CanTimeout
        <4> HIDE DEF q
        <4> QED BY <1>0, <2>4, <3>1, <4>1, <4>2, PhaseLate
      <3> HIDE DEF q
      <3> QED BY <1>0, <1>4, <3>1, <3>4, <3>5, <3>6, NodeStep
    <2> QED BY <2>5, <2>6, <2>7
  <1> QED BY <1>3, <1>4 DEF Tracked

\* sendXmrBidLockRelease moves the leader forward, and only while no refund is
\* on record.
LEMMA SendLockReleaseTracked ==
  ASSUME Inv, OrderInv, LedgerGrows, SendLockRelease
  PROVE  Tracked
  <1> DEFINE act == "SEND_LOCK_RELEASE"
             bid == db["L"]
             b == [bid EXCEPT !.state = "LOCK_RELEASED"]
  <1>0. /\ "L" \in Nodes /\ bid \in Bids /\ RowsInv /\ act \in actions["L"]
        /\ UNCHANGED <<waited, conf, sent>>
    BY NodeFacts DEF Inv, RowsInv, SendLockRelease, Due
  <1>1. /\ b.state = "LOCK_RELEASED" /\ b.b = bid.b /\ b.a = bid.a
        /\ b.txns = bid.txns /\ b.in_progress = bid.in_progress
    BY <1>0, EditFacts
  <1>2. SamePhase
    BY <1>0 DEF SendLockRelease, SamePhase
  <1>3. \/ Drop("L", act) /\ UNCHANGED watch
        \/ "refund" \notin bid.txns /\ SaveBid("L", b, {act}, {}) /\ UNCHANGED watch
        \/ Die("L", act)
    BY DEF SendLockRelease
  <1> HIDE DEF b
  <1>4. OrderInv'
    BY <1>0, <1>3, OrderLeader
  <1>5. ASSUME TrackInv PROVE TrackInv' /\ RowsAdvance
    <2>1. CASE Drop("L", act) /\ UNCHANGED watch
      BY <1>0, <1>2, <1>5, <2>1, DropTracked
    <2>2. CASE Die("L", act)
      BY <1>0, <1>2, <1>5, <2>2, Forgets DEF Die
    <2>3. CASE "refund" \notin bid.txns /\ SaveBid("L", b, {act}, {}) /\ UNCHANGED watch
      <3>1. bid.in_progress /\ "LOCK_SPEND_TX_LF" \in msgs
        BY <1>0, <1>5, Running
      <3>2. Told("L", b.state, conf', sent')
        BY <1>1 DEF Told, LeaderTold, LeaderStates
      <3>3. Advances(bid, b)
        BY <1>1, <2>3, <3>1 DEF Advances
      <3>4. watch' = [watch EXCEPT !["L"] = watch["L"]]
        BY <2>3 DEF Inv, EngineInv
      <3>5. b.state \notin CanTimeout \union {"NONE", "SWAP_TIMEDOUT"}
        BY <1>1 DEF CanTimeout
      <3> QED BY <1>0, <1>1, <1>2, <1>5, <2>3, <3>1, <3>2, <3>3, <3>4, <3>5, LateSaved
    <2> QED BY <1>3, <2>1, <2>2, <2>3
  <1> QED BY <1>4, <1>5 DEF Tracked

\* redeemXmrBidCoinALockTx puts the spend on record and leaves the state.
LEMMA RedeemCoinALockTxTracked ==
  ASSUME Inv, OrderInv, LedgerGrows, RedeemCoinALockTx
  PROVE  Tracked
  <1> DEFINE act == "REDEEM_LOCK_TX_A"
             bid == db["F"]
             b == [bid EXCEPT !.txns = @ \union {"spend"}]
  <1>0. /\ "F" \in Nodes /\ bid \in Bids /\ RowsInv /\ act \in actions["F"]
        /\ UNCHANGED <<waited, msgs>>
    BY NodeFacts DEF Inv, RowsInv, RedeemCoinALockTx, Due
  <1>1. /\ b.state = bid.state /\ b.b = bid.b /\ b.a = bid.a
        /\ b.txns = bid.txns \union {"spend"} /\ b.in_progress = bid.in_progress
    BY <1>0 DEF Bids
  <1>2. SamePhase /\ ("b_lock" \in sent' => "b_lock" \in sent)
    BY <1>0 DEF RedeemCoinALockTx, SamePhase, Broadcast
  <1>3. \/ Drop("F", act) /\ UNCHANGED watch
        \/ SaveBid("F", b, {act}, {}) /\ UNCHANGED watch
        \/ ActionError("F", act) /\ UNCHANGED watch /\ "refund" \notin bid.txns
        \/ Die("F", act)
    BY DEF RedeemCoinALockTx
  <1> HIDE DEF b
  <1>4. OrderInv'
    BY <1>0, <1>1, <1>2, <1>3, OrderFollower
  <1>5. ASSUME TrackInv PROVE TrackInv' /\ RowsAdvance
    <2>0. /\ bid.in_progress /\ "LOCK_SPEND_TX_LF" \in msgs
          /\ bid.state \notin CanTimeout \union {"NONE", "SWAP_TIMEDOUT"}
      BY <1>0, <1>5, Running
    <2>1. CASE Drop("F", act) /\ UNCHANGED watch
      BY <1>0, <1>2, <1>5, <2>1, DropTracked
    <2>2. CASE Die("F", act)
      BY <1>0, <1>2, <1>5, <2>2, Forgets DEF Die
    <2>3. CASE ActionError("F", act) /\ UNCHANGED watch /\ "refund" \notin bid.txns
      BY <1>0, <1>2, <1>5, <2>0, <2>3, LateError
    <2>4. CASE SaveBid("F", b, {act}, {}) /\ UNCHANGED watch
      <3>1. Told("F", b.state, conf', sent')
        BY <1>0, <1>1, <1>5, ToldMore DEF TrackInv, NodeInv
      <3>2. Advances(bid, b)
        BY <1>1, <2>0 DEF Advances
      <3>3. watch' = [watch EXCEPT !["F"] = watch["F"]]
        BY <2>4 DEF Inv, EngineInv
      <3> QED BY <1>0, <1>1, <1>2, <1>5, <2>0, <2>4, <3>1, <3>2, <3>3, LateSaved
    <2> QED BY <1>3, <2>1, <2>2, <2>3, <2>4
  <1> QED BY <1>4, <1>5 DEF Tracked

\* redeemXmrBidCoinBLockTx writes an end only when its transaction is out.
LEMMA RedeemCoinBLockTxTracked ==
  ASSUME Inv, OrderInv, LedgerGrows, RedeemCoinBLockTx
  PROVE  Tracked
  <1> DEFINE act == "REDEEM_LOCK_TX_B"
             bid == db["L"]
             mercy == bid.state = "FAILED_SWIPED_USING_MERCY"
             s == CASE mercy /\ RedeemAddressOwned  -> bid.state
                    [] mercy /\ ~RedeemAddressOwned -> "FAILED_SWIPED_USED_MERCY"
                    [] ~mercy /\ RedeemAddressOwned -> "NOSCRIPT_TX_REDEEMED"
                    [] OTHER                        -> "SWAP_COMPLETED"
             b == [bid EXCEPT !.b = "Spent", !.state = s]
  <1>0. /\ "L" \in Nodes /\ bid \in Bids /\ RowsInv /\ act \in actions["L"]
        /\ UNCHANGED <<waited, msgs>>
    BY NodeFacts DEF Inv, RowsInv, RedeemCoinBLockTx, Due
  <1>1. /\ b.state = s /\ b.b = "Spent" /\ b.a = bid.a
        /\ b.txns = bid.txns /\ b.in_progress = bid.in_progress
    BY <1>0 DEF Bids
  <1>2. SamePhase /\ ("b_lock" \in sent' => "b_lock" \in sent)
    BY <1>0 DEF RedeemCoinBLockTx, SamePhase, Broadcast
  <1>3. \/ Drop("L", act) /\ UNCHANGED watch
        \/ SaveBid("L", b, {act}, {}) /\ UNCHANGED watch /\ Broadcast({"b_redeem"})
        \/ /\ \E failure : RetryOrError("L", act, "FAILED_TX_B_SPEND", failure)
           /\ UNCHANGED watch
        \/ Die("L", act)
    BY DEF RedeemCoinBLockTx
  <1>4. /\ s # "SCRIPT_COIN_LOCKED" /\ s \notin ForwardStates
        /\ s \notin CanTimeout \union {"NONE", "SWAP_TIMEDOUT"}
        /\ s \in {"FAILED_SWIPED_USING_MERCY", "FAILED_SWIPED_USED_MERCY"} => mercy
    BY DEF ForwardStates, CanTimeout
  <1>5. s \in {"FAILED_SWIPED_USING_MERCY", "FAILED_SWIPED_USED_MERCY",
               "NOSCRIPT_TX_REDEEMED", "SWAP_COMPLETED"}
    OBVIOUS
  <1> HIDE DEF b, s
  <1>6. OrderInv'
    <2>1. \/ \E d, done, more : SaveBid("L", d, done, more)
          \/ \E a : Drop("L", a) \/ Die("L", a)
          \/ UNCHANGED <<db, mem, actions>>
      BY <1>0, <1>3, RetryForms
    <2> QED BY <1>0, <1>2, <2>1, OrderLeader
  <1>7. ASSUME TrackInv PROVE TrackInv' /\ RowsAdvance
    <2>0. bid.in_progress /\ "LOCK_SPEND_TX_LF" \in msgs
      BY <1>0, <1>7, Running
    <2>1. CASE Drop("L", act) /\ UNCHANGED watch
      BY <1>0, <1>2, <1>7, <2>1, DropTracked
    <2>2. CASE Die("L", act)
      BY <1>0, <1>2, <1>7, <2>2, Forgets DEF Die
    <2>3. CASE /\ \E failure : RetryOrError("L", act, "FAILED_TX_B_SPEND", failure)
               /\ UNCHANGED watch
      BY <1>0, <1>2, <1>7, <2>3, LateRetry
    <2>4. CASE SaveBid("L", b, {act}, {}) /\ UNCHANGED watch /\ Broadcast({"b_redeem"})
      <3>1. "b_redeem" \in sent'
        BY <2>4 DEF Broadcast
      <3>2. mercy => conf'["mercy"] > 0
        BY <1>0, <1>7, TxFacts DEF TrackInv, NodeInv, Told, LeaderTold, LedgerGrows
      <3>3. Told("L", b.state, conf', sent')
        BY <1>1, <1>4, <1>5, <3>1, <3>2 DEF Told, LeaderTold, LeaderStates
      <3>4. Advances(bid, b)
        BY <1>1, <1>4, <2>0 DEF Advances
      <3>5. watch' = [watch EXCEPT !["L"] = watch["L"]]
        BY <2>4 DEF Inv, EngineInv
      <3> QED BY <1>0, <1>1, <1>2, <1>4, <1>7, <2>0, <2>4, <3>3, <3>4, <3>5, LateSaved
    <2> QED BY <1>3, <2>1, <2>2, <2>3, <2>4
  <1> QED BY <1>6, <1>7 DEF Tracked

\* recoverXmrBidCoinBLockTx is for a lock on record.
LEMMA RecoverCoinBLockTxTracked ==
  ASSUME Inv, OrderInv, LedgerGrows, RecoverCoinBLockTx
  PROVE  Tracked
  <1> DEFINE act == "RECOVER_LOCK_TX_B"
             bid == db["F"]
             b == [bid EXCEPT !.b = "Spent", !.state = "NOSCRIPT_TX_RECOVERED"]
  <1>0. /\ "F" \in Nodes /\ bid \in Bids /\ RowsInv /\ act \in actions["F"]
        /\ UNCHANGED <<waited, msgs>>
    BY NodeFacts DEF Inv, RowsInv, RecoverCoinBLockTx, Due
  <1>1. /\ b.state = "NOSCRIPT_TX_RECOVERED" /\ b.b = "Spent" /\ b.a = bid.a
        /\ b.txns = bid.txns /\ b.in_progress = bid.in_progress
    BY <1>0 DEF Bids
  <1>2. SamePhase /\ ("b_lock" \in sent' => "b_lock" \in sent)
    BY <1>0 DEF RecoverCoinBLockTx, SamePhase, Broadcast
  <1>3. \/ SaveBid("F", b, {act}, {}) /\ UNCHANGED watch /\ bid.b # "None"
        \/ /\ \E failure : RetryOrError("F", act, "FAILED_TX_B_REFUND", failure)
           /\ UNCHANGED watch
        \/ Die("F", act)
    BY DEF RecoverCoinBLockTx, BSpendable
  <1> HIDE DEF b
  <1>4. OrderInv'
    <2> DEFINE err == [bid EXCEPT !.state = "BID_ERROR"]
    <2>1. err.state = "BID_ERROR"
      BY <1>0, EditFacts
    <2> HIDE DEF err
    <2>2. \/ SaveBid("F", b, {act}, {}) \/ SaveBid("F", err, {act}, {})
          \/ Die("F", act) \/ UNCHANGED <<db, mem, actions>>
      BY <1>0, <1>3, RetryForms DEF err
    <2> QED BY <1>0, <1>1, <1>2, <2>1, <2>2, OrderFollower
  <1>5. ASSUME TrackInv PROVE TrackInv' /\ RowsAdvance
    <2>0. bid.in_progress /\ "LOCK_SPEND_TX_LF" \in msgs
      BY <1>0, <1>5, Running
    <2>2. CASE Die("F", act)
      BY <1>0, <1>2, <1>5, <2>2, Forgets DEF Die
    <2>3. CASE /\ \E failure : RetryOrError("F", act, "FAILED_TX_B_REFUND", failure)
               /\ UNCHANGED watch
      BY <1>0, <1>2, <1>5, <2>3, LateRetry
    <2>4. CASE SaveBid("F", b, {act}, {}) /\ UNCHANGED watch /\ bid.b # "None"
      <3>1. Told("F", b.state, conf', sent')
        BY <1>1 DEF Told, FollowerTold, FollowerStates
      <3>2. Advances(bid, b)
        BY <1>1, <2>0 DEF Advances, ForwardStates
      <3>3. watch' = [watch EXCEPT !["F"] = watch["F"]]
        BY <2>4 DEF Inv, EngineInv
      <3>4. b.state \notin CanTimeout \union {"NONE", "SWAP_TIMEDOUT"}
        BY <1>1 DEF CanTimeout
      <3> QED BY <1>0, <1>1, <1>2, <1>5, <2>0, <2>4, <3>1, <3>2, <3>3, <3>4, LateSaved
    <2> QED BY <1>3, <2>2, <2>3, <2>4
  <1> QED BY <1>4, <1>5 DEF Tracked

\* sendMercyTx ends the swipe of the follower, when that is mined or the
\* setting was changed.
LEMMA SendMercyTxTracked ==
  ASSUME Inv, OrderInv, LedgerGrows, SendMercyTx
  PROVE  Tracked
  <1> DEFINE act == "SEND_MERCY_TX"
             bid == db["F"]
             T == SweepTxs(bid)
             b1 == [bid EXCEPT !.state = "FAILED_SWIPED", !.txns = @ \union T]
             b2 == [bid EXCEPT !.txns = @ \union {"mercy"},
                               !.state = IF @ = "FAILED_SWIPED_SENDING_MERCY"
                                         THEN "FAILED_SWIPED" ELSE @]
  <1>0. /\ "F" \in Nodes /\ bid \in Bids /\ RowsInv /\ act \in actions["F"]
        /\ UNCHANGED <<waited, msgs>> /\ T \subseteq {"sweep"}
    BY NodeFacts DEF Inv, RowsInv, SendMercyTx, Due, SweepTxs
  <1>1. /\ b1.state = "FAILED_SWIPED" /\ b1.b = bid.b /\ b1.a = bid.a
        /\ b1.txns = bid.txns \union T /\ b1.in_progress = bid.in_progress
        /\ b2.state \in {bid.state, "FAILED_SWIPED"} /\ b2.b = bid.b /\ b2.a = bid.a
        /\ b2.txns = bid.txns \union {"mercy"} /\ b2.in_progress = bid.in_progress
    BY <1>0 DEF Bids
  <1>2. SamePhase /\ ("b_lock" \in sent' => "b_lock" \in sent)
    BY <1>0 DEF SendMercyTx, SamePhase, Broadcast
  <1>3. \/ Drop("F", act) /\ UNCHANGED watch
        \/ /\ SaveBid("F", b1, {act}, {}) /\ UNCHANGED watch
           /\ FALSE \in Altruistic \/ ~CanSendMercy
        \/ SaveBid("F", b2, {act}, {}) /\ UNCHANGED watch /\ conf["swipe"] >= ConfA
        \/ Die("F", act)
    BY DEF SendMercyTx, SwipeDeep
  <1> HIDE DEF b1, b2, T
  <1>4. OrderInv'
    BY <1>0, <1>1, <1>2, <1>3, OrderFollower
  <1>5. ASSUME TrackInv PROVE TrackInv' /\ RowsAdvance
    <2>0. /\ bid.in_progress /\ "LOCK_SPEND_TX_LF" \in msgs
          /\ bid.state \notin {"NONE", "SWAP_TIMEDOUT"}
          /\ bid.state \in CanTimeout => bid.state = "MSG_SCRIPT_LOCK_SPEND_TX"
      BY <1>0, <1>5, Running
    <2>1. CASE Drop("F", act) /\ UNCHANGED watch
      BY <1>0, <1>2, <1>5, <2>1, DropTracked
    <2>2. CASE Die("F", act)
      BY <1>0, <1>2, <1>5, <2>2, Forgets DEF Die
    <2>3. CASE /\ SaveBid("F", b1, {act}, {}) /\ UNCHANGED watch
               /\ FALSE \in Altruistic \/ ~CanSendMercy
      <3>1. ~SteadySetting
        <4>1. TRUE \in Altruistic /\ CanSendMercy
          BY <1>0, <1>5 DEF TrackInv, NodeInv, FollowerRow
        <4>2. Altruistic \subseteq BOOLEAN /\ FALSE \in Altruistic
          BY <2>3, <4>1, SettingsAssumption
        <4>3. Altruistic = BOOLEAN
          BY <4>1, <4>2
        <4> QED BY <4>1, <4>3 DEF SteadySetting
      <3>2. Told("F", b1.state, conf', sent')
        BY <1>1, <3>1 DEF Told, FollowerTold, FollowerStates
      <3>3. Advances(bid, b1)
        BY <1>1, <2>0 DEF Advances, ForwardStates
      <3>4. watch' = [watch EXCEPT !["F"] = watch["F"]]
        BY <2>3 DEF Inv, EngineInv
      <3>5. b1.state \notin CanTimeout \union {"NONE", "SWAP_TIMEDOUT"}
        BY <1>1 DEF CanTimeout
      <3>6. b1.in_progress /\ (b1.b = "None" <=> bid.b = "None")
        BY <1>1, <2>0
      <3> QED BY <1>0, <1>2, <1>5, <2>0, <2>3, <3>2, <3>3, <3>4, <3>5, <3>6, LateSaved
    <2>4. CASE SaveBid("F", b2, {act}, {}) /\ UNCHANGED watch /\ conf["swipe"] >= ConfA
      <3>1. conf'["swipe"] > 0
        <4>1. conf["swipe"] > 0
          BY <2>4, TimesAssumption, TxFacts DEF Inv, LedgerInv, LedgerTypeOK
        <4> QED BY <4>1, TxFacts DEF LedgerGrows
      <3>2. Told("F", bid.state, conf', sent')
        BY <1>0, <1>5, ToldMore DEF TrackInv, NodeInv
      <3>3. Told("F", "FAILED_SWIPED", conf', sent')
        BY <3>1 DEF Told, FollowerTold, FollowerStates
      <3>4. Advances(bid, b2)
        BY <1>1, <2>0 DEF Advances, ForwardStates
      <3>5. watch' = [watch EXCEPT !["F"] = watch["F"]]
        BY <2>4 DEF Inv, EngineInv
      <3>6. /\ b2.state \notin {"NONE", "SWAP_TIMEDOUT"}
            /\ b2.state \in CanTimeout =>
                 b2.state = "MSG_SCRIPT_LOCK_SPEND_TX" /\ bid.state = b2.state
        BY <1>1, <2>0 DEF CanTimeout
      <3>7. Told("F", b2.state, conf', sent')
        BY <1>1, <3>2, <3>3
      <3>8. b2.in_progress /\ (b2.b = "None" <=> bid.b = "None")
        BY <1>1, <2>0
      <3> QED BY <1>0, <1>2, <1>5, <2>0, <2>4, <3>4, <3>5, <3>6, <3>7, <3>8, LateSaved
    <2> QED BY <1>3, <2>1, <2>2, <2>3, <2>4
  <1> QED BY <1>4, <1>5 DEF Tracked

-----------------------------------------------------------------------------
\* The messages.

\* processXmrBidCoinALockSigs queues the coin A lock for a bid nothing was done
\* for.
LEMMA ProcessCoinALockSigsTracked ==
  ASSUME Inv, OrderInv, LedgerGrows, ProcessCoinALockSigs
  PROVE  Tracked
  <1> DEFINE d == [db["L"] EXCEPT !.state = "MSG_SCRIPT_LOCK_TX_SIGS"]
             q == actions["L"] \union {"SEND_LOCK_TX_A"}
  <1>0. /\ "L" \in Nodes /\ db["L"] \in Bids /\ RowsInv
        /\ UNCHANGED <<waited, conf, sent, msgs>> /\ NoBid.state = "NONE"
    BY NodeFacts DEF Inv, RowsInv, ProcessCoinALockSigs, NoBid
  <1>1. /\ d.state = "MSG_SCRIPT_LOCK_TX_SIGS" /\ d.a = db["L"].a /\ d.b = db["L"].b
        /\ d.txns = db["L"].txns /\ d.in_progress = db["L"].in_progress
    BY <1>0, EditFacts
  <1>2. \/ /\ Writes("L", d, mem["L"], q)
           /\ watch' = [watch EXCEPT !["L"] = watch["L"]]
        \/ /\ Writes("L", db["L"], NoBid, q)
           /\ watch' = [watch EXCEPT !["L"] = {}]
    <2>1. [db EXCEPT !["L"] = db["L"]] = db /\ [mem EXCEPT !["L"] = mem["L"]] = mem
          /\ [watch EXCEPT !["L"] = watch["L"]] = watch
      BY DEF Inv, RowsInv, EngineInv
    <2> QED BY <2>1 DEF ProcessCoinALockSigs, Writes, LoseMemory
  <1> HIDE DEF d
  <1>3. OrderInv'
    BY <1>0, <1>2, OrderKept
  <1>4. ASSUME TrackInv PROVE TrackInv' /\ RowsAdvance
    <2>1. /\ NodeInv("L", db["L"], mem["L"], actions["L"], watch["L"], conf, sent)
          /\ db["L"].state = "BID_ACCEPTED" /\ "TXN_SIGS_FL" \in msgs
      BY <1>0, <1>4 DEF TrackInv, ProcessCoinALockSigs
    <2>2. /\ Fresh("L", db["L"], mem["L"], actions["L"], watch["L"])
          /\ ~db["L"].in_progress
      BY <2>1 DEF NodeInv, LeaderRow, UnlockedStates, Closed, EndStates
    <2>3. PhaseInv(msgs, sent)'
      <3>1. /\ db'["L"] \in {db["L"], d} /\ db'["F"] = db["F"]
            /\ mem'["L"] \in {mem["L"], NoBid} /\ mem'["F"] = mem["F"]
        BY <1>0, <1>2, NodeFacts DEF Writes, RowsInv
      <3>2. Quiet(d) /\ Quiet(NoBid)
        BY <1>1, <2>2 DEF Quiet, Fresh, NoBid, UnlockedStates
      <3> QED BY <1>0, <1>1, <1>4, <2>1, <3>1, <3>2, NodeFacts
              DEF TrackInv, PhaseInv, UnlockedStates
    <2>4. /\ NodeInv("L", d, mem["L"], q, watch["L"], conf', sent')
          /\ NodeInv("L", db["L"], NoBid, q, {}, conf', sent')
      <3>1. NodeInv("L", db["L"], mem["L"], actions["L"], watch["L"], conf', sent')
        BY <2>1, NodeInvMore
      <3>2. Told("L", d.state, conf', sent') /\ Told("L", NoBid.state, conf', sent')
        BY <1>0, <1>1 DEF Told, LeaderTold, LeaderStates, UnlockedStates
      <3>3. /\ Fresh("L", d, mem["L"], q, watch["L"])
            /\ Fresh("L", db["L"], NoBid, q, {})
        BY <1>0, <1>1, <2>2 DEF Fresh, UnlockedStates
      <3>4. LeaderRow(d, mem["L"], q) /\ LeaderRow(db["L"], NoBid, q)
        BY <1>0, <1>1, <2>1, <2>2 DEF LeaderRow, Fresh, UnlockedStates, CanTimeout
      <3>5. Mirrors(d, mem["L"]) /\ Mirrors(db["L"], NoBid)
        BY <1>1, <2>2, <3>1 DEF NodeInv, Mirrors, Fresh
      <3> QED BY <1>1, <2>1, <2>2, <3>1, <3>2, <3>3, <3>4, <3>5 DEF NodeInv
    <2>5. Advances(db["L"], d) /\ Advances(db["L"], db["L"])
      BY <1>1, <2>1 DEF Advances, EndStates, ForwardStates
    <2> HIDE DEF q
    <2> QED BY <1>0, <1>2, <1>4, <2>3, <2>4, <2>5, NodeStep
  <1> QED BY <1>3, <1>4 DEF Tracked

\* processXmrBidLockSpendTx moves a follower that locked nothing yet.
LEMMA ProcessLockSpendTxTracked ==
  ASSUME Inv, OrderInv, LedgerGrows, ProcessLockSpendTx
  PROVE  Tracked
  <1> DEFINE b == [db["F"] EXCEPT !.state = "MSG_SCRIPT_LOCK_SPEND_TX"]
             q == (actions["F"] \ {}) \union {}
  <1>0. /\ "F" \in Nodes /\ db["F"] \in Bids /\ RowsInv /\ SaveBid("F", b, {}, {})
        /\ UNCHANGED <<waited, conf, sent, msgs, watch>>
        /\ db["F"].state = "MSG_SCRIPT_LOCK_TX_SIGS" /\ "LOCK_SPEND_TX_LF" \in msgs
    BY NodeFacts DEF Inv, RowsInv, ProcessLockSpendTx
  <1>1. /\ b.state = "MSG_SCRIPT_LOCK_SPEND_TX" /\ b.a = db["F"].a /\ b.b = db["F"].b
        /\ b.txns = db["F"].txns /\ b.in_progress = db["F"].in_progress
    BY <1>0, EditFacts
  <1> HIDE DEF b
  <1>2. OrderInv'
    BY <1>0, <1>1, OrderFollower
  <1>3. ASSUME TrackInv PROVE TrackInv' /\ RowsAdvance
    <2>1. NodeInv("F", db["F"], mem["F"], actions["F"], watch["F"], conf', sent')
      BY <1>0, <1>3, NodeInvMore DEF TrackInv
    <2>2. db["F"].in_progress /\ db["F"].b = "None" /\ q = {}
      BY <1>0, <2>1 DEF NodeInv, Closed, Fresh, EndStates, FollowerRow, CanTimeout,
         UnlockedStates
    <2>3. Writes("F", b, b, q) /\ watch' = [watch EXCEPT !["F"] = watch["F"]]
      BY <1>0, WritesForms DEF Inv, EngineInv
    <2>4. NodeInv("F", b, b, q, watch["F"], conf', sent')
      BY <1>1, <2>2 DEF NodeInv, Told, FollowerTold, FollowerStates, Mirrors,
         FollowerRow, UnlockedStates
    <2>5. Advances(db["F"], b)
      BY <1>0, <1>1 DEF Advances, EndStates, ForwardStates
    <2>6. SamePhase
      BY <1>0 DEF SamePhase
    <2> HIDE DEF q
    <2> QED BY <1>0, <1>1, <1>3, <2>2, <2>3, <2>4, <2>5, <2>6, LateStep
  <1> QED BY <1>2, <1>3 DEF Tracked

\* processXmrLockReleaseMessage moves a bid that waits for it, or keeps the
\* signature for a bid in BID_ERROR.
LEMMA ProcessLockReleaseTracked ==
  ASSUME Inv, OrderInv, LedgerGrows, ProcessLockRelease
  PROVE  Tracked
  <1> DEFINE bid == db["F"]
             b == [bid EXCEPT !.state = "LOCK_RELEASED"]
             more == {"REDEEM_LOCK_TX_A"}
             m == IF mem["F"] = NoBid THEN mem["F"] ELSE bid
  <1>0. /\ "F" \in Nodes /\ bid \in Bids /\ RowsInv
        /\ UNCHANGED <<waited, conf, sent, msgs>>
        /\ NoBid.state = "NONE" /\ NoBid.a = "None" /\ ~NoBid.in_progress
    BY NodeFacts DEF Inv, RowsInv, ProcessLockRelease, NoBid
  <1>1. /\ b.state = "LOCK_RELEASED" /\ b.b = bid.b /\ b.a = bid.a
        /\ b.txns = bid.txns /\ b.in_progress = bid.in_progress
    BY <1>0, EditFacts
  <1>2. SamePhase
    BY <1>0 DEF SamePhase
  <1>3. \/ /\ bid.state \in {"SCRIPT_COIN_LOCKED", "NOSCRIPT_COIN_LOCKED"}
           /\ SaveBid("F", b, {}, more) /\ UNCHANGED watch
        \/ /\ bid.state \in {"SCRIPT_COIN_LOCKED", "NOSCRIPT_COIN_LOCKED"}
           /\ Writes("F", bid, NoBid, actions["F"] \union more)
           /\ watch' = [watch EXCEPT !["F"] = {}]
        \/ /\ bid.state = "BID_ERROR" /\ Writes("F", bid, m, actions["F"])
           /\ UNCHANGED watch
    <2>1. [db EXCEPT !["F"] = db["F"]] = db
          /\ [actions EXCEPT !["F"] = actions["F"]] = actions
      BY DEF Inv, RowsInv
    <2> QED BY <2>1 DEF ProcessLockRelease, Writes, LoseMemory
  <1>5. UNCHANGED watch => watch' = [watch EXCEPT !["F"] = watch["F"]]
    BY DEF Inv, EngineInv
  <1> HIDE DEF b, m
  <1>4. OrderInv'
    <2>1. CASE SaveBid("F", b, {}, more)
      BY <1>0, <1>1, <2>1, OrderFollower
    <2>2. CASE Writes("F", bid, NoBid, actions["F"] \union more)
      BY <1>0, <2>2, OrderWritten
    <2>3. CASE Writes("F", bid, m, actions["F"])
      BY <1>0, <2>3, OrderWritten DEF m
    <2> QED BY <1>3, <2>1, <2>2, <2>3
  <1>6. ASSUME TrackInv PROVE TrackInv' /\ RowsAdvance
    <2>1. NodeInv("F", bid, mem["F"], actions["F"], watch["F"], conf', sent')
      BY <1>0, <1>6, NodeInvMore DEF TrackInv
    <2>2. bid.state \in {"SCRIPT_COIN_LOCKED", "NOSCRIPT_COIN_LOCKED", "BID_ERROR"}
      BY <1>3
    <2>3. bid.in_progress /\ bid.state \notin CanTimeout
      BY <2>1, <2>2 DEF NodeInv, Closed, Fresh, EndStates, UnlockedStates, CanTimeout
    <2>4. "LOCK_SPEND_TX_LF" \in msgs
      <3>1. ~Quiet(bid)
        BY <2>2 DEF Quiet, UnlockedStates
      <3> QED BY <1>0, <1>6, <3>1, Late
    <2>5. CASE /\ bid.state \in {"SCRIPT_COIN_LOCKED", "NOSCRIPT_COIN_LOCKED"}
               /\ SaveBid("F", b, {}, more) /\ UNCHANGED watch
      <3>1. Told("F", b.state, conf', sent')
        BY <1>1 DEF Told, FollowerTold, FollowerStates
      <3>2. Advances(bid, b)
        BY <1>1, <2>3, <2>5 DEF Advances, ForwardStates
      <3>3. b.state \notin CanTimeout \union {"NONE", "SWAP_TIMEDOUT"}
        BY <1>1 DEF CanTimeout
      <3>4. /\ b.in_progress /\ (b.b = "None" <=> bid.b = "None")
            /\ more \intersect {"SIGN_LOCK_TX_A", "SEND_LOCK_SPEND_MSG",
                                "SEND_LOCK_TX_B", "SEND_MERCY_TX"} = {}
        BY <1>1, <2>3
      <3> HIDE DEF more
      <3> QED BY <1>0, <1>2, <1>5, <1>6, <2>4, <2>5, <3>1, <3>2, <3>3, <3>4, LateSaved
    <2>6. CASE /\ Writes("F", bid, NoBid, actions["F"] \union more)
               /\ watch' = [watch EXCEPT !["F"] = {}]
      <3>1. NodeInv("F", bid, NoBid, actions["F"] \union more, {}, conf', sent')
        BY <1>0, <2>1, <2>3 DEF NodeInv, Told, FollowerTold, FollowerStates,
           Mirrors, FollowerRow, CanTimeout, UnlockedStates
      <3> QED BY <1>0, <1>2, <1>6, <2>2, <2>4, <2>6, <3>1, AdvancesSame, LateStep
    <2>7. CASE Writes("F", bid, m, actions["F"]) /\ UNCHANGED watch
      <3>1. NodeInv("F", bid, m, actions["F"], watch["F"], conf', sent')
        BY <2>1, <2>3 DEF NodeInv, Mirrors, FollowerRow, m
      <3> QED BY <1>0, <1>2, <1>5, <1>6, <2>2, <2>4, <2>7, <3>1, AdvancesSame, LateStep
    <2> QED BY <1>3, <2>5, <2>6, <2>7
  <1> QED BY <1>4, <1>6 DEF Tracked

-----------------------------------------------------------------------------
\* The watched outputs.

\* When the refund is out both nodes are past the first phase, and a bid that is
\* not in progress has ended.
LEMMA RefundOut ==
  ASSUME Inv, TrackInv,
         \/ "refund" \in sent \/ conf["refund_spend"] > 0 \/ conf["swipe"] > 0
         \/ conf["mercy"] > 0
  PROVE  /\ "LOCK_SPEND_TX_LF" \in msgs
         /\ db["L"].state \notin UnlockedStates \union
              {"HAVE_SCRIPT_COIN_SPEND_TX", "SWAP_TIMEDOUT"}
         /\ db["F"].state # "BID_ACCEPTED"
         /\ \A n \in Nodes : ~db[n].in_progress =>
              Closed(db[n], mem[n], actions[n], watch[n])
  <1>1. "refund" \in sent
    BY TxFacts DEF Inv, LedgerInv, LedgerTypeOK, ExclusionInv, MercyNeverRaced, Mined
  <1>2. "LOCK_SPEND_TX_LF" \in msgs
    BY <1>1 DEF TrackInv, PhaseInv
  <1>3. /\ db["L"].state \notin UnlockedStates \union
              {"HAVE_SCRIPT_COIN_SPEND_TX", "SWAP_TIMEDOUT"}
        /\ db["F"].state # "BID_ACCEPTED"
    BY <1>2 DEF TrackInv, PhaseInv, UnlockedStates
  <1> QED BY <1>2, <1>3, NodeFacts DEF TrackInv, NodeInv, Fresh

\* process_XMR_SWAP_A_LOCK_tx_spend: a bid that waits for the spend ends or
\* goes for coin B, a refund is put on record.
LEMMA ProcessALockSpendTracked ==
  ASSUME Inv, OrderInv, LedgerGrows, NEW n \in Nodes, ProcessALockSpend(n)
  PROVE  Tracked
  <1> DEFINE d == db[n]
             s == SpendSeen(n, d)
             r == [d EXCEPT !.state = "SCRIPT_TX_PREREFUND",
                            !.txns = @ \union {"refund"}]
             w == watch[n] \ {"A_LOCK"}
  <1>0. /\ d \in Bids /\ RowsInv /\ UNCHANGED <<waited, conf, sent, msgs>>
        /\ "A_LOCK" \in watch[n] /\ watch' = [watch EXCEPT ![n] = w]
    BY DEF Inv, RowsInv, ProcessALockSpend
  <1>1. /\ s.b = d.b /\ s.a = d.a /\ s.txns = d.txns /\ s.in_progress = d.in_progress
        /\ IF d.state = "LOCK_RELEASED"
           THEN s.state = IF n = "L" THEN "SCRIPT_TX_REDEEMED" ELSE "SWAP_COMPLETED"
           ELSE s = d
    BY <1>0 DEF SpendSeen, Bids
  <1>2. /\ r.b = d.b /\ r.a = d.a /\ r.txns = d.txns \union {"refund"}
        /\ r.in_progress = d.in_progress /\ r.state = "SCRIPT_TX_PREREFUND"
    BY <1>0 DEF Bids
  <1>3. \/ conf["spend"] > 0 /\ SaveBid(n, s, {}, {})
        \/ conf["refund"] > 0 /\ SaveBid(n, r, {}, {})
    BY DEF ProcessALockSpend, Reported
  <1>4. SamePhase
    BY <1>0 DEF SamePhase
  <1> HIDE DEF s, r, w
  <1>5. OrderInv'
    <2>1. CASE n = "L"
      BY <1>0, <1>3, <2>1, OrderLeader
    <2>2. CASE n = "F"
      <3>1. s.state = "SCRIPT_COIN_LOCKED" => d.state = "SCRIPT_COIN_LOCKED"
        BY <1>1
      <3> QED BY <1>0, <1>2, <1>3, <2>2, <3>1, OrderFollower
    <2> QED BY <2>1, <2>2, NodeFacts
  <1>6. ASSUME TrackInv PROVE TrackInv' /\ RowsAdvance
    <2>1. NodeInv(n, d, mem[n], actions[n], watch[n], conf', sent')
      BY <1>0, <1>6, NodeInvMore DEF TrackInv
    <2>2. d.in_progress
      BY <1>0, <2>1 DEF NodeInv, Closed, Fresh
    <2>3. CASE conf["spend"] > 0 /\ SaveBid(n, s, {}, {}) /\ d.state # "LOCK_RELEASED"
      <3> DEFINE q == (actions[n] \ {}) \union {}
      <3>1. q = actions[n] /\ Writes(n, d, d, q)
        BY <1>0, <1>1, <2>3, WritesForms
      <3>2. NodeInv(n, d, d, q, w, conf', sent')
        BY <2>1, <2>2, <3>1, NodeFacts DEF NodeInv, Mirrors, FollowerRow, LeaderRow
      <3>3. PhaseInv(msgs, sent)'
        <4>1. \A k \in Nodes : db'[k] = db[k] /\ mem'[k] \in {mem[k], db[k]}
          BY <3>1 DEF Writes, Inv, RowsInv
        <4> QED BY <1>4, <1>6, <4>1, NodeFacts DEF TrackInv, PhaseInv, SamePhase
      <3> HIDE DEF q
      <3> QED BY <1>0, <1>6, <3>1, <3>2, <3>3, AdvancesSame, NodeStep
    <2>4. CASE conf["spend"] > 0 /\ SaveBid(n, s, {}, {}) /\ d.state = "LOCK_RELEASED"
      <3>1. "LOCK_SPEND_TX_LF" \in msgs
        <4>1. ~Quiet(d)
          BY <2>4 DEF Quiet, UnlockedStates
        <4> QED BY <1>6, <4>1, Late
      <3>2. Told(n, s.state, conf', sent')
        BY <1>0, <1>1, <2>4 DEF Told, LeaderTold, LeaderStates, FollowerTold,
           FollowerStates
      <3>3. Advances(d, s)
        BY <1>1, <2>2, <2>4 DEF Advances, ForwardStates
      <3>4. s.state \notin CanTimeout \union {"NONE", "SWAP_TIMEDOUT"}
        BY <1>1, <2>4 DEF CanTimeout
      <3>5. s.in_progress /\ (s.b = "None" <=> d.b = "None")
        BY <1>1, <2>2
      <3> QED BY <1>0, <1>4, <1>6, <2>4, <3>1, <3>2, <3>3, <3>4, <3>5, LateSaved
    <2>5. CASE conf["refund"] > 0 /\ SaveBid(n, r, {}, {})
      <3>1. "LOCK_SPEND_TX_LF" \in msgs
        <4>1. "refund" \in sent
          BY <2>5, TxFacts DEF Inv, LedgerInv, LedgerTypeOK, ExclusionInv
        <4> QED BY <1>6, <4>1, RefundOut
      <3>2. Told(n, r.state, conf', sent')
        BY <1>2 DEF Told, LeaderTold, LeaderStates, FollowerTold, FollowerStates
      <3>3. Advances(d, r)
        BY <1>2, <2>2 DEF Advances, ForwardStates
      <3>4. r.state \notin CanTimeout \union {"NONE", "SWAP_TIMEDOUT"}
        BY <1>2 DEF CanTimeout
      <3>5. r.in_progress /\ (r.b = "None" <=> d.b = "None")
        BY <1>2, <2>2
      <3> QED BY <1>0, <1>4, <1>6, <2>5, <3>1, <3>2, <3>3, <3>4, <3>5, LateSaved
    <2> QED BY <1>3, <2>3, <2>4, <2>5
  <1> QED BY <1>5, <1>6 DEF Tracked

\* process_XMR_SWAP_A_LOCK_REFUND_tx_spend: the refund was spent by its leader
\* or swiped.
LEMMA ProcessALockRefundSpendTracked ==
  ASSUME Inv, OrderInv, LedgerGrows, NEW n \in Nodes, ProcessALockRefundSpend(n)
  PROVE  Tracked
  <1> DEFINE d == db[n]
             swiped == [d EXCEPT
               !.txns = @ \union {"swipe"},
               !.state = CASE n = "L" /\ CanSendMercy -> @
                           [] n = "F" /\ "SEND_MERCY_TX" \in actions[n] ->
                                "FAILED_SWIPED_SENDING_MERCY"
                           [] OTHER -> "FAILED_SWIPED"]
             refunded == [d EXCEPT
               !.txns = IF n = "F" THEN @ \union {"refund_spend"} ELSE @,
               !.state = CASE n = "L" -> "FAILED_REFUNDED"
                           [] n = "F" /\ NothingLocked(d) -> "FAILED"
                           [] OTHER -> @]
             more == IF n = "F" /\ ~NothingLocked(d) THEN {"RECOVER_LOCK_TX_B"} ELSE {}
  <1>0. /\ d \in Bids /\ RowsInv /\ UNCHANGED <<conf, sent, msgs>>
        /\ "A_LOCK_REFUND" \in watch[n]
    BY DEF Inv, RowsInv, ProcessALockRefundSpend
  <1>1. /\ swiped.b = d.b /\ swiped.a = d.a /\ swiped.txns = d.txns \union {"swipe"}
        /\ swiped.in_progress = d.in_progress
        /\ swiped.state = CASE n = "L" /\ CanSendMercy -> d.state
                           [] n = "F" /\ "SEND_MERCY_TX" \in actions[n] ->
                                "FAILED_SWIPED_SENDING_MERCY"
                           [] OTHER -> "FAILED_SWIPED"
    BY <1>0 DEF Bids
  <1>2. /\ refunded.b = d.b /\ refunded.a = d.a /\ d.txns \subseteq refunded.txns
        /\ refunded.in_progress = d.in_progress
        /\ refunded.state = CASE n = "L" -> "FAILED_REFUNDED"
                           [] n = "F" /\ NothingLocked(d) -> "FAILED"
                           [] OTHER -> d.state
    BY <1>0 DEF Bids
  <1>3. \E w : /\ watch' = [watch EXCEPT ![n] = w]
               /\ \/ /\ conf["refund_spend"] > 0 /\ SaveBid(n, refunded, {}, more)
                     /\ UNCHANGED waited
                  \/ /\ conf["swipe"] > 0 /\ SaveBid(n, swiped, {}, {})
    BY DEF ProcessALockRefundSpend, Reported
  <1>4. SamePhase
    BY <1>0 DEF SamePhase
  <1> HIDE DEF swiped, refunded
  <1>5. OrderInv'
    <2>1. CASE n = "L"
      BY <1>0, <1>3, <2>1, OrderLeader
    <2>2. CASE n = "F"
      <3>1. /\ refunded.state = "SCRIPT_COIN_LOCKED" => d.state = "SCRIPT_COIN_LOCKED"
            /\ swiped.state # "SCRIPT_COIN_LOCKED" /\ "SEND_LOCK_TX_B" \notin more
        BY <1>1, <1>2, <2>2
      <3> HIDE DEF more
      <3> QED BY <1>0, <1>3, <2>2, <3>1, OrderFollower
    <2> QED BY <2>1, <2>2, NodeFacts
  <1>6. ASSUME TrackInv PROVE TrackInv' /\ RowsAdvance
    <2> PICK w : /\ watch' = [watch EXCEPT ![n] = w]
                 /\ \/ /\ conf["refund_spend"] > 0 /\ SaveBid(n, refunded, {}, more)
                       /\ UNCHANGED waited
                    \/ /\ conf["swipe"] > 0 /\ SaveBid(n, swiped, {}, {})
      BY <1>3
    <2>1. NodeInv(n, d, mem[n], actions[n], watch[n], conf', sent')
      BY <1>0, <1>6, NodeInvMore DEF TrackInv
    <2>2. /\ "LOCK_SPEND_TX_LF" \in msgs
          /\ n = "L" => d.state \notin UnlockedStates \union
                          {"HAVE_SCRIPT_COIN_SPEND_TX", "SWAP_TIMEDOUT"}
          /\ n = "F" => d.state # "BID_ACCEPTED"
          /\ d.in_progress
      BY <1>0, <1>6, RefundOut DEF Closed
    <2>3. d.state \notin {"NONE", "SWAP_TIMEDOUT"}
      BY <2>1, <2>2 DEF NodeInv
    <2>4. CASE /\ conf["refund_spend"] > 0 /\ SaveBid(n, refunded, {}, more)
               /\ UNCHANGED waited
      <3>1. Told(n, refunded.state, conf', sent')
        BY <1>0, <1>2, <2>1, <2>4, NodeFacts DEF NodeInv, Told, LeaderTold, LeaderStates,
           FollowerTold, FollowerStates
      <3>2. Advances(d, refunded)
        BY <1>2, <2>2 DEF Advances, ForwardStates
      <3>3. refunded.state \notin CanTimeout \union {"NONE", "SWAP_TIMEDOUT"}
        BY <1>2, <2>1, <2>3, NodeFacts DEF CanTimeout, NodeInv, FollowerRow, NothingLocked
      <3>4. /\ refunded.in_progress /\ (refunded.b = "None" <=> d.b = "None")
            /\ more \intersect {"SIGN_LOCK_TX_A", "SEND_LOCK_SPEND_MSG",
                                "SEND_LOCK_TX_B", "SEND_MERCY_TX"} = {}
        BY <1>2, <2>2
      <3> HIDE DEF more
      <3> QED BY <1>0, <1>4, <1>6, <2>2, <2>4, <3>1, <3>2, <3>3, <3>4, LateSaved
    <2>5. CASE conf["swipe"] > 0 /\ SaveBid(n, swiped, {}, {})
      <3> DEFINE q == (actions[n] \ {}) \union {}
      <3>1. q = actions[n] /\ Writes(n, swiped, swiped, q)
        BY <1>0, <2>5, WritesForms
      <3>2. Told(n, swiped.state, conf', sent')
        BY <1>0, <1>1, <2>1, <2>5, NodeFacts DEF NodeInv, Told, LeaderTold,
           LeaderStates, FollowerTold, FollowerStates, FollowerRow
      <3>3. n = "L" => LeaderRow(swiped, swiped, q)
        BY <1>1, <2>1, <2>2, <3>1 DEF NodeInv, LeaderRow, UnlockedStates
      <3>4. n = "F" => /\ FollowerRow(swiped, swiped, q)
                       /\ swiped.state \in
                            {"FAILED_SWIPED_SENDING_MERCY", "FAILED_SWIPED"}
        BY <1>1, <2>1, <2>2, <3>1 DEF NodeInv, FollowerRow, CanTimeout, UnlockedStates
      <3>5. swiped.state \in {d.state, "FAILED_SWIPED", "FAILED_SWIPED_SENDING_MERCY"}
        BY <1>1
      <3>6. swiped.state \notin {"NONE", "BID_ACCEPTED", "SWAP_TIMEDOUT"}
        BY <2>2, <2>3, <3>5, NodeFacts DEF UnlockedStates
      <3>7. NodeInv(n, swiped, swiped, q, w, conf', sent')
        BY <1>1, <2>2, <3>2, <3>3, <3>4, <3>6 DEF NodeInv, Mirrors
      <3>8. Advances(d, swiped)
        BY <1>1, <2>2, <3>5 DEF Advances, ForwardStates
      <3>9. (waited["L"] >= 0 => Mined("swipe"))'
        BY <1>0, <2>5 DEF Mined
      <3>10. n = "L" => swiped.state \notin UnlockedStates \union
                      {"HAVE_SCRIPT_COIN_SPEND_TX", "SWAP_TIMEDOUT"}
        BY <2>2, <3>5 DEF UnlockedStates
      <3> HIDE DEF q
      <3> QED BY <1>1, <1>4, <1>6, <2>2, <3>1, <3>6, <3>7, <3>8, <3>9, <3>10, LateStep
    <2> QED BY <2>4, <2>5
  <1> QED BY <1>5, <1>6 DEF Tracked

\* process_MERCY_tx: the mercy transaction is mined.
LEMMA ProcessMercyTxTracked ==
  ASSUME Inv, OrderInv, LedgerGrows, ProcessMercyTx
  PROVE  Tracked
  <1> DEFINE d == db["L"]
             m == mem["L"]
             b == [m EXCEPT !.txns = @ \union {"mercy"},
                            !.state = IF m.b = "None" THEN "FAILED_SWIPED_MERCY_UNUSED"
                                                      ELSE "FAILED_SWIPED_USING_MERCY"]
             redeem == IF b.b = "None" THEN {} ELSE {"REDEEM_LOCK_TX_B"}
             w == watch["L"] \ {"MERCY"}
  <1>0. /\ "L" \in Nodes /\ d \in Bids /\ m \in Bids /\ RowsInv /\ m # NoBid
        /\ UNCHANGED <<waited, conf, sent, msgs>>
    BY NodeFacts DEF Inv, RowsInv, ProcessMercyTx
  <1>1. /\ b.b = m.b /\ b.a = m.a /\ b.txns = m.txns \union {"mercy"}
        /\ b.in_progress = m.in_progress
        /\ b.state \in {"FAILED_SWIPED_MERCY_UNUSED", "FAILED_SWIPED_USING_MERCY"}
    BY <1>0 DEF Bids
  <1>2. \/ /\ conf["mercy"] > 0 /\ SaveBid("L", b, {}, redeem)
           /\ watch' = [watch EXCEPT !["L"] = w]
        \/ /\ conf["mercy"] > 0 /\ Writes("L", b, NoBid, actions["L"])
           /\ watch' = [watch EXCEPT !["L"] = {}]
        \/ /\ UNCHANGED <<db, mem, actions>>
           /\ watch' = [watch EXCEPT !["L"] = w]
    <2>1. [actions EXCEPT !["L"] = actions["L"]] = actions
      BY DEF Inv, RowsInv
    <2> QED BY <2>1 DEF ProcessMercyTx, Reported, Writes, LoseMemory
  <1>3. SamePhase
    BY <1>0 DEF SamePhase
  <1>4. redeem \intersect {"SIGN_LOCK_TX_A", "SEND_LOCK_SPEND_MSG",
                           "SEND_LOCK_TX_B", "SEND_MERCY_TX"} = {}
    OBVIOUS
  <1> HIDE DEF b, redeem, w
  <1>5. OrderInv'
    <2>1. CASE SaveBid("L", b, {}, redeem) \/ UNCHANGED <<db, mem, actions>>
      BY <1>0, <2>1, OrderLeader
    <2>2. CASE Writes("L", b, NoBid, actions["L"])
      BY <1>0, <2>2, OrderKept
    <2> QED BY <1>2, <2>1, <2>2
  <1>6. ASSUME TrackInv PROVE TrackInv' /\ RowsAdvance
    <2>1. NodeInv("L", d, m, actions["L"], watch["L"], conf', sent')
      BY <1>0, <1>6, NodeInvMore DEF TrackInv
    <2>2. CASE conf["mercy"] > 0
      <3>1. /\ "LOCK_SPEND_TX_LF" \in msgs /\ d.in_progress
            /\ d.state \notin UnlockedStates \union
                 {"HAVE_SCRIPT_COIN_SPEND_TX", "SWAP_TIMEDOUT"}
        BY <1>0, <1>6, <2>2, RefundOut DEF Closed
      <3>2. /\ m.in_progress /\ m.txns = d.txns /\ m.a = d.a
            /\ m.b = d.b \/ (m.b = "Confirmed" /\ d.b = "InChain")
        BY <1>0, <2>1 DEF NodeInv, Mirrors
      <3>3. Told("L", b.state, conf', sent')
        BY <1>0, <1>1, <2>2 DEF Told, LeaderTold, LeaderStates
      <3>4. Advances(d, b)
        BY <1>1, <3>1, <3>2 DEF Advances, ForwardStates
      <3>5. b.state \notin CanTimeout \union UnlockedStates \union
              {"NONE", "HAVE_SCRIPT_COIN_SPEND_TX", "SWAP_TIMEDOUT"}
        BY <1>1 DEF CanTimeout, UnlockedStates
      <3>6. CASE /\ SaveBid("L", b, {}, redeem)
                 /\ watch' = [watch EXCEPT !["L"] = w]
        BY <1>0, <1>1, <1>3, <1>4, <1>6, <3>1, <3>2, <3>3, <3>4, <3>5, <3>6, LateSaved
      <3>7. CASE /\ Writes("L", b, NoBid, actions["L"])
                 /\ watch' = [watch EXCEPT !["L"] = {}]
        <4>1. NoBid.state = "NONE" /\ Told("L", NoBid.state, conf', sent')
          BY DEF NoBid, Told, LeaderTold, LeaderStates
        <4>2. LeaderRow(b, NoBid, actions["L"])
          BY <1>1, <4>1, <2>1, <3>1, <3>5
             DEF NodeInv, LeaderRow, UnlockedStates, CanTimeout
        <4>3. NodeInv("L", b, NoBid, actions["L"], {}, conf', sent')
          BY <1>1, <3>2, <3>3, <3>5, <4>1, <4>2 DEF NodeInv, Mirrors, CanTimeout
        <4> QED BY <1>0, <1>3, <1>6, <3>1, <3>4, <3>5, <3>7, <4>3, LateStep
      <3>8. CASE /\ UNCHANGED <<db, mem, actions>>
                 /\ watch' = [watch EXCEPT !["L"] = w]
        <4>1. NodeInv("L", d, m, actions["L"], w, conf', sent')
          BY <2>1, <3>1 DEF NodeInv
        <4>2. Writes("L", d, m, actions["L"])
          BY <1>0, <3>8, WritesForms
        <4> QED BY <1>0, <1>3, <1>6, <3>1, <3>8, <4>1, <4>2, AdvancesSame, LateStep
      <3> QED BY <1>2, <3>6, <3>7, <3>8
    <2>3. CASE UNCHANGED <<db, mem, actions>> /\ watch' = [watch EXCEPT !["L"] = w]
      <3>1. NodeInv("L", d, m, actions["L"], w, conf', sent')
        BY <2>1 DEF NodeInv, Closed, Fresh, w
      <3>2. Writes("L", d, m, actions["L"])
        BY <1>0, <2>3, WritesForms
      <3>3. PhaseInv(msgs, sent)'
        BY <1>0, <1>6, <2>3 DEF TrackInv, PhaseInv
      <3> QED BY <1>0, <1>6, <2>3, <3>1, <3>2, <3>3, AdvancesSame, NodeStep
    <2> QED BY <1>2, <2>2, <2>3
  <1> QED BY <1>5, <1>6 DEF Tracked

-----------------------------------------------------------------------------
\* Timeouts, crashes, restarts and blocks.

\* checkAcceptedBids ends a bid whose node locked nothing.
LEMMA TimeoutBidTracked ==
  ASSUME Inv, OrderInv, LedgerGrows, NEW n \in Nodes, TimeoutBid(n)
  PROVE  Tracked
  <1> DEFINE b == [db[n] EXCEPT !.state = "SWAP_TIMEDOUT"]
             d == [b EXCEPT !.in_progress = FALSE]
  <1>0. /\ db[n] \in Bids /\ RowsInv /\ Deactivate(n, b)
        /\ UNCHANGED <<waited, conf, sent, msgs>> /\ db[n].state \in CanTimeout
        /\ n = "L" => db["L"].a \notin {"Sent", "InChain"}
        /\ NoBid.state = "NONE" /\ NoBid.a = "None" /\ ~NoBid.in_progress
    BY NodeFacts DEF Inv, RowsInv, TimeoutBid, NoBid
  <1>1. /\ d.state = "SWAP_TIMEDOUT" /\ d.a = db[n].a /\ d.b = db[n].b
        /\ d.txns = db[n].txns /\ d.in_progress = FALSE
    BY <1>0 DEF Bids
  <1>2. Writes(n, d, NoBid, {}) /\ watch' = [watch EXCEPT ![n] = {}]
    BY <1>0, WritesForms DEF Deactivate
  <1> HIDE DEF d, b
  <1>3. OrderInv'
    <2>1. CASE n = "L"
      BY <1>0, <1>2, <2>1, OrderKept
    <2>2. CASE n = "F"
      BY <1>0, <1>1, <1>2, <2>2, OrderWritten
    <2> QED BY <2>1, <2>2, NodeFacts
  <1>4. ASSUME TrackInv PROVE TrackInv' /\ RowsAdvance
    <2>1. NodeInv(n, db[n], mem[n], actions[n], watch[n], conf', sent')
      BY <1>0, <1>4, NodeInvMore DEF TrackInv
    <2>2. n = "L" => db["L"].state \in UnlockedStates
      BY <1>0, <2>1 DEF NodeInv, LeaderRow, CanTimeout, UnlockedStates
    <2>3. db[n].b = "None"
      BY <1>0, <2>1, <2>2, NodeFacts DEF NodeInv, LeaderRow, FollowerRow, Closed,
         Fresh, EndStates, UnlockedStates
    <2>4. NodeInv(n, d, NoBid, {}, {}, conf', sent')
      <3>1. Told(n, d.state, conf', sent') /\ Told(n, NoBid.state, conf', sent')
        BY <1>0, <1>1 DEF Told, LeaderTold, LeaderStates, FollowerTold, FollowerStates
      <3>2. LeaderRow(d, NoBid, {}) /\ FollowerRow(d, NoBid, {})
        BY <1>0, <1>1 DEF LeaderRow, FollowerRow, UnlockedStates, CanTimeout
      <3>3. Closed(d, NoBid, {}, {})
        BY <1>1, <2>3 DEF Closed
      <3> QED BY <1>1, <3>1, <3>2, <3>3 DEF NodeInv, Mirrors
    <2>5. Advances(db[n], d)
      BY <1>0, <1>1 DEF Advances, CanTimeout, EndStates, ForwardStates
    <2>6. PhaseInv(msgs, sent)'
      <3>1. /\ db'[n] = d /\ mem'[n] = NoBid
            /\ \A k \in Nodes \ {n} : db'[k] = db[k] /\ mem'[k] = mem[k]
        BY <1>2 DEF Writes, Inv, RowsInv
      <3>2. Quiet(NoBid) /\ (Quiet(db[n]) => Quiet(d))
        BY <1>0, <1>1 DEF Quiet
      <3> QED BY <1>0, <1>1, <1>4, <2>2, <3>1, <3>2, NodeFacts
              DEF TrackInv, PhaseInv, UnlockedStates
    <2> QED BY <1>0, <1>2, <1>4, <2>4, <2>5, <2>6, NodeStep
  <1> QED BY <1>3, <1>4 DEF Tracked

\* A crash loses what was in memory.
LEMMA CrashTracked ==
  ASSUME Inv, OrderInv, LedgerGrows, NEW n \in Nodes, Crash(n)
  PROVE  Tracked
  <1>1. UNCHANGED <<conf, sent, msgs, db, actions, waited>> /\ LoseMemory(n)
    BY DEF Crash
  <1>2. OrderInv'
    <2>1. mem'["F"] \in {mem["F"], NoBid} /\ NoBid.state = "NONE"
      BY <1>1, NodeFacts DEF LoseMemory, Inv, RowsInv, NoBid
    <2> QED BY <1>1, <2>1 DEF OrderInv, Mined
  <1>3. TrackInv => TrackInv' /\ RowsAdvance
    BY <1>1, Forgets DEF SamePhase
  <1> QED BY <1>2, <1>3 DEF Tracked

\* loadFromDB copies the row.
LEMMA RestartTracked ==
  ASSUME Inv, OrderInv, LedgerGrows, NEW n \in Nodes, Restart(n)
  PROVE  Tracked
  <1> DEFINE d == db[n]
             m == [d EXCEPT !.in_progress = TRUE]
             w == WatchSet(n, d)
  <1>0. /\ d \in Bids /\ RowsInv /\ UNCHANGED <<db, actions, waited, conf, sent, msgs>>
    BY DEF Inv, RowsInv, Restart
  <1>1. /\ m.state = d.state /\ m.a = d.a /\ m.b = d.b /\ m.txns = d.txns
        /\ m.in_progress
    BY <1>0 DEF Bids
  <1>2. \/ UNCHANGED <<mem, watch>>
        \/ /\ d.in_progress \/ d.state = "BID_ACCEPTED"
           /\ mem' = [mem EXCEPT ![n] = m] /\ watch' = [watch EXCEPT ![n] = w]
    BY DEF Restart
  <1> HIDE DEF m
  <1>3. OrderInv'
    <2>1. \A k \in Nodes : mem'[k] = mem[k] \/ mem'[k].state = db[k].state
      BY <1>1, <1>2 DEF Inv, RowsInv
    <2> QED BY <1>0, <2>1, NodeFacts DEF OrderInv, Mined
  <1>4. ASSUME TrackInv PROVE TrackInv' /\ RowsAdvance
    <2>1. NodeInv(n, d, mem[n], actions[n], watch[n], conf', sent')
      BY <1>0, <1>4, NodeInvMore DEF TrackInv
    <2>2. CASE UNCHANGED <<mem, watch>>
      BY <1>0, <1>4, <2>2, AdvancesSame DEF TrackInv, PhaseInv, RowsAdvance, Mined
    <2>3. CASE /\ d.in_progress \/ d.state = "BID_ACCEPTED"
               /\ mem' = [mem EXCEPT ![n] = m] /\ watch' = [watch EXCEPT ![n] = w]
      <3>1. Writes(n, d, m, actions[n])
        <4>1. [db EXCEPT ![n] = d] = db /\ [actions EXCEPT ![n] = actions[n]] = actions
          BY DEF Inv, RowsInv
        <4> QED BY <1>0, <2>3, <4>1 DEF Writes
      <3>2. ~d.in_progress => Fresh(n, d, m, actions[n], w)
        <4>1. ASSUME ~d.in_progress PROVE Fresh(n, d, m, actions[n], w)
          <5>1. Fresh(n, d, mem[n], actions[n], watch[n]) /\ d.state = "BID_ACCEPTED"
            BY <2>1, <2>3, <4>1 DEF NodeInv, Closed, EndStates
          <5>2. w \subseteq {"A_LOCK_REFUND"}
            BY <5>1 DEF Fresh, WatchSet
          <5> QED BY <1>1, <5>1, <5>2 DEF Fresh
        <4> QED BY <4>1
      <3>3. Mirrors(d, m)
        BY <1>1, <2>1, <2>3 DEF NodeInv, Mirrors
      <3>4. /\ n = "F" => FollowerRow(d, m, actions[n])
            /\ n = "L" => LeaderRow(d, m, actions[n])
        BY <1>1, <2>1 DEF NodeInv, FollowerRow, LeaderRow
      <3>5. NodeInv(n, d, m, actions[n], w, conf', sent')
        BY <1>1, <2>1, <3>2, <3>3, <3>4 DEF NodeInv
      <3>6. PhaseInv(msgs, sent)'
        <4>1. \A k \in Nodes : Quiet(db[k]) /\ Quiet(mem[k]) => Quiet(mem'[k])
          BY <1>1, <2>3 DEF Quiet, Inv, RowsInv
        <4> QED BY <1>0, <1>4, <4>1 DEF TrackInv, PhaseInv
      <3> HIDE DEF w
      <3> QED BY <1>0, <1>4, <2>3, <3>1, <3>5, <3>6, AdvancesSame, NodeStep
    <2> QED BY <1>2, <2>2, <2>3
  <1> QED BY <1>3, <1>4 DEF Tracked

\* A block, or nothing at all, changes no row.
LEMMA BlockTracked ==
  ASSUME Inv, OrderInv, LedgerGrows, NewBlockA \/ NewBlockB \/ UNCHANGED vars
  PROVE  Tracked
  <1>1. UNCHANGED <<db, mem, actions, watch, msgs, sent>>
    BY DEF NewBlockA, NewBlockB, NewBlock, vars
  <1>2. OrderInv'
    BY <1>1, TxFacts DEF OrderInv, LedgerGrows, Mined
  <1>3. ASSUME TrackInv PROVE TrackInv' /\ RowsAdvance
    <2>1. \A n \in Nodes :
            NodeInv(n, db[n], mem[n], actions[n], watch[n], conf', sent')
      BY <1>3, NodeInvMore DEF TrackInv
    <2>2. waited'["L"] >= 0 => waited["L"] >= 0
      BY NodeFacts, TimesAssumption DEF NewBlockA, NewBlockB, vars, Inv, OthersInv
    <2>3. (waited["L"] >= 0 => Mined("swipe"))'
      BY <1>3, <2>2, TxFacts DEF TrackInv, LedgerGrows, Mined
    <2> QED BY <1>1, <1>3, <2>1, <2>3, AdvancesSame
            DEF TrackInv, PhaseInv, RowsAdvance
  <1> QED BY <1>2, <1>3 DEF Tracked

-----------------------------------------------------------------------------
\* checkXmrBidState.

\* What the first part of the check of node n makes of the bid m: it may record
\* a refund transaction, past the first phase only, and queue the mercy
\* transaction of a swipe.
Outcome(n, m, o) ==
  /\ o.bid.state = m.state /\ o.bid.a = m.a /\ o.bid.b = m.b
  /\ o.bid.in_progress = m.in_progress /\ m.txns \subseteq o.bid.txns
  /\ o.txs \subseteq {"refund", "refund_spend", "swipe"}
  /\ o.acts \subseteq {"SEND_MERCY_TX"}
  /\ o.acts # {} => n = "F" /\ TRUE \in Altruistic /\ CanSendMercy
  /\ n = "L" /\ "swipe" \in o.bid.txns => "swipe" \in m.txns
  /\ ~o.saved => o.bid = m /\ o.acts = {} /\ o.txs = {}
  /\ o.saved => m.a = "InChain" \/ (conf["refund"] > 0 /\ "refund" \in m.txns)

\* A first part that does nothing makes an outcome.
LEMMA OutcomeUnchanged ==
  ASSUME NEW n, NEW m \in Bids
  PROVE  Outcome(n, m, Unchanged(m))
  BY DEF Outcome, Unchanged

\* One that records a refund transaction t makes an outcome.
LEMMA OutcomeRecorded ==
  ASSUME NEW n, NEW m \in Bids, NEW t \in {"refund", "refund_spend", "swipe"},
         NEW T \in SUBSET {t}, n = "L" => t # "swipe",
         m.a = "InChain" \/ (conf["refund"] > 0 /\ "refund" \in m.txns)
  PROVE  Outcome(n, m, Recorded(m, t, T))
  <1> DEFINE b == [m EXCEPT !.txns = @ \union {t}]
             o == Recorded(m, t, T)
  <1>1. /\ b.state = m.state /\ b.a = m.a /\ b.b = m.b
        /\ b.in_progress = m.in_progress /\ b.txns = m.txns \union {t}
    BY DEF Bids
  <1>2. o.bid = b /\ o.txs = T /\ o.acts = {} /\ o.saved = TRUE
    BY DEF Recorded
  <1> HIDE DEF o, b
  <1>3. Outcome(n, m, o)
    BY <1>1, <1>2 DEF Outcome
  <1> QED BY <1>3 DEF o

\* Every outcome of the first part is one.
LEMMA RefundPhaseOutcome ==
  ASSUME LedgerTypeOK, NEW n \in Nodes, NEW m \in Bids, NEW o \in RefundPhase(n, m)
  PROVE  Outcome(n, m, o)
  <1>0. conf["refund"] \in Int /\ ConfA > 0 /\ Lock2 > 0 /\ ConfA \in Int /\ Lock2 \in Int
    BY TxFacts, TimesAssumption DEF LedgerTypeOK
  <1>1. CASE "refund" \notin m.txns
    <2>1. o \in RefundPublishPhase(m)
      BY <1>1 DEF RefundPhase
    <2>2. CASE o = Unchanged(m)
      BY <2>2, OutcomeUnchanged
    <2>3. CASE m.a = "InChain" /\ \E T \in SUBSET {"refund"} :
                 o = [Recorded(m, "refund", T) EXCEPT !.ret = TRUE]
      <3>1. PICK T \in SUBSET {"refund"} :
              o = [Recorded(m, "refund", T) EXCEPT !.ret = TRUE]
        BY <2>3
      <3> DEFINE p == Recorded(m, "refund", T)
      <3>2. o.bid = p.bid /\ o.txs = p.txs /\ o.acts = p.acts /\ o.saved = p.saved
        BY <3>1 DEF Recorded
      <3>3. Outcome(n, m, p)
        BY <2>3, OutcomeRecorded
      <3> HIDE DEF p
      <3> QED BY <3>2, <3>3 DEF Outcome
    <2> QED BY <2>1, <2>2, <2>3 DEF RefundPublishPhase
  <1>2. CASE "refund" \in m.txns
    <2>1. PICK p \in RefundSpendPhase(n, m) :
            o = [p EXCEPT !.ret = p.bid.state = "NOSCRIPT_TX_RECOVERED"]
      BY <1>2 DEF RefundPhase
    <2>2. CASE p = Unchanged(m)
      <3>1. o.bid = p.bid /\ o.txs = p.txs /\ o.acts = p.acts /\ o.saved = p.saved
        BY <2>1, <2>2 DEF Unchanged
      <3>2. Outcome(n, m, p)
        BY <2>2, OutcomeUnchanged
      <3> QED BY <3>1, <3>2 DEF Outcome
    <2>3. CASE n = "L" /\ conf["refund"] >= ConfA
               /\ p = Recorded(m, "refund_spend", {"refund_spend"})
      <3>1. o.bid = p.bid /\ o.txs = p.txs /\ o.acts = p.acts /\ o.saved = p.saved
        BY <2>1, <2>3 DEF Recorded
      <3>2. conf["refund"] > 0 /\ {"refund_spend"} \in SUBSET {"refund_spend"}
        BY <1>0, <2>3
      <3>3. Outcome(n, m, p)
        BY <1>2, <2>3, <3>2, OutcomeRecorded
      <3> QED BY <3>1, <3>3 DEF Outcome
    <2>4. CASE /\ n = "F" /\ conf["refund"] >= Lock2
               /\ \E q \in {Recorded(m, "swipe", {"swipe"}), Unchanged(m)},
                     alt \in Altruistic :
                    p = [q EXCEPT !.acts = IF q.saved /\ alt /\ CanSendMercy
                                           THEN {"SEND_MERCY_TX"} ELSE {}]
      <3>1. PICK q \in {Recorded(m, "swipe", {"swipe"}), Unchanged(m)},
                 alt \in Altruistic :
                   p = [q EXCEPT !.acts = IF q.saved /\ alt /\ CanSendMercy
                                          THEN {"SEND_MERCY_TX"} ELSE {}]
        BY <2>4
      <3>2. /\ o.bid = q.bid /\ o.txs = q.txs /\ o.saved = q.saved
            /\ o.acts = IF q.saved /\ alt /\ CanSendMercy
                        THEN {"SEND_MERCY_TX"} ELSE {}
        BY <2>1, <3>1 DEF Recorded, Unchanged
      <3>3. Outcome(n, m, q)
        <4>1. conf["refund"] > 0 /\ {"swipe"} \in SUBSET {"swipe"} /\ n # "L"
          BY <1>0, <2>4
        <4>2. Outcome(n, m, Recorded(m, "swipe", {"swipe"}))
          BY <1>2, <4>1, OutcomeRecorded
        <4> QED BY <3>1, <4>2, OutcomeUnchanged
      <3>4. alt => TRUE \in Altruistic
        BY SettingsAssumption
      <3> QED BY <2>4, <3>2, <3>3, <3>4 DEF Outcome
    <2> QED BY <2>2, <2>3, <2>4 DEF RefundSpendPhase, TryPublish
  <1> QED BY <1>1, <1>2

\* A check of node n that goes on from the outcome o, for a bid in progress.
CheckOf(n, o) ==
  /\ Inv /\ TrackInv /\ LedgerGrows /\ SamePhase
  /\ mem[n] # NoBid /\ db[n].in_progress
  /\ Outcome(n, mem[n], o) /\ o.bid \in Bids
  /\ (waited["L"] >= 0 => Mined("swipe"))'

\* What is known of the row and its copy when the check goes on.
LEMMA CheckKnows ==
  ASSUME NEW n \in Nodes, NEW o, CheckOf(n, o)
  PROVE  /\ db[n] \in Bids /\ mem[n] \in Bids
         /\ NodeInv(n, db[n], mem[n], actions[n], watch[n], conf', sent')
         /\ mem[n].in_progress /\ mem[n].txns = db[n].txns /\ mem[n].a = db[n].a
         /\ mem[n].b = db[n].b \/ (mem[n].b = "Confirmed" /\ db[n].b = "InChain")
         /\ o.saved \/ ~Quiet(mem[n]) => "LOCK_SPEND_TX_LF" \in msgs
         /\ "LOCK_SPEND_TX_LF" \in msgs =>
              /\ n = "L" => db[n].state \notin UnlockedStates \union
                              {"HAVE_SCRIPT_COIN_SPEND_TX", "SWAP_TIMEDOUT"}
              /\ n = "F" => db[n].state # "BID_ACCEPTED"
  <1>1. db[n] \in Bids /\ mem[n] \in Bids
    BY DEF CheckOf, Inv, RowsInv
  <1>2. NodeInv(n, db[n], mem[n], actions[n], watch[n], conf', sent')
    BY NodeInvMore DEF CheckOf, TrackInv
  <1>3. o.saved => ~Quiet(mem[n]) \/ "refund" \in sent
    BY TxFacts DEF CheckOf, Outcome, Quiet, Inv, LedgerInv, LedgerTypeOK, ExclusionInv
  <1>4. o.saved \/ ~Quiet(mem[n]) => "LOCK_SPEND_TX_LF" \in msgs
    BY <1>3, Late, RefundOut DEF CheckOf
  <1>5. "LOCK_SPEND_TX_LF" \in msgs =>
          /\ n = "L" => db[n].state \notin UnlockedStates \union
                          {"HAVE_SCRIPT_COIN_SPEND_TX", "SWAP_TIMEDOUT"}
          /\ n = "F" => db[n].state # "BID_ACCEPTED"
    BY DEF CheckOf, TrackInv, PhaseInv, UnlockedStates
  <1> QED BY <1>1, <1>2, <1>4, <1>5 DEF CheckOf, NodeInv, Mirrors

\* The check leaves the bid as its first part made it.
LEMMA CheckKeeps ==
  ASSUME NEW n \in Nodes, NEW o, CheckOf(n, o), NEW more,
         CommitCheck(n, o, o.bid, FALSE, more), UNCHANGED watch,
         \/ more = {}
         \/ /\ more = {"RECOVER_LOCK_TX_B"} /\ n = "F"
            /\ o.bid.state = "FAILED" /\ o.bid.b # "None"
         \/ /\ more = {"SEND_MERCY_TX"}
            /\ o.bid.state = "FAILED_SWIPED_SENDING_MERCY"
  PROVE  TrackInv' /\ RowsAdvance
  <1> DEFINE d == db[n]
             m == mem[n]
             q == actions[n] \union o.acts \union more
             c == o.bid
  <1>1. /\ Writes(n, Row(n, o), c, q) /\ watch' = [watch EXCEPT ![n] = watch[n]]
        /\ Row(n, o) = IF o.saved THEN c ELSE d
    BY WritesForms DEF CheckOf, Inv, EngineInv, Row
  <1>2. /\ c.state = m.state /\ c.a = m.a /\ c.b = m.b /\ m.txns \subseteq c.txns
        /\ c.in_progress = m.in_progress /\ o.acts \subseteq {"SEND_MERCY_TX"}
        /\ o.acts # {} => n = "F" /\ TRUE \in Altruistic /\ CanSendMercy
        /\ ~o.saved => c = m /\ o.acts = {}
    BY DEF CheckOf, Outcome
  <1>3. NodeInv(n, d, m, actions[n], watch[n], conf', sent') /\ m # NoBid /\ d.in_progress
    BY CheckKnows DEF CheckOf
  <1>4. more = {"SEND_MERCY_TX"} => n = "F" /\ TRUE \in Altruistic /\ CanSendMercy
    BY <1>2, <1>3, NodeFacts
       DEF NodeInv, Told, LeaderTold, LeaderStates, UnlockedStates, FollowerTold
  <1>5. more # {} => n = "F" /\ d.state \notin CanTimeout
    BY <1>2, <1>3, <1>4 DEF NodeInv, FollowerRow, CanTimeout
  <1>6. more \subseteq {"RECOVER_LOCK_TX_B", "SEND_MERCY_TX"}
        /\ ("SEND_MERCY_TX" \in more => TRUE \in Altruistic /\ CanSendMercy)
    BY <1>4
  <1>7. CASE ~o.saved
    <2>1. q = actions[n] \union more /\ c = m
      BY <1>2, <1>7
    <2>2. n = "L" => LeaderRow(d, m, q)
      BY <1>3, <1>5, <2>1 DEF NodeInv
    <2>3. n = "F" => FollowerRow(d, m, q)
      BY <1>3, <1>5, <1>6, <2>1 DEF NodeInv, FollowerRow, CanTimeout, UnlockedStates
    <2>4. NodeInv(n, d, m, q, watch[n], conf', sent')
      BY <1>3, <2>2, <2>3 DEF NodeInv
    <2>5. PhaseInv(msgs, sent)'
      <3>1. \A k \in Nodes : db'[k] = db[k] /\ mem'[k] = mem[k]
        BY <1>1, <1>7, <2>1 DEF Writes, CheckOf, Inv, RowsInv
      <3> QED BY <3>1, NodeFacts DEF CheckOf, TrackInv, PhaseInv, SamePhase
    <2> HIDE DEF q
    <2> QED BY <1>1, <1>7, <2>1, <2>4, <2>5, AdvancesSame, NodeStep DEF CheckOf
  <1>8. CASE o.saved
    <2>1. /\ "LOCK_SPEND_TX_LF" \in msgs
          /\ n = "L" => d.state \notin UnlockedStates \union
                          {"HAVE_SCRIPT_COIN_SPEND_TX", "SWAP_TIMEDOUT"}
          /\ n = "F" => d.state # "BID_ACCEPTED"
          /\ m.txns = d.txns /\ m.a = d.a /\ m.in_progress
          /\ m.b = d.b \/ (m.b = "Confirmed" /\ d.b = "InChain")
          /\ m.a = "InChain" \/ "refund" \in m.txns
      BY <1>8, CheckKnows DEF CheckOf, Outcome
    <2>2. Told(n, c.state, conf', sent') /\ m.state # "NONE" /\ m.state # "SWAP_TIMEDOUT"
      BY <1>2, <1>3 DEF NodeInv, Mirrors
    <2>3. n = "L" => LeaderRow(c, c, q)
      BY <1>2, <1>3, <1>5, <2>1 DEF NodeInv, LeaderRow, CanTimeout, UnlockedStates
    <2>4. n = "F" => FollowerRow(c, c, q) /\ c.state \notin UnlockedStates
      BY <1>2, <1>3, <1>5, <1>6, <2>1 DEF NodeInv, FollowerRow, CanTimeout, UnlockedStates
    <2>5. /\ n = "L" => c.state \notin UnlockedStates \union {"HAVE_SCRIPT_COIN_SPEND_TX"}
          /\ c.state # "BID_ACCEPTED"
      BY <1>2, <1>3, <2>1, <2>4, NodeFacts
         DEF NodeInv, LeaderRow, CanTimeout, UnlockedStates
    <2>6. NodeInv(n, c, c, q, watch[n], conf', sent')
      BY <1>2, <2>1, <2>2, <2>3, <2>4, <2>5 DEF NodeInv, Mirrors
    <2>7. Advances(d, c)
      BY <1>2, <1>3, <2>1 DEF Advances, NodeInv, Mirrors
    <2>8. Writes(n, c, c, q) /\ (n = "F" /\ c.b = "None" => d.b = "None")
      BY <1>1, <1>2, <1>8, <2>1
    <2>9. n = "L" => c.state \notin UnlockedStates \union
                      {"HAVE_SCRIPT_COIN_SPEND_TX", "SWAP_TIMEDOUT"}
      BY <1>2, <2>2, <2>5
    <2> HIDE DEF q, c
    <2> QED BY <1>1, <2>1, <2>5, <2>6, <2>7, <2>8, <2>9, LateStep DEF CheckOf
  <1> QED BY <1>7, <1>8

\* The check writes a bid that is past the first phase.
LEMMA CheckCommits ==
  ASSUME NEW n \in Nodes, NEW o, CheckOf(n, o), NEW e, NEW b, NEW q, NEW w,
         NEW more, Writes(n, e, b, q), watch' = [watch EXCEPT ![n] = w],
         e \in {Row(n, o), b}, mem[n].state \notin CanTimeout,
         b.state \notin CanTimeout \union {"NONE", "SWAP_TIMEDOUT"},
         b.in_progress, b.a = mem[n].a, Told(n, b.state, conf', sent'),
         b.state \in ForwardStates =>
           mem[n].state \in ForwardStates \/ "refund" \notin o.bid.txns,
         IF e = b THEN o.bid.txns \subseteq b.txns
         ELSE /\ b.txns = o.bid.txns
              /\ b.b = mem[n].b \/ (b.b = "Confirmed" /\ mem[n].b = "InChain"),
         mem[n].b = "Spent" => b.b = "Spent", b.b = "None" => mem[n].b = "None",
         q \subseteq actions[n] \union o.acts \union more,
         more \subseteq {"SEND_LOCK_TX_B", "SEND_LOCK_RELEASE", "REDEEM_LOCK_TX_B"},
         n = "F" /\ "SEND_LOCK_TX_B" \in q => e.b = "None"
  PROVE  TrackInv' /\ RowsAdvance
  <1> DEFINE d == db[n]
             m == mem[n]
             c == o.bid
  <1>1. /\ c.state = m.state /\ c.a = m.a /\ c.b = m.b /\ m.txns \subseteq c.txns
        /\ c.in_progress = m.in_progress /\ o.acts \subseteq {"SEND_MERCY_TX"}
        /\ o.acts # {} => n = "F" /\ TRUE \in Altruistic /\ CanSendMercy
        /\ ~o.saved => c = m
    BY DEF CheckOf, Outcome
  <1>2. NodeInv(n, d, m, actions[n], watch[n], conf', sent') /\ m # NoBid /\ d.in_progress
    BY CheckKnows DEF CheckOf
  <1>3. m.state \notin {"NONE", "SWAP_TIMEDOUT"}
    BY <1>2 DEF NodeInv, Mirrors
  <1>4. "LOCK_SPEND_TX_LF" \in msgs
    <2>1. ~Quiet(m)
      BY <1>3 DEF Quiet, CanTimeout, UnlockedStates
    <2> QED BY <2>1, CheckKnows
  <1>5. /\ n = "L" => d.state \notin UnlockedStates \union
                          {"HAVE_SCRIPT_COIN_SPEND_TX", "SWAP_TIMEDOUT"}
        /\ n = "F" => d.state # "BID_ACCEPTED"
        /\ m.in_progress /\ m.txns = d.txns /\ m.a = d.a
        /\ m.b = d.b \/ (m.b = "Confirmed" /\ d.b = "InChain")
    BY <1>4, CheckKnows
  <1>6. n = "F" => d.state \notin CanTimeout
    BY <1>2 DEF NodeInv, FollowerRow
  <1>7. e \in {d, c, b} /\ (e = d => ~o.saved \/ d = c \/ d = b)
    BY DEF Row
  <1>8. /\ e.in_progress /\ e.a = d.a /\ d.txns \subseteq e.txns
        /\ e.state \in {d.state, m.state, b.state}
        /\ d.b = "Spent" => e.b = "Spent"
        /\ e.b = "None" => d.b = "None"
    BY <1>1, <1>2, <1>5, <1>7
  <1>9. Told(n, e.state, conf', sent')
    BY <1>2, <1>8 DEF NodeInv
  <1>10. /\ e.state \notin {"NONE", "SWAP_TIMEDOUT", "BID_ACCEPTED"}
         /\ n = "L" => e.state \notin UnlockedStates \union
                          {"HAVE_SCRIPT_COIN_SPEND_TX", "SWAP_TIMEDOUT"}
         /\ n = "F" => e.state \notin CanTimeout
    BY <1>2, <1>3, <1>5, <1>6, <1>8, NodeFacts DEF NodeInv, CanTimeout, UnlockedStates
  <1>11. Mirrors(e, b)
    <2>1. CASE e = b
      BY <2>1 DEF Mirrors
    <2>2. CASE e # b
      <3>1. b.txns = e.txns /\ b.a = e.a
        BY <1>1, <1>5, <1>7, <1>8, <2>2
      <3>2. b.b = e.b \/ (b.b = "Confirmed" /\ e.b = "InChain")
        BY <1>1, <1>5, <1>7, <2>2
      <3>3. "refund" \in e.txns /\ e.state \notin ForwardStates =>
              b.state \notin ForwardStates
        BY <1>1, <1>2, <1>7, <2>2, <3>1 DEF NodeInv, Mirrors
      <3> QED BY <3>1, <3>2, <3>3 DEF Mirrors
    <2> QED BY <2>1, <2>2
  <1>12. n = "L" => LeaderRow(e, b, q)
    BY <1>1, <1>2, <1>5, <1>8, <1>10 DEF NodeInv, LeaderRow, CanTimeout, UnlockedStates
  <1>13. n = "F" => FollowerRow(e, b, q)
    BY <1>1, <1>2, <1>5, <1>6, <1>10, ZenonT(40)
       DEF NodeInv, FollowerRow, CanTimeout, UnlockedStates
  <1>14. NodeInv(n, e, b, q, w, conf', sent')
    BY <1>8, <1>9, <1>10, <1>11, <1>12, <1>13 DEF NodeInv
  <1>15. Advances(d, e)
    BY <1>1, <1>2, <1>5, <1>7, <1>8 DEF Advances, NodeInv, Mirrors
  <1> QED BY <1>4, <1>5, <1>8, <1>10, <1>14, <1>15, LateStep DEF CheckOf

\* The check deactivates the bid.
LEMMA CheckDeactivates ==
  ASSUME NEW n \in Nodes, NEW o, CheckOf(n, o), NEW b \in Bids, Deactivate(n, b),
         b.state \in EndStates \union {"FAILED"},
         b.state = "FAILED" => b.b = "None",
         b.a = mem[n].a, b.b = mem[n].b, b.txns = o.bid.txns,
         mem[n].state \notin CanTimeout, Told(n, b.state, conf', sent')
  PROVE  TrackInv' /\ RowsAdvance
  <1> DEFINE d == db[n]
             m == mem[n]
             e == [b EXCEPT !.in_progress = FALSE]
  <1>1. /\ e.state = b.state /\ e.a = b.a /\ e.b = b.b /\ e.txns = b.txns
        /\ ~e.in_progress
    BY DEF Bids
  <1>2. Writes(n, e, NoBid, {}) /\ watch' = [watch EXCEPT ![n] = {}]
    BY WritesForms DEF CheckOf, Inv, Deactivate
  <1> HIDE DEF e
  <1>3. NodeInv(n, d, m, actions[n], watch[n], conf', sent') /\ m # NoBid /\ d.in_progress
    BY CheckKnows DEF CheckOf
  <1>4. m.state \notin {"NONE", "SWAP_TIMEDOUT"}
    BY <1>3 DEF NodeInv, Mirrors
  <1>5. "LOCK_SPEND_TX_LF" \in msgs
    <2>1. ~Quiet(m)
      BY <1>4 DEF Quiet, CanTimeout, UnlockedStates
    <2> QED BY <2>1, CheckKnows
  <1>6. /\ m.txns = d.txns /\ m.a = d.a /\ m.txns \subseteq o.bid.txns
        /\ m.b = d.b \/ (m.b = "Confirmed" /\ d.b = "InChain")
    BY CheckKnows DEF CheckOf, Outcome
  <1>7. e.state \notin ForwardStates \union CanTimeout \union UnlockedStates \union
          {"NONE", "BID_ACCEPTED", "HAVE_SCRIPT_COIN_SPEND_TX", "SWAP_TIMEDOUT"}
    BY <1>1 DEF EndStates, ForwardStates, CanTimeout, UnlockedStates
  <1>8. NoBid.state = "NONE" /\ Told(n, "NONE", conf', sent')
    BY DEF NoBid, Told, LeaderTold, LeaderStates, FollowerTold, FollowerStates
  <1>9. Closed(e, NoBid, {}, {})
    BY <1>1, <1>7 DEF Closed
  <1>10. (n = "L" => LeaderRow(e, NoBid, {})) /\ (n = "F" => FollowerRow(e, NoBid, {}))
    BY <1>7, <1>8 DEF LeaderRow, FollowerRow, CanTimeout, UnlockedStates
  <1>11. NodeInv(n, e, NoBid, {}, {}, conf', sent')
    BY <1>1, <1>7, <1>8, <1>9, <1>10 DEF NodeInv, Mirrors
  <1>12. Advances(d, e)
    BY <1>1, <1>3, <1>6, <1>7 DEF Advances
  <1>13. n = "F" /\ e.b = "None" => d.b = "None"
    BY <1>1, <1>6
  <1> QED BY <1>2, <1>5, <1>7, <1>11, <1>12, <1>13, LateStep DEF CheckOf

\* What is left of the check when findTxB made the bid b of it.
LEMMA CheckFoundB ==
  ASSUME NEW n \in Nodes, NEW o, CheckOf(n, o), NEW b \in Bids, NEW save \in BOOLEAN,
         AfterFindTxB(n, o, b, save),
         o.bid.state \in {"SCRIPT_COIN_LOCKED", "SCRIPT_TX_PREREFUND"},
         b.a = o.bid.a, b.txns = o.bid.txns, b.in_progress = o.bid.in_progress,
         b.state \in {o.bid.state, "BID_ERROR"},
         \/ b.b = o.bid.b
         \/ o.bid.b \in {"None", "Sent"} /\ b.b = "InChain" /\ conf["b_lock"] > 0,
         ~save => b = o.bid
  PROVE  TrackInv' /\ RowsAdvance
  <1> DEFINE d == db[n]
             m == mem[n]
             c == o.bid
             state == c.state
             resend == n = "F" /\ state = "SCRIPT_COIN_LOCKED" /\ b.b = "None"
             confirmed == b.b \in {"InChain", "Spent"} /\ conf["b_lock"] - 1 >= ConfB
             forward == confirmed /\ CanGoForward(b)
             b2 == [b EXCEPT
                      !.b = IF confirmed /\ @ # "Spent" THEN "Confirmed" ELSE @,
                      !.state = IF forward THEN "NOSCRIPT_COIN_LOCKED" ELSE @]
             give_up == /\ n = "L" /\ state = "SCRIPT_TX_PREREFUND"
                        /\ "mercy" \notin b.txns /\ MercyOverdue(n)
             b3 == IF give_up THEN [b2 EXCEPT !.state = "FAILED_SWIPED"] ELSE b2
             more == (IF resend THEN {"SEND_LOCK_TX_B"} ELSE {})
                     \union (IF n = "L" /\ forward THEN {"SEND_LOCK_RELEASE"} ELSE {})
             e == IF save \/ give_up THEN b3 ELSE Row(n, o)
             q == actions[n] \union o.acts \union more
             w == IF give_up THEN watch[n] \ {"MERCY"} ELSE watch[n]
  <1>1. Writes(n, e, b3, q) /\ watch' = [watch EXCEPT ![n] = w]
    BY WritesForms DEF AfterFindTxB, CheckOf, Inv
  <1>2. /\ b2 \in Bids
        /\ b2.a = b.a /\ b2.txns = b.txns /\ b2.in_progress = b.in_progress
        /\ b2.b = IF confirmed /\ b.b # "Spent" THEN "Confirmed" ELSE b.b
        /\ b2.state = IF forward THEN "NOSCRIPT_COIN_LOCKED" ELSE b.state
    <2> HIDE DEF confirmed, forward
    <2> QED BY DEF Bids, BidStates
  <1> HIDE DEF b2
  <1>3. /\ b3.a = b.a /\ b3.txns = b.txns /\ b3.in_progress = b.in_progress
        /\ b3.b = b2.b
        /\ b3.state = IF give_up THEN "FAILED_SWIPED" ELSE b2.state
    <2> HIDE DEF give_up
    <2> QED BY <1>2 DEF Bids
  <1> HIDE DEF b3
  <1>4. /\ c.state = m.state /\ c.a = m.a /\ c.b = m.b /\ m.txns \subseteq c.txns
        /\ c.in_progress = m.in_progress /\ m.in_progress
        /\ m.b = d.b \/ (m.b = "Confirmed" /\ d.b = "InChain")
        /\ ~o.saved => c = m
    BY CheckKnows DEF CheckOf, Outcome
  <1>5. NodeInv(n, d, m, actions[n], watch[n], conf', sent')
    BY CheckKnows
  <1>6. give_up => conf'["swipe"] > 0
    <2>1. waited["L"] >= MercyTimeout => waited["L"] >= 0
      BY TimesAssumption, NodeFacts DEF CheckOf, Inv, OthersInv
    <2> QED BY <2>1, TxFacts DEF MercyOverdue, CheckOf, TrackInv, LedgerGrows, Mined
  <1>7. Told(n, b3.state, conf', sent')
    <2>1. Told(n, m.state, conf', sent')
      BY <1>5 DEF NodeInv
    <2>2. \/ b3.state = "FAILED_SWIPED" /\ conf'["swipe"] > 0 /\ n = "L"
          \/ b3.state \in {m.state, "BID_ERROR", "NOSCRIPT_COIN_LOCKED"}
      BY <1>2, <1>3, <1>4, <1>6
    <2> HIDE DEF give_up, confirmed, forward, m, c, e, q, w, more, resend
    <2> DEFINE s == b3.state
    <2> HIDE DEF s
    <2>3. CASE n = "L"
      BY <2>1, <2>2, <2>3 DEF Told, LeaderTold, LeaderStates, s
    <2>4. CASE n = "F"
      BY <2>1, <2>2, <2>4 DEF Told, FollowerTold, FollowerStates, s
    <2> QED BY <2>3, <2>4 DEF Nodes
  <1>8. b3.state \in {m.state, "BID_ERROR", "NOSCRIPT_COIN_LOCKED", "FAILED_SWIPED"}
        /\ (b3.state = "NOSCRIPT_COIN_LOCKED" => "refund" \notin c.txns)
    BY <1>2, <1>3, <1>4 DEF CanGoForward
  <1>9. /\ m.b = "Spent" => b3.b = "Spent"
        /\ b3.b = "None" => m.b = "None"
        /\ b3.b \in {b.b, "Confirmed"}
        /\ b3.b = "Confirmed" => b.b \in {"InChain", "Confirmed"}
        /\ b.b = "None" => b3.b = "None" /\ m.b = "None"
    BY <1>2, <1>3, <1>4
  <1>10. conf["b_lock"] > 0 => ~(n = "F" /\ d.b = "None")
    <2>1. conf["b_lock"] > 0 => "b_lock" \in sent
      BY TxFacts DEF CheckOf, Inv, LedgerInv, LedgerTypeOK, ExclusionInv
    <2> QED BY <2>1 DEF CheckOf, TrackInv, PhaseInv
  <1>11. ASSUME n = "F", "SEND_LOCK_TX_B" \in q PROVE e.b = "None"
    <2>1. "SEND_LOCK_TX_B" \notin o.acts
      BY DEF CheckOf, Outcome
    <2>2. b.b = "None" /\ d.b = "None" /\ m.b = "None"
      BY <1>4, <1>5, <1>9, <1>10, <1>11, <2>1 DEF NodeInv, FollowerRow
    <2> QED BY <1>4, <1>9, <2>2 DEF Row
  <1>12. more \subseteq {"SEND_LOCK_TX_B", "SEND_LOCK_RELEASE", "REDEEM_LOCK_TX_B"}
    OBVIOUS
  <1>13. e \in {Row(n, o), b3} /\ q \subseteq actions[n] \union o.acts \union more
    OBVIOUS
  <1>14. IF e = b3 THEN c.txns \subseteq b3.txns
         ELSE /\ b3.txns = c.txns
              /\ b3.b = m.b \/ (b3.b = "Confirmed" /\ m.b = "InChain")
    BY <1>3, <1>4, <1>9
  <1>15. /\ m.state \notin CanTimeout /\ b3.in_progress /\ b3.a = m.a
         /\ b3.state \notin CanTimeout \union {"NONE", "SWAP_TIMEDOUT"}
         /\ b3.state \in ForwardStates =>
              m.state \in ForwardStates \/ "refund" \notin c.txns
    BY <1>3, <1>4, <1>8 DEF CanTimeout, ForwardStates
  <1> HIDE DEF e, q, w, more
  <1> QED BY <1>1, <1>7, <1>9, <1>11, <1>12, <1>13, <1>14, <1>15, CheckCommits

\* The check waits for the coin A lock.
LEMMA CheckLockTxAKept ==
  ASSUME NEW n \in Nodes, NEW o, CheckOf(n, o), CheckLockTxA(n, o)
  PROVE  TrackInv' /\ RowsAdvance
  <1> DEFINE d == db[n]
             m == mem[n]
             c == o.bid
             locked == conf["a_lock"] >= ConfA
             b == [c EXCEPT !.a = "InChain",
                            !.state = IF locked THEN "SCRIPT_COIN_LOCKED" ELSE @]
             send == IF n = "F" /\ locked THEN {"SEND_LOCK_TX_B"} ELSE {}
             q == actions[n] \union o.acts \union send
  <1>1. /\ b.a = "InChain" /\ b.b = c.b /\ b.txns = c.txns
        /\ b.in_progress = c.in_progress
        /\ b.state = IF locked THEN "SCRIPT_COIN_LOCKED" ELSE c.state
    <2> HIDE DEF locked
    <2> QED BY DEF CheckOf, Bids
  <1>2. c.state = "MSG_SCRIPT_LOCK_SPEND_TX" /\ UNCHANGED watch
        /\ IF conf["a_lock"] > 0 THEN CommitCheck(n, o, b, TRUE, send)
           ELSE CommitCheck(n, o, c, FALSE, {})
    BY DEF CheckLockTxA
  <1> HIDE DEF b
  <1>3. CASE conf["a_lock"] > 0
    <2>1. Writes(n, b, b, q) /\ watch' = [watch EXCEPT ![n] = watch[n]]
      BY <1>2, <1>3, WritesForms DEF CheckOf, Inv, EngineInv
    <2>2. /\ c.state = m.state /\ c.a = m.a /\ c.b = m.b /\ m.txns \subseteq c.txns
          /\ c.in_progress = m.in_progress /\ o.acts \subseteq {"SEND_MERCY_TX"}
          /\ o.acts # {} => n = "F" /\ TRUE \in Altruistic /\ CanSendMercy
      BY DEF CheckOf, Outcome
    <2>3. /\ NodeInv(n, d, m, actions[n], watch[n], conf', sent')
          /\ m # NoBid /\ d.in_progress /\ m.in_progress /\ m.txns = d.txns
          /\ m.b = d.b \/ (m.b = "Confirmed" /\ d.b = "InChain")
      BY CheckKnows DEF CheckOf
    <2>4. "LOCK_SPEND_TX_LF" \in msgs
      <3>1. ~Quiet(m)
        BY <1>2, <2>2 DEF Quiet, UnlockedStates
      <3> QED BY <3>1, CheckKnows
    <2>5. d.state = m.state
      BY <1>2, <2>2, <2>3, NodeFacts
         DEF NodeInv, LeaderRow, FollowerRow, CanTimeout, UnlockedStates
    <2>6. n = "F" => d.b = "None" /\ actions[n] \subseteq {"SEND_MERCY_TX"}
      BY <1>2, <2>2, <2>3, <2>5 DEF NodeInv, FollowerRow, CanTimeout
    <2>7. Told(n, b.state, conf', sent')
      BY <1>1, <1>2, <2>2, <2>3 DEF NodeInv, Told, LeaderTold, LeaderStates,
         FollowerTold, FollowerStates
    <2>8. n = "L" => LeaderRow(b, b, q)
      BY <1>1, <1>2, <2>2, <2>3, <2>5
         DEF NodeInv, LeaderRow, CanTimeout, UnlockedStates
    <2>9. n = "F" => FollowerRow(b, b, q)
      BY <1>1, <1>2, <2>2, <2>3, <2>6
         DEF NodeInv, FollowerRow, CanTimeout, UnlockedStates
    <2>10. NodeInv(n, b, b, q, watch[n], conf', sent')
      BY <1>1, <1>2, <2>2, <2>3, <2>7, <2>8, <2>9 DEF NodeInv, Mirrors
    <2>11. Advances(d, b)
      BY <1>1, <1>2, <2>2, <2>3, <2>5 DEF Advances, ForwardStates
    <2>12. b.state \notin UnlockedStates \union
             {"HAVE_SCRIPT_COIN_SPEND_TX", "SWAP_TIMEDOUT", "BID_ACCEPTED"}
      BY <1>1, <1>2 DEF UnlockedStates
    <2>13. n = "F" /\ b.b = "None" => d.b = "None"
      BY <2>6
    <2> HIDE DEF q
    <2> QED BY <2>1, <2>4, <2>10, <2>11, <2>12, <2>13, LateStep DEF CheckOf
  <1>4. CASE ~(conf["a_lock"] > 0)
    BY <1>2, <1>4, CheckKeeps
  <1> QED BY <1>3, <1>4

\* The check waits for the coin B lock.
LEMMA CheckLockTxBKept ==
  ASSUME NEW n \in Nodes, NEW o, CheckOf(n, o), CheckLockTxB(n, o)
  PROVE  TrackInv' /\ RowsAdvance
  <1> DEFINE c == o.bid
             found == [c EXCEPT !.b = "InChain"]
             bad == [c EXCEPT !.state = "BID_ERROR"]
  <1>0. c \in Bids /\ c.state \in {"SCRIPT_COIN_LOCKED", "SCRIPT_TX_PREREFUND"}
    BY DEF CheckOf, CheckLockTxB
  <1>1. /\ found \in Bids /\ found.a = c.a /\ found.b = "InChain"
        /\ found.txns = c.txns /\ found.in_progress = c.in_progress
        /\ found.state = c.state
    BY <1>0 DEF Bids
  <1>2. /\ bad \in Bids /\ bad.a = c.a /\ bad.b = c.b /\ bad.txns = c.txns
        /\ bad.in_progress = c.in_progress /\ bad.state = "BID_ERROR"
    BY <1>0 DEF Bids, BidStates
  <1>3. \/ AfterFindTxB(n, o, c, FALSE)
        \/ conf["b_lock"] > 0 /\ AfterFindTxB(n, o, FoundB(c), TRUE)
        \/ AfterFindTxB(n, o, bad, TRUE)
    <2> HIDE DEF bad
    <2> QED BY DEF CheckLockTxB, FindTxB, bad
  <1>4. FoundB(c) = c \/ (c.b \in {"None", "Sent"} /\ FoundB(c) = found)
    BY DEF FoundB
  <1> HIDE DEF found, bad
  <1>5. CASE AfterFindTxB(n, o, c, FALSE)
    BY <1>0, <1>5, CheckFoundB
  <1>6. CASE conf["b_lock"] > 0 /\ AfterFindTxB(n, o, FoundB(c), TRUE)
    BY <1>0, <1>1, <1>4, <1>6, CheckFoundB
  <1>7. CASE AfterFindTxB(n, o, bad, TRUE)
    BY <1>0, <1>2, <1>7, CheckFoundB
  <1> QED BY <1>3, <1>5, <1>6, <1>7

\* The leader finds the coin A lock spend in the memory pool: it goes on from the
\* row, which the in-memory copy may be ahead of.
LEMMA CheckReleasedKept ==
  ASSUME NEW n \in Nodes, NEW o, CheckOf(n, o), CheckReleased(n, o)
  PROVE  TrackInv' /\ RowsAdvance
  <1> DEFINE d == db[n]
             m == mem[n]
             c == o.bid
             row == Row(n, o)
             s == SpendSeen(n, row)
             q == (actions[n] \ {}) \union o.acts
  <1>1. /\ c.state = "LOCK_RELEASED" /\ UNCHANGED watch
        /\ \/ n = "L" /\ SaveBid(n, s, {}, o.acts)
           \/ CommitCheck(n, o, c, FALSE, {})
    BY DEF CheckReleased
  <1>2. row \in Bids /\ d \in Bids
    BY DEF Row, CheckOf, Inv, RowsInv
  <1>3. /\ s.a = row.a /\ s.b = row.b /\ s.txns = row.txns
        /\ s.in_progress = row.in_progress
        /\ IF row.state = "LOCK_RELEASED"
           THEN s.state = IF n = "L" THEN "SCRIPT_TX_REDEEMED" ELSE "SWAP_COMPLETED"
           ELSE s = row
    <2> HIDE DEF row
    <2> QED BY <1>2 DEF SpendSeen, Bids
  <1> HIDE DEF s
  <1>4. /\ c.state = m.state /\ c.a = m.a /\ c.b = m.b /\ c.in_progress = m.in_progress
        /\ ~o.saved => c = m /\ o.acts = {}
        /\ NodeInv(n, d, m, actions[n], watch[n], conf', sent')
        /\ m # NoBid /\ d.in_progress /\ m.in_progress /\ m.txns = d.txns /\ m.a = d.a
        /\ m.b = d.b \/ (m.b = "Confirmed" /\ d.b = "InChain")
    BY CheckKnows DEF CheckOf, Outcome
  <1>5. CASE n = "L" /\ SaveBid(n, s, {}, o.acts)
    <2>1. Writes(n, s, s, q) /\ watch' = [watch EXCEPT ![n] = watch[n]]
      BY <1>1, <1>5, WritesForms DEF CheckOf, Inv, EngineInv
    <2>2. CASE row.state = "LOCK_RELEASED"
      <3>1. s.state = "SCRIPT_TX_REDEEMED"
        BY <1>3, <1>5, <2>2
      <3>2. Told(n, s.state, conf', sent')
        BY <1>5, <3>1 DEF Told, LeaderTold, LeaderStates
      <3>3. /\ s.in_progress /\ s.a = m.a /\ c.txns \subseteq s.txns
            /\ m.b = "Spent" => s.b = "Spent"
            /\ s.b = "None" => m.b = "None"
        BY <1>3, <1>4 DEF Row
      <3>4. /\ m.state \notin CanTimeout /\ m.state \in ForwardStates
            /\ s.state \notin CanTimeout \union {"NONE", "SWAP_TIMEDOUT"}
        BY <1>1, <1>4, <3>1 DEF CanTimeout, ForwardStates
      <3>5. q \subseteq actions[n] \union o.acts \union {}
        OBVIOUS
      <3> HIDE DEF q
      <3> QED BY <1>5, <2>1, <3>2, <3>3, <3>4, <3>5, CheckCommits
    <2>3. CASE row.state # "LOCK_RELEASED"
      <3>1. row = d /\ s = d /\ q = actions[n]
        BY <1>1, <1>3, <1>4, <2>3 DEF Row
      <3>2. NodeInv(n, d, d, q, watch[n], conf', sent')
        BY <1>4, <1>5, <3>1 DEF NodeInv, Mirrors, LeaderRow
      <3>3. PhaseInv(msgs, sent)'
        <4>1. \A k \in Nodes : db'[k] = db[k] /\ mem'[k] \in {mem[k], db[k]}
          BY <2>1, <3>1 DEF Writes, CheckOf, Inv, RowsInv
        <4> QED BY <4>1, NodeFacts DEF CheckOf, TrackInv, PhaseInv, SamePhase
      <3> HIDE DEF q
      <3> QED BY <2>1, <3>1, <3>2, <3>3, AdvancesSame, NodeStep DEF CheckOf
    <2> QED BY <2>2, <2>3
  <1>6. CASE CommitCheck(n, o, c, FALSE, {})
    BY <1>1, <1>6, CheckKeeps
  <1> QED BY <1>1, <1>5, <1>6

\* The leader goes for coin B.
LEMMA CheckRedeemedKept ==
  ASSUME NEW n \in Nodes, NEW o, CheckOf(n, o), CheckRedeemed(n, o)
  PROVE  TrackInv' /\ RowsAdvance
  <1> DEFINE m == mem[n]
             c == o.bid
             b == [c EXCEPT !.state = "SWAP_DELAYING"]
             q == actions[n] \union o.acts \union {"REDEEM_LOCK_TX_B"}
  <1>1. /\ c.state = "SCRIPT_TX_REDEEMED" /\ UNCHANGED watch
        /\ \/ n = "L" /\ CommitCheck(n, o, b, TRUE, {"REDEEM_LOCK_TX_B"})
           \/ CommitCheck(n, o, c, FALSE, {})
    BY DEF CheckRedeemed
  <1>2. /\ b.a = c.a /\ b.b = c.b /\ b.txns = c.txns
        /\ b.in_progress = c.in_progress /\ b.state = "SWAP_DELAYING"
    BY DEF CheckOf, Bids
  <1> HIDE DEF b
  <1>3. CASE n = "L" /\ CommitCheck(n, o, b, TRUE, {"REDEEM_LOCK_TX_B"})
    <2>1. Writes(n, b, b, q) /\ watch' = [watch EXCEPT ![n] = watch[n]]
      BY <1>1, <1>3, WritesForms DEF CheckOf, Inv, EngineInv
    <2>2. Told(n, b.state, conf', sent')
      BY <1>2, <1>3 DEF Told, LeaderTold, LeaderStates
    <2>3. /\ c.state = m.state /\ c.a = m.a /\ c.b = m.b
          /\ c.in_progress = m.in_progress /\ m.in_progress
      BY CheckKnows DEF CheckOf, Outcome
    <2>4. /\ m.state \notin CanTimeout /\ m.state \in ForwardStates
          /\ b.state \notin CanTimeout \union {"NONE", "SWAP_TIMEDOUT"}
      BY <1>1, <1>2, <2>3 DEF CanTimeout, ForwardStates
    <2>5. q \subseteq actions[n] \union o.acts \union {"REDEEM_LOCK_TX_B"}
      OBVIOUS
    <2>6. /\ b \in {Row(n, o), b} /\ b.in_progress /\ b.a = mem[n].a
          /\ mem[n].state \notin CanTimeout /\ mem[n].state \in ForwardStates
      BY <1>2, <2>3, <2>4
    <2>7. IF b = b THEN o.bid.txns \subseteq b.txns
          ELSE /\ b.txns = o.bid.txns
               /\ b.b = mem[n].b \/ (b.b = "Confirmed" /\ mem[n].b = "InChain")
      BY <1>2
    <2>8. /\ mem[n].b = "Spent" => b.b = "Spent"
          /\ b.b = "None" => mem[n].b = "None"
          /\ n = "F" /\ "SEND_LOCK_TX_B" \in q => b.b = "None"
      BY <1>2, <1>3, <2>3
    <2>9. {"REDEEM_LOCK_TX_B"} \subseteq
            {"SEND_LOCK_TX_B", "SEND_LOCK_RELEASE", "REDEEM_LOCK_TX_B"}
      OBVIOUS
    <2> HIDE DEF q
    <2> QED BY <2>1, <2>2, <2>4, <2>5, <2>6, <2>7, <2>8, <2>9, CheckCommits
  <1>4. CASE CommitCheck(n, o, c, FALSE, {})
    BY <1>1, <1>4, CheckKeeps
  <1> QED BY <1>1, <1>3, <1>4

\* The leader's spend of coin B ends the swap when it is mined.
LEMMA CheckRedeemBKept ==
  ASSUME NEW n \in Nodes, NEW o, CheckOf(n, o), CheckRedeemB(n, o)
  PROVE  TrackInv' /\ RowsAdvance
  <1> DEFINE m == mem[n]
             c == o.bid
             end == IF c.state = "FAILED_SWIPED_USING_MERCY"
                    THEN "FAILED_SWIPED_USED_MERCY" ELSE "SWAP_COMPLETED"
             b == [c EXCEPT !.state = end]
  <1>1. /\ c.state \in {"NOSCRIPT_TX_REDEEMED", "FAILED_SWIPED_USING_MERCY"}
        /\ \/ conf["b_redeem"] > 0 /\ Deactivate(n, b)
           \/ CommitCheck(n, o, c, FALSE, {}) /\ UNCHANGED watch
    BY DEF CheckRedeemB
  <1>2. /\ b \in Bids /\ b.a = c.a /\ b.b = c.b /\ b.txns = c.txns /\ b.state = end
    BY DEF CheckOf, Bids, BidStates
  <1> HIDE DEF b
  <1>3. CASE conf["b_redeem"] > 0 /\ Deactivate(n, b)
    <2>1. c.state = m.state /\ c.a = m.a /\ c.b = m.b
          /\ NodeInv(n, db[n], m, actions[n], watch[n], conf', sent')
      BY CheckKnows DEF CheckOf, Outcome
    <2>2. "b_redeem" \in sent'
      BY <1>3, TxFacts DEF CheckOf, LedgerGrows, Inv, LedgerInv, LedgerTypeOK,
         ExclusionInv
    <2>3. Told(n, end, conf', sent')
      BY <1>1, <2>1, <2>2, NodeFacts DEF NodeInv, Told, LeaderTold, LeaderStates,
         FollowerTold, FollowerStates, UnlockedStates
    <2>4. m.state \notin CanTimeout
      BY <1>1, <2>1 DEF CanTimeout
    <2>5. end \in EndStates
      BY DEF EndStates
    <2> HIDE DEF end
    <2> QED BY <1>2, <1>3, <2>1, <2>3, <2>4, <2>5, CheckDeactivates DEF EndStates
  <1>4. CASE CommitCheck(n, o, c, FALSE, {}) /\ UNCHANGED watch
    BY <1>4, CheckKeeps
  <1> QED BY <1>1, <1>3, <1>4

\* The follower sends its mercy transaction or gives up on it.
LEMMA CheckMercySendKept ==
  ASSUME NEW n \in Nodes, NEW o, CheckOf(n, o), CheckMercySend(n, o)
  PROVE  TrackInv' /\ RowsAdvance
  <1> DEFINE m == mem[n]
             c == o.bid
             b(T) == [c EXCEPT !.state = "FAILED_SWIPED", !.txns = @ \union T]
             q == (actions[n] \ {"SEND_MERCY_TX"}) \union {}
  <1>1. PICK T : /\ c.state = "FAILED_SWIPED_SENDING_MERCY" /\ UNCHANGED watch
                 /\ \/ SaveBid(n, b(T), {"SEND_MERCY_TX"}, {})
                    \/ CommitCheck(n, o, c, FALSE, {"SEND_MERCY_TX"})
    BY DEF CheckMercySend
  <1> DEFINE s == b(T)
  <1>2. /\ s.a = c.a /\ s.b = c.b /\ s.txns = c.txns \union T
        /\ s.in_progress = c.in_progress /\ s.state = "FAILED_SWIPED"
    BY DEF CheckOf, Bids
  <1>3. CASE SaveBid(n, s, {"SEND_MERCY_TX"}, {})
    <2> HIDE DEF s
    <2>1. Writes(n, s, s, q) /\ watch' = [watch EXCEPT ![n] = watch[n]]
      BY <1>1, <1>3, WritesForms DEF CheckOf, Inv, EngineInv
    <2>2. /\ c.state = m.state /\ c.a = m.a /\ c.b = m.b
          /\ c.in_progress = m.in_progress /\ m.in_progress
          /\ NodeInv(n, db[n], m, actions[n], watch[n], conf', sent')
          /\ m.b = db[n].b \/ (m.b = "Confirmed" /\ db[n].b = "InChain")
      BY CheckKnows DEF CheckOf, Outcome
    <2>3. Told(n, s.state, conf', sent') /\ n # "L"
      BY <1>1, <1>2, <2>2 DEF NodeInv, Told, LeaderTold, LeaderStates, FollowerTold,
         FollowerStates, UnlockedStates
    <2>4. /\ m.state \notin CanTimeout /\ s.state \notin ForwardStates
          /\ s.state \notin CanTimeout \union {"NONE", "SWAP_TIMEDOUT"}
      BY <1>1, <1>2, <2>2 DEF CanTimeout, ForwardStates
    <2>5. q \subseteq actions[n] \union o.acts \union {}
      OBVIOUS
    <2>6. "SEND_LOCK_TX_B" \in q => s.b = "None"
      BY <1>2, <2>2, <2>3, NodeFacts DEF NodeInv, FollowerRow
    <2> HIDE DEF q
    <2> QED BY <1>2, <2>1, <2>2, <2>3, <2>4, <2>5, <2>6, CheckCommits
  <1>4. CASE CommitCheck(n, o, c, FALSE, {"SEND_MERCY_TX"})
    BY <1>1, <1>4, CheckKeeps
  <1> QED BY <1>1, <1>3, <1>4

\* The first part ends the check, at times by ending the follower's refund.
LEMMA CheckReturnedKept ==
  ASSUME NEW n \in Nodes, NEW o, CheckOf(n, o), CheckReturned(n, o)
  PROVE  TrackInv' /\ RowsAdvance
  <1> DEFINE m == mem[n]
             c == o.bid
             b == [c EXCEPT !.state = "FAILED_REFUNDED"]
  <1>1. \/ /\ c.state = "NOSCRIPT_TX_RECOVERED" /\ conf["b_recover"] > 0
           /\ Deactivate(n, b)
        \/ CommitCheck(n, o, c, FALSE, {}) /\ UNCHANGED watch
    BY DEF CheckReturned
  <1>2. /\ b \in Bids /\ b.a = c.a /\ b.b = c.b /\ b.txns = c.txns
        /\ b.state = "FAILED_REFUNDED"
    BY DEF CheckOf, Bids, BidStates
  <1> HIDE DEF b
  <1>3. CASE /\ c.state = "NOSCRIPT_TX_RECOVERED" /\ conf["b_recover"] > 0
             /\ Deactivate(n, b)
    <2>1. c.state = m.state /\ c.a = m.a /\ c.b = m.b
          /\ NodeInv(n, db[n], m, actions[n], watch[n], conf', sent')
      BY CheckKnows DEF CheckOf, Outcome
    <2>2. conf'["b_recover"] > 0
      BY <1>3, TxFacts DEF CheckOf, LedgerGrows
    <2>3. Told(n, b.state, conf', sent')
      BY <1>2, <1>3, <2>1, <2>2 DEF NodeInv, Told, LeaderTold, LeaderStates,
         FollowerTold, FollowerStates, UnlockedStates
    <2>4. m.state \notin CanTimeout /\ b.state \in EndStates
      BY <1>2, <1>3, <2>1 DEF CanTimeout, EndStates
    <2> QED BY <1>2, <1>3, <2>1, <2>3, <2>4, CheckDeactivates
  <1>4. CASE CommitCheck(n, o, c, FALSE, {}) /\ UNCHANGED watch
    BY <1>4, CheckKeeps
  <1> QED BY <1>1, <1>3, <1>4

\* A bid in an end state is deactivated.
LEMMA CheckEndedKept ==
  ASSUME NEW n \in Nodes, NEW o, CheckOf(n, o), CheckEnded(n, o)
  PROVE  TrackInv' /\ RowsAdvance
  <1> DEFINE c == o.bid
  <1>1. c.state \in EndStates \/ (c.state = "FAILED" /\ c.b = "None")
    BY DEF CheckEnded, NothingLocked
  <1>2. /\ c \in Bids /\ c.state = mem[n].state /\ c.a = mem[n].a /\ c.b = mem[n].b
        /\ NodeInv(n, db[n], mem[n], actions[n], watch[n], conf', sent')
    BY CheckKnows DEF CheckOf, Outcome
  <1>3. c.state \in EndStates \union {"FAILED"} /\ mem[n].state \notin CanTimeout
        /\ (c.state = "FAILED" => c.b = "None")
    BY <1>1, <1>2 DEF EndStates, CanTimeout
  <1> QED BY <1>2, <1>3, CheckDeactivates DEF CheckEnded, NodeInv

\* The states in which the check leaves the bid.
LEMMA CheckWaitsKept ==
  ASSUME NEW n \in Nodes, NEW o, CheckOf(n, o), CheckFailed(n, o) \/ CheckIdle(n, o)
  PROVE  TrackInv' /\ RowsAdvance
  <1>1. CASE CheckFailed(n, o)
    <2> DEFINE more == IF n = "F" THEN {"RECOVER_LOCK_TX_B"} ELSE {}
    <2>1. CommitCheck(n, o, o.bid, FALSE, more) /\ UNCHANGED watch
          /\ o.bid.state = "FAILED" /\ o.bid.b # "None"
      BY <1>1 DEF CheckFailed, NothingLocked
    <2>2. more = {} \/ (more = {"RECOVER_LOCK_TX_B"} /\ n = "F")
      OBVIOUS
    <2> HIDE DEF more
    <2> QED BY <2>1, <2>2, CheckKeeps
  <1>2. CASE CheckIdle(n, o)
    BY <1>2, CheckKeeps DEF CheckIdle
  <1> QED BY <1>1, <1>2

\* A check of the follower keeps the order when it commits a bid that is
\* SCRIPT_COIN_LOCKED, or queues the coin B lock, only with coin A locked.
LEMMA CheckOrderCommit ==
  ASSUME RowsInv, OrderInv, LedgerGrows, NEW o, Outcome("F", mem["F"], o),
         "b_lock" \in sent' => "b_lock" \in sent,
         NEW b, NEW save, NEW more, CommitCheck("F", o, b, save, more),
         b.state = "SCRIPT_COIN_LOCKED" =>
           mem["F"].state = "SCRIPT_COIN_LOCKED" \/ Mined("a_lock"),
         "SEND_LOCK_TX_B" \in more => Mined("a_lock")
  PROVE  OrderInv'
  <1> DEFINE e == IF save THEN b ELSE Row("F", o)
             q == actions["F"] \union o.acts \union more
  <1>1. Writes("F", e, b, q)
    BY NodeFacts, WritesForms
  <1>2. e.state \in {b.state, mem["F"].state, db["F"].state}
    BY DEF Row, Outcome
  <1>3. "SEND_LOCK_TX_B" \in q => "SEND_LOCK_TX_B" \in actions["F"] \/ Mined("a_lock")
    BY DEF Outcome
  <1> HIDE DEF e, q
  <1> QED BY <1>1, <1>2, <1>3, OrderWritten

\* It keeps it when it deactivates the bid.
LEMMA CheckOrderDeactivate ==
  ASSUME RowsInv, OrderInv, LedgerGrows, "b_lock" \in sent' => "b_lock" \in sent,
         NEW b \in Bids, Deactivate("F", b), b.state # "SCRIPT_COIN_LOCKED"
  PROVE  OrderInv'
  <1> DEFINE e == [b EXCEPT !.in_progress = FALSE]
  <1>1. Writes("F", e, NoBid, {})
    BY NodeFacts, WritesForms
  <1>2. e.state = b.state /\ NoBid.state = "NONE"
    BY DEF Bids, NoBid
  <1> HIDE DEF e
  <1> QED BY <1>1, <1>2, OrderWritten

\* Every part of the follower's check keeps the order.
LEMMA CheckOrder ==
  ASSUME Inv, OrderInv, LedgerGrows, NEW o, Outcome("F", mem["F"], o), o.bid \in Bids,
         "b_lock" \in sent' => "b_lock" \in sent,
         \/ CheckReturned("F", o) \/ CheckMercySend("F", o)
         \/ CheckEnded("F", o)    \/ CheckFailed("F", o)
         \/ CheckLockTxA("F", o)  \/ CheckLockTxB("F", o)
         \/ CheckReleased("F", o) \/ CheckRedeemed("F", o)
         \/ CheckRedeemB("F", o)  \/ CheckIdle("F", o)
  PROVE  OrderInv'
  <1> DEFINE c == o.bid
  <1>0. c.state = mem["F"].state /\ RowsInv
    BY DEF Outcome, Inv
  <1>1. ASSUME NEW more, CommitCheck("F", o, c, FALSE, more),
               "SEND_LOCK_TX_B" \notin more
        PROVE  OrderInv'
    BY <1>0, <1>1, CheckOrderCommit
  <1>2. CASE CheckReturned("F", o)
    <2> DEFINE b == [c EXCEPT !.state = "FAILED_REFUNDED"]
    <2>1. b \in Bids /\ b.state = "FAILED_REFUNDED"
      BY DEF Bids, BidStates
    <2>2. Deactivate("F", b) \/ CommitCheck("F", o, c, FALSE, {})
      BY <1>2 DEF CheckReturned
    <2> HIDE DEF b
    <2> QED BY <1>0, <1>1, <2>1, <2>2, CheckOrderDeactivate
  <1>3. CASE CheckMercySend("F", o)
    <2> DEFINE b(T) == [c EXCEPT !.state = "FAILED_SWIPED", !.txns = @ \union T]
    <2>1. PICK T : \/ SaveBid("F", b(T), {"SEND_MERCY_TX"}, {})
                   \/ CommitCheck("F", o, c, FALSE, {"SEND_MERCY_TX"})
      BY <1>3 DEF CheckMercySend
    <2>2. b(T).state = "FAILED_SWIPED"
      BY DEF Bids
    <2> HIDE DEF b
    <2> QED BY <1>0, <1>1, <2>1, <2>2, OrderFollower
  <1>4. CASE CheckEnded("F", o)
    BY <1>0, <1>4, CheckOrderDeactivate DEF CheckEnded, EndStates
  <1>5. CASE CheckFailed("F", o)
    BY <1>1, <1>5 DEF CheckFailed
  <1>6. CASE CheckLockTxA("F", o)
    <2> DEFINE locked == conf["a_lock"] >= ConfA
               b == [c EXCEPT !.a = "InChain",
                              !.state = IF locked THEN "SCRIPT_COIN_LOCKED" ELSE @]
               send == IF locked THEN {"SEND_LOCK_TX_B"} ELSE {}
    <2>1. b.state = IF locked THEN "SCRIPT_COIN_LOCKED" ELSE c.state
      <3> HIDE DEF locked
      <3> QED BY DEF Bids
    <2>2. IF conf["a_lock"] > 0 THEN CommitCheck("F", o, b, TRUE, send)
          ELSE CommitCheck("F", o, c, FALSE, {})
      BY <1>6 DEF CheckLockTxA
    <2> HIDE DEF b, send
    <2>3. CASE conf["a_lock"] > 0 /\ CommitCheck("F", o, b, TRUE, send)
      BY <1>0, <2>3, CheckOrderCommit DEF Mined
    <2> QED BY <1>1, <2>2, <2>3
  <1>7. CASE CheckLockTxB("F", o)
    <2> DEFINE bad == [c EXCEPT !.state = "BID_ERROR"]
    <2>1. /\ FoundB(c) \in Bids /\ FoundB(c).state = c.state
          /\ bad \in Bids /\ bad.state = "BID_ERROR"
      BY DEF Bids, BidStates, FoundB
    <2>2. PICK b \in {c, FoundB(c), bad} : \E save : AfterFindTxB("F", o, b, save)
      <3> HIDE DEF bad
      <3> QED BY <1>7 DEF CheckLockTxB, bad
    <2> HIDE DEF bad
    <2>3. b \in Bids /\ b.state \in {c.state, "BID_ERROR"}
      BY <2>1, <2>2
    <2> DEFINE resend == c.state = "SCRIPT_COIN_LOCKED" /\ b.b = "None"
               confirmed == /\ b.b \in {"InChain", "Spent"}
                            /\ conf["b_lock"] - 1 >= ConfB
               forward == confirmed /\ CanGoForward(b)
               b2 == [b EXCEPT
                        !.b = IF confirmed /\ @ # "Spent" THEN "Confirmed" ELSE @,
                        !.state = IF forward THEN "NOSCRIPT_COIN_LOCKED" ELSE @]
               more == IF resend THEN {"SEND_LOCK_TX_B"} ELSE {}
    <2>4. \E s : CommitCheck("F", o, b2, s, more)
      <3>1. \E s : CommitCheck("F", o, b2, s, more \union {})
        BY <2>2 DEF AfterFindTxB
      <3> QED BY <3>1
    <2>5. b2.state \in {b.state, "NOSCRIPT_COIN_LOCKED"}
      <3> HIDE DEF confirmed, forward
      <3> QED BY <2>3 DEF Bids
    <2>6. "SEND_LOCK_TX_B" \in more => Mined("a_lock")
      BY <1>0 DEF OrderInv
    <2> HIDE DEF b2, more
    <2> QED BY <1>0, <2>3, <2>4, <2>5, <2>6, CheckOrderCommit
  <1>8. CASE CheckReleased("F", o)
    BY <1>1, <1>8 DEF CheckReleased
  <1>9. CASE CheckRedeemed("F", o)
    BY <1>1, <1>9 DEF CheckRedeemed
  <1>10. CASE CheckRedeemB("F", o)
    <2> DEFINE end == IF c.state = "FAILED_SWIPED_USING_MERCY"
                      THEN "FAILED_SWIPED_USED_MERCY" ELSE "SWAP_COMPLETED"
               b == [c EXCEPT !.state = end]
    <2>1. b \in Bids /\ b.state # "SCRIPT_COIN_LOCKED"
      BY DEF Bids, BidStates
    <2>2. Deactivate("F", b) \/ CommitCheck("F", o, c, FALSE, {})
      BY <1>10 DEF CheckRedeemB
    <2> HIDE DEF b
    <2> QED BY <1>0, <1>1, <2>1, <2>2, CheckOrderDeactivate
  <1>11. CASE CheckIdle("F", o)
    BY <1>1, <1>11 DEF CheckIdle
  <1> QED BY <1>2, <1>3, <1>4, <1>5, <1>6, <1>7, <1>8, <1>9, <1>10, <1>11

\* A copy of a bid that nothing was done for yet is left by the check.
LEMMA CheckFresh ==
  ASSUME Inv, TrackInv, NEW n \in Nodes, NEW o \in RefundPhase(n, mem[n]),
         mem[n] # NoBid, ~db[n].in_progress
  PROVE  /\ o = Unchanged(mem[n])
         /\ mem[n].state \in {"BID_ACCEPTED", "MSG_SCRIPT_LOCK_TX_SIGS"}
  <1>1. NodeInv(n, db[n], mem[n], actions[n], watch[n], conf, sent)
    BY DEF TrackInv
  <1>2. /\ mem[n].state \in {"BID_ACCEPTED", "MSG_SCRIPT_LOCK_TX_SIGS"}
        /\ mem[n].a = "None" /\ mem[n].txns = {}
    BY <1>1 DEF NodeInv, Closed, Fresh, Mirrors, UnlockedStates
  <1> QED BY <1>2 DEF RefundPhase, RefundPublishPhase

\* checkXmrBidState keeps what is on record true.
LEMMA CheckXmrBidStateTracked ==
  ASSUME Inv, OrderInv, LedgerGrows, NEW n \in Nodes, CheckXmrBidState(n)
  PROVE  Tracked
  <1> DEFINE m == mem[n]
  <1>1. PICK o \in RefundPhase(n, m) :
          /\ \/ o.ret /\ Broadcast(o.txs) /\ CheckReturned(n, o)
             \/ ~o.ret /\ CheckMercySend(n, o)
             \/ /\ ~o.ret /\ Broadcast(o.txs)
                /\ \/ CheckEnded(n, o)    \/ CheckFailed(n, o)
                   \/ CheckLockTxA(n, o)  \/ CheckLockTxB(n, o)
                   \/ CheckReleased(n, o) \/ CheckRedeemed(n, o)
                   \/ CheckRedeemB(n, o)  \/ CheckIdle(n, o)
          /\ waited' = [waited EXCEPT ![n] =
               IF "swipe" \in o.bid.txns \ m.txns THEN 0 ELSE @]
    BY DEF CheckXmrBidState
  <1>2. m # NoBid /\ UNCHANGED msgs
    BY DEF CheckXmrBidState
  <1>3. /\ m \in Bids /\ db[n] \in Bids /\ LedgerTypeOK
        /\ Knows(n, m, conf, sent) /\ RowsInv
    BY DEF Inv, RowsInv, LedgerInv
  <1>4. Outcome(n, m, o) /\ o.bid \in Bids
    BY <1>3, RefundPhaseOutcome, RefundPhaseFacts DEF OutcomeOK
  <1>5. PICK T \in SUBSET {"sweep"} : Broadcast(o.txs \union T)
    <2>1. CASE CheckMercySend(n, o)
      <3>1. SweepTxs(o.bid) \in SUBSET {"sweep"}
        BY <1>4, HelperTypes
      <3> QED BY <2>1, <3>1 DEF CheckMercySend
    <2>2. CASE Broadcast(o.txs)
      <3>1. o.txs = o.txs \union {}
        OBVIOUS
      <3> QED BY <2>2, <3>1
    <2> QED BY <1>1, <2>1, <2>2
  <1>6. sent' = sent \union o.txs \union T
        /\ o.txs \union T \subseteq {"refund", "refund_spend", "swipe", "sweep"}
    <2>1. /\ o.txs \union T \subseteq {"refund", "refund_spend", "swipe", "sweep"}
          /\ o.txs \union T \in SUBSET Tx
      BY <1>4, TxFacts DEF Outcome
    <2>2. sent' = sent \union (o.txs \union T)
      BY <1>3, <1>5, <2>1, BroadcastConf
    <2> QED BY <2>1, <2>2
  <1>7. OrderInv'
    <2>1. "b_lock" \in sent' => "b_lock" \in sent
      BY <1>6
    <2>2. CASE n = "L"
      <3>1. \/ \E b, done, more : SaveBid("L", b, done, more)
            \/ \E b : Deactivate("L", b)
            \/ \E b, save, more : CommitCheck("L", o, b, save, more)
        BY <1>1, <2>2 DEF CheckReturned, CheckMercySend, CheckEnded, CheckFailed,
           CheckLockTxA, CheckLockTxB, AfterFindTxB, CheckReleased, CheckRedeemed,
           CheckRedeemB, CheckIdle
      <3> QED BY <1>3, <2>1, <3>1, OrderLeader
    <2>3. CASE n = "F"
      BY <1>1, <1>4, <2>1, <2>3, CheckOrder
    <2> QED BY <2>2, <2>3, NodeFacts
  <1>8. ASSUME TrackInv PROVE TrackInv' /\ RowsAdvance
    <2>1. SamePhase
      <3>1. o.saved => ~Quiet(m) \/ "refund" \in sent
        BY <1>4, TxFacts DEF Outcome, Quiet, Inv, LedgerInv, LedgerTypeOK, ExclusionInv
      <3>2. o.saved => "LOCK_SPEND_TX_LF" \in msgs
        BY <1>8, <3>1, Late, RefundOut
      <3>3. "refund" \in o.txs => o.saved
        BY <1>4 DEF Outcome
      <3> QED BY <1>2, <1>6, <3>2, <3>3 DEF SamePhase
    <2>2. CASE ~db[n].in_progress
      <3>1. /\ o = Unchanged(m)
            /\ m.state \in {"BID_ACCEPTED", "MSG_SCRIPT_LOCK_TX_SIGS"}
        BY <1>2, <1>8, <2>2, CheckFresh
      <3>2. /\ o.bid = m /\ o.acts = {} /\ ~o.saved /\ ~o.ret
        BY <3>1 DEF Unchanged
      <3>3. CommitCheck(n, o, m, FALSE, {}) /\ UNCHANGED watch
        BY <1>1, <3>1, <3>2 DEF CheckMercySend, CheckEnded, CheckFailed, EndStates,
           CheckLockTxA, CheckLockTxB, CheckReleased, CheckRedeemed, CheckRedeemB,
           CheckIdle
      <3>4. UNCHANGED <<db, mem, actions>>
        BY <3>2, <3>3 DEF CommitCheck, Row, Inv, RowsInv, EngineInv
      <3>5. waited' = waited
        BY <1>1, <3>2 DEF Inv, OthersInv
      <3> QED BY <1>8, <2>1, <3>3, <3>4, <3>5, DropTracked
    <2>3. CASE db[n].in_progress
      <3>1. (waited["L"] >= 0 => Mined("swipe"))'
        <4>1. waited'["L"] = waited["L"]
          BY <1>1, <1>4, NodeFacts DEF Outcome, Inv, OthersInv
        <4> QED BY <1>8, <4>1, TxFacts DEF TrackInv, LedgerGrows, Mined
      <3>2. CheckOf(n, o)
        BY <1>2, <1>4, <1>8, <2>1, <2>3, <3>1 DEF CheckOf
      <3> QED BY <1>1, <3>2, CheckReturnedKept, CheckMercySendKept, CheckEndedKept,
              CheckWaitsKept, CheckLockTxAKept, CheckLockTxBKept, CheckReleasedKept,
              CheckRedeemedKept, CheckRedeemBKept
    <2> QED BY <2>2, <2>3
  <1> QED BY <1>7, <1>8 DEF Tracked

-----------------------------------------------------------------------------
\* Every step.

\* What a step does to the networks: nothing, a broadcast, or a block.
NetworkStep ==
  \/ UNCHANGED <<conf, sent>>
  \/ \E T : Broadcast(T)
  \/ \E c : NewBlock(c)

\* Every handler publishes in one broadcast.
LEMMA StepShape == [Next]_vars => NetworkStep
  <1> SUFFICES ASSUME [Next]_vars PROVE NetworkStep
    OBVIOUS
  <1>1. ASSUME LeaderActions PROVE NetworkStep
    <2>1. CASE SendCoinALockTx
      BY <2>1 DEF SendCoinALockTx, NetworkStep
    <2>2. CASE SendCoinALockSpendTxMsg \/ SendLockRelease \/ ProcessMercyTx
      BY <2>2 DEF SendCoinALockSpendTxMsg, SendLockRelease, ProcessMercyTx, NetworkStep
    <2>3. CASE RedeemCoinBLockTx
      BY <2>3 DEF RedeemCoinBLockTx, NetworkStep
    <2> QED BY <1>1, <2>1, <2>2, <2>3 DEF LeaderActions
  <1>2. ASSUME FollowerActions PROVE NetworkStep
    <2>1. CASE SendTxnSigsFtoL
      BY <2>1 DEF SendTxnSigsFtoL, NetworkStep
    <2>2. CASE SendCoinBLockTx
      BY <2>2 DEF SendCoinBLockTx, NetworkStep
    <2>3. CASE RedeemCoinALockTx
      BY <2>3 DEF RedeemCoinALockTx, NetworkStep
    <2>4. CASE RecoverCoinBLockTx
      BY <2>4 DEF RecoverCoinBLockTx, NetworkStep
    <2>5. CASE SendMercyTx
      BY <2>5 DEF SendMercyTx, NetworkStep
    <2> QED BY <1>2, <2>1, <2>2, <2>3, <2>4, <2>5 DEF FollowerActions
  <1>3. ASSUME NEW n \in Nodes, CheckXmrBidState(n) PROVE NetworkStep
    <2>1. \E T : Broadcast(T)
      BY <1>3 DEF CheckXmrBidState, CheckMercySend
    <2> QED BY <2>1 DEF NetworkStep
  <1>4. ASSUME NEW n \in Nodes, Update(n) \/ Crash(n) \/ Restart(n) PROVE NetworkStep
    BY <1>1, <1>2, <1>3, <1>4 DEF Update, ProcessALockSpend, ProcessALockRefundSpend,
       TimeoutBid, Crash, Restart, NetworkStep
  <1>5. CASE ReceiveMessage \/ UNCHANGED vars
    BY <1>5 DEF ReceiveMessage, ProcessCoinALockSigs, ProcessLockSpendTx,
       ProcessLockRelease, vars, NetworkStep
  <1>6. CASE NewBlockA \/ NewBlockB
    BY <1>6 DEF NewBlockA, NewBlockB, NetworkStep
  <1> QED BY <1>4, <1>5, <1>6 DEF Next

\* The networks only grow.
LEMMA StepGrows == Inv /\ [Next]_vars => LedgerGrows
  <1> SUFFICES ASSUME Inv, [Next]_vars PROVE LedgerGrows
    OBVIOUS
  <1>1. LedgerInv /\ LedgerTypeOK
    BY DEF Inv, LedgerInv
  <1>2. CASE UNCHANGED <<conf, sent>>
    BY <1>1, <1>2, LedgerStays
  <1>3. CASE \E T : Broadcast(T)
    BY <1>1, <1>3 DEF Broadcast, LedgerTypeOK, LedgerGrows
  <1>4. CASE \E c : NewBlock(c)
    BY <1>1, <1>4, BlockGrows
  <1> QED BY <1>2, <1>3, <1>4, StepShape DEF NetworkStep

\* Nothing is locked, sent or queued but the signature for an accepted bid.
LEMMA InitTracked == Init => OrderInv /\ TrackInv
  <1> SUFFICES ASSUME Init PROVE OrderInv /\ TrackInv
    OBVIOUS
  <1> DEFINE b == [NoBid EXCEPT !.state = "BID_ACCEPTED"]
  <1>1. /\ b.state = "BID_ACCEPTED" /\ b.a = "None" /\ b.b = "None"
        /\ b.txns = {} /\ ~b.in_progress /\ NoBid.state = "NONE" /\ NoBid.a = "None"
    BY DEF NoBid
  <1>2. \A n \in Nodes :
          /\ db[n] = b /\ mem[n] = NoBid /\ watch[n] = {} /\ waited[n] = -1
          /\ actions[n] = IF n = "F" THEN {"SIGN_LOCK_TX_A"} ELSE {}
    BY DEF Init
  <1> HIDE DEF b
  <1>3. OrderInv
    BY <1>1, <1>2, NodeFacts DEF Init, OrderInv
  <1>4. \A n \in Nodes :
          NodeInv(n, db[n], mem[n], actions[n], watch[n], conf, sent)
    <2> SUFFICES ASSUME NEW n \in Nodes
                 PROVE  NodeInv(n, db[n], mem[n], actions[n], watch[n], conf, sent)
      OBVIOUS
    <2>1. Told(n, "BID_ACCEPTED", conf, sent) /\ Told(n, "NONE", conf, sent)
      BY DEF Told, LeaderTold, LeaderStates, FollowerTold, FollowerStates, UnlockedStates
    <2>2. Fresh(n, db[n], mem[n], actions[n], watch[n])
      BY <1>1, <1>2, NodeFacts DEF Fresh, UnlockedStates
    <2>3. n = "L" => LeaderRow(db[n], mem[n], actions[n])
      BY <1>1, <1>2 DEF LeaderRow, CanTimeout, UnlockedStates
    <2>4. ASSUME n = "F" PROVE FollowerRow(db[n], mem[n], actions[n])
      <3>1. /\ actions[n] = {"SIGN_LOCK_TX_A"} /\ mem[n].state = "NONE"
            /\ mem[n] = NoBid /\ db[n].state = "BID_ACCEPTED"
            /\ db[n].a = "None" /\ db[n].b = "None" /\ db[n].txns = {}
        BY <1>1, <1>2, <2>4
      <3> QED BY <3>1 DEF FollowerRow, CanTimeout, UnlockedStates
    <2> QED BY <1>1, <1>2, <2>1, <2>2, <2>3, <2>4 DEF NodeInv, Mirrors
  <1>5. PhaseInv(msgs, sent)
    BY <1>1, <1>2, NodeFacts DEF Init, PhaseInv, Quiet, UnlockedStates
  <1>6. ~(waited["L"] >= 0)
    BY <1>2, NodeFacts
  <1> QED BY <1>3, <1>4, <1>5, <1>6 DEF TrackInv

\* Every step keeps what is on record true.
LEMMA NextTracked == Inv /\ OrderInv /\ [Next]_vars => Tracked
  <1> SUFFICES ASSUME Inv, OrderInv, [Next]_vars PROVE Tracked
    OBVIOUS
  <1>0. LedgerGrows
    BY StepGrows
  <1>1. CASE ReceiveMessage
    BY <1>0, <1>1, ProcessCoinALockSigsTracked, ProcessLockSpendTxTracked,
       ProcessLockReleaseTracked DEF ReceiveMessage
  <1>2. CASE LeaderActions
    BY <1>0, <1>2, SendCoinALockTxTracked, SendCoinALockSpendTxMsgTracked,
       SendLockReleaseTracked, RedeemCoinBLockTxTracked, ProcessMercyTxTracked
       DEF LeaderActions
  <1>3. CASE FollowerActions
    BY <1>0, <1>3, SendTxnSigsFtoLTracked, SendCoinBLockTxTracked,
       RedeemCoinALockTxTracked, RecoverCoinBLockTxTracked, SendMercyTxTracked
       DEF FollowerActions
  <1>4. ASSUME NEW n \in Nodes, Update(n) PROVE Tracked
    BY <1>0, <1>2, <1>3, <1>4, CheckXmrBidStateTracked, ProcessALockSpendTracked,
       ProcessALockRefundSpendTracked, TimeoutBidTracked DEF Update
  <1> QED BY <1>0, <1>1, <1>4, CrashTracked, RestartTracked, BlockTracked DEF Next

-----------------------------------------------------------------------------
\* The theorems.

\* Coin B is locked only after coin A, whatever crashes, fails, is lost or
\* comes late (sendXmrBidCoinBLockTx is queued by checkXmrBidState only).
THEOREM LockOrder == Spec => []OrderInv
  <1>1. Inv /\ OrderInv /\ [Next]_vars => OrderInv'
    BY NextTracked DEF Tracked
  <1> QED BY <1>1, InitTracked, Invariant, PTL DEF Spec

\* The records of the two engines are what TrackInv says.
THEOREM Tracking ==
  ASSUME CommitsWithEffect
  PROVE  Spec => []TrackInv
  <1>1. Inv /\ OrderInv /\ TrackInv /\ [Next]_vars => TrackInv'
    BY CommitsWithEffect, NextTracked DEF Tracked
  <1> QED BY <1>1, InitTracked, Invariant, LockOrder, PTL DEF Spec

\* The rows of the bid only advance: what is recorded stays, the way of refunds
\* is not left again and an end is final, as long as the five handlers that
\* change the outside world commit what they did.
THEOREM RowsOnlyAdvanceHolds ==
  ASSUME CommitsWithEffect
  PROVE  Spec => RowsOnlyAdvance
  <1>1. Inv /\ OrderInv /\ TrackInv /\ [Next]_vars => RowsAdvance
    BY CommitsWithEffect, NextTracked DEF Tracked
  <1>2. RowsAdvance =>
          \A n \in Nodes :
            /\ db[n].state \in EndStates \union {"SWAP_TIMEDOUT"}
            /\ ~db[n].in_progress
            => db'[n] = db[n]
    BY DEF RowsAdvance, Advances
  <1>3. RowsAdvance =>
          \A n \in Nodes :
            /\ "refund" \in db[n].txns
            /\ db[n].state \notin ForwardStates
            => db'[n].state \notin ForwardStates
    BY DEF RowsAdvance, Advances
  <1>4. RowsAdvance =>
          \A n \in Nodes :
            /\ db[n].txns \subseteq db'[n].txns
            /\ db[n].a = "InChain" => db'[n].a = "InChain"
            /\ db[n].b = "Spent" => db'[n].b = "Spent"
    BY DEF RowsAdvance, Advances
  <1>5. Spec => EndStatesFinal
    BY <1>1, <1>2, Invariant, LockOrder, Tracking, CommitsWithEffect, PTL
       DEF Spec, EndStatesFinal
  <1>6. Spec => NoWayBack
    BY <1>1, <1>3, Invariant, LockOrder, Tracking, CommitsWithEffect, PTL
       DEF Spec, NoWayBack
  <1>7. Spec => RecordsKept
    BY <1>1, <1>4, Invariant, LockOrder, Tracking, CommitsWithEffect, PTL
       DEF Spec, RecordsKept
  <1> QED BY <1>5, <1>6, <1>7 DEF RowsOnlyAdvance

\* What the records say of the coins.
LEMMA TrackImplies ==
  ASSUME Inv, TrackInv, SteadySetting
  PROVE  EndStatesTrue /\ TracksChain
  <1> USE NodeFacts, TxFacts
  <1>1. \A n \in Nodes :
          NodeInv(n, db[n], mem[n], actions[n], watch[n], conf, sent)
    BY DEF TrackInv
  <1>2. \A n \in Nodes : Told(n, db[n].state, conf, sent)
    BY <1>1 DEF NodeInv
  <1>3. \A t \in Tx : Mined(t) => t \in sent
    BY DEF Mined, Inv, LedgerInv, LedgerTypeOK, ExclusionInv
  <1>4. EndStatesTrue
    BY <1>2 DEF EndStatesTrue, Told, LeaderTold, FollowerTold, Mined,
       TrackInv, PhaseInv
  <1>5. LeaderTracksLock
    <2> SUFFICES ASSUME Mined("a_lock"), "spend" \notin sent, ~Mined("refund_spend"),
                        ~Mined("swipe"), ~db["L"].in_progress
                 PROVE  FALSE
      BY DEF LeaderTracksLock
    <2>1. db["L"].state \notin UnlockedStates \union {"SWAP_TIMEDOUT"}
      BY <1>3 DEF TrackInv, PhaseInv
    <2>2. db["L"].state \in EndStates \union {"FAILED"}
      BY <1>1, <2>1 DEF NodeInv, Closed, Fresh
    <2>3. "mercy" \notin sent
      BY DEF Inv, LedgerInv, MercyNeverRaced
    <2>4. ~Mined("mercy") /\ "b_redeem" \notin sent
      BY <1>3, <2>3 DEF Inv, LedgerInv, KeysInv
    <2> QED BY <1>2, <2>2, <2>4 DEF Told, LeaderTold, LeaderStates, UnlockedStates,
            EndStates, Mined
  <1>6. FollowerTracksB
    <2> SUFFICES ASSUME Mined("b_lock"), Mined("refund_spend"),
                        "b_recover" \notin sent, ~db["F"].in_progress
                 PROVE  FALSE
      BY DEF FollowerTracksB
    <2>1. db["F"].b # "None"
      BY <1>3 DEF TrackInv, PhaseInv
    <2>2. db["F"].state \in EndStates
      BY <1>1, <2>1 DEF NodeInv, Closed, Fresh
    <2>3. ~Mined("b_recover") /\ ~Mined("swipe") /\ ~Mined("spend")
      <3>1. Mined("refund")
        BY DEF Inv, LedgerInv, LedgerTypeOK, ExclusionInv, Mined
      <3> QED BY <1>3, <3>1 DEF Inv, LedgerInv, LedgerTypeOK, ExclusionInv,
              SpendNeverRaced, Mined
    <2> QED BY <1>2, <2>2, <2>3 DEF Told, FollowerTold, FollowerStates,
            UnlockedStates, EndStates, Mined
  <1> QED BY <1>4, <1>5, <1>6 DEF TracksChain, OneLockB, TrackInv, PhaseInv

\* An end state on record is true of the coins: a completed swap was paid for
\* with the key shares, a refund is in a block, a leader whose bid timed out has
\* not locked coin A.
THEOREM EndsTrue ==
  ASSUME CommitsWithEffect, SteadySetting
  PROVE  Spec => []EndStatesTrue
  <1>1. Inv /\ TrackInv => EndStatesTrue
    BY SteadySetting, TrackImplies
  <1> QED BY <1>1, Invariant, Tracking, CommitsWithEffect, PTL

\* An engine follows the coin it locked until the coin is somebody's, and
\* coin B is locked once.
THEOREM Followed ==
  ASSUME CommitsWithEffect, SteadySetting
  PROVE  Spec => []TracksChain
  <1>1. Inv /\ TrackInv => TracksChain
    BY SteadySetting, TrackImplies
  <1> QED BY <1>1, Invariant, Tracking, CommitsWithEffect, PTL

-----------------------------------------------------------------------------
(***************************************************************************)
(* An adaptor-signature swap implements AtomicSwap, for every value of the *)
(* constants and without a hypothesis on what fails: every step of the     *)
(* engines and of the networks moves the two coins as AtomicSwap allows,   *)
(* or not at all.                                                          *)
(*                                                                         *)
(* The coins are where the mined transactions put them.  A block mines     *)
(* only what spends a mined output (MinedStep), what excludes what is in   *)
(* LedgerInv, and that coin B is locked second is OrderInv.                *)
(***************************************************************************)

\* A transaction that a step mines was broadcast before, and what it spends was
\* in a block before.
LEMMA MinedStep ==
  ASSUME Inv, [Next]_vars, NEW t \in Tx, conf[t] <= 0, conf'[t] > 0
  PROVE  t \in sent /\ (Parent[t] \in Tx => Mined(Parent[t]))
  <1>0. LedgerTypeOK /\ conf[t] \in Int
    BY DEF Inv, LedgerInv, LedgerTypeOK
  <1>1. PICK c : NewBlock(c)
    <2>1. ~(\E T : Broadcast(T))
      BY <1>0, TimesAssumption DEF Broadcast
    <2>2. ~UNCHANGED <<conf, sent>>
      BY <1>0
    <2> QED BY <2>1, <2>2, StepShape DEF NetworkStep
  <1>2. PICK S \in SUBSET {u \in Tx : Chain[u] = c /\ Mineable(u)} :
          conf' = [u \in Tx |-> IF Chain[u] = c THEN NextConf(u, S) ELSE conf[u]]
    BY <1>1 DEF NewBlock
  <1>3. t \in S
    <2>1. conf'[t] = NextConf(t, S)
      BY <1>0, <1>2
    <2>2. Mineable(t) => conf[t] < 0
      BY DEF Mineable
    <2> QED BY <1>0, <2>1, <2>2 DEF NextConf
  <1>4. conf[t] < 0 /\ (Parent[t] \in Tx => conf[Parent[t]] > 0)
    BY <1>2, <1>3 DEF Mineable
  <1> QED BY <1>4 DEF Inv, LedgerInv, ExclusionInv, Mined

\* Which mined transactions rule out which others.
LEMMA Exclusive ==
  ASSUME LedgerInv
  PROVE  /\ Mined("refund_spend") => ~Mined("spend") /\ ~Mined("swipe")
         /\ Mined("swipe") => ~Mined("spend")
         /\ Mined("b_recover") => ~Mined("b_redeem")
         /\ Mined("refund_spend") \/ Mined("swipe") => Mined("a_lock")
  <1> USE TxFacts, TimesAssumption
  <1>1. \A t \in Tx : conf[t] \in Int /\ (Mined(t) => t \in sent)
    BY DEF LedgerInv, LedgerTypeOK, ExclusionInv, Mined
  <1>2. Mined("refund_spend") \/ Mined("swipe") => Mined("refund")
    BY <1>1 DEF LedgerInv, ExclusionInv, Mined
  <1>3. Mined("refund") => Mined("a_lock") /\ "spend" \notin sent
    BY <1>1 DEF LedgerInv, ExclusionInv, SpendNeverRaced, Mined
  <1>4. "mercy" \in sent => Mined("swipe")
    BY DEF LedgerInv, MercyNeverRaced
  <1>5. Mined("swipe") => ~Mined("refund_spend")
    BY <1>1 DEF LedgerInv, ExclusionInv, Mined
  <1> QED BY <1>1, <1>2, <1>3, <1>4, <1>5 DEF LedgerInv, KeysInv

\* Coin A moves as AtomicSwap lets it.
LEMMA CoinAMoves ==
  ASSUME Inv, Inv', [Next]_vars
  PROVE  CoinA' \in Swap!After(CoinA, {"taken", "returned", "swiped"})
  <1> USE TxFacts
  <1>1. \A t \in Tx : Mined(t) => Mined(t)'
    BY StepGrows DEF LedgerGrows, Mined
  <1>2. \A t \in Tx : conf[t] \in Int /\ conf'[t] \in Int
    BY DEF Inv, LedgerInv, LedgerTypeOK
  <1>3. \A t \in {"spend", "refund_spend", "swipe"} :
          Mined(t)' /\ ~Mined(t) => Mined("a_lock")
    <2>1. Mined("refund") => Mined("a_lock")
      BY TimesAssumption, <1>2 DEF Inv, LedgerInv, ExclusionInv, Mined
    <2> QED BY <1>2, <2>1, MinedStep DEF Mined
  <1>4. CASE CoinA = "none"
    BY <1>3, <1>4 DEF CoinA, Swap!After
  <1>5. CASE CoinA = "locked"
    BY <1>1, <1>5 DEF CoinA, Swap!After
  <1>6. CASE CoinA \in {"taken", "returned", "swiped"}
    <2>1. LedgerInv'
      BY DEF Inv
    <2>2. /\ Mined("refund_spend")' => ~Mined("spend")' /\ ~Mined("swipe")'
          /\ Mined("swipe")' => ~Mined("spend")'
      BY <2>1, Exclusive, PTL
    <2>3. CoinA' = CoinA
      BY <1>1, <1>6, <2>2 DEF CoinA
    <2> QED BY <1>6, <2>3 DEF Swap!After
  <1> QED BY <1>4, <1>5, <1>6 DEF CoinA

\* Coin B moves as AtomicSwap lets it.
LEMMA CoinBMoves ==
  ASSUME Inv, Inv', [Next]_vars
  PROVE  CoinB' \in Swap!After(CoinB, {"taken", "returned"})
  <1> USE TxFacts
  <1>1. \A t \in Tx : Mined(t) => Mined(t)'
    BY StepGrows DEF LedgerGrows, Mined
  <1>2. \A t \in Tx : conf[t] \in Int /\ conf'[t] \in Int
    BY DEF Inv, LedgerInv, LedgerTypeOK
  <1>3. \A t \in {"b_redeem", "b_recover"} :
          Mined(t)' /\ ~Mined(t) => Mined("b_lock")
    <2>1. Parent["b_redeem"] = "b_lock" /\ Parent["b_recover"] = "b_lock"
      BY DEF Parent
    <2> QED BY <1>2, <2>1, MinedStep DEF Mined
  <1>4. CASE CoinB = "none"
    BY <1>3, <1>4 DEF CoinB, Swap!After
  <1>5. CASE CoinB = "locked"
    BY <1>1, <1>5 DEF CoinB, Swap!After
  <1>6. CASE CoinB \in {"taken", "returned"}
    <2>1. LedgerInv'
      BY DEF Inv
    <2>2. Mined("b_recover")' => ~Mined("b_redeem")'
      BY <2>1, Exclusive, PTL
    <2>3. CoinB' = CoinB
      BY <1>1, <1>6, <2>2 DEF CoinB
    <2> QED BY <1>6, <2>3 DEF Swap!After
  <1> QED BY <1>4, <1>5, <1>6 DEF CoinB

\* Coin B is locked second.
LEMMA LockedSecond ==
  ASSUME Inv, OrderInv, [Next]_vars, CoinB = "none", CoinB' = "locked"
  PROVE  CoinA # "none"
  <1>1. ~Mined("b_lock") /\ Mined("b_lock")'
    BY DEF CoinB
  <1>2. "b_lock" \in sent
    BY <1>1, TxFacts, MinedStep DEF Inv, LedgerInv, LedgerTypeOK, Mined
  <1>3. Mined("a_lock")
    BY <1>2 DEF OrderInv
  <1> QED BY <1>3 DEF CoinA

\* No party gets both coins, or loses both.
LEMMA FairCoins ==
  ASSUME LedgerInv
  PROVE  Swap!Fair
  <1>1. \A t \in Tx : Mined(t) => t \in sent
    BY DEF LedgerInv, LedgerTypeOK, ExclusionInv, Mined
  <1>2. NoDoubleWin
    BY LedgerSafety
  <1> QED BY <1>1, <1>2, TxFacts DEF Swap!Fair, CoinA, CoinB, NoDoubleWin

\* The two coins of the swap move as AtomicSwap says, whatever the timelocks,
\* whatever crashes, fails, is lost or comes late: coin B is never locked before
\* coin A, an outcome never changes and nobody gets both coins.
THEOREM Implements == Spec => ImplementsAtomicSwap
  <1>1. Init => Swap!Init
    BY TxFacts DEF Init, Swap!Init, CoinA, CoinB, Mined
  <1>2. Inv /\ OrderInv /\ Inv' /\ [Next]_vars => [Swap!Move]_Swap!vars
    <2> SUFFICES ASSUME Inv, OrderInv, Inv', [Next]_vars PROVE Swap!Move
      OBVIOUS
    <2>1. Swap!Fair'
      <3>1. LedgerInv'
        BY DEF Inv
      <3> QED BY <3>1, FairCoins, PTL
    <2> QED BY <2>1, CoinAMoves, CoinBMoves, LockedSecond DEF Swap!Move
  <1> QED BY <1>1, <1>2, Invariant, LockOrder, PTL
          DEF Spec, ImplementsAtomicSwap, Swap!Spec
=============================================================================
