------------------------------ MODULE LockTxs ------------------------------
(***************************************************************************)
(* The chain-A transactions of one adaptor-signature swap, from the bid    *)
(* accept to the chain, for each kind of coin interface.                   *)
(*                                                                         *)
(* The leader builds the lock transaction, its refund and the spend of the *)
(* refund from the terms of the offer, checks them with its own verifiers  *)
(* and sends them; the follower checks them with the terms it knows.  The  *)
(* leader then builds the spend of the lock, signs and publishes the lock. *)
(* On chain the spend and the refund compete for the lock output, and the  *)
(* refund spend and the swipe for the output of the refund.                *)
(*                                                                         *)
(* Signatures, the release of the spend and when each side publishes are   *)
(* AdaptorSwap's subject: here every transaction whose signatures both     *)
(* sides have exchanged may be published at any time.                      *)
(***************************************************************************)
EXTENDS TxForms, FiniteSets

CONSTANTS
    Kinds,      \* the coin interfaces: "BTC", "NAV", "DCR", "BCH", "BLIND"
    Values,     \* swap amounts
    Rates,      \* fee rates of the offer (the fee itself for BCH)
    Lock1,      \* lock_time_1: age of the lock at which the refund is final
    Lock2,      \* lock_time_2: age of the refund at which the swipe is final
    MaxAge,     \* bound on the ages
    Slacks      \* how far the daemon may overestimate a blinded size

\* What is assumed of the constants.
ConstantsOK ==
    /\ MaxMoneyAssumption
    /\ Lock1 \in Nat \ {0} /\ Lock2 \in Nat \ {0} /\ Lock1 # Lock2

VARIABLES
    terms,      \* [kind, value, rate]: the offer and bid both sides hold
    tweaked,    \* the leader runs with CREATE_INVALID_COIN_A_LOCK
    phase,      \* progress of the messages
    txs,        \* txs[who][name]: the records of the two XmrSwap rows
    mempool,    \* published, not mined
    mined       \* set of [tx, age]

vars == <<terms, tweaked, phase, txs, mempool, mined>>

Sides == {"leader", "follower"}

BTCScriptDest(script) == [t |-> "p2wsh", hash |-> script]

BTCPkhDest(pkh) == [t |-> "p2wpkh", hash |-> pkh]

BTCScriptSig(script) == [t |-> "empty"]

BTC == INSTANCE LockTxsBTC WITH
          Version <- 2, getScriptDest <- BTCScriptDest, PkhDest <- BTCPkhDest,
          ScriptSig <- BTCScriptSig, SigLen <- 0, Wsf <- 4, DustLimit <- 5460

\* Navcoin: script outputs are P2SH-P2WSH, key outputs P2SH-P2WPKH, and an input
\* carries a scriptSig that pushes the witness program.
NAVScriptDest(script) == [t |-> "p2sh", hash |-> script]

NAVPkhDest(pkh) == [t |-> "p2sh", hash |-> pkh]

NAVScriptSig(script) == [t |-> "wsh", hash |-> script]

\* NAVInterface has copies of its own of the four creators, and inherits the
\* verifiers.
NAV == INSTANCE LockTxsBTC WITH
          Version <- 3, getScriptDest <- NAVScriptDest, PkhDest <- NAVPkhDest,
          ScriptSig <- NAVScriptSig, SigLen <- 35, Wsf <- 4, DustLimit <- 5460

DCR == INSTANCE LockTxsDCR
BCH == INSTANCE LockTxsBCH
BLIND == INSTANCE LockTxsBlind

----------------------------------------------------------------------------
\* The scripts both sides derive from the terms.  For BCH the refund covenant
\* pays the leader at once or the follower after Lock2, the lock covenant the
\* follower at once or the refund covenant after Lock1.
RefundScript(t) ==
    IF t.kind = "BCH"
    THEN BCH!genScriptLockTxScript(t.rate, BCH!getScriptForPubkeyHash("refund_to"),
             BCH!getScriptForPubkeyHash("dest_af"), "Kaf", Lock2)
    ELSE BTC!genScriptLockRefundTxScript("Kal", "Kaf", Lock2)

LockScript(t) ==
    IF t.kind = "BCH"
    THEN BCH!genScriptLockTxScript(t.rate, BCH!getScriptForPubkeyHash("dest_af"),
             BCH!getScriptDest(RefundScript(t)), "Kal", Lock1)
    ELSE [t |-> "lock", A |-> "Kal", B |-> "Kaf"]

ScriptDest(t, script) ==
    CASE t.kind = "BTC" -> BTCScriptDest(script)
      [] t.kind = "NAV" -> NAVScriptDest(script)
      [] t.kind = "DCR" -> DCR!getScriptDest(script)
      [] t.kind = "BCH" -> BCH!getScriptDest(script)
      [] t.kind = "BLIND" -> BLIND!getP2WSHScriptDest(script)

TxVersion(t) ==
    CASE t.kind = "NAV" -> 3 [] t.kind = "BLIND" -> 160 [] OTHER -> 2

\* createSCLockTx and fundSCLockTx: the wallet adds inputs and puts its change
\* before or after the swap output.
FundedLockTx(t, value, pos) ==
    LET swap   == [TxOut(value, ScriptDest(t, LockScript(t))) EXCEPT !.nonce = "lock"]
        change == TxOut(5000, [t |-> "p2pkh", hash |-> "change"])
        outs   == IF pos = 1 THEN <<swap, change>> ELSE <<change, swap>>
    IN  NewTx("lock", TxVersion(t), TxIn(NoTx, 0, 0, [t |-> "empty"]), outs)

RefundTx(t, lock, pos, slack) ==
    CASE t.kind = "BTC" ->
           BTC!createSCLockRefundTx(lock, LockScript(t), "Kal", "Kaf", Lock1, Lock2, t.rate)
      [] t.kind = "NAV" ->
           NAV!createSCLockRefundTx(lock, LockScript(t), "Kal", "Kaf", Lock1, Lock2, t.rate)
      [] t.kind = "DCR" ->
           DCR!createSCLockRefundTx(lock, LockScript(t), "Kal", "Kaf", Lock1, Lock2, t.rate)
      [] t.kind = "BCH" ->
           BCH!createSCLockRefundTx(lock, LockScript(t), RefundScript(t), Lock1, t.rate)
      [] t.kind = "BLIND" ->
           BLIND!createSCLockRefundTx(lock, LockScript(t), "Kal", "Kaf", Lock1, Lock2,
                                      t.rate, pos, slack)

RefundSpendTx(t, refund, pos, slack) ==
    CASE t.kind = "BTC" ->
           BTC!createSCLockRefundSpendTx(refund, RefundScript(t), "refund_to", t.rate)
      [] t.kind = "NAV" ->
           NAV!createSCLockRefundSpendTx(refund, RefundScript(t), "refund_to", t.rate)
      [] t.kind = "DCR" ->
           DCR!createSCLockRefundSpendTx(refund, RefundScript(t), "refund_to", t.rate)
      [] t.kind = "BCH" ->
           BCH!createSCLockRefundSpendTx(refund, RefundScript(t), "refund_to", t.rate)
      [] t.kind = "BLIND" ->
           BLIND!createSCLockRefundSpendTx(refund, RefundScript(t), "refund_to", t.rate,
                                           pos, slack)

SpendTx(t, lock, refund, pos, slack) ==
    CASE t.kind = "BTC" ->
           BTC!createSCLockSpendTx(lock, LockScript(t), "dest_af", t.rate, refund)
      [] t.kind = "NAV" ->
           NAV!createSCLockSpendTx(lock, LockScript(t), "dest_af", t.rate, refund)
      [] t.kind = "DCR" ->
           DCR!createSCLockSpendTx(lock, LockScript(t), "dest_af", t.rate, refund)
      [] t.kind = "BCH" ->
           BCH!createSCLockSpendTx("spend", lock, LockScript(t), "dest_af", t.rate, "none")
      [] t.kind = "BLIND" ->
           BLIND!createSCLockSpendTx(lock, LockScript(t), "dest_af", t.rate, pos, slack)

SwipeTx(t, refund, pos, slack) ==
    CASE t.kind = "BTC" ->
           BTC!createSCLockRefundSpendToFTx(refund, RefundScript(t), "swipe_to", t.rate)
      [] t.kind = "NAV" ->
           NAV!createSCLockRefundSpendToFTx(refund, RefundScript(t), "swipe_to", t.rate)
      [] t.kind = "DCR" ->
           DCR!createSCLockRefundSpendToFTx(refund, RefundScript(t), "swipe_to", t.rate)
      [] t.kind = "BCH" ->
           BCH!createSCLockRefundSpendToFTx(refund, RefundScript(t), "swipe_to", t.rate)
      [] t.kind = "BLIND" ->
           BLIND!createSCLockRefundSpendToFTx(refund, RefundScript(t), "swipe_to", t.rate,
                                              pos, slack)

\* Built from the swipe with the key share in it.  NAV inherits the creator
\* but its swipe does not pay a P2WPKH, so it is left out here.
MercyTx(t, swipe) ==
    CASE t.kind = "BTC" -> BTC!createMercyTx(swipe, TRUE, t.rate, BTCPkhDest("wallet"))
      [] t.kind = "NAV" -> NoTx
      [] t.kind = "DCR" -> DCR!createMercyTx(swipe, TRUE, t.rate, DCR!getPubkeyHashDest("wallet"))
      [] t.kind = "BCH" -> BCH!createMercyTx(swipe, t.rate, BCH!getScriptForPubkeyHash("wallet"))
      [] t.kind = "BLIND" ->
           BLIND!createMercyTx(swipe, "swipe_to", t.rate, BLIND!pubkey_to_address("wallet"))

\* getMercyWatchVouts of the base interface is output 0.
MercyWatchVouts(t, swipe) ==
    IF t.kind = "BLIND" THEN BLIND!getMercyWatchVouts(swipe) ELSE {0}

\* The three checks of the lock family, by a side that expects value.
FamilyVerified(t, value, lock, refund, refundSpend) ==
    LET L == LockScript(t)
        R == RefundScript(t)
    IN  CASE t.kind = "BTC" ->
               /\ BTC!verifySCLockTx(lock, L, value, "Kal", "Kaf", 0)
               /\ BTC!verifySCLockRefundTx(refund, R, lock, L, Lock1, "Kal", "Kaf", Lock2,
                                           value, t.rate)
               /\ BTC!verifySCLockRefundSpendTx(refundSpend, refund, R, t.rate)
          [] t.kind = "NAV" ->
               /\ NAV!verifySCLockTx(lock, L, value, "Kal", "Kaf", 0)
               /\ NAV!verifySCLockRefundTx(refund, R, lock, L, Lock1, "Kal", "Kaf", Lock2,
                                             value, t.rate)
               /\ NAV!verifySCLockRefundSpendTx(refundSpend, refund, R, t.rate)
          [] t.kind = "DCR" ->
               /\ DCR!verifySCLockTx(lock, L, value, "Kal", "Kaf")
               /\ DCR!verifySCLockRefundTx(refund, R, lock, L, Lock1, "Kal", "Kaf", Lock2,
                                           value, t.rate)
               /\ DCR!verifySCLockRefundSpendTx(refundSpend, refund, R, t.rate)
          [] t.kind = "BCH" ->
               /\ BCH!verifySCLockTx(lock, L, value, t.rate, L, 0)
               /\ BCH!verifySCLockRefundTx(refund, R, lock, L, Lock1, Lock2, value, t.rate, R)
               /\ BCH!verifySCLockRefundSpendTx(refundSpend, refund, R, t.rate, R)
          [] t.kind = "BLIND" ->
               /\ BLIND!verifySCLockTx(lock, L, value, "Kal", "Kaf", 0)
               /\ BLIND!verifySCLockRefundTx(refund, R, lock, L, Lock1, "Kal", "Kaf", Lock2,
                                             value, t.rate)
               /\ BLIND!verifySCLockRefundSpendTx(refundSpend, refund, R, t.rate)

SpendVerified(t, spend, lock, refund) ==
    LET L == LockScript(t)
    IN  CASE t.kind = "BTC" -> BTC!verifySCLockSpendTx(spend, lock, L, "dest_af", t.rate, refund)
          [] t.kind = "NAV" -> NAV!verifySCLockSpendTx(spend, lock, L, "dest_af", t.rate, refund)
          [] t.kind = "DCR" -> DCR!verifySCLockSpendTx(spend, lock, L, "dest_af", t.rate, refund)
          [] t.kind = "BCH" -> BCH!verifySCLockSpendTx(spend, lock, L, "dest_af", t.rate)
          [] t.kind = "BLIND" -> BLIND!verifySCLockSpendTx(spend, lock, L, "dest_af", t.rate)

----------------------------------------------------------------------------
\* Consensus, relay and mempool of the coin (external).

Repoint(tx, prev) == IF tx = NoTx THEN NoTx ELSE [tx EXCEPT !.vin[1].prev = prev]

Prevout(tx) == OutputAt(tx.vin[1].prev, tx.vin[1].n)

Fee(tx) ==
    IF tx.ct_fee # 0 THEN tx.ct_fee
    ELSE Prevout(tx).value - FoldLeft(LAMBDA v, o : v + o.value, 0, tx.vout)

Age(tx) == (CHOOSE m \in mined : m.tx = tx).age

InChain(tx) == \E m \in mined : m.tx = tx

SpentInChain(prev, n) ==
    \E m \in mined : m.tx.vin[1].prev = prev /\ m.tx.vin[1].n = n

\* The branch taken in a refund script is named by the witness; a covenant
\* looks at the transaction itself.
ScriptSatisfied(tx) ==
    LET script == Prevout(tx).script.hash
        seq    == tx.vin[1].seq
    IN  CASE tx.name \in {"refund", "spend"} /\ terms.kind # "BCH" -> TRUE
          [] tx.name = "refundSpend" /\ terms.kind # "BCH" -> seq >= 1
          [] tx.name = "swipe" /\ terms.kind # "BCH" -> seq >= script.csv
          [] tx.name \in {"refund", "spend", "refundSpend", "swipe"} /\ terms.kind = "BCH" ->
               /\ Len(tx.vin) = 1 /\ Len(tx.vout) = 1
               /\ Fee(tx) = script.mining_fee
               /\ IF seq = 0
                  THEN tx.vout[1].script = script.out_1 /\ tx.vin[1].sig.ves = "signed"
                  ELSE tx.vout[1].script = script.out_2 /\ seq >= script.timelock
          [] OTHER -> TRUE

Final(tx) ==
    /\ tx # NoTx
    /\ InChain(tx.vin[1].prev)
    /\ ~SpentInChain(tx.vin[1].prev, tx.vin[1].n)
    /\ Age(tx.vin[1].prev) >= tx.vin[1].seq
    /\ Fee(tx) > 0
    /\ ScriptSatisfied(tx)

Conflicts(tx) ==
    {c \in mempool : c.vin[1].prev = tx.vin[1].prev /\ c.vin[1].n = tx.vin[1].n}

\* Coins whose nodes replace a transaction by one that pays a higher fee.
Rbf == {"BTC", "NAV", "BLIND"}

\* A node takes the transaction if it is final and nothing it holds spends the
\* same output, or if it pays more than what it replaces.
Relayed(tx) ==
    /\ Final(tx)
    /\ tx \notin mempool
    /\ \A c \in Conflicts(tx) : terms.kind \in Rbf /\ Fee(tx) > Fee(c)
    /\ mempool' = (mempool \ Conflicts(tx)) \union {tx}

Mine(tx) ==
    /\ tx \in mempool
    /\ tx.name # "lock" => Final(tx)
    /\ mempool' = mempool \ {tx}
    /\ mined' = mined \union {[tx |-> tx, age |-> 0]}
    /\ UNCHANGED <<terms, tweaked, phase, txs>>

Block ==
    /\ mined # {}
    /\ \E m \in mined : m.age < MaxAge
    /\ mined' = {[m EXCEPT !.age = IF @ < MaxAge THEN @ + 1 ELSE @] : m \in mined}
    /\ UNCHANGED <<terms, tweaked, phase, txs, mempool>>

----------------------------------------------------------------------------
Empty == [name \in {"lock", "refund", "refundSpend", "spend"} |-> NoTx]

Init ==
    /\ terms \in [kind : Kinds, value : Values, rate : Rates]
    /\ tweaked \in BOOLEAN
    /\ phase = "bid"
    /\ txs = [who \in Sides |-> Empty]
    /\ mempool = {}
    /\ mined = {}

\* The leader sends the transactions in XMR_BID_ACCEPT_LF and saves them.
SendBidAccept(lock, refund, rspend) ==
    [txs EXCEPT !["leader"] = [Empty EXCEPT !["lock"] = lock, !["refund"] = refund,
                                            !["refundSpend"] = rspend]]

\* acceptXmrBid: build, double check, send.  With the debug tweak the leader
\* lowers the amount of its bid before it builds.
AcceptXmrBid(lockPos, pos, slack) ==
    /\ phase = "bid"
    /\ LET value  == IF tweaked THEN terms.value - terms.value \div 10 ELSE terms.value
           lock   == FundedLockTx(terms, value, lockPos)
           refund == RefundTx(terms, lock, pos, slack)
           rspend == IF refund = NoTx THEN NoTx ELSE RefundSpendTx(terms, refund, pos, slack)
           ok     == /\ refund # NoTx /\ rspend # NoTx
                     /\ FamilyVerified(terms, value, lock, refund, rspend)
       IN  /\ phase' = IF ok THEN "sent" ELSE "refused"
           /\ txs' = IF ok THEN SendBidAccept(lock, refund, rspend) ELSE txs
    /\ UNCHANGED <<terms, tweaked, mempool, mined>>

\* processXmrBidAccept: nothing is kept of a family that does not verify.
ProcessXmrBidAccept ==
    /\ phase = "sent"
    /\ LET m == txs["leader"]
       IN  IF FamilyVerified(terms, terms.value, m["lock"], m["refund"], m["refundSpend"])
           THEN /\ phase' = "accepted"
                /\ txs' = [txs EXCEPT !["follower"] = m]
           ELSE /\ phase' = "rejected"
                /\ UNCHANGED txs
    /\ UNCHANGED <<terms, tweaked, mempool, mined>>

\* processXmrBidCoinALockSigs: for BCH the decrypted signature is put in the
\* refund spend, whose input is set to the lock transaction for the time being.
ProcessXmrBidCoinALockSigs ==
    /\ phase = "accepted"
    /\ phase' = "sigs"
    /\ txs' = IF terms.kind # "BCH" THEN txs
              ELSE [txs EXCEPT !["leader"]["refundSpend"] =
                       Repoint([@ EXCEPT !.vin[1].sig =
                                   BCH!getScriptScriptSig(RefundScript(terms), "signed")],
                               txs["leader"]["lock"])]
    /\ UNCHANGED <<terms, tweaked, mempool, mined>>

\* Signing a BCH transaction changes its id.
Signed(tx) == IF terms.kind = "BCH" THEN [tx EXCEPT !.signed = TRUE] ELSE tx

\* Mutant: the refund keeps the id of the unsigned lock transaction.
SendLockKeepRefund(pos, slack) ==
    /\ phase = "sigs"
    /\ LET L      == txs["leader"]
           spend  == SpendTx(terms, L["lock"], L["refund"], pos, slack)
           signed == Signed(L["lock"])
       IN  /\ spend # NoTx
           /\ txs' = [txs EXCEPT !["leader"] = [@ EXCEPT !["lock"] = signed,
                         !["spend"] = Repoint(spend, signed)]]
           /\ mempool' = mempool \union {signed}
    /\ phase' = "locked"
    /\ UNCHANGED <<terms, tweaked, mined>>

\* sendXmrBidCoinALockTx: build the spend, sign and publish the lock; when the
\* id changed, the refund and the spend are pointed at the new one.
SendXmrBidCoinALockTx(pos, slack) ==
    /\ phase = "sigs"
    /\ LET L      == txs["leader"]
           spend  == SpendTx(terms, L["lock"], L["refund"], pos, slack)
           signed == Signed(L["lock"])
       IN  /\ spend # NoTx
           /\ txs' = [txs EXCEPT !["leader"] = [@ EXCEPT !["lock"] = signed,
                         !["refund"] = Repoint(@, signed),
                         !["spend"] = Repoint(spend, signed)]]
           /\ mempool' = mempool \union {signed}
    /\ phase' = "locked"
    /\ UNCHANGED <<terms, tweaked, mined>>

\* processXmrBidLockSpendTx.
ProcessXmrBidLockSpendTx ==
    /\ phase = "locked"
    /\ LET spend == txs["leader"]["spend"]
       IN  IF SpendVerified(terms, spend, txs["follower"]["lock"], txs["follower"]["refund"])
           THEN phase' = "spendable" /\ txs' = [txs EXCEPT !["follower"]["spend"] = spend]
           ELSE phase' = "spend_bad" /\ UNCHANGED txs
    /\ UNCHANGED <<terms, tweaked, mempool, mined>>

\* checkXmrBidState in state XMR_SWAP_MSG_SCRIPT_LOCK_SPEND_TX: the lock is
\* found under another id.
FollowerFindsLock ==
    /\ phase = "spendable"
    /\ \E lock \in mempool \union {m.tx : m \in mined} :
          /\ lock.name = "lock" /\ lock # txs["follower"]["lock"]
          /\ txs' = [txs EXCEPT !["follower"] = [@ EXCEPT !["lock"] = lock,
                        !["refund"] = Repoint(@, lock), !["spend"] = Repoint(@, lock)]]
    /\ UNCHANGED <<terms, tweaked, phase, mempool, mined>>

\* redeemXmrBidCoinALockTx: for BCH with the decrypted signature in the input.
SpendReady(tx) ==
    IF terms.kind # "BCH" \/ tx = NoTx THEN tx
    ELSE [tx EXCEPT !.vin[1].sig = BCH!getScriptScriptSig(LockScript(terms), "signed")]

FollowerSpendsLock ==
    /\ phase = "spendable"
    /\ txs["follower"]["spend"] # NoTx
    /\ Relayed(SpendReady(txs["follower"]["spend"]))
    /\ UNCHANGED <<terms, tweaked, phase, txs, mined>>

\* checkXmrBidState after lock_time_1: either side publishes the refund, and
\* for BCH points its refund spend at it.
PublishRefund(who) ==
    /\ phase \in {"locked", "spendable", "spend_bad"}
    /\ txs[who]["refund"] # NoTx
    /\ Relayed(txs[who]["refund"])
    /\ txs' = IF terms.kind # "BCH" THEN txs
              ELSE [txs EXCEPT ![who]["refundSpend"] = Repoint(@, txs[who]["refund"])]
    /\ UNCHANGED <<terms, tweaked, phase, mined>>

\* process_XMR_SWAP_A_LOCK_tx_spend: a BCH refund published by the other side.
SeeRefund(who) ==
    /\ terms.kind = "BCH"
    /\ \E m \in mined :
          /\ m.tx.name = "refund" /\ m.tx.vin[1].prev = txs[who]["lock"]
          /\ txs[who]["refundSpend"].vin[1].prev # m.tx
          /\ txs' = [txs EXCEPT ![who] = [@ EXCEPT !["refund"] = m.tx,
                        !["refundSpend"] = Repoint(@, m.tx)]]
    /\ UNCHANGED <<terms, tweaked, phase, mempool, mined>>

LeaderRefundSpends ==
    /\ txs["leader"]["refundSpend"] # NoTx
    /\ \E m \in mined : m.tx = txs["leader"]["refund"]
    /\ Relayed(txs["leader"]["refundSpend"])
    /\ UNCHANGED <<terms, tweaked, phase, txs, mined>>

\* createCoinALockRefundSwipeTx once the refund is in the chain.
FollowerSwipes(pos, slack) ==
    /\ \E m \in mined : m.tx = txs["follower"]["refund"]
    /\ Relayed(SwipeTx(terms, txs["follower"]["refund"], pos, slack))
    /\ UNCHANGED <<terms, tweaked, phase, txs, mined>>

FollowerSendsMercy ==
    /\ \E m \in mined :
          /\ m.tx.name = "swipe"
          /\ MercyTx(terms, m.tx) # NoTx
          /\ Relayed(MercyTx(terms, m.tx))
    /\ UNCHANGED <<terms, tweaked, phase, txs, mined>>

Next ==
    \/ \E lockPos, pos \in {1, 2}, slack \in Slacks : AcceptXmrBid(lockPos, pos, slack)
    \/ ProcessXmrBidAccept
    \/ ProcessXmrBidCoinALockSigs
    \/ \E pos \in {1, 2}, slack \in Slacks : SendXmrBidCoinALockTx(pos, slack)
    \/ ProcessXmrBidLockSpendTx
    \/ FollowerFindsLock
    \/ FollowerSpendsLock
    \/ \E who \in Sides : PublishRefund(who)
    \/ \E who \in Sides : SeeRefund(who)
    \/ LeaderRefundSpends
    \/ \E pos \in {1, 2}, slack \in Slacks : FollowerSwipes(pos, slack)
    \/ FollowerSendsMercy
    \/ \E tx \in mempool : Mine(tx)
    \/ Block

Spec == Init /\ [][Next]_vars

----------------------------------------------------------------------------
\* Whatever the leader builds from the agreed terms passes the verifiers of the
\* follower: rounding the fee up when building and the rate down when checking
\* never makes two nodes of the same version disagree.  A family of another
\* amount is rejected.
NoHonestRejection ==
    /\ phase = "rejected" => tweaked
    /\ phase \in {"accepted", "sigs", "locked", "spendable"} => ~tweaked
    /\ phase # "spend_bad"

\* The double check of the leader refuses its own transactions only when the
\* amount does not cover two fees, or when a BCH fee is outside the range the
\* covenant's parser allows.
RefusedForCause ==
    phase = "refused" =>
        \/ terms.value <= 2 * feeForVSize(terms.rate, 1800)
        \/ terms.kind = "BCH" /\ terms.rate \notin 700..10000

\* Once the lock is in the chain and lock_time_1 has passed, the refund the
\* leader holds is final as long as nothing spends the lock; for BCH this needs
\* the new id of the lock in it.
RefundReady ==
    \A m \in mined :
        (m.tx.name = "lock" /\ m.age >= Lock1 /\ ~\E c \in mined : c.tx.vin[1].prev = m.tx)
            => Final(txs["leader"]["refund"])

\* The leader is first at the refund output: its refund spend is final one
\* block after the refund, as soon as it knows the refund is there, and the
\* swipe never before lock_time_2.
LeaderFirst ==
    \A m \in mined :
        (m.tx.name = "refund" /\ ~\E c \in mined : c.tx.vin[1].prev = m.tx) =>
            /\ (m.age >= 1 /\ txs["leader"]["refund"] = m.tx
                  /\ (terms.kind = "BCH" => txs["leader"]["refundSpend"].vin[1].prev = m.tx))
                   => Final(txs["leader"]["refundSpend"])
            /\ (m.tx = txs["follower"]["refund"] /\ Final(SwipeTx(terms, m.tx, 1, 0)))
                   => m.age >= Lock2

\* Once the network holds the spend of the lock, the refund does not displace
\* it: it pays a higher fee (or the coin's nodes replace nothing).  The fees of
\* a blinded swap are set by the daemon and promise no such order.
SpendStands ==
    \A tx \in mempool :
        (tx.name = "spend" /\ terms.kind # "BLIND")
            => ~\E r \in mempool' : r.name = "refund"

\* A mercy transaction spends an output of the swipe the leader watches, and
\* one that holds the payout.
MercyWatched ==
    \A tx \in mempool \union {m.tx : m \in mined} :
        tx.name = "mercy" =>
            /\ tx.vin[1].n \in MercyWatchVouts(terms, tx.vin[1].prev)
            /\ Prevout(tx).value > 0
=============================================================================
