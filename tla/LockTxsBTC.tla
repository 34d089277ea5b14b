---------------------------- MODULE LockTxsBTC ----------------------------
(***************************************************************************)
(* The chain-A swap transactions as BTCInterface and the interfaces that   *)
(* inherit from it build and check them (basicswap/interface/btc/btc.py).  *)
(* What a subclass overrides is a constant: the output script types, the   *)
(* scriptSig, the transaction version and the weight of a witness byte.    *)
(***************************************************************************)
EXTENDS TxForms

CONSTANTS
    Version,            \* txVersion()
    getScriptDest(_),   \* the output script of a redeem script
    PkhDest(_),         \* getScriptForPubkeyHash
    ScriptSig(_),       \* getScriptScriptSig
    SigLen,             \* its length
    Wsf,                \* witnessScaleFactor()
    DustLimit           \* getdustlimit()

\* Mutant: the branch of the follower does not wait.
RefundScriptNoDelay(Kal, Kaf, csv_val) ==
    [t |-> "refund", A |-> Kal, B |-> Kaf, csv |-> 1, C |-> Kaf]

genScriptLockRefundTxScript(Kal, Kaf, csv_val) ==
    [t |-> "refund", A |-> Kal, B |-> Kaf, csv |-> csv_val, C |-> Kaf]

getTxVSize(tx, witness_bytes) ==
    LET len_nwit == BaseSize(tx, SigLen)
    IN  (len_nwit * (Wsf - 1) + len_nwit + witness_bytes + Wsf - 1) \div Wsf

\* The one-input transaction every creator starts from: it spends the output
\* of prev that pays script, and carries the whole value to dest.
Spending(name, prev, script, seq, dest) ==
    LET n == findOutput(prev, getScriptDest(script))
    IN  IF n = -1 THEN NoTx
        ELSE NewTx(name, Version, TxIn(prev, n, seq, ScriptSig(script)),
                   <<TxOut(OutputAt(prev, n).value, dest)>>)

PayRate(tx, rate, witness_bytes) ==
    IF tx = NoTx THEN NoTx
    ELSE PayFee(tx, feeForVSize(rate, getTxVSize(tx, witness_bytes)))

createSCLockRefundTx(lock, script, Kal, Kaf, lock1, csv_val, rate) ==
    PayRate(Spending("refund", lock, script, lock1,
                     getScriptDest(genScriptLockRefundTxScript(Kal, Kaf, csv_val))),
            rate, LockTxDummyWitness(script))

\* Returns the coin to the leader.
createSCLockRefundSpendTx(refund, script, pkh_refund_to, rate) ==
    PayRate(Spending("refundSpend", refund, script, 1, PkhDest(pkh_refund_to)),
            rate, LockRefundSpendTxDummyWitness(script))

\* The swipe: sends the coin to the follower.
createSCLockRefundSpendToFTx(refund, script, pkh_dest, rate) ==
    PayRate(Spending("swipe", refund, script, script.csv, PkhDest(pkh_dest)),
            rate, LockRefundSwipeTxDummyWitness(script))

\* Mutant: the spend pays the agreed rate for its own size.
SpendAtRate(lock, script, pkh_dest, rate, refund) ==
    PayRate(Spending("spend", lock, script, 0, PkhDest(pkh_dest)),
            rate, LockTxDummyWitness(script))

\* Both callers pass the refund transaction: the spend pays its fee and the
\* buffer, whatever its own size.
createSCLockSpendTx(lock, script, pkh_dest, rate, refund) ==
    LET tx   == Spending("spend", lock, script, 0, PkhDest(pkh_dest))
        coin == tx.vout[1].value
    IN  IF tx = NoTx \/ getLockRefundTxFee(coin, refund) = -1 THEN NoTx
        ELSE PayFee(tx, LockSpendFee(coin, refund))

\* Both callers pass check_lock_tx_inputs = False, so the inputs are not
\* fetched.  A lock time up to two blocks ahead is accepted.
verifySCLockTx(tx, script, swap_value, Kal, Kaf, height) ==
    LET n == findOutput(tx, getScriptDest(script))
    IN  /\ tx.version = Version
        /\ tx.locktime <= height + 2
        /\ n # -1
        /\ OutputAt(tx, n).value = swap_value
        /\ script.A = Kal /\ script.B = Kaf

\* The checks every one-input transaction gets.
OneInOneOut(tx, prev, n, seq, prevScript) ==
    /\ tx # NoTx
    /\ tx.version = Version /\ tx.locktime = 0
    /\ Len(tx.vin) = 1
    /\ tx.vin[1] = TxIn(prev, n, seq, ScriptSig(prevScript))
    /\ Len(tx.vout) = 1
    /\ money_range(tx.vout[1].value)

FeeAsAgreed(fee_paid, vsize, rate) ==
    /\ fee_paid > 0
    /\ compareFeeRates(RatePaid(fee_paid, vsize), rate)

verifySCLockRefundTx(tx, script, lock, lockScript, lock1, Kal, Kaf, csv_val, swap_value, rate) ==
    /\ OneInOneOut(tx, lock, findOutput(lock, getScriptDest(lockScript)), lock1, lockScript)
    /\ findOutput(tx, getScriptDest(script)) # -1
    /\ script = genScriptLockRefundTxScript(Kal, Kaf, csv_val)
    /\ FeeAsAgreed(swap_value - tx.vout[1].value,
                   getTxVSize(tx, LockTxDummyWitness(lockScript)), rate)

\* The destination does not matter to the follower.
verifySCLockRefundSpendTx(tx, refund, script, rate) ==
    /\ OneInOneOut(tx, refund, 0, 1, script)
    /\ FeeAsAgreed(refund.vout[1].value - tx.vout[1].value,
                   getTxVSize(tx, LockRefundSpendTxDummyWitness(script)), rate)

\* Both callers pass the refund transaction: the fee must be exact.
verifySCLockSpendTx(tx, lock, script, pkh_dest, rate, refund) ==
    LET n           == findOutput(lock, getScriptDest(script))
        locked_coin == OutputAt(lock, n).value
        fee_paid    == locked_coin - tx.vout[1].value
    IN  /\ n # -1
        /\ OneInOneOut(tx, lock, n, 0, script)
        /\ tx.vout[1].script = PkhDest(pkh_dest)
        /\ fee_paid > 0
        /\ getLockRefundTxFee(locked_coin, refund) # -1
        /\ fee_paid = LockSpendFee(locked_coin, refund)

\* Spends the payout of the swipe, with or without the key share.  It raises
\* when what is left would be dust.
createMercyTx(swipe, keyshare, rate, addr_to) ==
    LET prevout == swipe.vout[1]
        reveal  == IF keyshare THEN <<TxOut(0, [t |-> "op_return"])>> ELSE <<>>
        tx      == NewTx("mercy", Version, TxIn(swipe, 0, 0, [t |-> "empty"]),
                         Append(reveal, TxOut(prevout.value, addr_to)))
        change  == prevout.value - feeForVSize(rate, getTxVSize(tx, P2WPKHDummyWitness))
    IN  IF change > DustLimit
        THEN [tx EXCEPT !.vout[Len(tx.vout)].value = change]
        ELSE NoTx
=============================================================================
