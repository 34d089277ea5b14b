---------------------------- MODULE LockTxsDCR ----------------------------
(***************************************************************************)
(* Decred (basicswap/interface/dcr/dcr.py): P2SH and P2PKH outputs, the    *)
(* size is that of the transaction with the placeholder signature script   *)
(* and one byte more, and the expiry must be 0 (it is never set, and not   *)
(* modelled apart from the lock time).                                     *)
(***************************************************************************)
EXTENDS TxForms

getScriptDest(script) == [t |-> "p2sh", hash |-> script]

getPubkeyHashDest(pkh) == [t |-> "p2pkh", hash |-> pkh]

NoSig == [t |-> "empty"]

genScriptLockRefundTxScript(Kal, Kaf, csv_val) ==
    [t |-> "refund", A |-> Kal, B |-> Kaf, csv |-> csv_val, C |-> Kaf]

\* len(setTxSignature(tx, stack)): the fields Decred adds are 33 bytes.
SignedSize(tx, stack) == BaseSize(tx, 0) + 33 + stack

Spending(name, prev, script, seq, dest) ==
    LET n == findOutput(prev, getScriptDest(script))
    IN  IF n = -1 THEN NoTx
        ELSE NewTx(name, 2, TxIn(prev, n, seq, NoSig),
                   <<TxOut(OutputAt(prev, n).value, dest)>>)

PayRate(tx, rate, size) == IF tx = NoTx THEN NoTx ELSE PayFee(tx, feeForVSize(rate, size))

createSCLockSpendTx(lock, script, pkh_dest, rate, refund) ==
    LET tx   == Spending("spend", lock, script, 0, getPubkeyHashDest(pkh_dest))
        coin == tx.vout[1].value
    IN  IF tx = NoTx \/ getLockRefundTxFee(coin, refund) = -1 THEN NoTx
        ELSE PayFee(tx, LockSpendFee(coin, refund))

createSCLockRefundTx(lock, script, Kal, Kaf, lock1, csv_val, rate) ==
    LET dest == getScriptDest(genScriptLockRefundTxScript(Kal, Kaf, csv_val))
        tx   == Spending("refund", lock, script, lock1, dest)
    IN  PayRate(tx, rate, SignedSize(tx, LockTxDummyWitness(script)) + 1)

createSCLockRefundSpendTx(refund, script, pkh_refund_to, rate) ==
    LET tx == Spending("refundSpend", refund, script, 1, getPubkeyHashDest(pkh_refund_to))
    IN  PayRate(tx, rate, SignedSize(tx, LockRefundSpendTxDummyWitness(script)) + 1)

\* Without the extra byte: nobody verifies the swipe.
createSCLockRefundSpendToFTx(refund, script, pkh_dest, rate) ==
    LET tx == Spending("swipe", refund, script, script.csv, getPubkeyHashDest(pkh_dest))
    IN  PayRate(tx, rate, SignedSize(tx, LockRefundSwipeTxDummyWitness(script)))

verifySCLockTx(tx, script, swap_value, Kal, Kaf) ==
    LET n == findOutput(tx, getScriptDest(script))
    IN  /\ tx.version = 2 /\ tx.locktime = 0
        /\ n # -1
        /\ OutputAt(tx, n).value = swap_value
        /\ script.A = Kal /\ script.B = Kaf

OneInOneOut(tx, prev, n, seq) ==
    /\ tx # NoTx
    /\ tx.version = 2 /\ tx.locktime = 0
    /\ Len(tx.vin) = 1
    /\ tx.vin[1] = TxIn(prev, n, seq, NoSig)
    /\ Len(tx.vout) = 1
    /\ money_range(tx.vout[1].value)

FeeAsAgreed(fee_paid, size, rate) ==
    /\ fee_paid > 0
    /\ compareFeeRates(RatePaid(fee_paid, size), rate)

verifySCLockSpendTx(tx, lock, script, pkh_dest, rate, refund) ==
    LET n           == findOutput(lock, getScriptDest(script))
        locked_coin == OutputAt(lock, n).value
        fee_paid    == locked_coin - tx.vout[1].value
    IN  /\ n # -1
        /\ OneInOneOut(tx, lock, n, 0)
        /\ tx.vout[1].script = getPubkeyHashDest(pkh_dest)
        /\ fee_paid > 0
        /\ getLockRefundTxFee(locked_coin, refund) # -1
        /\ fee_paid = LockSpendFee(locked_coin, refund)

verifySCLockRefundTx(tx, script, lock, lockScript, lock1, Kal, Kaf, csv_val, swap_value, rate) ==
    /\ OneInOneOut(tx, lock, findOutput(lock, getScriptDest(lockScript)), lock1)
    /\ findOutput(tx, getScriptDest(script)) # -1
    /\ script = genScriptLockRefundTxScript(Kal, Kaf, csv_val)
    /\ FeeAsAgreed(swap_value - tx.vout[1].value,
                   SignedSize(tx, LockTxDummyWitness(lockScript)) + 1, rate)

verifySCLockRefundSpendTx(tx, refund, script, rate) ==
    /\ OneInOneOut(tx, refund, 0, 1)
    /\ FeeAsAgreed(refund.vout[1].value - tx.vout[1].value,
                   SignedSize(tx, LockRefundSpendTxDummyWitness(script)) + 1, rate)

\* Raises when the change is not above the dust threshold of dcrd.
createMercyTx(swipe, keyshare, rate, addr_to) ==
    LET prevout == swipe.vout[1]
        reveal  == IF keyshare THEN <<TxOut(0, [t |-> "op_return"])>> ELSE <<>>
        tx      == NewTx("mercy", 2, TxIn(swipe, 0, 0, NoSig),
                         Append(reveal, TxOut(prevout.value, addr_to)))
        change  == prevout.value - feeForVSize(rate, SignedSize(tx, 108))
    IN  IF change > 6030 THEN [tx EXCEPT !.vout[Len(tx.vout)].value = change] ELSE NoTx
=============================================================================
