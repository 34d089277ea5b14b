---------------------------- MODULE LockTxsBCH ----------------------------
(***************************************************************************)
(* Bitcoin Cash (basicswap/interface/bch/bch.py): both outputs are         *)
(* covenants that fix the fee, the two destinations and the time lock of   *)
(* the transaction that spends them, so the "fee rate" of the offer is the *)
(* fee itself.  There is no segwit: signing the lock transaction changes   *)
(* its id.                                                                 *)
(***************************************************************************)
EXTENDS TxForms

getScriptDest(script) == [t |-> "p2sh32", hash |-> script]

getScriptForPubkeyHash(pkh) == [t |-> "p2pkh", hash |-> pkh]

\* The covenant.  With sequence 0 its spend pays out_1 and shows a signature
\* by public_key; otherwise it waits for timelock and pays out_2.
genScriptLockTxScript(mining_fee, out_1, out_2, public_key, timelock) ==
    [t |-> "covenant", mining_fee |-> mining_fee, out_1 |-> out_1, out_2 |-> out_2,
     public_key |-> public_key, timelock |-> timelock]

\* The ves is the signature next to the script, "none" without one.
getScriptScriptSig(script, ves) == [t |-> "p2sh32", script |-> script, ves |-> ves]

\* The parser raises unless the opcodes are the covenant's and the fee is
\* between 700 and 10000.
extractScriptLockScriptValues(script) ==
    /\ script.t = "covenant"
    /\ script.mining_fee >= 700 /\ script.mining_fee <= 10000
    /\ script.out_1.t = "p2pkh"
    /\ script.out_2.t \in {"p2pkh", "p2sh32"}
    /\ script.timelock >= 0

Spending(name, prev, script, seq, ves, dest, fee) ==
    LET n == findOutput(prev, getScriptDest(script))
    IN  IF n = -1 THEN NoTx
        ELSE NewTx(name, 2, TxIn(prev, n, seq, getScriptScriptSig(script, ves)),
                   <<TxOut(OutputAt(prev, n).value - fee, dest)>>)

createSCLockSpendTx(name, prev, script, pkh_dest, mining_fee, ves) ==
    Spending(name, prev, script, 0, ves, getScriptForPubkeyHash(pkh_dest), mining_fee)

createSCLockRefundTx(lock, script, refund_script, lock1, mining_fee) ==
    Spending("refund", lock, script, lock1, "none", getScriptDest(refund_script), mining_fee)

\* The signature is not known yet: the input shows a zero one.
createSCLockRefundSpendTx(refund, script, pkh_refund_to, mining_fee) ==
    createSCLockSpendTx("refundSpend", refund, script, pkh_refund_to, mining_fee, "zero")

\* The swipe pays the destination and the fee the covenant names, whatever
\* destination the caller passes.
createSCLockRefundSpendToFTx(refund, script, pkh_dest, rate) ==
    IF ~extractScriptLockScriptValues(script) THEN NoTx
    ELSE Spending("swipe", refund, script, script.timelock, "none", script.out_2,
                  script.mining_fee)

\* The covenant must be the one both sides derive from the offer.
CovenantAgreed(script, expect, rate) ==
    /\ extractScriptLockScriptValues(script)
    /\ script = expect
    /\ script.mining_fee = rate

verifySCLockTx(tx, script, swap_value, rate, expect, height) ==
    LET n == findOutput(tx, getScriptDest(script))
    IN  /\ tx.version = 2
        /\ tx.locktime <= height + 2
        /\ n # -1
        /\ OutputAt(tx, n).value = swap_value
        /\ CovenantAgreed(script, expect, rate)

OneInOneOut(tx, seq, sig) ==
    /\ tx # NoTx
    /\ tx.version = 2 /\ tx.locktime = 0
    /\ Len(tx.vin) = 1
    /\ tx.vin[1].seq = seq /\ tx.vin[1].sig = sig
    /\ Len(tx.vout) = 1
    /\ money_range(tx.vout[1].value)
    /\ tx.vout[1].value > 0

verifySCLockRefundTx(tx, script, lock, lockScript, lock1, csv_val, swap_value, rate, expect) ==
    /\ OneInOneOut(tx, lock1, getScriptScriptSig(lockScript, "none"))
    /\ tx.vin[1].prev = lock
    /\ tx.vin[1].n = findOutput(lock, getScriptDest(lockScript))
    /\ findOutput(tx, getScriptDest(script)) # -1
    /\ CovenantAgreed(script, expect, rate)
    /\ script.timelock = csv_val
    /\ swap_value - tx.vout[1].value = lockScript.mining_fee

verifySCLockRefundSpendTx(tx, refund, script, rate, expect) ==
    /\ OneInOneOut(tx, 0, getScriptScriptSig(script, "zero"))
    /\ tx.vin[1].prev = refund /\ tx.vin[1].n = 0
    /\ CovenantAgreed(script, expect, rate)
    /\ refund.vout[1].value - tx.vout[1].value = script.mining_fee

\* The input is not compared: the id of the lock transaction has changed.
verifySCLockSpendTx(tx, lock, script, pkh_dest, rate) ==
    LET n == findOutput(lock, getScriptDest(script))
    IN  /\ n # -1
        /\ OneInOneOut(tx, 0, getScriptScriptSig(script, "none"))
        /\ tx.vout[1].script = getScriptForPubkeyHash(pkh_dest)
        /\ extractScriptLockScriptValues(script) /\ script.mining_fee = rate
        /\ OutputAt(lock, n).value - tx.vout[1].value = script.mining_fee

\* The size is a constant of the code; raises at the dust limit.
createMercyTx(swipe, rate, addr_to) ==
    LET outValue == swipe.vout[1].value - feeForVSize(rate, 275)
    IN  IF outValue <= 546 THEN NoTx
        ELSE NewTx("mercy", 2, TxIn(swipe, 0, 0, [t |-> "empty"]),
                   <<TxOut(0, [t |-> "op_return"]), TxOut(outValue, addr_to)>>)
=============================================================================
