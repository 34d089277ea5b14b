--------------------------- MODULE LockTxsBlind ---------------------------
(***************************************************************************)
(* Particl's blinded coin (basicswap/interface/part/part.py,               *)
(* PARTInterfaceBlind).  The daemon builds, funds and decodes the          *)
(* transactions: it puts the fee in output 0, adds a zero change output,   *)
(* and places the swap output at 1 or 2.  An amount can be read only by    *)
(* who knows the nonce of the output; the nonces of the lock and the lock  *)
(* refund output follow from the shared view key.                          *)
(***************************************************************************)
EXTENDS TxForms

getP2WSHScriptDest(script) == [t |-> "p2wsh", hash |-> script]

pubkey_to_address(pk) == [t |-> "p2pkh", hash |-> pk]

NoSig == [t |-> "empty"]

genScriptLockRefundTxScript(Kal, Kaf, csv_val) ==
    [t |-> "refund", A |-> Kal, B |-> Kaf, csv |-> csv_val, C |-> Kaf]

\* findOutputByNonce: -1 when no output can be rewound with the nonce.
findOutputByNonce(tx, nonce) ==
    LET hits == {n \in 0..(Len(tx.vout) - 1) : tx.vout[n + 1].nonce = nonce}
    IN  IF hits = {} THEN -1 ELSE CHOOSE n \in hits : \A m \in hits : n <= m

\* Two range proofs and the commitments: 1300 bytes more than a plain
\* transaction, at a witness scale factor of 2.
getTxVSize(tx, witness_bytes) ==
    (2 * (BaseSize([tx EXCEPT !.vout = <<tx.vout[1]>>], 0) + 1300) + witness_bytes + 1) \div 2

\* createrawparttransaction and fundrawtransactionfrom of the daemon
\* (external): fee in output 0, the swap output at pos, a zero change at the
\* other place.  The daemon's size estimate is at most slack bytes above the
\* size the verifier computes.
FundedFrom(name, prev, n, seq, script, nonce, rate, witness_bytes, pos, slack) ==
    LET zero   == TxOut(0, [t |-> "p2pkh", hash |-> "change"])
        swap   == [TxOut(OutputAt(prev, n).value, script) EXCEPT !.nonce = nonce]
        data   == TxOut(0, script)
        tx     == NewTx(name, 160, TxIn(prev, n, seq, NoSig),
                        IF pos = 1 THEN <<data, swap, zero>> ELSE <<data, zero, swap>>)
        fee    == feeForVSize(rate, getTxVSize(tx, witness_bytes) + slack)
    IN  IF fee >= swap.value THEN NoTx
        ELSE [tx EXCEPT !.vout[pos + 1].value = @ - fee, !.ct_fee = fee]

createSCLockRefundTx(lock, script, Kal, Kaf, lock1, csv_val, rate, pos, slack) ==
    LET n == findOutputByNonce(lock, "lock")
        s == genScriptLockRefundTxScript(Kal, Kaf, csv_val)
    IN  IF n = -1 THEN NoTx
        ELSE FundedFrom("refund", lock, n, lock1, getP2WSHScriptDest(s), "refund", rate,
                        LockTxDummyWitness(script), pos, slack)

createSCLockRefundSpendTx(refund, script, pk_refund_to, rate, pos, slack) ==
    LET n == findOutputByNonce(refund, "refund")
    IN  IF n = -1 THEN NoTx
        ELSE FundedFrom("refundSpend", refund, n, 1, pubkey_to_address(pk_refund_to),
                        pk_refund_to, rate, LockRefundSpendTxDummyWitness(script), pos, slack)

\* Only a lock transaction of lock time 0 is spent.
createSCLockSpendTx(lock, script, pk_dest, rate, pos, slack) ==
    LET n == findOutputByNonce(lock, "lock")
    IN  IF n = -1 \/ lock.version # 160 \/ lock.locktime # 0 THEN NoTx
        ELSE FundedFrom("spend", lock, n, 0, pubkey_to_address(pk_dest), pk_dest, rate,
                        LockTxDummyWitness(script), pos, slack)

createSCLockRefundSpendToFTx(refund, script, pk_dest, rate, pos, slack) ==
    LET n == findOutputByNonce(refund, "refund")
    IN  IF n = -1 THEN NoTx
        ELSE FundedFrom("swipe", refund, n, script.csv, pubkey_to_address(pk_dest), pk_dest,
                        rate, LockRefundSwipeTxDummyWitness(script), pos, slack)

\* The fee may be up to 10% larger than expected.
CompareFeeRates(actual, expected) == actual >= expected /\ 10 * actual <= 11 * expected

verifySCLockTx(tx, script, swap_value, Kal, Kaf, height) ==
    LET n == findOutputByNonce(tx, "lock")
    IN  /\ tx.version = 160
        /\ tx.locktime <= height + 2
        /\ n # -1
        /\ OutputAt(tx, n).value = swap_value
        /\ OutputAt(tx, n).script = getP2WSHScriptDest(script)
        /\ script.A = Kal /\ script.B = Kaf

\* verifyrawtransaction of the daemon (external): the commitments balance.
verifyrawtransaction(tx) ==
    OutputAt(tx.vin[1].prev, tx.vin[1].n).value
        = tx.vout[1].value + tx.vout[2].value + tx.vout[3].value + tx.ct_fee

OneInThreeOut(tx, prev, n, seq) ==
    /\ tx # NoTx
    /\ tx.version = 160 /\ tx.locktime = 0
    /\ Len(tx.vin) = 1
    /\ tx.vin[1] = TxIn(prev, n, seq, NoSig)
    /\ Len(tx.vout) = 3
    /\ verifyrawtransaction(tx)

verifySCLockRefundTx(tx, script, lock, lockScript, lock1, Kal, Kaf, csv_val, swap_value, rate) ==
    LET n == findOutputByNonce(tx, "refund")
    IN  /\ OneInThreeOut(tx, lock, findOutputByNonce(lock, "lock"), lock1)
        /\ n # -1
        /\ OutputAt(tx, n).script = getP2WSHScriptDest(script)
        /\ script = genScriptLockRefundTxScript(Kal, Kaf, csv_val)
        /\ swap_value - OutputAt(tx, n).value = tx.ct_fee
        /\ CompareFeeRates(
               RatePaid(tx.ct_fee, getTxVSize(tx, LockTxDummyWitness(lockScript))), rate)

\* The follower cannot read the output of the leader, only the fee.
verifySCLockRefundSpendTx(tx, refund, script, rate) ==
    /\ OneInThreeOut(tx, refund, findOutputByNonce(refund, "refund"), 1)
    /\ CompareFeeRates(
           RatePaid(tx.ct_fee, getTxVSize(tx, LockRefundSpendTxDummyWitness(script))), rate)

\* The output is found by the key of the destination.
verifySCLockSpendTx(tx, lock, script, pk_dest, rate) ==
    LET n == findOutputByNonce(lock, "lock")
        m == findOutputByNonce(tx, pk_dest)
    IN  /\ n # -1
        /\ OneInThreeOut(tx, lock, n, 0)
        /\ m # -1 /\ OutputAt(tx, m).script = pubkey_to_address(pk_dest)
        /\ tx.ct_fee = OutputAt(lock, n).value - OutputAt(tx, m).value
        /\ CompareFeeRates(
               RatePaid(tx.ct_fee, getTxVSize(tx, LockTxDummyWitness(script))), rate)

\* Mutant: the leader watches the first blinded output only.
WatchFirstVout(swipe) == {1}

\* The outputs of the swipe a mercy transaction could spend: the leader cannot
\* tell the payout from the zero change.
getMercyWatchVouts(swipe) == {1, 2}

\* The one the wallet of the follower owns.
getMercyPrevout(swipe, pk) == findOutputByNonce(swipe, pk)

\* Funded and signed by the wallet; the change is the payout less the fee.
createMercyTx(swipe, pk, rate, addr_to) ==
    LET n     == getMercyPrevout(swipe, pk)
        value == OutputAt(swipe, n).value - feeForVSize(rate, 1400)
    IN  IF n = -1 \/ value <= 0 THEN NoTx
        ELSE NewTx("mercy", 160, TxIn(swipe, n, 0, NoSig),
                   <<TxOut(0, [t |-> "op_return"]), TxOut(value, addr_to)>>)
=============================================================================
