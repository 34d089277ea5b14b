------------------------------ MODULE TxForms ------------------------------
(***************************************************************************)
(* The transactions of the chain-A side of an adaptor-signature swap, as   *)
(* far as the code that builds and checks them tells them apart, and the   *)
(* fee arithmetic all coin interfaces share.                               *)
(*                                                                         *)
(* A transaction id is a hash of the transaction, so the model uses the    *)
(* transaction itself: two transactions are the same exactly when all the  *)
(* fields the id covers are.  Segwit signatures are outside the id and are *)
(* left out; a Bitcoin Cash input signature is inside it ("signed").       *)
(* Output indexes start at 0, as in the code.                              *)
(***************************************************************************)
EXTENDS Integers, Sequences, SequencesExt

CONSTANT
    MaxMoney        \* max_money() of the coin

MaxMoneyAssumption == MaxMoney \in Nat

\* What a creator that raises leaves behind.
NoTx == [name |-> "none"]

\* An input spending output n of prev; sig is its scriptSig.
TxIn(prev, n, seq, sig) == [prev |-> prev, n |-> n, seq |-> seq, sig |-> sig]

\* An output; the nonce is only used by blinded outputs.
TxOut(value, script) == [value |-> value, script |-> script, nonce |-> "none"]

\* A transaction of one input.  nLockTime is never set by the creators.
NewTx(name, version, in, outs) ==
    [name |-> name, version |-> version, locktime |-> 0, signed |-> FALSE,
     vin |-> <<in>>, vout |-> outs, ct_fee |-> 0]

\* findOutput: the first output paying the script, -1 for None.
findOutput(tx, script) ==
    LET hits == {n \in 0..(Len(tx.vout) - 1) : tx.vout[n + 1].script = script}
    IN  IF hits = {} THEN -1 ELSE CHOOSE n \in hits : \A m \in hits : n <= m

OutputAt(tx, n) == tx.vout[n + 1]

\* Redeem script lengths: two keys and two opcodes more than them, and the
\* refund script with its two branches.
ScriptLen(script) == IF script.t = "lock" THEN 71 ELSE 118

\* Output script lengths by type.
DestLen(dest) ==
    CASE dest.t = "p2wpkh" -> 22 [] dest.t = "p2wsh" -> 34
      [] dest.t = "p2pkh" -> 25 [] dest.t = "p2sh" -> 23
      [] dest.t = "p2sh32" -> 35 [] dest.t = "op_return" -> 39

\* Serialised length without witness of a transaction of one input whose
\* scriptSig has sigLen bytes.
BaseSize(tx, sigLen) ==
    51 + sigLen + FoldLeft(LAMBDA len, o : len + 9 + DestLen(o.script), 0, tx.vout)

\* Witness lengths of the placeholder stacks the fee is computed with.
LockTxDummyWitness(script) == 151 + ScriptLen(script)

LockRefundSpendTxDummyWitness(script) == 153 + ScriptLen(script)

LockRefundSwipeTxDummyWitness(script) == 78 + ScriptLen(script)

P2WPKHDummyWitness == 110

\* Mutant: the fee is rounded down.
FeeForVSizeFloored(fee_rate, vsize) == (fee_rate * vsize) \div 1000

\* The fee for a size, rounded up; fee rates are per 1000 bytes.
feeForVSize(fee_rate, vsize) == (fee_rate * vsize + 999) \div 1000

\* The rate a fee pays, rounded down, as every verifier computes it.
RatePaid(fee, vsize) == (fee * 1000) \div vsize

\* A verifier accepts a rate from the expected one up to 9 above it.
compareFeeRates(actual, expected) == actual >= expected /\ actual - expected < 10

money_range(sats) == sats >= 0 /\ sats <= MaxMoney

\* ADAPTOR_SIG_LOCK_SPEND_FEE_BUFFER
FeeBuffer == 12

\* The fee of the lock refund transaction; it must have one output and pay
\* something (-1: the function raises).
getLockRefundTxFee(locked_coin, refund) ==
    LET fee == locked_coin - refund.vout[1].value
    IN  IF Len(refund.vout) = 1 /\ fee > 0 THEN fee ELSE -1

\* Mutant: the spend pays for its own size, which is smaller.
LockSpendFeeOwnSize(locked_coin, refund) ==
    getLockRefundTxFee(locked_coin, refund) - FeeBuffer

\* What the lock spend transaction pays: the builder and the verifier compute
\* it alike.
LockSpendFee(locked_coin, refund) == getLockRefundTxFee(locked_coin, refund) + FeeBuffer

\* tx.vout[-1].nValue -= fee
PayFee(tx, fee) == [tx EXCEPT !.vout[Len(tx.vout)].value = @ - fee]
=============================================================================
