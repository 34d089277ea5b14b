------------------------------ MODULE UtxoLocks ------------------------------
(***************************************************************************)
(* Funding of transactions by the built-in electrum wallet.                *)
(* _fundTxElectrum selects unlocked outputs, and reserves them in the      *)
(* table wallet_locked_utxos under _utxo_reserve_lock.  A bid is accepted  *)
(* by the main loop, inside a database session that holds mxDB throughout; *)
(* a withdrawal runs on a thread of the HTTP server and takes mxDB for     *)
(* each access to the table.  Locks expire; the main loop prolongs those   *)
(* of the swaps in progress and unlocks those of the bids that ended.      *)
(***************************************************************************)
EXTENDS Integers, FiniteSets

CONSTANTS
    Utxos,          \* the wallet's outputs
    Bids,           \* the bids of which the node funds the lock transaction
    Withdrawals,    \* the withdrawals, one thread each
    Need,           \* how many outputs a transaction spends
    BidLock,        \* how long the lock of a bid holds (86400 s)
    OpLock,         \* how long the lock of another operation holds (3600 s)
    AcceptTimeout,  \* how long an accepted bid waits for its lock transaction
    MaxTime,        \* bound of the clock
    NoOp            \* no thread, no owner

\* What is assumed of the constants.
ConstantsOK ==
    /\ {Need, BidLock, OpLock, AcceptTimeout} \subseteq Nat \ {0}
    /\ MaxTime \in Nat
    /\ Bids \cap Withdrawals = {} /\ NoOp \notin Bids \cup Withdrawals

Ops == Bids \cup Withdrawals

VARIABLES
    time,     \* the clock
    lock,     \* the table wallet_locked_utxos: NoLock, or the bid (if any) and expiry
    pc,       \* how far the funding, and then the use of the transaction, is
    inputs,   \* inputs[o]: the outputs the transaction of o spends
    since,    \* since[o]: when the inputs of o were locked
    db,       \* the thread that holds mxDB across steps
    reserve,  \* the thread that holds _utxo_reserve_lock
    spent     \* the outputs that the network has seen spent

vars == <<time, lock, pc, inputs, since, db, reserve, spent>>

NoLock == [by |-> NoOp, until |-> 0 - 1]

Locks == [by : Bids \cup {NoOp}, until : -1..(MaxTime + BidLock + OpLock)]

Phases == {"idle", "selected", "reserving", "checked", "funded", "accepted",
           "sent", "ended", "failed"}

TypeOK ==
    /\ time \in 0..MaxTime
    /\ lock \in [Utxos -> Locks]
    /\ pc \in [Ops -> Phases]
    /\ inputs \in [Ops -> SUBSET Utxos]
    /\ since \in [Ops -> 0..MaxTime]
    /\ db \in Ops \cup {NoOp}
    /\ reserve \in Ops \cup {NoOp}
    /\ spent \subseteq Utxos

Init ==
    /\ time = 0
    /\ lock = [u \in Utxos |-> NoLock]
    /\ pc = [o \in Ops |-> "idle"]
    /\ inputs = [o \in Ops |-> {}]
    /\ since = [o \in Ops |-> 0]
    /\ db = NoOp
    /\ reserve = NoOp
    /\ spent = {}

\* isUTXOLocked: a row whose expiry has passed is deleted, and does not count.
IsUTXOLocked(u) == lock[u] # NoLock /\ lock[u].until >= time

\* A thread may use the table: it holds mxDB or can take it for the access.
HasDB(o) == db \in {NoOp, o}

\* The outputs of a failed or ended operation are its own no more.
Goto(o, phase) == pc' = [pc EXCEPT ![o] = phase]

\* acceptXmrBid, run from checkQueuedActions in a session, or withdrawCoin:
\* the outputs that are neither spent nor locked are collected and some selected.
Select(o) ==
    /\ pc[o] = "idle"
    /\ db = NoOp
    /\ \E s \in SUBSET {u \in Utxos \ spent : ~IsUTXOLocked(u)} :
        /\ Cardinality(s) = Need
        /\ inputs' = [inputs EXCEPT ![o] = s]
    /\ Goto(o, "selected")
    /\ db' = IF o \in Bids THEN o ELSE NoOp
    /\ UNCHANGED <<time, lock, since, reserve, spent>>

\* Too few outputs: 'No spendable UTXOs', 'Insufficient funds'.
SelectFails(o) ==
    /\ pc[o] = "idle"
    /\ db = NoOp
    /\ Cardinality({u \in Utxos \ spent : ~IsUTXOLocked(u)}) < Need
    /\ Goto(o, "failed")
    /\ UNCHANGED <<time, lock, inputs, since, db, reserve, spent>>

\* with self._utxo_reserve_lock
TakeReserve(o) ==
    /\ pc[o] = "selected"
    /\ reserve = NoOp
    /\ reserve' = o
    /\ Goto(o, "reserving")
    /\ UNCHANGED <<time, lock, inputs, since, db, spent>>

\* Mutant: the outputs are not looked at again before they are locked.
CheckInputsSkipped(o) ==
    /\ pc[o] = "reserving"
    /\ HasDB(o)
    /\ Goto(o, "checked")
    /\ UNCHANGED <<time, lock, inputs, since, db, reserve, spent>>

\* Every selected output is looked at again; a concurrent operation may have
\* reserved one since.
CheckInputs(o) ==
    /\ pc[o] = "reserving"
    /\ HasDB(o)
    /\ \/ /\ \A u \in inputs[o] : ~IsUTXOLocked(u)
          /\ Goto(o, "checked")
          /\ UNCHANGED <<db, reserve>>
       \/ /\ \E u \in inputs[o] : IsUTXOLocked(u)
          /\ Goto(o, "failed")
          /\ reserve' = NoOp
          /\ db' = IF db = o THEN NoOp ELSE db
    /\ UNCHANGED <<time, lock, inputs, since, spent>>

\* The end of a lock, as lockUTXO sets it.
Until(o) == time + IF o \in Bids THEN BidLock ELSE OpLock

\* lockUTXO of every input; a withdrawal's locks name no bid.
LockInputs(o) ==
    /\ pc[o] = "checked"
    /\ HasDB(o)
    /\ lock' = [u \in Utxos |-> IF u \in inputs[o]
                                THEN [by |-> IF o \in Bids THEN o ELSE NoOp, until |-> Until(o)]
                                ELSE lock[u]]
    /\ reserve' = NoOp
    /\ Goto(o, "funded")
    /\ since' = [since EXCEPT ![o] = time]
    /\ UNCHANGED <<time, inputs, db, spent>>

\* The accept goes on in its session: its message is sent and the bid saved.
Accepted(o) ==
    /\ o \in Bids
    /\ pc[o] = "funded"
    /\ Goto(o, "accepted")
    /\ db' = NoOp
    /\ UNCHANGED <<time, lock, inputs, since, reserve, spent>>

\* Mutant: the inputs stay locked.
UnlockInputsNot(o) == lock

\* unlockInputs: the rows of the transaction's inputs are deleted, whoever has them.
UnlockInputs(o) == [u \in Utxos |-> IF u \in inputs[o] THEN NoLock ELSE lock[u]]

\* A later step of the accept fails: nothing else would unlock the inputs.
AcceptFails(o) ==
    /\ o \in Bids
    /\ pc[o] = "funded"
    /\ lock' = UnlockInputs(o)
    /\ Goto(o, "failed")
    /\ db' = NoOp
    /\ UNCHANGED <<time, inputs, since, reserve, spent>>

\* The lock transaction of an accepted bid, or the withdrawal, is published.
\* A transaction with a spent input is refused.
Publish(o) ==
    /\ pc[o] = IF o \in Bids THEN "accepted" ELSE "funded"
    /\ db = NoOp
    /\ IF inputs[o] \cap spent = {}
       THEN Goto(o, "sent") /\ spent' = spent \cup inputs[o]
       ELSE Goto(o, "failed") /\ UNCHANGED spent
    /\ UNCHANGED <<time, lock, inputs, since, db, reserve>>

\* Mutant: every lock is removed.
UnlockedAll(o) == [u \in Utxos |-> NoLock]

\* unlockUTXOsForBid and unlockInputs.
Unlocked(o) == [u \in Utxos |-> IF u \in inputs[o] \/ lock[u].by = o THEN NoLock ELSE lock[u]]

\* deactivateBid of a bid that completed, failed, was abandoned or, not yet
\* in progress, timed out (checkAcceptedBids, timeoutBid).
Deactivate(o) ==
    /\ o \in Bids
    /\ pc[o] \in {"sent", "accepted"}
    /\ db = NoOp
    /\ lock' = Unlocked(o)
    /\ Goto(o, "ended")
    /\ UNCHANGED <<time, inputs, since, db, reserve, spent>>

\* extendLocksForBid, for every bid in progress: an hour more from now.
Extended ==
    [u \in Utxos |-> IF lock[u].by # NoOp /\ lock[u].by \in Bids
                         /\ pc[lock[u].by] = "sent" /\ lock[u].until < time + OpLock
                     THEN [lock[u] EXCEPT !.until = time + OpLock]
                     ELSE lock[u]]

\* The main loop prolongs the locks of the swaps in progress.
ExtendLocks ==
    /\ db = NoOp
    /\ Extended # lock
    /\ lock' = Extended
    /\ UNCHANGED <<time, pc, inputs, since, db, reserve, spent>>

\* cleanupExpiredLocks
CleanupExpiredLocks ==
    /\ db = NoOp
    /\ \E u \in Utxos : lock[u] # NoLock /\ ~IsUTXOLocked(u)
    /\ lock' = [u \in Utxos |-> IF IsUTXOLocked(u) THEN lock[u] ELSE NoLock]
    /\ UNCHANGED <<time, pc, inputs, since, db, reserve, spent>>

\* The clock.  The main loop's checks run between two ticks: an accepted bid
\* has timed out by then, counted from the lock: the session that accepts it is short,
\* and a withdrawal signs and publishes at once.
Tick ==
    /\ time < MaxTime
    /\ \A o \in Bids : pc[o] \in {"funded", "accepted"} => time < since[o] + AcceptTimeout
    /\ \A o \in Withdrawals : pc[o] = "funded" => time < since[o] + OpLock
    /\ time' = time + 1
    /\ UNCHANGED <<lock, pc, inputs, since, db, reserve, spent>>

Fund(o) ==
    Select(o) \/ SelectFails(o) \/ TakeReserve(o) \/ CheckInputs(o) \/ LockInputs(o)

Next ==
    \/ \E o \in Ops : Fund(o) \/ Publish(o)
    \/ \E o \in Bids : Accepted(o) \/ AcceptFails(o) \/ Deactivate(o)
    \/ ExtendLocks
    \/ CleanupExpiredLocks
    \/ Tick

\* Every thread gets on unless it waits for a lock.
Spec == Init /\ [][Next]_vars

-----------------------------------------------------------------------------
\* An operation that has its outputs and has not used them yet.
Holding(o) == pc[o] \in {"funded", "accepted"}

\* Outputs reserved for one operation are not given to another one as long as
\* the first may still publish: 'Lock a UTXO to prevent double-spending in
\* concurrent swaps'.  A withdrawal that waits longer than its lock is its own.
NoSharedInputs ==
    \A o \in Bids : \A p \in Ops \ {o} :
        Holding(o) /\ Holding(p) => inputs[o] \cap inputs[p] = {}

\* The inputs of an accepted bid stay locked, for that bid, until it is published
\* or ends: another bid's end or an expiry must not free them.
AcceptedStaysLocked ==
    \A o \in Bids : pc[o] = "accepted" =>
        \A u \in inputs[o] : lock[u].by = o /\ IsUTXOLocked(u)

\* A bid that failed or ended leaves no output locked.
NoLockLeft ==
    \A u \in Utxos : lock[u].by # NoOp => pc[lock[u].by] \in {"checked", "funded", "accepted", "sent"}
=============================================================================
