---------------------------- MODULE MoneroWallet ----------------------------
(***************************************************************************)
(* The wallet of the Monero based coins.  One monero-wallet-rpc process    *)
(* serves the main wallet and the wallets of every swap, and has ONE       *)
(* wallet open at a time: each operation of XMRInterface takes _mx_wallet, *)
(* opens the wallet it needs and then sends RPCs that act on whatever is   *)
(* open.  The shared address of a swap has a view-only file (findTxB) and  *)
(* a spending file (spendBLockTx), both with the same address.             *)
(*                                                                         *)
(* The faults are those the code has a branch for: the open answered by    *)
(* "no connection to daemon", a corrupt wallet cache, an answer lost after *)
(* the transfer was made, and a restart.                                   *)
(***************************************************************************)
EXTENDS Naturals, Sequences, FiniteSets, FiniteSetsExt

CONSTANTS
    Swaps,      \* the swaps with a Monero based lock transaction
    Payers,     \* those whose lock transaction this node pays
    Main,       \* the address of the main wallet
    Out,        \* any address outside these wallets
    Peer,       \* the counterparty
    NoWallet,   \* no wallet open, no address cached
    Managed,    \* manage_wallet_daemon: the node may touch the wallet files
    LockAmount, \* the amount of coin B agreed in the bids
    MaxDrops,   \* opens answered by "no connection to daemon"
    MaxCorrupt, \* corruptions of a wallet cache
    MaxTxs,     \* transactions
    MaxRestarts \* restarts of the process and lost answers

\* What is assumed of the constants.
ConstantsOK ==
    /\ Payers \subseteq Swaps
    /\ LockAmount \in Nat \ {0}
    /\ {MaxDrops, MaxCorrupt, MaxTxs, MaxRestarts} \subseteq Nat

VARIABLES
    w,      \* the wallet process and XMRInterface's cached address
    txs,    \* the transactions, in the order they were made
    saved,  \* saved[s]: the bid has the id of its lock transaction
    found,  \* found[s]: the last answer of findTxB
    spent,  \* spent[s]: the transaction spendBLockTx answered with, 0 before
    shown,  \* the address the last operation on the main wallet answered for
    faults  \* restarts and lost answers so far

vars == <<w, txs, saved, found, spent, shown, faults>>

\* A wallet file: of is its address; the view-only ones cannot sign.
File(a, kind) == [of |-> a, kind |-> kind]

\* No wallet is open.
NoOpen == [kind |-> "none", of |-> NoWallet]

MainFile == File(Main, "full")

Files == {MainFile} \cup {File(s, k) : s \in Swaps, k \in {"view", "full"}}

-----------------------------------------------------------------------------
(* Opening a wallet.  An operator answers the set of its outcomes, each    *)
(* the wallet process after it and whether it returned without raising.    *)

Ok(v) == [w |-> v, ok |-> TRUE]

Raised(v) == [w |-> v, ok |-> FALSE]

\* _openWallet: "no connection to daemon" is swallowed and whatever was open
\* may stay open; a corrupt cache is renamed and the file opened without it,
\* which forgets where the wallet's transactions went; an open that fails for
\* another reason closes the open wallet and is tried once more.
OpenFile(v, f) ==
    { Ok([v EXCEPT !.open = o, !.drops = @ + 1]) :
        o \in IF v.drops < MaxDrops /\ f \in v.files \ v.corrupt
              THEN {v.open, f} ELSE {} }
    \cup
    { IF f \notin v.files THEN Raised([v EXCEPT !.open = NoOpen])
      ELSE IF f \in v.corrupt
           THEN IF Managed
                THEN Ok([v EXCEPT !.open = f, !.corrupt = @ \ {f}, !.known[f] = {}])
                ELSE Raised(v)
      ELSE Ok([v EXCEPT !.open = f]) }

\* The address of the open wallet, the answer of get_address.
OpenAddress(v) == v.open.of

\* Mutant: the cached address is trusted without asking which wallet is open.
IsOpenMainUnasked(v) == v.cached # NoWallet

\* openWallet's early return: the open wallet answers with the cached address.
IsOpenMain(v) == v.cached # NoWallet /\ OpenAddress(v) = v.cached

\* openWallet: after opening the default file the address of the open wallet
\* is cached, whichever wallet that is.
OpenWallet(v, f) ==
    IF f = MainFile /\ IsOpenMain(v) THEN {Ok(v)}
    ELSE { IF r.ok /\ f = MainFile /\ r.w.open # NoOpen
           THEN [r EXCEPT !.w.cached = OpenAddress(r.w)] ELSE r : r \in OpenFile(v, f) }

\* createWallet: generate_from_keys makes the file and opens it, and refuses
\* to overwrite one.
CreateWallet(v, f) ==
    IF f \in v.files THEN Raised(v)
    ELSE Ok([v EXCEPT !.files = @ \cup {f}, !.open = f])

\* The try openWallet, except createWallet and openWallet, of the operations
\* on a swap's wallets.
OpenOrCreate(v, f) ==
    UNION { IF r.ok THEN {r}
            ELSE LET c == CreateWallet(r.w, f)
                 IN IF c.ok THEN OpenWallet(c.w, f) ELSE {c} : r \in OpenWallet(v, f) }

-----------------------------------------------------------------------------
(* The chain, as the wallets show it.                                      *)

Tx(op, from, to, amount, timelock) ==
    [op |-> op, from |-> from, to |-> to, amount |-> amount,
     timelock |-> timelock, unlocked |-> FALSE, spent |-> FALSE]

\* The unspent transactions to an address ("available").
Available(a) == {i \in DOMAIN txs : txs[i].to = a /\ ~txs[i].spent}

Unlocked(a) == {i \in Available(a) : txs[i].unlocked}

\* The amount of some transactions together.
Total(ids) == FoldSet(LAMBDA i, t : t + txs[i].amount, 0, ids)

Balance(a) == Total(Available(a))

UnlockedBalance(a) == Total(Unlocked(a))

\* The outgoing transactions of an address.
Outgoing(a) == {i \in DOMAIN txs : txs[i].from = a}

\* txs with the transactions ids spent and the transactions new added.
Made(ids, new) ==
    [i \in DOMAIN txs |-> IF i \in ids THEN [txs[i] EXCEPT !.spent = TRUE] ELSE txs[i]] \o new

\* transfer: the smallest choices of unlocked inputs, the change comes back
\* to the sending wallet.
TransferOf(op, a, to, amount) ==
    { LET change == Total(ids) - amount
      IN Made(ids, <<Tx(op, a, to, amount, FALSE)>>
                   \o IF change > 0 THEN <<Tx("change", Peer, a, change, FALSE)>> ELSE <<>>) :
        ids \in { k \in SUBSET Unlocked(a) :
                    /\ Total(k) >= amount
                    /\ \A i \in k : Total(k \ {i}) < amount } }

\* sweep_all of an address.
SweepOf(op, a) == Made(Unlocked(a), <<Tx(op, a, Out, Total(Unlocked(a)), FALSE)>>)

\* The open wallet can sign.
CanSign(v) == v.open # NoOpen /\ v.open.kind = "full"

-----------------------------------------------------------------------------
(* The operations.                                                         *)

\* A wallet process with the main wallet only, as initialiseWallet leaves it.
Init ==
    /\ w = [open |-> MainFile, cached |-> Main, files |-> {MainFile}, corrupt |-> {},
            known |-> [f \in Files |-> {}], drops |-> 0]
    /\ txs = <<[Tx("funds", Peer, Main, LockAmount, FALSE) EXCEPT !.unlocked = TRUE],
               [Tx("funds", Peer, Main, LockAmount, FALSE) EXCEPT !.unlocked = TRUE]>>
    /\ saved = [s \in Swaps |-> FALSE]
    /\ found = [s \in Swaps |-> [answer |-> "none", tx |-> 0]]
    /\ spent = [s \in Swaps |-> 0]
    /\ shown = Main
    /\ faults = 0

\* An operation that raised after the wallet process moved to v.
GaveUp(v) == w' = v /\ UNCHANGED <<txs, saved, found, spent, shown, faults>>

\* Mutant: the lock is paid without looking at the wallet's transfers.
AlreadySendingUnchecked(v, s) == FALSE

\* publishBLockTx's check that the open wallet is not already sending to the
\* lock address: the destinations its cache knows.
AlreadySending(v, s) == s \in v.known[v.open]

\* The answer reaches the bid and its id is saved, or it is lost: the RPC
\* times out, or the process stops before the bid is saved.
AnswerSaved(s) ==
    \/ saved' = [saved EXCEPT ![s] = TRUE] /\ UNCHANGED faults
    \/ faults < MaxRestarts /\ faults' = faults + 1 /\ UNCHANGED saved

\* publishBLockTx, called until the bid has the id of its lock transaction.
PublishBLockTx(s) ==
    /\ s \in Payers /\ ~saved[s]
    /\ \E r \in OpenWallet(w, MainFile) :
         \/ /\ ~r.ok \/ r.w.open = NoOpen
            /\ GaveUp(r.w)
         \/ /\ r.ok /\ r.w.open # NoOpen
            /\ AlreadySending(r.w, s)
            /\ w' = r.w
            /\ AnswerSaved(s)
            /\ UNCHANGED <<txs, found, spent, shown>>
         \/ /\ r.ok /\ r.w.open # NoOpen
            /\ ~AlreadySending(r.w, s)
            /\ CanSign(r.w) /\ Len(txs) + 2 <= MaxTxs
            /\ txs' \in TransferOf("lock", OpenAddress(r.w), s, LockAmount)
            /\ w' = [r.w EXCEPT !.known[r.w.open] = @ \cup {s}]
            /\ AnswerSaved(s)
            /\ UNCHANGED <<found, spent, shown>>

\* Mutant: findTxB looks at whichever wallet is open.
IsWalletOfAny(v, s) == v.open # NoOpen

\* findTxB and spendBLockTx refuse when the open wallet is not the swap's.
IsWalletOf(v, s) == OpenAddress(v) = s

\* Mutant: a transfer that is still locked is taken when the amount is right.
IsLockAnyTime(t) == t.amount = LockAmount

\* A transfer findTxB answers with: unlocked, or waiting only for the
\* confirmations every transaction needs, and of the agreed amount.
IsLock(t) == (t.unlocked \/ ~t.timelock) /\ t.amount = LockAmount

\* findTxB.
FindTxB(s) ==
    \E r \in OpenOrCreate(w, File(s, "view")) :
      \/ ~(r.ok /\ IsWalletOf(r.w, s)) /\ GaveUp(r.w)
      \/ /\ r.ok /\ IsWalletOf(r.w, s)
         /\ w' = r.w
         /\ LET all == Available(OpenAddress(r.w))
                good == {i \in all : IsLock(txs[i])}
            IN found' = [found EXCEPT ![s] =
                 IF good # {} THEN [answer |-> "lock", tx |-> Min(good)]
                 ELSE [answer |-> IF all # {} THEN "bad" ELSE "none", tx |-> 0]]
         /\ UNCHANGED <<txs, saved, spent, shown, faults>>

\* spendBLockTx: too low a balance may mean it was spent already; the whole
\* unlocked balance is swept.  It is called for a lock the bid knows of.
SpendBLockTx(s, spend_actual_balance) ==
    /\ IF s \in Payers THEN saved[s] ELSE found[s].answer = "lock"
    /\ \E r \in OpenOrCreate(w, File(s, "full")) :
         LET a == OpenAddress(r.w)
             low == Balance(a) < LockAmount
             value == IF spend_actual_balance THEN Balance(a) ELSE LockAmount
             detected == low /\ Outgoing(a) # {}
             refused == \/ ~(r.ok /\ IsWalletOf(r.w, s))
                        \/ ~detected /\ low /\ ~spend_actual_balance
                        \/ ~detected /\ (UnlockedBalance(a) < value \/ Unlocked(a) = {})
         IN \/ refused /\ GaveUp(r.w)
            \/ /\ ~refused /\ detected
               /\ w' = r.w
               /\ spent' = [spent EXCEPT ![s] = Min(Outgoing(a))]
               /\ UNCHANGED <<txs, saved, found, shown, faults>>
            \/ /\ ~refused /\ ~detected
               /\ CanSign(r.w) /\ Len(txs) < MaxTxs
               /\ txs' = SweepOf("sweep", a)
               /\ w' = [r.w EXCEPT !.known[r.w.open] = @ \cup {Out}]
               /\ \/ spent' = [spent EXCEPT ![s] = Len(txs) + 1] /\ UNCHANGED faults
                  \/ faults < MaxRestarts /\ faults' = faults + 1 /\ UNCHANGED spent
               /\ UNCHANGED <<saved, found, shown>>

\* withdrawCoin, of an amount or of everything.  No check of the open wallet.
WithdrawCoin(sweepall) ==
    \E r \in OpenWallet(w, MainFile) :
      \/ ~(r.ok /\ CanSign(r.w)) /\ GaveUp(r.w)
      \/ /\ r.ok /\ CanSign(r.w)
         /\ Len(txs) + 2 <= MaxTxs
         /\ LET a == OpenAddress(r.w)
            IN \/ /\ sweepall
                  /\ Unlocked(a) # {} /\ Balance(a) = UnlockedBalance(a)
                  /\ txs' = SweepOf("withdraw", a)
               \/ /\ ~sweepall
                  /\ txs' \in TransferOf("withdraw", a, Out, LockAmount)
         /\ w' = [r.w EXCEPT !.known[r.w.open] = @ \cup {Out}]
         /\ UNCHANGED <<saved, found, spent, shown, faults>>

\* The operations that read the main wallet or take an address of it.
ReadMain ==
    \E r \in OpenWallet(w, MainFile) :
      \/ ~(r.ok /\ r.w.open # NoOpen) /\ GaveUp(r.w)
      \/ /\ r.ok /\ r.w.open # NoOpen
         /\ w' = r.w /\ shown' = OpenAddress(r.w)
         /\ UNCHANGED <<txs, saved, found, spent, faults>>

\* showLockTransfers: the spending file, else the view-only one, else a new
\* view-only one.
ShowLockTransfers(s) ==
    \E r \in OpenWallet(w, File(s, "full")) :
      IF r.ok THEN GaveUp(r.w)
      ELSE \E q \in OpenOrCreate(r.w, File(s, "view")) : GaveUp(q.w)

-----------------------------------------------------------------------------
(* The environment.                                                        *)

\* The counterparty pays its lock, possibly wrongly.
PeerPays(s, amount, timelock) ==
    /\ s \notin Payers /\ Len(txs) < MaxTxs
    /\ \A i \in DOMAIN txs : txs[i].to # s
    /\ txs' = Append(txs, Tx("lock", Peer, s, amount, timelock))
    /\ UNCHANGED <<w, saved, found, spent, shown, faults>>

\* A transaction gets the confirmations, and passes the time, that unlock it.
Unlock(i) ==
    /\ ~txs[i].unlocked /\ txs[i].to # Out
    /\ txs' = [txs EXCEPT ![i].unlocked = TRUE]
    /\ UNCHANGED <<w, saved, found, spent, shown, faults>>

\* The cache of a closed wallet is damaged on disk.
Corrupt(f) ==
    /\ f \in w.files \ w.corrupt /\ f # w.open
    /\ Cardinality(w.corrupt) < MaxCorrupt /\ faults < MaxRestarts
    /\ w' = [w EXCEPT !.corrupt = @ \cup {f}]
    /\ faults' = faults + 1
    /\ UNCHANGED <<txs, saved, found, spent, shown>>

\* The process restarts, with the wallet process or without it.
Restart ==
    /\ faults < MaxRestarts
    /\ faults' = faults + 1
    /\ \E o \in {w.open, NoOpen} : w' = [w EXCEPT !.open = o, !.cached = NoWallet]
    /\ UNCHANGED <<txs, saved, found, spent, shown>>

Next ==
    \/ \E s \in Swaps :
         \/ PublishBLockTx(s)
         \/ FindTxB(s)
         \/ ShowLockTransfers(s)
         \/ \E all \in BOOLEAN : SpendBLockTx(s, all)
         \/ \E amount \in {1, LockAmount}, timelock \in BOOLEAN : PeerPays(s, amount, timelock)
    \/ \E sweepall \in BOOLEAN : WithdrawCoin(sweepall)
    \/ ReadMain
    \/ \E i \in DOMAIN txs : Unlock(i)
    \/ \E f \in Files : Corrupt(f)
    \/ Restart

Spec == Init /\ [][Next]_vars

-----------------------------------------------------------------------------
(* Properties.                                                             *)

\* A lock is paid once: whatever is retried after a lost answer or a restart,
\* publishBLockTx never makes a second transaction to the lock address.
OneLock ==
    \A i, j \in DOMAIN txs :
      (txs[i].op = "lock" /\ txs[j].op = "lock" /\ txs[i].to = txs[j].to) => i = j

\* Only the main wallet pays locks and withdrawals: the coins of another swap,
\* which this wallet process also holds, are never spent by publishBLockTx or
\* withdrawCoin.
MainPays ==
    \A i \in DOMAIN txs :
      txs[i].op \in {"lock", "withdraw"} => txs[i].from \in {Main, Peer}

\* What is shown as the main wallet is the main wallet: the balances,
\* addresses and transactions of getWalletInfo, getNewAddress and the like.
ShowsMain == shown = Main

\* findTxB never takes a transaction of another wallet, of another amount or
\* still time-locked for the lock transaction of a swap, also when the open
\* was answered by "no connection to daemon".
FoundIsLock ==
    \A s \in Swaps : found[s].answer = "lock" =>
      LET t == txs[found[s].tx]
      IN t.to = s /\ t.amount = LockAmount /\ t.op = "lock"

\* A lock that cannot be spent for a time the counterparty chose is not
\* answered as found while it is locked.
FoundIsSpendable ==
    \A s \in Swaps :
        (found'[s] # found[s] /\ found'[s].answer = "lock")
            => ~(txs'[found'[s].tx].timelock /\ ~txs'[found'[s].tx].unlocked)

\* spendBLockTx answers with a transaction that spent the coins of its own
\* swap, also when it is called again after its answer was lost and when the
\* open was answered by "no connection to daemon".
SpendsOwn == \A s \in Swaps : spent[s] # 0 => txs[spent[s]].from = s

=============================================================================
