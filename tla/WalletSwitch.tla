---------------------------- MODULE WalletSwitch ----------------------------
(***************************************************************************)
(* Switching one coin between the node's wallet ("rpc") and the built-in   *)
(* light wallet ("electrum"), and the sweep that moves what is left on the *)
(* light wallet's addresses to the node (basicswap/basicswap.py:           *)
(* editSettings, _migrateWalletToLiteMode, _checkElectrumWalletEmpty,      *)
(* _transferLiteWalletBalanceToRPC and its four callers).                  *)
(*                                                                         *)
(* The new connection type is only saved; the running mode changes at the  *)
(* next start.  A sweep runs outside the database lock in three stages     *)
(* (balance, outputs, broadcast), so the sweep of the settings page, of    *)
(* the start-up thread, of the retry in the update loop and of the switch  *)
(* itself can overlap.  Amounts are left out: an output is worth sweeping. *)
(***************************************************************************)
EXTENDS FiniteSets, Naturals

CONSTANTS Coin,         \* outputs that are paid to the user
          StartMode,    \* the connection type of the first start
          QueryFails,   \* TRUE: an electrum query, or the node's RPC, may fail
          Busy,         \* TRUE: swaps use the wallet and the user presses force_sweep
          MaxRestarts,  \* bound: restarts of the program
          MaxSwitches   \* bound: calls of editSettings that change the type

Modes == {"rpc", "electrum"}

\* Callers of the transfer: _sweepLiteWalletBackground, _retryPendingSweeps,
\* the settings page's force_sweep, and editSettings itself.
Callers == {"background", "retry", "page", "settings"}

\* What is assumed of the constants.
ConstantsOK ==
    /\ StartMode \in Modes /\ QueryFails \in BOOLEAN /\ Busy \in BOOLEAN
    /\ MaxRestarts \in Nat /\ MaxSwitches \in Nat

VARIABLES saved,     \* settings["chainclients"][coin]["connection_type"]
          mode,      \* coin_clients[coin]["connection_type"] of this run
          at,        \* where an output is: "none", "node", "lite", "spent"
          conf,      \* the outputs that are confirmed
          cached,    \* outputs behind wallet_addresses rows with cached_balance > 0
          swap,      \* the outputs reserved by swaps in progress
          ready,     \* WalletManager.isInitialized(coin)
          pending,   \* _pending_sweeps[coin]: "none", "fresh", "due" (300 s old)
          pc, got,   \* per caller: the stage of its transfer and its inputs
          owed,      \* history: outputs of the light wallet that a put-off sweep
                     \* promised to move
          lost,      \* history: those whose entry in _pending_sweeps went without
          restarts, switches

vars == <<saved, mode, at, conf, cached, swap, ready, pending, pc, got, owed, lost,
          restarts, switches>>

money == <<at, conf>>
calls == <<pc, got>>
count == <<restarts, switches>>

Lite == {c \in Coin : at[c] = "lite"}

\* The wallet the running mode pays from and receives on.
Running == IF mode = "rpc" THEN "node" ELSE "lite"

TypeOK ==
    /\ saved \in Modes /\ mode \in Modes
    /\ at \in [Coin -> {"none", "node", "lite", "spent"}]
    /\ conf \subseteq Coin /\ cached \subseteq Coin
    /\ owed \subseteq Lite /\ lost \subseteq owed
    /\ swap \in SUBSET Coin /\ ready \in BOOLEAN
    /\ pending \in {"none", "fresh", "due"}
    /\ pc \in [Callers -> {"idle", "balance", "utxos", "send"}]
    /\ got \in [Callers -> SUBSET Coin]
    /\ \A t \in Callers : pc[t] = "send" <=> got[t] # {}
    /\ restarts \in 0..MaxRestarts /\ switches \in 0..MaxSwitches

Init ==
    /\ saved = StartMode /\ mode = StartMode
    /\ at = [c \in Coin |-> "none"] /\ conf = {} /\ cached = {}
    /\ swap = {} /\ ready = TRUE /\ pending = "none"
    /\ pc = [t \in Callers |-> "idle"] /\ got = [t \in Callers |-> {}]
    /\ owed = {} /\ lost = {} /\ restarts = 0 /\ switches = 0

-----------------------------------------------------------------------------
(* The wallets: payments, confirmations, swaps, the cached balances.       *)

\* A payment to an address of the running wallet.
Deposit(c) ==
    /\ at[c] = "none"
    /\ at' = [at EXCEPT ![c] = Running]
    /\ UNCHANGED <<saved, mode, conf, cached, swap, ready, pending, owed, lost>>
    /\ UNCHANGED <<calls, count>>

Confirm(c) ==
    /\ at[c] \in {"node", "lite"} /\ c \notin conf
    /\ conf' = conf \cup {c}
    /\ UNCHANGED <<saved, mode, at, cached, swap, ready, pending, owed, lost>>
    /\ UNCHANGED <<calls, count>>

\* WalletManager.syncBalances: only the electrum mode refreshes the rows.
SyncBalances ==
    /\ mode = "electrum" /\ cached # Lite
    /\ cached' = Lite
    /\ UNCHANGED <<saved, mode, swap, ready, pending, owed, lost>>
    /\ UNCHANGED <<money, calls, count>>

\* A bid that funds its lock transaction from the running wallet is accepted.
BeginSwap(c) ==
    /\ Busy /\ c \notin swap /\ at[c] = Running /\ c \in conf
    /\ swap' = swap \cup {c}
    /\ UNCHANGED <<saved, mode, cached, ready, pending, owed, lost>>
    /\ UNCHANGED <<money, calls, count>>

\* The lock transaction spends the reserved output, and the swap ends.
EndSwap(c) ==
    /\ c \in swap
    /\ at' = [at EXCEPT ![c] = "spent"]
    /\ swap' = swap \ {c} /\ owed' = owed \ {c} /\ lost' = lost \ {c}
    /\ UNCHANGED <<saved, mode, conf, cached, ready, pending>>
    /\ UNCHANGED <<calls, count>>

-----------------------------------------------------------------------------
(* _transferLiteWalletBalanceToRPC.  The loop over swaps_in_progress asks  *)
(* hasattr(swap, "coin_from") of a (bid, offer) tuple, which has no such   *)
(* attribute, so an active swap never stops the transfer.                  *)

Start(t, as) == pc' = [pc EXCEPT ![t] = as] /\ UNCHANGED got

\* The transfer of caller t returns.
Finish(t) ==
    /\ pc' = [pc EXCEPT ![t] = "idle"]
    /\ got' = [got EXCEPT ![t] = {}]

\* What the caller does with a return value of None: _retryPendingSweeps
\* deletes its entry, editSettings saves the switch like any skipped sweep.
ReturnNone(t) ==
    /\ Finish(t)
    /\ pending' = IF t = "retry" THEN "none" ELSE pending
    /\ lost' = IF t \in {"retry", "background"} /\ pending' = "none"
               THEN owed ELSE lost
    /\ saved' = IF t = "settings" THEN "rpc" ELSE saved
    /\ cached' = IF t = "settings" THEN {} ELSE cached
    /\ UNCHANGED <<at, owed>>

\* Mutant: the sweep is skipped without noting that it is owed.
PutOffForgotten(t) ==
    /\ Finish(t)
    /\ pending' = "none"
    /\ owed' = owed \cup Lite /\ lost' = lost \ Lite
    /\ saved' = IF t = "settings" THEN "rpc" ELSE saved
    /\ cached' = IF t = "settings" THEN {} ELSE cached
    /\ UNCHANGED at

\* An unconfirmed balance: the sweep is put off and "will retry automatically".
PutOff(t) ==
    /\ Finish(t)
    /\ pending' = "fresh"
    /\ owed' = owed \cup Lite /\ lost' = lost \ Lite
    /\ saved' = IF t = "settings" THEN "rpc" ELSE saved
    /\ cached' = IF t = "settings" THEN {} ELSE cached
    /\ UNCHANGED at

\* getDetailedBalance; an exception leaves both balances at zero.
QueryBalance(t) ==
    /\ pc[t] = "balance"
    /\ \/ /\ QueryFails \/ Lite = {}
          /\ ReturnNone(t)
       \/ /\ Lite \ conf # {}
          /\ PutOff(t)
       \/ /\ Lite # {} /\ Lite \subseteq conf
          /\ Start(t, "utxos")
          /\ UNCHANGED <<at, cached, pending, owed, lost, saved>>
    /\ UNCHANGED <<mode, conf, swap, ready, count>>

\* getnewaddress of the node, then all outputs with any number of
\* confirmations; neither a locked output nor a swap's is left out.
FetchUtxos(t) ==
    /\ pc[t] = "utxos"
    /\ \/ /\ QueryFails \/ Lite = {}
          /\ ReturnNone(t)
       \/ /\ Lite # {}
          /\ pc' = [pc EXCEPT ![t] = "send"]
          /\ got' = [got EXCEPT ![t] = Lite]
          /\ UNCHANGED <<at, cached, pending, owed, lost, saved>>
    /\ UNCHANGED <<mode, conf, swap, ready, count>>

\* broadcastTransaction; when an input is spent already it raises and the
\* transfer returns None, otherwise _clearCachedAddresses zeroes the rows.
Broadcast(t) ==
    /\ pc[t] = "send"
    /\ \/ /\ \E c \in got[t] : at[c] # "lite"
          /\ ReturnNone(t)
          /\ UNCHANGED conf
       \/ /\ \A c \in got[t] : at[c] = "lite"
          /\ at' = [c \in Coin |-> IF c \in got[t] THEN "node" ELSE at[c]]
          /\ conf' = conf \ got[t]
          /\ cached' = {} /\ pending' = "none"
          /\ owed' = owed \ got[t] /\ lost' = owed \ got[t]
          /\ saved' = IF t = "settings" THEN "rpc" ELSE saved
          /\ Finish(t)
    /\ UNCHANGED <<mode, swap, ready, count>>

Transfer(t) == QueryBalance(t) \/ FetchUtxos(t) \/ Broadcast(t)

-----------------------------------------------------------------------------
(* The callers.                                                            *)

\* The settings page's force_sweep_<coin>: sweepLiteWalletFunds initialises
\* the wallet manager itself.
ForceSweep ==
    /\ Busy
    /\ pc["page"] = "idle" /\ ready /\ Lite # {}
    /\ Start("page", "balance")
    /\ UNCHANGED <<saved, mode, cached, swap, ready, pending, owed, lost, money, count>>

\* 300 seconds pass since the last attempt.
Wait ==
    /\ pending = "fresh" /\ pc["retry"] = "idle"
    /\ pending' = "due"
    /\ UNCHANGED <<saved, mode, cached, swap, ready, owed, lost, money, calls, count>>

\* _retryPendingSweeps, from update() once a minute.
RetryPendingSweeps ==
    /\ pending = "due" /\ pc["retry"] = "idle"
    /\ Start("retry", "balance")
    /\ UNCHANGED <<saved, mode, cached, swap, ready, pending, owed, lost, money, count>>

\* _syncLiteWalletToRPCOnStartup: rows with a cached balance start the thread.
SweepsOnStartup(m, unlocked) == m = "rpc" /\ cached # {} /\ unlocked

\* A restart takes the saved type; _pending_sweeps is only in memory.  With an
\* encrypted wallet the sweep waits for the user to unlock it.
Restart ==
    /\ restarts < MaxRestarts
    /\ restarts' = restarts + 1
    /\ mode' = saved /\ pending' = "none"
    /\ ready' \in BOOLEAN
    /\ pc' = [t \in Callers |-> IF t = "background" /\ SweepsOnStartup(saved, ready')
                               THEN "balance" ELSE "idle"]
    /\ got' = [t \in Callers |-> {}]
    /\ lost' = IF SweepsOnStartup(saved, TRUE) THEN lost ELSE owed
    /\ UNCHANGED <<saved, cached, swap, owed, money, switches>>

\* unlockWallets repeats the start-up check.
Unlock ==
    /\ ~ready
    /\ ready' = TRUE
    /\ IF SweepsOnStartup(mode, TRUE) THEN Start("background", "balance")
                                      ELSE UNCHANGED calls
    /\ UNCHANGED <<saved, mode, cached, swap, pending, owed, lost, money, count>>

\* Mutant: the migration does not look at the swaps in progress.
MigrateAnyway == ready /\ cached' = {}

\* _migrateWalletToLiteMode: refused while a swap of the coin is in progress;
\* derives the light wallet's addresses, imports the node's addresses and keys
\* and clears the cached rows.  Its other errors are only warnings.
MigrateWalletToLiteMode == ready /\ swap = {} /\ cached' = {}

\* _consolidateLegacyFundsToSegwit: the node's outputs that are not on one of
\* the light wallet's addresses are spent to a new address of the light wallet.
ConsolidateLegacyFundsToSegwit ==
    /\ at' = [c \in Coin |-> IF at[c] = "node" /\ c \in conf THEN "lite" ELSE at[c]]
    /\ conf' = {c \in conf : at'[c] = at[c]}

\* editSettings, rpc to electrum; auto is auto_transfer_now.
SwitchToLite(auto) ==
    /\ saved = "rpc" /\ switches < MaxSwitches
    /\ MigrateWalletToLiteMode
    /\ saved' = "electrum" /\ switches' = switches + 1
    /\ IF auto THEN ConsolidateLegacyFundsToSegwit ELSE UNCHANGED money
    /\ UNCHANGED <<mode, swap, ready, pending, owed, lost, calls, restarts>>

\* _checkElectrumWalletEmpty: only the cached rows count, as its test for an
\* active swap asks a tuple for an attribute and never holds.
HasBalance == cached # {}

\* _syncWalletIndicesToRPC: the keypool is refilled, the chain rescanned and
\* the cached rows cleared; nothing happens while the wallet manager is locked.
SyncWalletIndicesToRPC == cached' = IF ready THEN {} ELSE cached

\* editSettings, electrum to rpc.  With a balance and auto_transfer_now the
\* funds are swept first (a locked wallet refuses); a skipped sweep does not
\* stop the switch, which the transfer's return completes.
SwitchToNode(auto) ==
    /\ saved = "electrum" /\ switches < MaxSwitches /\ pc["settings"] = "idle"
    /\ switches' = switches + 1
    /\ IF HasBalance /\ auto
       THEN ready /\ Start("settings", "balance") /\ UNCHANGED <<saved, cached>>
       ELSE saved' = "rpc" /\ SyncWalletIndicesToRPC /\ UNCHANGED calls
    /\ UNCHANGED <<mode, swap, ready, pending, owed, lost, money, restarts>>

-----------------------------------------------------------------------------
Next ==
    \/ \E c \in Coin : Deposit(c) \/ Confirm(c) \/ BeginSwap(c) \/ EndSwap(c)
    \/ SyncBalances
    \/ \E t \in Callers : Transfer(t)
    \/ ForceSweep \/ Wait \/ RetryPendingSweeps \/ Restart \/ Unlock
    \/ \E b \in BOOLEAN : SwitchToLite(b) \/ SwitchToNode(b)

\* Transactions confirm, the update loop and the threads run on, and the user
\* unlocks the wallet.  Nobody has to press a button or restart.
Spec == Init /\ [][Next]_vars

-----------------------------------------------------------------------------
(* Properties.                                                             *)

\* The setting never moves from the node to the light wallet while a swap of
\* the coin is in progress, however the swap, sweeps and switches interleave
\* (_migrateWalletToLiteMode: "Cannot switch modes while swap is in progress").
SwitchToLiteWaits ==
    saved = "rpc" /\ saved' = "electrum" => swap = {} /\ swap' = {}

\* A sweep of c that was put off was made after all ("Will retry automatically
\* when transactions confirm"), or the node forgot that it owes it: it restarted
\* and had no cached balance to start a sweep from, a query or broadcast of the
\* retry failed, or another sweep without c went through.
Settled(c) == at[c] # "lite" \/ c \in lost
=============================================================================
