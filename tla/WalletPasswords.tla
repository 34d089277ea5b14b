-------------------------- MODULE WalletPasswords --------------------------
(***************************************************************************)
(* The passwords of the wallets: changeWalletPasswords, unlockWallets and  *)
(* lockWallets of BasicSwap, which visit the coins one after the other,    *)
(* with the operations of the node wallets (BTCInterface, Particl's is one *)
(* too) and of the Monero wallet, which keeps the password in memory and   *)
(* gives it to every wallet file it opens or creates, the files of the     *)
(* swaps in progress included.                                             *)
(*                                                                         *)
(* Requests come from the HTTP threads: between two coins of a request the *)
(* main loop goes on, accepts bids and looks for lock transactions.        *)
(***************************************************************************)
EXTENDS Naturals, Sequences, FiniteSets

CONSTANTS
    Swaps,          \* swaps that use the Monero wallet
    FirstPassword,  \* the password of every wallet at the start, or ""
    Passwords,      \* the passwords users enter
    Honest,         \* the password entered is always that of Particl's wallet
    PerCoin,        \* requests that name one coin
    Locks,          \* lock requests
    Concurrent,     \* bids accepted while passwords change
    ManageDaemon,   \* manage_daemon of the node wallets
    FoundPath,      \* the wallet files are where encryptWallet looks
    MaxChanges,     \* password changes
    MaxFails,       \* RPC failures
    MaxRestarts     \* restarts of the node

\* What is assumed of the constants.
ConstantsOK ==
    /\ "" \notin Passwords /\ FirstPassword \in Passwords \cup {""}
    /\ {MaxChanges, MaxFails, MaxRestarts} \subseteq Nat

\* getListOfWalletCoins: Particl first.
CoinOrder == <<"part", "btc", "xmr">>

NodeCoins == {"part", "btc"}

NoFile == "no file"

VARIABLES
    wallet,     \* the node wallets: password, unlocked, loaded, seed, seed warning
    xmr,        \* the main Monero wallet: password, password in memory, open, seed checked
    swapPw,     \* swapPw[s]: the password of the swap's wallet file
    active,     \* the swaps in progress of the database
    inProgress, \* swaps_in_progress
    isLocked,   \* _is_locked
    task,       \* the request being served
    used,       \* changes, failures and restarts so far
    unseen      \* history: swaps that the change being served did not see, because
                \* they were not loaded when it began or were accepted since

vars == <<wallet, xmr, swapPw, active, inProgress, isLocked, task, used, unseen>>

Idle == [op |-> "idle", coin |-> "all", old |-> "", new |-> "", phase |-> "none", at |-> 0]

\* isWalletLocked: encrypted and not unlocked.
IsWalletLocked(c) == wallet[c].pw # "" /\ ~wallet[c].unlocked

\* isSystemUnlocked.
IsSystemUnlocked == ~isLocked /\ ~IsWalletLocked("part")

-----------------------------------------------------------------------------
(* One node wallet.                                                        *)

Done(v) == [v |-> v, ok |-> TRUE]

Failed(v) == [v |-> v, ok |-> FALSE]

\* Mutant: any seed passes.
CheckWalletSeedAny(c, v) == [v EXCEPT !.warn = FALSE]

\* checkWalletSeed: a seed whose id is not the stored one, in either form, nor
\* one computed from the node's keys leaves the warning as it is; Particl's
\* seed is where all keys come from.
CheckWalletSeed(c, v) ==
    IF c = "part" \/ v.seed = "swap" THEN [v EXCEPT !.warn = FALSE] ELSE v

\* initialiseWallet of BTCInterface: descriptors are imported and made active;
\* a legacy wallet refuses a seed it already has, which is not an error.
SetSeed(v, use_descriptors) ==
    IF use_descriptors \/ v.seed = "none" THEN [v EXCEPT !.seed = "swap"] ELSE v

\* initialiseWallet of BasicSwap: the wallet's seed must then be the expected.
InitialiseWallet(v, use_descriptors) ==
    LET seeded == SetSeed(v, use_descriptors)
    IN IF seeded.seed = "swap" THEN Done(seeded) ELSE Failed(seeded)

\* unlockWallet of BTCInterface: nothing without a password; Bitcoin's wallet
\* is loaded if it is not, and one without a seed gets the seed of the node
\* and, if it was not encrypted, the password.
UnlockWallet(c, v, password) ==
    IF password = "" THEN Done(v)
    ELSE LET loaded == IF c = "btc" THEN [v EXCEPT !.loaded = TRUE] ELSE v
             seeded == IF c = "btc" /\ v.seed = "none"
                       THEN [InitialiseWallet(loaded, TRUE).v EXCEPT
                               !.warn = FALSE, !.pw = IF @ = "" THEN password ELSE @]
                       ELSE loaded
         IN IF ~loaded.loaded THEN Failed(v)
            ELSE IF seeded.pw = "" THEN Done(CheckWalletSeed(c, seeded))
            ELSE IF seeded.pw = password
                 THEN Done(CheckWalletSeed(c, [seeded EXCEPT !.unlocked = TRUE]))
            ELSE Failed(IF seeded.seed # v.seed THEN v ELSE seeded)

\* Mutant: the wallet stays unloaded after the keys were written back.
EncryptWalletUnloads(v, password, keeps, captured, restored) ==
    IF ~v.loaded THEN Failed(v)
    ELSE Done([v EXCEPT !.pw = password, !.unlocked = FALSE, !.loaded = keeps])

\* The first part of encryptWallet: with manage_daemon the wallet is unloaded
\* and the active keys are read from its file.
ReadsKeys(v) == ManageDaemon /\ v.seed # "none"

\* The last part of encryptWallet, when the seed changed: the warning is set
\* and the keys read before (captured) are written back to the file, which may
\* fail (restored).
RestoreKeys(v, seed, captured, restored) ==
    [v EXCEPT !.warn = TRUE, !.seed = IF captured /\ restored THEN seed ELSE @]

\* encryptWallet: encryption may give the wallet a new seed (keeps is false).
EncryptWallet(v, password, keeps, captured, restored) ==
    LET encrypted == [v EXCEPT !.pw = password, !.unlocked = FALSE,
                               !.seed = IF keeps THEN @ ELSE "new"]
    IN IF ~v.loaded THEN Failed(v)
       ELSE IF ReadsKeys(v) /\ ~FoundPath THEN Failed([v EXCEPT !.loaded = FALSE])
       ELSE IF ~ReadsKeys(v) \/ keeps THEN Done(encrypted)
       ELSE Done(RestoreKeys(encrypted, v.seed, captured, restored))

\* changeWalletPassword of BTCInterface.
ChangeWalletPassword(v, old, new, keeps, captured, restored) ==
    IF old = ""
    THEN IF v.pw # "" THEN Failed(v) ELSE EncryptWallet(v, new, keeps, captured, restored)
    ELSE IF v.loaded /\ v.pw = old THEN Done([v EXCEPT !.pw = new]) ELSE Failed(v)

-----------------------------------------------------------------------------
(* The Monero wallet.                                                      *)

\* openWallet of the main file: open already, or the password in memory is its
\* password.  A failed open closes the wallet.
CanOpenMain(x) == x.open \/ x.mem = x.pw

\* unlockWallet of XMRInterface: the password is kept in memory, and tried only
\* as long as the seed has not been checked.
XmrUnlock(x, password) ==
    LET kept == [x EXCEPT !.mem = password, !.checked = TRUE]
    IN IF x.checked THEN Done(kept)
       ELSE IF CanOpenMain(kept) THEN Done([kept EXCEPT !.open = TRUE])
       ELSE Failed([kept EXCEPT !.open = FALSE])

\* changeWalletPassword of XMRInterface: only the main file is changed, the
\* open flag is cleared, the password in memory is the old one afterwards and
\* the original one after a failure.
XmrChange(x, old, new) ==
    LET tried == [x EXCEPT !.mem = IF old # "" THEN old ELSE @]
    IN IF CanOpenMain(tried) /\ x.pw = old
       THEN Done([tried EXCEPT !.pw = new, !.open = FALSE])
       ELSE Failed([x EXCEPT !.open = CanOpenMain(tried)])

-----------------------------------------------------------------------------
(* The requests.                                                           *)

Init ==
    /\ \E seed \in {"swap", "none"} :
         wallet = [c \in NodeCoins |->
           [pw |-> FirstPassword, unlocked |-> TRUE, loaded |-> TRUE,
            seed |-> IF c = "btc" /\ FirstPassword = "" THEN seed ELSE "swap",
            warn |-> c = "btc" /\ FirstPassword = "" /\ seed = "none"]]
    /\ xmr = [pw |-> FirstPassword, mem |-> FirstPassword, open |-> TRUE, checked |-> TRUE]
    /\ swapPw = [s \in Swaps |-> NoFile]
    /\ active = {} /\ inProgress = {}
    /\ isLocked = FALSE
    /\ task = Idle
    /\ used = [changes |-> 0, fails |-> 0, restarts |-> 0]
    /\ unseen = {}

\* The coins a request may name.
CoinArgs == {"all"} \cup IF PerCoin THEN {"part", "btc", "xmr"} ELSE {}

\* The passwords users enter.
Entered(p) == ~Honest \/ p = wallet["part"].pw

\* The coins of the request being served.
InScope(c) == task.coin \in {"all", c}

\* Mutant: passwords change whether or not swaps are in progress.
MayChangeAlways(old, new) == old # new

\* The refusals of changeWalletPasswords.
MayChange(old, new) == inProgress = {} /\ old # new

\* changeWalletPasswords begins.
StartChange(coin, old, new) ==
    /\ task = Idle /\ used.changes < MaxChanges
    /\ Entered(old) /\ MayChange(old, new)
    /\ task' = [op |-> "change", coin |-> coin, old |-> old, new |-> new,
                phase |-> "unlock", at |-> 1]
    /\ used' = [used EXCEPT !.changes = @ + 1]
    /\ unseen' = active \ inProgress
    /\ UNCHANGED <<wallet, xmr, swapPw, active, inProgress, isLocked>>

\* unlockWallets begins.
StartUnlock(coin, password) ==
    /\ task = Idle /\ Entered(password)
    /\ task' = [op |-> "unlock", coin |-> coin, old |-> password, new |-> "",
                phase |-> "unlock", at |-> 1]
    /\ UNCHANGED <<wallet, xmr, swapPw, active, inProgress, isLocked, used, unseen>>

\* A coin is done and the next one follows, or the request has failed.
Step(ok) == task' = IF ok THEN [task EXCEPT !.at = @ + 1] ELSE Idle

\* A request leaves out the coins it does not name.
SkipCoin ==
    /\ task.op # "idle" /\ task.at <= Len(CoinOrder) /\ ~InScope(CoinOrder[task.at])
    /\ Step(TRUE)
    /\ UNCHANGED <<wallet, xmr, swapPw, active, inProgress, isLocked, used, unseen>>

\* The request unlocks one wallet.
UnlockOne ==
    /\ task.phase = "unlock" /\ task.at <= Len(CoinOrder) /\ InScope(CoinOrder[task.at])
    /\ LET c == CoinOrder[task.at]
       IN IF c = "xmr"
          THEN LET r == XmrUnlock(xmr, task.old)
               IN xmr' = r.v /\ Step(r.ok) /\ UNCHANGED wallet
          ELSE LET r == UnlockWallet(c, wallet[c], task.old)
               IN wallet' = [wallet EXCEPT ![c] = r.v] /\ Step(r.ok) /\ UNCHANGED xmr
    /\ UNCHANGED <<swapPw, active, inProgress, isLocked, used, unseen>>

\* All wallets took the old password: the changes begin.
UnlockedAll ==
    /\ task.op = "change" /\ task.phase = "unlock" /\ task.at > Len(CoinOrder)
    /\ task' = [task EXCEPT !.phase = "change", !.at = 1]
    /\ UNCHANGED <<wallet, xmr, swapPw, active, inProgress, isLocked, used, unseen>>

\* The request changes the password of one wallet.
ChangeOne ==
    /\ task.phase = "change" /\ task.at <= Len(CoinOrder) /\ InScope(CoinOrder[task.at])
    /\ LET c == CoinOrder[task.at]
       IN \/ /\ c = "xmr"
             /\ LET r == XmrChange(xmr, task.old, task.new)
                IN xmr' = r.v /\ Step(r.ok) /\ UNCHANGED wallet
          \/ /\ c # "xmr"
             /\ \E keeps, captured, restored \in BOOLEAN :
                  LET r == ChangeWalletPassword(wallet[c], task.old, task.new,
                                                keeps, captured, restored)
                  IN wallet' = [wallet EXCEPT ![c] = r.v] /\ Step(r.ok) /\ UNCHANGED xmr
    /\ UNCHANGED <<swapPw, active, inProgress, isLocked, used, unseen>>

\* changeWalletPasswords ends: the cached state is updated.
EndChange ==
    /\ task.phase = "change" /\ task.at > Len(CoinOrder)
    /\ isLocked' = IF InScope("part") THEN IsWalletLocked("part") ELSE isLocked
    /\ task' = Idle
    /\ UNCHANGED <<wallet, xmr, swapPw, active, inProgress, used, unseen>>

\* loadFromDB: the swaps in progress, unless the system is locked.
LoadFromDB(locked) ==
    inProgress' = IF ~locked /\ ~IsWalletLocked("part") THEN active ELSE inProgress

\* Mutant: the system counts as unlocked as soon as Particl's wallet is.
UnlockedSoFarEarly == task.op = "unlock" /\ task.at > 1

\* unlockWallets is through with all coins.
UnlockedSoFar == task.op = "unlock" /\ task.at > Len(CoinOrder)

\* unlockWallets ends.
EndUnlock ==
    /\ UnlockedSoFar
    /\ isLocked' = (isLocked /\ ~InScope("part"))
    /\ LoadFromDB(isLocked')
    /\ task' = Idle
    /\ UNCHANGED <<wallet, xmr, swapPw, active, used, unseen>>

\* lockWallets.  The Monero wallet forgets the password and stays open.
LockWallets(coin) ==
    /\ Locks /\ task = Idle
    /\ inProgress' = {}
    /\ wallet' = [c \in NodeCoins |->
         IF coin \in {"all", c} /\ wallet[c].pw # ""
         THEN [wallet[c] EXCEPT !.unlocked = FALSE] ELSE wallet[c]]
    /\ xmr' = IF coin \in {"all", "xmr"} THEN [xmr EXCEPT !.mem = ""] ELSE xmr
    /\ isLocked' = (isLocked \/ coin \in {"all", "part"})
    /\ UNCHANGED <<swapPw, active, task, used, unseen>>

\* reseedWallet, for a wallet with the warning.
ReseedWallet(use_descriptors) ==
    /\ task = Idle /\ IsSystemUnlocked
    /\ wallet["btc"].warn /\ wallet["btc"].loaded /\ ~IsWalletLocked("btc")
    /\ LET r == InitialiseWallet(wallet["btc"], use_descriptors)
       IN wallet' = [wallet EXCEPT !["btc"] = IF r.ok THEN CheckWalletSeed("btc", r.v) ELSE r.v]
    /\ UNCHANGED <<xmr, swapPw, active, inProgress, isLocked, task, used, unseen>>

\* An RPC of the request fails.
RpcFails ==
    /\ task.op # "idle" /\ task.at <= Len(CoinOrder) /\ used.fails < MaxFails
    /\ task' = Idle
    /\ used' = [used EXCEPT !.fails = @ + 1]
    /\ UNCHANGED <<wallet, xmr, swapPw, active, inProgress, isLocked, unseen>>

-----------------------------------------------------------------------------
(* The rest of the node.                                                   *)

\* A bid becomes a swap in progress.
AcceptBid(s) ==
    /\ IsSystemUnlocked /\ s \notin active /\ swapPw[s] = NoFile
    /\ Concurrent \/ task.op # "change"
    /\ active' = active \cup {s} /\ inProgress' = inProgress \cup {s}
    /\ unseen' = IF task.op = "change" THEN unseen \cup {s} ELSE unseen
    /\ UNCHANGED <<wallet, xmr, swapPw, isLocked, task, used>>

\* The main loop opens the wallet file of a swap in progress, with the password
\* in memory, or creates it with that password.
OpenSwapWallet(s) ==
    /\ s \in inProgress
    /\ swapPw' = [swapPw EXCEPT ![s] = IF @ = NoFile THEN xmr.mem ELSE @]
    /\ xmr' = [xmr EXCEPT !.open = FALSE]
    /\ UNCHANGED <<wallet, active, inProgress, isLocked, task, used, unseen>>

\* An operation on the main Monero wallet.
OpenMainWallet ==
    /\ xmr' = [xmr EXCEPT !.open = CanOpenMain(xmr)]
    /\ UNCHANGED <<wallet, swapPw, active, inProgress, isLocked, task, used, unseen>>

\* A swap whose wallet opens runs to its end.
FinishSwap(s) ==
    /\ s \in inProgress /\ swapPw[s] = xmr.mem
    /\ active' = active \ {s} /\ inProgress' = inProgress \ {s}
    /\ UNCHANGED <<wallet, xmr, swapPw, isLocked, task, used, unseen>>

\* The node and its daemons restart: encrypted wallets are locked.
Restart ==
    /\ used.restarts < MaxRestarts
    /\ used' = [used EXCEPT !.restarts = @ + 1]
    /\ wallet' = [c \in NodeCoins |->
                    [wallet[c] EXCEPT !.unlocked = wallet[c].pw = "", !.loaded = TRUE,
                                      !.warn = wallet[c].seed # "swap"]]
    /\ xmr' = [xmr EXCEPT !.mem = "", !.open = FALSE, !.checked = FALSE]
    /\ isLocked' = (wallet["part"].pw # "")
    /\ inProgress' = IF wallet["part"].pw # "" THEN {} ELSE active
    /\ task' = Idle
    /\ UNCHANGED <<swapPw, active, unseen>>

Next ==
    \/ \E coin \in CoinArgs, new \in Passwords, old \in Passwords \cup {""} :
         StartChange(coin, old, new)
    \/ \E coin \in CoinArgs, p \in Passwords : StartUnlock(coin, p)
    \/ SkipCoin \/ UnlockOne \/ UnlockedAll \/ ChangeOne \/ EndChange \/ EndUnlock
    \/ \E coin \in CoinArgs : LockWallets(coin)
    \/ \E use_descriptors \in BOOLEAN : ReseedWallet(use_descriptors)
    \/ RpcFails
    \/ \E s \in Swaps : AcceptBid(s) \/ OpenSwapWallet(s) \/ FinishSwap(s)
    \/ OpenMainWallet
    \/ Restart

Spec == Init /\ [][Next]_vars

-----------------------------------------------------------------------------
(* Properties.                                                             *)

\* When the password of the main Monero wallet changes, no swap keeps a wallet file
\* with the old one, but for the swaps that the request could not see: what the
\* refusal of changeWalletPasswords while swaps are in progress is for, whatever
\* bids are accepted, wallets locked, calls fail and the node restarts around it.
NoChangeWithSwaps ==
    xmr'.pw # xmr.pw => \A s \in active : swapPw[s] = NoFile \/ s \in unseen

\* No swap is in progress on a node that is unlocked by half: an unlock that
\* fails at a later coin leaves the system locked and no swap loaded.
NoSwapHalfUnlocked ==
    inProgress # {} => \A c \in NodeCoins : ~IsWalletLocked(c)

\* A Bitcoin wallet whose keys are not derived from the node's seed is warned
\* about: through encryption, restoring of the keys, unlocking and restarts.
SeedWarned == wallet["btc"].seed = "new" => wallet["btc"].warn

\* A password request never leaves a node wallet unloaded.
WalletsLoaded == task = Idle => \A c \in NodeCoins : wallet[c].loaded

=============================================================================
