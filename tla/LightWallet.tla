----------------------------- MODULE LightWallet -----------------------------
(***************************************************************************)
(* The addresses and keys of the built-in electrum wallet of one coin      *)
(* (wallet_manager.py): derived receive and change addresses, the indices  *)
(* of the table wallet_state, imported keys and watch-only addresses, and  *)
(* the balances cached from the electrum server in three steps, during     *)
(* which other threads give out addresses and spend.                       *)
(***************************************************************************)
EXTENDS Integers, FiniteSets, FiniteSetsExt

CONSTANTS
    Gap,            \* ELECTRUM_GAP_LIMIT, and the addresses a migration derives
    MaxIndex,       \* bound: the highest index derived
    Foreign,        \* addresses of the full node's wallet, not derived from the seed
    MaxMigrations,  \* bound: how often runMigration runs
    MaxFunds        \* bound: how many payments are received

\* What is assumed of the constants.
ConstantsOK ==
    /\ Gap \in Nat \ {0} /\ MaxIndex \in Nat /\ MaxIndex >= Gap
    /\ MaxMigrations \in Nat /\ MaxFunds \in Nat

Chains == {"ext", "int"}
Indices == 0..MaxIndex
Derived == Chains \X Indices
Addresses == Derived \cup Foreign

VARIABLES
    rows,        \* wallet_addresses: "none", "unused" or "used" (ever_used)
    last,        \* wallet_state: last_external_index, last_internal_index
    migrations,  \* how often the migration ran; 0 before the wallet is initialised
    keys,        \* wallet_watch_only: "none", "watch", "xor" or "aead" encrypted key
    given,       \* how often an address was given out
    funds,       \* the balances on the chain
    cached,      \* cached_balance, is_funded
    sync,        \* the running syncBalances: its phase, addresses and answer
    received     \* payments so far

vars == <<rows, last, migrations, keys, given, funds, cached, sync, received>>

NoSync == [phase |-> "none", addrs |-> {}, answer |-> {}]

TypeOK ==
    /\ rows \in [Derived -> {"none", "unused", "used"}]
    /\ last \in [Chains -> -1..MaxIndex]
    /\ migrations \in 0..MaxMigrations
    /\ keys \in [Foreign -> {"none", "watch", "xor", "aead"}]
    /\ given \in [Derived -> Nat]
    /\ funds \in [Addresses -> 0..1]
    /\ cached \in [Addresses -> 0..1]
    /\ sync.phase \in {"none", "listed", "fetched"}
    /\ sync.addrs \subseteq Addresses /\ sync.answer \subseteq Addresses
    /\ received \in 0..MaxFunds

\* An old database may hold a key in the first format, and an earlier wallet of
\* the same seed may have been paid at an address this one has not derived yet.
Init ==
    /\ rows = [a \in Derived |-> "none"]
    /\ last = [c \in Chains |-> 0 - 1]
    /\ migrations = 0
    /\ keys \in [Foreign -> {"none", "xor"}]
    /\ given = [a \in Derived |-> 0]
    /\ \E i \in Gap..MaxIndex + 1 :
        funds = [a \in Addresses |-> IF a = <<"ext", i>> THEN 1 ELSE 0]
    /\ cached = [a \in Addresses |-> 0]
    /\ sync = NoSync
    /\ received = 0

\* initialize and runMigration: the first addresses of both chains are derived,
\* and the indices set to the last of them.
RunMigration ==
    /\ migrations < MaxMigrations
    /\ migrations' = migrations + 1
    /\ rows' = [a \in Derived |-> IF a[2] < Gap /\ rows[a] = "none" THEN "unused" ELSE rows[a]]
    /\ last' = [c \in Chains |-> Gap - 1]
    /\ UNCHANGED <<keys, given, funds, cached, sync, received>>

\* _trailingUnusedGap: unused rows below next, counted down to a used one.
TrailingUnusedGap(c, next) ==
    LET Below == {i \in Indices : i < next /\ rows[<<c, i>>] # "none"}
        Used == {i \in Below : rows[<<c, i>>] = "used"}
    IN  Cardinality({i \in Below : \A j \in Used : j < i})

\* _findReusableAddress
Reusable(c) == {i \in Indices : rows[<<c, i>>] = "unused" /\ cached[<<c, i>>] = 0}

Give(a) ==
    /\ rows' = [rows EXCEPT ![a] = "used"]
    /\ given' = [given EXCEPT ![a] = @ + 1]

\* Mutant: the gap is not looked at.
AtGapLimitNever(c, next) == FALSE

\* The next address would be past what a restored wallet scans.
AtGapLimit(c, next) == TrailingUnusedGap(c, next) + 1 >= Gap /\ Reusable(c) # {}

\* getNewAddress: at the gap limit the lowest unused address, otherwise the next
\* index, whether its row exists already or is added.
GetNewAddress ==
    LET next == last["ext"] + 1
    IN  /\ migrations > 0
        /\ \/ /\ AtGapLimit("ext", next)
              /\ Give(<<"ext", Min(Reusable("ext"))>>)
              /\ UNCHANGED last
           \/ /\ ~AtGapLimit("ext", next)
              /\ next <= MaxIndex
              /\ Give(<<"ext", next>>)
              /\ last' = [last EXCEPT !["ext"] = next]
        /\ UNCHANGED <<migrations, keys, funds, cached, sync, received>>

\* Mutant: the index comes from wallet_state, which change addresses do not move.
NextInternalState == last["int"] + 1

\* The index after the highest change address; 'row[0] or -1' starts over at an
\* only address 0.
NextInternal ==
    LET I == {i \in Indices : rows[<<"int", i>>] # "none"}
    IN  IF I = {} \/ I = {0} THEN 0 ELSE Max(I) + 1

\* getNewInternalAddress, called for the change of a transaction.
GetNewInternalAddress ==
    /\ migrations > 0
    /\ NextInternal <= MaxIndex
    /\ Give(<<"int", NextInternal>>)
    /\ UNCHANGED <<last, migrations, keys, funds, cached, sync, received>>

\* importAddress: an address found on the chain is one of the seed's.
ImportAddress(a) ==
    /\ migrations > 0
    /\ funds[a] > 0
    /\ rows[a] = "none"
    /\ rows' = [rows EXCEPT ![a] = "used"]
    /\ cached' = [cached EXCEPT ![a] = 1]
    /\ last' = [last EXCEPT ![a[1]] = Max({@, a[2]})]
    /\ UNCHANGED <<migrations, keys, given, funds, sync, received>>

\* importWatchOnlyAddress
ImportWatchOnlyAddress(f) ==
    /\ keys[f] = "none"
    /\ keys' = [keys EXCEPT ![f] = "watch"]
    /\ UNCHANGED <<rows, last, migrations, given, funds, cached, sync, received>>

\* importAddressWithKey, importKeysFromRPC: the key of an address of the full node.
ImportAddressWithKey(f) ==
    /\ keys[f] \in {"none", "watch"}
    /\ keys' = [keys EXCEPT ![f] = "aead"]
    /\ UNCHANGED <<rows, last, migrations, given, funds, cached, sync, received>>

\* Mutant: a key of the first format is dropped.
UpgradedLost(k) == IF k = "xor" THEN "watch" ELSE k

\* A key is stored again in the authenticated format when it is first read.
Upgraded(k) == IF k = "xor" THEN "aead" ELSE k

\* getPrivateKey of an imported address.
GetPrivateKey(f) ==
    /\ keys[f] \in {"xor", "aead"}
    /\ Upgraded(keys[f]) # keys[f]
    /\ keys' = [keys EXCEPT ![f] = Upgraded(@)]
    /\ UNCHANGED <<rows, last, migrations, given, funds, cached, sync, received>>

\* Mutant: only addresses with a cached balance.
SignableFunded ==
    {a \in Derived : rows[a] # "none" /\ cached[a] > 0}
        \cup {f \in Foreign : keys[f] \in {"xor", "aead"}}

\* The addresses whose outputs _fundTxElectrum may spend: getSignableAddresses.
Signable == {a \in Derived : rows[a] # "none"} \cup {f \in Foreign : keys[f] \in {"xor", "aead"}}

\* A payment to an address that was given out, or to the full node's wallet.
Receive(a) ==
    /\ received < MaxFunds
    /\ a \in Foreign \cup {d \in Derived : given[d] > 0}
    /\ funds[a] = 0
    /\ funds' = [funds EXCEPT ![a] = 1]
    /\ received' = received + 1
    /\ UNCHANGED <<rows, last, migrations, keys, given, cached, sync>>

\* The wallet spends what it can sign for.
Spend(a) ==
    /\ a \in Signable
    /\ funds[a] = 1
    /\ funds' = [funds EXCEPT ![a] = 0]
    /\ UNCHANGED <<rows, last, migrations, keys, given, cached, sync, received>>

\* The addresses a sync asks for: all of them, or those that had a balance.
Listed(fundedOnly) ==
    {a \in Derived : rows[a] # "none" /\ (fundedOnly => cached[a] > 0)}
        \cup {f \in Foreign : keys[f] # "none" /\ (fundedOnly => cached[f] > 0)}

\* syncBalances, first part: the addresses are listed; a second sync is skipped.
SyncList(fundedOnly) ==
    /\ migrations > 0
    /\ sync = NoSync
    /\ Listed(fundedOnly) # {}
    /\ sync' = [NoSync EXCEPT !.phase = "listed", !.addrs = Listed(fundedOnly)]
    /\ UNCHANGED <<rows, last, migrations, keys, given, funds, cached, received>>

\* backend.getBalance, without the database lock; it may fail.
SyncFetch ==
    /\ sync.phase = "listed"
    /\ sync' \in {NoSync, [sync EXCEPT !.phase = "fetched",
                                      !.answer = {a \in sync.addrs : funds[a] > 0}]}
    /\ UNCHANGED <<rows, last, migrations, keys, given, funds, cached, received>>

\* Mutant: a balance that fell to zero is not written.
CachedAfterPositive ==
    [a \in Addresses |-> IF a \in sync.answer THEN 1 ELSE cached[a]]

\* The rows are updated where the balance changed or is positive.
CachedAfter ==
    [a \in Addresses |-> IF a \notin sync.addrs THEN cached[a]
                         ELSE IF a \in sync.answer THEN 1 ELSE 0]

\* syncBalances, last part.
SyncWrite ==
    /\ sync.phase = "fetched"
    /\ cached' = CachedAfter
    /\ rows' = [a \in Derived |-> IF a \in sync.answer THEN "used" ELSE rows[a]]
    /\ sync' = NoSync
    /\ UNCHANGED <<last, migrations, keys, given, funds, received>>

Next ==
    \/ RunMigration
    \/ GetNewAddress
    \/ GetNewInternalAddress
    \/ \E a \in Derived : ImportAddress(a)
    \/ \E f \in Foreign : \/ ImportWatchOnlyAddress(f)
                          \/ ImportAddressWithKey(f)
                          \/ GetPrivateKey(f)
    \/ \E a \in Addresses : Receive(a) \/ Spend(a)
    \/ \E fundedOnly \in BOOLEAN : SyncList(fundedOnly)
    \/ SyncFetch
    \/ SyncWrite

Spec == Init /\ [][Next]_vars

-----------------------------------------------------------------------------
\* Every balance of an address the wallet gave out can be spent: its key is at
\* hand whatever migrations and imports did since.
GivenSignable == \A a \in Derived : given[a] > 0 => a \in Signable

\* A receive or change address is given out once, as long as the migration is
\* not run again and sets the indices back.
GivenOnce == migrations <= 1 => \A a \in Derived : given[a] <= 1

\* A receive address that was given out lies fewer than Gap unused addresses
\* after the one before it: a wallet restored from the seed finds it.
WithinGap ==
    \A i \in Indices : given[<<"ext", i>>] > 0 =>
        TrailingUnusedGap("ext", i) < Gap

\* An imported private key is never lost again.
KeysKept ==
    \A f \in Foreign : keys[f] \in {"xor", "aead"} => keys'[f] \in {"xor", "aead"}

\* The cached balances are those of the chain.
BalancesRight == \A a \in Addresses : a \in Signable => cached[a] = funds[a]

\* A step in which the wallet is used, or in which a sync gets no answer.
Disturbed ==
    \/ funds' # funds \/ keys' # keys \/ rows' # rows
    \/ sync.phase = "listed" /\ sync' = NoSync
=============================================================================
