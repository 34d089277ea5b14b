--------------------------- MODULE Wallets_proofs ---------------------------
(***************************************************************************)
(* The built-in electrum wallet.  Its addresses, for any gap limit and any *)
(* number of addresses, migrations, payments and syncs: what was given out *)
(* can be spent and is found again by a wallet restored from the seed, and *)
(* until the migration is run again nothing is given out twice.  And the   *)
(* locks on its outputs, for any outputs, bids and withdrawals: what is    *)
(* reserved for a bid stays its own until it publishes or ends.  And the   *)
(* passwords of the wallets, for any swaps and any passwords: what a       *)
(* request for all wallets that stops between two of them leaves usable.   *)
(***************************************************************************)
EXTENDS LightWallet, Sequences, FiniteSetTheorems, WellFoundedInduction, TLAPS

\* The locks on outputs: the constants and the state of UtxoLocks.
CONSTANTS
    Utxos, Bids, Withdrawals, Need, BidLock, OpLock, AcceptTimeout, MaxTime, NoOp

VARIABLES
    u_time, u_lock, u_pc, u_inputs, u_since, u_db, u_reserve, u_spent

Outputs == INSTANCE UtxoLocks WITH
    time <- u_time, lock <- u_lock, pc <- u_pc, inputs <- u_inputs, since <- u_since,
    db <- u_db, reserve <- u_reserve, spent <- u_spent

\* The passwords of the wallets: the constants and the state of WalletPasswords.
CONSTANTS
    Swaps, FirstPassword, Passwords, Honest, PerCoin, Locks, Concurrent, ManageDaemon,
    FoundPath, MaxChanges, MaxFails, MaxRestarts

VARIABLES
    p_wallet, p_xmr, p_swapPw, p_active, p_inProgress, p_isLocked, p_task, p_used, p_unseen

Access == INSTANCE WalletPasswords WITH
    wallet <- p_wallet, xmr <- p_xmr, swapPw <- p_swapPw, active <- p_active,
    inProgress <- p_inProgress, isLocked <- p_isLocked, task <- p_task, used <- p_used,
    unseen <- p_unseen

-----------------------------------------------------------------------------

\* More than one address is derived at first.  The next change address after an
\* only address 0 would be 0 again ('row[0] or -1').
GapAboveOne == Gap > 1

\* The full node's own addresses are not derived from the seed of the wallet.
ForeignIsOther == Foreign \cap Derived = {}

-----------------------------------------------------------------------------
\* Least and greatest indices.

\* A set of natural numbers that is not empty has a smallest one.
LEMMA SmallestNumber ==
    ASSUME NEW T \in SUBSET Nat, T # {}
    PROVE  \E n \in T : \A m \in T : n <= m
<1>1. PICK n \in T : \A m \in T : <<m, n>> \notin OpToRel(<, Nat)
  BY NatLessThanWellFounded, WFMin, Zenon
<1>2. \A m \in T : ~(m < n)
  BY <1>1 DEF OpToRel
<1> QED
  BY <1>2

\* The least of some indices.
LEMMA MinIndex ==
    ASSUME ConstantsOK, NEW S \in SUBSET Indices, S # {}
    PROVE  Min(S) \in S /\ \A i \in S : Min(S) <= i
<1>1. S \in SUBSET Nat
  BY DEF Indices, ConstantsOK
<1>2. \E n \in S : \A m \in S : n <= m
  BY <1>1, SmallestNumber
<1> QED
  BY <1>2 DEF Min

\* The greatest of some indices.
LEMMA MaxIndexOf ==
    ASSUME ConstantsOK, NEW S \in SUBSET Indices, S # {}
    PROVE  Max(S) \in S /\ \A i \in S : i <= Max(S)
<1> DEFINE D == {MaxIndex - i : i \in S}
<1>1. D \in SUBSET Nat /\ D # {}
  <2>1. \A i \in S : MaxIndex - i \in Nat
    BY DEF Indices, ConstantsOK
  <2>2. PICK i \in S : TRUE
    OBVIOUS
  <2>3. MaxIndex - i \in D
    BY <2>2
  <2> QED
    BY <2>1, <2>3
<1> HIDE DEF D
<1>2. PICK d \in D : \A e \in D : d <= e
  BY <1>1, SmallestNumber
<1>3. PICK n \in S : d = MaxIndex - n
  BY <1>2 DEF D
<1>4. \A m \in S : n >= m
  <2>1. SUFFICES ASSUME NEW m \in S PROVE n >= m
    OBVIOUS
  <2>2. d <= MaxIndex - m
    BY <1>2 DEF D
  <2>3. n \in Nat /\ m \in Nat /\ MaxIndex \in Nat
    BY DEF Indices, ConstantsOK
  <2> QED
    BY <1>3, <2>2, <2>3
<1>5. Max(S) \in S /\ \A i \in S : Max(S) >= i
  BY <1>4 DEF Max
<1> QED
  BY <1>5 DEF Indices, ConstantsOK

\* The greater of two indices.
LEMMA MaxOfTwo ==
    ASSUME NEW x \in Int, NEW y \in Int
    PROVE  Max({x, y}) \in {x, y} /\ Max({x, y}) >= x /\ Max({x, y}) >= y
<1>1. \E z \in {x, y} : \A w \in {x, y} : z >= w
  <2>1. CASE x >= y
    BY <2>1
  <2>2. CASE y >= x
    BY <2>2
  <2> QED
    BY <2>1, <2>2
<1> QED
  BY <1>1 DEF Max

-----------------------------------------------------------------------------
\* The invariant.

Typed ==
    /\ rows \in [Derived -> {"none", "unused", "used"}]
    /\ last \in [Chains -> -1..MaxIndex]
    /\ migrations \in 0..MaxMigrations
    /\ keys \in [Foreign -> {"none", "watch", "xor", "aead"}]
    /\ given \in [Derived -> Nat]
    /\ funds \in [Addresses -> 0..1]
    /\ cached \in [Addresses -> 0..1]
    /\ sync \in [phase : {"none", "listed", "fetched"}, addrs : SUBSET Addresses,
                 answer : SUBSET Addresses]
    /\ received \in 0..MaxFunds

\* Before the wallet is initialised there is nothing.
Fresh ==
    migrations = 0 =>
        /\ \A a \in Derived : rows[a] = "none" /\ given[a] = 0
        /\ sync = NoSync

\* The first addresses of both chains have rows afterwards, and only those are
\* ever unused.
Started ==
    /\ migrations > 0 => \A c \in Chains, i \in Indices : i < Gap => rows[<<c, i>>] # "none"
    /\ \A c \in Chains, i \in Indices : rows[<<c, i>>] = "unused" => i < Gap

\* What was given out is used, and so is what had a balance.
UsedRows == \A a \in Derived : given[a] > 0 \/ cached[a] > 0 => rows[a] = "used"

\* A sync asks only for addresses with a row.
SyncRows == \A a \in Derived : a \in sync.addrs \cup sync.answer => rows[a] # "none"

\* The unused rows that _trailingUnusedGap counts.
Trailing(c, next) ==
    {i \in Indices : /\ i < next /\ rows[<<c, i>>] # "none"
                     /\ \A j \in Indices : j < next /\ rows[<<c, j>>] = "used" => j < i}

\* The gap of the model is the number of rows that trail the last used one.
LEMMA GapIsTrailing ==
    ASSUME NEW c, NEW next
    PROVE  TrailingUnusedGap(c, next) = Cardinality(Trailing(c, next))
<1>1. Trailing(c, next) =
        LET Below == {i \in Indices : i < next /\ rows[<<c, i>>] # "none"}
            Used == {i \in Below : rows[<<c, i>>] = "used"}
        IN  {i \in Below : \A j \in Used : j < i}
  BY DEF Trailing
<1> QED
  BY <1>1 DEF TrailingUnusedGap

\* Until a second migration, receive addresses are given out in order or from the
\* first ones.
InOrder ==
    migrations <= 1 =>
        /\ migrations = 1 => last["ext"] >= Gap - 1
        /\ \A i \in Indices : given[<<"ext", i>>] > 0 => i <= last["ext"]
        /\ GapAboveOne => \A a \in Derived : given[a] <= 1

IInv == Typed /\ Fresh /\ Started /\ UsedRows /\ SyncRows /\ WithinGap /\ InOrder

\* The invariant holds at first.
LEMMA InvInit ==
    ASSUME ConstantsOK, Init
    PROVE  IInv
<1>1. Typed
  <2>1. PICK i \in Gap..MaxIndex + 1 : funds = [a \in Addresses |-> IF a = <<"ext", i>> THEN 1 ELSE 0]
    BY DEF Init
  <2>2. funds \in [Addresses -> 0..1] /\ cached \in [Addresses -> 0..1]
    BY <2>1 DEF Init
  <2>3. sync \in [phase : {"none", "listed", "fetched"}, addrs : SUBSET Addresses,
                  answer : SUBSET Addresses]
    BY DEF Init, NoSync
  <2>4. keys \in [Foreign -> {"none", "watch", "xor", "aead"}]
    BY DEF Init
  <2> QED
    BY <2>2, <2>3, <2>4 DEF Init, Typed, ConstantsOK
<1>2. Fresh /\ Started /\ UsedRows
  BY DEF Init, Fresh, Started, UsedRows, Derived, Addresses
<1>3. SyncRows
  BY DEF Init, SyncRows, NoSync
<1>4. WithinGap /\ InOrder
  BY DEF Init, WithinGap, InOrder, Derived, Chains
<1> QED
  BY <1>1, <1>2, <1>3, <1>4 DEF IInv

\* A set of indices is finite, and a smaller set has no more of them.
LEMMA TrailingSize ==
    ASSUME ConstantsOK, NEW S \in SUBSET Indices
    PROVE  /\ Cardinality(S) \in Nat
           /\ \A R \in SUBSET S : Cardinality(R) \in Nat /\ Cardinality(R) <= Cardinality(S)
<1>1. IsFiniteSet(Indices)
  BY FS_Interval DEF Indices, ConstantsOK
<1>2. IsFiniteSet(S)
  BY <1>1, FS_Subset
<1> QED
  BY <1>2, FS_Subset, FS_CardinalityType

\* Rows that only become used, and no row that becomes unused, leave what was given
\* out within the gap.
LEMMA GapKept ==
    ASSUME ConstantsOK, IInv, NEW i \in Indices, TrailingUnusedGap("ext", i) < Gap,
           \A j \in Indices : \/ rows'[<<"ext", j>>] = rows[<<"ext", j>>]
                              \/ rows'[<<"ext", j>>] = "used"
    PROVE  TrailingUnusedGap("ext", i)' < Gap
<1>1. Trailing("ext", i)' \subseteq Trailing("ext", i)
  <2>1. SUFFICES ASSUME NEW k \in Indices, k < i, rows'[<<"ext", k>>] # "none",
                        \A j \in Indices : j < i /\ rows'[<<"ext", j>>] = "used" => j < k
                 PROVE  k \in Trailing("ext", i)
    BY DEF Trailing
  <2>2. rows'[<<"ext", k>>] # "used"
    BY <2>1 DEF Indices, ConstantsOK
  <2>3. rows[<<"ext", k>>] # "none"
    BY <2>1, <2>2
  <2>4. \A j \in Indices : rows[<<"ext", j>>] = "used" => rows'[<<"ext", j>>] = "used"
    OBVIOUS
  <2> QED
    BY <2>1, <2>3, <2>4 DEF Trailing
<1>2. Trailing("ext", i) \in SUBSET Indices /\ Trailing("ext", i)' \in SUBSET Indices
  BY DEF Trailing
<1>3. Cardinality(Trailing("ext", i)') <= Cardinality(Trailing("ext", i))
  BY <1>1, <1>2, TrailingSize
<1>4. TrailingUnusedGap("ext", i) = Cardinality(Trailing("ext", i))
  BY GapIsTrailing
<1>5. TrailingUnusedGap("ext", i)' = Cardinality(Trailing("ext", i)')
  <2>1. Trailing("ext", i)' =
          LET Below == {k \in Indices : k < i /\ rows'[<<"ext", k>>] # "none"}
              Used == {k \in Below : rows'[<<"ext", k>>] = "used"}
          IN  {k \in Below : \A j \in Used : j < k}
    BY DEF Trailing
  <2> QED
    BY <2>1 DEF TrailingUnusedGap
<1>6. Cardinality(Trailing("ext", i)) \in Nat /\ Cardinality(Trailing("ext", i)') \in Nat /\ Gap \in Nat
  BY <1>2, TrailingSize DEF ConstantsOK
<1> QED
  BY <1>3, <1>4, <1>5, <1>6

\* A step that gives nothing out and only turns rows into used ones leaves every
\* given address within the gap.
LEMMA GapKeptByUse ==
    ASSUME ConstantsOK, IInv, given' = given,
           \A j \in Indices : \/ rows'[<<"ext", j>>] = rows[<<"ext", j>>]
                              \/ rows'[<<"ext", j>>] = "used"
    PROVE  WithinGap'
<1>1. SUFFICES ASSUME NEW i \in Indices, given[<<"ext", i>>] > 0
               PROVE  TrailingUnusedGap("ext", i)' < Gap
  BY DEF WithinGap
<1>2. TrailingUnusedGap("ext", i) < Gap
  BY <1>1 DEF IInv, WithinGap
<1> QED
  BY <1>2, GapKept

\* The same for a step that does not touch the rows.
LEMMA GapKeptUnchanged ==
    ASSUME ConstantsOK, IInv, given' = given, rows' = rows
    PROVE  WithinGap'
BY GapKeptByUse

-----------------------------------------------------------------------------
\* One lemma per action.

\* runMigration: the first addresses are derived, or the rows are kept.
LEMMA MigrationStep ==
    ASSUME ConstantsOK, IInv, RunMigration
    PROVE  IInv'
<1>0. Gap \in Nat \ {0} /\ MaxIndex \in Nat /\ MaxIndex >= Gap /\ MaxMigrations \in Nat
      /\ migrations \in 0..MaxMigrations
  BY DEF ConstantsOK, IInv, Typed
<1>1. Typed'
  <2>1. rows' \in [Derived -> {"none", "unused", "used"}]
    BY DEF RunMigration, IInv, Typed
  <2>2. last' \in [Chains -> -1..MaxIndex]
    BY <1>0 DEF RunMigration
  <2>3. migrations' \in 0..MaxMigrations
    BY <1>0 DEF RunMigration
  <2> QED
    BY <2>1, <2>2, <2>3 DEF RunMigration, IInv, Typed
<1>2. Fresh'
  BY <1>0 DEF RunMigration, Fresh
<1>3. \A c \in Chains, i \in Indices :
        rows'[<<c, i>>] = IF i < Gap /\ rows[<<c, i>>] = "none" THEN "unused" ELSE rows[<<c, i>>]
  BY DEF RunMigration, Derived
<1>4. Started'
  BY <1>0, <1>3 DEF IInv, Started
<1>5. UsedRows'
  <2>1. \A a \in Derived : rows[a] = "used" => rows'[a] = "used"
    BY DEF RunMigration
  <2> QED
    BY <2>1 DEF IInv, UsedRows, RunMigration
<1>6. SyncRows'
  <2>1. \A a \in Derived : rows[a] # "none" => rows'[a] # "none"
    BY DEF RunMigration
  <2> QED
    BY <2>1 DEF IInv, SyncRows, RunMigration
<1>7. WithinGap'
  <2>1. CASE migrations = 0
    <3>1. \A i \in Indices : given'[<<"ext", i>>] = 0
      BY <2>1 DEF IInv, Fresh, RunMigration, Derived, Chains
    <3> QED
      BY <3>1 DEF WithinGap
  <2>2. CASE migrations > 0
    <3>1. \A j \in Indices : rows'[<<"ext", j>>] = rows[<<"ext", j>>]
      BY <1>3, <2>2 DEF IInv, Started, Chains
    <3> QED
      BY <3>1, GapKeptByUse DEF RunMigration
  <2> QED
    BY <1>0, <2>1, <2>2
<1>8. InOrder'
  <2>1. CASE migrations = 0
    <3>1. \A a \in Derived : given'[a] = 0
      BY <2>1 DEF IInv, Fresh, RunMigration
    <3>2. \A i \in Indices : given'[<<"ext", i>>] = 0
      BY <3>1 DEF Derived, Chains
    <3>3. last'["ext"] = Gap - 1
      BY DEF RunMigration, Chains
    <3> QED
      BY <1>0, <3>1, <3>2, <3>3 DEF InOrder
  <2>2. CASE migrations > 0
    BY <1>0, <2>2 DEF InOrder, RunMigration
  <2> QED
    BY <1>0, <2>1, <2>2
<1> QED
  BY <1>1, <1>2, <1>4, <1>5, <1>6, <1>7, <1>8 DEF IInv

\* What giving out an address that has not been given out before does; the gap
\* and the order are for the caller to show.
LEMMA GiveStep ==
    ASSUME ConstantsOK, IInv, migrations > 0, NEW a \in Derived, Give(a),
           UNCHANGED <<migrations, keys, funds, cached, sync, received>>,
           last' \in [Chains -> -1..MaxIndex]
    PROVE  /\ Typed' /\ Fresh' /\ Started' /\ UsedRows' /\ SyncRows'
           /\ given[a] \in Nat /\ given'[a] = given[a] + 1
           /\ \A b \in Derived : b # a => given'[b] = given[b] /\ rows'[b] = rows[b]
           /\ rows'[a] = "used"
<1>1. /\ rows \in [Derived -> {"none", "unused", "used"}]
      /\ given \in [Derived -> Nat]
      /\ migrations \in 0..MaxMigrations
  BY DEF IInv, Typed
<1>2. /\ rows' \in [Derived -> {"none", "unused", "used"}]
      /\ given' \in [Derived -> Nat]
      /\ \A b \in Derived : rows'[b] = IF b = a THEN "used" ELSE rows[b]
      /\ \A b \in Derived : given'[b] = IF b = a THEN given[a] + 1 ELSE given[b]
  BY <1>1 DEF Give
<1>3. Typed'
  BY <1>2 DEF IInv, Typed
<1>4. Fresh'
  BY DEF Fresh, ConstantsOK
<1>5. Started'
  <2>1. \A c \in Chains, i \in Indices : <<c, i>> \in Derived
    BY DEF Derived
  <2> QED
    BY <1>2, <2>1 DEF IInv, Started
<1>6. UsedRows'
  BY <1>2 DEF IInv, UsedRows
<1>7. SyncRows'
  BY <1>2 DEF IInv, SyncRows
<1> QED
  BY <1>1, <1>2, <1>3, <1>4, <1>5, <1>6, <1>7

\* Every unused row can be reused: one with a cached balance would be used.
LEMMA UnusedIsReusable ==
    ASSUME ConstantsOK, IInv
    PROVE  \A i \in Indices : i \in Reusable("ext") <=> rows[<<"ext", i>>] = "unused"
<1>1. \A i \in Indices : <<"ext", i>> \in Derived /\ <<"ext", i>> \in Addresses
  BY DEF Derived, Chains, Addresses
<1>2. \A i \in Indices : cached[<<"ext", i>>] \in 0..1
  BY <1>1 DEF IInv, Typed
<1>3. \A i \in Indices : rows[<<"ext", i>>] = "unused" => ~(cached[<<"ext", i>>] > 0)
  BY <1>1 DEF IInv, UsedRows
<1>4. \A i \in Indices : rows[<<"ext", i>>] = "unused" => cached[<<"ext", i>>] = 0
  BY <1>2, <1>3
<1> QED
  BY <1>4 DEF Reusable

\* A given address keeps its distance when another one is given out.
LEMMA GapKeptByGive ==
    ASSUME ConstantsOK, IInv, NEW n \in Indices, rows'[<<"ext", n>>] = "used",
           \A j \in Indices : j # n => /\ rows'[<<"ext", j>>] = rows[<<"ext", j>>]
                                      /\ given'[<<"ext", j>>] = given[<<"ext", j>>],
           TrailingUnusedGap("ext", n)' < Gap
    PROVE  WithinGap'
<1>1. SUFFICES ASSUME NEW i \in Indices, given'[<<"ext", i>>] > 0, i # n
               PROVE  TrailingUnusedGap("ext", i)' < Gap
  BY DEF WithinGap
<1>2. TrailingUnusedGap("ext", i) < Gap
  BY <1>1 DEF IInv, WithinGap
<1> QED
  BY <1>2, GapKept

\* Nothing trails an address when no row before it is unused.
LEMMA NothingTrails ==
    ASSUME ConstantsOK, NEW n \in Indices,
           \A j \in Indices : j < n /\ rows'[<<"ext", j>>] # "none"
                                => rows'[<<"ext", j>>] = "used"
    PROVE  TrailingUnusedGap("ext", n)' < Gap
<1> DEFINE Below == {i \in Indices : i < n /\ rows'[<<"ext", i>>] # "none"}
           Used == {i \in Below : rows'[<<"ext", i>>] = "used"}
           Counted == {i \in Below : \A j \in Used : j < i}
<1>1. Counted = {}
  <2>1. SUFFICES ASSUME NEW i \in Counted PROVE FALSE
    OBVIOUS
  <2>2. i \in Used /\ i \in Indices
    BY <2>1
  <2>3. i < i
    BY <2>1, <2>2
  <2> QED
    BY <2>2, <2>3 DEF Indices, ConstantsOK
<1>2. TrailingUnusedGap("ext", n)' = Cardinality(Counted)
  BY DEF TrailingUnusedGap
<1>3. Cardinality(Counted) = 0
  BY <1>1, FS_EmptySet
<1> QED
  BY <1>2, <1>3 DEF ConstantsOK

\* At the gap limit: the lowest unused address has no unused one before it.
LEMMA ReuseStep ==
    ASSUME ConstantsOK, IInv, migrations > 0, Reusable("ext") # {},
           Give(<<"ext", Min(Reusable("ext"))>>),
           UNCHANGED <<last, migrations, keys, funds, cached, sync, received>>
    PROVE  IInv'
<1>0. PICK n : n = Min(Reusable("ext"))
  OBVIOUS
<1> DEFINE a == <<"ext", n>>
<1>1. n \in Reusable("ext") /\ \A i \in Reusable("ext") : n <= i
  BY <1>0, MinIndex DEF Reusable
<1>2. n \in Indices
  BY <1>1 DEF Reusable
<1>3. a \in Derived
  BY <1>2 DEF Derived, Chains
<1>4. /\ Typed' /\ Fresh' /\ Started' /\ UsedRows' /\ SyncRows'
      /\ given[a] \in Nat /\ given'[a] = given[a] + 1
      /\ \A b \in Derived : b # a => given'[b] = given[b] /\ rows'[b] = rows[b]
      /\ rows'[a] = "used"
  <2>1. Give(a) /\ last' \in [Chains -> -1..MaxIndex]
    BY <1>0 DEF IInv, Typed
  <2> QED
    BY <1>3, <2>1, GiveStep
<1>5. given[a] = 0
  <2>1. rows[a] = "unused"
    BY <1>1, <1>2, UnusedIsReusable
  <2> QED
    BY <1>3, <1>4, <2>1 DEF IInv, UsedRows
<1>6. \A j \in Indices : <<"ext", j>> \in Derived /\ (j # n => <<"ext", j>> # a)
  BY DEF Derived, Chains
<1>7. WithinGap'
  <2>1. \A j \in Indices : j < n /\ rows'[<<"ext", j>>] # "none" => rows'[<<"ext", j>>] = "used"
    <3>1. SUFFICES ASSUME NEW j \in Indices, j < n, rows'[<<"ext", j>>] # "none"
                   PROVE  rows'[<<"ext", j>>] = "used"
      OBVIOUS
    <3>2. j # n /\ ~(n <= j)
      BY <1>2, <3>1 DEF Indices, ConstantsOK
    <3>3. rows[<<"ext", j>>] # "unused"
      BY <1>1, <3>2, UnusedIsReusable
    <3>4. rows'[<<"ext", j>>] = rows[<<"ext", j>>]
      BY <1>4, <1>6, <3>2
    <3>5. rows[<<"ext", j>>] \in {"none", "unused", "used"}
      BY <1>6 DEF IInv, Typed
    <3> QED
      BY <3>1, <3>3, <3>4, <3>5
  <2>2. TrailingUnusedGap("ext", n)' < Gap
    BY <1>2, <2>1, NothingTrails
  <2> QED
    BY <1>2, <1>4, <1>6, <2>2, GapKeptByGive
<1>8. InOrder'
  <2>1. SUFFICES ASSUME migrations <= 1
                 PROVE  /\ migrations = 1 => last["ext"] >= Gap - 1
                        /\ \A i \in Indices : given'[<<"ext", i>>] > 0 => i <= last["ext"]
                        /\ GapAboveOne => \A b \in Derived : given'[b] <= 1
    BY DEF InOrder
  <2>2. migrations = 1 /\ last["ext"] >= Gap - 1
    BY <2>1 DEF IInv, Typed, InOrder, ConstantsOK
  <2>3. n <= last["ext"]
    <3>1. n < Gap
      BY <1>1, <1>2, UnusedIsReusable DEF IInv, Started, Chains
    <3>2. last["ext"] \in Int /\ n \in Int /\ Gap \in Int
      BY <1>2 DEF IInv, Typed, Chains, Indices, ConstantsOK
    <3> QED
      BY <2>2, <3>1, <3>2
  <2>4. \A i \in Indices : given'[<<"ext", i>>] > 0 => i <= last["ext"]
    <3>1. SUFFICES ASSUME NEW i \in Indices, given'[<<"ext", i>>] > 0, i # n
                   PROVE  i <= last["ext"]
      BY <2>3
    <3>2. given[<<"ext", i>>] > 0
      BY <1>4, <1>6, <3>1
    <3> QED
      BY <2>1, <3>2 DEF IInv, InOrder
  <2>5. GapAboveOne => \A b \in Derived : given'[b] <= 1
    BY <1>4, <1>5, <2>1 DEF IInv, InOrder
  <2> QED
    BY <2>2, <2>4, <2>5
<1> QED
  BY <1>4, <1>7, <1>8 DEF IInv

\* Otherwise the next address is given out, with its row or a new one.
LEMMA NextAddressStep ==
    ASSUME ConstantsOK, IInv, migrations > 0, ~AtGapLimit("ext", last["ext"] + 1),
           last["ext"] + 1 <= MaxIndex, Give(<<"ext", last["ext"] + 1>>),
           last' = [last EXCEPT !["ext"] = last["ext"] + 1],
           UNCHANGED <<migrations, keys, funds, cached, sync, received>>
    PROVE  IInv'
<1>0. PICK n : n = last["ext"] + 1
  OBVIOUS
<1> DEFINE a == <<"ext", n>>
<1>1. last["ext"] \in -1..MaxIndex /\ MaxIndex \in Nat /\ Gap \in Nat \ {0}
  BY DEF IInv, Typed, Chains, ConstantsOK
<1>2. n \in Indices
  BY <1>0, <1>1 DEF Indices
<1>3. a \in Derived
  BY <1>2 DEF Derived, Chains
<1>a. last'["ext"] = n
  BY <1>0 DEF IInv, Typed, Chains
<1>4. /\ Typed' /\ Fresh' /\ Started' /\ UsedRows' /\ SyncRows'
      /\ given[a] \in Nat /\ given'[a] = given[a] + 1
      /\ \A b \in Derived : b # a => given'[b] = given[b] /\ rows'[b] = rows[b]
      /\ rows'[a] = "used"
  <2>1. last' \in [Chains -> -1..MaxIndex]
    <3>1. last["ext"] + 1 \in -1..MaxIndex
      BY <1>1
    <3>2. last \in [Chains -> -1..MaxIndex]
      BY DEF IInv, Typed
    <3> QED
      BY <3>1, <3>2
  <2> QED
    BY <1>0, <1>3, <2>1, GiveStep
<1>5. \A j \in Indices : <<"ext", j>> \in Derived /\ (j # n => <<"ext", j>> # a)
  BY DEF Derived, Chains
<1>6. WithinGap'
  <2>1. TrailingUnusedGap("ext", n)' < Gap
    <3>1. CASE Reusable("ext") = {}
      <4>1. \A j \in Indices : j < n /\ rows'[<<"ext", j>>] # "none"
                                => rows'[<<"ext", j>>] = "used"
        <5>1. SUFFICES ASSUME NEW j \in Indices, j < n, rows'[<<"ext", j>>] # "none"
                       PROVE  rows'[<<"ext", j>>] = "used"
          OBVIOUS
        <5>2. j # n
          BY <5>1 DEF Indices
        <5>3. rows'[<<"ext", j>>] = rows[<<"ext", j>>] /\ rows[<<"ext", j>>] \in {"none", "unused", "used"}
          BY <1>4, <1>5, <5>2 DEF IInv, Typed
        <5>4. rows[<<"ext", j>>] # "unused"
          BY <3>1, UnusedIsReusable
        <5> QED
          BY <5>1, <5>3, <5>4
      <4> QED
        BY <1>2, <4>1, NothingTrails
    <3>2. CASE ~(TrailingUnusedGap("ext", last["ext"] + 1) + 1 >= Gap)
      <4>1. TrailingUnusedGap("ext", n) = Cardinality(Trailing("ext", n))
        BY GapIsTrailing
      <4>2. TrailingUnusedGap("ext", n) \in Nat
        BY <4>1, TrailingSize DEF Trailing
      <4>3. TrailingUnusedGap("ext", n) < Gap
        BY <1>0, <1>1, <3>2, <4>2
      <4>4. \A j \in Indices : \/ rows'[<<"ext", j>>] = rows[<<"ext", j>>]
                               \/ rows'[<<"ext", j>>] = "used"
        BY <1>4, <1>5
      <4> QED
        BY <1>2, <4>3, <4>4, GapKept
    <3> QED
      BY <3>1, <3>2 DEF AtGapLimit
  <2> QED
    BY <1>2, <1>4, <1>5, <2>1, GapKeptByGive
<1>7. InOrder'
  <2>1. SUFFICES ASSUME migrations <= 1
                 PROVE  /\ migrations = 1 => n >= Gap - 1
                        /\ \A i \in Indices : given'[<<"ext", i>>] > 0 => i <= n
                        /\ GapAboveOne => \A b \in Derived : given'[b] <= 1
    BY <1>a DEF InOrder
  <2>2. migrations = 1 /\ last["ext"] >= Gap - 1
    BY <2>1 DEF IInv, Typed, InOrder, ConstantsOK
  <2>3. \A i \in Indices : given[<<"ext", i>>] > 0 => i <= last["ext"]
    BY <2>1 DEF IInv, InOrder
  <2>4. given[a] = 0
    BY <1>0, <1>1, <1>2, <1>4, <2>3
  <2>5. \A i \in Indices : given'[<<"ext", i>>] > 0 => i <= n
    <3>1. SUFFICES ASSUME NEW i \in Indices, given'[<<"ext", i>>] > 0, i # n
                   PROVE  i <= n
      BY <1>2 DEF Indices
    <3>2. given[<<"ext", i>>] > 0
      BY <1>4, <1>5, <3>1
    <3> QED
      BY <1>0, <1>1, <2>3, <3>2 DEF Indices
  <2>6. GapAboveOne => \A b \in Derived : given'[b] <= 1
    BY <1>4, <2>1, <2>4 DEF IInv, InOrder
  <2> QED
    BY <1>0, <1>1, <2>2, <2>5, <2>6
<1> QED
  BY <1>4, <1>6, <1>7 DEF IInv

\* getNewAddress gives out the next address, or at the gap limit an unused one.
LEMMA AddressStep ==
    ASSUME ConstantsOK, IInv, GetNewAddress
    PROVE  IInv'
<1>1. CASE /\ AtGapLimit("ext", last["ext"] + 1)
           /\ Give(<<"ext", Min(Reusable("ext"))>>)
           /\ UNCHANGED last
  BY <1>1, ReuseStep DEF GetNewAddress, AtGapLimit
<1>2. CASE /\ ~AtGapLimit("ext", last["ext"] + 1)
           /\ last["ext"] + 1 <= MaxIndex
           /\ Give(<<"ext", last["ext"] + 1>>)
           /\ last' = [last EXCEPT !["ext"] = last["ext"] + 1]
  BY <1>2, NextAddressStep DEF GetNewAddress
<1> QED
  BY <1>1, <1>2 DEF GetNewAddress

\* The next change address has no row yet, once the first ones are derived.
LEMMA InternalIsNew ==
    ASSUME ConstantsOK, IInv, GapAboveOne, migrations > 0, NextInternal <= MaxIndex
    PROVE  rows[<<"int", NextInternal>>] = "none"
<1> DEFINE I == {i \in Indices : rows[<<"int", i>>] # "none"}
<1>1. 0 \in I /\ 1 \in I
  <2>1. 0 \in Indices /\ 1 \in Indices /\ 0 < Gap /\ 1 < Gap
    BY DEF Indices, ConstantsOK, GapAboveOne
  <2>2. \A i \in Indices : i < Gap => rows[<<"int", i>>] # "none"
    BY DEF IInv, Started, Chains
  <2> QED
    BY <2>1, <2>2
<1>2. Max(I) \in I /\ \A i \in I : i <= Max(I)
  BY <1>1, MaxIndexOf
<1>3. NextInternal = Max(I) + 1
  BY <1>1 DEF NextInternal
<1> HIDE DEF I
<1>4. Max(I) \in Indices
  BY <1>2 DEF I
<1>5. NextInternal \in Indices /\ NextInternal \notin I
  BY <1>2, <1>3, <1>4 DEF Indices, ConstantsOK
<1> QED
  BY <1>5 DEF I

\* A change address: the receive addresses are as they were.
LEMMA ChangeStep ==
    ASSUME ConstantsOK, IInv, GetNewInternalAddress
    PROVE  IInv'
<1>0. PICK n : n = NextInternal
  OBVIOUS
<1> DEFINE a == <<"int", n>>
<1>1. n \in Indices
  <2> DEFINE I == {i \in Indices : rows[<<"int", i>>] # "none"}
  <2>1. CASE I = {} \/ I = {0}
    BY <1>0, <2>1 DEF NextInternal, Indices, ConstantsOK
  <2>2. CASE ~(I = {} \/ I = {0})
    <3>1. Max(I) \in Indices
      BY <2>2, MaxIndexOf
    <3>2. n = Max(I) + 1 /\ n <= MaxIndex
      BY <1>0, <2>2 DEF NextInternal, GetNewInternalAddress
    <3> QED
      BY <3>1, <3>2 DEF Indices, ConstantsOK
  <2> QED
    BY <2>1, <2>2
<1>2. a \in Derived
  BY <1>1 DEF Derived, Chains
<1>3. /\ Typed' /\ Fresh' /\ Started' /\ UsedRows' /\ SyncRows'
      /\ given[a] \in Nat /\ given'[a] = given[a] + 1
      /\ \A b \in Derived : b # a => given'[b] = given[b] /\ rows'[b] = rows[b]
      /\ rows'[a] = "used"
  <2>1. last' \in [Chains -> -1..MaxIndex]
    BY DEF GetNewInternalAddress, IInv, Typed
  <2> QED
    BY <1>0, <1>2, <2>1, GiveStep DEF GetNewInternalAddress
<1>4. \A j \in Indices : /\ given'[<<"ext", j>>] = given[<<"ext", j>>]
                         /\ rows'[<<"ext", j>>] = rows[<<"ext", j>>]
  <2>1. \A j \in Indices : <<"ext", j>> \in Derived /\ <<"ext", j>> # a
    BY DEF Derived, Chains
  <2> QED
    BY <1>3, <2>1
<1>5. WithinGap'
  <2>1. SUFFICES ASSUME NEW i \in Indices, given[<<"ext", i>>] > 0
                 PROVE  TrailingUnusedGap("ext", i)' < Gap
    BY <1>4 DEF WithinGap
  <2>2. TrailingUnusedGap("ext", i) < Gap
    BY <2>1 DEF IInv, WithinGap
  <2> QED
    BY <1>4, <2>2, GapKept
<1>6. InOrder'
  <2>1. SUFFICES ASSUME migrations <= 1
                 PROVE  /\ migrations = 1 => last["ext"] >= Gap - 1
                        /\ \A i \in Indices : given'[<<"ext", i>>] > 0 => i <= last["ext"]
                        /\ GapAboveOne => \A b \in Derived : given'[b] <= 1
    BY DEF InOrder, GetNewInternalAddress
  <2>2. GapAboveOne => given[a] = 0
    BY <1>0, <1>2, <1>3, InternalIsNew DEF IInv, UsedRows, GetNewInternalAddress
  <2>3. GapAboveOne => \A b \in Derived : given'[b] <= 1
    BY <1>3, <2>1, <2>2 DEF IInv, InOrder
  <2> QED
    BY <1>4, <2>1, <2>3 DEF IInv, InOrder
<1> QED
  BY <1>3, <1>5, <1>6 DEF IInv

\* An address found on the chain: the index only grows.
LEMMA ImportStep ==
    ASSUME ConstantsOK, IInv, NEW a \in Derived, ImportAddress(a)
    PROVE  IInv'
<1>1. PICK c \in Chains, i \in Indices : a = <<c, i>>
  BY DEF Derived
<1>2. last[c] \in Int /\ i \in Int /\ a[1] = c /\ a[2] = i
  BY <1>1 DEF IInv, Typed, Indices, ConstantsOK
<1>3. Max({last[c], i}) \in {last[c], i} /\ Max({last[c], i}) >= last[c]
  BY <1>2, MaxOfTwo
<1>4. Max({last[c], i}) \in -1..MaxIndex
  BY <1>3 DEF IInv, Typed, Indices, ConstantsOK
<1>5. \A d \in Chains : last'[d] = IF d = c THEN Max({last[c], i}) ELSE last[d]
  BY <1>1, <1>2 DEF ImportAddress, IInv, Typed
<1>6. /\ \A b \in Derived : rows'[b] = IF b = a THEN "used" ELSE rows[b]
      /\ \A b \in Addresses : cached'[b] = IF b = a THEN 1 ELSE cached[b]
  BY DEF ImportAddress, IInv, Typed
<1>7. Typed'
  <2>1. rows' \in [Derived -> {"none", "unused", "used"}]
    BY DEF ImportAddress, IInv, Typed
  <2>2. cached' \in [Addresses -> 0..1]
    <3>1. cached \in [Addresses -> 0..1] /\ 1 \in 0..1
      BY DEF IInv, Typed
    <3>2. cached' = [cached EXCEPT ![a] = 1]
      BY DEF ImportAddress
    <3> QED
      BY <3>1, <3>2
  <2>3. last' \in [Chains -> -1..MaxIndex]
    <3>1. last' = [last EXCEPT ![c] = Max({last[c], i})]
      BY <1>2 DEF ImportAddress
    <3>2. last \in [Chains -> -1..MaxIndex]
      BY DEF IInv, Typed
    <3> QED
      BY <1>4, <3>1, <3>2
  <2> QED
    BY <2>1, <2>2, <2>3 DEF ImportAddress, IInv, Typed
<1>8. Fresh'
  BY DEF Fresh, ImportAddress, ConstantsOK
<1>9. Started'
  <2>1. \A d \in Chains, j \in Indices : <<d, j>> \in Derived
    BY DEF Derived
  <2> QED
    BY <1>6, <2>1 DEF IInv, Started, ImportAddress
<1>10. UsedRows'
  <2>1. \A b \in Derived : b \in Addresses
    BY DEF Addresses
  <2> QED
    BY <1>6, <2>1 DEF IInv, UsedRows, ImportAddress
<1>11. SyncRows'
  BY <1>6 DEF IInv, SyncRows, ImportAddress
<1>12. WithinGap'
  <2>1. \A j \in Indices : <<"ext", j>> \in Derived
    BY DEF Derived, Chains
  <2>2. \A j \in Indices : \/ rows'[<<"ext", j>>] = rows[<<"ext", j>>]
                           \/ rows'[<<"ext", j>>] = "used"
    BY <1>6, <2>1
  <2> QED
    BY <2>2, GapKeptByUse DEF ImportAddress
<1>13. InOrder'
  <2>1. last'["ext"] >= last["ext"] /\ last["ext"] \in Int /\ last'["ext"] \in Int
    BY <1>3, <1>4, <1>5 DEF Chains, IInv, Typed
  <2>2. SUFFICES ASSUME migrations <= 1
                 PROVE  /\ migrations = 1 => last'["ext"] >= Gap - 1
                        /\ \A j \in Indices : given[<<"ext", j>>] > 0 => j <= last'["ext"]
                        /\ GapAboveOne => \A b \in Derived : given[b] <= 1
    BY DEF InOrder, ImportAddress
  <2>3. \A j \in Indices : j \in Int
    BY DEF Indices, ConstantsOK
  <2>4. Gap \in Int
    BY DEF ConstantsOK
  <2> QED
    BY <2>1, <2>2, <2>3, <2>4 DEF IInv, InOrder
<1> QED
  BY <1>7, <1>8, <1>9, <1>10, <1>11, <1>12, <1>13 DEF IInv

\* Steps that leave the rows, the indices and what was given out alone.
LEMMA OtherStep ==
    ASSUME ConstantsOK, IInv, UNCHANGED <<rows, last, migrations, given, cached>>,
           Typed', SyncRows', Fresh'
    PROVE  IInv'
<1>1. Started' /\ UsedRows'
  BY DEF IInv, Started, UsedRows
<1>2. WithinGap'
  BY GapKeptUnchanged
<1>3. InOrder'
  BY DEF IInv, InOrder
<1> QED
  BY <1>1, <1>2, <1>3 DEF IInv

\* Keys are imported or upgraded.
LEMMA KeyStep ==
    ASSUME ConstantsOK, IInv, NEW f \in Foreign,
           ImportWatchOnlyAddress(f) \/ ImportAddressWithKey(f) \/ GetPrivateKey(f)
    PROVE  IInv'
<1>1. keys' \in [Foreign -> {"none", "watch", "xor", "aead"}]
  <2>1. keys \in [Foreign -> {"none", "watch", "xor", "aead"}]
    BY DEF IInv, Typed
  <2> QED
    BY <2>1 DEF ImportWatchOnlyAddress, ImportAddressWithKey, GetPrivateKey, Upgraded
<1>2. UNCHANGED <<rows, last, migrations, given, funds, cached, sync, received>>
  BY DEF ImportWatchOnlyAddress, ImportAddressWithKey, GetPrivateKey
<1>3. Typed' /\ SyncRows' /\ Fresh'
  BY <1>1, <1>2 DEF IInv, Typed, SyncRows, Fresh
<1> QED
  BY <1>2, <1>3, OtherStep

\* Coins come and go on the chain.
LEMMA PaymentStep ==
    ASSUME ConstantsOK, IInv, NEW a \in Addresses, Receive(a) \/ Spend(a)
    PROVE  IInv'
<1>1. funds' \in [Addresses -> 0..1] /\ received' \in 0..MaxFunds
  BY DEF IInv, Typed, Receive, Spend, ConstantsOK
<1>2. UNCHANGED <<rows, last, migrations, keys, given, cached, sync>>
  BY DEF Receive, Spend
<1>3. Typed' /\ SyncRows' /\ Fresh'
  BY <1>1, <1>2 DEF IInv, Typed, SyncRows, Fresh
<1> QED
  BY <1>2, <1>3, OtherStep

\* The first two parts of a sync: it asks for addresses with a row.
LEMMA AskStep ==
    ASSUME ConstantsOK, ForeignIsOther, IInv, SyncFetch \/ \E fundedOnly \in BOOLEAN : SyncList(fundedOnly)
    PROVE  IInv'
<1>1. UNCHANGED <<rows, last, migrations, keys, given, funds, cached, received>>
  BY DEF SyncFetch, SyncList
<1>2. NoSync \in [phase : {"none", "listed", "fetched"}, addrs : SUBSET Addresses,
                  answer : SUBSET Addresses]
      /\ NoSync.addrs = {} /\ NoSync.answer = {}
  BY DEF NoSync
<1>3. sync \in [phase : {"none", "listed", "fetched"}, addrs : SUBSET Addresses,
                answer : SUBSET Addresses]
  BY DEF IInv, Typed
<1>4. CASE SyncFetch
  <2>1. migrations # 0
    <3>1. NoSync.phase = "none" /\ sync.phase = "listed"
      BY <1>4 DEF SyncFetch, NoSync
    <3>2. sync # NoSync
      BY <3>1
    <3> QED
      BY <3>2 DEF IInv, Fresh
  <2>2. CASE sync' = NoSync
    <3>1. Typed' /\ SyncRows' /\ Fresh'
      BY <1>1, <1>2, <2>1, <2>2 DEF IInv, Typed, SyncRows, Fresh
    <3> QED
      BY <1>1, <3>1, OtherStep
  <2>3. CASE sync' = [sync EXCEPT !.phase = "fetched", !.answer = {a \in sync.addrs : funds[a] > 0}]
    <3>1. sync' \in [phase : {"none", "listed", "fetched"}, addrs : SUBSET Addresses,
                     answer : SUBSET Addresses]
          /\ sync'.addrs = sync.addrs /\ sync'.answer \subseteq sync.addrs
      BY <1>3, <2>3
    <3>2. Typed' /\ SyncRows' /\ Fresh'
      BY <1>1, <2>1, <3>1 DEF IInv, Typed, SyncRows, Fresh
    <3> QED
      BY <1>1, <3>2, OtherStep
  <2> QED
    BY <1>4, <2>2, <2>3 DEF SyncFetch
<1>5. ASSUME NEW fundedOnly \in BOOLEAN, SyncList(fundedOnly) PROVE IInv'
  <2>1. migrations # 0
    <3>1. migrations > 0
      BY <1>5 DEF SyncList
    <3> QED
      BY <3>1
  <2>2. Listed(fundedOnly) \subseteq Addresses
        /\ \A a \in Derived : a \in Listed(fundedOnly) => rows[a] # "none"
    BY DEF Listed, Addresses, ForeignIsOther
  <2>3. sync' \in [phase : {"none", "listed", "fetched"}, addrs : SUBSET Addresses,
                   answer : SUBSET Addresses]
        /\ sync'.addrs = Listed(fundedOnly) /\ sync'.answer = {}
    BY <1>2, <1>5, <2>2 DEF SyncList, NoSync
  <2>4. Typed' /\ SyncRows' /\ Fresh'
    BY <1>1, <2>1, <2>2, <2>3 DEF IInv, Typed, SyncRows, Fresh
  <2> QED
    BY <1>1, <2>4, OtherStep
<1> QED
  BY <1>4, <1>5

\* The last part: what has a balance is used, what lost it keeps its row.
LEMMA WriteStep ==
    ASSUME ConstantsOK, IInv, SyncWrite
    PROVE  IInv'
<1>1. /\ \A b \in Derived : rows'[b] = IF b \in sync.answer THEN "used" ELSE rows[b]
      /\ \A b \in Addresses : cached'[b] = IF b \notin sync.addrs THEN cached[b]
                                           ELSE IF b \in sync.answer THEN 1 ELSE 0
  BY DEF SyncWrite, CachedAfter
<1>2. migrations # 0
  <2>1. NoSync.phase = "none" /\ sync.phase = "fetched"
    BY DEF SyncWrite, NoSync
  <2>2. sync # NoSync
    BY <2>1
  <2> QED
    BY <2>2 DEF IInv, Fresh
<1>3. Typed'
  <2>1. rows' \in [Derived -> {"none", "unused", "used"}]
    BY DEF SyncWrite, IInv, Typed
  <2>2. cached' \in [Addresses -> 0..1]
    BY DEF SyncWrite, CachedAfter, IInv, Typed
  <2>3. sync' \in [phase : {"none", "listed", "fetched"}, addrs : SUBSET Addresses,
                   answer : SUBSET Addresses]
    BY DEF SyncWrite, NoSync
  <2> QED
    BY <2>1, <2>2, <2>3 DEF SyncWrite, IInv, Typed
<1>4. Fresh'
  BY <1>2 DEF Fresh, SyncWrite
<1>5. Started'
  <2>1. \A d \in Chains, j \in Indices : <<d, j>> \in Derived
    BY DEF Derived
  <2> QED
    BY <1>1, <2>1 DEF IInv, Started, SyncWrite
<1>6. UsedRows'
  <2>1. \A b \in Derived : b \in Addresses
    BY DEF Addresses
  <2> QED
    BY <1>1, <2>1 DEF IInv, UsedRows, SyncWrite
<1>7. SyncRows'
  BY DEF SyncRows, SyncWrite, NoSync
<1>8. WithinGap'
  <2>1. \A j \in Indices : <<"ext", j>> \in Derived
    BY DEF Derived, Chains
  <2>2. \A j \in Indices : \/ rows'[<<"ext", j>>] = rows[<<"ext", j>>]
                           \/ rows'[<<"ext", j>>] = "used"
    BY <1>1, <2>1
  <2> QED
    BY <2>2, GapKeptByUse DEF SyncWrite
<1>9. InOrder'
  BY DEF IInv, InOrder, SyncWrite
<1> QED
  BY <1>3, <1>4, <1>5, <1>6, <1>7, <1>8, <1>9 DEF IInv

-----------------------------------------------------------------------------
\* Every step keeps the invariant.
LEMMA InvStep ==
    ASSUME ConstantsOK, ForeignIsOther, IInv, [Next]_vars
    PROVE  IInv'
<1>1. CASE RunMigration
  BY <1>1, MigrationStep
<1>2. CASE GetNewAddress
  BY <1>2, AddressStep
<1>3. CASE GetNewInternalAddress
  BY <1>3, ChangeStep
<1>4. CASE \E a \in Derived : ImportAddress(a)
  BY <1>4, ImportStep
<1>5. CASE \E f \in Foreign : \/ ImportWatchOnlyAddress(f)
                              \/ ImportAddressWithKey(f)
                              \/ GetPrivateKey(f)
  BY <1>5, KeyStep
<1>6. CASE \E a \in Addresses : Receive(a) \/ Spend(a)
  BY <1>6, PaymentStep
<1>7. CASE SyncFetch \/ \E fundedOnly \in BOOLEAN : SyncList(fundedOnly)
  BY <1>7, AskStep
<1>8. CASE SyncWrite
  BY <1>8, WriteStep
<1>9. CASE UNCHANGED vars
  <2>1. Typed' /\ SyncRows' /\ Fresh'
    BY <1>9 DEF vars, IInv, Typed, SyncRows, Fresh
  <2> QED
    BY <1>9, <2>1, OtherStep DEF vars
<1> QED
  BY <1>1, <1>2, <1>3, <1>4, <1>5, <1>6, <1>7, <1>8, <1>9 DEF Next

\* The invariant always holds.
LEMMA InvHolds == ASSUME ConstantsOK, ForeignIsOther PROVE Spec => []IInv
<1>1. Init => IInv
  BY InvInit
<1>2. IInv /\ [Next]_vars => IInv'
  BY InvStep
<1> QED
  BY <1>1, <1>2, PTL DEF Spec

\* The state is well typed whatever the wallet does, and nothing is there before
\* it is initialised: wallet_manager.py's tables stay readable.
THEOREM TypeCorrect == ASSUME ConstantsOK, ForeignIsOther PROVE Spec => []TypeOK
<1>1. IInv => TypeOK
  BY DEF IInv, Typed, TypeOK
<1> QED
  BY <1>1, InvHolds, PTL

\* An address that was given out keeps its row, and so its key, whatever
\* migrations, imports and syncs come after: what is paid to it can be spent.
THEOREM GivenCanBeSpent == ASSUME ConstantsOK, ForeignIsOther PROVE Spec => []GivenSignable
<1>1. IInv => GivenSignable
  <2>1. SUFFICES ASSUME IInv, NEW a \in Derived, given[a] > 0 PROVE a \in Signable
    BY DEF GivenSignable
  <2>2. rows[a] = "used"
    BY <2>1 DEF IInv, UsedRows
  <2> QED
    BY <2>2 DEF Signable
<1> QED
  BY <1>1, InvHolds, PTL

\* A wallet restored from the seed, which stops after Gap unused addresses, finds
\* every receive address getNewAddress gave out: no interleaving of imports, syncs
\* and migrations puts Gap unused ones before it.
THEOREM RestoreFinds == ASSUME ConstantsOK, ForeignIsOther PROVE Spec => []WithinGap
<1>1. IInv => WithinGap
  BY DEF IInv
<1> QED
  BY <1>1, InvHolds, PTL

\* Until runMigration runs a second time no receive or change address is given out
\* twice.
THEOREM NeverReused ==
    ASSUME ConstantsOK, ForeignIsOther, GapAboveOne
    PROVE  Spec => []GivenOnce
<1>1. IInv => GivenOnce
  BY DEF IInv, InOrder, GivenOnce
<1> QED
  BY <1>1, InvHolds, PTL

\* A private key that was imported stays: importing the address again to watch it,
\* or upgrading the key's format, never turns it into a watch-only address.
THEOREM KeysAreKept == ASSUME ConstantsOK, ForeignIsOther PROVE Spec => [][KeysKept]_vars
<1>1. ASSUME IInv, [Next]_vars, keys' # keys PROVE KeysKept
  <2>1. PICK f \in Foreign : ImportWatchOnlyAddress(f) \/ ImportAddressWithKey(f) \/ GetPrivateKey(f)
    BY <1>1 DEF Next, vars, RunMigration, GetNewAddress, GetNewInternalAddress, ImportAddress,
        Receive, Spend, SyncList, SyncFetch, SyncWrite
  <2>2. keys \in [Foreign -> {"none", "watch", "xor", "aead"}]
    BY <1>1 DEF IInv, Typed
  <2> QED
    BY <2>1, <2>2 DEF KeysKept, ImportWatchOnlyAddress, ImportAddressWithKey, GetPrivateKey, Upgraded
<1>2. keys' = keys => KeysKept
  BY DEF KeysKept
<1>3. IInv /\ [Next]_vars => [KeysKept]_vars
  BY <1>1, <1>2
<1> QED
  BY <1>3, InvHolds, PTL DEF Spec

-----------------------------------------------------------------------------
(***************************************************************************)
(* The locks on outputs.                                                   *)
(***************************************************************************)

\* The lock of a bid (86400 s, btc.py) outlives the wait for its lock transaction: so do the
\* defaults of sc_lock_tx_timeout and sc_lock_tx_mempool_timeout, and any setting up to a day.
LockOutlives == AcceptTimeout <= BidLock

\* A bid between the selection of its inputs and the end of its session holds mxDB.
Sessions ==
    \A o \in Bids : u_pc[o] \in {"selected", "reserving", "checked", "funded"} => u_db = o

\* A thread between the look at its inputs and their locks holds _utxo_reserve_lock.
Reserved == \A o \in Outputs!Ops : u_pc[o] \in {"reserving", "checked"} => u_reserve = o

\* A lock that names a bid is on an input of that bid, which is not over.
Named ==
    \A u \in Utxos : u_lock[u].by # NoOp =>
        /\ u_lock[u].by \in Bids
        /\ u_pc[u_lock[u].by] \in {"funded", "accepted", "sent"}
        /\ u \in u_inputs[u_lock[u].by]

\* The inputs of a bid are unspent until the bid spends them.
Unspent ==
    \A o \in Bids :
        /\ u_pc[o] \in {"selected", "reserving", "checked", "funded", "accepted"} =>
            u_inputs[o] \cap u_spent = {}
        /\ u_pc[o] = "sent" => u_inputs[o] \subseteq u_spent

\* What a thread has looked at and not locked yet is free, or spent meanwhile.
Free ==
    \A o \in Outputs!Ops : u_pc[o] = "checked" =>
        \A u \in u_inputs[o] \ u_spent : ~Outputs!IsUTXOLocked(u)

\* The inputs of a bid are locked for it, until after it is timed out.
BidHeld ==
    \A o \in Bids : Outputs!Holding(o) =>
        /\ u_time <= u_since[o] + AcceptTimeout
        /\ \A u \in u_inputs[o] : u_lock[u].by = o /\ u_lock[u].until = u_since[o] + BidLock

\* The unspent inputs of a withdrawal are locked while it may publish, for no bid.
WithdrawalHeld ==
    \A o \in Withdrawals :
        /\ u_pc[o] # "accepted"
        /\ u_pc[o] = "funded" =>
            /\ u_time <= u_since[o] + OpLock
            /\ \A u \in u_inputs[o] \ u_spent :
                u_lock[u].by = NoOp /\ u_lock[u].until >= u_since[o] + OpLock

\* The inductive invariant.
LocksInv ==
    /\ Outputs!TypeOK
    /\ Sessions
    /\ Reserved
    /\ Named
    /\ Unspent
    /\ Free
    /\ BidHeld
    /\ WithdrawalHeld

\* What the constants say of the operations.
LEMMA OpsFacts ==
    ASSUME Outputs!ConstantsOK
    PROVE  /\ Outputs!Ops = Bids \cup Withdrawals
           /\ Bids \subseteq Outputs!Ops /\ Withdrawals \subseteq Outputs!Ops
           /\ \A o \in Outputs!Ops : o # NoOp
           /\ \A o \in Outputs!Ops : o \in Bids <=> o \notin Withdrawals
           /\ BidLock \in Nat /\ OpLock \in Nat /\ AcceptTimeout \in Nat /\ MaxTime \in Nat
           /\ BidLock > 0 /\ OpLock > 0
  BY DEF Outputs!ConstantsOK, Outputs!Ops

\* With nothing locked and no operation begun the invariant holds.
LEMMA LocksStart == ASSUME Outputs!ConstantsOK, Outputs!Init PROVE LocksInv
<1>1. Outputs!TypeOK
  BY OpsFacts DEF Outputs!Init, Outputs!TypeOK, Outputs!Locks, Outputs!NoLock, Outputs!Phases
<1> QED
  BY <1>1, OpsFacts
     DEF Outputs!Init, LocksInv, Outputs!NoLock, Outputs!Holding, Sessions, Reserved, Named,
         Unspent, Free, BidHeld, WithdrawalHeld

\* What an operation holds and is not spent is locked.
LEMMA HeldIsLocked ==
    ASSUME Outputs!ConstantsOK, LockOutlives, LocksInv, NEW o \in Outputs!Ops,
           Outputs!Holding(o), NEW u \in u_inputs[o], u \notin u_spent
    PROVE  u \in Utxos /\ Outputs!IsUTXOLocked(u)
<1>1. u \in Utxos /\ u_lock[u].until \in Int /\ u_time \in Nat
  BY DEF LocksInv, Outputs!TypeOK, Outputs!Locks
<1>2. u_lock[u].until >= u_time
  <2>1. CASE o \in Bids
    BY <1>1, <2>1, OpsFacts DEF LocksInv, BidHeld, Outputs!TypeOK, LockOutlives
  <2>2. CASE o \in Withdrawals
    BY <1>1, <2>2, OpsFacts DEF LocksInv, WithdrawalHeld, Outputs!TypeOK, Outputs!Holding
  <2> QED
    BY <2>1, <2>2, OpsFacts
<1> QED
  BY <1>1, <1>2 DEF Outputs!IsUTXOLocked, Outputs!NoLock

\* A lock on an unspent output that names a bid is held by that bid.
LEMMA NamedHolds ==
    ASSUME Outputs!ConstantsOK, LocksInv, NEW u \in Utxos, u \notin u_spent,
           u_lock[u].by # NoOp
    PROVE  u_lock[u].by \in Bids /\ Outputs!Holding(u_lock[u].by) /\ u \in u_inputs[u_lock[u].by]
  BY OpsFacts DEF LocksInv, Named, Unspent, Outputs!Holding

\* Two operations that hold outputs, one of them a bid, hold different ones.
LEMMA Disjoint ==
    ASSUME Outputs!ConstantsOK, LocksInv, NEW o \in Bids, NEW p \in Outputs!Ops, p # o,
           Outputs!Holding(o), Outputs!Holding(p)
    PROVE  u_inputs[o] \cap u_inputs[p] = {}
<1>1. SUFFICES ASSUME NEW u \in u_inputs[o], u \in u_inputs[p] PROVE FALSE
  OBVIOUS
<1>2. u \notin u_spent
  BY <1>1 DEF LocksInv, Unspent, Outputs!Holding
<1>3. u_lock[u].by = o
  BY <1>1 DEF LocksInv, BidHeld
<1>4. CASE p \in Bids
  BY <1>1, <1>3, <1>4 DEF LocksInv, BidHeld
<1>5. CASE p \in Withdrawals
  BY <1>1, <1>2, <1>3, <1>5, OpsFacts DEF LocksInv, WithdrawalHeld, Outputs!Holding
<1> QED
  BY <1>4, <1>5, OpsFacts

\* Choosing inputs: they are looked at, nothing is locked yet.
LEMMA SelectStep ==
    ASSUME Outputs!ConstantsOK, LockOutlives, LocksInv, NEW o \in Outputs!Ops,
           Outputs!Select(o)
    PROVE  LocksInv'
<1> USE OpsFacts
   DEF LocksInv, Outputs!TypeOK, Outputs!Phases, Outputs!Locks, Outputs!Select, Outputs!Goto
<1>1. Outputs!TypeOK'
  BY DEF Outputs!IsUTXOLocked
<1>2. Sessions'
  BY DEF Sessions
<1>3. Reserved'
  BY DEF Reserved
<1>4. Named'
  BY DEF Named
<1>5. Unspent'
  BY DEF Unspent
<1>6. Free'
  BY DEF Free, Outputs!IsUTXOLocked
<1>7. BidHeld'
  BY DEF BidHeld, Outputs!Holding
<1>8. WithdrawalHeld'
  BY DEF WithdrawalHeld
<1> QED
  BY <1>1, <1>2, <1>3, <1>4, <1>5, <1>6, <1>7, <1>8 DEF LocksInv

\* An operation that finds too few outputs holds nothing.
LEMMA SelectFailsStep ==
    ASSUME Outputs!ConstantsOK, LockOutlives, LocksInv, NEW o \in Outputs!Ops,
           Outputs!SelectFails(o)
    PROVE  LocksInv'
<1> USE OpsFacts
   DEF LocksInv, Outputs!TypeOK, Outputs!Phases, Outputs!Locks, Outputs!SelectFails,
       Outputs!Goto
<1>1. Outputs!TypeOK'
  BY DEF Outputs!IsUTXOLocked
<1>2. Sessions'
  BY DEF Sessions
<1>3. Reserved'
  BY DEF Reserved
<1>4. Named'
  BY DEF Named
<1>5. Unspent'
  BY DEF Unspent
<1>6. Free'
  BY DEF Free, Outputs!IsUTXOLocked
<1>7. BidHeld'
  BY DEF BidHeld, Outputs!Holding
<1>8. WithdrawalHeld'
  BY DEF WithdrawalHeld
<1> QED
  BY <1>1, <1>2, <1>3, <1>4, <1>5, <1>6, <1>7, <1>8 DEF LocksInv

\* Taking _utxo_reserve_lock, which nobody holds.
LEMMA TakeReserveStep ==
    ASSUME Outputs!ConstantsOK, LockOutlives, LocksInv, NEW o \in Outputs!Ops,
           Outputs!TakeReserve(o)
    PROVE  LocksInv'
<1> USE OpsFacts
   DEF LocksInv, Outputs!TypeOK, Outputs!Phases, Outputs!Locks, Outputs!TakeReserve,
       Outputs!Goto
<1>1. Outputs!TypeOK'
  BY DEF Outputs!IsUTXOLocked
<1>2. Sessions'
  BY DEF Sessions
<1>3. Reserved'
  BY DEF Reserved
<1>4. Named'
  BY DEF Named
<1>5. Unspent'
  BY DEF Unspent
<1>6. Free'
  BY DEF Free, Outputs!IsUTXOLocked
<1>7. BidHeld'
  BY DEF BidHeld, Outputs!Holding
<1>8. WithdrawalHeld'
  BY DEF WithdrawalHeld
<1> QED
  BY <1>1, <1>2, <1>3, <1>4, <1>5, <1>6, <1>7, <1>8 DEF LocksInv

\* The second look at the inputs under _utxo_reserve_lock: what passes it is free, and no other
\* operation can be between its look and its locks.
LEMMA CheckInputsStep ==
    ASSUME Outputs!ConstantsOK, LockOutlives, LocksInv, NEW o \in Outputs!Ops,
           Outputs!CheckInputs(o)
    PROVE  LocksInv'
<1> USE OpsFacts
   DEF LocksInv, Outputs!TypeOK, Outputs!Phases, Outputs!Locks, Outputs!CheckInputs,
       Outputs!Goto, Outputs!HasDB
<1>1. Outputs!TypeOK'
  BY DEF Outputs!IsUTXOLocked
<1>2. Sessions'
  BY DEF Sessions
<1>3. Reserved'
  BY DEF Reserved
<1>4. Named'
  BY DEF Named
<1>5. Unspent'
  BY DEF Unspent
<1>6. Free'
  BY DEF Free, Outputs!IsUTXOLocked
<1>7. BidHeld'
  BY DEF BidHeld, Outputs!Holding
<1>8. WithdrawalHeld'
  BY DEF WithdrawalHeld
<1> QED
  BY <1>1, <1>2, <1>3, <1>4, <1>5, <1>6, <1>7, <1>8 DEF LocksInv

\* lockUTXO of the inputs: they were free, so no lock that another operation relies on is replaced.
LEMMA LockInputsStep ==
    ASSUME Outputs!ConstantsOK, LockOutlives, LocksInv, NEW o \in Outputs!Ops,
           Outputs!LockInputs(o)
    PROVE  LocksInv'
<1>1. Outputs!TypeOK'
  BY OpsFacts
     DEF LocksInv, Outputs!TypeOK, Outputs!Phases, Outputs!Locks, Outputs!LockInputs,
         Outputs!Goto, Outputs!HasDB, Outputs!Until, Outputs!IsUTXOLocked
<1>2. Sessions'
  BY OpsFacts
     DEF LocksInv, Outputs!TypeOK, Outputs!Phases, Outputs!Locks, Outputs!LockInputs,
         Outputs!Goto, Outputs!HasDB, Outputs!Until, Sessions
<1>3. Reserved'
  BY OpsFacts
     DEF LocksInv, Outputs!TypeOK, Outputs!Phases, Outputs!Locks, Outputs!LockInputs,
         Outputs!Goto, Outputs!HasDB, Outputs!Until, Reserved
<1>4. Named'
  BY OpsFacts
     DEF LocksInv, Outputs!TypeOK, Outputs!Phases, Outputs!Locks, Outputs!LockInputs,
         Outputs!Goto, Outputs!HasDB, Outputs!Until, Named
<1>5. Unspent'
  BY OpsFacts
     DEF LocksInv, Outputs!TypeOK, Outputs!Phases, Outputs!Locks, Outputs!LockInputs,
         Outputs!Goto, Outputs!HasDB, Outputs!Until, Unspent
<1>6. Free'
  <2>1. SUFFICES ASSUME NEW p \in Outputs!Ops, u_pc'[p] = "checked" PROVE FALSE
    BY DEF Free
  <2>2. p # o /\ u_pc[p] = "checked"
    BY <2>1 DEF LocksInv, Outputs!TypeOK, Outputs!LockInputs, Outputs!Goto
  <2> QED
    BY <2>2 DEF LocksInv, Reserved, Outputs!LockInputs
<1>7. BidHeld'
  <2>1. ASSUME NEW p \in Outputs!Ops, p # o, Outputs!Holding(p), NEW u \in u_inputs[p], u \notin u_spent
        PROVE  u \in Utxos /\ u_lock'[u] = u_lock[u]
    BY <2>1, HeldIsLocked DEF LocksInv, Free, Outputs!LockInputs, Outputs!TypeOK

  <2>2. SUFFICES ASSUME NEW p \in Bids, Outputs!Holding(p)'
                 PROVE  /\ u_time' <= u_since'[p] + AcceptTimeout
                        /\ \A u \in u_inputs'[p] :
                            u_lock'[u].by = p /\ u_lock'[u].until = u_since'[p] + BidLock
    BY DEF BidHeld
  <2>3. CASE p = o
    BY <2>3, OpsFacts DEF LocksInv, Outputs!TypeOK, Outputs!LockInputs, Outputs!Until
  <2>4. CASE p # o
    <3>1. Outputs!Holding(p) /\ u_inputs[p] \cap u_spent = {}
      BY <2>2, <2>4, OpsFacts
         DEF LocksInv, Outputs!TypeOK, Outputs!LockInputs, Outputs!Goto, Outputs!Holding,
             Unspent
    <3>2. u_since'[p] = u_since[p] /\ u_inputs' = u_inputs /\ u_time' = u_time
      BY <2>4, OpsFacts DEF LocksInv, Outputs!TypeOK, Outputs!LockInputs
    <3>3. \A u \in u_inputs[p] : u_lock'[u] = u_lock[u]
      BY <2>1, <2>4, <3>1, OpsFacts
    <3> QED
      BY <3>1, <3>2, <3>3 DEF LocksInv, BidHeld
  <2> QED
    BY <2>3, <2>4
<1>8. WithdrawalHeld'
  <2>1. ASSUME NEW p \in Outputs!Ops, p # o, Outputs!Holding(p), NEW u \in u_inputs[p], u \notin u_spent
        PROVE  u \in Utxos /\ u_lock'[u] = u_lock[u]
    BY <2>1, HeldIsLocked DEF LocksInv, Free, Outputs!LockInputs, Outputs!TypeOK

  <2>2. SUFFICES ASSUME NEW p \in Withdrawals
                 PROVE  /\ u_pc'[p] # "accepted"
                        /\ u_pc'[p] = "funded" =>
                            /\ u_time' <= u_since'[p] + OpLock
                            /\ \A u \in u_inputs'[p] \ u_spent' :
                                u_lock'[u].by = NoOp /\ u_lock'[u].until >= u_since'[p] + OpLock
    BY DEF WithdrawalHeld
  <2>3. CASE p = o
    BY <2>3, OpsFacts
       DEF LocksInv, Outputs!TypeOK, Outputs!LockInputs, Outputs!Goto, Outputs!Until
  <2>4. CASE p # o
    <3>1. u_since'[p] = u_since[p] /\ u_inputs' = u_inputs /\ u_time' = u_time /\ u_spent' = u_spent
          /\ u_pc'[p] = u_pc[p]
      BY <2>4, OpsFacts DEF LocksInv, Outputs!TypeOK, Outputs!LockInputs, Outputs!Goto
    <3>2. u_pc[p] = "funded" => \A u \in u_inputs[p] \ u_spent : u_lock'[u] = u_lock[u]
      BY <2>1, <2>4, OpsFacts DEF Outputs!Holding
    <3> QED
      BY <3>1, <3>2 DEF LocksInv, WithdrawalHeld
  <2> QED
    BY <2>3, <2>4
<1> QED
  BY <1>1, <1>2, <1>3, <1>4, <1>5, <1>6, <1>7, <1>8 DEF LocksInv

\* Publishing: what is spent now was in the inputs of no accepted bid but this one.
LEMMA PublishStep ==
    ASSUME Outputs!ConstantsOK, LockOutlives, LocksInv, NEW o \in Outputs!Ops,
           Outputs!Publish(o)
    PROVE  LocksInv'
<1>1. Outputs!TypeOK'
  BY OpsFacts
     DEF LocksInv, Outputs!TypeOK, Outputs!Phases, Outputs!Locks, Outputs!Publish,
         Outputs!Goto, Outputs!IsUTXOLocked
<1>2. Sessions'
  BY OpsFacts
     DEF LocksInv, Outputs!TypeOK, Outputs!Phases, Outputs!Locks, Outputs!Publish,
         Outputs!Goto, Sessions
<1>3. Reserved'
  BY OpsFacts
     DEF LocksInv, Outputs!TypeOK, Outputs!Phases, Outputs!Locks, Outputs!Publish,
         Outputs!Goto, Reserved
<1>4. Named'
  <2>1. o \in Bids => u_pc'[o] = "sent"
    BY OpsFacts DEF LocksInv, Unspent, Outputs!TypeOK, Outputs!Publish, Outputs!Goto
  <2> QED
    BY <2>1, OpsFacts DEF LocksInv, Outputs!TypeOK, Named, Outputs!Publish, Outputs!Goto
<1>5. Unspent'
  <2>1. SUFFICES ASSUME NEW p \in Bids
                 PROVE  /\ u_pc'[p] \in {"selected", "reserving", "checked", "funded", "accepted"} =>
                            u_inputs'[p] \cap u_spent' = {}
                        /\ u_pc'[p] = "sent" => u_inputs'[p] \subseteq u_spent'
    BY DEF Unspent
  <2>2. u_inputs' = u_inputs /\ u_spent \subseteq u_spent' /\ u_spent' \subseteq u_spent \cup u_inputs[o]
    BY DEF Outputs!Publish
  <2>3. CASE p = o
    BY <2>1, <2>3, OpsFacts
       DEF LocksInv, Outputs!TypeOK, Outputs!Publish, Outputs!Goto, Unspent
  <2>4. CASE p # o
    <3>1. u_pc'[p] = u_pc[p]
      BY <2>4, OpsFacts DEF LocksInv, Outputs!TypeOK, Outputs!Publish, Outputs!Goto
    <3>2. u_pc[p] \notin {"selected", "reserving", "checked", "funded"}
      BY OpsFacts DEF LocksInv, Sessions, Outputs!Publish
    <3>3. u_pc[p] = "accepted" => u_inputs[o] \cap u_inputs[p] = {}
      <4>1. Outputs!Holding(o)
        BY DEF Outputs!Publish, Outputs!Holding
      <4> QED
        BY <2>4, <4>1, Disjoint DEF Outputs!Holding
    <3> QED
      BY <2>2, <3>1, <3>2, <3>3 DEF LocksInv, Unspent
  <2> QED
    BY <2>3, <2>4
<1>6. Free'
  BY OpsFacts
     DEF LocksInv, Outputs!TypeOK, Outputs!Phases, Outputs!Locks, Outputs!Publish,
         Outputs!Goto, Free, Outputs!IsUTXOLocked
<1>7. BidHeld'
  BY OpsFacts
     DEF LocksInv, Outputs!TypeOK, Outputs!Phases, Outputs!Locks, Outputs!Publish,
         Outputs!Goto, BidHeld, Outputs!Holding
<1>8. WithdrawalHeld'
  BY OpsFacts
     DEF LocksInv, Outputs!TypeOK, Outputs!Phases, Outputs!Locks, Outputs!Publish,
         Outputs!Goto, WithdrawalHeld
<1> QED
  BY <1>1, <1>2, <1>3, <1>4, <1>5, <1>6, <1>7, <1>8 DEF LocksInv

\* The end of the session that accepts a bid.
LEMMA AcceptedStep ==
    ASSUME Outputs!ConstantsOK, LockOutlives, LocksInv, NEW o \in Bids, Outputs!Accepted(o)
    PROVE  LocksInv'
<1> USE OpsFacts
   DEF LocksInv, Outputs!TypeOK, Outputs!Phases, Outputs!Locks, Outputs!Accepted, Outputs!Goto
<1>1. Outputs!TypeOK'
  BY DEF Outputs!IsUTXOLocked
<1>2. Sessions'
  BY DEF Sessions
<1>3. Reserved'
  BY DEF Reserved
<1>4. Named'
  BY DEF Named
<1>5. Unspent'
  BY DEF Unspent
<1>6. Free'
  BY DEF Free, Outputs!IsUTXOLocked
<1>7. BidHeld'
  BY DEF BidHeld, Outputs!Holding
<1>8. WithdrawalHeld'
  BY DEF WithdrawalHeld
<1> QED
  BY <1>1, <1>2, <1>3, <1>4, <1>5, <1>6, <1>7, <1>8 DEF LocksInv

\* An accept that fails deletes the locks on its own inputs, which no other operation holds.
LEMMA AcceptFailsStep ==
    ASSUME Outputs!ConstantsOK, LockOutlives, LocksInv, NEW o \in Bids, Outputs!AcceptFails(o)
    PROVE  LocksInv'
<1>1. Outputs!TypeOK'
  BY OpsFacts
     DEF LocksInv, Outputs!TypeOK, Outputs!Phases, Outputs!Locks, Outputs!AcceptFails,
         Outputs!Goto, Outputs!UnlockInputs, Outputs!NoLock, Outputs!IsUTXOLocked
<1>2. Sessions'
  BY OpsFacts
     DEF LocksInv, Outputs!TypeOK, Outputs!Phases, Outputs!Locks, Outputs!AcceptFails,
         Outputs!Goto, Outputs!UnlockInputs, Outputs!NoLock, Sessions
<1>3. Reserved'
  BY OpsFacts
     DEF LocksInv, Outputs!TypeOK, Outputs!Phases, Outputs!Locks, Outputs!AcceptFails,
         Outputs!Goto, Outputs!UnlockInputs, Outputs!NoLock, Reserved
<1>4. Named'
  BY OpsFacts
     DEF LocksInv, Outputs!TypeOK, Outputs!Phases, Outputs!Locks, Outputs!AcceptFails,
         Outputs!Goto, Outputs!UnlockInputs, Outputs!NoLock, Named
<1>5. Unspent'
  BY OpsFacts
     DEF LocksInv, Outputs!TypeOK, Outputs!Phases, Outputs!Locks, Outputs!AcceptFails,
         Outputs!Goto, Outputs!UnlockInputs, Outputs!NoLock, Unspent
<1>6. Free'
  BY OpsFacts
     DEF LocksInv, Outputs!TypeOK, Outputs!Phases, Outputs!Locks, Outputs!AcceptFails,
         Outputs!Goto, Outputs!UnlockInputs, Outputs!NoLock, Free, Outputs!IsUTXOLocked
<1>7. BidHeld'
  BY OpsFacts
     DEF LocksInv, Outputs!TypeOK, Outputs!Phases, Outputs!Locks, Outputs!AcceptFails,
         Outputs!Goto, Outputs!UnlockInputs, Outputs!NoLock, BidHeld, Outputs!Holding
<1>8. WithdrawalHeld'
  <2>1. ASSUME NEW p \in Withdrawals, u_pc[p] = "funded", NEW u \in u_inputs[p], u \notin u_spent
        PROVE  u_lock'[u] = u_lock[u]
    <3>1. Outputs!Holding(p) /\ u \in Utxos /\ p \in Outputs!Ops /\ p # o
      BY <2>1, OpsFacts DEF Outputs!Holding, LocksInv, Outputs!TypeOK
    <3>2. u \notin u_inputs[o]
      BY <2>1, <3>1, Disjoint DEF Outputs!AcceptFails, Outputs!Holding
    <3>3. u_lock[u].by = NoOp
      BY <2>1 DEF LocksInv, WithdrawalHeld
    <3> QED
      BY <3>1, <3>2, <3>3, OpsFacts DEF Outputs!AcceptFails, Outputs!UnlockInputs
  <2>2. \A p \in Withdrawals : u_pc'[p] = u_pc[p]
    BY OpsFacts DEF LocksInv, Outputs!TypeOK, Outputs!AcceptFails, Outputs!Goto
  <2> QED
    BY <2>1, <2>2 DEF LocksInv, WithdrawalHeld, Outputs!AcceptFails
<1> QED
  BY <1>1, <1>2, <1>3, <1>4, <1>5, <1>6, <1>7, <1>8 DEF LocksInv

\* The end of a bid deletes its locks, and those on its inputs: no other operation holds them.
LEMMA DeactivateStep ==
    ASSUME Outputs!ConstantsOK, LockOutlives, LocksInv, NEW o \in Bids, Outputs!Deactivate(o)
    PROVE  LocksInv'
<1>1. Outputs!TypeOK'
  BY OpsFacts
     DEF LocksInv, Outputs!TypeOK, Outputs!Phases, Outputs!Locks, Outputs!Deactivate,
         Outputs!Goto, Outputs!Unlocked, Outputs!NoLock, Outputs!IsUTXOLocked
<1>2. Sessions'
  BY OpsFacts
     DEF LocksInv, Outputs!TypeOK, Outputs!Phases, Outputs!Locks, Outputs!Deactivate,
         Outputs!Goto, Outputs!Unlocked, Outputs!NoLock, Sessions
<1>3. Reserved'
  BY OpsFacts
     DEF LocksInv, Outputs!TypeOK, Outputs!Phases, Outputs!Locks, Outputs!Deactivate,
         Outputs!Goto, Outputs!Unlocked, Outputs!NoLock, Reserved
<1>4. Named'
  BY OpsFacts
     DEF LocksInv, Outputs!TypeOK, Outputs!Phases, Outputs!Locks, Outputs!Deactivate,
         Outputs!Goto, Outputs!Unlocked, Outputs!NoLock, Named
<1>5. Unspent'
  BY OpsFacts
     DEF LocksInv, Outputs!TypeOK, Outputs!Phases, Outputs!Locks, Outputs!Deactivate,
         Outputs!Goto, Outputs!Unlocked, Outputs!NoLock, Unspent
<1>6. Free'
  BY OpsFacts
     DEF LocksInv, Outputs!TypeOK, Outputs!Phases, Outputs!Locks, Outputs!Deactivate,
         Outputs!Goto, Outputs!Unlocked, Outputs!NoLock, Free, Outputs!IsUTXOLocked
<1>7. BidHeld'
  <2>1. ASSUME NEW p \in Bids, p # o, Outputs!Holding(p), NEW u \in u_inputs[p]
        PROVE  u_lock'[u] = u_lock[u]
    <3>1. u \in Utxos /\ p \in Outputs!Ops /\ u \notin u_spent /\ u_lock[u].by = p
      BY <2>1, OpsFacts DEF Outputs!Holding, LocksInv, Outputs!TypeOK, BidHeld, Unspent
    <3>2. u \notin u_inputs[o]
      <4>1. CASE u_pc[o] = "sent"
        BY <3>1, <4>1 DEF LocksInv, Unspent
      <4>2. CASE u_pc[o] = "accepted"
        BY <2>1, <3>1, <4>2, Disjoint DEF Outputs!Holding
      <4> QED
        BY <4>1, <4>2 DEF Outputs!Deactivate
    <3> QED
      BY <2>1, <3>1, <3>2 DEF Outputs!Deactivate, Outputs!Unlocked
  <2>2. \A p \in Bids : Outputs!Holding(p)' => Outputs!Holding(p) /\ p # o
    BY OpsFacts DEF LocksInv, Outputs!TypeOK, Outputs!Deactivate, Outputs!Goto, Outputs!Holding
  <2> QED
    BY <2>1, <2>2 DEF LocksInv, BidHeld, Outputs!Deactivate
<1>8. WithdrawalHeld'
  <2>1. ASSUME NEW p \in Withdrawals, u_pc[p] = "funded", NEW u \in u_inputs[p], u \notin u_spent
        PROVE  u_lock'[u] = u_lock[u]
    <3>1. Outputs!Holding(p) /\ u \in Utxos /\ p \in Outputs!Ops /\ p # o
      BY <2>1, OpsFacts DEF Outputs!Holding, LocksInv, Outputs!TypeOK
    <3>2. u \notin u_inputs[o]
      <4>1. CASE u_pc[o] = "sent"
        BY <2>1, <4>1 DEF LocksInv, Unspent
      <4>2. CASE u_pc[o] = "accepted"
        BY <2>1, <3>1, <4>2, Disjoint DEF Outputs!Holding
      <4> QED
        BY <4>1, <4>2 DEF Outputs!Deactivate
    <3>3. u_lock[u].by = NoOp
      BY <2>1 DEF LocksInv, WithdrawalHeld
    <3> QED
      BY <3>1, <3>2, <3>3, OpsFacts DEF Outputs!Deactivate, Outputs!Unlocked
  <2>2. \A p \in Withdrawals : u_pc'[p] = u_pc[p]
    BY OpsFacts DEF LocksInv, Outputs!TypeOK, Outputs!Deactivate, Outputs!Goto
  <2> QED
    BY <2>1, <2>2 DEF LocksInv, WithdrawalHeld, Outputs!Deactivate
<1> QED
  BY <1>1, <1>2, <1>3, <1>4, <1>5, <1>6, <1>7, <1>8 DEF LocksInv

\* A lock that is prolonged is one on a spent output.
LEMMA ExtendLocksStep ==
    ASSUME Outputs!ConstantsOK, LockOutlives, LocksInv, Outputs!ExtendLocks
    PROVE  LocksInv'
<1>1. Outputs!TypeOK'
  BY OpsFacts
     DEF LocksInv, Outputs!TypeOK, Outputs!Phases, Outputs!Locks, Outputs!ExtendLocks,
         Outputs!Extended, Outputs!IsUTXOLocked
<1>2. Sessions'
  BY OpsFacts
     DEF LocksInv, Outputs!TypeOK, Outputs!Phases, Outputs!Locks, Outputs!ExtendLocks,
         Outputs!Extended, Sessions
<1>3. Reserved'
  BY OpsFacts
     DEF LocksInv, Outputs!TypeOK, Outputs!Phases, Outputs!Locks, Outputs!ExtendLocks,
         Outputs!Extended, Reserved
<1>4. Named'
  BY OpsFacts
     DEF LocksInv, Outputs!TypeOK, Outputs!Phases, Outputs!Locks, Outputs!ExtendLocks,
         Outputs!Extended, Named
<1>5. Unspent'
  BY OpsFacts
     DEF LocksInv, Outputs!TypeOK, Outputs!Phases, Outputs!Locks, Outputs!ExtendLocks,
         Outputs!Extended, Unspent
<1>6. Free'
  <2>1. ASSUME NEW u \in Utxos, u \notin u_spent PROVE u_lock'[u] = u_lock[u]
    BY <2>1, NamedHolds DEF Outputs!ExtendLocks, Outputs!Extended, Outputs!Holding
  <2>2. \A p \in Outputs!Ops : u_inputs[p] \subseteq Utxos
    BY DEF LocksInv, Outputs!TypeOK
  <2> QED
    BY <2>1, <2>2 DEF LocksInv, Free, Outputs!ExtendLocks, Outputs!IsUTXOLocked
<1>7. BidHeld'
  BY OpsFacts
     DEF LocksInv, Outputs!TypeOK, Outputs!Phases, Outputs!Locks, Outputs!ExtendLocks,
         Outputs!Extended, BidHeld, Outputs!Holding
<1>8. WithdrawalHeld'
  BY OpsFacts
     DEF LocksInv, Outputs!TypeOK, Outputs!Phases, Outputs!Locks, Outputs!ExtendLocks,
         Outputs!Extended, WithdrawalHeld
<1> QED
  BY <1>1, <1>2, <1>3, <1>4, <1>5, <1>6, <1>7, <1>8 DEF LocksInv

\* What is cleaned up has expired, and what an operation holds has not.
LEMMA CleanupExpiredLocksStep ==
    ASSUME Outputs!ConstantsOK, LockOutlives, LocksInv, Outputs!CleanupExpiredLocks
    PROVE  LocksInv'
<1>1. Outputs!TypeOK'
  BY OpsFacts
     DEF LocksInv, Outputs!TypeOK, Outputs!Phases, Outputs!Locks, Outputs!CleanupExpiredLocks,
         Outputs!NoLock, Outputs!IsUTXOLocked
<1>2. Sessions'
  BY OpsFacts
     DEF LocksInv, Outputs!TypeOK, Outputs!Phases, Outputs!Locks, Outputs!CleanupExpiredLocks,
         Outputs!NoLock, Sessions
<1>3. Reserved'
  BY OpsFacts
     DEF LocksInv, Outputs!TypeOK, Outputs!Phases, Outputs!Locks, Outputs!CleanupExpiredLocks,
         Outputs!NoLock, Reserved
<1>4. Named'
  BY OpsFacts
     DEF LocksInv, Outputs!TypeOK, Outputs!Phases, Outputs!Locks, Outputs!CleanupExpiredLocks,
         Outputs!NoLock, Named
<1>5. Unspent'
  BY OpsFacts
     DEF LocksInv, Outputs!TypeOK, Outputs!Phases, Outputs!Locks, Outputs!CleanupExpiredLocks,
         Outputs!NoLock, Unspent
<1>6. Free'
  BY OpsFacts
     DEF LocksInv, Outputs!TypeOK, Outputs!Phases, Outputs!Locks, Outputs!CleanupExpiredLocks,
         Outputs!NoLock, Free, Outputs!IsUTXOLocked
<1>7. BidHeld'
  <2>1. ASSUME NEW p \in Bids, Outputs!Holding(p), NEW u \in u_inputs[p] PROVE u_lock'[u] = u_lock[u]
    <3>1. p \in Outputs!Ops /\ u \notin u_spent
      BY <2>1, OpsFacts DEF LocksInv, Unspent, Outputs!Holding
    <3> QED
      BY <2>1, <3>1, HeldIsLocked DEF Outputs!CleanupExpiredLocks
  <2> QED
    BY <2>1 DEF LocksInv, BidHeld, Outputs!Holding, Outputs!CleanupExpiredLocks
<1>8. WithdrawalHeld'
  <2>1. ASSUME NEW p \in Withdrawals, u_pc[p] = "funded", NEW u \in u_inputs[p], u \notin u_spent
        PROVE  u_lock'[u] = u_lock[u]
    <3>1. p \in Outputs!Ops /\ Outputs!Holding(p)
      BY <2>1, OpsFacts DEF Outputs!Holding
    <3> QED
      BY <2>1, <3>1, HeldIsLocked DEF Outputs!CleanupExpiredLocks
  <2> QED
    BY <2>1 DEF LocksInv, WithdrawalHeld, Outputs!CleanupExpiredLocks
<1> QED
  BY <1>1, <1>2, <1>3, <1>4, <1>5, <1>6, <1>7, <1>8 DEF LocksInv

\* Time goes on while no accepted bid is past its time.
LEMMA TickStep ==
    ASSUME Outputs!ConstantsOK, LockOutlives, LocksInv, Outputs!Tick
    PROVE  LocksInv'
<1> USE OpsFacts DEF LocksInv, Outputs!TypeOK, Outputs!Phases, Outputs!Locks, Outputs!Tick
<1>1. Outputs!TypeOK'
  BY DEF Outputs!IsUTXOLocked
<1>2. Sessions'
  BY DEF Sessions
<1>3. Reserved'
  BY DEF Reserved
<1>4. Named'
  BY DEF Named
<1>5. Unspent'
  BY DEF Unspent
<1>6. Free'
  BY DEF Free, Outputs!IsUTXOLocked
<1>7. BidHeld'
  BY DEF BidHeld, Outputs!Holding
<1>8. WithdrawalHeld'
  BY DEF WithdrawalHeld
<1> QED
  BY <1>1, <1>2, <1>3, <1>4, <1>5, <1>6, <1>7, <1>8 DEF LocksInv

\* The inductive invariant holds in every state.
LEMMA LocksInvHolds ==
    ASSUME Outputs!ConstantsOK, LockOutlives
    PROVE  Outputs!Spec => []LocksInv
<1>1. Outputs!Init => LocksInv
  BY LocksStart
<1>2. ASSUME LocksInv, [Outputs!Next]_(Outputs!vars) PROVE LocksInv'
  <2>1. CASE Outputs!Next
    <3>1. ASSUME NEW o \in Outputs!Ops, Outputs!Fund(o) \/ Outputs!Publish(o) PROVE LocksInv'
      BY <1>2, <3>1, SelectStep, SelectFailsStep, TakeReserveStep, CheckInputsStep,
         LockInputsStep, PublishStep DEF Outputs!Fund
    <3>2. ASSUME NEW o \in Bids,
                 Outputs!Accepted(o) \/ Outputs!AcceptFails(o) \/ Outputs!Deactivate(o)
          PROVE  LocksInv'
      BY <1>2, <3>2, AcceptedStep, AcceptFailsStep, DeactivateStep
    <3> QED
      BY <1>2, <2>1, <3>1, <3>2, ExtendLocksStep, CleanupExpiredLocksStep, TickStep
         DEF Outputs!Next
  <2>2. CASE UNCHANGED Outputs!vars
    BY <1>2, <2>2
       DEF Outputs!vars, LocksInv, Outputs!TypeOK, Sessions, Reserved, Named, Unspent, Free,
           BidHeld, WithdrawalHeld, Outputs!IsUTXOLocked, Outputs!Holding
  <2> QED
    BY <1>2, <2>1, <2>2
<1> QED
  BY <1>1, <1>2, PTL DEF Outputs!Spec

\* The table wallet_locked_utxos, the two locks and the outputs keep their types.
THEOREM LocksTyped ==
    ASSUME Outputs!ConstantsOK, LockOutlives
    PROVE  Outputs!Spec => []Outputs!TypeOK
<1>1. LocksInv => Outputs!TypeOK
  BY DEF LocksInv
<1> QED
  BY <1>1, LocksInvHolds, PTL

\* Outputs that are reserved for a bid are in no other operation's transaction while both may
\* still publish (NoSharedInputs): the second look and the locks are taken under one lock.
THEOREM InputsNotShared ==
    ASSUME Outputs!ConstantsOK, LockOutlives
    PROVE  Outputs!Spec => []Outputs!NoSharedInputs
<1>1. LocksInv => Outputs!NoSharedInputs
  BY Disjoint DEF Outputs!NoSharedInputs
<1> QED
  BY <1>1, LocksInvHolds, PTL

\* The inputs of an accepted bid stay locked, for that bid, until it publishes or ends: no expiry,
\* no cleanup and no other bid's end frees them (AcceptedStaysLocked).
THEOREM LocksLast ==
    ASSUME Outputs!ConstantsOK, LockOutlives
    PROVE  Outputs!Spec => []Outputs!AcceptedStaysLocked
<1>1. ASSUME LocksInv, NEW o \in Bids, u_pc[o] = "accepted", NEW u \in u_inputs[o]
      PROVE  u_lock[u].by = o /\ Outputs!IsUTXOLocked(u)
  <2>1. Outputs!Holding(o) /\ u \notin u_spent /\ o \in Outputs!Ops
    BY <1>1, OpsFacts DEF LocksInv, Unspent, Outputs!Holding
  <2> QED
    BY <1>1, <2>1, HeldIsLocked DEF LocksInv, BidHeld
<1>2. LocksInv => Outputs!AcceptedStaysLocked
  BY <1>1 DEF Outputs!AcceptedStaysLocked
<1> QED
  BY <1>2, LocksInvHolds, PTL

\* A bid that failed or ended leaves no output locked in its name (NoLockLeft).
THEOREM LocksEnd ==
    ASSUME Outputs!ConstantsOK, LockOutlives
    PROVE  Outputs!Spec => []Outputs!NoLockLeft
<1>1. LocksInv => Outputs!NoLockLeft
  BY DEF LocksInv, Named, Outputs!NoLockLeft
<1> QED
  BY <1>1, LocksInvHolds, PTL

-----------------------------------------------------------------------------
(***************************************************************************)
(* The passwords of the wallets.                                           *)
(***************************************************************************)

\* No password.
NoPassword(p) == p = ""

\* A password or none.
PW == Passwords \cup {""}

\* The node wallets.
Wallets ==
    [pw : PW, unlocked : BOOLEAN, loaded : BOOLEAN, seed : {"swap", "none", "new"}, warn : BOOLEAN]

\* The main Monero wallet.
XmrWallets == [pw : PW, mem : PW, open : BOOLEAN, checked : BOOLEAN]

\* The requests.
Tasks ==
    [op : {"idle", "change", "unlock"}, coin : {"all", "part", "btc", "xmr"}, old : PW, new : PW,
     phase : {"none", "unlock", "change"}, at : Nat]

\* What a request asks, and how far it is.
TaskOK(t) ==
    /\ t \in Tasks
    /\ t.op = "idle" => t = Access!Idle
    /\ t.op = "unlock" => t.phase = "unlock" /\ ~NoPassword(t.old)
    /\ t.op = "change" => t.phase # "none" /\ ~NoPassword(t.new)
    /\ t.op # "idle" => t.at \in 1..4
    /\ ~PerCoin => t.coin = "all"

\* The types of the state, and what a request is made of.
PasswordsTyped ==
    /\ p_wallet \in [Access!NodeCoins -> Wallets]
    /\ p_xmr \in XmrWallets
    /\ p_isLocked \in BOOLEAN
    /\ TaskOK(p_task)
    /\ p_used \in [changes : Nat, fails : Nat, restarts : Nat]

\* The coins in the order in which a request visits them.
LEMMA CoinsInOrder ==
    /\ Len(Access!CoinOrder) = 3
    /\ Access!CoinOrder[1] = "part" /\ Access!CoinOrder[2] = "btc" /\ Access!CoinOrder[3] = "xmr"
  BY DEF Access!CoinOrder

\* The part of unlockWallet after the seed: the password is tried.
Tried(c, v, w, password) ==
    IF w.pw = "" THEN Access!Done(Access!CheckWalletSeed(c, w))
    ELSE IF w.pw = password THEN Access!Done(Access!CheckWalletSeed(c,
                                                                    [w EXCEPT !.unlocked = TRUE]))
    ELSE Access!Failed(IF w.seed # v.seed THEN v ELSE w)

\* A wallet without a seed gets one, and the password if it had none.
Given(v, password) == [v EXCEPT !.warn = FALSE, !.pw = IF @ = "" THEN password ELSE @]

\* unlockWallet of a Bitcoin wallet that has no seed.
LEMMA UnlockSeeds ==
    ASSUME NEW v \in Wallets, NEW password \in PW \ {""}, v.seed = "none"
    PROVE  \E w \in Wallets :
             /\ w.pw = (IF v.pw = "" THEN password ELSE v.pw)
             /\ w.unlocked = v.unlocked /\ w.loaded = TRUE /\ w.seed = "swap"
             /\ Access!UnlockWallet("btc", v, password) = Tried("btc", v, w, password)
<1> DEFINE loaded == [v EXCEPT !.loaded = TRUE]
           swap == [loaded EXCEPT !.seed = "swap"]
<1>1. loaded \in Wallets /\ loaded.pw = v.pw /\ loaded.unlocked = v.unlocked /\ loaded.loaded = TRUE
  BY DEF Wallets
<1>2. Access!UnlockWallet("btc", v, password) =
        IF ~loaded.loaded THEN Access!Failed(v)
        ELSE Tried("btc", v, Given(Access!InitialiseWallet(loaded, TRUE).v, password), password)
  <2> DEFINE L == IF "btc" = "btc" THEN [v EXCEPT !.loaded = TRUE] ELSE v
             S == IF "btc" = "btc" /\ v.seed = "none"
                  THEN Given(Access!InitialiseWallet(L, TRUE).v, password) ELSE L
  <2>1. Access!UnlockWallet("btc", v, password) =
          IF password = "" THEN Access!Done(v)
          ELSE IF ~L.loaded THEN Access!Failed(v) ELSE Tried("btc", v, S, password)
    BY Zenon DEF Access!UnlockWallet, Tried, Given
  <2>2. L = loaded
    BY Zenon
  <2>3. S = Given(Access!InitialiseWallet(L, TRUE).v, password)
    BY Zenon
  <2> HIDE DEF L, S
  <2> QED
    BY <2>1, <2>2, <2>3
<1> HIDE DEF loaded
<1>3. swap \in Wallets /\ swap.pw = v.pw /\ swap.unlocked = v.unlocked /\ swap.loaded = TRUE
      /\ swap.seed = "swap"
  BY <1>1 DEF Wallets
<1>4. Access!InitialiseWallet(loaded, TRUE).v = swap
  BY <1>3 DEF Access!InitialiseWallet, Access!SetSeed, Access!Done
<1> HIDE DEF swap
<1>5. /\ Given(swap, password) \in Wallets
      /\ Given(swap, password).pw = (IF v.pw = "" THEN password ELSE v.pw)
      /\ Given(swap, password).unlocked = v.unlocked /\ Given(swap, password).loaded = TRUE
      /\ Given(swap, password).seed = "swap"
  BY <1>3 DEF Given, Wallets, PW
<1>6. Access!UnlockWallet("btc", v, password) = Tried("btc", v, Given(swap, password), password)
  BY <1>1, <1>2, <1>4
<1> QED
  BY <1>5, <1>6

\* What unlockWallet of a node wallet leaves: loaded stays loaded, unlocked
\* unlocked, and a wallet with a password that took one is unlocked.
LEMMA UnlockResult ==
    ASSUME Access!ConstantsOK, NEW c \in Access!NodeCoins, NEW v \in Wallets, NEW password \in PW
    PROVE  LET r == Access!UnlockWallet(c, v, password)
           IN  /\ r.v \in Wallets /\ r.ok \in BOOLEAN
               /\ v.loaded => r.v.loaded
               /\ v.unlocked => r.v.unlocked
               /\ c = "part" \/ ~NoPassword(v.pw) => r.v.pw = v.pw
               /\ ~NoPassword(v.pw) /\ ~NoPassword(password) /\ r.ok => r.v.unlocked
               /\ NoPassword(password) => r.v = v /\ r.ok
               /\ c = "btc" /\ (v.seed # "swap" => v.warn) => (r.v.seed # "swap" => r.v.warn)
<1> USE DEF Access!NodeCoins, PW, Wallets, Access!Done, Access!Failed, Access!CheckWalletSeed,
    NoPassword
<1>1. CASE password = ""
  BY <1>1 DEF Access!UnlockWallet
<1>2. CASE password # "" /\ c = "part"
  BY <1>2 DEF Access!UnlockWallet
<1>3. CASE password # "" /\ c = "btc" /\ v.seed # "none"
  BY <1>3 DEF Access!UnlockWallet
<1>4. CASE password # "" /\ c = "btc" /\ v.seed = "none"
  <2>1. PICK w \in Wallets :
          /\ w.pw = (IF v.pw = "" THEN password ELSE v.pw)
          /\ w.unlocked = v.unlocked /\ w.loaded = TRUE /\ w.seed = "swap"
          /\ Access!UnlockWallet("btc", v, password) = Tried("btc", v, w, password)
    BY <1>4, UnlockSeeds
  <2>2. LET r == Tried("btc", v, w, password)
        IN  /\ r.v \in Wallets /\ r.ok \in BOOLEAN
            /\ v.loaded => r.v.loaded
            /\ v.unlocked => r.v.unlocked
            /\ v.pw # "" => r.v.pw = v.pw
            /\ v.pw # "" /\ r.ok => r.v.unlocked
            /\ v.warn => (r.v.seed # "swap" => r.v.warn)
    BY <1>4, <2>1 DEF Tried
  <2> HIDE DEF Wallets
  <2> QED
    BY <1>4, <2>1, <2>2
<1> QED
  BY <1>1, <1>2, <1>3, <1>4

\* What a change of a wallet's password may leave.
ChangeOK(v, old, new, r) ==
    /\ r.v \in Wallets /\ r.ok \in BOOLEAN
    /\ FoundPath /\ v.loaded => r.v.loaded
    /\ ~NoPassword(v.pw) => ~NoPassword(r.v.pw) /\ (v.unlocked => r.v.unlocked)
    /\ ~NoPassword(v.pw) /\ NoPassword(old) => ~r.ok
    /\ r.ok => r.v.pw = new
    /\ ~r.ok => r.v.pw = v.pw /\ r.v.seed = v.seed
    /\ NoPassword(old) /\ r.ok => ~r.v.unlocked
    /\ NoPassword(old) /\ r.ok /\ v.seed = "swap" => ~ManageDaemon \/ FoundPath
    /\ NoPassword(old) /\ NoPassword(v.pw) /\ v.loaded /\ (~ManageDaemon \/ FoundPath) => r.ok
    /\ ManageDaemon /\ (v.seed # "swap" => v.warn) => (r.v.seed # "swap" => r.v.warn)

\* changeWalletPassword of a node wallet leaves no more than that, whether the seed was kept, read
\* and restored or not.
LEMMA ChangeResult ==
    ASSUME Access!ConstantsOK, NEW v \in Wallets, NEW old \in PW, NEW new \in PW, ~NoPassword(new),
           NEW keeps \in BOOLEAN, NEW captured \in BOOLEAN, NEW restored \in BOOLEAN
    PROVE  ChangeOK(v, old, new, Access!ChangeWalletPassword(v, old, new, keeps, captured,
                                                             restored))
<1> DEFINE r == Access!ChangeWalletPassword(v, old, new, keeps, captured, restored)
<1>1. /\ r.v \in Wallets /\ r.ok \in BOOLEAN
      /\ FoundPath /\ v.loaded => r.v.loaded
      /\ ~NoPassword(v.pw) => ~NoPassword(r.v.pw) /\ (v.unlocked => r.v.unlocked)
      /\ ~NoPassword(v.pw) /\ NoPassword(old) => ~r.ok
      /\ r.ok => r.v.pw = new
      /\ ~r.ok => r.v.pw = v.pw /\ r.v.seed = v.seed
      /\ NoPassword(old) /\ r.ok => ~r.v.unlocked
      /\ NoPassword(old) /\ r.ok /\ v.seed = "swap" => ~ManageDaemon \/ FoundPath
      /\ NoPassword(old) /\ NoPassword(v.pw) /\ v.loaded /\ (~ManageDaemon \/ FoundPath) => r.ok
      /\ ManageDaemon /\ (v.seed # "swap" => v.warn) => (r.v.seed # "swap" => r.v.warn)
  BY DEF Access!ConstantsOK, PW, Wallets, Access!ChangeWalletPassword, Access!EncryptWallet,
         Access!RestoreKeys, Access!ReadsKeys, Access!Done, Access!Failed, NoPassword
<1> HIDE DEF r
<1>2. ChangeOK(v, old, new, r)
  BY <1>1 DEF ChangeOK
<1> QED
  BY <1>2 DEF r

\* The fields of a request.
LEMMA TaskFields ==
    ASSUME NEW t \in Tasks
    PROVE  /\ t.op \in {"idle", "change", "unlock"} /\ t.coin \in {"all", "part", "btc", "xmr"}
           /\ t.old \in PW /\ t.new \in PW
           /\ t.phase \in {"none", "unlock", "change"} /\ t.at \in Nat
  BY DEF Tasks

\* A request goes on to the next coin.
LEMMA TaskMoves ==
    ASSUME NEW t \in Tasks, NEW n \in Nat
    PROVE  LET q == [t EXCEPT !.at = n]
           IN  /\ q \in Tasks /\ q.at = n /\ q.op = t.op /\ q.coin = t.coin
               /\ q.old = t.old /\ q.new = t.new /\ q.phase = t.phase
  BY DEF Tasks

\* A request goes on to the changes.
LEMMA TaskChanges ==
    ASSUME NEW t \in Tasks
    PROVE  LET q == [t EXCEPT !.phase = "change", !.at = 1]
           IN  /\ q \in Tasks /\ q.at = 1 /\ q.op = t.op /\ q.coin = t.coin
               /\ q.old = t.old /\ q.new = t.new /\ q.phase = "change"
  BY DEF Tasks

\* No request.
LEMMA IdleTask ==
    /\ Access!Idle \in Tasks /\ Access!Idle.op = "idle" /\ Access!Idle.phase = "none"
    /\ Access!Idle.coin = "all"
    /\ Access!Idle.at = 0 /\ TaskOK(Access!Idle)
<1>1. Access!Idle \in Tasks /\ Access!Idle.op = "idle" /\ Access!Idle.phase = "none"
        /\ Access!Idle.coin = "all" /\ Access!Idle.at = 0
  BY DEF Tasks, Access!Idle, PW
<1> QED
  BY <1>1 DEF TaskOK

\* A request begins.
LEMMA TaskStarts ==
    ASSUME NEW op \in {"change", "unlock"}, NEW coin \in {"all", "part", "btc", "xmr"},
           NEW old \in PW, NEW new \in PW
    PROVE  LET q ==
               [op |-> op, coin |-> coin, old |-> old, new |-> new, phase |-> "unlock", at |-> 1]
           IN  /\ q \in Tasks /\ q.at = 1 /\ q.op = op /\ q.coin = coin
               /\ q.old = old /\ q.new = new /\ q.phase = "unlock"
  BY DEF Tasks

\* The fields of a node wallet.
LEMMA WalletFields ==
    ASSUME NEW v \in Wallets
    PROVE  /\ v.pw \in PW /\ v.unlocked \in BOOLEAN /\ v.loaded \in BOOLEAN
           /\ v.seed \in {"swap", "none", "new"} /\ v.warn \in BOOLEAN
  BY DEF Wallets

\* A wallet after lockWallets and after a restart.
LEMMA WalletChanges ==
    ASSUME NEW v \in Wallets
    PROVE  LET locked == [v EXCEPT !.unlocked = FALSE]
               started ==
                   [v EXCEPT !.unlocked = v.pw = "", !.loaded = TRUE, !.warn = v.seed # "swap"]
           IN  /\ locked \in Wallets /\ locked.pw = v.pw /\ locked.loaded = v.loaded
               /\ locked.seed = v.seed /\ locked.warn = v.warn
               /\ started \in Wallets /\ started.pw = v.pw /\ started.loaded
               /\ started.seed = v.seed /\ started.warn = (v.seed # "swap")
  BY DEF Wallets

\* A wallet after reseedWallet.
Reseeded(v, use_descriptors) ==
    LET r == Access!InitialiseWallet(v, use_descriptors)
    IN  IF r.ok THEN Access!CheckWalletSeed("btc", r.v) ELSE r.v

LEMMA ReseedResult ==
    ASSUME NEW v \in Wallets, NEW use_descriptors \in BOOLEAN
    PROVE  LET q == Reseeded(v, use_descriptors)
           IN  /\ q \in Wallets /\ q.pw = v.pw /\ q.loaded = v.loaded /\ q.unlocked = v.unlocked
               /\ v.warn => (q.seed # "swap" => q.warn)
<1> DEFINE seeded == Access!SetSeed(v, use_descriptors)
<1>1. /\ seeded \in Wallets /\ seeded.pw = v.pw /\ seeded.loaded = v.loaded
      /\ seeded.unlocked = v.unlocked /\ seeded.warn = v.warn
  BY DEF Access!SetSeed, Wallets
<1>2. Reseeded(v, use_descriptors) =
        IF seeded.seed = "swap" THEN Access!CheckWalletSeed("btc", seeded) ELSE seeded
  BY DEF Reseeded, Access!InitialiseWallet, Access!Done, Access!Failed
<1> HIDE DEF seeded
<1>3. seeded.seed = "swap" => Access!CheckWalletSeed("btc", seeded) = [seeded EXCEPT !.warn = FALSE]
  BY DEF Access!CheckWalletSeed
<1>4. LET q == [seeded EXCEPT !.warn = FALSE]
      IN  /\ q \in Wallets /\ q.pw = seeded.pw /\ q.loaded = seeded.loaded
          /\ q.unlocked = seeded.unlocked /\ q.seed = seeded.seed
  BY <1>1 DEF Wallets
<1> HIDE DEF Access!CheckWalletSeed
<1>5. CASE seeded.seed = "swap"
  <2>1. Reseeded(v, use_descriptors) = [seeded EXCEPT !.warn = FALSE]
    BY <1>2, <1>3, <1>5
  <2> QED
    BY <1>1, <1>4, <1>5, <2>1
<1>6. CASE seeded.seed # "swap"
  <2>1. Reseeded(v, use_descriptors) = seeded
    BY <1>2, <1>6
  <2> QED
    BY <1>1, <1>6, <2>1
<1> QED
  BY <1>5, <1>6

\* A Monero wallet after an open, a lock and a restart.
LEMMA XmrChanges ==
    ASSUME NEW x \in XmrWallets, NEW o \in BOOLEAN
    PROVE  /\ LET q == [x EXCEPT !.open = o]
              IN  q \in XmrWallets /\ q.pw = x.pw /\ q.mem = x.mem /\ q.checked = x.checked
           /\ [x EXCEPT !.mem = ""] \in XmrWallets
           /\ [x EXCEPT !.mem = "", !.open = FALSE, !.checked = FALSE] \in XmrWallets
  BY DEF XmrWallets, PW

\* A Monero wallet after unlockWallet, changeWalletPassword.
LEMMA XmrResult ==
    ASSUME NEW x \in XmrWallets, NEW old \in PW, NEW new \in PW
    PROVE  /\ LET r == Access!XmrUnlock(x, old)
              IN  /\ r.v \in XmrWallets /\ r.ok \in BOOLEAN
                  /\ r.v.mem = old /\ r.v.pw = x.pw /\ (x.checked => r.ok /\ r.v.checked)
           /\ LET r == Access!XmrChange(x, old, new)
              IN  /\ r.v \in XmrWallets /\ r.ok \in BOOLEAN
                  /\ r.v.checked = x.checked
                  /\ NoPassword(old) => r.v.mem = x.mem
                  /\ r.ok => r.v.pw = new
                  /\ ~r.ok => r.v.pw = x.pw
                  /\ NoPassword(x.pw) /\ NoPassword(x.mem) /\ NoPassword(old) => r.ok
  BY DEF XmrWallets, Access!XmrUnlock, Access!XmrChange, Access!CanOpenMain, Access!Done,
         Access!Failed, PW, NoPassword

\* A step of a request over the coins.
LEMMA RequestStepTyped ==
    ASSUME TaskOK(p_task), p_task.op # "idle", p_task.at <= 3, NEW ok \in BOOLEAN, Access!Step(ok)
    PROVE  TaskOK(p_task')
<1>1. CASE ok
  <2>1. p_task \in Tasks /\ p_task.at + 1 \in Nat
    BY TaskFields DEF TaskOK
  <2>2. p_task' = [p_task EXCEPT !.at = p_task.at + 1]
    BY <1>1 DEF Access!Step
  <2>3. /\ p_task' \in Tasks /\ p_task'.at = p_task.at + 1 /\ p_task'.op = p_task.op
        /\ p_task'.coin = p_task.coin
        /\ p_task'.old = p_task.old /\ p_task'.new = p_task.new /\ p_task'.phase = p_task.phase
    BY <2>1, <2>2, TaskMoves
  <2> QED
    BY <2>3 DEF TaskOK
<1>2. CASE ~ok
  BY <1>2, IdleTask DEF Access!Step
<1> QED
  BY <1>1, <1>2

\* The wallets, files and requests have their types at the start.
LEMMA PasswordsStart == ASSUME Access!ConstantsOK, Access!Init PROVE PasswordsTyped
<1>1. FirstPassword \in PW
  BY DEF Access!ConstantsOK, PW
<1>2. PICK seed \in {"swap", "none"} :
        p_wallet = [c \in Access!NodeCoins |->
           [pw |-> FirstPassword, unlocked |-> TRUE, loaded |-> TRUE,
            seed |-> IF c = "btc" /\ FirstPassword = "" THEN seed ELSE "swap",
            warn |-> c = "btc" /\ FirstPassword = "" /\ seed = "none"]]
  BY DEF Access!Init
<1>3. p_wallet \in [Access!NodeCoins -> Wallets]
  BY <1>1, <1>2 DEF Wallets
<1> QED
  BY <1>1, <1>3, IdleTask DEF Access!Init, PasswordsTyped, XmrWallets

\* The counters of changes, failures and restarts.
LEMMA UsedMoves ==
    ASSUME NEW u \in [changes : Nat, fails : Nat, restarts : Nat]
    PROVE  /\ [u EXCEPT !.changes = @ + 1] \in [changes : Nat, fails : Nat, restarts : Nat]
           /\ [u EXCEPT !.fails = @ + 1] \in [changes : Nat, fails : Nat, restarts : Nat]
           /\ [u EXCEPT !.restarts = @ + 1] \in [changes : Nat, fails : Nat, restarts : Nat]
           /\ [u EXCEPT !.changes = @ + 1].changes = u.changes + 1
           /\ [u EXCEPT !.fails = @ + 1].changes = u.changes
           /\ [u EXCEPT !.restarts = @ + 1].changes = u.changes
  OBVIOUS

\* Types are kept when a request begins.
LEMMA RequestTyped ==
    ASSUME Access!ConstantsOK, PasswordsTyped, NEW coin \in Access!CoinArgs, NEW old \in PW,
           NEW new \in Passwords,
           Access!StartChange(coin, old, new) \/ (~NoPassword(old) /\ Access!StartUnlock(coin, old))
    PROVE  PasswordsTyped'
<1>1. /\ coin \in {"all", "part", "btc", "xmr"} /\ (~PerCoin => coin = "all")
      /\ ~NoPassword(new) /\ new \in PW
  BY DEF Access!CoinArgs, Access!ConstantsOK, PW, NoPassword
<1>0. "" \in PW
  BY DEF PW
<1>2. CASE Access!StartChange(coin, old, new)
  <2>1. TaskOK(p_task')
    <3>1. /\ p_task' \in Tasks /\ p_task'.at = 1 /\ p_task'.op = "change" /\ p_task'.coin = coin
          /\ p_task'.old = old /\ p_task'.new = new /\ p_task'.phase = "unlock"
      BY <1>1, <1>2, TaskStarts DEF Access!StartChange
    <3> QED
      BY <1>1, <3>1 DEF TaskOK
  <2> QED
    BY <1>2, <2>1, UsedMoves DEF PasswordsTyped, Access!StartChange
<1>3. CASE ~NoPassword(old) /\ Access!StartUnlock(coin, old)
  <2>1. TaskOK(p_task')
    <3>1. /\ p_task' \in Tasks /\ p_task'.at = 1 /\ p_task'.op = "unlock" /\ p_task'.coin = coin
          /\ p_task'.old = old /\ p_task'.new \in PW /\ p_task'.phase = "unlock"
      BY <1>0, <1>1, <1>3, TaskStarts DEF Access!StartUnlock
    <3>2. ~NoPassword(old)
      BY <1>3
    <3> QED
      BY <1>1, <3>1, <3>2 DEF TaskOK
  <2> QED
    BY <1>3, <2>1 DEF PasswordsTyped, Access!StartUnlock
<1> QED
  BY <1>2, <1>3

\* The coin of a request that is at one.
LEMMA CoinAt ==
    ASSUME PasswordsTyped, p_task.phase # "none", p_task.at <= Len(Access!CoinOrder)
    PROVE  /\ p_task.op # "idle" /\ p_task.at \in 1..3 /\ p_task.old \in PW /\ p_task.new \in PW
           /\ Access!CoinOrder[p_task.at]
                = (IF p_task.at = 1 THEN "part" ELSE IF p_task.at = 2 THEN "btc" ELSE "xmr")
           /\ p_task.op = "change" => ~NoPassword(p_task.new)
<1>1. p_task.op # "idle" /\ p_task.at \in 1..4 /\ p_task.at <= 3
  BY CoinsInOrder, IdleTask DEF PasswordsTyped, TaskOK
<1>2. p_task.old \in PW /\ p_task.new \in PW /\ (p_task.op = "change" => ~NoPassword(p_task.new))
  BY TaskFields DEF PasswordsTyped, TaskOK
<1>3. p_task.at = 1 \/ p_task.at = 2 \/ p_task.at = 3
  BY <1>1
<1> QED
  BY <1>1, <1>2, <1>3, CoinsInOrder

\* What unlocking one wallet does.
LEMMA UnlocksOne ==
    ASSUME Access!ConstantsOK, PasswordsTyped, Access!UnlockOne
    PROVE  \/ /\ p_task.at = 3 /\ p_wallet' = p_wallet
              /\ p_xmr' = Access!XmrUnlock(p_xmr, p_task.old).v
              /\ Access!Step(Access!XmrUnlock(p_xmr, p_task.old).ok)
           \/ \E c \in Access!NodeCoins :
                /\ c = (IF p_task.at = 1 THEN "part" ELSE "btc") /\ p_task.at \in {1, 2}
                /\ p_wallet' = [p_wallet EXCEPT ![c] = Access!UnlockWallet(c, p_wallet[c],
                                                                           p_task.old).v]
                /\ Access!Step(Access!UnlockWallet(c, p_wallet[c], p_task.old).ok) /\ p_xmr' = p_xmr
<1>1. /\ p_task.at \in 1..3
      /\ Access!CoinOrder[p_task.at]
           = (IF p_task.at = 1 THEN "part" ELSE IF p_task.at = 2 THEN "btc" ELSE "xmr")
  BY CoinAt DEF Access!UnlockOne
<1> QED
  BY <1>1 DEF Access!UnlockOne, Access!NodeCoins

\* What changing one password does.
LEMMA ChangesOne ==
    ASSUME Access!ConstantsOK, PasswordsTyped, Access!ChangeOne
    PROVE  \/ /\ p_task.at = 3 /\ p_wallet' = p_wallet
              /\ p_xmr' = Access!XmrChange(p_xmr, p_task.old, p_task.new).v
              /\ Access!Step(Access!XmrChange(p_xmr, p_task.old, p_task.new).ok)
           \/ \E c \in Access!NodeCoins, keeps, captured, restored \in BOOLEAN :
                LET r ==
                        Access!ChangeWalletPassword(p_wallet[c], p_task.old, p_task.new, keeps,
                                                    captured, restored)
                IN  /\ c = (IF p_task.at = 1 THEN "part" ELSE "btc") /\ p_task.at \in {1, 2}
                    /\ p_wallet' = [p_wallet EXCEPT ![c] = r.v] /\ Access!Step(r.ok)
                    /\ p_xmr' = p_xmr
<1>1. /\ p_task.at \in 1..3
      /\ Access!CoinOrder[p_task.at]
           = (IF p_task.at = 1 THEN "part" ELSE IF p_task.at = 2 THEN "btc" ELSE "xmr")
  BY CoinAt DEF Access!ChangeOne
<1> QED
  BY <1>1 DEF Access!ChangeOne, Access!NodeCoins

\* Types are kept when a wallet is unlocked.
LEMMA UnlockOneTyped ==
    ASSUME Access!ConstantsOK, PasswordsTyped, Access!UnlockOne
    PROVE PasswordsTyped'
<1>1. p_task.op # "idle" /\ p_task.at <= 3 /\ p_task.old \in PW /\ p_task.new \in PW
  <2>1. p_task.phase # "none" /\ p_task.at <= Len(Access!CoinOrder)
    BY DEF Access!UnlockOne
  <2> QED
    BY <2>1, CoinAt
<1>2. p_wallet' \in [Access!NodeCoins -> Wallets] /\ p_xmr' \in XmrWallets
      /\ \E ok \in BOOLEAN : Access!Step(ok)
  <2>1. Access!XmrUnlock(p_xmr, p_task.old).v \in XmrWallets
          /\ Access!XmrUnlock(p_xmr, p_task.old).ok \in BOOLEAN
    BY <1>1, XmrResult DEF PasswordsTyped
  <2>2. ASSUME NEW c \in Access!NodeCoins
        PROVE  /\ Access!UnlockWallet(c, p_wallet[c], p_task.old).v \in Wallets
               /\ Access!UnlockWallet(c, p_wallet[c], p_task.old).ok \in BOOLEAN
    BY <1>1, UnlockResult DEF PasswordsTyped
  <2> QED
    BY <2>1, <2>2, UnlocksOne DEF PasswordsTyped
<1> QED
  BY <1>1, <1>2, RequestStepTyped DEF PasswordsTyped, Access!UnlockOne

\* Types are kept when a wallet's password changes.
LEMMA ChangeOneTyped ==
    ASSUME Access!ConstantsOK, PasswordsTyped, Access!ChangeOne
    PROVE PasswordsTyped'
<1>1. p_task.op # "idle" /\ p_task.at <= 3 /\ p_task.old \in PW /\ p_task.new \in PW
        /\ ~NoPassword(p_task.new)
  <2>1. p_task.phase = "change" /\ p_task.at <= Len(Access!CoinOrder)
    BY DEF Access!ChangeOne
  <2>2. p_task.op = "change"
    BY <2>1, TaskFields, IdleTask DEF PasswordsTyped, TaskOK
  <2> QED
    BY <2>1, <2>2, CoinAt
<1>2. p_wallet' \in [Access!NodeCoins -> Wallets] /\ p_xmr' \in XmrWallets
      /\ \E ok \in BOOLEAN : Access!Step(ok)
  <2>1. /\ Access!XmrChange(p_xmr, p_task.old, p_task.new).v \in XmrWallets
        /\ Access!XmrChange(p_xmr, p_task.old, p_task.new).ok \in BOOLEAN
    BY <1>1, XmrResult DEF PasswordsTyped
  <2>2. ASSUME NEW c \in Access!NodeCoins, NEW keeps \in BOOLEAN, NEW captured \in BOOLEAN,
               NEW restored \in BOOLEAN
        PROVE  LET r ==
                   Access!ChangeWalletPassword(p_wallet[c], p_task.old, p_task.new, keeps, captured,
                                               restored)
               IN  r.v \in Wallets /\ r.ok \in BOOLEAN
    <3> DEFINE r ==
                   Access!ChangeWalletPassword(p_wallet[c], p_task.old, p_task.new, keeps, captured,
                                               restored)
    <3>1. ChangeOK(p_wallet[c], p_task.old, p_task.new, r)
      BY <1>1, ChangeResult DEF PasswordsTyped
    <3> HIDE DEF r
    <3>2. r.v \in Wallets /\ r.ok \in BOOLEAN
      BY <3>1 DEF ChangeOK
    <3> QED
      BY <3>2 DEF r
  <2>3. CASE \E c \in Access!NodeCoins, keeps, captured, restored \in BOOLEAN :
                LET r ==
                        Access!ChangeWalletPassword(p_wallet[c], p_task.old, p_task.new, keeps,
                                                    captured, restored)
                IN  p_wallet' = [p_wallet EXCEPT ![c] = r.v] /\ Access!Step(r.ok) /\ p_xmr' = p_xmr
    <3>1. PICK c \in Access!NodeCoins, keeps \in BOOLEAN, captured \in BOOLEAN,
          restored \in BOOLEAN :
            LET r ==
                    Access!ChangeWalletPassword(p_wallet[c], p_task.old, p_task.new, keeps,
                                                captured, restored)
            IN  p_wallet' = [p_wallet EXCEPT ![c] = r.v] /\ Access!Step(r.ok) /\ p_xmr' = p_xmr
      BY <2>3
    <3> DEFINE r ==
                   Access!ChangeWalletPassword(p_wallet[c], p_task.old, p_task.new, keeps, captured,
                                               restored)
    <3>2. r.v \in Wallets /\ r.ok \in BOOLEAN
      BY <2>2
    <3>3. p_wallet' = [p_wallet EXCEPT ![c] = r.v] /\ Access!Step(r.ok) /\ p_xmr' = p_xmr
      BY <3>1
    <3> HIDE DEF r
    <3> QED
      BY <3>2, <3>3 DEF PasswordsTyped
  <2>4. CASE /\ p_wallet' = p_wallet /\ p_xmr' = Access!XmrChange(p_xmr, p_task.old, p_task.new).v
             /\ Access!Step(Access!XmrChange(p_xmr, p_task.old, p_task.new).ok)
    BY <2>1, <2>4 DEF PasswordsTyped
  <2> QED
    BY <2>3, <2>4, ChangesOne, Zenon
<1> QED
  BY <1>1, <1>2, RequestStepTyped DEF PasswordsTyped, Access!ChangeOne

\* Types are kept by every step.
LEMMA PasswordTypesKept ==
    ASSUME Access!ConstantsOK, PasswordsTyped, [Access!Next]_(Access!vars)
    PROVE PasswordsTyped'
<1>1. ASSUME NEW coin \in Access!CoinArgs, NEW new \in Passwords, NEW old \in Passwords \cup {""},
             Access!StartChange(coin, old, new) PROVE PasswordsTyped'
  BY <1>1, RequestTyped DEF PW
<1>2. ASSUME NEW coin \in Access!CoinArgs, NEW p \in Passwords, Access!StartUnlock(coin, p)
      PROVE  PasswordsTyped'
  BY <1>2, RequestTyped DEF PW, Access!ConstantsOK, NoPassword
<1>3. CASE Access!SkipCoin
  <2>1. TaskOK(p_task')
    BY <1>3, RequestStepTyped, CoinsInOrder DEF Access!SkipCoin, PasswordsTyped
  <2> QED
    BY <1>3, <2>1 DEF Access!SkipCoin, PasswordsTyped
<1>4. CASE Access!UnlockOne
  BY <1>4, UnlockOneTyped
<1>5. CASE Access!UnlockedAll
  <2>1. TaskOK(p_task')
    <3>1. p_task \in Tasks /\ p_task' = [p_task EXCEPT !.phase = "change", !.at = 1]
            /\ p_task.op = "change"
      BY <1>5 DEF Access!UnlockedAll, PasswordsTyped, TaskOK
    <3>2. /\ p_task' \in Tasks /\ p_task'.at = 1 /\ p_task'.op = p_task.op
          /\ p_task'.coin = p_task.coin
          /\ p_task'.old = p_task.old /\ p_task'.new = p_task.new /\ p_task'.phase = "change"
      BY <3>1, TaskChanges
    <3> QED
      BY <3>1, <3>2 DEF PasswordsTyped, TaskOK
  <2> QED
    BY <1>5, <2>1 DEF Access!UnlockedAll, PasswordsTyped
<1>6. CASE Access!ChangeOne
  BY <1>6, ChangeOneTyped
<1>7. CASE Access!EndChange
  BY <1>7, IdleTask DEF Access!EndChange, PasswordsTyped, Access!IsWalletLocked
<1>8. CASE Access!EndUnlock
  BY <1>8, IdleTask DEF Access!EndUnlock, PasswordsTyped
<1>9. ASSUME NEW coin \in Access!CoinArgs, Access!LockWallets(coin) PROVE PasswordsTyped'
  <2>1. p_wallet' \in [Access!NodeCoins -> Wallets]
    BY <1>9, WalletChanges DEF Access!LockWallets, PasswordsTyped
  <2>2. p_xmr' \in XmrWallets
    BY <1>9, XmrChanges DEF Access!LockWallets, PasswordsTyped
  <2> QED
    BY <1>9, <2>1, <2>2 DEF Access!LockWallets, PasswordsTyped
<1>10. ASSUME NEW use_descriptors \in BOOLEAN, Access!ReseedWallet(use_descriptors)
       PROVE  PasswordsTyped'
  <2>1. "btc" \in Access!NodeCoins
    BY DEF Access!NodeCoins
  <2>2. p_wallet' = [p_wallet EXCEPT !["btc"] = Reseeded(p_wallet["btc"], use_descriptors)]
    BY <1>10 DEF Access!ReseedWallet, Reseeded
  <2>3. p_wallet' \in [Access!NodeCoins -> Wallets]
    BY <2>1, <2>2, ReseedResult DEF PasswordsTyped
  <2> QED
    BY <1>10, <2>3 DEF Access!ReseedWallet, PasswordsTyped
<1>11. CASE Access!RpcFails
  BY <1>11, IdleTask, UsedMoves DEF Access!RpcFails, PasswordsTyped
<1>12. ASSUME NEW s \in Swaps, Access!AcceptBid(s) \/ Access!OpenSwapWallet(s)
         \/ Access!FinishSwap(s)
       PROVE  PasswordsTyped'
  <2>1. p_xmr' \in XmrWallets
    <3>1. p_xmr' = p_xmr \/ p_xmr' = [p_xmr EXCEPT !.open = FALSE]
      BY <1>12 DEF Access!AcceptBid, Access!OpenSwapWallet, Access!FinishSwap
    <3> QED
      BY <3>1, XmrChanges DEF PasswordsTyped
  <2> QED
    BY <1>12, <2>1 DEF Access!AcceptBid, Access!OpenSwapWallet, Access!FinishSwap, PasswordsTyped
<1>13. CASE Access!OpenMainWallet
  <2>1. p_xmr' \in XmrWallets
    <3>1. Access!CanOpenMain(p_xmr) \in BOOLEAN
      BY DEF Access!CanOpenMain, PasswordsTyped, XmrWallets
    <3> QED
      BY <1>13, <3>1, XmrChanges DEF Access!OpenMainWallet, PasswordsTyped
  <2> QED
    BY <1>13, <2>1 DEF Access!OpenMainWallet, PasswordsTyped
<1>14. CASE Access!Restart
  <2>1. p_wallet' \in [Access!NodeCoins -> Wallets]
    BY <1>14, WalletChanges DEF Access!Restart, PasswordsTyped
  <2>2. p_xmr' \in XmrWallets
    BY <1>14, XmrChanges DEF Access!Restart, PasswordsTyped
  <2> QED
    BY <1>14, <2>1, <2>2, IdleTask, UsedMoves DEF Access!Restart, PasswordsTyped
<1>15. CASE UNCHANGED Access!vars
  BY <1>15 DEF Access!vars, PasswordsTyped
<1> QED
  BY <1>1, <1>2, <1>3, <1>4, <1>5, <1>6, <1>7, <1>8, <1>9, <1>10, <1>11, <1>12, <1>13, <1>14, <1>15
     DEF Access!Next

\* The steps that touch a node wallet.
LEMMA WalletSteps ==
    ASSUME PasswordsTyped, [Access!Next]_(Access!vars)
    PROVE  \/ p_wallet' = p_wallet
           \/ Access!UnlockOne
           \/ Access!ChangeOne
           \/ \E coin \in Access!CoinArgs : Access!LockWallets(coin)
           \/ \E use_descriptors \in BOOLEAN : Access!ReseedWallet(use_descriptors)
           \/ Access!Restart
  BY Zenon
     DEF Access!Next, Access!vars, Access!StartChange, Access!StartUnlock, Access!SkipCoin,
         Access!UnlockedAll, Access!EndChange, Access!EndUnlock, Access!RpcFails, Access!AcceptBid,
         Access!OpenSwapWallet, Access!FinishSwap, Access!OpenMainWallet

\* What those steps keep of each wallet: a password, a load.
\* reseedWallet is of the Bitcoin wallet.
LEMMA Reseeds ==
    ASSUME PasswordsTyped, NEW use_descriptors \in BOOLEAN, Access!ReseedWallet(use_descriptors)
    PROVE  /\ p_wallet' = [p_wallet EXCEPT !["btc"] = Reseeded(p_wallet["btc"], use_descriptors)]
           /\ p_wallet'["btc"] = Reseeded(p_wallet["btc"], use_descriptors)
           /\ p_wallet'["part"] = p_wallet["part"] /\ p_wallet["btc"].warn
<1>1. p_wallet' = [p_wallet EXCEPT !["btc"] = Reseeded(p_wallet["btc"], use_descriptors)]
  BY DEF Access!ReseedWallet, Reseeded
<1> QED
  BY <1>1 DEF PasswordsTyped, Access!NodeCoins, Access!ReseedWallet

\* A wallet that is unlocked by a request.
LEMMA Unlocks ==
    ASSUME Access!ConstantsOK, PasswordsTyped, Access!UnlockOne, p_wallet' # p_wallet
    PROVE  \E c \in Access!NodeCoins :
             /\ c = (IF p_task.at = 1 THEN "part" ELSE "btc") /\ p_task.at \in {1, 2}
             /\ p_wallet'[c] = Access!UnlockWallet(c, p_wallet[c], p_task.old).v
             /\ Access!Step(Access!UnlockWallet(c, p_wallet[c], p_task.old).ok)
             /\ \A d \in Access!NodeCoins \ {c} : p_wallet'[d] = p_wallet[d]
             /\ p_xmr' = p_xmr
<1>1. PICK c \in Access!NodeCoins :
        /\ c = (IF p_task.at = 1 THEN "part" ELSE "btc") /\ p_task.at \in {1, 2}
        /\ p_wallet' = [p_wallet EXCEPT ![c] = Access!UnlockWallet(c, p_wallet[c], p_task.old).v]
        /\ Access!Step(Access!UnlockWallet(c, p_wallet[c], p_task.old).ok) /\ p_xmr' = p_xmr
  BY UnlocksOne
<1> HIDE DEF PasswordsTyped
<1>2. p_wallet \in [Access!NodeCoins -> Wallets]
  BY DEF PasswordsTyped
<1> QED
  BY <1>1, <1>2

\* A wallet whose password a request changes.
LEMMA Changes ==
    ASSUME Access!ConstantsOK, PasswordsTyped, Access!ChangeOne, p_wallet' # p_wallet
    PROVE  \E c \in Access!NodeCoins, keeps, captured, restored \in BOOLEAN :
             /\ c = (IF p_task.at = 1 THEN "part" ELSE "btc") /\ p_task.at \in {1, 2}
             /\ p_wallet'[c] =
                  Access!ChangeWalletPassword(p_wallet[c], p_task.old, p_task.new, keeps, captured,
                                              restored).v
             /\ Access!Step(Access!ChangeWalletPassword(p_wallet[c], p_task.old, p_task.new, keeps,
                                                        captured, restored).ok)
             /\ \A d \in Access!NodeCoins \ {c} : p_wallet'[d] = p_wallet[d]
             /\ p_xmr' = p_xmr
<1>1. PICK c \in Access!NodeCoins, keeps \in BOOLEAN, captured \in BOOLEAN, restored \in BOOLEAN :
        LET r ==
                Access!ChangeWalletPassword(p_wallet[c], p_task.old, p_task.new, keeps, captured,
                                            restored)
        IN  /\ c = (IF p_task.at = 1 THEN "part" ELSE "btc") /\ p_task.at \in {1, 2}
            /\ p_wallet' = [p_wallet EXCEPT ![c] = r.v] /\ Access!Step(r.ok) /\ p_xmr' = p_xmr
  BY ChangesOne
<1>2. p_wallet \in [Access!NodeCoins -> Wallets]
  BY DEF PasswordsTyped
<1> QED
  BY <1>1, <1>2

\* The fields of the request and of the wallets it meets.
LEMMA Meets ==
    ASSUME Access!ConstantsOK, PasswordsTyped, Access!UnlockOne \/ Access!ChangeOne
    PROVE  /\ p_task.op # "idle" /\ p_task.at \in 1..3 /\ p_task.old \in PW /\ p_task.new \in PW
           /\ Access!ChangeOne => p_task.op = "change" /\ p_task.phase = "change"
                /\ ~NoPassword(p_task.new)
           /\ Access!UnlockOne => p_task.phase = "unlock"
           /\ \A c \in Access!NodeCoins : p_wallet[c] \in Wallets
<1>1. p_task.phase # "none" /\ p_task.at <= Len(Access!CoinOrder)
  BY DEF Access!UnlockOne, Access!ChangeOne
<1>2. p_task.phase = "change" => p_task.op = "change"
  BY TaskFields, IdleTask DEF PasswordsTyped, TaskOK
<1> QED
  BY <1>1, <1>2, CoinAt, TaskFields DEF PasswordsTyped, Access!UnlockOne, Access!ChangeOne

\* What a change of one password leaves of the wallet it meets.
LEMMA ChangeFields ==
    ASSUME Access!ConstantsOK, PasswordsTyped, Access!ChangeOne, NEW c \in Access!NodeCoins,
           NEW keeps \in BOOLEAN, NEW captured \in BOOLEAN, NEW restored \in BOOLEAN
    PROVE  ChangeOK(p_wallet[c], p_task.old, p_task.new,
             Access!ChangeWalletPassword(p_wallet[c], p_task.old, p_task.new, keeps, captured,
                                         restored))
<1>1. p_wallet[c] \in Wallets /\ p_task.old \in PW /\ p_task.new \in PW /\ ~NoPassword(p_task.new)
  BY Meets
<1> QED
  BY <1>1, ChangeResult

\* The inductive invariant of the seed warning (checkWalletSeed): any seed that is not the node's is
\* warned about, a missing one too.
SeedInv == p_wallet["btc"].seed # "swap" => p_wallet["btc"].warn

\* The seed warning stays through encryption, unlocking, a new seed and restarts.
LEMMA SeedKept ==
    ASSUME Access!ConstantsOK, ManageDaemon, PasswordsTyped, SeedInv, [Access!Next]_(Access!vars)
    PROVE  SeedInv'
<1>0. "btc" \in Access!NodeCoins /\ p_wallet["btc"] \in Wallets
  BY DEF PasswordsTyped, Access!NodeCoins
<1>1. CASE Access!UnlockOne /\ p_wallet' # p_wallet
  <2>1. PICK c \in Access!NodeCoins :
             /\ p_wallet'[c] = Access!UnlockWallet(c, p_wallet[c], p_task.old).v
             /\ \A d \in Access!NodeCoins \ {c} : p_wallet'[d] = p_wallet[d]
    BY <1>1, Unlocks
  <2>2. CASE c = "btc"
    <3>1. SeedInv => (Access!UnlockWallet(c, p_wallet[c], p_task.old).v.seed # "swap" =>
                        Access!UnlockWallet(c, p_wallet[c], p_task.old).v.warn)
      BY <1>0, <1>1, <2>2, Meets, UnlockResult DEF SeedInv
    <3> QED
      BY <2>1, <2>2, <3>1 DEF SeedInv
  <2>3. CASE c # "btc"
    BY <1>0, <2>1, <2>3 DEF SeedInv
  <2> QED
    BY <2>2, <2>3
<1>2. CASE Access!ChangeOne /\ p_wallet' # p_wallet
  <2>1. PICK c \in Access!NodeCoins, keeps \in BOOLEAN, captured \in BOOLEAN, restored \in BOOLEAN :
             /\ p_wallet'[c] =
                  Access!ChangeWalletPassword(p_wallet[c], p_task.old, p_task.new, keeps, captured,
                                              restored).v
             /\ \A d \in Access!NodeCoins \ {c} : p_wallet'[d] = p_wallet[d]
    BY <1>2, Changes
  <2>2. CASE c = "btc"
    <3> DEFINE r ==
                   Access!ChangeWalletPassword(p_wallet[c], p_task.old, p_task.new, keeps, captured,
                                               restored)
    <3>1. ChangeOK(p_wallet[c], p_task.old, p_task.new, r)
      BY <1>2, ChangeFields
    <3>2. p_wallet'["btc"] = r.v
      BY <2>1, <2>2
    <3> HIDE DEF r
    <3> QED
      BY <2>2, <3>1, <3>2 DEF SeedInv, ChangeOK
  <2>3. CASE c # "btc"
    BY <1>0, <2>1, <2>3 DEF SeedInv
  <2> QED
    BY <2>2, <2>3
<1>3. ASSUME NEW coin \in Access!CoinArgs, Access!LockWallets(coin) PROVE SeedInv'
  <2> DEFINE v == [p_wallet["btc"] EXCEPT !.unlocked = FALSE]
  <2>1. p_wallet'["btc"] = p_wallet["btc"] \/ p_wallet'["btc"] = v
    BY <1>0, <1>3 DEF Access!LockWallets
  <2>2. v.seed = p_wallet["btc"].seed /\ v.warn = p_wallet["btc"].warn
    BY <1>0, WalletChanges
  <2> HIDE DEF v
  <2> QED
    BY <2>1, <2>2 DEF SeedInv
<1>4. ASSUME NEW use_descriptors \in BOOLEAN, Access!ReseedWallet(use_descriptors) PROVE SeedInv'
  BY <1>0, <1>4, Reseeds, ReseedResult DEF SeedInv
<1>5. CASE Access!Restart
  <2> DEFINE v == [p_wallet["btc"] EXCEPT !.unlocked = p_wallet["btc"].pw = "", !.loaded = TRUE,
                                        !.warn = p_wallet["btc"].seed # "swap"]
  <2>1. p_wallet'["btc"] = v
    BY <1>0, <1>5 DEF Access!Restart
  <2>2. v.seed = p_wallet["btc"].seed /\ v.warn = (p_wallet["btc"].seed # "swap")
    BY <1>0, WalletChanges
  <2> HIDE DEF v
  <2> QED
    BY <2>1, <2>2 DEF SeedInv
<1>6. CASE p_wallet' = p_wallet
  BY <1>6 DEF SeedInv
<1> QED
  BY <1>1, <1>2, <1>3, <1>4, <1>5, <1>6, WalletSteps

\* The inductive invariant of loaded wallets: they are loaded in the middle of a request, too.
LoadedInv == \A c \in Access!NodeCoins : p_wallet[c].loaded

\* A wallet that is unloaded to be encrypted is loaded again in the same step of the request.
LEMMA LoadedKept ==
    ASSUME Access!ConstantsOK, FoundPath, PasswordsTyped, LoadedInv, [Access!Next]_(Access!vars)
    PROVE  LoadedInv'
<1>0. \A c \in Access!NodeCoins : p_wallet[c] \in Wallets /\ p_wallet[c].loaded
  BY DEF PasswordsTyped, LoadedInv
<1>1. CASE Access!UnlockOne /\ p_wallet' # p_wallet
  <2>1. PICK c \in Access!NodeCoins :
             /\ p_wallet'[c] = Access!UnlockWallet(c, p_wallet[c], p_task.old).v
             /\ \A d \in Access!NodeCoins \ {c} : p_wallet'[d] = p_wallet[d]
    BY <1>1, Unlocks
  <2>2. Access!UnlockWallet(c, p_wallet[c], p_task.old).v.loaded
    BY <1>0, <1>1, Meets, UnlockResult
  <2> QED
    BY <1>0, <2>1, <2>2 DEF LoadedInv
<1>2. CASE Access!ChangeOne /\ p_wallet' # p_wallet
  <2>1. PICK c \in Access!NodeCoins, keeps \in BOOLEAN, captured \in BOOLEAN, restored \in BOOLEAN :
             /\ p_wallet'[c] =
                  Access!ChangeWalletPassword(p_wallet[c], p_task.old, p_task.new, keeps, captured,
                                              restored).v
             /\ \A d \in Access!NodeCoins \ {c} : p_wallet'[d] = p_wallet[d]
    BY <1>2, Changes
  <2>2. Access!ChangeWalletPassword(p_wallet[c], p_task.old, p_task.new, keeps, captured,
                                    restored).v.loaded
    <3> DEFINE r ==
                   Access!ChangeWalletPassword(p_wallet[c], p_task.old, p_task.new, keeps, captured,
                                               restored)
    <3>1. ChangeOK(p_wallet[c], p_task.old, p_task.new, r)
      BY <1>2, ChangeFields
    <3> HIDE DEF r
    <3>2. r.v.loaded
      BY <1>0, <3>1 DEF ChangeOK
    <3> QED
      BY <3>2 DEF r
  <2> QED
    BY <1>0, <2>1, <2>2 DEF LoadedInv
<1>3. ASSUME NEW coin \in Access!CoinArgs, Access!LockWallets(coin) PROVE LoadedInv'
  <2>1. ASSUME NEW c \in Access!NodeCoins
        PROVE  p_wallet'[c].loaded
    <3> DEFINE v == [p_wallet[c] EXCEPT !.unlocked = FALSE]
    <3>1. p_wallet'[c] = p_wallet[c] \/ p_wallet'[c] = v
      BY <1>3 DEF Access!LockWallets
    <3>2. v.loaded = p_wallet[c].loaded
      BY <1>0, WalletChanges
    <3> HIDE DEF v
    <3> QED
      BY <1>0, <3>1, <3>2
  <2> QED
    BY <2>1 DEF LoadedInv
<1>4. ASSUME NEW use_descriptors \in BOOLEAN, Access!ReseedWallet(use_descriptors) PROVE LoadedInv'
  BY <1>0, <1>4, Reseeds, ReseedResult DEF LoadedInv, Access!NodeCoins
<1>5. CASE Access!Restart
  <2>1. ASSUME NEW c \in Access!NodeCoins
        PROVE  p_wallet'[c].loaded
    <3> DEFINE v == [p_wallet[c] EXCEPT !.unlocked = p_wallet[c].pw = "", !.loaded = TRUE,
                                      !.warn = p_wallet[c].seed # "swap"]
    <3>1. p_wallet'[c] = v
      BY <1>5 DEF Access!Restart
    <3>2. v.loaded
      BY <1>0, WalletChanges
    <3> HIDE DEF v
    <3> QED
      BY <3>1, <3>2
  <2> QED
    BY <2>1 DEF LoadedInv
<1>6. CASE p_wallet' = p_wallet
  BY <1>6 DEF LoadedInv
<1> QED
  BY <1>1, <1>2, <1>3, <1>4, <1>5, <1>6, WalletSteps

\* How a request goes on.
LEMMA StepFields ==
    ASSUME PasswordsTyped, p_task.op # "idle", NEW ok \in BOOLEAN, Access!Step(ok)
    PROVE  /\ ok => /\ p_task'.at = p_task.at + 1 /\ p_task'.op = p_task.op
                /\ p_task'.coin = p_task.coin
                    /\ p_task'.old = p_task.old /\ p_task'.new = p_task.new
                    /\ p_task'.phase = p_task.phase
           /\ ~ok => p_task' = Access!Idle /\ p_task'.op = "idle" /\ p_task'.phase = "none"
<1>1. CASE ok
  <2>1. p_task \in Tasks /\ p_task.at + 1 \in Nat /\ p_task' = [p_task EXCEPT !.at = p_task.at + 1]
    BY <1>1, TaskFields DEF PasswordsTyped, TaskOK, Access!Step
  <2> QED
    BY <1>1, <2>1, TaskMoves
<1>2. CASE ~ok
  BY <1>2, IdleTask DEF Access!Step
<1> QED
  BY <1>1, <1>2

\* A request that unlocks or changes: no coin is left out.
LEMMA NoneSkipped == ASSUME PasswordsTyped, ~PerCoin PROVE ~Access!SkipCoin
  BY DEF PasswordsTyped, TaskOK, Access!SkipCoin, Access!InScope

\* Every node wallet is unlocked.
AllUnlocked == \A c \in Access!NodeCoins : p_wallet[c].unlocked

\* The inductive invariant: while the system counts as unlocked the wallets are, and a request
\* has unlocked the wallets that it is past.
HalfInv ==
    /\ \A c \in Access!NodeCoins : ~NoPassword(p_wallet[c].pw)
    /\ ~p_isLocked => AllUnlocked
    /\ p_inProgress # {} => ~p_isLocked
    /\ p_task.phase = "unlock" /\ ~NoPassword(p_task.old) =>
        /\ p_task.at >= 2 => p_wallet["part"].unlocked
        /\ p_task.at >= 3 => p_wallet["btc"].unlocked
    /\ p_task.phase = "change" => IF NoPassword(p_task.old) THEN p_task.at = 1 ELSE AllUnlocked

\* The invariant is kept when a request unlocks a wallet: it goes on only if that worked.
LEMMA HalfUnlock ==
    ASSUME Access!ConstantsOK, ~PerCoin, PasswordsTyped, HalfInv, Access!UnlockOne
    PROVE  HalfInv'
<1>0. /\ p_task.op # "idle" /\ p_task.at \in 1..3 /\ p_task.old \in PW /\ p_task.phase = "unlock"
      /\ \A c \in Access!NodeCoins : p_wallet[c] \in Wallets
      /\ p_isLocked' = p_isLocked /\ p_inProgress' = p_inProgress
  BY Meets DEF Access!UnlockOne
<1>1. CASE p_task.at = 3
  <2>1. p_wallet' = p_wallet /\ Access!Step(Access!XmrUnlock(p_xmr, p_task.old).ok)
    BY <1>1, UnlocksOne
  <2>2. Access!XmrUnlock(p_xmr, p_task.old).ok \in BOOLEAN
    BY <1>0, XmrResult DEF PasswordsTyped
  <2>3. \/ /\ p_task'.at = p_task.at + 1 /\ p_task'.old = p_task.old /\ p_task'.phase = p_task.phase
        \/ p_task'.phase = "none"
    BY <1>0, <2>1, <2>2, StepFields
  <2> QED
    BY <1>0, <1>1, <2>1, <2>3 DEF HalfInv, AllUnlocked
<1>2. CASE p_task.at \in {1, 2}
  <2>1. PICK c \in Access!NodeCoins :
          /\ c = (IF p_task.at = 1 THEN "part" ELSE "btc")
          /\ p_wallet' = [p_wallet EXCEPT ![c] = Access!UnlockWallet(c, p_wallet[c], p_task.old).v]
          /\ Access!Step(Access!UnlockWallet(c, p_wallet[c], p_task.old).ok)
    BY <1>2, UnlocksOne
  <2> DEFINE r == Access!UnlockWallet(c, p_wallet[c], p_task.old)
  <2>2. /\ r.ok \in BOOLEAN /\ (p_wallet[c].unlocked => r.v.unlocked)
        /\ ~NoPassword(r.v.pw) /\ (~NoPassword(p_task.old) /\ r.ok => r.v.unlocked)
    <3>1. ~NoPassword(p_wallet[c].pw)
      BY DEF HalfInv
    <3> QED
      BY <1>0, <3>1, UnlockResult
  <2>3. p_wallet'[c] = r.v /\ \A d \in Access!NodeCoins \ {c} : p_wallet'[d] = p_wallet[d]
    BY <2>1 DEF PasswordsTyped
  <2>4. Access!Step(r.ok)
    BY <2>1
  <2> HIDE DEF r
  <2>5. \/ /\ r.ok /\ p_task'.at = p_task.at + 1 /\ p_task'.old = p_task.old
           /\ p_task'.phase = p_task.phase
        \/ p_task'.phase = "none"
    BY <1>0, <2>2, <2>4, StepFields
  <2>6. \A d \in Access!NodeCoins : ~NoPassword(p_wallet'[d].pw)
          /\ (p_wallet[d].unlocked => p_wallet'[d].unlocked)
    BY <2>2, <2>3 DEF HalfInv
  <2>7. ~NoPassword(p_task.old) /\ r.ok => p_wallet'[c].unlocked
    BY <2>2, <2>3
  <2>8. "part" \in Access!NodeCoins /\ "btc" \in Access!NodeCoins
    BY DEF Access!NodeCoins
  <2> QED
    BY <1>0, <1>2, <2>1, <2>5, <2>6, <2>7, <2>8 DEF HalfInv, AllUnlocked
<1> QED
  BY <1>0, <1>1, <1>2

\* The invariant is kept when a password is changed: unlocked wallets stay so.
LEMMA HalfChange ==
    ASSUME Access!ConstantsOK, ~PerCoin, PasswordsTyped, HalfInv, Access!ChangeOne
    PROVE  HalfInv'
<1>0. /\ p_task.op # "idle" /\ p_task.at \in 1..3 /\ p_task.old \in PW /\ p_task.new \in PW
      /\ ~NoPassword(p_task.new) /\ p_task.phase = "change"
      /\ \A c \in Access!NodeCoins : p_wallet[c] \in Wallets
      /\ p_isLocked' = p_isLocked /\ p_inProgress' = p_inProgress
  BY Meets DEF Access!ChangeOne
<1>1. CASE p_task.at = 3
  <2>1. p_wallet' = p_wallet /\ Access!Step(Access!XmrChange(p_xmr, p_task.old, p_task.new).ok)
    BY <1>1, ChangesOne
  <2>2. Access!XmrChange(p_xmr, p_task.old, p_task.new).ok \in BOOLEAN
    BY <1>0, XmrResult DEF PasswordsTyped
  <2>3. \/ /\ p_task'.at = p_task.at + 1 /\ p_task'.old = p_task.old /\ p_task'.phase = p_task.phase
        \/ p_task'.phase = "none"
    BY <1>0, <2>1, <2>2, StepFields
  <2> QED
    BY <1>0, <1>1, <2>1, <2>3 DEF HalfInv, AllUnlocked
<1>2. CASE p_task.at \in {1, 2}
  <2>1. PICK c \in Access!NodeCoins, keeps \in BOOLEAN, captured \in BOOLEAN, restored \in BOOLEAN :
          LET r ==
                  Access!ChangeWalletPassword(p_wallet[c], p_task.old, p_task.new, keeps, captured,
                                              restored)
          IN  p_wallet' = [p_wallet EXCEPT ![c] = r.v] /\ Access!Step(r.ok)
    BY <1>2, ChangesOne
  <2> DEFINE r ==
                 Access!ChangeWalletPassword(p_wallet[c], p_task.old, p_task.new, keeps, captured,
                                             restored)
  <2>2. /\ r.ok \in BOOLEAN /\ (p_wallet[c].unlocked => r.v.unlocked)
        /\ ~NoPassword(r.v.pw) /\ (NoPassword(p_task.old) => ~r.ok)
    <3>1. ~NoPassword(p_wallet[c].pw) /\ c \in Access!NodeCoins
      BY DEF HalfInv
    <3>2. ChangeOK(p_wallet[c], p_task.old, p_task.new, r)
      BY ChangeFields
    <3> HIDE DEF r
    <3> QED
      BY <3>1, <3>2 DEF ChangeOK
  <2>3. p_wallet'[c] = r.v /\ \A d \in Access!NodeCoins \ {c} : p_wallet'[d] = p_wallet[d]
    BY <2>1 DEF PasswordsTyped
  <2>4. Access!Step(r.ok)
    BY <2>1
  <2> HIDE DEF r
  <2>5. \/ /\ r.ok /\ p_task'.at = p_task.at + 1 /\ p_task'.old = p_task.old
           /\ p_task'.phase = p_task.phase
        \/ p_task'.phase = "none"
    BY <1>0, <2>2, <2>4, StepFields
  <2>6. \A d \in Access!NodeCoins : ~NoPassword(p_wallet'[d].pw)
          /\ (p_wallet[d].unlocked => p_wallet'[d].unlocked)
    BY <2>2, <2>3 DEF HalfInv
  <2> QED
    BY <1>0, <2>2, <2>5, <2>6 DEF HalfInv, AllUnlocked
<1> QED
  BY <1>0, <1>1, <1>2

\* The invariant is kept by every step.
LEMMA HalfKept ==
    ASSUME Access!ConstantsOK, ~PerCoin, PasswordsTyped, HalfInv, [Access!Next]_(Access!vars)
    PROVE  HalfInv'
<1>0. /\ \A c \in Access!NodeCoins : p_wallet[c] \in Wallets /\ ~NoPassword(p_wallet[c].pw)
      /\ "part" \in Access!NodeCoins /\ "btc" \in Access!NodeCoins /\ p_task \in Tasks
      /\ p_isLocked \in BOOLEAN
  BY DEF PasswordsTyped, TaskOK, HalfInv, Access!NodeCoins
<1>1. ASSUME NEW coin \in Access!CoinArgs, NEW old \in PW, NEW new \in Passwords,
             Access!StartChange(coin, old, new) \/ Access!StartUnlock(coin, old)
      PROVE  HalfInv'
  <2>1. /\ p_task'.phase = "unlock" /\ p_task'.at = 1
        /\ UNCHANGED <<p_wallet, p_isLocked, p_inProgress>>
    <3>1. CASE Access!StartChange(coin, old, new)
      BY <3>1 DEF Access!StartChange
    <3>2. CASE Access!StartUnlock(coin, old)
      BY <3>2 DEF Access!StartUnlock
    <3> QED
      BY <1>1, <3>1, <3>2
  <2> QED
    BY <2>1 DEF HalfInv, AllUnlocked
<1>3. CASE Access!UnlockOne
  BY <1>3, HalfUnlock
<1>4. CASE Access!UnlockedAll
  <2>1. p_task'.at = 1 /\ p_task'.old = p_task.old /\ p_task'.phase = "change"
    BY <1>0, <1>4, TaskChanges DEF Access!UnlockedAll
  <2>2. p_task.phase = "unlock" /\ p_task.at >= 2 /\ p_task.at >= 3
    BY <1>0, <1>4, CoinsInOrder, TaskFields DEF Access!UnlockedAll
  <2>3. ~NoPassword(p_task.old) => AllUnlocked
    BY <2>2 DEF HalfInv, AllUnlocked, Access!NodeCoins
  <2>4. UNCHANGED <<p_wallet, p_isLocked, p_inProgress>>
    BY <1>4 DEF Access!UnlockedAll
  <2> QED
    BY <2>1, <2>3, <2>4 DEF HalfInv, AllUnlocked
<1>5. CASE Access!ChangeOne
  BY <1>5, HalfChange
<1>6. CASE Access!EndChange
  <2>1. p_task'.phase = "none" /\ p_task.at >= 2 /\ p_task.phase = "change"
    BY <1>0, <1>6, CoinsInOrder, TaskFields, IdleTask DEF Access!EndChange
  <2>2. AllUnlocked
    BY <1>0, <2>1, TaskFields DEF HalfInv
  <2>3. p_isLocked' => p_isLocked
    BY <1>0, <1>6, <2>2 DEF Access!EndChange, Access!IsWalletLocked, AllUnlocked
  <2> QED
    BY <1>6, <2>1, <2>2, <2>3 DEF Access!EndChange, HalfInv, AllUnlocked
<1>7. CASE Access!EndUnlock
  <2>1. p_task'.phase = "none" /\ p_task.at >= 3 /\ p_task.phase = "unlock"
          /\ ~NoPassword(p_task.old)
        /\ p_task.coin = "all"
    BY <1>0, <1>7, CoinsInOrder, TaskFields, IdleTask
       DEF Access!EndUnlock, Access!UnlockedSoFar, PasswordsTyped, TaskOK
  <2>2. AllUnlocked
    BY <1>0, <2>1, TaskFields DEF HalfInv, AllUnlocked, Access!NodeCoins
  <2>3. ~p_isLocked' /\ p_wallet' = p_wallet
    BY <1>7, <2>1 DEF Access!EndUnlock, Access!InScope
  <2> QED
    BY <2>1, <2>2, <2>3 DEF HalfInv, AllUnlocked
<1>8. ASSUME NEW coin \in Access!CoinArgs, Access!LockWallets(coin) PROVE HalfInv'
  <2>1. coin = "all"
    BY DEF Access!CoinArgs
  <2>2. \A c \in Access!NodeCoins : p_wallet'[c].pw = p_wallet[c].pw
    <3>1. ASSUME NEW c \in Access!NodeCoins
          PROVE  p_wallet'[c] = p_wallet[c]
                   \/ p_wallet'[c] = [p_wallet[c] EXCEPT !.unlocked = FALSE]
      BY <1>8 DEF Access!LockWallets
    <3> QED
      BY <1>0, <3>1, WalletChanges
  <2>3. p_isLocked' /\ p_inProgress' = {} /\ p_task' = Access!Idle
    BY <1>8, <2>1 DEF Access!LockWallets
  <2> QED
    BY <2>2, <2>3, IdleTask DEF HalfInv
<1>9. ASSUME NEW use_descriptors \in BOOLEAN, Access!ReseedWallet(use_descriptors) PROVE HalfInv'
  <2>1. \A c \in Access!NodeCoins : p_wallet'[c].pw = p_wallet[c].pw
          /\ p_wallet'[c].unlocked = p_wallet[c].unlocked
    BY <1>0, <1>9, Reseeds, ReseedResult DEF Access!NodeCoins
  <2> QED
    BY <1>0, <1>9, <2>1 DEF Access!ReseedWallet, HalfInv, AllUnlocked
<1>10. CASE Access!RpcFails
  BY <1>10, IdleTask DEF Access!RpcFails, HalfInv, AllUnlocked
<1>11. ASSUME NEW s \in Swaps, Access!AcceptBid(s) \/ Access!OpenSwapWallet(s)
         \/ Access!FinishSwap(s)
       PROVE  HalfInv'
  BY <1>11
     DEF Access!AcceptBid, Access!OpenSwapWallet, Access!FinishSwap, HalfInv, AllUnlocked,
         Access!IsSystemUnlocked
<1>12. CASE Access!OpenMainWallet
  BY <1>12 DEF Access!OpenMainWallet, HalfInv, AllUnlocked
<1>13. CASE Access!Restart
  <2>1. \A c \in Access!NodeCoins : p_wallet'[c].pw = p_wallet[c].pw
    <3>1. ASSUME NEW c \in Access!NodeCoins
          PROVE  p_wallet'[c] = [p_wallet[c] EXCEPT !.unlocked = p_wallet[c].pw = "",
                                 !.loaded = TRUE,
                                               !.warn = p_wallet[c].seed # "swap"]
      BY <1>13 DEF Access!Restart
    <3> QED
      BY <1>0, <3>1, WalletChanges
  <2>2. p_isLocked' /\ p_inProgress' = {} /\ p_task' = Access!Idle
    BY <1>0, <1>13 DEF Access!Restart, NoPassword
  <2> QED
    BY <2>1, <2>2, IdleTask DEF HalfInv
<1>14. CASE UNCHANGED Access!vars
  BY <1>14 DEF Access!vars, HalfInv, AllUnlocked
<1>15. ~Access!SkipCoin
  BY NoneSkipped
<1>16. Passwords \subseteq PW /\ Passwords \cup {""} = PW
  BY DEF PW
<1> QED
  BY <1>1, <1>3, <1>4, <1>5, <1>6, <1>7, <1>8, <1>9, <1>10, <1>11, <1>12, <1>13, <1>14, <1>15,
     <1>16 DEF Access!Next

\* The main Monero wallet has its type.
LEMMA XmrTyped == ASSUME PasswordsTyped PROVE p_xmr \in XmrWallets
  BY DEF PasswordsTyped

\* The wallets at the start.
LEMMA InitialWallets ==
    ASSUME Access!Init
    PROVE  /\ \A c \in Access!NodeCoins : /\ p_wallet[c].pw = FirstPassword /\ p_wallet[c].unlocked
                                   /\ p_wallet[c].loaded
           /\ p_wallet["btc"].seed # "swap" => p_wallet["btc"].warn
<1>1. PICK seed \in {"swap", "none"} :
        p_wallet = [c \in Access!NodeCoins |->
           [pw |-> FirstPassword, unlocked |-> TRUE, loaded |-> TRUE,
            seed |-> IF c = "btc" /\ FirstPassword = "" THEN seed ELSE "swap",
            warn |-> c = "btc" /\ FirstPassword = "" /\ seed = "none"]]
  BY DEF Access!Init
<1>2. "btc" \in Access!NodeCoins
  BY DEF Access!NodeCoins
<1>3. \A c \in Access!NodeCoins : /\ p_wallet[c].pw = FirstPassword /\ p_wallet[c].unlocked
                            /\ p_wallet[c].loaded
  BY <1>1
<1>4. p_wallet["btc"].seed # "swap" => p_wallet["btc"].warn
  <2>1. p_wallet["btc"].seed = IF FirstPassword = "" THEN seed ELSE "swap"
    BY <1>1, <1>2
  <2>2. p_wallet["btc"].warn = (FirstPassword = "" /\ seed = "none")
    BY <1>1, <1>2
  <2> QED
    BY <2>1, <2>2
<1> QED
  BY <1>3, <1>4

\* Wallets, files and requests keep their types.
THEOREM PasswordTypes == ASSUME Access!ConstantsOK PROVE Access!Spec => []PasswordsTyped
<1>1. Access!Init => PasswordsTyped
  BY PasswordsStart
<1>2. PasswordsTyped /\ [Access!Next]_(Access!vars) => PasswordsTyped'
  BY PasswordTypesKept
<1> QED
  BY <1>1, <1>2, PTL DEF Access!Spec

\* A Bitcoin wallet whose keys are not derived from the node's seed is warned about (SeedWarned), if
\* the node manages the daemon: only then encryptWallet looks at the seed again.
THEOREM Warned == ASSUME Access!ConstantsOK, ManageDaemon PROVE Access!Spec => []Access!SeedWarned
<1>1. Access!Init => SeedInv
  BY InitialWallets DEF SeedInv
<1>2. PasswordsTyped /\ SeedInv /\ [Access!Next]_(Access!vars) => SeedInv'
  BY SeedKept
<1>3. SeedInv => Access!SeedWarned
  BY DEF SeedInv, Access!SeedWarned
<1> QED
  BY <1>1, <1>2, <1>3, PasswordTypes, PTL DEF Access!Spec

\* No password request leaves a node wallet unloaded (WalletsLoaded), if encryptWallet finds the
\* wallet files; an encryption that does not find them fails after it unloaded the wallet.
THEOREM StaysLoaded ==
    ASSUME Access!ConstantsOK, FoundPath
    PROVE Access!Spec => []Access!WalletsLoaded
<1>1. Access!Init => LoadedInv
  BY InitialWallets DEF LoadedInv
<1>2. PasswordsTyped /\ LoadedInv /\ [Access!Next]_(Access!vars) => LoadedInv'
  BY LoadedKept
<1>3. LoadedInv => Access!WalletsLoaded
  BY DEF LoadedInv, Access!WalletsLoaded
<1> QED
  BY <1>1, <1>2, <1>3, PasswordTypes, PTL DEF Access!Spec

\* The wallets have a password from the start.
Encrypted == ~NoPassword(FirstPassword)

\* No swap is in progress with wallets still locked (NoSwapHalfUnlocked), for wallets that have a
\* password and requests for all coins: unlockWallets clears _is_locked and loads the swaps only
\* when every wallet took the password.
THEOREM NeverHalfUnlocked ==
    ASSUME Access!ConstantsOK, Encrypted, ~PerCoin PROVE Access!Spec => []Access!NoSwapHalfUnlocked
<1>1. Access!Init => HalfInv
  <2>1. ASSUME Access!Init
        PROVE  \A c \in Access!NodeCoins : p_wallet[c].pw = FirstPassword /\ p_wallet[c].unlocked
    BY <2>1, InitialWallets
  <2> QED
    BY <2>1, IdleTask DEF Access!Init, HalfInv, AllUnlocked, Encrypted
<1>2. PasswordsTyped /\ HalfInv /\ [Access!Next]_(Access!vars) => HalfInv'
  BY HalfKept
<1>3. HalfInv => Access!NoSwapHalfUnlocked
  BY DEF HalfInv, Access!NoSwapHalfUnlocked, AllUnlocked, Access!IsWalletLocked
<1> QED
  BY <1>1, <1>2, <1>3, PasswordTypes, PTL DEF Access!Spec

\* The steps of a node that leave the password of the main Monero wallet alone.
LEMMA XmrSteps ==
    ASSUME Access!ConstantsOK, PasswordsTyped, [Access!Next]_(Access!vars)
    PROVE  Access!ChangeOne \/ p_xmr'.pw = p_xmr.pw
<1>1. CASE p_xmr' = p_xmr
  BY <1>1
<1>2. CASE Access!UnlockOne
  <2>1. p_task.old \in PW /\ p_task.new \in PW
    BY <1>2, Meets
  <2>2. Access!XmrUnlock(p_xmr, p_task.old).v.pw = p_xmr.pw
    BY <2>1, XmrTyped, XmrResult
  <2> QED
    BY <1>2, <2>2, UnlocksOne
<1>3. ASSUME NEW coin \in Access!CoinArgs, Access!LockWallets(coin) PROVE p_xmr'.pw = p_xmr.pw
  <2>1. p_xmr' = p_xmr \/ p_xmr' = [p_xmr EXCEPT !.mem = ""]
    BY <1>3 DEF Access!LockWallets
  <2> QED
    BY <2>1, XmrTyped DEF XmrWallets
<1>4. ASSUME NEW s \in Swaps, Access!OpenSwapWallet(s) PROVE p_xmr'.pw = p_xmr.pw
  BY <1>4, XmrTyped, XmrChanges DEF Access!OpenSwapWallet
<1>5. CASE Access!OpenMainWallet
  BY <1>5, XmrTyped DEF Access!OpenMainWallet, XmrWallets
<1>6. CASE Access!Restart
  BY <1>6, XmrTyped DEF Access!Restart, XmrWallets
<1>7. \/ p_xmr' = p_xmr \/ Access!UnlockOne \/ Access!ChangeOne \/ Access!OpenMainWallet
           \/ Access!Restart
      \/ \E coin \in Access!CoinArgs : Access!LockWallets(coin)
      \/ \E s \in Swaps : Access!OpenSwapWallet(s)
  BY Zenon
     DEF Access!Next, Access!vars, Access!StartChange, Access!StartUnlock, Access!SkipCoin,
         Access!UnlockedAll, Access!EndChange, Access!EndUnlock, Access!ReseedWallet,
         Access!RpcFails, Access!AcceptBid, Access!FinishSwap
<1> QED
  BY <1>1, <1>2, <1>3, <1>4, <1>5, <1>6, <1>7

\* A password change under way has not seen the swaps in progress: none was loaded when it began
\* (MayChange), and those accepted since are noted.
UnseenInv == p_task.op = "change" => p_active \subseteq p_unseen

\* A step of a request goes on with the same operation, or the request ends.
LEMMA OpKept ==
    ASSUME PasswordsTyped, NEW ok, Access!Step(ok)
    PROVE  p_task'.op \in {p_task.op, "idle"}
<1>1. p_task \in Tasks /\ p_task.at + 1 \in Nat
  BY TaskFields DEF PasswordsTyped, TaskOK
<1>2. p_task' = [p_task EXCEPT !.at = p_task.at + 1] \/ p_task' = Access!Idle
  BY Zenon DEF Access!Step
<1> QED
  BY <1>1, <1>2, TaskMoves, IdleTask

\* The invariant is kept by every step: a change begins with no swap loaded, and those that the
\* database has, or gets while it goes on, are noted as unseen.
LEMMA UnseenKept ==
    ASSUME Access!ConstantsOK, PasswordsTyped, UnseenInv, [Access!Next]_(Access!vars)
    PROVE  UnseenInv'
<1>1. ASSUME NEW coin \in Access!CoinArgs, NEW new \in Passwords, NEW old \in Passwords \cup {""},
             Access!StartChange(coin, old, new)
      PROVE  UnseenInv'
  <2>1. p_inProgress = {} /\ p_active' = p_active /\ p_unseen' = p_active \ p_inProgress
    BY <1>1 DEF Access!StartChange, Access!MayChange
  <2> QED
    BY <2>1 DEF UnseenInv
<1>2. ASSUME NEW coin \in Access!CoinArgs, NEW p \in Passwords, Access!StartUnlock(coin, p)
      PROVE  UnseenInv'
  <2>1. p_task'.op = "unlock"
    BY <1>2 DEF Access!StartUnlock
  <2> QED
    BY <2>1 DEF UnseenInv
<1>3. ASSUME NEW ok, Access!Step(ok), UNCHANGED <<p_active, p_unseen>> PROVE UnseenInv'
  BY <1>3, OpKept DEF UnseenInv
<1>4. CASE Access!SkipCoin
  BY <1>3, <1>4 DEF Access!SkipCoin
<1>5. CASE Access!UnlockOne
  BY <1>3, <1>5, UnlocksOne DEF Access!UnlockOne
<1>6. CASE Access!UnlockedAll
  <2>1. p_task'.op = p_task.op
    BY <1>6, TaskChanges DEF Access!UnlockedAll, PasswordsTyped, TaskOK
  <2> QED
    BY <1>6, <2>1 DEF Access!UnlockedAll, UnseenInv
<1>7. CASE Access!ChangeOne
  BY <1>3, <1>7, ChangesOne DEF Access!ChangeOne
<1>8. CASE p_task' = Access!Idle
  BY <1>8, IdleTask DEF UnseenInv
<1>9. ASSUME NEW s \in Swaps, Access!AcceptBid(s) PROVE UnseenInv'
  BY <1>9 DEF Access!AcceptBid, UnseenInv
<1>10. ASSUME NEW s \in Swaps, Access!FinishSwap(s) PROVE UnseenInv'
  BY <1>10 DEF Access!FinishSwap, UnseenInv
<1>11. CASE UNCHANGED <<p_task, p_active, p_unseen>>
  BY <1>11 DEF UnseenInv
<1>12. \/ \E coin \in Access!CoinArgs, new \in Passwords, old \in Passwords \cup {""} :
            Access!StartChange(coin, old, new)
       \/ \E coin \in Access!CoinArgs, p \in Passwords : Access!StartUnlock(coin, p)
       \/ Access!SkipCoin \/ Access!UnlockOne \/ Access!UnlockedAll \/ Access!ChangeOne
       \/ p_task' = Access!Idle
       \/ \E s \in Swaps : Access!AcceptBid(s) \/ Access!FinishSwap(s)
       \/ UNCHANGED <<p_task, p_active, p_unseen>>
  BY Zenon
     DEF Access!Next, Access!vars, Access!EndChange, Access!EndUnlock, Access!LockWallets,
         Access!ReseedWallet, Access!RpcFails, Access!OpenSwapWallet, Access!OpenMainWallet,
         Access!Restart
<1> QED
  BY <1>1, <1>2, <1>4, <1>5, <1>6, <1>7, <1>8, <1>9, <1>10, <1>11, <1>12

\* The password of the main Monero wallet changes only while no swap that the request could see
\* has a wallet file (NoChangeWithSwaps), for any passwords, requests for single coins, locks,
\* failed calls, restarts and bids accepted meanwhile.
THEOREM NoFileLeftBehind ==
    ASSUME Access!ConstantsOK PROVE Access!Spec => [][Access!NoChangeWithSwaps]_(Access!vars)
<1>1. Access!Init => UnseenInv
  BY IdleTask DEF Access!Init, UnseenInv
<1>2. PasswordsTyped /\ UnseenInv /\ [Access!Next]_(Access!vars) => UnseenInv'
  BY UnseenKept
<1>3. PasswordsTyped /\ UnseenInv /\ [Access!Next]_(Access!vars)
        => [Access!NoChangeWithSwaps]_(Access!vars)
  <2> SUFFICES ASSUME PasswordsTyped, UnseenInv, [Access!Next]_(Access!vars)
               PROVE  Access!NoChangeWithSwaps
    OBVIOUS
  <2>1. CASE Access!ChangeOne
    <3>1. p_task.op = "change"
      BY <2>1, Meets
    <3> QED
      BY <3>1 DEF UnseenInv, Access!NoChangeWithSwaps
  <2>2. CASE p_xmr'.pw = p_xmr.pw
    BY <2>2 DEF Access!NoChangeWithSwaps
  <2> QED
    BY <2>1, <2>2, XmrSteps
<1> QED
  BY <1>1, <1>2, <1>3, PasswordTypes, PTL DEF Access!Spec

=============================================================================
