------------------------- MODULE SecretHash_proofs -------------------------
(***************************************************************************)
(* Proofs about one secret-hash swap, for every value of the constants.    *)
(*                                                                         *)
(*   BaseInv    what holds whoever is late and whatever fails: the ledger  *)
(*              (what is broadcast, mined and conflicting), the order in   *)
(*              which the two engines publish, and that the row and the    *)
(*              in-memory bid of a node say no more than happened.         *)
(*   SellerInv  on top of it, how deep the locks are when a timely seller  *)
(*              acts: it finds its ITX confirmed in time, and redeems the  *)
(*              PTX before the buyer may take it back.                     *)
(*   BuyerInv   on top of that, what a timely buyer has on record and how  *)
(*              deep the ITX is at each of its stages: it learns of the    *)
(*              secret, and uses it, before the seller may take the ITX    *)
(*              back.                                                      *)
(*   SellerKeeps  on top of SellerInv, that the accept timeout does not    *)
(*              end a bid whose ITX is on its way.                         *)
(*                                                                         *)
(* With BuyerInv each step is one of AtomicSwap: the swap implements it.   *)
(***************************************************************************)
EXTENDS SecretHashSwap, TLAPS

-----------------------------------------------------------------------------
\* The transactions.

\* The transactions that take a locked coin.
Spends == {"itx_redeem", "itx_refund", "ptx_redeem", "ptx_refund"}

\* The other transaction that takes the same coin.
Rival == [t \in Spends |-> CASE t = "itx_redeem" -> "itx_refund"
                             [] t = "itx_refund" -> "itx_redeem"
                             [] t = "ptx_redeem" -> "ptx_refund"
                             [] OTHER            -> "ptx_redeem"]

\* Which transaction spends what, and how long it has to wait.
LEMMA TxFacts ==
  /\ Tx = {"itx", "ptx"} \union Spends
  /\ \A t \in Spends : Rival[t] \in Spends /\ Rival[Rival[t]] = t /\ Rival[t] # t
  /\ \A t \in Spends : Parent[t] \in {"itx", "ptx"} /\ Parent[Rival[t]] = Parent[t]
  /\ Parent["itx_redeem"] = "itx" /\ Parent["itx_refund"] = "itx"
  /\ Parent["ptx_redeem"] = "ptx" /\ Parent["ptx_refund"] = "ptx"
  /\ Parent["itx"] = "wallet" /\ Parent["ptx"] = "wallet" /\ "wallet" \notin Tx
  /\ Csv["itx"] = 0 /\ Csv["ptx"] = 0
  /\ Csv["itx_redeem"] = 0 /\ Csv["itx_refund"] = LockValue
  /\ Csv["ptx_redeem"] = 0 /\ Csv["ptx_refund"] = ParticipateLock
  /\ \A t \in Tx : Chain[t] = "both"
  /\ \A t \in Spends : Cap[t] = 1
  /\ Cap["itx"] = LockValue /\ Cap["ptx"] = ParticipateLock
  BY DEF Tx, Spends, Rival, Parent, Csv, Chain, Cap

\* What the constants say of the two locks.
LEMMA Times ==
  /\ LockValue \in Nat \ {0} /\ ParticipateLock \in Nat \ {0}
  /\ ConfA \in Nat \ {0} /\ ConfB \in Nat \ {0} /\ MineDelay \in Nat \ {0}
  /\ AcceptTimeout \in Nat \ {0} /\ BidValid \in Nat \ {0} /\ MaxFaults \in Nat
  /\ ConfB < ParticipateLock /\ ParticipateLock <= LockValue
  BY TimesAssumption DEF ParticipateLock

\* Only the two transactions that take the same coin conflict.
LEMMA ConflictFacts ==
  /\ \A t \in Spends : \A u \in Tx : Conflicts(t, u) <=> u = Rival[t]
  /\ \A u : ~Conflicts("itx", u) /\ ~Conflicts("ptx", u)
  /\ \A u \in Tx : ~Conflicts(u, "itx") /\ ~Conflicts(u, "ptx")
  BY TxFacts DEF Conflicts, Wallet, Spends, Rival, Tx

-----------------------------------------------------------------------------
\* The networks.

\* What the networks guarantee, whoever publishes what: a transaction in a pool
\* or a block was broadcast, one in a block has what it spends in a block and its
\* rival in no pool, and a refund has waited for its lock.
LedgerInv ==
  /\ conf \in [Tx -> Int] /\ sent \subseteq Tx
  /\ \A t \in Tx : /\ -MineDelay <= conf[t] /\ conf[t] <= Cap[t]
                   /\ conf[t] # 0 => t \in sent
  /\ \A t \in Spends : /\ conf[t] > 0 => conf[Rival[t]] = 0
                       /\ conf[t] # 0 => conf[Parent[t]] # 0
                       /\ conf[t] > 0 => conf[Parent[t]] > 0
  /\ conf["itx_refund"] # 0 => conf["itx"] >= LockValue
  /\ conf["ptx_refund"] # 0 => conf["ptx"] >= ParticipateLock
  /\ "itx" \in sent => conf["itx"] # 0
  /\ "ptx" \in sent => conf["ptx"] # 0

\* The two transactions that take a coin.
LEMMA SpendFacts ==
  ASSUME LedgerInv, NEW t \in Spends
  PROVE  /\ t \in Tx /\ Rival[t] \in Spends /\ Rival[t] \in Tx /\ Parent[t] \in Tx
         /\ conf[t] \in Int /\ conf[Rival[t]] \in Int /\ conf[Parent[t]] \in Int
         /\ conf[t] # 0 => conf[Rival[t]] <= 0 /\ conf[Parent[t]] # 0
         /\ conf[t] > 0 => conf[Rival[t]] = 0 /\ conf[Parent[t]] > 0
         /\ Cap[t] = 1
  <1>1. /\ t \in Tx /\ Rival[t] \in Spends /\ Rival[t] \in Tx /\ Parent[t] \in Tx
        /\ Rival[Rival[t]] = t /\ Cap[t] = 1
    BY TxFacts
  <1>2. conf[t] \in Int /\ conf[Rival[t]] \in Int /\ conf[Parent[t]] \in Int
    BY <1>1 DEF LedgerInv
  <1>3. conf[Rival[t]] > 0 => conf[t] = 0
    BY <1>1 DEF LedgerInv
  <1>4. /\ conf[t] # 0 => conf[Parent[t]] # 0
        /\ conf[t] > 0 => conf[Rival[t]] = 0 /\ conf[Parent[t]] > 0
    BY DEF LedgerInv
  <1> QED BY <1>1, <1>2, <1>3, <1>4

\* What a block does to the depths.
BlockFacts ==
  /\ conf' \in [Tx -> Int] /\ sent' = sent
  /\ \A t \in Tx :
       /\ conf[t] = 0 => conf'[t] = 0
       /\ conf[t] > 0 => conf'[t] = IF conf[t] < Cap[t] THEN conf[t] + 1 ELSE conf[t]
  /\ \A t \in {"itx", "ptx"} :
       conf[t] < 0 => conf'[t] = 1 \/ (conf'[t] < 0 /\ conf'[t] = conf[t] + 1)
  /\ \A t \in Spends : conf[t] < 0 /\ conf[Parent[t]] > 0 =>
       \/ conf'[t] = 1 /\ conf'[Rival[t]] = 0
       \/ conf'[t] < 0 /\ conf'[t] = conf[t] + 1 /\ conf'[Rival[t]] <= 0
       \/ conf'[t] = 0 /\ conf[Rival[t]] < 0 /\ conf'[Rival[t]] = 1
  /\ \A t \in Spends : conf[t] < 0 /\ conf[Parent[t]] <= 0 => conf'[t] = conf[t]

\* A block mines, deepens, evicts, or brings closer to being mined.
LEMMA BlockConf ==
  ASSUME LedgerInv, NewBlock("both")
  PROVE  BlockFacts
  <1>1. PICK S \in SUBSET {t \in Tx : Chain[t] = "both" /\ Mineable(t)} :
          /\ \A t, u \in S : ~Conflicts(t, u)
          /\ \A t \in Tx : (Chain[t] = "both" /\ Mineable(t) /\ conf[t] = -1) =>
                              (t \in S \/ Evicted(t, S))
          /\ conf' = [t \in Tx |-> IF Chain[t] = "both" THEN NextConf(t, S)
                                                         ELSE conf[t]]
          /\ sent' = sent
    BY DEF NewBlock
  <1>2. /\ S \subseteq Tx
        /\ \A t \in S : conf[t] < 0 /\ (t \in Spends => conf[Parent[t]] > 0)
    BY <1>1, TxFacts DEF Mineable
  <1>3. \A t \in Tx : conf'[t] = NextConf(t, S)
    BY <1>1, TxFacts
  <1>4. \A t \in Tx : conf[t] \in Int /\ Cap[t] \in Int
    BY TxFacts, Times DEF LedgerInv
  <1>5. \A t \in Spends : Evicted(t, S) <=> Rival[t] \in S
    <2>1. TAKE t \in Spends
    <2>2. \A u \in Tx : ~Conflicts(Parent[t], u)
      BY TxFacts, ConflictFacts
    <2> QED BY <1>2, <2>2, ConflictFacts DEF Evicted
  <1>6. ~Evicted("itx", S) /\ ~Evicted("ptx", S)
    BY TxFacts, ConflictFacts DEF Evicted
  <1>7. \A t \in Tx : NextConf(t, S) \in Int
    BY <1>4, TxFacts DEF NextConf
  <1>8. \A t \in Tx :
          /\ conf[t] = 0 => conf'[t] = 0
          /\ conf[t] > 0 => conf'[t] = IF conf[t] < Cap[t] THEN conf[t] + 1 ELSE conf[t]
    BY <1>2, <1>3, <1>4, TxFacts DEF NextConf, Mineable
  <1>9. \A t \in {"itx", "ptx"} :
          conf[t] < 0 => conf'[t] = 1 \/ (conf'[t] < 0 /\ conf'[t] = conf[t] + 1)
    <2>1. SUFFICES ASSUME NEW t \in {"itx", "ptx"}, conf[t] < 0
                   PROVE  conf'[t] = 1 \/ (conf'[t] < 0 /\ conf'[t] = conf[t] + 1)
      OBVIOUS
    <2>2. t \in Tx /\ Mineable(t) /\ ~Evicted(t, S) /\ Chain[t] = "both"
      BY <1>6, <2>1, TxFacts DEF Mineable
    <2>3. conf[t] = -1 => t \in S
      BY <1>1, <2>2
    <2> QED BY <1>3, <1>4, <2>1, <2>2, <2>3 DEF NextConf
  <1>10. \A t \in Spends : t \in S => conf'[t] = 1 /\ conf'[Rival[t]] = 0
    <2>1. SUFFICES ASSUME NEW t \in Spends, t \in S
                   PROVE  conf'[t] = 1 /\ conf'[Rival[t]] = 0
      OBVIOUS
    <2>2. conf'[t] = 1
      BY <1>2, <1>3, <1>4, <2>1 DEF NextConf
    <2>3. conf[Rival[t]] <= 0 /\ Rival[t] \in Spends /\ Rival[t] \in Tx
      BY <1>2, <2>1, SpendFacts
    <2>4. Rival[t] \notin S
      BY <1>1, <2>1, <2>3, ConflictFacts
    <2>5. Evicted(Rival[t], S)
      <3>1. Rival[Rival[t]] \in S
        BY <2>1, TxFacts
      <3> QED BY <1>5, <2>3, <3>1
    <2>6. conf'[Rival[t]] = NextConf(Rival[t], S) /\ conf[Rival[t]] \in Int
      BY <1>3, <1>4, <2>3
    <2> QED BY <2>2, <2>3, <2>4, <2>5, <2>6 DEF NextConf
  <1>11. \A t \in Spends : t \notin S /\ Rival[t] \notin S /\ conf[t] < 0 =>
           IF conf[Parent[t]] > 0
           THEN conf'[t] < 0 /\ conf'[t] = conf[t] + 1 /\ conf'[Rival[t]] <= 0
           ELSE conf'[t] = conf[t]
    <2>1. SUFFICES ASSUME NEW t \in Spends, t \notin S, Rival[t] \notin S, conf[t] < 0
                   PROVE  IF conf[Parent[t]] > 0
                          THEN /\ conf'[t] < 0 /\ conf'[t] = conf[t] + 1
                               /\ conf'[Rival[t]] <= 0
                          ELSE conf'[t] = conf[t]
      OBVIOUS
    <2>2. /\ t \in Tx /\ Rival[t] \in Tx /\ conf[t] \in Int /\ conf[Rival[t]] \in Int
          /\ conf[Rival[t]] <= 0 /\ Parent[t] \in Tx /\ Chain[t] = "both"
      <3>1. /\ t \in Tx /\ Rival[t] \in Tx /\ conf[t] \in Int /\ conf[Rival[t]] \in Int
            /\ conf[Rival[t]] <= 0 /\ Parent[t] \in Tx
        BY <2>1, SpendFacts
      <3> QED BY <3>1, TxFacts
    <2>3. Mineable(t) <=> conf[Parent[t]] > 0
      BY <2>1, <2>2 DEF Mineable
    <2>4. ~Evicted(t, S)
      BY <1>5, <2>1
    <2>5. Mineable(t) => conf[t] # -1
      BY <1>1, <2>1, <2>2, <2>4
    <2>6. conf'[t] = NextConf(t, S) /\ conf'[Rival[t]] = NextConf(Rival[t], S)
      BY <1>3, <2>2
    <2>7. conf'[t] = IF Mineable(t) THEN conf[t] + 1 ELSE conf[t]
      BY <2>1, <2>2, <2>4, <2>6 DEF NextConf
    <2>8. Mineable(Rival[t]) => conf[Rival[t]] < 0
      BY DEF Mineable
    <2>9. conf'[Rival[t]] <= 0
      BY <2>1, <2>2, <2>6, <2>8 DEF NextConf
    <2> QED BY <2>1, <2>2, <2>3, <2>5, <2>7, <2>9
  <1>12. \A t \in Spends : Rival[t] \in S =>
           /\ conf[Parent[t]] > 0 /\ conf'[t] = 0
           /\ conf[Rival[t]] < 0 /\ conf'[Rival[t]] = 1
    <2>1. TAKE t \in Spends
    <2>2. /\ Rival[t] \in Spends /\ Rival[Rival[t]] = t
          /\ Parent[Rival[t]] = Parent[t]
      BY TxFacts
    <2> QED BY <1>2, <1>10, <2>2
  <1>13. \A t \in Spends : conf[t] < 0 /\ conf[Parent[t]] > 0 =>
       \/ conf'[t] = 1 /\ conf'[Rival[t]] = 0
       \/ conf'[t] < 0 /\ conf'[t] = conf[t] + 1 /\ conf'[Rival[t]] <= 0
       \/ conf'[t] = 0 /\ conf[Rival[t]] < 0 /\ conf'[Rival[t]] = 1
    BY <1>10, <1>11, <1>12
  <1>14. \A t \in Spends : conf[t] < 0 /\ conf[Parent[t]] <= 0 => conf'[t] = conf[t]
    <2>1. SUFFICES ASSUME NEW t \in Spends, conf[t] < 0, conf[Parent[t]] <= 0
                   PROVE  conf'[t] = conf[t]
      OBVIOUS
    <2>2. ~(conf[Parent[t]] > 0)
      BY <2>1, SpendFacts
    <2> QED BY <1>2, <1>11, <1>12, <2>1, <2>2
  <1>15. conf' \in [Tx -> Int] /\ sent' = sent
    BY <1>1, <1>3, <1>7
  <1> QED BY <1>8, <1>9, <1>13, <1>14, <1>15 DEF BlockFacts

\* A block keeps what the networks guarantee.
LEMMA BlockLedger ==
  ASSUME LedgerInv, NewBlock("both")
  PROVE  LedgerInv'
  <1>1. BlockFacts
    BY BlockConf
  <1>2. \A t \in Tx : conf[t] \in Int /\ conf'[t] \in Int /\ Cap[t] \in Nat \ {0}
    BY <1>1, TxFacts, Times DEF LedgerInv, BlockFacts
  <1>3. \A t \in Tx : -MineDelay <= conf'[t] /\ conf'[t] <= Cap[t]
    <2>1. SUFFICES ASSUME NEW t \in Tx
                   PROVE  -MineDelay <= conf'[t] /\ conf'[t] <= Cap[t]
      OBVIOUS
    <2>2. /\ conf[t] = 0 => conf'[t] = 0
          /\ conf[t] > 0 => conf'[t] = IF conf[t] < Cap[t] THEN conf[t] + 1 ELSE conf[t]
          /\ conf[t] < 0 => conf'[t] \in {0, 1, conf[t], conf[t] + 1}
      BY <1>1, <1>2, TxFacts DEF BlockFacts
    <2>3. -MineDelay <= conf[t] /\ conf[t] <= Cap[t]
      BY DEF LedgerInv
    <2> QED BY <1>2, <2>2, <2>3, Times
  <1>4. \A t \in Tx : conf'[t] # 0 => t \in sent
    BY <1>1 DEF LedgerInv, BlockFacts
  <1>5. \A t \in {"itx", "ptx"} : /\ conf[t] # 0 => conf'[t] # 0
                                  /\ conf[t] > 0 => conf'[t] > 0
                                  /\ conf'[t] >= conf[t]
    BY <1>1, <1>2, TxFacts DEF BlockFacts
  <1>6. \A t \in Spends : /\ conf'[t] > 0 => conf'[Rival[t]] = 0
                          /\ conf'[t] # 0 => conf[t] # 0
                          /\ conf'[t] > 0 => conf[Parent[t]] > 0
    <2>1. SUFFICES ASSUME NEW t \in Spends
                   PROVE  /\ conf'[t] > 0 => conf'[Rival[t]] = 0
                          /\ conf'[t] # 0 => conf[t] # 0
                          /\ conf'[t] > 0 => conf[Parent[t]] > 0
      OBVIOUS
    <2>2. t \in Tx /\ Rival[t] \in Tx
      BY SpendFacts
    <2>3. conf'[t] # 0 => conf[t] # 0
      BY <1>1, <2>2 DEF BlockFacts
    <2>4. CASE conf[t] > 0
      <3>1. conf[Rival[t]] = 0 /\ conf[Parent[t]] > 0
        BY <2>4, SpendFacts
      <3> QED BY <1>1, <2>2, <2>3, <3>1 DEF BlockFacts
    <2>5. CASE conf[t] < 0 /\ conf[Parent[t]] > 0
      <3>1. \/ conf'[t] = 1 /\ conf'[Rival[t]] = 0
            \/ conf'[t] < 0 \/ conf'[t] = 0
        BY <1>1, <2>5 DEF BlockFacts
      <3> QED BY <1>2, <2>2, <2>3, <2>5, <3>1
    <2>6. CASE conf[t] < 0 /\ conf[Parent[t]] <= 0
      <3>1. conf'[t] = conf[t]
        BY <1>1, <2>6 DEF BlockFacts
      <3> QED BY <1>2, <2>2, <2>3, <2>6, <3>1
    <2>7. conf[t] \in Int /\ conf[Parent[t]] \in Int
      BY SpendFacts
    <2> QED BY <1>2, <2>2, <2>3, <2>4, <2>5, <2>6, <2>7
  <1>7. /\ conf'["itx_refund"] # 0 => conf["itx"] >= LockValue
        /\ conf'["ptx_refund"] # 0 => conf["ptx"] >= ParticipateLock
    BY <1>6 DEF LedgerInv, Spends
  <1>8. \A t \in Spends : /\ conf'[t] # 0 => conf'[Parent[t]] # 0
                          /\ conf'[t] > 0 => conf'[Parent[t]] > 0
    BY <1>5, <1>6, TxFacts, SpendFacts
  <1>9. /\ conf'["itx_refund"] # 0 => conf'["itx"] >= LockValue
        /\ conf'["ptx_refund"] # 0 => conf'["ptx"] >= ParticipateLock
    BY <1>2, <1>5, <1>7, TxFacts, Times
  <1>10. conf' \in [Tx -> Int] /\ sent' = sent
    BY <1>1 DEF BlockFacts
  <1> QED BY <1>3, <1>4, <1>5, <1>6, <1>8, <1>9, <1>10 DEF LedgerInv

\* What a broadcast of T does to the depths.
BroadcastFacts(T) ==
  /\ conf' \in [Tx -> Int] /\ sent' = sent \union T
  /\ \A t \in T : Takes(t)
  /\ \A t \in Tx : conf'[t] = IF t \in T /\ conf[t] = 0 THEN -MineDelay ELSE conf[t]

\* The network takes a refund only of a deep lock.
LEMMA TakesFacts ==
  ASSUME LedgerInv
  PROVE  /\ \A t \in Spends : Takes(t) => conf[Parent[t]] # 0 /\ conf[Rival[t]] <= 0
         /\ Takes("itx_refund") => conf["itx"] >= LockValue
         /\ Takes("ptx_refund") => conf["ptx"] >= ParticipateLock
  <1>1. \A t \in Spends : Accepts(t) => conf[Parent[t]] # 0 /\ conf[Rival[t]] <= 0
    <2>1. SUFFICES ASSUME NEW t \in Spends, Accepts(t)
                   PROVE  conf[Parent[t]] # 0 /\ conf[Rival[t]] <= 0
      OBVIOUS
    <2>2. /\ Rival[t] \in Tx /\ Parent[t] \in Tx /\ conf[Rival[t]] \in Int
          /\ conf[Parent[t]] \in Int
      BY SpendFacts
    <2>3. Conflicts(t, Rival[t])
      BY <2>2, ConflictFacts
    <2>4. Csv[t] \in Nat
      BY TxFacts, Times DEF Spends
    <2> QED BY <2>1, <2>2, <2>3, <2>4 DEF Accepts, Mature, SpentByOther
  <1>2. \A t \in Spends : conf[t] < 0 => conf[Parent[t]] # 0 /\ conf[Rival[t]] <= 0
    BY SpendFacts
  <1>3. Accepts("itx_refund") => conf["itx"] >= LockValue
    BY TxFacts, Times DEF Accepts, Mature
  <1>4. Accepts("ptx_refund") => conf["ptx"] >= ParticipateLock
    BY TxFacts, Times DEF Accepts, Mature
  <1>5. \A t \in Tx : Takes(t) => Accepts(t) \/ conf[t] # 0
    BY DEF Takes
  <1>6. \A t \in Spends : Takes(t) => Accepts(t) \/ conf[t] < 0
    BY DEF Takes
  <1>7. {"itx_refund", "ptx_refund"} \subseteq Tx
    BY TxFacts DEF Spends
  <1> QED BY <1>1, <1>2, <1>3, <1>4, <1>5, <1>6, <1>7 DEF LedgerInv

\* Publishing keeps what the networks guarantee.
LEMMA BroadcastLedger ==
  ASSUME LedgerInv, NEW T \in SUBSET Tx, Broadcast(T)
  PROVE  LedgerInv' /\ BroadcastFacts(T)
  <1>1. BroadcastFacts(T)
    BY Times DEF Broadcast, LedgerInv, BroadcastFacts
  <1>2. \A t \in Tx : conf[t] \in Int /\ conf'[t] \in Int /\ Cap[t] \in Nat \ {0}
    BY <1>1, TxFacts, Times DEF LedgerInv, BroadcastFacts
  <1>3. \A t \in Tx : /\ -MineDelay <= conf'[t] /\ conf'[t] <= Cap[t]
                      /\ conf'[t] # 0 => t \in sent'
    BY <1>1, <1>2, Times DEF LedgerInv, BroadcastFacts
  <1>4. \A t \in Tx : /\ conf[t] # 0 => conf'[t] = conf[t]
                      /\ conf'[t] > 0 => conf[t] > 0 /\ conf'[t] = conf[t]
                      /\ conf'[t] # 0 => conf[t] # 0 \/ Takes(t)
    BY <1>1, <1>2, Times DEF BroadcastFacts
  <1>5. \A t \in Spends : /\ conf'[t] > 0 => conf'[Rival[t]] = 0
                          /\ conf'[t] # 0 => conf'[Parent[t]] # 0
                          /\ conf'[t] > 0 => conf'[Parent[t]] > 0
    <2>1. SUFFICES ASSUME NEW t \in Spends
                   PROVE  /\ conf'[t] > 0 => conf'[Rival[t]] = 0
                          /\ conf'[t] # 0 => conf'[Parent[t]] # 0
                          /\ conf'[t] > 0 => conf'[Parent[t]] > 0
      OBVIOUS
    <2>2. t \in Tx /\ Rival[t] \in Spends /\ Rival[t] \in Tx /\ Parent[t] \in Tx
      BY SpendFacts
    <2>3. Takes(Rival[t]) => conf[t] <= 0
      <3>1. Rival[Rival[t]] = t
        BY TxFacts
      <3> QED BY <2>2, <3>1, TakesFacts
    <2>4. conf[t] > 0 => conf[Rival[t]] = 0 /\ conf[Parent[t]] > 0
      BY SpendFacts
    <2>5. conf[t] # 0 \/ Takes(t) => conf[Parent[t]] # 0
      BY SpendFacts, TakesFacts
    <2>6. conf'[t] > 0 => conf'[Rival[t]] = 0
      BY <1>2, <1>4, <2>2, <2>3, <2>4
    <2>7. conf'[t] # 0 => conf'[Parent[t]] # 0
      BY <1>2, <1>4, <2>2, <2>5
    <2>8. conf'[t] > 0 => conf'[Parent[t]] > 0
      BY <1>2, <1>4, <2>2, <2>4
    <2> QED BY <2>6, <2>7, <2>8
  <1>6. /\ conf'["itx_refund"] # 0 => conf["itx"] >= LockValue
        /\ conf'["ptx_refund"] # 0 => conf["ptx"] >= ParticipateLock
    BY <1>2, <1>4, TakesFacts, TxFacts DEF LedgerInv, Spends
  <1>7. /\ conf'["itx_refund"] # 0 => conf'["itx"] >= LockValue
        /\ conf'["ptx_refund"] # 0 => conf'["ptx"] >= ParticipateLock
    BY <1>2, <1>4, <1>6, TxFacts, Times
  <1>8. /\ "itx" \in sent' => conf'["itx"] # 0
        /\ "ptx" \in sent' => conf'["ptx"] # 0
    BY <1>1, <1>2, TxFacts, Times DEF LedgerInv, BroadcastFacts
  <1> QED BY <1>1, <1>3, <1>5, <1>7, <1>8 DEF LedgerInv, BroadcastFacts

-----------------------------------------------------------------------------
\* The engines' records, whatever is late or fails.

\* The states of a bid in progress.
Live == {"BID_ACCEPTED", "SWAP_INITIATED", "SWAP_PARTICIPATING", "BID_ERROR"}

\* What the bid b of node n says is so.
RowTrue(n, b) ==
  /\ b.state # (IF n = "S" THEN "BID_SENT" ELSE "BID_RECEIVED")
  /\ b.itx # "TX_IN_CHAIN"
  /\ b.itx = "None" => b.state \in {"NONE", "BID_SENT", "BID_RECEIVED"} /\ b.ptx = "None"
  /\ b.itx = "TX_REDEEMED" => conf["itx_redeem"] > 0
  /\ b.itx = "TX_REFUNDED" => conf["itx_refund"] > 0
  /\ b.ptx = "TX_REDEEMED" => conf["ptx_redeem"] > 0
  /\ b.ptx = "TX_REFUNDED" => conf["ptx_refund"] > 0
  /\ b.ptx # "None" => b.pt = "Known"
  /\ b.secret => conf["ptx_redeem"] > 0
  /\ b.state = "BID_ACCEPTED" => b.pt = "None"
  /\ b.state = "SWAP_COMPLETED" => AllSpent(b)
  /\ n = "B" => b.pt # "Script" /\ b.ptx # "TX_IN_CHAIN"

\* The in-memory bid m of node n beside its row d, with the watches w.
CopyTrue(n, d, m, w) ==
  /\ m = NoBid \/ m.state \in Live
  /\ m = NoBid => w = {} /\ (up[n] => d.state \notin Reloaded)
  /\ m # NoBid => up[n] /\ d.state \in Live
  /\ m.state = "BID_ACCEPTED" => d.state = "BID_ACCEPTED"
  /\ "PTX" \in w => m.pt = "Known"
  /\ "SCRIPT" \in w => n = "S" /\ m.pt # "None" /\ m.ptx \notin Ended

\* What the buyer records once it published the PTX.
BuyerAnswered ==
  /\ db["B"].state \notin {"BID_SENT", "BID_ACCEPTED"} /\ db["B"].ptx # "None"
  /\ mem["B"].state # "BID_ACCEPTED" /\ (mem["B"] # NoBid => mem["B"].ptx # "None")

\* What the seller records once it published the secret.
SellerRedeemed ==
  /\ db["S"].state \notin {"BID_RECEIVED", "BID_ACCEPTED", "SWAP_INITIATED"}
  /\ mem["S"].state \notin {"BID_ACCEPTED", "SWAP_INITIATED"}

\* The order in which the transactions are published.
OrderInv ==
  /\ "itx" \in sent <=> db["S"].state # "BID_RECEIVED"
  /\ "ptx" \in sent => ITXDeep /\ "itx" \notin bad /\ BuyerAnswered
  /\ "ptx_redeem" \in sent => conf["ptx"] > 0 /\ "ptx" \notin bad /\ SellerRedeemed
  /\ "itx_redeem" \in sent \/ redeems > 0 => conf["ptx_redeem"] > 0

\* The records of node n.
NodeInv(n) ==
  RowTrue(n, db[n]) /\ RowTrue(n, mem[n]) /\ CopyTrue(n, db[n], mem[n], watch[n])

\* What holds whatever is late or fails: the networks, the order of the
\* transactions and the records of both nodes.
BaseInv ==
  TypeOK /\ LedgerInv /\ OrderInv /\ \A n \in Nodes : NodeInv(n)

\* What an engine watches.
WatchSets == SUBSET {"ITX", "PTX", "SCRIPT"}

\* A step that changes no records but those of n.
Others(n) ==
  /\ db' \in [Nodes -> Bids] /\ mem' \in [Nodes -> Bids]
  /\ watch' \in [Nodes -> WatchSets]
  /\ \A k \in Nodes \ {n} : db'[k] = db[k] /\ mem'[k] = mem[k] /\ watch'[k] = watch[k]

\* A step of n in which no block is found.
Frame(n) ==
  /\ Others(n)
  /\ \A k \in Nodes \ {n} : up'[k] = up[k]
  /\ \A t \in Tx : conf[t] > 0 <=> conf'[t] > 0

\* A row stays true while no block is found.
LEMMA RowKept ==
  ASSUME NEW n \in Nodes, NEW b, RowTrue(n, b),
         \A t \in Tx : conf[t] > 0 <=> conf'[t] > 0
  PROVE  RowTrue(n, b)'
  <1>1. \A t \in Spends : conf[t] > 0 => conf'[t] > 0
    BY TxFacts
  <1> QED BY <1>1 DEF RowTrue, AllSpent, Spends

\* A spend that is recorded is mined.
LEMMA SpentFacts ==
  /\ Spent("itx") <=> conf["itx_redeem"] > 0 \/ conf["itx_refund"] > 0
  /\ Spent("ptx") <=> conf["ptx_redeem"] > 0 \/ conf["ptx_refund"] > 0
  /\ \A n, b : RowTrue(n, b) =>
       (b.itx \in Ended => Spent("itx")) /\ (b.ptx \in Ended => Spent("ptx"))
  <1>1. /\ \A u \in Tx : Parent[u] = "itx" <=> u \in {"itx_redeem", "itx_refund"}
        /\ \A u \in Tx : Parent[u] = "ptx" <=> u \in {"ptx_redeem", "ptx_refund"}
        /\ Spends \subseteq Tx
    BY TxFacts DEF Spends, Tx
  <1>2. /\ Spent("itx") <=> conf["itx_redeem"] > 0 \/ conf["itx_refund"] > 0
        /\ Spent("ptx") <=> conf["ptx_redeem"] > 0 \/ conf["ptx_refund"] > 0
    BY <1>1 DEF Spent, Spends
  <1> QED BY <1>2 DEF RowTrue, Ended

\* The records of the other node stay as they were.
LEMMA FrameNodes ==
  ASSUME BaseInv, NEW n \in Nodes, Frame(n), NodeInv(n)'
  PROVE  \A k \in Nodes : NodeInv(k)'
  <1>1. SUFFICES ASSUME NEW k \in Nodes, k # n
                 PROVE  NodeInv(k)'
    OBVIOUS
  <1>2. RowTrue(k, db[k])' /\ RowTrue(k, mem[k])'
    BY <1>1, RowKept DEF BaseInv, NodeInv, Frame, Others
  <1>3. CopyTrue(k, db[k], mem[k], watch[k])'
    BY <1>1 DEF BaseInv, NodeInv, Frame, Others, CopyTrue
  <1> QED BY <1>1, <1>2, <1>3 DEF Frame, NodeInv

\* PtxHeight only fills in the height.
LEMMA PtxHeightFields ==
  ASSUME NEW n \in Nodes, NEW b \in Bids
  PROVE  LET h == PtxHeight(n, b)
         IN /\ h \in Bids
            /\ h.state = b.state /\ h.itx = b.itx /\ h.ptx = b.ptx /\ h.ih = b.ih
            /\ h.pt = b.pt /\ h.secret = b.secret /\ h.pconf \in {b.pconf, "Chain"}
            /\ n # "B" \/ b.ptx \notin {"TX_SENT", "TX_CONFIRMED"} => h = b
            /\ n = "B" /\ b.ptx \in {"TX_SENT", "TX_CONFIRMED"} /\ b.pt = "Known"
                 /\ conf["ptx"] > 0 => h.pconf = "Chain"
  BY DEF PtxHeight, Bids

\* A bid with another state.
LEMMA StateFields ==
  ASSUME NEW b \in Bids, NEW s \in BidStates
  PROVE  LET h == [b EXCEPT !.state = s]
         IN /\ h \in Bids
            /\ h.state = s /\ h.itx = b.itx /\ h.ptx = b.ptx /\ h.ih = b.ih
            /\ h.pt = b.pt /\ h.secret = b.secret /\ h.pconf = b.pconf
  BY DEF Bids

\* A bid that an error ended.
LEMMA ErrorBid ==
  ASSUME NEW b \in Bids
  PROVE  \E e \in Bids : /\ e = [b EXCEPT !.state = "BID_ERROR"]
                         /\ e.state = "BID_ERROR"
  <1>1. PICK e \in Bids : e = [b EXCEPT !.state = "BID_ERROR"]
    BY StateFields DEF BidStates
  <1>2. e.state = "BID_ERROR"
    BY <1>1 DEF Bids
  <1> QED BY <1>1, <1>2

\* Conclude ends the bid b of n: every lock it knows of is spent.
Finishes(n, b, pub) ==
  /\ b.state # "BID_ACCEPTED" /\ AllSpent(b)
  /\ mem'[n] = NoBid /\ watch'[n] = {}
  /\ db'[n] = [b EXCEPT !.state = "SWAP_COMPLETED"]
  /\ redeems' = IF n = "B" THEN 0 ELSE redeems
  /\ Broadcast(pub)

\* Conclude keeps b in progress and tries its refunds.
Keeps(n, b, pub, w) ==
  /\ ~(b.state # "BID_ACCEPTED" /\ AllSpent(b))
  /\ mem'[n] = PtxHeight(n, b)
  /\ db'[n] = mem'[n] \/ (db'[n] = db[n] /\ mem'[n] = b)
  /\ watch'[n] = w /\ redeems' = redeems
  /\ Broadcast(pub \union Refunds(n, mem'[n]))

\* What the records are after SaveBid, KeepUnsaved, DeactivateBid.
LEMMA WriteFacts ==
  ASSUME TypeOK, NEW n \in Nodes, NEW b \in Bids
  PROVE  /\ \A w \in WatchSets :
              watch' = [watch EXCEPT ![n] = w] /\ (SaveBid(n, b) \/ KeepUnsaved(n, b)) =>
                Others(n) /\ watch'[n] = w
         /\ SaveBid(n, b) => db'[n] = b /\ mem'[n] = b
         /\ KeepUnsaved(n, b) => db'[n] = db[n] /\ mem'[n] = b
         /\ DeactivateBid(n, b) =>
              /\ Others(n) /\ db'[n] = b /\ mem'[n] = NoBid /\ watch'[n] = {}
              /\ redeems' = IF n = "B" THEN 0 ELSE redeems
  <1>1. NoBid \in Bids /\ {} \in WatchSets
    BY DEF NoBid, Bids, BidStates, TxStates, WatchSets
  <1>2. /\ db \in [Nodes -> Bids] /\ mem \in [Nodes -> Bids]
        /\ watch \in [Nodes -> WatchSets]
    BY DEF TypeOK, WatchSets
  <1> QED BY <1>1, <1>2 DEF Others, SaveBid, KeepUnsaved, DeactivateBid

\* Conclude finishes the bid or keeps it, and saves it if it is told to.
LEMMA ConcludeCases ==
  ASSUME TypeOK, NEW n \in Nodes, NEW b \in Bids, NEW pub \in SUBSET Tx,
         NEW w \in WatchSets,
         Conclude(n, b, pub, w, TRUE) \/ Conclude(n, b, pub, w, FALSE)
  PROVE  /\ Others(n)
         /\ Finishes(n, b, pub) \/ Keeps(n, b, pub, w)
         /\ Conclude(n, b, pub, w, TRUE) => Finishes(n, b, pub) \/ db'[n] = mem'[n]
         /\ Conclude(n, b, pub, w, FALSE) /\ PtxHeight(n, b) = b =>
              Finishes(n, b, pub) \/ db'[n] = db[n]
  <1>1. CASE b.state # "BID_ACCEPTED" /\ AllSpent(b)
    <2> DEFINE d == [b EXCEPT !.state = "SWAP_COMPLETED"]
    <2>1. d \in Bids
      BY StateFields DEF BidStates
    <2>2. DeactivateBid(n, d) /\ Broadcast(pub)
      BY <1>1 DEF Conclude
    <2> HIDE DEF d
    <2>3. /\ Others(n) /\ db'[n] = d /\ mem'[n] = NoBid /\ watch'[n] = {}
          /\ redeems' = IF n = "B" THEN 0 ELSE redeems
      BY <2>1, <2>2, WriteFacts
    <2> QED BY <1>1, <2>2, <2>3 DEF Finishes, d
  <1>2. CASE ~(b.state # "BID_ACCEPTED" /\ AllSpent(b))
    <2> DEFINE h == PtxHeight(n, b)
    <2>1. h \in Bids
      BY PtxHeightFields
    <2>2. /\ SaveBid(n, h) \/ (KeepUnsaved(n, h) /\ h = b)
          /\ watch' = [watch EXCEPT ![n] = w]
          /\ Broadcast(pub \union Refunds(n, h)) /\ redeems' = redeems
      BY <1>2 DEF Conclude
    <2>3. Conclude(n, b, pub, w, TRUE) => SaveBid(n, h)
      BY <1>2 DEF Conclude
    <2>4. Conclude(n, b, pub, w, FALSE) /\ h = b => KeepUnsaved(n, h)
      BY <1>2 DEF Conclude
    <2> HIDE DEF h
    <2>5. /\ Others(n) /\ mem'[n] = h /\ watch'[n] = w
          /\ db'[n] = h \/ (db'[n] = db[n] /\ h = b)
      BY <2>1, <2>2, WriteFacts
    <2>6. Keeps(n, b, pub, w)
      BY <1>2, <2>2, <2>5 DEF Keeps, h
    <2>7. Conclude(n, b, pub, w, TRUE) => db'[n] = mem'[n]
      BY <2>1, <2>3, WriteFacts
    <2>8. Conclude(n, b, pub, w, FALSE) /\ h = b => db'[n] = db[n]
      BY <2>1, <2>4, WriteFacts
    <2> QED BY <2>5, <2>6, <2>7, <2>8 DEF h
  <1> QED BY <1>1, <1>2

\* Publishing mines nothing.
LEMMA BroadcastDeep ==
  ASSUME LedgerInv, NEW T \in SUBSET Tx, BroadcastFacts(T)
  PROVE  \A t \in Tx : /\ conf[t] > 0 <=> conf'[t] > 0
                       /\ conf[t] > 0 \/ conf'[t] > 0 => conf'[t] = conf[t]
                       /\ conf[t] # 0 => conf'[t] = conf[t]
  BY Times DEF BroadcastFacts, LedgerInv

\* A step that publishes nothing.
LEMMA QuietFacts ==
  ASSUME LedgerInv, conf' = conf, sent' = sent
  PROVE  LedgerInv' /\ BroadcastFacts({})
  BY DEF LedgerInv, BroadcastFacts

\* A step that takes back nothing the order rests on.
Calm ==
  /\ db'["S"].state = "BID_RECEIVED" <=> db["S"].state = "BID_RECEIVED"
  /\ "ptx" \in sent /\ BuyerAnswered => BuyerAnswered'
  /\ "ptx_redeem" \in sent /\ SellerRedeemed => SellerRedeemed'

\* The refunds.
RefundTx == {"itx_refund", "ptx_refund"}

\* Refunds do not disturb the order.
LEMMA OrderKept ==
  ASSUME BaseInv, Calm, bad' = bad,
         redeems' > 0 => redeems > 0 \/ conf["ptx_redeem"] > 0,
         NEW T \in SUBSET RefundTx, BroadcastFacts(T)
  PROVE  OrderInv'
  <1>1. \A t \in Tx : /\ conf[t] > 0 <=> conf'[t] > 0
                      /\ conf[t] > 0 \/ conf'[t] > 0 => conf'[t] = conf[t]
    BY BroadcastDeep DEF BaseInv, RefundTx, Tx
  <1>2. \A t \in Tx : conf[t] \in Int /\ conf'[t] \in Int
    BY DEF BaseInv, LedgerInv, BroadcastFacts
  <1>3. \A t \in Tx \ RefundTx : t \in sent' <=> t \in sent
    BY DEF BroadcastFacts
  <1>4. ITXDeep => ITXDeep'
    BY <1>1, <1>2, Times DEF ITXDeep, Tx
  <1> QED BY <1>1, <1>3, <1>4 DEF BaseInv, OrderInv, Calm, RefundTx, Tx

\* What Conclude does to the networks and the records, for a bid b that is true.
LEMMA ConcludeNode ==
  ASSUME BaseInv, NEW n \in Nodes, NEW b \in Bids, NEW pub \in SUBSET Tx,
         NEW w \in WatchSets, up' = up,
         Conclude(n, b, pub, w, TRUE) \/ Conclude(n, b, pub, w, FALSE),
         mem[n] # NoBid, RowTrue(n, b), b.state \in Live,
         b.state = "BID_ACCEPTED" => db[n].state = "BID_ACCEPTED",
         "PTX" \in w => b.pt = "Known",
         "SCRIPT" \in w => n = "S" /\ b.pt # "None" /\ b.ptx \notin Ended,
         b.state = mem[n].state \/ b.state = "SWAP_PARTICIPATING",
         mem[n].ptx # "None" => b.ptx # "None"
  PROVE  /\ Frame(n) /\ LedgerInv' /\ NodeInv(n)' /\ Calm
         /\ redeems' \in 0..MaxRedeems /\ (redeems' > 0 => redeems > 0)
         /\ \E R \in SUBSET RefundTx : BroadcastFacts(pub \union R)
  <1>1. Others(n) /\ (Finishes(n, b, pub) \/ Keeps(n, b, pub, w))
    <2>1. TypeOK
      BY DEF BaseInv
    <2> QED BY <2>1, ConcludeCases
  <1>2. PICK R \in SUBSET RefundTx : Broadcast(pub \union R)
    <2>1. CASE Finishes(n, b, pub)
      <3>1. Broadcast(pub \union {})
        <4>1. pub \union {} = pub
          OBVIOUS
        <4> QED BY <2>1, <4>1 DEF Finishes
      <3> QED BY <3>1
    <2>2. CASE Keeps(n, b, pub, w)
      <3> DEFINE R == Refunds(n, mem'[n])
      <3>1. R \in SUBSET RefundTx
        BY DEF Refunds, RefundTx
      <3>2. Broadcast(pub \union R)
        BY <2>2 DEF Keeps
      <3> HIDE DEF R
      <3> QED BY <3>1, <3>2
    <2> QED BY <1>1, <2>1, <2>2
  <1>3. /\ LedgerInv' /\ \A t \in Tx : conf[t] > 0 <=> conf'[t] > 0
        /\ BroadcastFacts(pub \union R)
    <2>1. pub \union R \in SUBSET Tx
      BY DEF RefundTx, Tx
    <2> QED BY <1>2, <2>1, BroadcastLedger, BroadcastDeep DEF BaseInv
  <1>4. Frame(n)
    BY <1>1, <1>3 DEF Frame
  <1>5. CASE Finishes(n, b, pub)
    <2> DEFINE d == [b EXCEPT !.state = "SWAP_COMPLETED"]
    <2>1. /\ d \in Bids
          /\ d.state = "SWAP_COMPLETED" /\ d.itx = b.itx /\ d.ptx = b.ptx /\ d.ih = b.ih
          /\ d.pt = b.pt /\ d.secret = b.secret /\ d.pconf = b.pconf
      BY StateFields DEF BidStates
    <2>2. db'[n] = d /\ mem'[n] = NoBid /\ watch'[n] = {} /\ AllSpent(b)
      BY <1>5 DEF Finishes
    <2> HIDE DEF d
    <2>3. RowTrue(n, d)
      BY <2>1, <2>2 DEF RowTrue, AllSpent, Live
    <2>4. RowTrue(n, d)'
      BY <1>3, <2>3, RowKept
    <2>5. RowTrue(n, NoBid)'
      BY DEF RowTrue, NoBid, Ended
    <2>6. CopyTrue(n, d, NoBid, {})'
      BY <2>1 DEF CopyTrue, Reloaded, NoBid
    <2>7. NodeInv(n)'
      BY <2>2, <2>4, <2>5, <2>6 DEF NodeInv
    <2>8. /\ redeems' \in 0..MaxRedeems
          /\ redeems' > 0 => redeems > 0
      BY <1>5 DEF Finishes, BaseInv, TypeOK, MaxRedeems
    <2>9. /\ d.state = "SWAP_COMPLETED" /\ d.ptx = b.ptx
          /\ CopyTrue(n, db[n], mem[n], watch[n])
      BY <2>1 DEF BaseInv, NodeInv
    <2>10. Calm
      BY <1>1, <2>2, <2>9 DEF Calm, BuyerAnswered, SellerRedeemed, Others, CopyTrue,
         Live, Nodes, NoBid
    <2> QED BY <1>3, <1>4, <2>7, <2>8, <2>10
  <1>6. CASE Keeps(n, b, pub, w)
    <2>1. PICK h \in Bids : h = PtxHeight(n, b)
      BY PtxHeightFields
    <2>2. /\ h.state = b.state /\ h.itx = b.itx /\ h.ptx = b.ptx /\ h.ih = b.ih
          /\ h.pt = b.pt /\ h.secret = b.secret
      BY <2>1, PtxHeightFields
    <2>3. PICK d \in Bids : d = db'[n]
      BY <1>1 DEF Others
    <2>4. mem'[n] = h /\ (d = h \/ d = db[n]) /\ watch'[n] = w
      BY <1>6, <2>1, <2>3 DEF Keeps
    <2>5. RowTrue(n, h) /\ RowTrue(n, d)
      BY <2>2, <2>4 DEF RowTrue, AllSpent, Live, BaseInv, NodeInv
    <2>6. RowTrue(n, h)' /\ RowTrue(n, d)'
      BY <1>3, <2>5, RowKept
    <2>7. CopyTrue(n, db[n], mem[n], watch[n])
      BY DEF BaseInv, NodeInv
    <2>8. h.state \in Live /\ d.state \in Live
                /\ (h.state = "BID_ACCEPTED" => d.state = "BID_ACCEPTED")
      BY <2>2, <2>4, <2>7 DEF CopyTrue
    <2>9. h # NoBid
      BY <2>8 DEF NoBid, Live
    <2>10. up[n]
      BY <2>7 DEF CopyTrue
    <2>11. CopyTrue(n, d, h, w)'
      BY <2>2, <2>8, <2>9, <2>10 DEF CopyTrue
    <2>12. NodeInv(n)'
      BY <2>3, <2>4, <2>6, <2>11 DEF NodeInv
    <2>13. redeems' \in 0..MaxRedeems /\ (redeems' > 0 => redeems > 0)
      BY <1>6 DEF Keeps, BaseInv, TypeOK
    <2>14. Calm
      BY <1>1, <2>2, <2>3, <2>4, <2>7, <2>8 DEF Calm, BuyerAnswered, SellerRedeemed,
         Others, CopyTrue, Live, Nodes
    <2> QED BY <1>3, <1>4, <2>12, <2>13, <2>14
  <1> QED BY <1>1, <1>5, <1>6

\* A node that goes on with a true bid.
LEMMA LiveNode ==
  ASSUME BaseInv, NEW n \in Nodes, NEW b \in Bids, NEW d \in Bids, NEW w \in WatchSets,
         Others(n), mem'[n] = b, db'[n] = d, watch'[n] = w, up' = up, up[n],
         \A t \in Tx : conf[t] > 0 <=> conf'[t] > 0,
         RowTrue(n, b), RowTrue(n, d), b.state \in Live, d.state \in Live,
         b.state = "BID_ACCEPTED" => d.state = "BID_ACCEPTED",
         "PTX" \in w => b.pt = "Known",
         "SCRIPT" \in w => n = "S" /\ b.pt # "None" /\ b.ptx \notin Ended
  PROVE  Frame(n) /\ NodeInv(n)'
  <1>1. RowTrue(n, b)' /\ RowTrue(n, d)'
    BY RowKept
  <1>2. b # NoBid
    BY DEF NoBid, Live
  <1>3. CopyTrue(n, d, b, w)'
    BY <1>2 DEF CopyTrue
  <1>4. NodeInv(n)'
    BY <1>1, <1>3 DEF NodeInv
  <1> QED BY <1>4 DEF Frame

\* A node that no longer follows the bid.
LEMMA GoneNode ==
  ASSUME BaseInv, NEW n \in Nodes, NEW d \in Bids,
         Others(n), mem'[n] = NoBid, db'[n] = d, watch'[n] = {},
         \A k \in Nodes \ {n} : up'[k] = up[k],
         \A t \in Tx : conf[t] > 0 <=> conf'[t] > 0,
         RowTrue(n, d), up'[n] => d.state \notin Reloaded
  PROVE  Frame(n) /\ NodeInv(n)'
  <1>1. RowTrue(n, d)'
    BY RowKept
  <1>2. RowTrue(n, NoBid)'
    BY DEF RowTrue, NoBid, Ended
  <1>3. CopyTrue(n, d, NoBid, {})'
    BY DEF CopyTrue, NoBid
  <1>4. NodeInv(n)'
    BY <1>1, <1>2, <1>3 DEF NodeInv
  <1> QED BY <1>4 DEF Frame

\* What the records say of node n.
LEMMA NodeFacts ==
  ASSUME BaseInv, NEW n \in Nodes
  PROVE  /\ mem[n] \in Bids /\ db[n] \in Bids /\ watch[n] \in WatchSets
         /\ RowTrue(n, db[n]) /\ RowTrue(n, mem[n]) /\ up[n] \in BOOLEAN
         /\ CopyTrue(n, db[n], mem[n], watch[n])
         /\ mem[n] # NoBid => up[n] /\ mem[n].state \in Live /\ db[n].state \in Live
         /\ mem[n] # NoBid <=> mem[n].state \in Live
         /\ mem[n].state = "BID_ACCEPTED" =>
              db[n].state = "BID_ACCEPTED" /\ mem[n].pt = "None" /\ mem[n].ptx = "None"
  <1>1. /\ mem[n] \in Bids /\ db[n] \in Bids /\ watch[n] \in WatchSets
        /\ up[n] \in BOOLEAN
    BY DEF BaseInv, TypeOK, WatchSets
  <1>2. /\ RowTrue(n, db[n]) /\ RowTrue(n, mem[n])
        /\ CopyTrue(n, db[n], mem[n], watch[n])
    BY DEF BaseInv, NodeInv
  <1>3. NoBid.state \notin Live
    BY DEF NoBid, Live
  <1> QED BY <1>1, <1>2, <1>3 DEF RowTrue, CopyTrue

-----------------------------------------------------------------------------
\* checkBidState of an accepted bid.

\* The bid b once the ITX is seen in a block.
ItxSeen(b) == [b EXCEPT !.ih = TRUE, !.itx = IF @ = "TX_NONE" THEN "TX_SENT" ELSE @]

\* What seeing the ITX leaves alone.
LEMMA ItxSeenFields ==
  ASSUME NEW b \in Bids
  PROVE  LET h == ItxSeen(b)
         IN /\ h \in Bids /\ h.ih = TRUE
            /\ h.itx = IF b.itx = "TX_NONE" THEN "TX_SENT" ELSE b.itx
            /\ h.state = b.state /\ h.ptx = b.ptx
            /\ h.pt = b.pt /\ h.secret = b.secret /\ h.pconf = b.pconf
  BY DEF ItxSeen, Bids, TxStates

\* What confirming the ITX leaves alone.
LEMMA InitiatedFields ==
  ASSUME NEW n \in Nodes, NEW b \in Bids
  PROVE  LET h == Initiated(n, ItxSeen(b))
         IN /\ h \in Bids /\ h.ih = TRUE /\ h.itx = "TX_CONFIRMED"
            /\ h.state = "SWAP_INITIATED" /\ h.ptx = b.ptx
            /\ h.pt = IF n = "B" THEN "Known" ELSE "Script"
            /\ h.secret = b.secret /\ h.pconf = b.pconf
  <1>1. PICK g \in Bids : g = ItxSeen(b)
    BY ItxSeenFields
  <1>2. g.ih = TRUE /\ g.ptx = b.ptx /\ g.secret = b.secret /\ g.pconf = b.pconf
    BY <1>1, ItxSeenFields
  <1>3. PICK p \in {"Known", "Script"} : p = IF n = "B" THEN "Known" ELSE "Script"
    OBVIOUS
  <1> DEFINE h == [g EXCEPT !.state = "SWAP_INITIATED", !.itx = "TX_CONFIRMED", !.pt = p]
  <1>4. h = Initiated(n, ItxSeen(b))
    BY <1>1, <1>3 DEF Initiated
  <1>5. h.ih = g.ih /\ h.ptx = g.ptx /\ h.secret = g.secret /\ h.pconf = g.pconf
    BY DEF Bids
  <1>6. h.itx = "TX_CONFIRMED" /\ h.state = "SWAP_INITIATED" /\ h.pt = p
    BY DEF Bids
  <1>7. h \in Bids
    BY DEF Bids, BidStates, TxStates
  <1> HIDE DEF h
  <1> QED BY <1>2, <1>3, <1>4, <1>5, <1>6, <1>7

\* A transaction that takes the output of t is in the pools or mined.
Touched(t) == \E u \in Tx : Parent[u] = t /\ conf[u] # 0

\* What checkBidState does with an accepted bid of n; first, it does not see the
\* ITX in a block.
AcceptedWaits(n) ==
  /\ mem'[n] = mem[n] /\ db'[n] = db[n] /\ watch'[n] = watch[n] /\ redeems' = redeems
  /\ conf["itx"] <= 0 \/ Touched("itx")
  /\ Broadcast(Refunds(n, mem'[n])) /\ faults' = faults

\* The ITX has a wrong amount: the bid is archived.
AcceptedWrong(n) ==
  /\ mem'[n] = NoBid /\ db'[n] = [mem[n] EXCEPT !.state = "BID_ERROR"]
  /\ watch'[n] = {} /\ redeems' = IF n = "B" THEN 0 ELSE redeems
  /\ conf["itx"] > 0 /\ "itx" \in bad
  /\ conf' = conf /\ sent' = sent /\ faults' = faults

\* The ITX is in a block, not deep enough.
AcceptedSeen(n) ==
  /\ mem'[n] = ItxSeen(mem[n]) /\ db'[n] = mem'[n]
  /\ watch'[n] = watch[n] \union {"ITX"} /\ redeems' = redeems
  /\ Spent("itx") => n = "B" /\ ~mem[n].ih
  /\ conf["itx"] > 0 /\ "itx" \notin bad /\ ~ITXDeep
  /\ Broadcast(Refunds(n, mem'[n])) /\ faults' = faults

\* The seller finds its ITX confirmed.
AcceptedInitiates(n) ==
  /\ n = "S" /\ mem'[n] = Initiated(n, ItxSeen(mem[n])) /\ db'[n] = mem'[n]
  /\ watch'[n] = InitiatedWatch(n) /\ redeems' = redeems
  /\ Spent("itx") => n = "B" /\ ~mem[n].ih
  /\ conf["itx"] > 0 /\ "itx" \notin bad /\ ITXDeep
  /\ Broadcast(Refunds(n, mem'[n])) /\ faults' = faults

\* The buyer finds the ITX confirmed and publishes the PTX.
AcceptedAnswers(n) ==
  /\ n = "B" /\ mem'[n] = [Initiated(n, ItxSeen(mem[n])) EXCEPT !.ptx = "TX_SENT"]
  /\ db'[n] = mem'[n] /\ watch'[n] = InitiatedWatch(n) /\ redeems' = redeems
  /\ Spent("itx") => n = "B" /\ ~mem[n].ih
  /\ conf["itx"] > 0 /\ "itx" \notin bad /\ ITXDeep
  /\ Broadcast({"ptx"}) /\ faults' = faults

\* The buyer cannot fund or publish the PTX.
AcceptedFails(n) ==
  /\ n = "B" /\ Fault
  /\ \E made \in BOOLEAN :
       LET b == [Initiated(n, ItxSeen(mem[n])) EXCEPT !.pt = IF made THEN @ ELSE "None"]
       IN /\ \/ mem'[n] = b /\ db'[n] = db[n]
             \/ mem'[n] = [b EXCEPT !.state = "BID_ERROR"] /\ db'[n] = mem'[n]
          /\ watch'[n] = IF made THEN InitiatedWatch(n) ELSE watch[n] \union {"ITX"}
  /\ redeems' = redeems
  /\ Spent("itx") => n = "B" /\ ~mem[n].ih
  /\ conf["itx"] > 0 /\ "itx" \notin bad /\ ITXDeep
  /\ conf' = conf /\ sent' = sent

\* An accepted bid is not finished, and its PTX has no height to look up.
LEMMA AcceptedConclude ==
  ASSUME TypeOK, NEW n \in Nodes, NEW b \in Bids, NEW w \in WatchSets,
         Conclude(n, b, {}, w, TRUE) \/ Conclude(n, b, {}, w, FALSE),
         b.state = "BID_ACCEPTED", b.ptx = "None"
  PROVE  /\ Others(n) /\ mem'[n] = b /\ watch'[n] = w /\ redeems' = redeems
         /\ Conclude(n, b, {}, w, TRUE) => db'[n] = b
         /\ Conclude(n, b, {}, w, FALSE) => db'[n] = db[n]
         /\ Broadcast(Refunds(n, mem'[n]))
  <1>1. PtxHeight(n, b) = b
    BY PtxHeightFields
  <1>2. ~Finishes(n, b, {})
    BY DEF Finishes
  <1>3. /\ Others(n) /\ Keeps(n, b, {}, w)
        /\ Conclude(n, b, {}, w, TRUE) => db'[n] = mem'[n]
        /\ Conclude(n, b, {}, w, FALSE) => db'[n] = db[n]
    <2>1. {} \in SUBSET Tx
      OBVIOUS
    <2> QED BY <1>1, <1>2, <2>1, ConcludeCases
  <1>4. {} \union Refunds(n, mem'[n]) = Refunds(n, mem'[n])
    OBVIOUS
  <1> QED BY <1>1, <1>3, <1>4 DEF Keeps

\* So it is kept as it is, unless it is saved.
LEMMA AcceptedUnsaved ==
  ASSUME TypeOK, NEW n \in Nodes, NEW b \in Bids, NEW w \in WatchSets,
         Conclude(n, b, {}, w, FALSE), b.state = "BID_ACCEPTED", b.ptx = "None"
  PROVE  /\ Others(n) /\ mem'[n] = b /\ watch'[n] = w /\ redeems' = redeems
         /\ db'[n] = db[n] /\ Broadcast(Refunds(n, mem'[n]))
  <1>1. PtxHeight(n, b) = b
    BY PtxHeightFields
  <1>2. ~Finishes(n, b, {})
    BY DEF Finishes
  <1>3. Others(n) /\ Keeps(n, b, {}, w) /\ db'[n] = db[n]
    <2>1. {} \in SUBSET Tx
      OBVIOUS
    <2> QED BY <1>1, <1>2, <2>1, ConcludeCases
  <1>4. {} \union Refunds(n, mem'[n]) = Refunds(n, mem'[n])
    OBVIOUS
  <1> QED BY <1>1, <1>3, <1>4 DEF Keeps

\* CheckAccepted does one of these.
LEMMA AcceptedCases ==
  ASSUME BaseInv, NEW n \in Nodes, CheckAccepted(n)
  PROVE  /\ Others(n) /\ mem[n].state = "BID_ACCEPTED"
         /\ \/ AcceptedWaits(n) \/ AcceptedWrong(n) \/ AcceptedSeen(n)
            \/ AcceptedInitiates(n) \/ AcceptedAnswers(n) \/ AcceptedFails(n)
  <1> DEFINE b  == mem[n]
             b1 == ItxSeen(b)
             b2 == Initiated(n, b1)
  <1>1. /\ b \in Bids /\ b.state = "BID_ACCEPTED" /\ b.pt = "None" /\ b.ptx = "None"
        /\ watch[n] \in WatchSets
    BY NodeFacts DEF CheckAccepted
  <1>2. /\ b1 \in Bids /\ b1.state = "BID_ACCEPTED" /\ b1.ptx = "None"
    BY <1>1, ItxSeenFields
  <1>3. /\ b2 \in Bids /\ b2.state = "SWAP_INITIATED" /\ b2.ptx = "None"
    BY <1>1, InitiatedFields
  <1>4. /\ watch[n] \union {"ITX"} \in WatchSets /\ InitiatedWatch(n) \in WatchSets
    BY <1>1 DEF WatchSets, InitiatedWatch
  <1>5. TypeOK
    BY DEF BaseInv
  <1>6. PICK seen \in Sees(n, "itx") :
          \/ /\ ~seen \/ conf["itx"] < 0
             /\ Conclude(n, b, {}, watch[n], FALSE)
             /\ UNCHANGED faults
          \/ /\ seen /\ conf["itx"] > 0 /\ ~RightAmount("itx")
             /\ DeactivateBid(n, [b EXCEPT !.state = "BID_ERROR"])
             /\ UNCHANGED <<conf, sent, faults>>
          \/ /\ seen /\ conf["itx"] > 0 /\ RightAmount("itx") /\ ~ITXDeep
             /\ Conclude(n, b1, {}, watch[n] \union {"ITX"}, TRUE)
             /\ UNCHANGED faults
          \/ /\ seen /\ conf["itx"] > 0 /\ RightAmount("itx") /\ ITXDeep
             /\ \/ /\ n = "B" /\ b.pt = "None"
                   /\ Takes("ptx")
                   /\ SaveBid(n, [b2 EXCEPT !.ptx = "TX_SENT"])
                   /\ Broadcast({"ptx"})
                   /\ watch' = [watch EXCEPT ![n] = InitiatedWatch(n)]
                   /\ UNCHANGED <<redeems, faults>>
                \/ /\ n = "S" \/ b.pt # "None"
                   /\ SaveBid(n, b2)
                   /\ Broadcast(Refunds(n, b2))
                   /\ watch' = [watch EXCEPT ![n] = InitiatedWatch(n)]
                   /\ UNCHANGED <<redeems, faults>>
                \/ /\ n = "B" /\ b.pt = "None" /\ Fault
                   /\ \E made \in BOOLEAN :
                        LET b3 == [b2 EXCEPT !.pt = IF made THEN @ ELSE "None"]
                        IN /\ \/ KeepUnsaved(n, b3)
                              \/ SaveBid(n, [b3 EXCEPT !.state = "BID_ERROR"])
                           /\ watch' = [watch EXCEPT ![n] =
                                IF made THEN InitiatedWatch(n) ELSE @ \union {"ITX"}]
                   /\ UNCHANGED <<conf, sent, redeems>>
    BY DEF CheckAccepted, ItxSeen
  <1>7. /\ ~seen => conf["itx"] <= 0 \/ Touched("itx")
        /\ seen => (Spent("itx") => n = "B" /\ ~b.ih)
    BY Zenon DEF Sees, Touched, b
  <1>8. RightAmount("itx") <=> "itx" \notin bad
    BY DEF RightAmount
  <1>9. conf["itx"] \in Int
    BY DEF BaseInv, LedgerInv, Tx
  <1> HIDE DEF b, b1, b2
  <1>10. CASE /\ ~seen \/ conf["itx"] < 0
              /\ Conclude(n, b, {}, watch[n], FALSE) /\ faults' = faults
    <2>1. Conclude(n, b, {}, watch[n], FALSE)
      BY <1>10
    <2>2. /\ Others(n) /\ mem'[n] = b /\ watch'[n] = watch[n] /\ redeems' = redeems
          /\ db'[n] = db[n]
          /\ Broadcast(Refunds(n, mem'[n]))
      <3>1. PICK w \in WatchSets : w = watch[n]
        BY <1>1
      <3>2. Conclude(n, b, {}, w, FALSE)
        BY <2>1, <3>1
      <3>3. /\ Others(n) /\ mem'[n] = b /\ watch'[n] = w /\ redeems' = redeems
            /\ db'[n] = db[n]
            /\ Broadcast(Refunds(n, mem'[n]))
        BY <1>1, <1>5, <3>2, AcceptedUnsaved
      <3> QED BY <3>1, <3>3
    <2>3. AcceptedWaits(n)
      BY <1>7, <1>9, <1>10, <2>2 DEF AcceptedWaits, b
    <2> QED BY <1>1, <2>2, <2>3 DEF b
  <1>11. CASE /\ seen /\ conf["itx"] > 0 /\ ~RightAmount("itx")
              /\ DeactivateBid(n, [b EXCEPT !.state = "BID_ERROR"])
              /\ UNCHANGED <<conf, sent, faults>>
    <2>1. [b EXCEPT !.state = "BID_ERROR"] \in Bids
      BY <1>1, StateFields DEF BidStates
    <2>2. /\ Others(n) /\ db'[n] = [b EXCEPT !.state = "BID_ERROR"] /\ mem'[n] = NoBid
          /\ watch'[n] = {} /\ redeems' = IF n = "B" THEN 0 ELSE redeems
      BY <1>5, <1>11, <2>1, WriteFacts
    <2>3. AcceptedWrong(n)
      BY <1>8, <1>11, <2>2 DEF AcceptedWrong, b
    <2> QED BY <1>1, <2>2, <2>3 DEF b
  <1>12. CASE /\ seen /\ conf["itx"] > 0 /\ RightAmount("itx") /\ ~ITXDeep
              /\ Conclude(n, b1, {}, watch[n] \union {"ITX"}, TRUE)
              /\ UNCHANGED faults
    <2> DEFINE w == watch[n] \union {"ITX"}
    <2>1. Conclude(n, b1, {}, w, TRUE) /\ w \in WatchSets
      BY <1>4, <1>12
    <2> HIDE DEF w
    <2>2. /\ Others(n) /\ mem'[n] = b1 /\ watch'[n] = w /\ redeems' = redeems
          /\ db'[n] = b1
          /\ Broadcast(Refunds(n, mem'[n]))
      BY <1>2, <1>5, <2>1, AcceptedConclude
    <2>3. AcceptedSeen(n)
      BY <1>7, <1>8, <1>12, <2>2 DEF AcceptedSeen, b1, b, w
    <2> QED BY <1>1, <2>2, <2>3 DEF b
  <1>13. CASE /\ seen /\ conf["itx"] > 0 /\ RightAmount("itx") /\ ITXDeep
              /\ n = "B" /\ b.pt = "None"
              /\ SaveBid(n, [b2 EXCEPT !.ptx = "TX_SENT"])
              /\ Broadcast({"ptx"})
              /\ watch' = [watch EXCEPT ![n] = InitiatedWatch(n)]
              /\ UNCHANGED <<redeems, faults>>
    <2>1. [b2 EXCEPT !.ptx = "TX_SENT"] \in Bids
      BY <1>3 DEF Bids, TxStates
    <2>2. /\ Others(n) /\ db'[n] = [b2 EXCEPT !.ptx = "TX_SENT"]
          /\ mem'[n] = [b2 EXCEPT !.ptx = "TX_SENT"] /\ watch'[n] = InitiatedWatch(n)
      BY <1>4, <1>5, <1>13, <2>1, WriteFacts
    <2>3. AcceptedAnswers(n)
      BY <1>7, <1>8, <1>13, <2>2 DEF AcceptedAnswers, b2, b1, b
    <2> QED BY <1>1, <2>2, <2>3 DEF b
  <1>14. CASE /\ seen /\ conf["itx"] > 0 /\ RightAmount("itx") /\ ITXDeep
              /\ n = "S" \/ b.pt # "None"
              /\ SaveBid(n, b2)
              /\ Broadcast(Refunds(n, b2))
              /\ watch' = [watch EXCEPT ![n] = InitiatedWatch(n)]
              /\ UNCHANGED <<redeems, faults>>
    <2>1. /\ Others(n) /\ db'[n] = b2 /\ mem'[n] = b2 /\ watch'[n] = InitiatedWatch(n)
      BY <1>3, <1>4, <1>5, <1>14, WriteFacts
    <2>2. AcceptedInitiates(n)
      BY <1>1, <1>7, <1>8, <1>14, <2>1 DEF AcceptedInitiates, b2, b1, b
    <2> QED BY <1>1, <2>1, <2>2 DEF b
  <1>15. CASE /\ seen /\ conf["itx"] > 0 /\ RightAmount("itx") /\ ITXDeep
              /\ n = "B" /\ b.pt = "None" /\ Fault
              /\ \E made \in BOOLEAN :
                   LET b3 == [b2 EXCEPT !.pt = IF made THEN @ ELSE "None"]
                   IN /\ \/ KeepUnsaved(n, b3)
                         \/ SaveBid(n, [b3 EXCEPT !.state = "BID_ERROR"])
                      /\ watch' = [watch EXCEPT ![n] =
                           IF made THEN InitiatedWatch(n) ELSE @ \union {"ITX"}]
              /\ UNCHANGED <<conf, sent, redeems>>
    <2>1. PICK made \in BOOLEAN :
            LET b3 == [b2 EXCEPT !.pt = IF made THEN @ ELSE "None"]
            IN /\ \/ KeepUnsaved(n, b3)
                  \/ SaveBid(n, [b3 EXCEPT !.state = "BID_ERROR"])
               /\ watch' = [watch EXCEPT ![n] =
                    IF made THEN InitiatedWatch(n) ELSE watch[n] \union {"ITX"}]
      BY <1>15
    <2> DEFINE b3 == [b2 EXCEPT !.pt = IF made THEN @ ELSE "None"]
               w  == IF made THEN InitiatedWatch(n) ELSE watch[n] \union {"ITX"}
    <2>2. b3 \in Bids
      BY <1>3 DEF Bids
    <2>3. [b3 EXCEPT !.state = "BID_ERROR"] \in Bids
      BY <2>2, StateFields DEF BidStates
    <2>4. w \in WatchSets
      BY <1>4
    <2>5. KeepUnsaved(n, b3) \/ SaveBid(n, [b3 EXCEPT !.state = "BID_ERROR"])
      BY <2>1
    <2>6. watch' = [watch EXCEPT ![n] = w]
      BY <2>1
    <2> HIDE DEF b3, w
    <2>7. /\ Others(n) /\ watch'[n] = w
          /\ \/ mem'[n] = b3 /\ db'[n] = db[n]
             \/ mem'[n] = [b3 EXCEPT !.state = "BID_ERROR"] /\ db'[n] = mem'[n]
      BY <1>5, <2>2, <2>3, <2>4, <2>5, <2>6, WriteFacts
    <2>8. \E m \in BOOLEAN :
            LET c == [b2 EXCEPT !.pt = IF m THEN @ ELSE "None"]
            IN /\ \/ mem'[n] = c /\ db'[n] = db[n]
                  \/ mem'[n] = [c EXCEPT !.state = "BID_ERROR"] /\ db'[n] = mem'[n]
               /\ watch'[n] = IF m THEN InitiatedWatch(n) ELSE watch[n] \union {"ITX"}
      BY <2>7, Zenon DEF b3, w
    <2>9. AcceptedFails(n)
      BY <1>7, <1>8, <1>15, <2>8 DEF AcceptedFails, b2, b1, b
    <2> QED BY <1>1, <2>7, <2>9 DEF b
  <1> QED BY <1>6, <1>10, <1>11, <1>12, <1>13, <1>14, <1>15

\* What every step of an engine leaves in order.
Sound(n) ==
  /\ Frame(n) /\ NodeInv(n)' /\ LedgerInv' /\ OrderInv'
  /\ redeems' \in 0..MaxRedeems

\* Refunds disturb nothing.
LEMMA RefundsNet ==
  ASSUME LedgerInv, NEW n \in Nodes, NEW b, Broadcast(Refunds(n, b))
  PROVE  /\ LedgerInv' /\ \A t \in Tx : conf[t] > 0 <=> conf'[t] > 0
         /\ \E R \in SUBSET RefundTx : R = Refunds(n, b) /\ BroadcastFacts(R)
  <1>1. PICK R \in SUBSET RefundTx : R = Refunds(n, b)
    BY DEF Refunds, RefundTx
  <1>2. R \in SUBSET Tx
    BY DEF RefundTx, Tx
  <1>3. LedgerInv' /\ BroadcastFacts(R)
    BY <1>1, <1>2, BroadcastLedger
  <1>4. \A t \in Tx : conf[t] > 0 <=> conf'[t] > 0
    BY <1>2, <1>3, BroadcastDeep
  <1> QED BY <1>1, <1>3, <1>4

\* The records of an accepted bid stay true.
LEMMA AcceptedNode ==
  ASSUME BaseInv, NEW n \in Nodes, up' = up, CheckAccepted(n),
         \A t \in Tx : conf[t] > 0 <=> conf'[t] > 0
  PROVE  Frame(n) /\ NodeInv(n)'
  <1>1. /\ mem[n] \in Bids /\ db[n] \in Bids /\ watch[n] \in WatchSets
        /\ RowTrue(n, db[n]) /\ RowTrue(n, mem[n]) /\ up[n]
        /\ CopyTrue(n, db[n], mem[n], watch[n])
        /\ mem[n].state = "BID_ACCEPTED" /\ db[n].state = "BID_ACCEPTED"
        /\ mem[n].pt = "None" /\ mem[n].ptx = "None" /\ mem[n] # NoBid
    BY NodeFacts DEF CheckAccepted, Live
  <1>2. /\ "PTX" \notin watch[n] /\ "SCRIPT" \notin watch[n]
    BY <1>1 DEF CopyTrue
  <1>3. /\ Others(n)
        /\ \/ AcceptedWaits(n) \/ AcceptedWrong(n) \/ AcceptedSeen(n)
           \/ AcceptedInitiates(n) \/ AcceptedAnswers(n) \/ AcceptedFails(n)
    BY AcceptedCases
  <1>4. PICK m \in Bids : m = mem'[n]
    BY <1>3 DEF Others
  <1>5. PICK d \in Bids : d = db'[n]
    BY <1>3 DEF Others
  <1>6. PICK w \in WatchSets : w = watch'[n]
    BY <1>3 DEF Others
  <1>7. /\ "PTX" \notin watch[n] \union {"ITX"}
        /\ "SCRIPT" \notin watch[n] \union {"ITX"}
        /\ n = "B" => "SCRIPT" \notin InitiatedWatch(n)
        /\ n = "S" => "PTX" \notin InitiatedWatch(n)
    BY <1>2 DEF InitiatedWatch
  <1>8. CASE AcceptedWaits(n)
    <2>1. m = mem[n] /\ d = db[n] /\ w = watch[n]
      BY <1>4, <1>5, <1>6, <1>8 DEF AcceptedWaits
    <2>2. m.state \in Live /\ d.state \in Live
      BY <1>1, <2>1 DEF Live
    <2>3. RowTrue(n, m) /\ RowTrue(n, d)
      BY <1>1, <2>1
    <2> QED BY <1>1, <1>2, <1>3, <1>4, <1>5, <1>6, <2>1, <2>2, <2>3, LiveNode
  <1>9. CASE AcceptedWrong(n)
    <2>1. d = [mem[n] EXCEPT !.state = "BID_ERROR"] /\ mem'[n] = NoBid /\ w = {}
      BY <1>5, <1>6, <1>9 DEF AcceptedWrong
    <2>2. /\ d.state = "BID_ERROR" /\ d.itx = mem[n].itx /\ d.ptx = mem[n].ptx
          /\ d.pt = mem[n].pt /\ d.secret = mem[n].secret
      BY <1>1, <2>1, StateFields DEF BidStates
    <2>3. RowTrue(n, d) /\ d.state \notin Reloaded
      BY <1>1, <2>2 DEF RowTrue, Reloaded
    <2> QED BY <1>3, <1>5, <1>6, <2>1, <2>3, GoneNode
  <1>10. CASE AcceptedSeen(n)
    <2>1. m = ItxSeen(mem[n]) /\ d = m /\ w = watch[n] \union {"ITX"}
      BY <1>4, <1>5, <1>6, <1>10 DEF AcceptedSeen
    <2>2. /\ m.state = "BID_ACCEPTED" /\ m.ptx = mem[n].ptx
          /\ m.itx = IF mem[n].itx = "TX_NONE" THEN "TX_SENT" ELSE mem[n].itx
          /\ m.pt = mem[n].pt /\ m.secret = mem[n].secret
      BY <1>1, <2>1, ItxSeenFields
    <2>3. RowTrue(n, m) /\ m.state \in Live
      BY <1>1, <2>2 DEF RowTrue, Live, Ended
    <2>4. d = m /\ "PTX" \notin w /\ "SCRIPT" \notin w
      BY <1>7, <2>1
    <2> QED BY <1>1, <1>3, <1>4, <1>5, <1>6, <2>3, <2>4, LiveNode
  <1>11. CASE AcceptedInitiates(n)
    <2>1. m = Initiated(n, ItxSeen(mem[n])) /\ d = m /\ w = InitiatedWatch(n) /\ n = "S"
      BY <1>4, <1>5, <1>6, <1>11 DEF AcceptedInitiates
    <2>2. /\ m.state = "SWAP_INITIATED" /\ m.ptx = mem[n].ptx /\ m.itx = "TX_CONFIRMED"
          /\ m.pt = "Script" /\ m.secret = mem[n].secret
      <3> DEFINE g == Initiated(n, ItxSeen(mem[n]))
      <3>1. /\ g.state = "SWAP_INITIATED" /\ g.ptx = mem[n].ptx
            /\ g.itx = "TX_CONFIRMED" /\ g.secret = mem[n].secret
            /\ g.pt = (IF n = "B" THEN "Known" ELSE "Script")
        BY <1>1, InitiatedFields
      <3> HIDE DEF g
      <3> QED BY <2>1, <3>1 DEF g
    <2>3. RowTrue(n, m) /\ m.state \in Live
      BY <1>1, <2>1, <2>2 DEF RowTrue, Live, Ended
    <2>4. d = m /\ "PTX" \notin w
      BY <1>7, <2>1
    <2>5. m.pt # "None" /\ m.ptx \notin Ended /\ m.state # "BID_ACCEPTED"
      BY <1>1, <2>2 DEF Ended
    <2> QED BY <1>1, <1>3, <1>4, <1>5, <1>6, <2>1, <2>3, <2>4, <2>5, LiveNode
  <1>12. CASE AcceptedAnswers(n)
    <2> DEFINE g == Initiated(n, ItxSeen(mem[n]))
    <2>1. /\ g \in Bids /\ g.state = "SWAP_INITIATED" /\ g.itx = "TX_CONFIRMED"
          /\ g.pt = (IF n = "B" THEN "Known" ELSE "Script") /\ g.secret = mem[n].secret
      BY <1>1, InitiatedFields
    <2>2. m = [g EXCEPT !.ptx = "TX_SENT"] /\ d = m /\ w = InitiatedWatch(n) /\ n = "B"
      BY <1>4, <1>5, <1>6, <1>12 DEF AcceptedAnswers
    <2> HIDE DEF g
    <2>3. /\ m.state = "SWAP_INITIATED" /\ m.ptx = "TX_SENT" /\ m.itx = "TX_CONFIRMED"
          /\ m.pt = "Known" /\ m.secret = mem[n].secret
      BY <2>1, <2>2 DEF Bids
    <2>4. RowTrue(n, m) /\ m.state \in Live
      BY <1>1, <2>2, <2>3 DEF RowTrue, Live, Ended
    <2>5. d = m /\ "SCRIPT" \notin w
      BY <1>7, <2>2
    <2>6. m.state # "BID_ACCEPTED"
      BY <2>3
    <2> QED BY <1>1, <1>3, <1>4, <1>5, <1>6, <2>3, <2>4, <2>5, <2>6, LiveNode
  <1>13. CASE AcceptedFails(n)
    <2> DEFINE g == Initiated(n, ItxSeen(mem[n]))
    <2>1. /\ g \in Bids /\ g.state = "SWAP_INITIATED" /\ g.itx = "TX_CONFIRMED"
          /\ g.pt = (IF n = "B" THEN "Known" ELSE "Script") /\ g.secret = mem[n].secret
          /\ g.ptx = mem[n].ptx
      BY <1>1, InitiatedFields
    <2>2. PICK made \in BOOLEAN :
            LET c == [g EXCEPT !.pt = IF made THEN @ ELSE "None"]
            IN /\ \/ m = c /\ d = db[n]
                  \/ m = [c EXCEPT !.state = "BID_ERROR"] /\ d = m
               /\ w = IF made THEN InitiatedWatch(n) ELSE watch[n] \union {"ITX"}
      BY <1>4, <1>5, <1>6, <1>13 DEF AcceptedFails
    <2>3. n = "B"
      BY <1>13 DEF AcceptedFails
    <2> HIDE DEF g
    <2>4. PICK p \in {"Known", "None"} : p = IF made THEN g.pt ELSE "None"
      BY <2>1, <2>3
    <2>5. PICK c \in Bids : c = [g EXCEPT !.pt = p]
      BY <2>1, <2>4 DEF Bids
    <2>6. /\ c.state = "SWAP_INITIATED" /\ c.ptx = mem[n].ptx /\ c.itx = "TX_CONFIRMED"
          /\ c.pt = p /\ c.secret = mem[n].secret
      BY <2>1, <2>5 DEF Bids
    <2>7. \/ m = c /\ d = db[n]
          \/ m = [c EXCEPT !.state = "BID_ERROR"] /\ d = m
      BY <2>1, <2>2, <2>4, <2>5
    <2>8. /\ m.state \in {"SWAP_INITIATED", "BID_ERROR"} /\ m.ptx = mem[n].ptx
          /\ m.itx = "TX_CONFIRMED" /\ m.pt = p /\ m.secret = mem[n].secret
          /\ d = db[n] \/ d = m
      <3>1. CASE m = c /\ d = db[n]
        BY <2>6, <3>1
      <3>2. CASE m = [c EXCEPT !.state = "BID_ERROR"] /\ d = m
        BY <2>6, <3>2, StateFields DEF BidStates
      <3> QED BY <2>7, <3>1, <3>2
    <2>9. RowTrue(n, m) /\ RowTrue(n, d) /\ m.state \in Live /\ d.state \in Live
      BY <1>1, <2>3, <2>4, <2>8 DEF RowTrue, Live, Ended
    <2>10. "SCRIPT" \notin w /\ ("PTX" \in w => m.pt = "Known")
      BY <1>7, <2>1, <2>2, <2>3, <2>4, <2>8
    <2>11. m.state # "BID_ACCEPTED"
      BY <2>8
    <2> QED BY <1>1, <1>3, <1>4, <1>5, <1>6, <2>9, <2>10, <2>11, LiveNode
  <1> QED BY <1>3, <1>8, <1>9, <1>10, <1>11, <1>12, <1>13

\* checkBidState of an accepted bid leaves everything in order.
LEMMA AcceptedSound ==
  ASSUME BaseInv, NEW n \in Nodes, up' = up, bad' = bad, CheckAccepted(n)
  PROVE  Sound(n)
  <1>1. /\ Others(n) /\ mem[n].state = "BID_ACCEPTED"
        /\ \/ AcceptedWaits(n) \/ AcceptedWrong(n) \/ AcceptedSeen(n)
           \/ AcceptedInitiates(n) \/ AcceptedAnswers(n) \/ AcceptedFails(n)
    BY AcceptedCases
  <1>2. LedgerInv /\ OrderInv /\ redeems \in 0..MaxRedeems
    BY DEF BaseInv, TypeOK
  <1>3. /\ mem[n] \in Bids /\ db[n].state = "BID_ACCEPTED"
    BY <1>1, NodeFacts
  <1>5. Calm
    <2>1. n = "S" => db'["S"].state # "BID_RECEIVED"
      <3>. SUFFICES ASSUME n = "S" PROVE db'[n].state # "BID_RECEIVED"
        OBVIOUS
      <3>1. CASE AcceptedWaits(n)
        BY <1>3, <3>1 DEF AcceptedWaits
      <3>2. CASE AcceptedWrong(n)
        BY <1>3, <3>2, StateFields DEF AcceptedWrong, BidStates
      <3>3. CASE AcceptedSeen(n)
        <4>1. ItxSeen(mem[n]).state = "BID_ACCEPTED"
          BY <1>1, <1>3, ItxSeenFields
        <4> QED BY <3>3, <4>1 DEF AcceptedSeen
      <3>4. CASE AcceptedInitiates(n)
        <4>1. Initiated(n, ItxSeen(mem[n])).state = "SWAP_INITIATED"
          BY <1>3, InitiatedFields
        <4> QED BY <3>4, <4>1 DEF AcceptedInitiates
      <3> QED BY <1>1, <3>1, <3>2, <3>3, <3>4 DEF AcceptedAnswers, AcceptedFails
    <2> QED BY <1>1, <1>3, <2>1 DEF Calm, BuyerAnswered, SellerRedeemed, Others, Nodes
  <1>6. CASE AcceptedWaits(n) \/ AcceptedSeen(n) \/ AcceptedInitiates(n)
    <2>1. Broadcast(Refunds(n, mem'[n])) /\ redeems' = redeems
      BY <1>6 DEF AcceptedWaits, AcceptedSeen, AcceptedInitiates
    <2>2. PICK b : b = mem'[n]
      OBVIOUS
    <2>3. Broadcast(Refunds(n, b))
      BY <2>1, <2>2
    <2>4. /\ LedgerInv' /\ \A t \in Tx : conf[t] > 0 <=> conf'[t] > 0
          /\ \E R \in SUBSET RefundTx : BroadcastFacts(R)
      BY <1>2, <2>3, RefundsNet
    <2>5. OrderInv'
      BY <1>5, <2>1, <2>4, OrderKept
    <2> QED BY <1>2, <2>1, <2>4, <2>5, AcceptedNode DEF Sound
  <1>7. CASE AcceptedWrong(n) \/ AcceptedFails(n)
    <2>1. /\ conf' = conf /\ sent' = sent /\ redeems' \in {0, redeems}
      BY <1>7 DEF AcceptedWrong, AcceptedFails
    <2>2. LedgerInv' /\ BroadcastFacts({})
      BY <1>2, <2>1, QuietFacts
    <2>3. \A t \in Tx : conf[t] > 0 <=> conf'[t] > 0
      BY <2>1
    <2>4. OrderInv'
      <3>1. {} \in SUBSET RefundTx /\ (redeems' > 0 => redeems > 0)
        BY <2>1
      <3> QED BY <1>5, <2>2, <3>1, OrderKept
    <2>5. redeems' \in 0..MaxRedeems
      BY <1>2, <2>1 DEF MaxRedeems
    <2> QED BY <2>2, <2>3, <2>4, <2>5, AcceptedNode DEF Sound
  <1>8. CASE AcceptedAnswers(n)
    <2>1. /\ Broadcast({"ptx"}) /\ redeems' = redeems /\ n = "B"
          /\ ITXDeep /\ "itx" \notin bad
      BY <1>8 DEF AcceptedAnswers
    <2>2. {"ptx"} \in SUBSET Tx
      BY DEF Tx
    <2>3. LedgerInv' /\ BroadcastFacts({"ptx"})
      BY <1>2, <2>1, <2>2, BroadcastLedger
    <2>4. \A t \in Tx : /\ conf[t] > 0 <=> conf'[t] > 0
                        /\ conf[t] > 0 => conf'[t] = conf[t]
      BY <1>2, <2>2, <2>3, BroadcastDeep
    <2>5. ITXDeep'
      <3>1. conf["itx"] \in Int /\ conf["itx"] > 0 /\ "itx" \in Tx
        BY <1>2, <2>1, Times DEF LedgerInv, ITXDeep, Tx
      <3> QED BY <2>1, <2>4, <3>1 DEF ITXDeep
    <2>6. BuyerAnswered'
      <3> DEFINE g == Initiated(n, ItxSeen(mem[n]))
      <3>1. g \in Bids /\ g.state = "SWAP_INITIATED"
        BY <1>3, InitiatedFields
      <3>2. mem'[n] = [g EXCEPT !.ptx = "TX_SENT"] /\ db'[n] = mem'[n]
        BY <1>8 DEF AcceptedAnswers
      <3> HIDE DEF g
      <3>3. mem'[n].state = "SWAP_INITIATED" /\ mem'[n].ptx = "TX_SENT"
        BY <3>1, <3>2 DEF Bids
      <3> QED BY <2>1, <3>2, <3>3 DEF BuyerAnswered
    <2>7. \A t \in Tx \ {"ptx"} : t \in sent' <=> t \in sent
      BY <2>3 DEF BroadcastFacts
    <2>8. OrderInv'
      BY <1>2, <1>5, <2>1, <2>4, <2>5, <2>6, <2>7 DEF OrderInv, Calm, Tx
    <2> QED BY <1>2, <2>1, <2>3, <2>4, <2>8, AcceptedNode DEF Sound
  <1> QED BY <1>1, <1>6, <1>7, <1>8

-----------------------------------------------------------------------------
\* checkBidState of an initiated bid, and of the others.

\* The bid b once the PTX is seen.
PtxSeen(b) ==
  [b EXCEPT !.ptx = IF @ \in {"None", "TX_NONE"} THEN "TX_SENT" ELSE @,
            !.pt = "Known",
            !.pconf = IF conf["ptx"] > 0 THEN "Chain"
                      ELSE IF @ = "None" THEN "Pool" ELSE @]

\* The bid b once the PTX is confirmed.
PtxConfirmed(b) ==
  [PtxSeen(b) EXCEPT !.state = "SWAP_PARTICIPATING", !.ptx = "TX_CONFIRMED"]

\* What seeing the PTX leaves alone.
LEMMA PtxSeenFields ==
  ASSUME NEW b \in Bids
  PROVE  LET h == PtxSeen(b)
         IN /\ h \in Bids /\ h.state = b.state /\ h.itx = b.itx /\ h.ih = b.ih
            /\ h.ptx = IF b.ptx \in {"None", "TX_NONE"} THEN "TX_SENT" ELSE b.ptx
            /\ h.pt = "Known" /\ h.secret = b.secret
  <1>1. PICK x \in TxStates :
          x = IF b.ptx \in {"None", "TX_NONE"} THEN "TX_SENT" ELSE b.ptx
    BY DEF Bids, TxStates
  <1>2. PICK y \in {"None", "Pool", "Chain"} :
          y = IF conf["ptx"] > 0 THEN "Chain"
              ELSE IF b.pconf = "None" THEN "Pool" ELSE b.pconf
    BY DEF Bids
  <1> DEFINE h == [b EXCEPT !.ptx = x, !.pt = "Known", !.pconf = y]
  <1>3. h = PtxSeen(b)
    BY <1>1, <1>2 DEF PtxSeen
  <1>4. h \in Bids
    BY DEF Bids
  <1>5. /\ h.state = b.state /\ h.itx = b.itx /\ h.ih = b.ih /\ h.ptx = x
        /\ h.pt = "Known" /\ h.secret = b.secret
    BY DEF Bids
  <1> HIDE DEF h
  <1> QED BY <1>1, <1>3, <1>4, <1>5

\* What confirming the PTX leaves alone.
LEMMA PtxConfirmedFields ==
  ASSUME NEW b \in Bids
  PROVE  LET h == PtxConfirmed(b)
         IN /\ h \in Bids /\ h.state = "SWAP_PARTICIPATING" /\ h.itx = b.itx
            /\ h.ih = b.ih /\ h.ptx = "TX_CONFIRMED" /\ h.pt = "Known"
            /\ h.secret = b.secret
  <1>1. PICK g \in Bids : g = PtxSeen(b)
    BY PtxSeenFields
  <1>2. g.itx = b.itx /\ g.ih = b.ih /\ g.pt = "Known" /\ g.secret = b.secret
    BY <1>1, PtxSeenFields
  <1>3. PtxConfirmed(b) =
          [g EXCEPT !.state = "SWAP_PARTICIPATING", !.ptx = "TX_CONFIRMED"]
    BY <1>1 DEF PtxConfirmed
  <1> DEFINE h == [g EXCEPT !.state = "SWAP_PARTICIPATING", !.ptx = "TX_CONFIRMED"]
  <1>4. /\ h \in Bids /\ h.state = "SWAP_PARTICIPATING" /\ h.ptx = "TX_CONFIRMED"
        /\ h.itx = g.itx /\ h.ih = g.ih /\ h.pt = g.pt /\ h.secret = g.secret
    BY DEF Bids, BidStates, TxStates
  <1> HIDE DEF h
  <1> QED BY <1>2, <1>3, <1>4 DEF h

\* The bid once the PTX is confirmed.
LEMMA ConfirmedBid ==
  ASSUME NEW b \in Bids
  PROVE  \E h \in Bids : h = PtxConfirmed(b) /\ h.state = "SWAP_PARTICIPATING"
  BY PtxConfirmedFields, Zenon

\* What n watches once it sees the PTX.
PtxWatch(n) ==
  IF mem[n].pconf = "None" /\ mem[n].ptx # "TX_SENT" THEN watch[n] \union {"PTX"}
                                                     ELSE watch[n]

\* What checkBidState does with an initiated bid of n; first, it does not see the
\* PTX, or one of a wrong amount.
InitiatedWaits(n) ==
  /\ Conclude(n, mem[n], {}, watch[n], FALSE) /\ faults' = faults
  /\ conf["ptx"] <= 0 \/ Touched("ptx") \/ "ptx" \in bad

\* The PTX is seen, not deep enough.
InitiatedSees(n) ==
  /\ \/ Conclude(n, PtxSeen(mem[n]), {}, PtxWatch(n), TRUE)
     \/ PtxSeen(mem[n]) = mem[n] /\ Conclude(n, PtxSeen(mem[n]), {}, PtxWatch(n), FALSE)
  /\ conf["ptx"] # 0 /\ ~Spent("ptx") /\ "ptx" \notin bad /\ ~PTXDeep /\ faults' = faults

\* The seller redeems the PTX, and publishes the secret with it.
InitiatedTakes(n) ==
  /\ n = "S" /\ Takes("ptx_redeem")
  /\ Conclude(n, PtxConfirmed(mem[n]), {"ptx_redeem"}, PtxWatch(n), TRUE)
  /\ ~Spent("ptx") /\ "ptx" \notin bad /\ PTXDeep /\ faults' = faults

\* The buyer finds its PTX confirmed.
InitiatedFollows(n) ==
  /\ n = "B" /\ Conclude(n, PtxConfirmed(mem[n]), {}, PtxWatch(n), TRUE)
  /\ ~Spent("ptx") /\ "ptx" \notin bad /\ PTXDeep /\ faults' = faults

\* The redeem of the PTX is turned down, or the daemon fails.
InitiatedFails(n) ==
  /\ n = "S"
  /\ \/ KeepUnsaved(n, PtxConfirmed(mem[n])) /\ Fault
     \/ /\ SaveBid(n, [PtxConfirmed(mem[n]) EXCEPT !.state = "BID_ERROR"])
        /\ Fault \/ (Rejects("ptx_redeem") /\ faults' = faults)
  /\ watch' = [watch EXCEPT ![n] = PtxWatch(n)]
  /\ conf' = conf /\ sent' = sent /\ redeems' = redeems
  /\ ~Spent("ptx") /\ "ptx" \notin bad /\ PTXDeep

\* CheckInitiated does one of these.
LEMMA InitiatedCases ==
  ASSUME BaseInv, NEW n \in Nodes, CheckInitiated(n)
  PROVE  /\ mem[n].state = "SWAP_INITIATED"
         /\ \/ InitiatedWaits(n) \/ InitiatedSees(n) \/ InitiatedTakes(n)
            \/ InitiatedFollows(n) \/ InitiatedFails(n)
  <1> DEFINE b  == mem[n]
             b1 == PtxSeen(b)
             b2 == PtxConfirmed(b)
             w  == PtxWatch(n)
             redeem == IF n = "S" THEN {"ptx_redeem"} ELSE {}
  <1>1. b.state = "SWAP_INITIATED"
    BY DEF CheckInitiated
  <1>2. PICK seen \in Sees(n, "ptx") :
          \/ /\ ~seen \/ ~RightAmount("ptx")
             /\ Conclude(n, b, {}, watch[n], FALSE)
             /\ UNCHANGED faults
          \/ /\ seen /\ RightAmount("ptx") /\ ~PTXDeep
             /\ \E save \in {TRUE, b1 # b} : Conclude(n, b1, {}, w, save)
             /\ UNCHANGED faults
          \/ /\ seen /\ RightAmount("ptx") /\ PTXDeep
             /\ \/ /\ \A t \in redeem : Takes(t)
                   /\ Conclude(n, b2, redeem, w, TRUE)
                   /\ UNCHANGED faults
                \/ /\ n = "S"
                   /\ \/ /\ Rejects("ptx_redeem")
                         /\ SaveBid(n, [b2 EXCEPT !.state = "BID_ERROR"])
                         /\ UNCHANGED faults
                      \/ /\ Fault
                         /\ \/ KeepUnsaved(n, b2)
                            \/ SaveBid(n, [b2 EXCEPT !.state = "BID_ERROR"])
                   /\ watch' = [watch EXCEPT ![n] = w]
                   /\ UNCHANGED <<conf, sent, redeems>>
    BY DEF CheckInitiated, PtxSeen, PtxConfirmed, PtxWatch
  <1>3. ~seen => conf["ptx"] <= 0 \/ Touched("ptx")
    BY Zenon DEF Sees, Touched
  <1>4. seen => conf["ptx"] # 0 /\ ~Spent("ptx")
    BY Zenon DEF Sees
  <1>5. RightAmount("ptx") <=> "ptx" \notin bad
    BY DEF RightAmount
  <1> HIDE DEF b, b1, b2, w
  <1>6. CASE /\ ~seen \/ ~RightAmount("ptx")
             /\ Conclude(n, b, {}, watch[n], FALSE)
             /\ UNCHANGED faults
    BY <1>1, <1>3, <1>5, <1>6 DEF InitiatedWaits, b
  <1>7. CASE /\ seen /\ RightAmount("ptx") /\ ~PTXDeep
             /\ \E save \in {TRUE, b1 # b} : Conclude(n, b1, {}, w, save)
             /\ UNCHANGED faults
    <2>1. \/ Conclude(n, b1, {}, w, TRUE)
          \/ b1 = b /\ Conclude(n, b1, {}, w, FALSE)
      BY <1>7
    <2> QED BY <1>1, <1>4, <1>5, <1>7, <2>1 DEF InitiatedSees, b, b1, w
  <1>8. CASE /\ seen /\ RightAmount("ptx") /\ PTXDeep
             /\ \A t \in redeem : Takes(t)
             /\ Conclude(n, b2, redeem, w, TRUE)
             /\ UNCHANGED faults
    BY <1>1, <1>4, <1>5, <1>8 DEF InitiatedTakes, InitiatedFollows, b, b2, w, Nodes
  <1>9. CASE /\ seen /\ RightAmount("ptx") /\ PTXDeep /\ n = "S"
             /\ \/ /\ Rejects("ptx_redeem")
                   /\ SaveBid(n, [b2 EXCEPT !.state = "BID_ERROR"])
                   /\ UNCHANGED faults
                \/ /\ Fault
                   /\ \/ KeepUnsaved(n, b2)
                      \/ SaveBid(n, [b2 EXCEPT !.state = "BID_ERROR"])
             /\ watch' = [watch EXCEPT ![n] = w]
             /\ UNCHANGED <<conf, sent, redeems>>
    BY <1>1, <1>4, <1>5, <1>9 DEF InitiatedFails, b, b2, w
  <1> QED BY <1>2, <1>6, <1>7, <1>8, <1>9

\* Conclude leaves everything in order when nothing was published before it.
LEMMA ConcludeSound ==
  ASSUME BaseInv, NEW n \in Nodes, NEW b \in Bids,
         NEW w \in WatchSets, up' = up, bad' = bad,
         Conclude(n, b, {}, w, TRUE) \/ Conclude(n, b, {}, w, FALSE),
         mem[n] # NoBid, RowTrue(n, b), b.state \in Live,
         b.state = "BID_ACCEPTED" => db[n].state = "BID_ACCEPTED",
         "PTX" \in w => b.pt = "Known",
         "SCRIPT" \in w => n = "S" /\ b.pt # "None" /\ b.ptx \notin Ended,
         b.state = mem[n].state \/ b.state = "SWAP_PARTICIPATING",
         mem[n].ptx # "None" => b.ptx # "None"
  PROVE  Sound(n)
  <1>1. {} \in SUBSET Tx
    OBVIOUS
  <1>2. /\ Frame(n) /\ LedgerInv' /\ NodeInv(n)' /\ Calm
        /\ redeems' \in 0..MaxRedeems /\ (redeems' > 0 => redeems > 0)
        /\ \E R \in SUBSET RefundTx : BroadcastFacts({} \union R)
    BY <1>1, ConcludeNode
  <1>3. PICK R \in SUBSET RefundTx : BroadcastFacts({} \union R)
    BY <1>2
  <1>4. {} \union R = R
    OBVIOUS
  <1>5. BroadcastFacts(R)
    BY <1>3, <1>4
  <1>6. OrderInv'
    BY <1>2, <1>5, OrderKept
  <1> QED BY <1>2, <1>6 DEF Sound

\* checkBidState of an initiated bid leaves everything in order.
LEMMA InitiatedSound ==
  ASSUME BaseInv, NEW n \in Nodes, up' = up, bad' = bad, CheckInitiated(n)
  PROVE  Sound(n)
  <1>1. /\ mem[n] \in Bids /\ db[n] \in Bids /\ watch[n] \in WatchSets
        /\ RowTrue(n, db[n]) /\ RowTrue(n, mem[n]) /\ up[n]
        /\ CopyTrue(n, db[n], mem[n], watch[n]) /\ db[n].state \in Live
        /\ mem[n].state = "SWAP_INITIATED" /\ mem[n] # NoBid
    BY NodeFacts DEF CheckInitiated, Live
  <1>2. \/ InitiatedWaits(n) \/ InitiatedSees(n) \/ InitiatedTakes(n)
        \/ InitiatedFollows(n) \/ InitiatedFails(n)
    BY InitiatedCases
  <1>3. LedgerInv /\ OrderInv /\ redeems \in 0..MaxRedeems /\ TypeOK
    BY DEF BaseInv, TypeOK
  <1>4. /\ "PTX" \in watch[n] => mem[n].pt = "Known"
        /\ "SCRIPT" \in watch[n] =>
             n = "S" /\ mem[n].pt # "None" /\ mem[n].ptx \notin Ended
    BY <1>1 DEF CopyTrue
  <1>5. PICK c \in Bids : c = PtxSeen(mem[n])
    BY <1>1, PtxSeenFields
  <1>6. /\ c.state = "SWAP_INITIATED" /\ c.itx = mem[n].itx /\ c.pt = "Known"
        /\ c.ptx = IF mem[n].ptx \in {"None", "TX_NONE"} THEN "TX_SENT" ELSE mem[n].ptx
        /\ c.secret = mem[n].secret
    BY <1>1, <1>5, PtxSeenFields
  <1>7. PICK e \in Bids : e = PtxConfirmed(mem[n])
    BY <1>1, PtxConfirmedFields
  <1>8. /\ e.state = "SWAP_PARTICIPATING" /\ e.itx = mem[n].itx /\ e.pt = "Known"
        /\ e.ptx = "TX_CONFIRMED" /\ e.secret = mem[n].secret
    BY <1>1, <1>7, PtxConfirmedFields
  <1>9. PICK w \in WatchSets : w = PtxWatch(n)
    BY <1>1 DEF PtxWatch, WatchSets
  <1>10. "SCRIPT" \in w => "SCRIPT" \in watch[n]
    BY <1>9 DEF PtxWatch
  <1>11. /\ RowTrue(n, c) /\ c.state \in Live /\ c.ptx # "None"
         /\ mem[n].ptx \notin Ended => c.ptx \notin Ended
    BY <1>1, <1>6 DEF RowTrue, Live, Ended
  <1>12. /\ RowTrue(n, e) /\ e.state \in Live /\ e.ptx # "None" /\ e.ptx \notin Ended
    BY <1>1, <1>8 DEF RowTrue, Live, Ended
  <1>13. CASE InitiatedWaits(n)
    <2>1. PICK b \in Bids : b = mem[n]
      BY <1>1
    <2>2. PICK v \in WatchSets : v = watch[n]
      BY <1>1
    <2>3. Conclude(n, b, {}, v, FALSE)
      BY <1>13, <2>1, <2>2 DEF InitiatedWaits
    <2>4. /\ RowTrue(n, b) /\ b.state \in Live /\ b.state # "BID_ACCEPTED"
          /\ b.state = mem[n].state /\ (mem[n].ptx # "None" => b.ptx # "None")
      BY <1>1, <2>1 DEF Live
    <2>5. /\ "PTX" \in v => b.pt = "Known"
          /\ "SCRIPT" \in v => n = "S" /\ b.pt # "None" /\ b.ptx \notin Ended
      BY <1>4, <2>1, <2>2
    <2> QED BY <1>1, <2>3, <2>4, <2>5, ConcludeSound
  <1>14. CASE InitiatedSees(n)
    <2>1. Conclude(n, c, {}, w, TRUE) \/ Conclude(n, c, {}, w, FALSE)
      BY <1>5, <1>9, <1>14 DEF InitiatedSees
    <2>2. /\ c.state # "BID_ACCEPTED" /\ c.state = mem[n].state
          /\ "PTX" \in w => c.pt = "Known"
          /\ "SCRIPT" \in w => n = "S" /\ c.pt # "None" /\ c.ptx \notin Ended
      BY <1>1, <1>4, <1>6, <1>10, <1>11
    <2> QED BY <1>1, <1>11, <2>1, <2>2, ConcludeSound
  <1>15. /\ e.state # "BID_ACCEPTED"
         /\ "PTX" \in w => e.pt = "Known"
         /\ "SCRIPT" \in w => n = "S" /\ e.pt # "None" /\ e.ptx \notin Ended
    BY <1>4, <1>8, <1>10, <1>12
  <1>16. CASE InitiatedFollows(n)
    <2>1. Conclude(n, e, {}, w, TRUE)
      BY <1>7, <1>9, <1>16 DEF InitiatedFollows
    <2> QED BY <1>1, <1>8, <1>12, <1>15, <2>1, ConcludeSound
  <1>17. CASE InitiatedTakes(n)
    <2>1. /\ Conclude(n, e, {"ptx_redeem"}, w, TRUE) /\ n = "S"
          /\ "ptx" \notin bad /\ PTXDeep
      BY <1>7, <1>9, <1>17 DEF InitiatedTakes
    <2>2. PICK pub \in SUBSET Tx : pub = {"ptx_redeem"}
      BY DEF Tx
    <2>3. Conclude(n, e, pub, w, TRUE)
      BY <2>1, <2>2
    <2>4. /\ Frame(n) /\ LedgerInv' /\ NodeInv(n)' /\ Calm
          /\ redeems' \in 0..MaxRedeems /\ (redeems' > 0 => redeems > 0)
          /\ \E R \in SUBSET RefundTx : BroadcastFacts(pub \union R)
      BY <1>1, <1>8, <1>12, <1>15, <2>3, ConcludeNode
    <2>5. PICK R \in SUBSET RefundTx : BroadcastFacts(pub \union R)
      BY <2>4
    <2>6. /\ Finishes(n, e, pub) \/ Keeps(n, e, pub, w)
          /\ Finishes(n, e, pub) \/ db'[n] = mem'[n]
      BY <1>3, <2>3, ConcludeCases
    <2>7. SellerRedeemed'
      <3>1. CASE Finishes(n, e, pub)
        <4>1. db'[n].state = "SWAP_COMPLETED" /\ mem'[n] = NoBid
          BY <3>1, StateFields DEF Finishes, BidStates
        <4> QED BY <2>1, <4>1 DEF SellerRedeemed, NoBid
      <3>2. CASE Keeps(n, e, pub, w) /\ db'[n] = mem'[n]
        <4>1. mem'[n].state = e.state
          BY <3>2, PtxHeightFields DEF Keeps
        <4> QED BY <1>8, <2>1, <3>2, <4>1 DEF SellerRedeemed
      <3> QED BY <2>6, <3>1, <3>2
    <2>8. pub \union R \in SUBSET Tx
      BY DEF RefundTx, Tx
    <2>9. \A t \in Tx : /\ conf[t] > 0 <=> conf'[t] > 0
                        /\ conf[t] > 0 => conf'[t] = conf[t]
      BY <1>3, <2>5, <2>8, BroadcastDeep
    <2>10. \A t \in Tx \ (RefundTx \union {"ptx_redeem"}) : t \in sent' <=> t \in sent
      BY <2>2, <2>5 DEF BroadcastFacts
    <2>11. /\ conf["itx"] \in Int /\ conf["ptx"] \in Int
           /\ {"itx", "ptx", "ptx_redeem"} \subseteq Tx
      BY <1>3 DEF LedgerInv, Tx
    <2>12. conf'["ptx"] > 0
      BY <2>1, <2>9, <2>11, Times DEF PTXDeep
    <2>13. ITXDeep => ITXDeep'
      BY <2>9, <2>11, Times DEF ITXDeep
    <2>14. OrderInv'
      BY <1>3, <2>1, <2>4, <2>7, <2>9, <2>10, <2>12, <2>13
         DEF OrderInv, Calm, RefundTx, Tx
    <2> QED BY <2>4, <2>14 DEF Sound
  <1>18. CASE InitiatedFails(n)
    <2>1. /\ n = "S" /\ watch' = [watch EXCEPT ![n] = w]
          /\ conf' = conf /\ sent' = sent /\ redeems' = redeems
          /\ \/ KeepUnsaved(n, e)
             \/ SaveBid(n, [e EXCEPT !.state = "BID_ERROR"])
      BY <1>7, <1>9, <1>18 DEF InitiatedFails
    <2>2. PICK f \in Bids : f = [e EXCEPT !.state = "BID_ERROR"]
      BY ErrorBid
    <2>3. /\ f.state = "BID_ERROR" /\ f.itx = e.itx /\ f.pt = e.pt /\ f.ptx = e.ptx
          /\ f.secret = e.secret
      BY <2>2 DEF Bids
    <2>4. RowTrue(n, f) /\ f.state \in Live /\ f.ptx \notin Ended
      BY <1>8, <1>12, <2>3 DEF RowTrue, Live
    <2>5. /\ Others(n) /\ watch'[n] = w
          /\ (mem'[n] = e /\ db'[n] = db[n]) \/ (mem'[n] = f /\ db'[n] = f)
      <3>1. CASE KeepUnsaved(n, e)
        BY <1>3, <2>1, <3>1, WriteFacts
      <3>2. CASE SaveBid(n, f)
        BY <1>3, <2>1, <3>2, WriteFacts
      <3>3. KeepUnsaved(n, e) \/ SaveBid(n, f)
        BY <2>1, <2>2
      <3> QED BY <3>1, <3>2, <3>3
    <2>6. PICK d \in Bids : d = db'[n]
      BY <2>5 DEF Others
    <2>7. PICK m \in Bids : m = mem'[n]
      BY <2>5 DEF Others
    <2>8. /\ RowTrue(n, m) /\ m.state \in Live /\ m.state # "BID_ACCEPTED"
          /\ m.pt = "Known" /\ m.ptx \notin Ended
      BY <1>8, <1>12, <2>3, <2>4, <2>5, <2>7
    <2>9. RowTrue(n, d) /\ d.state \in Live
      BY <1>1, <2>4, <2>5, <2>6
    <2>10. LedgerInv' /\ BroadcastFacts({}) /\ \A t \in Tx : conf[t] > 0 <=> conf'[t] > 0
      BY <1>3, <2>1, QuietFacts
    <2>11. "SCRIPT" \in w => n = "S" /\ m.pt # "None" /\ m.ptx \notin Ended
      BY <2>1, <2>8
    <2>12. Frame(n) /\ NodeInv(n)'
      BY <1>1, <2>5, <2>6, <2>7, <2>8, <2>9, <2>10, <2>11, LiveNode
    <2>13. Calm
      BY <1>1, <2>1, <2>3, <2>5, <2>6, <2>8, <2>9, <1>8 DEF Calm, BuyerAnswered,
         SellerRedeemed, Others, Nodes, Live
    <2>14. OrderInv'
      <3>1. {} \in SUBSET RefundTx /\ (redeems' > 0 => redeems > 0)
        BY <2>1
      <3> QED BY <2>10, <2>13, <3>1, OrderKept
    <2> QED BY <1>3, <2>1, <2>10, <2>12, <2>14 DEF Sound
  <1> QED BY <1>2, <1>13, <1>14, <1>16, <1>17, <1>18

\* A saved bid leaves everything in order when nothing is published.
LEMMA SaveSound ==
  ASSUME BaseInv, NEW n \in Nodes, NEW b \in Bids, NEW w \in WatchSets,
         up' = up, bad' = bad, conf' = conf, sent' = sent,
         SaveBid(n, b), watch' = [watch EXCEPT ![n] = w],
         redeems' \in 0..MaxRedeems,
         redeems' > 0 => redeems > 0 \/ conf["ptx_redeem"] > 0,
         mem[n] # NoBid, RowTrue(n, b),
         b.state = mem[n].state \/ b.state = "BID_ERROR",
         mem[n].ptx # "None" => b.ptx # "None",
         "PTX" \in w => b.pt = "Known",
         "SCRIPT" \in w => n = "S" /\ b.pt # "None" /\ b.ptx \notin Ended
  PROVE  Sound(n)
  <1>1. /\ up[n] /\ mem[n].state \in Live /\ db[n].state \in Live
        /\ mem[n].state = "BID_ACCEPTED" => db[n].state = "BID_ACCEPTED"
    BY NodeFacts
  <1>2. b.state \in Live
    BY <1>1 DEF Live
  <1>3. TypeOK /\ LedgerInv /\ OrderInv
    BY DEF BaseInv
  <1>4. Others(n) /\ watch'[n] = w
    BY <1>3, WriteFacts
  <1>5. db'[n] = b /\ mem'[n] = b
    BY <1>3, WriteFacts
  <1>6. LedgerInv' /\ BroadcastFacts({}) /\ \A t \in Tx : conf[t] > 0 <=> conf'[t] > 0
    BY <1>3, QuietFacts
  <1>7. Frame(n) /\ NodeInv(n)'
    BY <1>1, <1>2, <1>4, <1>5, <1>6, LiveNode
  <1>8. Calm
    BY <1>1, <1>2, <1>4, <1>5 DEF Calm, BuyerAnswered, SellerRedeemed, Others, Nodes, Live
  <1>9. OrderInv'
    <2>1. {} \in SUBSET RefundTx
      OBVIOUS
    <2> QED BY <1>6, <1>8, <2>1, OrderKept
  <1> QED BY <1>6, <1>7, <1>9 DEF Sound

\* A step that changes no record, and publishes nothing.
LEMMA SameSound ==
  ASSUME BaseInv, NEW n \in Nodes, bad' = bad, up' = up, conf' = conf, sent' = sent,
         db' = db, mem' = mem, watch' = watch,
         redeems' \in 0..MaxRedeems, redeems' > 0 => redeems > 0
  PROVE  Sound(n)
  <1>1. TypeOK /\ LedgerInv
    BY DEF BaseInv
  <1>2. LedgerInv' /\ BroadcastFacts({}) /\ \A t \in Tx : conf[t] > 0 <=> conf'[t] > 0
    BY <1>1, QuietFacts
  <1>3. Frame(n)
    BY <1>1, <1>2 DEF Frame, Others, TypeOK, WatchSets
  <1>4. NodeInv(n)'
    <2>1. PICK b : b = db[n]
      OBVIOUS
    <2>2. PICK m : m = mem[n]
      OBVIOUS
    <2>3. RowTrue(n, b)' /\ RowTrue(n, m)'
      BY <1>2, <2>1, <2>2, NodeFacts, RowKept
    <2>4. CopyTrue(n, db[n], mem[n], watch[n])
      BY NodeFacts
    <2>5. CopyTrue(n, db[n], mem[n], watch[n])'
      BY <2>4 DEF CopyTrue
    <2> QED BY <2>1, <2>2, <2>3, <2>5 DEF NodeInv
  <1>5. Calm
    BY DEF Calm, BuyerAnswered, SellerRedeemed
  <1>6. OrderInv'
    <2>1. {} \in SUBSET RefundTx
      OBVIOUS
    <2> QED BY <1>2, <1>5, <2>1, OrderKept
  <1> QED BY <1>2, <1>3, <1>4, <1>6 DEF Sound

\* A bid with an error.
LEMMA ErrorSound ==
  ASSUME BaseInv, NEW n \in Nodes, up' = up, bad' = bad, conf' = conf, sent' = sent,
         SaveBid(n, [mem[n] EXCEPT !.state = "BID_ERROR"]), watch' = watch,
         redeems' = redeems, mem[n] # NoBid
  PROVE  Sound(n)
  <1>1. /\ mem[n] \in Bids /\ watch[n] \in WatchSets /\ RowTrue(n, mem[n])
        /\ CopyTrue(n, db[n], mem[n], watch[n]) /\ mem[n].state \in Live
    BY NodeFacts
  <1>2. PICK b \in Bids : b = [mem[n] EXCEPT !.state = "BID_ERROR"]
    BY <1>1, StateFields DEF BidStates
  <1>3. /\ b.state = "BID_ERROR" /\ b.itx = mem[n].itx /\ b.ptx = mem[n].ptx
        /\ b.pt = mem[n].pt /\ b.secret = mem[n].secret
    BY <1>1, <1>2, StateFields DEF BidStates
  <1>4. RowTrue(n, b)
    BY <1>1, <1>3 DEF RowTrue, Live
  <1>5. PICK w \in WatchSets : w = watch[n]
    BY <1>1
  <1>6. watch' = [watch EXCEPT ![n] = w]
    BY <1>5 DEF BaseInv, TypeOK
  <1>7. /\ "PTX" \in w => b.pt = "Known"
        /\ "SCRIPT" \in w => n = "S" /\ b.pt # "None" /\ b.ptx \notin Ended
    BY <1>1, <1>3, <1>5 DEF CopyTrue
  <1>8. redeems' \in 0..MaxRedeems
    BY DEF BaseInv, TypeOK
  <1>9. SaveBid(n, b)
    BY <1>2
  <1> QED BY <1>3, <1>4, <1>6, <1>7, <1>8, <1>9, SaveSound

\* checkBidState leaves everything in order.
LEMMA CheckSound ==
  ASSUME BaseInv, NEW n \in Nodes, CheckBidState(n)
  PROVE  Sound(n)
  <1>1. up' = up /\ bad' = bad
    BY DEF CheckBidState
  <1>2. CASE CheckAccepted(n)
    BY <1>1, <1>2, AcceptedSound
  <1>3. CASE CheckInitiated(n)
    BY <1>1, <1>3, InitiatedSound
  <1>4. CASE CheckNothingMade(n)
    <2>1. /\ SaveBid(n, [mem[n] EXCEPT !.state = "BID_ERROR"]) /\ watch' = watch
          /\ redeems' = redeems /\ conf' = conf /\ sent' = sent
          /\ mem[n].state = "SWAP_INITIATED"
      BY <1>4 DEF CheckNothingMade
    <2>2. mem[n] # NoBid
      BY <2>1 DEF NoBid
    <2> QED BY <1>1, <2>1, <2>2, ErrorSound
  <1>5. CASE CheckOther(n)
    <2>1. /\ Conclude(n, mem[n], {}, watch[n], FALSE)
          /\ mem[n].state \in {"SWAP_PARTICIPATING", "BID_ERROR"}
      BY <1>5 DEF CheckOther
    <2>2. /\ mem[n] \in Bids /\ watch[n] \in WatchSets /\ RowTrue(n, mem[n])
          /\ CopyTrue(n, db[n], mem[n], watch[n]) /\ mem[n] # NoBid
      BY <2>1, NodeFacts DEF Live
    <2>3. PICK b \in Bids : b = mem[n]
      BY <2>2
    <2>4. PICK w \in WatchSets : w = watch[n]
      BY <2>2
    <2>5. Conclude(n, b, {}, w, FALSE)
      BY <2>1, <2>3, <2>4
    <2>6. /\ RowTrue(n, b) /\ b.state \in Live /\ b.state # "BID_ACCEPTED"
          /\ b.state = mem[n].state /\ (mem[n].ptx # "None" => b.ptx # "None")
          /\ "PTX" \in w => b.pt = "Known"
          /\ "SCRIPT" \in w => n = "S" /\ b.pt # "None" /\ b.ptx \notin Ended
      BY <2>1, <2>2, <2>3, <2>4 DEF CopyTrue, Live
    <2> QED BY <1>1, <2>2, <2>5, <2>6, ConcludeSound
  <1>6. CASE mem[n] # NoBid /\ CheckFails(n)
    <2>1. /\ conf' = conf /\ sent' = sent /\ watch' = watch /\ redeems' = redeems
          /\ \/ mem' = mem /\ db' = db
             \/ SaveBid(n, [mem[n] EXCEPT !.state = "BID_ERROR"])
      BY <1>6 DEF CheckFails
    <2>2. redeems' \in 0..MaxRedeems
      BY <2>1 DEF BaseInv, TypeOK
    <2> QED BY <1>1, <1>6, <2>1, <2>2, ErrorSound, SameSound
  <1>7. CASE UNCHANGED <<conf, sent, mem, db, watch, redeems, faults>>
    <2>1. redeems' \in 0..MaxRedeems
      BY <1>7 DEF BaseInv, TypeOK
    <2> QED BY <1>1, <1>7, <2>1, SameSound
  <1> QED BY <1>2, <1>3, <1>4, <1>5, <1>6, <1>7 DEF CheckBidState

-----------------------------------------------------------------------------
\* The watched outputs, the queue, crashes and restarts.

\* The process of n dies between two commits.
LEMMA LoseSound ==
  ASSUME BaseInv, NEW n \in Nodes, LoseMemory(n), bad' = bad, db' = db,
         conf' = conf, sent' = sent, redeems' \in 0..MaxRedeems,
         redeems' > 0 => redeems > 0 \/ conf["ptx_redeem"] > 0
  PROVE  Sound(n)
  <1>1. TypeOK /\ LedgerInv
    BY DEF BaseInv
  <1>2. LedgerInv' /\ BroadcastFacts({}) /\ \A t \in Tx : conf[t] > 0 <=> conf'[t] > 0
    BY <1>1, QuietFacts
  <1>3. NoBid \in Bids /\ {} \in WatchSets
    BY DEF NoBid, Bids, BidStates, TxStates, WatchSets
  <1>4. /\ mem \in [Nodes -> Bids] /\ db \in [Nodes -> Bids]
        /\ watch \in [Nodes -> WatchSets] /\ up \in [Nodes -> BOOLEAN]
    BY <1>1 DEF TypeOK, WatchSets
  <1>5. /\ Others(n) /\ mem'[n] = NoBid /\ watch'[n] = {}
        /\ \A k \in Nodes \ {n} : up'[k] = up[k]
    BY <1>3, <1>4 DEF LoseMemory, Others
  <1>6. up'[n] = FALSE
    BY <1>4 DEF LoseMemory
  <1>7. PICK d \in Bids : d = db[n] /\ d = db'[n]
    BY <1>4
  <1>8. RowTrue(n, d)
    BY <1>7, NodeFacts
  <1>9. Frame(n) /\ NodeInv(n)'
    BY <1>2, <1>5, <1>6, <1>7, <1>8, GoneNode
  <1>10. Calm
    BY <1>5 DEF Calm, BuyerAnswered, SellerRedeemed, Others, NoBid, Nodes
  <1>11. OrderInv'
    <2>1. {} \in SUBSET RefundTx
      OBVIOUS
    <2> QED BY <1>2, <1>10, <2>1, OrderKept
  <1> QED BY <1>2, <1>9, <1>11 DEF Sound

\* A bid with another record of the ITX.
LEMMA ItxFields ==
  ASSUME NEW b \in Bids, NEW x \in TxStates
  PROVE  LET h == [b EXCEPT !.itx = x]
         IN /\ h \in Bids /\ h.state = b.state /\ h.itx = x /\ h.ptx = b.ptx
            /\ h.ih = b.ih /\ h.pt = b.pt /\ h.secret = b.secret
  BY DEF Bids

\* A bid with another record of the PTX.
LEMMA PtxFields ==
  ASSUME NEW b \in Bids, NEW x \in TxStates
  PROVE  /\ LET h == [b EXCEPT !.ptx = x]
            IN /\ h \in Bids /\ h.state = b.state /\ h.itx = b.itx /\ h.ptx = x
               /\ h.ih = b.ih /\ h.pt = b.pt /\ h.secret = b.secret
         /\ LET h == [b EXCEPT !.ptx = x, !.secret = TRUE]
            IN /\ h \in Bids /\ h.state = b.state /\ h.itx = b.itx /\ h.ptx = x
               /\ h.ih = b.ih /\ h.pt = b.pt /\ h.secret = TRUE
         /\ LET h == [b EXCEPT !.pt = "Known", !.ptx = x]
            IN /\ h \in Bids /\ h.state = b.state /\ h.itx = b.itx /\ h.ptx = x
               /\ h.ih = b.ih /\ h.pt = "Known" /\ h.secret = b.secret
  BY DEF Bids

\* A spend of the ITX or of the PTX, and a found script, are recorded in order.
LEMMA WatchedSound ==
  ASSUME BaseInv, NEW n \in Nodes, CheckWatched(n)
  PROVE  Sound(n)
  <1>1. bad' = bad /\ conf' = conf /\ sent' = sent
    BY DEF CheckWatched
  <1>2. /\ mem[n] \in Bids /\ watch[n] \in WatchSets /\ RowTrue(n, mem[n])
        /\ CopyTrue(n, db[n], mem[n], watch[n])
        /\ watch[n] # {} => mem[n] # NoBid /\ mem[n].state \in Live
    <2>1. /\ mem[n] \in Bids /\ watch[n] \in WatchSets /\ RowTrue(n, mem[n])
          /\ CopyTrue(n, db[n], mem[n], watch[n])
          /\ mem[n] # NoBid => mem[n].state \in Live
      BY NodeFacts
    <2> QED BY <2>1 DEF CopyTrue
  <1>3. \A x \in {"ITX", "PTX", "SCRIPT"} : watch[n] \ {x} \in WatchSets
    BY <1>2 DEF WatchSets
  <1>4. redeems \in 0..MaxRedeems /\ conf["ptx_redeem"] \in Int
    BY DEF BaseInv, TypeOK, LedgerInv, Tx
  <1>5. {"TX_REDEEMED", "TX_REFUNDED", "TX_IN_CHAIN"} \subseteq TxStates
    BY DEF TxStates
  <1>6. CASE InitiateTxnSpent(n)
    <2>1. PICK x \in Ended :
            x = IF conf["itx_redeem"] > 0 THEN "TX_REDEEMED" ELSE "TX_REFUNDED"
      BY DEF Ended
    <2>2. /\ watch' = [watch EXCEPT ![n] = watch[n] \ {"ITX"}]
          /\ "ITX" \in watch[n] /\ Spent("itx") /\ redeems' = redeems /\ up' = up
      BY <1>6 DEF InitiateTxnSpent
    <2>10. SaveBid(n, [mem[n] EXCEPT !.itx = x])
      BY <1>6, <2>1 DEF InitiateTxnSpent
    <2>11. /\ x = "TX_REDEEMED" => conf["itx_redeem"] > 0
           /\ x = "TX_REFUNDED" => conf["itx_refund"] > 0
      BY <2>1, <2>2, SpentFacts
    <2>3. PICK b \in Bids : b = [mem[n] EXCEPT !.itx = x]
      BY <1>2, <1>5, <2>1, ItxFields DEF Ended
    <2>4. /\ b.state = mem[n].state /\ b.itx = x /\ b.ptx = mem[n].ptx
          /\ b.pt = mem[n].pt /\ b.secret = mem[n].secret
      BY <1>2, <1>5, <2>1, <2>3, ItxFields DEF Ended
    <2>5. RowTrue(n, b)
      <3>1. mem[n].state \in Live
        BY <1>2, <2>2
      <3> QED BY <1>2, <2>1, <2>11, <2>4, <3>1 DEF RowTrue, Ended, Live
    <2>6. PICK w \in WatchSets : w = watch[n] \ {"ITX"}
      BY <1>3
    <2>7. SaveBid(n, b) /\ watch' = [watch EXCEPT ![n] = w]
      BY <2>10, <2>2, <2>3, <2>6
    <2>8. /\ "PTX" \in w => b.pt = "Known"
          /\ "SCRIPT" \in w => n = "S" /\ b.pt # "None" /\ b.ptx \notin Ended
      BY <1>2, <2>4, <2>6 DEF CopyTrue
    <2>9. mem[n] # NoBid
      BY <1>2, <2>2
    <2> QED BY <1>1, <1>4, <2>2, <2>4, <2>5, <2>7, <2>8, <2>9, SaveSound
  <1>7. CASE "SCRIPT" \notin watch[n] /\ ParticipateTxnSpent(n)
    <2>1. /\ "PTX" \in watch[n] /\ Spent("ptx") /\ "SCRIPT" \notin watch[n]
          /\ mem[n] # NoBid /\ mem[n].state \in Live /\ mem[n].pt = "Known"
      BY <1>2, <1>7 DEF ParticipateTxnSpent, CopyTrue
    <2>2. PICK w \in WatchSets : w = watch[n] \ {"PTX"}
      BY <1>3
    <2>3. "PTX" \notin w /\ "SCRIPT" \notin w
      BY <2>1, <2>2
    <2>4. CASE /\ conf["ptx_refund"] > 0
               /\ SaveBid(n, [mem[n] EXCEPT !.ptx = "TX_REFUNDED"])
               /\ watch' = [watch EXCEPT ![n] = watch[n] \ {"PTX"}]
               /\ UNCHANGED <<redeems, up, faults, pc, ran>>
      <3>1. PICK b \in Bids : b = [mem[n] EXCEPT !.ptx = "TX_REFUNDED"]
        BY <1>2, <1>5, PtxFields
      <3>2. /\ b.state = mem[n].state /\ b.itx = mem[n].itx /\ b.ptx = "TX_REFUNDED"
            /\ b.pt = mem[n].pt /\ b.secret = mem[n].secret
        BY <1>2, <3>1 DEF Bids
      <3>3. RowTrue(n, b)
        <4>1. conf["ptx_refund"] > 0
          BY <2>4
        <4> QED BY <1>2, <2>1, <3>2, <4>1 DEF RowTrue, Ended, Live
      <3>4. SaveBid(n, b) /\ watch' = [watch EXCEPT ![n] = w] /\ up' = up
        BY <2>2, <2>4, <3>1
      <3>5. redeems' = redeems /\ b.ptx # "None"
        BY <2>4, <3>2
      <3> QED BY <1>1, <1>4, <2>1, <2>3, <3>2, <3>3, <3>4, <3>5, SaveSound
    <2>5. CASE /\ conf["ptx_redeem"] > 0
               /\ redeems' = IF n = "B" /\ redeems < MaxRedeems THEN redeems + 1
                                                                ELSE redeems
      <3>1. redeems' \in 0..MaxRedeems
        BY <1>4, <2>5 DEF MaxRedeems
      <3>2. CASE /\ SaveBid(n, [mem[n] EXCEPT !.ptx = "TX_REDEEMED", !.secret = TRUE])
                 /\ watch' = [watch EXCEPT ![n] = watch[n] \ {"PTX"}]
                 /\ UNCHANGED <<up, faults, pc, ran>>
        <4>1. PICK b \in Bids : b = [mem[n] EXCEPT !.ptx = "TX_REDEEMED", !.secret = TRUE]
          BY <1>2, <1>5, PtxFields
        <4>2. /\ b.state = mem[n].state /\ b.itx = mem[n].itx /\ b.ptx = "TX_REDEEMED"
              /\ b.pt = mem[n].pt /\ b.secret = TRUE
          BY <1>2, <4>1 DEF Bids
        <4>3. RowTrue(n, b)
          BY <1>2, <2>1, <2>5, <4>2 DEF RowTrue, Ended, Live
        <4>4. SaveBid(n, b) /\ watch' = [watch EXCEPT ![n] = w] /\ up' = up
          BY <2>2, <3>2, <4>1
        <4>5. b.ptx # "None"
          BY <4>2
        <4> QED BY <1>1, <2>1, <2>3, <2>5, <3>1, <4>2, <4>3, <4>4, <4>5, SaveSound
      <3>3. CASE n = "B" /\ Fault /\ LoseMemory(n) /\ UNCHANGED db
        BY <1>1, <2>5, <3>1, <3>3, LoseSound
      <3>4. \/ /\ SaveBid(n, [mem[n] EXCEPT !.ptx = "TX_REDEEMED", !.secret = TRUE])
               /\ watch' = [watch EXCEPT ![n] = watch[n] \ {"PTX"}]
               /\ UNCHANGED <<up, faults, pc, ran>>
            \/ n = "B" /\ Fault /\ LoseMemory(n) /\ UNCHANGED db
            \/ Sound(n)
        BY <1>7, <2>4, <2>5 DEF ParticipateTxnSpent
      <3> QED BY <3>2, <3>3, <3>4
    <2> QED BY <1>7, <2>4, <2>5 DEF ParticipateTxnSpent
  <1>8. CASE ProcessFoundScript(n)
    <2>1. /\ "SCRIPT" \in watch[n] /\ redeems' = redeems /\ up' = up
          /\ SaveBid(n, [mem[n] EXCEPT !.pt = "Known", !.ptx = "TX_IN_CHAIN"])
          /\ watch' = [watch EXCEPT ![n] = watch[n] \ {"SCRIPT"}]
      BY <1>8 DEF ProcessFoundScript
    <2>2. /\ mem[n] # NoBid /\ mem[n].state \in Live /\ n = "S" /\ mem[n].pt # "None"
      BY <1>2, <2>1 DEF CopyTrue
    <2>3. PICK b \in Bids : b = [mem[n] EXCEPT !.pt = "Known", !.ptx = "TX_IN_CHAIN"]
      BY <1>2, <1>5, PtxFields
    <2>4. /\ b.state = mem[n].state /\ b.itx = mem[n].itx /\ b.ptx = "TX_IN_CHAIN"
          /\ b.pt = "Known" /\ b.secret = mem[n].secret
      BY <1>2, <2>3 DEF Bids
    <2>5. RowTrue(n, b)
      BY <1>2, <2>2, <2>4 DEF RowTrue, Ended, Live
    <2>6. PICK w \in WatchSets : w = watch[n] \ {"SCRIPT"}
      BY <1>3
    <2>7. SaveBid(n, b) /\ watch' = [watch EXCEPT ![n] = w]
      BY <2>1, <2>3, <2>6
    <2>8. "SCRIPT" \notin w /\ b.ptx # "None"
      BY <2>4, <2>6
    <2> QED BY <1>1, <1>4, <2>1, <2>2, <2>4, <2>5, <2>7, <2>8, SaveSound
  <1>9. CASE UNCHANGED <<db, mem, watch, redeems, up>>
    BY <1>1, <1>4, <1>9, SameSound
  <1> QED BY <1>6, <1>7, <1>8, <1>9 DEF CheckWatched

\* The accept timeout and the queued redeem leave everything in order.
LEMMA QueueSound ==
  ASSUME BaseInv, NEW n \in Nodes, CheckQueuedActions(n)
  PROVE  Sound(n)
  <1>1. bad' = bad /\ up' = up
    BY DEF CheckQueuedActions
  <1>2. /\ db[n] \in Bids /\ watch[n] \in WatchSets /\ RowTrue(n, db[n])
        /\ CopyTrue(n, db[n], mem[n], watch[n])
        /\ mem[n] # NoBid => up[n] /\ mem[n].state \in Live /\ db[n].state \in Live
    BY NodeFacts
  <1>3. TypeOK /\ LedgerInv /\ OrderInv /\ redeems \in 0..MaxRedeems
    BY DEF BaseInv, TypeOK
  <1>4. CASE CheckAcceptedBids(n)
    <2>1. /\ db[n].state = "BID_ACCEPTED" /\ conf' = conf /\ sent' = sent
          /\ DeactivateBid(n, [db[n] EXCEPT !.state = "SWAP_TIMEDOUT"])
      BY <1>4 DEF CheckAcceptedBids
    <2>2. PICK d \in Bids : d = [db[n] EXCEPT !.state = "SWAP_TIMEDOUT"]
      BY <1>2, StateFields DEF BidStates
    <2>3. /\ d.state = "SWAP_TIMEDOUT" /\ d.itx = db[n].itx /\ d.ptx = db[n].ptx
          /\ d.pt = db[n].pt /\ d.secret = db[n].secret
      BY <1>2, <2>2, StateFields DEF BidStates
    <2>4. DeactivateBid(n, d)
      BY <2>1, <2>2
    <2>5. /\ Others(n) /\ db'[n] = d /\ mem'[n] = NoBid /\ watch'[n] = {}
          /\ redeems' = IF n = "B" THEN 0 ELSE redeems
      BY <1>3, <2>4, WriteFacts
    <2>6. RowTrue(n, d) /\ d.state \notin Reloaded
      BY <1>2, <2>1, <2>3 DEF RowTrue, Reloaded
    <2>7. LedgerInv' /\ BroadcastFacts({}) /\ \A t \in Tx : conf[t] > 0 <=> conf'[t] > 0
      BY <1>3, <2>1, QuietFacts
    <2>8. Frame(n) /\ NodeInv(n)'
      BY <1>1, <2>5, <2>6, <2>7, GoneNode
    <2>9. Calm
      BY <2>1, <2>3, <2>5 DEF Calm, BuyerAnswered, SellerRedeemed, Others, Nodes
    <2>10. redeems' \in 0..MaxRedeems /\ (redeems' > 0 => redeems > 0)
      BY <1>3, <2>5 DEF MaxRedeems
    <2>11. OrderInv'
      <3>1. {} \in SUBSET RefundTx
        OBVIOUS
      <3> QED BY <1>1, <2>7, <2>9, <2>10, <3>1, OrderKept
    <2> QED BY <2>7, <2>8, <2>10, <2>11 DEF Sound
  <1>5. CASE RedeemITx(n)
    <2>1. n = "B" /\ redeems > 0 /\ mem' = mem /\ watch' = watch
      BY <1>5 DEF RedeemITx
    <2>2. /\ conf["ptx_redeem"] > 0 /\ "ptx" \in sent /\ BuyerAnswered
      <3>1. conf["ptx_redeem"] > 0
        BY <1>3, <2>1 DEF OrderInv
      <3>2. conf["ptx"] > 0
        BY <1>3, <3>1, TxFacts DEF LedgerInv, Spends
      <3>3. "ptx" \in sent
        BY <1>3, <3>2 DEF LedgerInv, Tx
      <3> QED BY <1>3, <3>1, <3>3 DEF OrderInv
    <2>3. CASE Broadcast({"itx_redeem"}) /\ redeems' = redeems - 1 /\ db' = db
      <3>1. {"itx_redeem"} \in SUBSET Tx
        BY DEF Tx
      <3>2. LedgerInv' /\ BroadcastFacts({"itx_redeem"})
        BY <1>3, <2>3, <3>1, BroadcastLedger
      <3>3. \A t \in Tx : /\ conf[t] > 0 <=> conf'[t] > 0
                          /\ conf[t] > 0 => conf'[t] = conf[t]
        BY <1>3, <3>1, <3>2, BroadcastDeep
      <3>4. Frame(n)
        BY <1>1, <1>3, <2>1, <2>3, <3>3 DEF Frame, Others, TypeOK, WatchSets
      <3>5. NodeInv(n)'
        <4>1. PICK b : b = db[n]
          OBVIOUS
        <4>2. PICK m : m = mem[n]
          OBVIOUS
        <4>3. RowTrue(n, b)' /\ RowTrue(n, m)'
          BY <3>3, <4>1, <4>2, NodeFacts, RowKept
        <4>4. CopyTrue(n, db[n], mem[n], watch[n])'
          BY <1>1, <1>2, <2>1, <2>3 DEF CopyTrue
        <4> QED BY <2>1, <2>3, <4>1, <4>2, <4>3, <4>4 DEF NodeInv
      <3>6. ITXDeep => ITXDeep'
        <4>1. conf["itx"] \in Int /\ "itx" \in Tx
          BY <1>3 DEF LedgerInv, Tx
        <4> QED BY <3>3, <4>1, Times DEF ITXDeep
      <3>7. \A t \in Tx \ {"itx_redeem"} : t \in sent' <=> t \in sent
        BY <3>2 DEF BroadcastFacts
      <3>8. redeems' \in 0..MaxRedeems
        BY <1>3, <2>1, <2>3 DEF MaxRedeems
      <3>9. OrderInv'
        BY <1>1, <1>3, <2>1, <2>2, <2>3, <3>3, <3>6, <3>7
           DEF OrderInv, BuyerAnswered, SellerRedeemed, Tx
      <3> QED BY <3>2, <3>4, <3>5, <3>8, <3>9 DEF Sound
    <2>4. CASE /\ db' = [db EXCEPT ![n].state = "BID_ERROR"]
               /\ redeems' = redeems - 1 /\ conf' = conf /\ sent' = sent
      <3>1. PICK d \in Bids : d = [db[n] EXCEPT !.state = "BID_ERROR"]
        BY <1>2, StateFields DEF BidStates
      <3>2. /\ d.state = "BID_ERROR" /\ d.itx = db[n].itx /\ d.ptx = db[n].ptx
            /\ d.pt = db[n].pt /\ d.secret = db[n].secret
        BY <1>2, <3>1, StateFields DEF BidStates
      <3>3. db' = [db EXCEPT ![n] = d]
        BY <2>4, <3>1
      <3>4. /\ Others(n) /\ db'[n] = d /\ mem'[n] = mem[n] /\ watch'[n] = watch[n]
        BY <1>3, <2>1, <3>3 DEF Others, TypeOK, WatchSets
      <3>5. RowTrue(n, d)
        BY <1>2, <2>1, <2>2, <3>2 DEF RowTrue, BuyerAnswered
      <3>6. LedgerInv' /\ BroadcastFacts({}) /\ \A t \in Tx : conf[t] > 0 <=> conf'[t] > 0
        BY <1>3, <2>4, QuietFacts
      <3>7. NodeInv(n)'
        <4>1. PICK m : m = mem[n]
          OBVIOUS
        <4>2. RowTrue(n, d)' /\ RowTrue(n, m)'
          BY <3>5, <3>6, <4>1, NodeFacts, RowKept
        <4>3. mem[n].state # "BID_ACCEPTED"
          BY <2>1, <2>2 DEF BuyerAnswered
        <4>4. CopyTrue(n, db[n], mem[n], watch[n])'
          BY <1>1, <1>2, <2>1, <3>2, <3>4, <4>3 DEF CopyTrue, Live, Reloaded
        <4> QED BY <3>4, <4>1, <4>2, <4>4 DEF NodeInv
      <3>8. Calm
        BY <2>1, <3>2, <3>4 DEF Calm, BuyerAnswered, SellerRedeemed, Others, Nodes
      <3>9. redeems' \in 0..MaxRedeems
        BY <1>3, <2>1, <2>4 DEF MaxRedeems
      <3>10. OrderInv'
        <4>1. {} \in SUBSET RefundTx
          OBVIOUS
        <4> QED BY <1>1, <2>1, <3>6, <3>8, <4>1, OrderKept
      <3> QED BY <1>1, <3>4, <3>6, <3>7, <3>9, <3>10 DEF Sound, Frame
    <2>5. CASE UNCHANGED <<conf, sent, db, redeems>>
      BY <1>1, <1>3, <2>1, <2>5, SameSound
    <2> QED BY <1>5, <2>3, <2>4, <2>5 DEF RedeemITx
  <1>6. CASE UNCHANGED <<conf, sent, db, mem, watch, redeems, faults>>
    BY <1>1, <1>3, <1>6, SameSound
  <1> QED BY <1>4, <1>5, <1>6 DEF CheckQueuedActions

\* So does a crash.
LEMMA CrashSound ==
  ASSUME BaseInv, NEW n \in Nodes, Crash(n)
  PROVE  Sound(n)
  <1>1. redeems' \in 0..MaxRedeems /\ redeems' = redeems
    BY DEF BaseInv, TypeOK, Crash
  <1> QED BY <1>1, LoseSound DEF Crash

\* So does a restart: it only loads what the row says.
LEMMA RestartSound ==
  ASSUME BaseInv, NEW n \in Nodes, Restart(n)
  PROVE  Sound(n)
  <1>1. /\ bad' = bad /\ conf' = conf /\ sent' = sent /\ db' = db /\ redeems' = redeems
        /\ ~up[n] /\ up' = [up EXCEPT ![n] = TRUE]
    BY DEF Restart
  <1>2. TypeOK /\ LedgerInv /\ OrderInv /\ redeems \in 0..MaxRedeems
    BY DEF BaseInv, TypeOK
  <1>3. LedgerInv' /\ BroadcastFacts({}) /\ \A t \in Tx : conf[t] > 0 <=> conf'[t] > 0
    BY <1>1, <1>2, QuietFacts
  <1>4. /\ db[n] \in Bids /\ RowTrue(n, db[n]) /\ mem[n] = NoBid /\ watch[n] = {}
        /\ up'[n] = TRUE /\ \A k \in Nodes \ {n} : up'[k] = up[k]
    BY <1>1, <1>2, NodeFacts DEF CopyTrue, TypeOK
  <1>5. PICK d \in Bids : d = db[n] /\ d = db'[n]
    BY <1>1, <1>4
  <1>6. RowTrue(n, d)'
    BY <1>3, <1>4, <1>5, RowKept
  <1>7. CASE db[n].state \in Reloaded
    <2> DEFINE v == {"ITX"}
                    \union (IF db[n].pt = "Known" THEN {"PTX"} ELSE {})
                    \union (IF db[n].pt = "Script" /\ WatchScripts
                            THEN {"SCRIPT"} ELSE {})
    <2>1. PICK w \in WatchSets : w = v
      BY DEF WatchSets
    <2>2. /\ "PTX" \in w => d.pt = "Known"
          /\ "SCRIPT" \in w => d.pt = "Script"
      BY <1>5, <2>1
    <2>3. mem' = [mem EXCEPT ![n] = d] /\ watch' = [watch EXCEPT ![n] = w]
      BY <1>5, <1>7, <2>1 DEF Restart
    <2> HIDE DEF v
    <2>4. Others(n) /\ mem'[n] = d /\ watch'[n] = w
      BY <1>1, <1>2, <2>3 DEF Others, TypeOK, WatchSets
    <2>5. d.state \in Reloaded /\ d.state \in Live /\ d # NoBid
      BY <1>5, <1>7 DEF Reloaded, Live, NoBid
    <2>6. "SCRIPT" \in w => n = "S" /\ d.pt # "None" /\ d.ptx \notin Ended
      BY <1>4, <1>5, <2>2 DEF RowTrue, Nodes, Ended
    <2>7. CopyTrue(n, d, d, w)'
      BY <1>4, <2>2, <2>5, <2>6 DEF CopyTrue
    <2>8. NodeInv(n)'
      BY <1>5, <1>6, <2>4, <2>7 DEF NodeInv
    <2>9. Calm
      BY <1>1, <1>5, <2>4 DEF Calm, BuyerAnswered, SellerRedeemed, Others, Nodes
    <2>10. OrderInv'
      <3>1. {} \in SUBSET RefundTx
        OBVIOUS
      <3> QED BY <1>1, <1>3, <2>9, <3>1, OrderKept
    <2> QED BY <1>1, <1>2, <1>3, <1>4, <2>4, <2>8, <2>10 DEF Sound, Frame
  <1>8. CASE db[n].state \notin Reloaded
    <2>1. mem' = mem /\ watch' = watch
      BY <1>8 DEF Restart
    <2>2. Others(n)
      BY <1>1, <1>2, <2>1 DEF Others, TypeOK, WatchSets
    <2>3. Frame(n) /\ NodeInv(n)'
      BY <1>3, <1>4, <1>5, <1>8, <2>1, <2>2, GoneNode
    <2>4. Calm
      BY <1>1, <2>1 DEF Calm, BuyerAnswered, SellerRedeemed
    <2>5. OrderInv'
      <3>1. {} \in SUBSET RefundTx
        OBVIOUS
      <3> QED BY <1>1, <1>3, <2>4, <3>1, OrderKept
    <2> QED BY <1>1, <1>2, <1>3, <2>3, <2>5 DEF Sound
  <1> QED BY <1>7, <1>8

-----------------------------------------------------------------------------
\* The two ends of the bid's acceptance, and a block.

\* acceptBid leaves everything in order.
LEMMA AcceptSound ==
  ASSUME BaseInv, AcceptBid
  PROVE  Sound("S")
  <1>1. TypeOK /\ LedgerInv /\ OrderInv /\ redeems \in 0..MaxRedeems /\ "S" \in Nodes
    BY DEF BaseInv, TypeOK, Nodes
  <1>2. /\ up["S"] /\ db["S"].state = "BID_RECEIVED" /\ watch' = watch
        /\ redeems' = redeems /\ up' = up /\ bad' = bad /\ Broadcast({"itx"})
    BY DEF AcceptBid
  <1>3. mem["S"] = NoBid /\ watch["S"] = {}
    BY <1>1, <1>2, NodeFacts DEF CopyTrue, Live
  <1>4. PICK b \in Bids : b = [NoBid EXCEPT !.state = "BID_ACCEPTED", !.itx = "TX_SENT"]
    BY DEF NoBid, Bids, BidStates, TxStates
  <1>5. /\ b.state = "BID_ACCEPTED" /\ b.itx = "TX_SENT" /\ b.ptx = "None"
        /\ b.pt = "None" /\ b.secret = FALSE
    BY <1>4 DEF NoBid
  <1>6. SaveBid("S", b)
    BY <1>4 DEF AcceptBid, SendBidAccept
  <1>7. mem'["S"] = b /\ db'["S"] = b
    BY <1>1, <1>6, WriteFacts
  <1>8. Others("S") /\ watch'["S"] = {}
    <2>1. {} \in WatchSets /\ watch' = [watch EXCEPT !["S"] = {}]
      BY <1>1, <1>2, <1>3 DEF WatchSets, TypeOK
    <2> QED BY <1>1, <1>6, <2>1, WriteFacts
  <1>9. {"itx"} \in SUBSET Tx
    BY DEF Tx
  <1>10. LedgerInv' /\ BroadcastFacts({"itx"})
    BY <1>1, <1>2, <1>9, BroadcastLedger
  <1>11. \A t \in Tx : conf[t] > 0 <=> conf'[t] > 0
    BY <1>1, <1>9, <1>10, BroadcastDeep
  <1>12. RowTrue("S", b) /\ b.state \in Live
    BY <1>5 DEF RowTrue, Live, Ended
  <1>13. Frame("S") /\ NodeInv("S")'
    <2>1. {} \in WatchSets /\ "PTX" \notin {} /\ "SCRIPT" \notin {}
      BY DEF WatchSets
    <2> QED BY <1>1, <1>2, <1>7, <1>8, <1>11, <1>12, <2>1, LiveNode
  <1>14. OrderInv'
    <2>1. "itx" \notin sent
      BY <1>1, <1>2 DEF OrderInv
    <2>2. conf["itx"] = 0 /\ conf["itx"] \in Int
      BY <1>1, <2>1 DEF LedgerInv, Tx
    <2>3. "ptx" \notin sent
      BY <1>1, <2>2, Times DEF OrderInv, ITXDeep
    <2>4. ~(conf["ptx"] > 0) /\ "ptx_redeem" \notin sent
      BY <1>1, <2>3 DEF LedgerInv, OrderInv, Tx
    <2>5. ~(conf["ptx_redeem"] > 0)
      BY <1>1, <2>4, TxFacts DEF LedgerInv, Spends
    <2>6. "itx_redeem" \notin sent /\ ~(redeems > 0)
      BY <1>1, <2>5 DEF OrderInv
    <2>7. \A t \in Tx : t \in sent' <=> t \in sent \/ t = "itx"
      BY <1>10 DEF BroadcastFacts
    <2> QED BY <1>2, <1>5, <1>7, <2>3, <2>4, <2>6, <2>7 DEF OrderInv, Tx
  <1> QED BY <1>1, <1>2, <1>10, <1>13, <1>14 DEF Sound

\* processBidAccept leaves everything in order.
LEMMA ProcessAcceptSound ==
  ASSUME BaseInv, ProcessBidAccept
  PROVE  Sound("B")
  <1>1. TypeOK /\ LedgerInv /\ OrderInv /\ redeems \in 0..MaxRedeems /\ "B" \in Nodes
    BY DEF BaseInv, TypeOK, Nodes
  <1>2. /\ up["B"] /\ db["B"].state = "BID_SENT" /\ watch' = watch
        /\ redeems' = redeems /\ up' = up /\ bad' = bad /\ conf' = conf /\ sent' = sent
    BY DEF ProcessBidAccept
  <1>3. mem["B"] = NoBid /\ watch["B"] = {}
    BY <1>1, <1>2, NodeFacts DEF CopyTrue, Live
  <1>4. PICK b \in Bids : b = [NoBid EXCEPT !.state = "BID_ACCEPTED", !.itx = "TX_NONE"]
    BY DEF NoBid, Bids, BidStates, TxStates
  <1>5. /\ b.state = "BID_ACCEPTED" /\ b.itx = "TX_NONE" /\ b.ptx = "None"
        /\ b.pt = "None" /\ b.secret = FALSE
    BY <1>4 DEF NoBid
  <1>6. SaveBid("B", b)
    BY <1>4 DEF ProcessBidAccept
  <1>7. mem'["B"] = b /\ db'["B"] = b
    BY <1>1, <1>6, WriteFacts
  <1>8. Others("B") /\ watch'["B"] = {}
    <2>1. {} \in WatchSets /\ watch' = [watch EXCEPT !["B"] = {}]
      BY <1>1, <1>2, <1>3 DEF WatchSets, TypeOK
    <2> QED BY <1>1, <1>6, <2>1, WriteFacts
  <1>9. LedgerInv' /\ BroadcastFacts({}) /\ \A t \in Tx : conf[t] > 0 <=> conf'[t] > 0
    BY <1>1, <1>2, QuietFacts
  <1>10. RowTrue("B", b) /\ b.state \in Live
    BY <1>5 DEF RowTrue, Live, Ended
  <1>11. Frame("B") /\ NodeInv("B")'
    <2>1. {} \in WatchSets /\ "PTX" \notin {} /\ "SCRIPT" \notin {}
      BY DEF WatchSets
    <2> QED BY <1>1, <1>2, <1>7, <1>8, <1>9, <1>10, <2>1, LiveNode
  <1>12. Calm
    <2>1. ~BuyerAnswered
      BY <1>2 DEF BuyerAnswered
    <2> QED BY <1>8, <2>1 DEF Calm, SellerRedeemed, Others, Nodes
  <1>13. OrderInv'
    <2>1. {} \in SUBSET RefundTx
      OBVIOUS
    <2> QED BY <1>2, <1>9, <1>12, <2>1, OrderKept
  <1> QED BY <1>1, <1>2, <1>9, <1>11, <1>13 DEF Sound

\* A block keeps the networks, the order and the records in order.
LEMMA TickSound ==
  ASSUME BaseInv, Tick
  PROVE  /\ LedgerInv' /\ OrderInv' /\ \A n \in Nodes : NodeInv(n)'
         /\ BlockFacts
  <1>1. /\ NewBlock("both") /\ db' = db /\ mem' = mem /\ watch' = watch
        /\ redeems' = redeems /\ up' = up /\ bad' = bad
    BY DEF Tick
  <1>2. LedgerInv /\ OrderInv
    BY DEF BaseInv
  <1>3. BlockFacts /\ LedgerInv'
    BY <1>1, <1>2, BlockConf, BlockLedger
  <1>4. \A t \in Tx : /\ conf[t] \in Int /\ conf'[t] \in Int
                      /\ conf[t] > 0 => conf'[t] > 0 /\ conf'[t] >= conf[t]
    BY <1>2, <1>3, TxFacts, Times DEF LedgerInv, BlockFacts
  <1>6. \A n \in Nodes : NodeInv(n)'
    <2>1. SUFFICES ASSUME NEW n \in Nodes
                   PROVE  NodeInv(n)'
      OBVIOUS
    <2>2. PICK d : d = db[n]
      OBVIOUS
    <2>3. PICK m : m = mem[n]
      OBVIOUS
    <2>4. RowTrue(n, d) /\ RowTrue(n, m)
      BY <2>2, <2>3, NodeFacts
    <2>5. \A t \in Spends : conf[t] > 0 => conf'[t] > 0
      BY <1>4, TxFacts
    <2>6. RowTrue(n, d)' /\ RowTrue(n, m)'
      BY <2>4, <2>5 DEF RowTrue, AllSpent, Spends
    <2>7. CopyTrue(n, db[n], mem[n], watch[n])'
      BY <1>1, NodeFacts DEF CopyTrue
    <2> QED BY <1>1, <2>2, <2>3, <2>6, <2>7 DEF NodeInv
  <1>7. ITXDeep => ITXDeep'
    BY <1>4, Times DEF ITXDeep, Tx
  <1>8. sent' = sent
    BY <1>3 DEF BlockFacts
  <1>9. OrderInv'
    BY <1>1, <1>2, <1>4, <1>7, <1>8 DEF OrderInv, BuyerAnswered, SellerRedeemed, Tx
  <1> QED BY <1>3, <1>6, <1>9

-----------------------------------------------------------------------------
\* Every step keeps the invariant.

\* The parts of the type that no record is about.
ClocksOK ==
  /\ accept_sent \in BOOLEAN
  /\ bid_age \in 0..BidValid
  /\ age \in [Nodes -> 0..AcceptTimeout]
  /\ pc \in [Nodes -> Stages]
  /\ ran \in [Nodes -> 0..3]
  /\ up \in [Nodes -> BOOLEAN]
  /\ bad \subseteq Bad
  /\ faults \in 0..MaxFaults

\* A stage done, a process lost.
LEMMA StageClocks ==
  ASSUME ClocksOK, NEW n \in Nodes
  PROVE  /\ StageDone(n) => pc' \in [Nodes -> Stages] /\ ran' \in [Nodes -> 0..3]
         /\ LoseMemory(n) => /\ pc' \in [Nodes -> Stages] /\ ran' \in [Nodes -> 0..3]
                             /\ up' \in [Nodes -> BOOLEAN]
         /\ Fault \/ UNCHANGED faults => faults' \in 0..MaxFaults
  <1>1. pc \in [Nodes -> Stages] /\ ran \in [Nodes -> 0..3] /\ up \in [Nodes -> BOOLEAN]
    BY DEF ClocksOK
  <1>2. StageDone(n) => pc' \in [Nodes -> Stages]
    BY <1>1 DEF StageDone, NextStage, Stages
  <1>3. StageDone(n) => ran' \in [Nodes -> 0..3]
    <2>1. ran[n] \in 0..3
      BY <1>1
    <2>2. (IF ran[n] < 3 THEN ran[n] + 1 ELSE 3) \in 0..3
      BY <2>1
    <2> QED BY <1>1, <2>2 DEF StageDone
  <1>4. LoseMemory(n) => /\ pc' \in [Nodes -> Stages] /\ ran' \in [Nodes -> 0..3]
                         /\ up' \in [Nodes -> BOOLEAN]
    BY <1>1 DEF LoseMemory, Stages
  <1>5. Fault \/ UNCHANGED faults => faults' \in 0..MaxFaults
    BY Times DEF ClocksOK, Fault
  <1> QED BY <1>2, <1>3, <1>4, <1>5

\* The clocks of every step keep their type.
LEMMA ClocksKept ==
  ASSUME BaseInv, Next
  PROVE  ClocksOK'
  <1>1. ClocksOK
    BY DEF BaseInv, TypeOK, ClocksOK
  <1>2. CASE AcceptBid
    <2>1. /\ accept_sent' = TRUE /\ age' = [age EXCEPT !["S"] = 0]
          /\ UNCHANGED <<bid_age, pc, ran, up, bad, faults>>
      BY <1>2 DEF AcceptBid, SendBidAccept
    <2>2. age' \in [Nodes -> 0..AcceptTimeout]
      <3>1. age \in [Nodes -> 0..AcceptTimeout] /\ 0 \in 0..AcceptTimeout
        BY <1>1, Times DEF ClocksOK
      <3>2. age' = [age EXCEPT !["S"] = 0]
        BY <2>1
      <3> QED BY <3>1, <3>2
    <2>3. accept_sent' \in BOOLEAN
      BY <1>1, <2>1, Zenon DEF ClocksOK
    <2> QED BY <1>1, <2>1, <2>2, <2>3 DEF ClocksOK
  <1>3. CASE ProcessBidAccept
    <2>1. /\ age' = [age EXCEPT !["B"] = 0]
          /\ UNCHANGED <<accept_sent, bid_age, pc, ran, up, bad, faults>>
      BY <1>3 DEF ProcessBidAccept
    <2>2. age' \in [Nodes -> 0..AcceptTimeout]
      <3>1. age \in [Nodes -> 0..AcceptTimeout] /\ 0 \in 0..AcceptTimeout
        BY <1>1, Times DEF ClocksOK
      <3>2. age' = [age EXCEPT !["B"] = 0]
        BY <2>1
      <3> QED BY <3>1, <3>2
    <2>3. accept_sent' \in BOOLEAN
      BY <1>1, <2>1, Zenon DEF ClocksOK
    <2> QED BY <1>1, <2>1, <2>2, <2>3 DEF ClocksOK
  <1>4. CASE Tick
    <2>1. \A n \in Nodes : age'[n] \in 0..AcceptTimeout
      BY <1>1, <1>4, Times DEF Tick, ClocksOK
    <2>2. bid_age' \in 0..BidValid
      BY <1>1, <1>4, Times DEF Tick, ClocksOK
    <2> QED BY <1>1, <1>4, <2>1, <2>2 DEF Tick, ClocksOK
  <1>5. ASSUME NEW n \in Nodes, CheckBidState(n)
        PROVE  ClocksOK'
    <2>1. Fault \/ UNCHANGED faults
      BY <1>5 DEF CheckBidState, CheckAccepted, CheckInitiated, CheckNothingMade,
         CheckOther, CheckFails
    <2>2. StageDone(n) /\ UNCHANGED <<accept_sent, age, bid_age, up, bad>>
      BY <1>5 DEF CheckBidState
    <2> QED BY <1>1, <2>1, <2>2, StageClocks DEF ClocksOK
  <1>6. ASSUME NEW n \in Nodes, CheckWatched(n)
        PROVE  ClocksOK'
    <2>1. \/ UNCHANGED <<up, faults, pc, ran>>
          \/ Fault /\ LoseMemory(n)
          \/ (Fault \/ UNCHANGED faults) /\ StageDone(n) /\ up' = up
      BY <1>6 DEF CheckWatched, InitiateTxnSpent, ParticipateTxnSpent, ProcessFoundScript
    <2>2. UNCHANGED <<accept_sent, age, bid_age, bad>>
      BY <1>6 DEF CheckWatched
    <2> QED BY <1>1, <2>1, <2>2, StageClocks DEF ClocksOK
  <1>7. ASSUME NEW n \in Nodes, CheckQueuedActions(n)
        PROVE  ClocksOK'
    <2>1. Fault \/ UNCHANGED faults
      BY <1>7 DEF CheckQueuedActions, CheckAcceptedBids, RedeemITx
    <2>2. StageDone(n) /\ UNCHANGED <<accept_sent, age, bid_age, up, bad>>
      BY <1>7 DEF CheckQueuedActions
    <2> QED BY <1>1, <2>1, <2>2, StageClocks DEF ClocksOK
  <1>8. ASSUME NEW n \in Nodes, Crash(n)
        PROVE  ClocksOK'
    BY <1>1, <1>8, StageClocks DEF Crash, ClocksOK
  <1>9. ASSUME NEW n \in Nodes, Restart(n)
        PROVE  ClocksOK'
    BY <1>1, <1>9 DEF Restart, ClocksOK
  <1> QED BY <1>2, <1>3, <1>4, <1>5, <1>6, <1>7, <1>8, <1>9 DEF Next, Engine

\* The steps of one node.
LEMMA NodeSteps ==
  ASSUME Next
  PROVE  \/ Tick
         \/ AcceptBid \/ ProcessBidAccept
         \/ \E n \in Nodes : \/ CheckBidState(n) \/ CheckWatched(n)
                             \/ CheckQueuedActions(n) \/ Crash(n) \/ Restart(n)
  BY DEF Next, Engine

\* Every step but a block leaves everything in order.
LEMMA StepSound ==
  ASSUME BaseInv, Next
  PROVE  Tick \/ \E n \in Nodes : Sound(n)
  <1>1. "S" \in Nodes /\ "B" \in Nodes
    BY DEF Nodes
  <1> QED BY <1>1, NodeSteps, AcceptSound, ProcessAcceptSound, CheckSound, WatchedSound,
      QueueSound, CrashSound, RestartSound

\* The invariant is kept.
LEMMA BaseNext ==
  ASSUME BaseInv, [Next]_vars
  PROVE  BaseInv'
  <1>1. CASE Next
    <2>1. ClocksOK'
      BY <1>1, ClocksKept
    <2>2. CASE Tick
      <3>1. LedgerInv' /\ OrderInv' /\ \A n \in Nodes : NodeInv(n)'
        BY <2>2, TickSound
      <3>2. TypeOK
        BY DEF BaseInv
      <3>3. TypeOK'
        BY <2>1, <2>2, <3>1, <3>2 DEF Tick, TypeOK, ClocksOK, LedgerInv
      <3> QED BY <3>1, <3>3 DEF BaseInv
    <2>3. CASE \E n \in Nodes : Sound(n)
      <3>1. PICK n \in Nodes : Sound(n)
        BY <2>3
      <3>2. /\ Frame(n) /\ NodeInv(n)' /\ LedgerInv' /\ OrderInv'
            /\ redeems' \in 0..MaxRedeems
        BY <3>1 DEF Sound
      <3>3. \A k \in Nodes : NodeInv(k)'
        BY <3>2, FrameNodes
      <3>4. TypeOK'
        BY <2>1, <3>2 DEF TypeOK, ClocksOK, LedgerInv, Frame, Others, WatchSets
      <3> QED BY <3>2, <3>3, <3>4 DEF BaseInv
    <2> QED BY <1>1, <2>2, <2>3, StepSound
  <1>2. CASE UNCHANGED vars
    BY <1>2 DEF vars, BaseInv, TypeOK, LedgerInv, OrderInv, NodeInv, RowTrue, CopyTrue,
       ITXDeep, BuyerAnswered, SellerRedeemed, Spent, AllSpent
  <1> QED BY <1>1, <1>2

\* It holds at the start.
LEMMA BaseInit ==
  ASSUME Init
  PROVE  BaseInv
  <1>1. NoBid \in Bids
    BY DEF NoBid, Bids, BidStates, TxStates
  <1>2. PICK r \in Bids : r = [NoBid EXCEPT !.state = "BID_RECEIVED"]
    BY <1>1, StateFields DEF BidStates
  <1>3. PICK s \in Bids : s = [NoBid EXCEPT !.state = "BID_SENT"]
    BY <1>1, StateFields DEF BidStates
  <1>4. /\ r.state = "BID_RECEIVED" /\ s.state = "BID_SENT"
        /\ \A b \in {r, s} :
             b.itx = "None" /\ b.ptx = "None" /\ b.pt = "None" /\ ~b.secret
    BY <1>2, <1>3 DEF NoBid
  <1>5. db = [n \in Nodes |-> IF n = "S" THEN r ELSE s]
    BY <1>2, <1>3 DEF Init
  <1>6. /\ db["S"] = r /\ db["B"] = s
        /\ \A n \in Nodes : mem[n] = NoBid /\ watch[n] = {}
    BY <1>5 DEF Init, Nodes
  <1>7. TypeOK
    <2>1. db \in [Nodes -> Bids] /\ mem \in [Nodes -> Bids]
      BY <1>1, <1>5 DEF Init
    <2>2. /\ conf = [t \in Tx |-> 0] /\ sent = {} /\ accept_sent = FALSE
          /\ watch = [n \in Nodes |-> {}] /\ redeems = 0 /\ bid_age = 0
          /\ age = [n \in Nodes |-> 0] /\ pc = [n \in Nodes |-> "check"]
          /\ ran = [n \in Nodes |-> 3] /\ up = [n \in Nodes |-> TRUE]
          /\ bad \in SUBSET Bad /\ faults = 0
      BY DEF Init
    <2>3. /\ conf \in [Tx -> Int] /\ sent \subseteq Tx
          /\ watch \in [Nodes -> SUBSET {"ITX", "PTX", "SCRIPT"}]
          /\ redeems \in 0..MaxRedeems /\ bid_age \in 0..BidValid
          /\ age \in [Nodes -> 0..AcceptTimeout] /\ pc \in [Nodes -> Stages]
          /\ ran \in [Nodes -> 0..3] /\ bad \subseteq Bad /\ faults \in 0..MaxFaults
      BY <2>2, Times DEF MaxRedeems, Stages
    <2>4. accept_sent \in BOOLEAN /\ up \in [Nodes -> BOOLEAN]
      BY <2>2
    <2> QED BY <2>1, <2>3, <2>4 DEF TypeOK
  <1>8. LedgerInv
    <2>1. /\ \A t \in Tx : conf[t] = 0 /\ Cap[t] \in Nat \ {0}
          /\ sent = {} /\ conf \in [Tx -> Int]
      BY TxFacts, Times DEF Init
    <2>2. \A t \in Spends : t \in Tx /\ Rival[t] \in Tx /\ Parent[t] \in Tx
      BY TxFacts
    <2>3. \A t \in Tx : -MineDelay <= conf[t] /\ conf[t] <= Cap[t]
      BY <2>1, Times
    <2>4. conf["itx_refund"] = 0 /\ conf["ptx_refund"] = 0
      BY <2>1 DEF Tx
    <2>5. \A t \in Spends : conf[t] = 0
      BY <2>1, <2>2
    <2> QED BY <2>1, <2>3, <2>4, <2>5 DEF LedgerInv
  <1>9. OrderInv
    BY <1>4, <1>6 DEF Init, OrderInv
  <1>10. \A n \in Nodes : NodeInv(n)
    <2>1. RowTrue("S", r) /\ RowTrue("B", s)
      BY <1>4 DEF RowTrue, Ended
    <2>2. \A n \in Nodes : RowTrue(n, NoBid)
      BY DEF RowTrue, NoBid, Ended
    <2>3. CopyTrue("S", r, NoBid, {}) /\ CopyTrue("B", s, NoBid, {})
      BY <1>4 DEF CopyTrue, Reloaded, NoBid
    <2> QED BY <1>6, <2>1, <2>2, <2>3 DEF NodeInv, Nodes
  <1> QED BY <1>7, <1>8, <1>9, <1>10 DEF BaseInv

\* Whatever is late or fails, the invariant holds.
THEOREM BaseHolds == Spec => []BaseInv
  <1>1. Init => BaseInv
    BY BaseInit
  <1>2. BaseInv /\ [Next]_vars => BaseInv'
    BY BaseNext
  <1> QED BY <1>1, <1>2, PTL DEF Spec

\* TypeOK: what two engines and the networks record keeps its type.
THEOREM TypeCorrect == Spec => []TypeOK
  <1>1. BaseInv => TypeOK
    BY DEF BaseInv
  <1> QED BY <1>1, BaseHolds, PTL

\* A lock of the wrong amount is not answered: checkBidState compares the value
\* of the output before the PTX is made, and before the secret is published.
THEOREM WrongLocksRefused == Spec => []BadLockRefused
  <1>1. BaseInv => BadLockRefused
    BY DEF BaseInv, OrderInv, BadLockRefused
  <1> QED BY <1>1, BaseHolds, PTL

\* SWAP_COMPLETED says that the party's own lock is spent, and for a buyer whose
\* PTX was taken that the ITX is: whatever was late, lost or failed.
THEOREM EndsTrue == Spec => []EndStatesTrue
  <1>1. ASSUME BaseInv PROVE EndStatesTrue
    <2>1. /\ LedgerInv /\ OrderInv /\ RowTrue("S", db["S"]) /\ RowTrue("B", db["B"])
      BY <1>1 DEF BaseInv, NodeInv, Nodes
    <2>2. db["S"].state = "SWAP_COMPLETED" => Spent("itx")
      BY <2>1, SpentFacts DEF RowTrue, AllSpent, Ended
    <2>3. ASSUME db["B"].state = "SWAP_COMPLETED"
          PROVE  Spent("itx") /\ (conf["ptx"] # 0 => Spent("ptx"))
      <3>1. Spent("itx")
        BY <2>1, <2>3, SpentFacts DEF RowTrue, AllSpent, Ended
      <3>2. conf["ptx"] # 0 => db["B"].ptx # "None"
        BY <2>1 DEF LedgerInv, OrderInv, BuyerAnswered, Tx
      <3>3. db["B"].ptx # "None" => Spent("ptx")
        BY <2>1, <2>3, SpentFacts DEF RowTrue, AllSpent, Ended
      <3> QED BY <3>1, <3>2, <3>3
    <2> QED BY <2>2, <2>3 DEF EndStatesTrue
  <1>2. BaseInv => EndStatesTrue
    BY <1>1
  <1> QED BY <1>2, BaseHolds, PTL

-----------------------------------------------------------------------------
\* What a step of one engine leaves to the other one.

\* What n publishes, and its refund.
Pub(n) == IF n = "S" THEN {"itx", "itx_refund", "ptx_redeem"}
                     ELSE {"ptx", "ptx_refund", "itx_redeem"}

\* The refund of the lock of n.
OwnRefund(n) == IF n = "S" THEN {"itx_refund"} ELSE {"ptx_refund"}

\* A step of n publishes n's transactions and does n's stages.
Aside(n) ==
  /\ \A k \in Nodes \ {n} : pc'[k] = pc[k] /\ ran'[k] = ran[k]
  /\ faults' = faults \/ (faults < MaxFaults /\ faults' = faults + 1)
  /\ bad' = bad /\ bid_age' = bid_age
  /\ n = "S" => redeems' = redeems
  /\ \E T \in SUBSET Pub(n) : BroadcastFacts(T)

\* n tries its own refund only.
LEMMA RefundsOwn ==
  ASSUME NEW n \in Nodes, NEW b
  PROVE  Refunds(n, b) \in SUBSET OwnRefund(n)
  BY DEF Refunds, OwnRefund, Nodes

\* What n publishes are transactions of the swap.
LEMMA PubFacts ==
  ASSUME NEW n \in Nodes
  PROVE  /\ Pub(n) \subseteq Tx /\ OwnRefund(n) \subseteq Pub(n)
         /\ OwnRefund(n) \subseteq RefundTx
  BY DEF Pub, OwnRefund, Tx, RefundTx

\* What Conclude publishes and records.
LEMMA ConcludeNet ==
  ASSUME BaseInv, NEW n \in Nodes, NEW b \in Bids, NEW pub \in SUBSET Tx,
         NEW w \in WatchSets,
         Conclude(n, b, pub, w, TRUE) \/ Conclude(n, b, pub, w, FALSE)
  PROVE  /\ \E R \in SUBSET OwnRefund(n) : BroadcastFacts(pub \union R)
         /\ \/ /\ mem'[n] = NoBid /\ db'[n].state = "SWAP_COMPLETED" /\ AllSpent(b)
               /\ b.state # "BID_ACCEPTED" /\ watch'[n] = {}
            \/ /\ mem'[n].state = b.state /\ mem'[n].itx = b.itx /\ mem'[n].ptx = b.ptx
               /\ mem'[n].secret = b.secret /\ mem'[n].ih = b.ih
               /\ mem'[n].pt = b.pt
               /\ db'[n] = mem'[n] \/ (db'[n] = db[n] /\ mem'[n] = b)
               /\ watch'[n] = w /\ redeems' = redeems
               /\ ~(b.state # "BID_ACCEPTED" /\ AllSpent(b))
         /\ Conclude(n, b, pub, w, TRUE) => mem'[n] = NoBid \/ db'[n] = mem'[n]
         /\ Others(n)
  <1>1. /\ Others(n) /\ (Finishes(n, b, pub) \/ Keeps(n, b, pub, w))
        /\ Conclude(n, b, pub, w, TRUE) => Finishes(n, b, pub) \/ db'[n] = mem'[n]
    <2>1. TypeOK
      BY DEF BaseInv
    <2> QED BY <2>1, ConcludeCases
  <1>2. Conclude(n, b, pub, w, TRUE) => mem'[n] = NoBid \/ db'[n] = mem'[n]
    BY <1>1 DEF Finishes
  <1>3. ASSUME NEW R \in SUBSET OwnRefund(n), Broadcast(pub \union R)
        PROVE  BroadcastFacts(pub \union R)
    <2>1. pub \union R \in SUBSET Tx
      BY PubFacts
    <2> QED BY <1>3, <2>1, BroadcastLedger DEF BaseInv
  <1>4. CASE Finishes(n, b, pub)
    <2>1. pub \union {} = pub /\ {} \in SUBSET OwnRefund(n)
      OBVIOUS
    <2>2. BroadcastFacts(pub \union {})
      BY <1>3, <1>4, <2>1 DEF Finishes
    <2>3. db'[n].state = "SWAP_COMPLETED"
      BY <1>4, StateFields DEF Finishes, BidStates
    <2> QED BY <1>1, <1>2, <1>4, <2>1, <2>2, <2>3 DEF Finishes
  <1>5. CASE Keeps(n, b, pub, w)
    <2> DEFINE R == Refunds(n, mem'[n])
    <2>1. R \in SUBSET OwnRefund(n) /\ Broadcast(pub \union R)
      BY <1>5, RefundsOwn DEF Keeps
    <2> HIDE DEF R
    <2>2. BroadcastFacts(pub \union R)
      BY <1>3, <2>1
    <2>3. PICK h \in Bids : h = PtxHeight(n, b)
      BY PtxHeightFields
    <2>4. /\ h.state = b.state /\ h.itx = b.itx /\ h.ptx = b.ptx /\ h.secret = b.secret
          /\ h.ih = b.ih /\ h.pt = b.pt
      BY <2>3, PtxHeightFields
    <2>5. mem'[n] = h
      BY <1>5, <2>3 DEF Keeps
    <2>6. /\ db'[n] = mem'[n] \/ (db'[n] = db[n] /\ mem'[n] = b)
          /\ watch'[n] = w /\ redeems' = redeems
          /\ ~(b.state # "BID_ACCEPTED" /\ AllSpent(b))
      BY <1>5 DEF Keeps
    <2> QED BY <1>1, <1>2, <2>1, <2>2, <2>4, <2>5, <2>6
  <1> QED BY <1>1, <1>4, <1>5

\* What CheckAccepted publishes.
LEMMA AcceptedNet ==
  ASSUME BaseInv, NEW n \in Nodes, CheckAccepted(n)
  PROVE  \E T \in SUBSET Pub(n) : BroadcastFacts(T)
  <1>1. \/ AcceptedWaits(n) \/ AcceptedWrong(n) \/ AcceptedSeen(n)
        \/ AcceptedInitiates(n) \/ AcceptedAnswers(n) \/ AcceptedFails(n)
    BY AcceptedCases
  <1>2. CASE AcceptedWaits(n) \/ AcceptedSeen(n) \/ AcceptedInitiates(n)
    <2>1. PICK R \in SUBSET OwnRefund(n) : Broadcast(R)
      BY <1>2, RefundsOwn DEF AcceptedWaits, AcceptedSeen, AcceptedInitiates
    <2>2. R \in SUBSET Tx /\ R \in SUBSET Pub(n)
      BY PubFacts
    <2> QED BY <2>1, <2>2, BroadcastLedger DEF BaseInv
  <1>3. CASE AcceptedWrong(n) \/ AcceptedFails(n)
    <2>1. conf' = conf /\ sent' = sent
      BY <1>3 DEF AcceptedWrong, AcceptedFails
    <2>2. BroadcastFacts({}) /\ {} \in SUBSET Pub(n)
      BY <2>1, QuietFacts DEF BaseInv
    <2> QED BY <2>2
  <1>4. CASE AcceptedAnswers(n)
    <2>1. Broadcast({"ptx"}) /\ {"ptx"} \in SUBSET Tx /\ {"ptx"} \in SUBSET Pub(n)
      BY <1>4 DEF AcceptedAnswers, Tx, Pub
    <2> QED BY <2>1, BroadcastLedger DEF BaseInv
  <1> QED BY <1>1, <1>2, <1>3, <1>4

\* What CheckInitiated publishes.
LEMMA InitiatedNet ==
  ASSUME BaseInv, NEW n \in Nodes, CheckInitiated(n)
  PROVE  \E T \in SUBSET Pub(n) : BroadcastFacts(T)
  <1>1. \/ InitiatedWaits(n) \/ InitiatedSees(n) \/ InitiatedTakes(n)
        \/ InitiatedFollows(n) \/ InitiatedFails(n)
    BY InitiatedCases
  <1>2. /\ mem[n] \in Bids /\ watch[n] \in WatchSets /\ PtxWatch(n) \in WatchSets
    BY NodeFacts DEF PtxWatch, WatchSets
  <1>3. ASSUME NEW b \in Bids, NEW pub \in SUBSET Pub(n), NEW w \in WatchSets,
               Conclude(n, b, pub, w, TRUE) \/ Conclude(n, b, pub, w, FALSE)
        PROVE  \E T \in SUBSET Pub(n) : BroadcastFacts(T)
    <2>1. pub \in SUBSET Tx
      BY PubFacts
    <2>2. PICK R \in SUBSET OwnRefund(n) : BroadcastFacts(pub \union R)
      BY <1>3, <2>1, ConcludeNet
    <2>3. pub \union R \in SUBSET Pub(n)
      BY PubFacts
    <2> QED BY <2>2, <2>3
  <1>4. {} \in SUBSET Pub(n)
    OBVIOUS
  <1>5. CASE InitiatedWaits(n)
    <2>1. Conclude(n, mem[n], {}, watch[n], FALSE)
      BY <1>5 DEF InitiatedWaits
    <2> QED BY <1>2, <1>3, <1>4, <2>1
  <1>6. CASE InitiatedSees(n) \/ InitiatedFollows(n)
    <2>1. PICK b \in Bids :
            \/ Conclude(n, b, {}, PtxWatch(n), TRUE)
            \/ Conclude(n, b, {}, PtxWatch(n), FALSE)
      BY <1>2, <1>6, PtxSeenFields, PtxConfirmedFields DEF InitiatedSees, InitiatedFollows
    <2> QED BY <1>2, <1>3, <1>4, <2>1
  <1>7. CASE InitiatedTakes(n)
    <2>1. PICK b \in Bids : b = PtxConfirmed(mem[n])
      BY <1>2, PtxConfirmedFields
    <2>2. PICK pub \in SUBSET Pub(n) : pub = {"ptx_redeem"}
      BY <1>7 DEF InitiatedTakes, Pub
    <2>3. Conclude(n, b, pub, PtxWatch(n), TRUE)
      BY <1>7, <2>1, <2>2 DEF InitiatedTakes
    <2> QED BY <1>2, <1>3, <2>3
  <1>8. CASE InitiatedFails(n)
    <2>1. conf' = conf /\ sent' = sent
      BY <1>8 DEF InitiatedFails
    <2>2. BroadcastFacts({})
      BY <2>1, QuietFacts DEF BaseInv
    <2> QED BY <1>4, <2>2
  <1> QED BY <1>1, <1>5, <1>6, <1>7, <1>8

\* The seller has no redeem of the ITX to queue.
LEMMA SellerRedeems ==
  ASSUME BaseInv,
         \/ CheckBidState("S") \/ CheckWatched("S") \/ CheckQueuedActions("S")
         \/ Crash("S") \/ Restart("S")
  PROVE  redeems' = redeems
  <1>1. \A b, pub, w : Conclude("S", b, pub, w, TRUE) => redeems' = redeems
    BY DEF Conclude, DeactivateBid
  <1>2. \A b, pub, w : Conclude("S", b, pub, w, FALSE) => redeems' = redeems
    BY DEF Conclude, DeactivateBid
  <1>4. \A b : DeactivateBid("S", b) => redeems' = redeems
    BY DEF DeactivateBid
  <1>5. CASE CheckBidState("S")
    <2>1. CheckAccepted("S") => redeems' = redeems
      BY <1>1, <1>2, <1>4 DEF CheckAccepted
    <2>2. CheckInitiated("S") => redeems' = redeems
      BY <1>1, <1>2, InitiatedCases
         DEF Nodes, InitiatedWaits, InitiatedSees, InitiatedTakes, InitiatedFollows,
             InitiatedFails
    <2>3. CheckOther("S") => redeems' = redeems
      BY <1>2 DEF CheckOther
    <2> QED BY <1>5, <2>1, <2>2, <2>3 DEF CheckBidState, CheckNothingMade, CheckFails
  <1>6. CASE CheckWatched("S")
    BY <1>6 DEF CheckWatched, InitiateTxnSpent, ParticipateTxnSpent, ProcessFoundScript
  <1>7. CASE CheckQueuedActions("S")
    BY <1>4, <1>7 DEF CheckQueuedActions, CheckAcceptedBids, RedeemITx
  <1>8. CASE Crash("S") \/ Restart("S")
    BY <1>8 DEF Crash, Restart
  <1> QED BY <1>5, <1>6, <1>7, <1>8

\* A step of n leaves the other engine and its transactions alone.
LEMMA StepAside ==
  ASSUME BaseInv, NEW n \in Nodes,
         \/ CheckBidState(n) \/ CheckWatched(n) \/ CheckQueuedActions(n)
         \/ Crash(n) \/ Restart(n)
  PROVE  Aside(n)
  <1>1. pc \in [Nodes -> Stages] /\ ran \in [Nodes -> 0..3]
    BY DEF BaseInv, TypeOK
  <1>2. /\ StageDone(n) =>
             \A k \in Nodes \ {n} : pc'[k] = pc[k] /\ ran'[k] = ran[k]
        /\ LoseMemory(n) =>
             \A k \in Nodes \ {n} : pc'[k] = pc[k] /\ ran'[k] = ran[k]
        /\ UNCHANGED <<pc, ran>> =>
             \A k \in Nodes \ {n} : pc'[k] = pc[k] /\ ran'[k] = ran[k]
    BY <1>1 DEF StageDone, LoseMemory
  <1>3. bad' = bad /\ (StageDone(n) \/ LoseMemory(n) \/ UNCHANGED <<pc, ran>>)
    BY DEF CheckBidState, CheckWatched, CheckQueuedActions, Crash, Restart,
       InitiateTxnSpent, ParticipateTxnSpent, ProcessFoundScript
  <1>4. Fault \/ faults' = faults
    BY DEF CheckBidState, CheckWatched, CheckQueuedActions, Crash, Restart,
       InitiateTxnSpent, ParticipateTxnSpent, ProcessFoundScript, CheckAccepted,
       CheckInitiated, CheckNothingMade, CheckOther, CheckFails, CheckAcceptedBids,
       RedeemITx
  <1>5. \E T \in SUBSET Pub(n) : BroadcastFacts(T)
    <2>1. CASE conf' = conf /\ sent' = sent
      <3>1. BroadcastFacts({}) /\ {} \in SUBSET Pub(n)
        BY <2>1, QuietFacts DEF BaseInv
      <3> QED BY <3>1
    <2>2. CASE CheckBidState(n)
      <3>1. CASE CheckOther(n)
        <4>1. /\ Conclude(n, mem[n], {}, watch[n], FALSE)
              /\ mem[n] \in Bids /\ watch[n] \in WatchSets
          BY <3>1, NodeFacts DEF CheckOther
        <4>2. PICK b \in Bids : b = mem[n]
          BY <4>1
        <4>3. PICK pub \in SUBSET Tx : pub = {}
          OBVIOUS
        <4>4. Conclude(n, b, pub, watch[n], FALSE)
          BY <4>1, <4>2, <4>3
        <4>5. PICK R \in SUBSET OwnRefund(n) : BroadcastFacts(pub \union R)
          BY <4>1, <4>4, ConcludeNet
        <4>6. pub \union R \in SUBSET Pub(n)
          BY <4>3, PubFacts
        <4> QED BY <4>5, <4>6
      <3> QED BY <2>1, <2>2, <3>1, AcceptedNet, InitiatedNet
          DEF CheckBidState, CheckNothingMade, CheckFails
    <2>3. CASE CheckQueuedActions(n)
      <3>1. CASE n = "B" /\ Broadcast({"itx_redeem"})
        <4>1. {"itx_redeem"} \in SUBSET Tx /\ {"itx_redeem"} \in SUBSET Pub(n)
          BY <3>1 DEF Tx, Pub
        <4> QED BY <3>1, <4>1, BroadcastLedger DEF BaseInv
      <3> QED BY <2>1, <2>3, <3>1 DEF CheckQueuedActions, CheckAcceptedBids, RedeemITx
    <2> QED BY <2>1, <2>2, <2>3 DEF CheckWatched, Crash, Restart
  <1>6. faults' = faults \/ (faults < MaxFaults /\ faults' = faults + 1)
    BY <1>4 DEF Fault
  <1>7. bid_age' = bid_age
    BY DEF CheckBidState, CheckWatched, CheckQueuedActions, Crash, Restart
  <1>8. n = "S" => redeems' = redeems
    BY SellerRedeems
  <1> QED BY <1>2, <1>3, <1>5, <1>6, <1>7, <1>8 DEF Aside

\* The steps of the buyer.
LEMMA BuyerSides ==
  ASSUME BaseInv,
         \/ ProcessBidAccept
         \/ CheckBidState("B") \/ CheckWatched("B") \/ CheckQueuedActions("B")
         \/ Crash("B") \/ Restart("B")
  PROVE  Frame("B") /\ Aside("B")
  <1>1. CASE ProcessBidAccept
    <2>1. Frame("B")
      BY <1>1, ProcessAcceptSound DEF Sound
    <2>2. /\ conf' = conf /\ sent' = sent /\ pc' = pc /\ ran' = ran /\ bad' = bad
          /\ faults' = faults /\ bid_age' = bid_age
      BY <1>1 DEF ProcessBidAccept
    <2>3. BroadcastFacts({}) /\ {} \in SUBSET Pub("B")
      BY <2>2, QuietFacts DEF BaseInv
    <2> QED BY <2>1, <2>2, <2>3 DEF Aside
  <1>2. CASE \/ CheckBidState("B") \/ CheckWatched("B") \/ CheckQueuedActions("B")
             \/ Crash("B") \/ Restart("B")
    <2>1. "B" \in Nodes
      BY DEF Nodes
    <2>2. Frame("B")
      BY <1>2, <2>1, CheckSound, WatchedSound, QueueSound, CrashSound, RestartSound
         DEF Sound
    <2> QED BY <1>2, <2>1, <2>2, StepAside
  <1> QED BY <1>1, <1>2

\* The steps of the seller.
LEMMA SellerSides ==
  ASSUME BaseInv,
         \/ AcceptBid
         \/ CheckBidState("S") \/ CheckWatched("S") \/ CheckQueuedActions("S")
         \/ Crash("S") \/ Restart("S")
  PROVE  Frame("S") /\ Aside("S")
  <1>1. CASE AcceptBid
    <2>1. Frame("S")
      BY <1>1, AcceptSound DEF Sound
    <2>2. /\ pc' = pc /\ ran' = ran /\ bad' = bad /\ faults' = faults
          /\ bid_age' = bid_age /\ redeems' = redeems /\ Broadcast({"itx"})
      BY <1>1 DEF AcceptBid
    <2>3. {"itx"} \in SUBSET Pub("S") /\ {"itx"} \in SUBSET Tx
      BY DEF Pub, Tx
    <2>4. BroadcastFacts({"itx"})
      BY <2>2, <2>3, BroadcastLedger DEF BaseInv
    <2> QED BY <2>1, <2>2, <2>3, <2>4 DEF Aside
  <1>2. CASE \/ CheckBidState("S") \/ CheckWatched("S") \/ CheckQueuedActions("S")
             \/ Crash("S") \/ Restart("S")
    <2>1. "S" \in Nodes
      BY DEF Nodes
    <2>2. Frame("S")
      BY <1>2, <2>1, CheckSound, WatchedSound, QueueSound, CrashSound, RestartSound
         DEF Sound
    <2> QED BY <1>2, <2>1, <2>2, StepAside
  <1> QED BY <1>1, <1>2

-----------------------------------------------------------------------------
\* Time, for an engine that finishes a round of update() between two blocks.

\* n ran checkBidState since the last block.
Checked(n) == \/ pc[n] = "watch" /\ ran[n] >= 1
              \/ pc[n] = "queue" /\ ran[n] >= 2
              \/ ran[n] = 3

\* n looked at the watched outputs since the last block.
Watched(n) == \/ pc[n] = "queue" /\ ran[n] >= 1
              \/ pc[n] = "check" /\ ran[n] >= 2
              \/ ran[n] = 3

\* n ran the queued actions since the last block.
Queued(n) == \/ pc[n] = "check" /\ ran[n] >= 1
             \/ pc[n] = "watch" /\ ran[n] >= 2
             \/ ran[n] = 3

\* A block that n made use of already counts as past.
Past(p) == IF p THEN 1 ELSE 0

\* The stages of a round.
LEMMA StagePast ==
  ASSUME TypeOK, NEW n \in Nodes
  PROVE  /\ StageDone(n) /\ pc[n] = "check" =>
              Checked(n)' /\ (Watched(n)' <=> Watched(n)) /\ (Queued(n)' <=> Queued(n))
         /\ StageDone(n) /\ pc[n] = "watch" =>
              Watched(n)' /\ (Checked(n)' <=> Checked(n)) /\ (Queued(n)' <=> Queued(n))
         /\ StageDone(n) /\ pc[n] = "queue" =>
              Queued(n)' /\ (Checked(n)' <=> Checked(n)) /\ (Watched(n)' <=> Watched(n))
         /\ LoseMemory(n) => ~Checked(n)' /\ ~Watched(n)' /\ ~Queued(n)'
         /\ pc'[n] = pc[n] /\ ran'[n] = ran[n] =>
              /\ Checked(n)' <=> Checked(n)
              /\ Watched(n)' <=> Watched(n)
              /\ Queued(n)' <=> Queued(n)
  <1>1. pc \in [Nodes -> Stages] /\ ran \in [Nodes -> 0..3] /\ ran[n] \in 0..3
    BY DEF TypeOK
  <1>2. ASSUME StageDone(n)
        PROVE  /\ pc[n] = "check" => pc'[n] = "watch"
               /\ pc[n] = "watch" => pc'[n] = "queue"
               /\ pc[n] = "queue" => pc'[n] = "check"
               /\ ran'[n] = IF ran[n] < 3 THEN ran[n] + 1 ELSE 3
    BY <1>1, <1>2 DEF StageDone, NextStage
  <1>3. LoseMemory(n) => pc'[n] = "check" /\ ran'[n] = 0
    BY <1>1 DEF LoseMemory
  <1> QED BY <1>1, <1>2, <1>3 DEF Checked, Watched, Queued

\* The seller finishes a round between two blocks, at most one thing fails, and
\* the participate lock has room for the seller's redeem.
TimelySeller ==
  /\ "S" \notin Late /\ MaxFaults <= 1
  /\ ConfB + MaxFaults + MineDelay <= ParticipateLock

\* The seller acts on state s, or will after a restart.
SellerAt(s) == db["S"].state = s /\ (up["S"] => mem["S"].state = s)

\* The in-memory bid is ahead of its row only after a failure, the last one.
SellerRows ==
  /\ up["S"] /\ mem["S"].state # db["S"].state
       /\ db["S"].state \in {"BID_ACCEPTED", "SWAP_INITIATED"} =>
         mem["S"].state \notin {"BID_ACCEPTED", "SWAP_INITIATED"} /\ faults = MaxFaults
  /\ mem["S"].state = "SWAP_INITIATED" => db["S"].state = "SWAP_INITIATED"

\* How deep the locks get before the seller acts on them.
SellerClock ==
  /\ SellerAt("BID_ACCEPTED") =>
       /\ conf["itx"] + Past(Checked("S")) <= ConfA + faults
       /\ ITXDeep => /\ Past(Checked("S")) <= faults
                     /\ conf["ptx"] + Past(Checked("S")) <= faults
                     /\ conf["itx_refund"] = 0
  /\ SellerAt("SWAP_INITIATED") /\ "ptx" \notin bad =>
       conf["ptx"] + Past(Checked("S")) <= ConfB + faults
  /\ "ptx_redeem" \in sent =>
       /\ conf["ptx_redeem"] # 0
       /\ conf["ptx_redeem"] < 0 => conf["ptx"] - conf["ptx_redeem"] <= ParticipateLock

\* The strengthening with which a timely seller is proved to act in time.
SellerInv == SellerRows /\ SellerClock

\* A step does not get ahead of the seller.
Slack == Past(Checked("S"))' + faults <= Past(Checked("S")) + faults'

\* How the seller gets to an initiated bid and to the redeem of the PTX, and how
\* long it may stay there.
SellerMoves ==
  /\ SellerAt("SWAP_INITIATED")' /\ "ptx" \notin bad =>
       \/ conf["ptx"] < ConfB \/ SellerAt("BID_ACCEPTED")
       \/ SellerAt("SWAP_INITIATED") /\ Slack
  /\ "ptx_redeem" \in sent' /\ "ptx_redeem" \notin sent =>
       SellerAt("SWAP_INITIATED") /\ "ptx" \notin bad /\ conf["ptx"] > 0

\* Publishing keeps what the seller counts on, if the step gave up no time.
LEMMA SellerKept ==
  ASSUME BaseInv, TimelySeller, SellerInv, NEW T \in SUBSET Tx, BroadcastFacts(T),
         bad' = bad, faults' \in {faults, faults + 1}, SellerRows',
         SellerAt("BID_ACCEPTED")' =>
           ~ITXDeep \/ (SellerAt("BID_ACCEPTED") /\ "itx_refund" \notin T /\ Slack),
         SellerMoves,
         "ptx_redeem" \in T =>
           conf["ptx_redeem"] = 0 /\ conf["ptx"] + MineDelay <= ParticipateLock
  PROVE  SellerInv'
  <1>1. \A t \in Tx : /\ conf[t] \in Int /\ conf'[t] \in Int
                      /\ conf'[t] <= conf[t]
                      /\ conf[t] # 0 \/ t \notin T => conf'[t] = conf[t]
                      /\ t \in T /\ conf[t] = 0 => conf'[t] = -MineDelay
    BY Times DEF BaseInv, LedgerInv, BroadcastFacts
  <1>2. faults \in Nat /\ faults' \in Nat
    BY Times DEF BaseInv, TypeOK
  <1>3. {"itx", "ptx", "itx_refund", "ptx_redeem"} \subseteq Tx
    BY DEF Tx
  <1>4. ITXDeep' => ITXDeep
    BY <1>1, <1>3, Times DEF ITXDeep
  <1>12. \A t \in {"itx", "ptx"} :
           conf[t] \in Int /\ conf'[t] \in Int /\ conf'[t] <= conf[t]
    BY <1>1, <1>3
  <1>5. PICK c \in {0, 1} : c = Past(Checked("S"))
    BY DEF Past
  <1>6. PICK d \in {0, 1} : d = Past(Checked("S"))'
    BY DEF Past
  <1>7. Slack <=> d + faults <= c + faults'
    BY <1>5, <1>6 DEF Slack
  <1>8. ASSUME SellerAt("BID_ACCEPTED")'
        PROVE  /\ conf'["itx"] + d <= ConfA + faults'
               /\ ITXDeep' => /\ d <= faults' /\ conf'["ptx"] + d <= faults'
                              /\ conf'["itx_refund"] = 0
    <2>1. CASE ~ITXDeep
      BY <1>1, <1>2, <1>3, <1>4, <2>1, Times DEF ITXDeep
    <2>2. CASE SellerAt("BID_ACCEPTED") /\ "itx_refund" \notin T /\ Slack
      <3>1. /\ conf["itx"] + c <= ConfA + faults
            /\ ITXDeep => /\ c <= faults /\ conf["ptx"] + c <= faults
                          /\ conf["itx_refund"] = 0
        BY <1>5, <2>2 DEF SellerInv, SellerClock
      <3>2. d + faults <= c + faults'
        BY <1>7, <2>2
      <3>3. conf'["itx_refund"] = conf["itx_refund"]
        BY <1>1, <1>3, <2>2
      <3> QED BY <1>2, <1>4, <1>5, <1>6, <1>12, <3>1, <3>2, <3>3, Times
    <2> QED BY <1>8, <2>1, <2>2
  <1>9. ASSUME SellerAt("SWAP_INITIATED")', "ptx" \notin bad
        PROVE  conf'["ptx"] + d <= ConfB + faults'
    <2>1. CASE conf["ptx"] < ConfB
      BY <1>1, <1>2, <1>3, <2>1, Times
    <2>3. CASE SellerAt("BID_ACCEPTED")
      <3>1. ITXDeep => conf["ptx"] + c <= faults
        BY <1>5, <2>3 DEF SellerInv, SellerClock
      <3>2. ~ITXDeep => conf["ptx"] = 0
        BY DEF BaseInv, OrderInv, LedgerInv, Tx
      <3> QED BY <1>1, <1>2, <1>3, <3>1, <3>2, Times
    <2>2. CASE SellerAt("SWAP_INITIATED") /\ Slack
      <3>1. conf["ptx"] + c <= ConfB + faults
        BY <1>5, <1>9, <2>2 DEF SellerInv, SellerClock
      <3>2. d + faults <= c + faults'
        BY <1>7, <2>2
      <3> QED BY <1>2, <1>5, <1>6, <1>12, <3>1, <3>2, Times
    <2> QED BY <1>9, <2>1, <2>2, <2>3 DEF SellerMoves
  <1>10. ASSUME "ptx_redeem" \in sent'
         PROVE  /\ conf'["ptx_redeem"] # 0
                /\ conf'["ptx_redeem"] < 0 =>
                     conf'["ptx"] - conf'["ptx_redeem"] <= ParticipateLock
    <2>1. CASE "ptx_redeem" \in T
      BY <1>1, <1>3, <2>1, Times
    <2>2. CASE "ptx_redeem" \in sent
      <3>1. /\ conf["ptx_redeem"] # 0
            /\ conf["ptx_redeem"] < 0 =>
                 conf["ptx"] - conf["ptx_redeem"] <= ParticipateLock
        BY <2>2 DEF SellerInv, SellerClock
      <3> QED BY <1>1, <1>3, <3>1, Times
    <2> QED BY <1>10, <2>1, <2>2 DEF BroadcastFacts
  <1>11. SellerClock'
    <2>1. Past(Checked("S"))' = d
      BY <1>6
    <2> QED BY <1>8, <1>9, <1>10, <2>1 DEF SellerClock
  <1> QED BY <1>11 DEF SellerInv

\* So does a step that is not the redeem of the PTX.
LEMMA SellerPasses ==
  ASSUME BaseInv, TimelySeller, SellerInv, NEW T \in SUBSET Tx, BroadcastFacts(T),
         bad' = bad, faults' \in {faults, faults + 1}, SellerRows',
         SellerAt("BID_ACCEPTED")' =>
           ~ITXDeep \/ (SellerAt("BID_ACCEPTED") /\ "itx_refund" \notin T /\ Slack),
         SellerAt("SWAP_INITIATED")' /\ "ptx" \notin bad =>
           \/ conf["ptx"] < ConfB \/ SellerAt("BID_ACCEPTED")
           \/ SellerAt("SWAP_INITIATED") /\ Slack,
         "ptx_redeem" \notin T
  PROVE  SellerInv' /\ SellerMoves
  <1>1. SellerMoves
    BY DEF SellerMoves, BroadcastFacts
  <1> QED BY <1>1, SellerKept

\* What another engine does, or one that does nothing of note, gives up no time.
LEMMA SellerQuiet ==
  ASSUME BaseInv, TimelySeller, SellerInv, NEW T \in SUBSET Tx, BroadcastFacts(T),
         T \intersect {"itx_refund", "ptx_redeem"} = {},
         bad' = bad, faults' \in {faults, faults + 1}, SellerRows', Slack,
         SellerAt("BID_ACCEPTED")' => SellerAt("BID_ACCEPTED"),
         SellerAt("SWAP_INITIATED")' => SellerAt("SWAP_INITIATED")
  PROVE  SellerInv' /\ SellerMoves
  <1>1. SellerMoves
    BY DEF SellerMoves, BroadcastFacts
  <1> QED BY <1>1, SellerKept

\* Nothing the buyer does disturbs a timely seller.
LEMMA SellerBuyer ==
  ASSUME BaseInv, TimelySeller, SellerInv, Frame("B"), Aside("B")
  PROVE  SellerInv' /\ SellerMoves
  <1>1. /\ db'["S"] = db["S"] /\ mem'["S"] = mem["S"] /\ up'["S"] = up["S"]
        /\ pc'["S"] = pc["S"] /\ ran'["S"] = ran["S"]
    BY DEF Frame, Others, Aside, Nodes
  <1>2. faults' \in {faults, faults + 1} /\ bad' = bad
    BY DEF Aside
  <1>3. PICK T \in SUBSET Pub("B") : BroadcastFacts(T)
    BY DEF Aside
  <1>4. T \in SUBSET Tx /\ T \intersect {"itx_refund", "ptx_redeem"} = {}
    BY DEF Pub, Tx
  <1>5. faults \in 0..MaxFaults /\ faults' \in 0..MaxFaults
    BY Times DEF Aside, BaseInv, TypeOK
  <1>8. faults = MaxFaults => faults' = MaxFaults
    BY <1>5, Times DEF Aside
  <1>6. SellerRows'
    BY <1>1, <1>8 DEF SellerInv, SellerRows
  <1>7. Slack
    <2>1. Past(Checked("S"))' = Past(Checked("S"))
      BY <1>1 DEF Past, Checked
    <2>2. PICK c \in {0, 1} : c = Past(Checked("S"))
      BY DEF Past
    <2> QED BY <1>2, <1>5, <2>1, <2>2, Times DEF Slack
  <1> QED BY <1>1, <1>2, <1>3, <1>4, <1>6, <1>7, SellerQuiet DEF SellerAt

\* acceptBid.
LEMMA SellerAccepts ==
  ASSUME BaseInv, TimelySeller, SellerInv, AcceptBid
  PROVE  SellerInv' /\ SellerMoves
  <1>1. TypeOK /\ LedgerInv /\ OrderInv
    BY DEF BaseInv
  <1>2. PICK b \in Bids : b = [NoBid EXCEPT !.state = "BID_ACCEPTED", !.itx = "TX_SENT"]
    BY DEF NoBid, Bids, BidStates, TxStates
  <1>3. b.state = "BID_ACCEPTED"
    BY <1>2 DEF NoBid
  <1>4. SaveBid("S", b) /\ bad' = bad /\ faults' = faults /\ Broadcast({"itx"})
    BY <1>2 DEF AcceptBid, SendBidAccept
  <1>5. mem'["S"] = b /\ db'["S"] = b
    BY <1>1, <1>4, WriteFacts DEF Nodes
  <1>6. "itx" \notin sent
    BY <1>1 DEF AcceptBid, OrderInv
  <1>7. ~ITXDeep
    BY <1>1, <1>6, Times DEF LedgerInv, ITXDeep, Tx
  <1>8. PICK T \in SUBSET Tx : T = {"itx"}
    BY DEF Tx
  <1>9. BroadcastFacts(T)
    BY <1>1, <1>4, <1>8, BroadcastLedger
  <1>10. SellerRows'
    BY <1>3, <1>5 DEF SellerRows
  <1> QED BY <1>3, <1>4, <1>5, <1>7, <1>8, <1>9, <1>10, SellerPasses DEF SellerAt

\* Its own steps that publish nothing of note.
LEMMA SellerStill ==
  ASSUME BaseInv, TimelySeller, SellerInv, Slack, bad' = bad, conf' = conf, sent' = sent,
         faults' \in {faults, faults + 1}, SellerRows',
         SellerAt("BID_ACCEPTED")' => SellerAt("BID_ACCEPTED"),
         SellerAt("SWAP_INITIATED")' => SellerAt("SWAP_INITIATED")
  PROVE  SellerInv' /\ SellerMoves
  <1>1. BroadcastFacts({})
    BY QuietFacts DEF BaseInv
  <1>2. PICK T \in SUBSET Tx : T = {}
    OBVIOUS
  <1>3. T \intersect {"itx_refund", "ptx_redeem"} = {}
    BY <1>2
  <1> QED BY <1>1, <1>2, <1>3, SellerQuiet

\* A stage of update() behind the check, and a failed check, take no time.
LEMMA SellerSlack ==
  ASSUME BaseInv, faults' \in {faults, faults + 1},
         \/ Checked("S")' => Checked("S")
         \/ faults' = faults + 1
  PROVE  Slack
  <1>1. PICK c \in {0, 1} : c = Past(Checked("S"))
    BY DEF Past
  <1>2. PICK d \in {0, 1} : d = Past(Checked("S"))'
    BY DEF Past
  <1>3. (Checked("S")' => Checked("S")) => d <= c
    BY <1>1, <1>2 DEF Past
  <1>4. faults \in Nat
    BY Times DEF BaseInv, TypeOK
  <1> QED BY <1>1, <1>2, <1>3, <1>4 DEF Slack

\* checkBidState of the seller's accepted bid.
LEMMA SellerCheckAccepted ==
  ASSUME BaseInv, TimelySeller, SellerInv, up' = up, bad' = bad, CheckAccepted("S")
  PROVE  SellerInv' /\ SellerMoves
  <1>1. TypeOK /\ LedgerInv /\ OrderInv /\ "S" \in Nodes /\ up["S"]
    BY NodeFacts DEF BaseInv, Nodes, CheckAccepted, Live
  <1>2. /\ mem["S"].state = "BID_ACCEPTED" /\ db["S"].state = "BID_ACCEPTED"
        /\ mem["S"] \in Bids
    BY <1>1, NodeFacts DEF CheckAccepted
  <1>3. SellerAt("BID_ACCEPTED")
    BY <1>2 DEF SellerAt
  <1>4. \/ AcceptedWaits("S") \/ AcceptedWrong("S") \/ AcceptedSeen("S")
        \/ AcceptedInitiates("S")
    BY <1>1, AcceptedCases DEF AcceptedAnswers, AcceptedFails
  <1>5. faults' = faults /\ faults \in Nat
    BY <1>1, <1>4, Times
       DEF AcceptedWaits, AcceptedWrong, AcceptedSeen, AcceptedInitiates, TypeOK
  <1>6. ASSUME NEW R, R = Refunds("S", mem'["S"]), Broadcast(R)
        PROVE  \E T \in SUBSET Tx : BroadcastFacts(T) /\ T \subseteq {"itx_refund"}
    <2>1. R \subseteq {"itx_refund"} /\ R \in SUBSET Tx
      BY <1>1, <1>6, RefundsOwn DEF OwnRefund, Tx
    <2> QED BY <1>1, <1>6, <2>1, BroadcastLedger
  <1>7. CASE AcceptedWaits("S")
    <2>1. ~ITXDeep
      <3>1. CASE conf["itx"] <= 0
        BY <1>1, <3>1, Times DEF ITXDeep, LedgerInv, Tx
      <3>2. CASE Touched("itx")
        <4>1. conf["itx_redeem"] # 0 \/ conf["itx_refund"] # 0
          BY <3>2 DEF Touched, Parent, Tx
        <4>2. conf["itx_redeem"] # 0 => SellerRedeemed
          <5>1. conf["itx_redeem"] # 0 => conf["ptx_redeem"] > 0
            BY <1>1 DEF LedgerInv, OrderInv, Tx
          <5>2. conf["ptx_redeem"] > 0 => "ptx_redeem" \in sent
            BY <1>1 DEF LedgerInv, Tx
          <5> QED BY <1>1, <5>1, <5>2 DEF OrderInv
        <4> QED BY <1>2, <1>3, <4>1, <4>2 DEF SellerInv, SellerClock, SellerRedeemed
      <3> QED BY <1>7, <3>1, <3>2 DEF AcceptedWaits
    <2>2. mem'["S"] = mem["S"] /\ db'["S"] = db["S"]
      BY <1>7 DEF AcceptedWaits
    <2>3. SellerRows'
      BY <1>2, <2>2 DEF SellerRows
    <2>4. PICK T \in SUBSET Tx : BroadcastFacts(T) /\ T \subseteq {"itx_refund"}
      <3>1. PICK R : R = Refunds("S", mem'["S"])
        OBVIOUS
      <3> QED BY <1>6, <1>7, <3>1 DEF AcceptedWaits
    <2>5. ~SellerAt("SWAP_INITIATED")'
      BY <1>2, <2>2 DEF SellerAt
    <2> QED BY <1>5, <2>1, <2>3, <2>4, <2>5, SellerPasses
  <1>8. CASE AcceptedWrong("S")
    <2>1. /\ mem'["S"] = NoBid /\ db'["S"].state = "BID_ERROR"
          /\ conf' = conf /\ sent' = sent
      BY <1>2, <1>8, StateFields DEF AcceptedWrong, BidStates
    <2>2. SellerRows' /\ ~SellerAt("BID_ACCEPTED")' /\ ~SellerAt("SWAP_INITIATED")'
      BY <2>1 DEF SellerRows, SellerAt, NoBid
    <2>3. BroadcastFacts({})
      BY <1>1, <2>1, QuietFacts
    <2>4. PICK T \in SUBSET Tx : T = {}
      OBVIOUS
    <2> QED BY <1>5, <2>2, <2>3, <2>4, SellerPasses
  <1>9. CASE AcceptedSeen("S")
    <2>1. mem'["S"].state = "BID_ACCEPTED" /\ db'["S"] = mem'["S"] /\ ~ITXDeep
      <3>1. ItxSeen(mem["S"]).state = "BID_ACCEPTED"
        BY <1>2, ItxSeenFields
      <3> QED BY <1>9, <3>1 DEF AcceptedSeen
    <2>2. SellerRows' /\ ~SellerAt("SWAP_INITIATED")'
      BY <2>1 DEF SellerRows, SellerAt
    <2>3. PICK T \in SUBSET Tx : BroadcastFacts(T) /\ T \subseteq {"itx_refund"}
      <3>1. PICK R : R = Refunds("S", mem'["S"])
        OBVIOUS
      <3> QED BY <1>6, <1>9, <3>1 DEF AcceptedSeen
    <2> QED BY <1>5, <2>1, <2>2, <2>3, SellerPasses
  <1>10. CASE AcceptedInitiates("S")
    <2>1. mem'["S"].state = "SWAP_INITIATED" /\ db'["S"] = mem'["S"] /\ ITXDeep
      <3>1. Initiated("S", ItxSeen(mem["S"])).state = "SWAP_INITIATED"
        BY <1>1, <1>2, InitiatedFields
      <3> QED BY <1>10, <3>1 DEF AcceptedInitiates
    <2>2. SellerRows' /\ ~SellerAt("BID_ACCEPTED")'
      BY <2>1 DEF SellerRows, SellerAt
    <2>3. PICK T \in SUBSET Tx : BroadcastFacts(T) /\ T \subseteq {"itx_refund"}
      <3>1. PICK R : R = Refunds("S", mem'["S"])
        OBVIOUS
      <3> QED BY <1>6, <1>10, <3>1 DEF AcceptedInitiates
    <2> QED BY <1>3, <1>5, <2>2, <2>3, SellerPasses
  <1> QED BY <1>4, <1>7, <1>8, <1>9, <1>10

\* checkBidState of the seller's initiated bid: the redeem is out in time.
LEMMA SellerCheckInitiated ==
  ASSUME BaseInv, TimelySeller, SellerInv, up' = up, bad' = bad, CheckInitiated("S")
  PROVE  SellerInv' /\ SellerMoves
  <1>1. /\ TypeOK /\ LedgerInv /\ OrderInv /\ "S" \in Nodes /\ up["S"]
        /\ mem["S"] \in Bids /\ watch["S"] \in WatchSets
    BY NodeFacts DEF BaseInv, Nodes, CheckInitiated, Live
  <1>2. mem["S"].state = "SWAP_INITIATED" /\ db["S"].state = "SWAP_INITIATED"
    BY DEF CheckInitiated, SellerInv, SellerRows
  <1>3. SellerAt("SWAP_INITIATED")
    BY <1>2 DEF SellerAt
  <1>4. \/ InitiatedWaits("S") \/ InitiatedSees("S") \/ InitiatedTakes("S")
        \/ InitiatedFails("S")
    BY <1>1, InitiatedCases DEF InitiatedFollows
  <1>5. faults \in Nat /\ faults <= MaxFaults
    BY <1>1, Times DEF TypeOK
  <1>6. PICK c \in {0, 1} : c = Past(Checked("S"))
    BY DEF Past
  <1>7. "ptx" \notin bad => conf["ptx"] + c <= ConfB + faults
    BY <1>3, <1>6 DEF SellerInv, SellerClock
  <1>8. \A t \in {"ptx", "ptx_redeem", "ptx_refund"} : conf[t] \in Int
    BY <1>1 DEF LedgerInv, Tx
  <1>9. "ptx_redeem" \notin sent /\ conf["ptx_redeem"] = 0
    <2>1. "ptx_redeem" \notin sent
      BY <1>1, <1>2 DEF OrderInv, SellerRedeemed
    <2> QED BY <1>1, <2>1 DEF LedgerInv, Tx
  <1>10. PtxWatch("S") \in WatchSets
    BY <1>1 DEF PtxWatch, WatchSets
  \* A check that keeps the bid initiated, or ends it, and looks for no redeem.
  <1>11. ASSUME NEW b \in Bids, NEW w \in WatchSets, b.state = "SWAP_INITIATED",
                Conclude("S", b, {}, w, TRUE) \/ Conclude("S", b, {}, w, FALSE),
                faults' = faults, "ptx" \notin bad => conf["ptx"] < ConfB
         PROVE  SellerInv' /\ SellerMoves
    <2>1. PICK pub \in SUBSET Tx : pub = {}
      OBVIOUS
    <2>2. Conclude("S", b, pub, w, TRUE) \/ Conclude("S", b, pub, w, FALSE)
      BY <1>11, <2>1
    <2>3. /\ \E R \in SUBSET OwnRefund("S") : BroadcastFacts(pub \union R)
          /\ \/ mem'["S"] = NoBid /\ db'["S"].state = "SWAP_COMPLETED"
             \/ /\ mem'["S"].state = b.state
                /\ db'["S"] = mem'["S"] \/ db'["S"] = db["S"]
      BY <1>1, <1>11, <2>2, ConcludeNet
    <2>4. PICK T \in SUBSET Tx : BroadcastFacts(T) /\ T \subseteq {"itx_refund"}
      <3>1. PICK R \in SUBSET OwnRefund("S") : BroadcastFacts(pub \union R)
        BY <2>3
      <3>2. pub \union R = R /\ R \in SUBSET Tx /\ R \subseteq {"itx_refund"}
        BY <2>1 DEF OwnRefund, Tx
      <3> QED BY <3>1, <3>2
    <2>5. SellerRows' /\ ~SellerAt("BID_ACCEPTED")'
      BY <1>1, <1>2, <1>11, <2>3 DEF SellerRows, SellerAt, NoBid
    <2> QED BY <1>11, <2>4, <2>5, SellerPasses
  <1>12. CASE InitiatedWaits("S")
    <2>1. "ptx" \notin bad => conf["ptx"] < ConfB
      <3>1. CASE conf["ptx"] <= 0
        BY <1>8, <3>1, Times
      <3>2. CASE Touched("ptx")
        <4>1. conf["ptx_redeem"] # 0 \/ conf["ptx_refund"] # 0
          BY <3>2 DEF Touched, Parent, Tx
        <4>2. conf["ptx"] >= ParticipateLock
          BY <1>1, <1>9, <4>1 DEF LedgerInv
        <4> QED BY <1>5, <1>6, <1>7, <1>8, <4>2, Times DEF TimelySeller
      <3> QED BY <1>12, <3>1, <3>2 DEF InitiatedWaits
    <2>2. Conclude("S", mem["S"], {}, watch["S"], FALSE) /\ faults' = faults
      BY <1>12 DEF InitiatedWaits
    <2>3. PICK b \in Bids : b = mem["S"]
      BY <1>1
    <2>4. Conclude("S", b, {}, watch["S"], FALSE)
      BY <2>2, <2>3
    <2> QED BY <1>1, <1>2, <1>11, <2>1, <2>2, <2>3, <2>4
  <1>13. CASE InitiatedSees("S")
    <2>1. PICK b \in Bids : b = PtxSeen(mem["S"]) /\ b.state = "SWAP_INITIATED"
      BY <1>1, <1>2, PtxSeenFields
    <2>2. /\ \/ Conclude("S", b, {}, PtxWatch("S"), TRUE)
             \/ Conclude("S", b, {}, PtxWatch("S"), FALSE)
          /\ faults' = faults /\ ~PTXDeep
      BY <1>13, <2>1 DEF InitiatedSees
    <2>3. conf["ptx"] < ConfB
      BY <1>8, <2>2, Times DEF PTXDeep
    <2> QED BY <1>10, <1>11, <2>1, <2>2, <2>3
  <1>14. CASE InitiatedTakes("S")
    <2>1. PICK b \in Bids : b = PtxConfirmed(mem["S"]) /\ b.state = "SWAP_PARTICIPATING"
      BY <1>1, ConfirmedBid
    <2>2. PICK pub \in SUBSET Tx : pub = {"ptx_redeem"}
      BY DEF Tx
    <2>3. /\ Conclude("S", b, pub, PtxWatch("S"), TRUE)
          /\ faults' = faults /\ "ptx" \notin bad
      BY <1>14, <2>1, <2>2 DEF InitiatedTakes
    <2>4. /\ \E R \in SUBSET OwnRefund("S") : BroadcastFacts(pub \union R)
          /\ \/ mem'["S"] = NoBid /\ db'["S"].state = "SWAP_COMPLETED"
             \/ mem'["S"].state = b.state
          /\ mem'["S"] = NoBid \/ db'["S"] = mem'["S"]
      BY <1>1, <1>10, <2>3, ConcludeNet
    <2>5. PICK T \in SUBSET Tx : BroadcastFacts(T)
      <3>1. PICK R \in SUBSET OwnRefund("S") : BroadcastFacts(pub \union R)
        BY <2>4
      <3>2. pub \union R \in SUBSET Tx
        BY DEF OwnRefund, Tx
      <3> QED BY <3>1, <3>2
    <2>6. /\ SellerRows' /\ ~SellerAt("BID_ACCEPTED")' /\ ~SellerAt("SWAP_INITIATED")'
      BY <2>1, <2>4 DEF SellerRows, SellerAt, NoBid
    <2>7. conf["ptx"] + MineDelay <= ParticipateLock
      BY <1>5, <1>6, <1>7, <1>8, <2>3, Times DEF TimelySeller
    <2>8. SellerMoves
      <3>1. conf["ptx"] > 0
        BY <1>8, <1>14, Times DEF InitiatedTakes, PTXDeep
      <3> QED BY <1>3, <2>3, <2>6, <3>1 DEF SellerMoves
    <2> QED BY <1>9, <2>3, <2>5, <2>6, <2>7, <2>8, SellerKept
  <1>15. CASE InitiatedFails("S")
    <2>1. PICK b \in Bids : b = PtxConfirmed(mem["S"]) /\ b.state = "SWAP_PARTICIPATING"
      BY <1>1, ConfirmedBid
    <2>2. PICK e \in Bids : e = [b EXCEPT !.state = "BID_ERROR"] /\ e.state = "BID_ERROR"
      BY ErrorBid
    <2>3. /\ (KeepUnsaved("S", b) /\ Fault) \/ SaveBid("S", e)
          /\ Fault \/ faults' = faults
          /\ conf' = conf /\ sent' = sent
      BY <1>15, <2>1, <2>2 DEF InitiatedFails
    <2>4. \/ mem'["S"] = b /\ db'["S"] = db["S"] /\ Fault
          \/ mem'["S"] = e /\ db'["S"] = e
      BY <1>1, <2>3, WriteFacts
    <2>5. /\ faults' \in {faults, faults + 1}
          /\ Fault => faults' = MaxFaults
      BY <1>5, <2>3, Times DEF TimelySeller, Fault
    <2>6. SellerRows' /\ ~SellerAt("BID_ACCEPTED")' /\ ~SellerAt("SWAP_INITIATED")'
      <3>1. CASE mem'["S"] = b /\ db'["S"] = db["S"] /\ Fault
        BY <1>1, <1>2, <2>1, <2>5, <3>1 DEF SellerRows, SellerAt
      <3>2. CASE mem'["S"] = e /\ db'["S"] = e
        BY <2>2, <3>2 DEF SellerRows, SellerAt
      <3> QED BY <2>4, <3>1, <3>2
    <2>7. BroadcastFacts({})
      BY <1>1, <2>3, QuietFacts
    <2>8. PICK T \in SUBSET Tx : T = {}
      OBVIOUS
    <2> QED BY <2>5, <2>6, <2>7, <2>8, SellerPasses
  <1> QED BY <1>4, <1>12, <1>13, <1>14, <1>15

\* checkBidState of the seller.
LEMMA SellerChecks ==
  ASSUME BaseInv, TimelySeller, SellerInv, CheckBidState("S")
  PROVE  SellerInv' /\ SellerMoves
  <1>1. /\ up' = up /\ bad' = bad /\ TypeOK /\ LedgerInv /\ "S" \in Nodes
        /\ mem["S"] \in Bids /\ watch["S"] \in WatchSets
    BY NodeFacts DEF CheckBidState, BaseInv, Nodes
  <1>2. faults \in Nat /\ faults <= MaxFaults
    BY <1>1, Times DEF TypeOK
  <1>3. CASE CheckNothingMade("S")
    <2>1. PICK e \in Bids : /\ e = [mem["S"] EXCEPT !.state = "BID_ERROR"]
                            /\ e.state = "BID_ERROR"
      BY <1>1, ErrorBid
    <2>2. SaveBid("S", e) /\ conf' = conf /\ sent' = sent /\ faults' = faults
      BY <1>3, <2>1 DEF CheckNothingMade
    <2>3. mem'["S"] = e /\ db'["S"] = e
      BY <1>1, <2>2, WriteFacts
    <2>4. SellerRows' /\ ~SellerAt("BID_ACCEPTED")' /\ ~SellerAt("SWAP_INITIATED")'
      BY <2>1, <2>3 DEF SellerRows, SellerAt
    <2>5. BroadcastFacts({})
      BY <1>1, <2>2, QuietFacts
    <2>6. PICK T \in SUBSET Tx : T = {}
      OBVIOUS
    <2> QED BY <1>1, <2>2, <2>4, <2>5, <2>6, SellerPasses
  <1>4. CASE CheckOther("S")
    <2>1. /\ Conclude("S", mem["S"], {}, watch["S"], FALSE) /\ faults' = faults
          /\ mem["S"].state \in {"SWAP_PARTICIPATING", "BID_ERROR"}
      BY <1>4 DEF CheckOther
    <2>2. PICK b \in Bids : b = mem["S"]
      BY <1>1
    <2>3. PICK pub \in SUBSET Tx : pub = {}
      OBVIOUS
    <2>4. Conclude("S", b, pub, watch["S"], FALSE)
      BY <2>1, <2>2, <2>3
    <2>5. /\ \E R \in SUBSET OwnRefund("S") : BroadcastFacts(pub \union R)
          /\ \/ mem'["S"] = NoBid /\ db'["S"].state = "SWAP_COMPLETED"
             \/ /\ mem'["S"].state = b.state
                /\ db'["S"] = mem'["S"] \/ db'["S"] = db["S"]
      BY <1>1, <2>4, ConcludeNet
    <2>6. PICK T \in SUBSET Tx : BroadcastFacts(T) /\ T \subseteq {"itx_refund"}
      <3>1. PICK R \in SUBSET OwnRefund("S") : BroadcastFacts(pub \union R)
        BY <2>5
      <3>2. pub \union R = R /\ R \in SUBSET Tx /\ R \subseteq {"itx_refund"}
        BY <2>3 DEF OwnRefund, Tx
      <3> QED BY <3>1, <3>2
    <2>7. mem["S"] # NoBid
      BY <2>1 DEF NoBid
    <2>8. up["S"]
      BY <1>1, <2>7, NodeFacts
    <2>9. SellerRows' /\ ~SellerAt("BID_ACCEPTED")' /\ ~SellerAt("SWAP_INITIATED")'
      BY <1>1, <2>1, <2>2, <2>5, <2>8 DEF SellerInv, SellerRows, SellerAt, NoBid
    <2> QED BY <1>1, <2>1, <2>6, <2>9, SellerPasses
  <1>5. CASE CheckFails("S")
    <2>1. /\ conf' = conf /\ sent' = sent /\ faults' = faults + 1 /\ faults < MaxFaults
          /\ \/ mem' = mem /\ db' = db
             \/ SaveBid("S", [mem["S"] EXCEPT !.state = "BID_ERROR"])
      BY <1>5 DEF CheckFails, Fault
    <2>2. Slack
      BY <2>1, SellerSlack
    <2>3. CASE mem' = mem /\ db' = db
      <3>1. SellerRows'
        BY <1>1, <1>2, <2>1, <2>3, Times DEF SellerInv, SellerRows
      <3> QED BY <1>1, <2>1, <2>2, <2>3, <3>1, SellerStill DEF SellerAt
    <2>4. CASE SaveBid("S", [mem["S"] EXCEPT !.state = "BID_ERROR"])
      <3>1. PICK e \in Bids : e = [mem["S"] EXCEPT !.state = "BID_ERROR"]
                              /\ e.state = "BID_ERROR"
        BY <1>1, ErrorBid
      <3>2. mem'["S"] = e /\ db'["S"] = e
        BY <1>1, <2>4, <3>1, WriteFacts
      <3>3. SellerRows' /\ ~SellerAt("BID_ACCEPTED")' /\ ~SellerAt("SWAP_INITIATED")'
        BY <3>1, <3>2 DEF SellerRows, SellerAt
      <3> QED BY <1>1, <2>1, <2>2, <3>3, SellerStill
    <2> QED BY <2>1, <2>3, <2>4
  <1>6. CASE mem["S"] = NoBid /\ UNCHANGED <<conf, sent, mem, db, watch, redeems, faults>>
    <2>1. SellerRows'
      BY <1>1, <1>6 DEF SellerInv, SellerRows
    <2>2. ~SellerAt("BID_ACCEPTED")' /\ ~SellerAt("SWAP_INITIATED")'
      <3>1. up["S"]
        BY DEF CheckBidState
      <3> QED BY <1>1, <1>6, <3>1 DEF SellerAt, NoBid
    <2>3. BroadcastFacts({})
      BY <1>1, <1>6, QuietFacts
    <2>4. PICK T \in SUBSET Tx : T = {}
      OBVIOUS
    <2> QED BY <1>1, <1>6, <2>1, <2>2, <2>3, <2>4, SellerPasses
  <1> QED BY <1>1, <1>3, <1>4, <1>5, <1>6, SellerCheckAccepted, SellerCheckInitiated
      DEF CheckBidState

\* A step of the seller that keeps the states it records, and publishes nothing.
LEMMA SellerSame ==
  ASSUME BaseInv, TimelySeller, SellerInv, conf' = conf, sent' = sent, bad' = bad,
         db'["S"].state = db["S"].state, mem'["S"].state = mem["S"].state,
         up'["S"] = up["S"], faults' = faults \/ Fault,
         (Checked("S")' => Checked("S")) \/ Fault
  PROVE  SellerInv' /\ SellerMoves
  <1>1. faults \in Nat /\ faults <= MaxFaults /\ MaxFaults \in Nat
    BY Times DEF BaseInv, TypeOK
  <1>2. faults' \in {faults, faults + 1} /\ (Fault => faults' = faults + 1)
    BY DEF Fault
  <1>3. faults = MaxFaults => faults' = MaxFaults
    BY <1>1 DEF Fault
  <1>4. SellerRows'
    BY <1>3 DEF SellerInv, SellerRows
  <1>5. Slack
    BY <1>2, SellerSlack
  <1> QED BY <1>2, <1>4, <1>5, SellerStill DEF SellerAt

\* A spend or a script that the seller records keeps the state of its bid.
LEMMA SellerSaves ==
  ASSUME BaseInv, TimelySeller, SellerInv, conf' = conf, sent' = sent, bad' = bad,
         NEW b \in Bids, SaveBid("S", b), b.state = mem["S"].state, up["S"],
         UNCHANGED <<up, faults, pc, ran>>
  PROVE  SellerInv' /\ SellerMoves
  <1>2. mem'["S"] = b /\ db'["S"] = b
    BY WriteFacts DEF BaseInv, Nodes
  <1>3. SellerRows'
    BY <1>2 DEF SellerRows
  <1>4. mem["S"].state = "BID_ACCEPTED" => db["S"].state = "BID_ACCEPTED"
    BY NodeFacts DEF Nodes, CopyTrue
  <1>5. /\ SellerAt("BID_ACCEPTED")' => SellerAt("BID_ACCEPTED")
        /\ SellerAt("SWAP_INITIATED")' => SellerAt("SWAP_INITIATED")
    BY <1>2, <1>4 DEF SellerAt, SellerInv, SellerRows
  <1>6. Checked("S")' => Checked("S")
    BY DEF Checked
  <1>7. Slack
    BY <1>6, SellerSlack
  <1> QED BY <1>3, <1>5, <1>7, SellerStill

\* checkWatched of the seller.
LEMMA SellerWatches ==
  ASSUME BaseInv, TimelySeller, SellerInv, CheckWatched("S")
  PROVE  SellerInv' /\ SellerMoves
  <1>1. /\ conf' = conf /\ sent' = sent /\ bad' = bad /\ TypeOK /\ "S" \in Nodes
        /\ up["S"] /\ pc["S"] = "watch" /\ mem["S"] \in Bids
    BY NodeFacts DEF CheckWatched, BaseInv, Nodes
  <1>2. {"TX_REDEEMED", "TX_REFUNDED", "TX_IN_CHAIN"} \subseteq TxStates
    BY DEF TxStates
  <1>3. CASE InitiateTxnSpent("S")
    <2>1. PICK x \in TxStates :
            x = IF conf["itx_redeem"] > 0 THEN "TX_REDEEMED" ELSE "TX_REFUNDED"
      BY <1>2
    <2>2. SaveBid("S", [mem["S"] EXCEPT !.itx = x]) /\ UNCHANGED <<up, faults, pc, ran>>
      BY <1>3, <2>1 DEF InitiateTxnSpent
    <2>3. PICK b \in Bids : b = [mem["S"] EXCEPT !.itx = x] /\ b.state = mem["S"].state
      BY <1>1, <2>1, ItxFields
    <2> QED BY <1>1, <2>2, <2>3, SellerSaves
  <1>4. CASE ParticipateTxnSpent("S")
    <2>1. /\ \/ SaveBid("S", [mem["S"] EXCEPT !.ptx = "TX_REFUNDED"])
             \/ SaveBid("S", [mem["S"] EXCEPT !.ptx = "TX_REDEEMED", !.secret = TRUE])
          /\ UNCHANGED <<up, faults, pc, ran>>
      BY <1>4 DEF ParticipateTxnSpent
    <2>2. PICK b \in Bids : SaveBid("S", b) /\ b.state = mem["S"].state
      <3>1. PICK b1 \in Bids : b1 = [mem["S"] EXCEPT !.ptx = "TX_REFUNDED"]
        BY <1>1, <1>2, PtxFields
      <3>2. PICK b2 \in Bids :
              b2 = [mem["S"] EXCEPT !.ptx = "TX_REDEEMED", !.secret = TRUE]
        BY <1>1, <1>2, PtxFields
      <3>3. b1.state = mem["S"].state
        BY <1>1, <3>1 DEF Bids
      <3>4. b2.state = mem["S"].state
        BY <1>1, <3>2 DEF Bids
      <3> QED BY <2>1, <3>1, <3>2, <3>3, <3>4
    <2> QED BY <1>1, <2>1, <2>2, SellerSaves
  <1>5. CASE ProcessFoundScript("S")
    <2>1. PICK b \in Bids : b = [mem["S"] EXCEPT !.pt = "Known", !.ptx = "TX_IN_CHAIN"]
      BY <1>1, <1>2, PtxFields
    <2>2. SaveBid("S", b) /\ UNCHANGED <<up, faults, pc, ran>>
      BY <1>5, <2>1 DEF ProcessFoundScript
    <2>3. b.state = mem["S"].state
      BY <1>1, <2>1 DEF Bids
    <2> QED BY <1>1, <2>2, <2>3, SellerSaves
  <1>6. CASE /\ StageDone("S") /\ UNCHANGED <<db, mem, watch, redeems, up>>
             /\ faults' = faults \/ Fault
    <2>1. Checked("S")' => Checked("S")
      BY <1>1, <1>6, StagePast
    <2> QED BY <1>1, <1>6, <2>1, SellerSame
  <1> QED BY <1>3, <1>4, <1>5, <1>6 DEF CheckWatched

\* The accept timeout of the seller; it has no redeem queued.
LEMMA SellerQueues ==
  ASSUME BaseInv, TimelySeller, SellerInv, CheckQueuedActions("S")
  PROVE  SellerInv' /\ SellerMoves
  <1>1. /\ bad' = bad /\ up' = up /\ pc["S"] = "queue" /\ StageDone("S") /\ TypeOK
        /\ "S" \in Nodes /\ conf' = conf /\ sent' = sent /\ faults' = faults
    BY DEF CheckQueuedActions, BaseInv, Nodes, CheckAcceptedBids, RedeemITx
  <1>2. Checked("S")' => Checked("S")
    BY <1>1, StagePast
  <1>3. CASE CheckAcceptedBids("S")
    <2>0. db["S"] \in Bids
      BY <1>1 DEF TypeOK
    <2>1. PICK d \in Bids : d = [db["S"] EXCEPT !.state = "SWAP_TIMEDOUT"]
      BY <2>0, StateFields DEF BidStates
    <2>6. d.state = "SWAP_TIMEDOUT"
      BY <2>0, <2>1 DEF Bids
    <2>2. DeactivateBid("S", d)
      BY <1>3, <2>1 DEF CheckAcceptedBids
    <2>3. db'["S"] = d /\ mem'["S"] = NoBid
      BY <1>1, <2>2, WriteFacts
    <2>4. SellerRows' /\ ~SellerAt("BID_ACCEPTED")' /\ ~SellerAt("SWAP_INITIATED")'
      BY <2>3, <2>6 DEF SellerRows, SellerAt, NoBid
    <2>5. Slack
      BY <1>1, <1>2, SellerSlack
    <2> QED BY <1>1, <2>4, <2>5, SellerStill
  <1>4. CASE db' = db /\ mem' = mem
    BY <1>1, <1>2, <1>4, SellerSame
  <1> QED BY <1>3, <1>4 DEF CheckQueuedActions, RedeemITx

\* A crash of the seller is the one fault: its row is what it acts on.
LEMMA SellerCrashes ==
  ASSUME BaseInv, TimelySeller, SellerInv, Crash("S")
  PROVE  SellerInv' /\ SellerMoves
  <1>1. /\ conf' = conf /\ sent' = sent /\ bad' = bad /\ db' = db /\ Fault /\ up["S"]
        /\ LoseMemory("S") /\ TypeOK /\ "S" \in Nodes
    BY DEF Crash, BaseInv, Nodes
  <1>2. faults \in Nat /\ MaxFaults \in Nat /\ faults < MaxFaults /\ faults' = faults + 1
    BY <1>1, Times DEF TypeOK, Fault
  <1>3. mem'["S"] = NoBid /\ up'["S"] = FALSE
    BY <1>1 DEF LoseMemory, TypeOK
  <1>4. SellerRows'
    BY <1>3 DEF SellerRows, NoBid
  <1>5. db["S"].state \in {"BID_ACCEPTED", "SWAP_INITIATED"} =>
          mem["S"].state = db["S"].state
    BY <1>1, <1>2 DEF SellerInv, SellerRows
  <1>6. /\ SellerAt("BID_ACCEPTED")' => SellerAt("BID_ACCEPTED")
        /\ SellerAt("SWAP_INITIATED")' => SellerAt("SWAP_INITIATED")
    BY <1>1, <1>5 DEF SellerAt
  <1>7. Slack
    BY <1>2, SellerSlack
  <1> QED BY <1>1, <1>2, <1>4, <1>6, <1>7, SellerStill

\* A restart of the seller loads that row.
LEMMA SellerRestarts ==
  ASSUME BaseInv, TimelySeller, SellerInv, Restart("S")
  PROVE  SellerInv' /\ SellerMoves
  <1>1. /\ conf' = conf /\ sent' = sent /\ bad' = bad /\ db' = db /\ faults' = faults
        /\ ~up["S"] /\ pc' = pc /\ ran' = ran /\ TypeOK /\ "S" \in Nodes
    BY DEF Restart, BaseInv, Nodes
  <1>2. mem["S"] = NoBid
    BY <1>1, NodeFacts
  <1>3. CASE db["S"].state \in Reloaded
    <2>1. mem'["S"] = db["S"]
      BY <1>1, <1>3 DEF Restart, TypeOK
    <2>2. SellerRows'
      BY <1>1, <2>1 DEF SellerRows
    <2> QED BY <1>1, <2>2, SellerSlack, SellerStill DEF SellerAt, Checked
  <1>4. CASE db["S"].state \notin Reloaded
    <2>1. mem' = mem
      BY <1>4 DEF Restart
    <2>2. SellerRows'
      BY <1>1, <1>2, <1>4, <2>1 DEF SellerRows, NoBid, Reloaded
    <2> QED BY <1>1, <2>2, SellerSlack, SellerStill DEF SellerAt, Checked
  <1> QED BY <1>3, <1>4

\* A block: the seller ran its check since the last one.
LEMMA SellerTick ==
  ASSUME BaseInv, TimelySeller, SellerInv, Tick
  PROVE  SellerInv'
  <1>1. /\ TypeOK /\ LedgerInv /\ OrderInv /\ LedgerInv' /\ BlockFacts
    BY TickSound DEF BaseInv
  <1>2. /\ db' = db /\ mem' = mem /\ up' = up /\ pc' = pc /\ bad' = bad
        /\ faults' = faults /\ sent' = sent /\ ran' = [n \in Nodes |-> 0]
        /\ ran["S"] = 3
    BY <1>1 DEF Tick, TimelySeller, Nodes, BlockFacts
  <1>3. Checked("S") /\ ~Checked("S")'
    <2>1. ran'["S"] = 0
      BY <1>2 DEF Nodes
    <2> QED BY <1>2, <2>1 DEF Checked
  <1>4. Past(Checked("S")) = 1 /\ Past(Checked("S"))' = 0
    BY <1>3 DEF Past
  <1>5. faults \in Nat /\ faults <= MaxFaults /\ MaxFaults <= 1
    BY <1>1, Times DEF TypeOK, TimelySeller
  <1>6. \A t \in {"itx", "ptx", "ptx_redeem"} :
          /\ t \in Tx /\ conf[t] \in Int /\ conf'[t] \in Int
          /\ conf[t] = 0 => conf'[t] = 0
          /\ conf[t] > 0 => conf'[t] > 0 /\ conf'[t] <= conf[t] + 1
    BY <1>1, TxFacts, Times DEF LedgerInv, BlockFacts, Tx
  <1>7. \A t \in {"itx", "ptx"} : conf[t] < 0 => conf'[t] <= 1
    BY <1>1, <1>6 DEF BlockFacts
  <1>8. SellerRows'
    BY <1>2 DEF SellerInv, SellerRows
  <1>9. ASSUME SellerAt("BID_ACCEPTED")
        PROVE  /\ conf'["itx"] <= ConfA + faults
               /\ ITXDeep' => /\ 0 <= faults /\ conf'["ptx"] <= faults
                              /\ conf'["itx_refund"] = 0
    <2>1. /\ conf["itx"] + 1 <= ConfA + faults
          /\ ITXDeep => 1 <= faults /\ conf["ptx"] + 1 <= faults /\ conf["itx_refund"] = 0
      BY <1>4, <1>9 DEF SellerInv, SellerClock
    <2>2. conf'["itx"] <= ConfA + faults
      BY <1>5, <1>6, <1>7, <2>1, Times
    <2>3. CASE ITXDeep
      <3>1. 1 <= faults /\ conf["ptx"] + 1 <= faults /\ conf["itx_refund"] = 0
        BY <2>1, <2>3
      <3>2. conf'["itx_refund"] = 0
        BY <1>1, <3>1 DEF BlockFacts, Tx
      <3>3. conf'["ptx"] <= faults
        BY <1>5, <1>6, <1>7, <3>1
      <3> QED BY <1>5, <2>2, <3>2, <3>3
    <2>4. CASE ~ITXDeep
      <3>1. conf["ptx"] = 0 /\ conf'["ptx"] = 0
        BY <1>1, <1>6, <2>4 DEF OrderInv, LedgerInv
      <3>2. ASSUME ITXDeep' PROVE conf'["itx_refund"] = 0
        <4>1. conf'["itx"] <= LockValue
          BY <1>1, <1>6, TxFacts DEF LedgerInv
        <4>2. ConfA <= LockValue
          BY <1>6, <3>2, <4>1, Times DEF ITXDeep
        <4>3. conf["itx_refund"] = 0
          BY <1>1, <1>6, <2>4, <4>2, Times DEF LedgerInv, ITXDeep
        <4> QED BY <1>1, <4>3 DEF BlockFacts, Tx
      <3> QED BY <1>5, <2>2, <3>1, <3>2
    <2> QED BY <2>3, <2>4
  <1>10. ASSUME SellerAt("SWAP_INITIATED"), "ptx" \notin bad
         PROVE  conf'["ptx"] <= ConfB + faults
    <2>1. conf["ptx"] + 1 <= ConfB + faults
      BY <1>4, <1>10 DEF SellerInv, SellerClock
    <2> QED BY <1>5, <1>6, <1>7, <2>1, Times
  <1>11. ASSUME "ptx_redeem" \in sent
         PROVE  /\ conf'["ptx_redeem"] # 0
                /\ conf'["ptx_redeem"] < 0 =>
                     conf'["ptx"] - conf'["ptx_redeem"] <= ParticipateLock
    <2>1. /\ conf["ptx_redeem"] # 0 /\ conf["ptx"] > 0
          /\ conf["ptx_redeem"] < 0 => conf["ptx"] - conf["ptx_redeem"] <= ParticipateLock
      BY <1>1, <1>11 DEF SellerInv, SellerClock, OrderInv
    <2>2. CASE conf["ptx_redeem"] > 0
      BY <1>6, <2>2
    <2>3. CASE conf["ptx_redeem"] < 0
      <3>1. \/ conf'["ptx_redeem"] = 1
            \/ conf'["ptx_redeem"] < 0 /\ conf'["ptx_redeem"] = conf["ptx_redeem"] + 1
            \/ conf'["ptx_redeem"] = 0 /\ conf["ptx_refund"] < 0
        <4>1. /\ "ptx_redeem" \in Spends /\ Parent["ptx_redeem"] = "ptx"
              /\ Rival["ptx_redeem"] = "ptx_refund"
          BY TxFacts DEF Spends, Rival
        <4> QED BY <1>1, <2>1, <2>3, <4>1 DEF BlockFacts
      <3>2. conf["ptx_refund"] = 0
        <4>1. conf["ptx"] < ParticipateLock
          BY <1>6, <2>1, <2>3, Times
        <4> QED BY <1>1, <1>6, <4>1, Times DEF LedgerInv
      <3> QED BY <1>6, <2>1, <2>3, <3>1, <3>2, Times
    <2> QED BY <1>6, <2>1, <2>2, <2>3
  <1>12. SellerClock'
    <2>1. /\ SellerAt("BID_ACCEPTED")' <=> SellerAt("BID_ACCEPTED")
          /\ SellerAt("SWAP_INITIATED")' <=> SellerAt("SWAP_INITIATED")
      BY <1>2 DEF SellerAt
    <2>2. /\ conf'["itx"] \in Int /\ conf'["ptx"] \in Int
          /\ conf'["itx"] + 0 = conf'["itx"] /\ conf'["ptx"] + 0 = conf'["ptx"]
      BY <1>6
    <2> QED BY <1>2, <1>4, <1>9, <1>10, <1>11, <2>1, <2>2 DEF SellerClock
  <1> QED BY <1>8, <1>12 DEF SellerInv

\* At the start the seller has not accepted the bid.
LEMMA SellerInit ==
  ASSUME Init
  PROVE  SellerInv
  <1>1. BaseInv
    BY BaseInit
  <1>2. /\ conf = [t \in Tx |-> 0] /\ sent = {} /\ faults = 0
        /\ mem["S"] = NoBid
    BY DEF Init, Nodes
  <1>3. db["S"].state = "BID_RECEIVED"
    <2>1. db["S"] = [NoBid EXCEPT !.state = "BID_RECEIVED"]
      BY DEF Init, Nodes
    <2> QED BY <2>1 DEF NoBid
  <1> QED BY <1>2, <1>3 DEF SellerInv, SellerRows, SellerClock, SellerAt, NoBid

\* Neither does a block, nor a step of either engine, get ahead of a timely seller.
LEMMA SellerSteps ==
  ASSUME BaseInv, TimelySeller, SellerInv, Next
  PROVE  SellerInv' /\ (Tick \/ SellerMoves)
  <1>1. CASE Tick
    BY <1>1, SellerTick
  <1>2. CASE AcceptBid
    BY <1>2, SellerAccepts
  <1>3. CASE \/ CheckBidState("S") \/ CheckWatched("S") \/ CheckQueuedActions("S")
             \/ Crash("S") \/ Restart("S")
    BY <1>3, SellerChecks, SellerWatches, SellerQueues, SellerCrashes, SellerRestarts
  <1>4. CASE \/ ProcessBidAccept
             \/ CheckBidState("B") \/ CheckWatched("B") \/ CheckQueuedActions("B")
             \/ Crash("B") \/ Restart("B")
    BY <1>4, BuyerSides, SellerBuyer
  <1> QED BY <1>1, <1>2, <1>3, <1>4 DEF Next, Engine, Nodes

\* Nor does a step that changes nothing.
LEMMA SellerNext ==
  ASSUME BaseInv, TimelySeller, SellerInv, [Next]_vars
  PROVE  SellerInv'
  <1>1. CASE UNCHANGED vars
    BY <1>1 DEF vars, SellerInv, SellerRows, SellerClock, SellerAt, Past, Checked, ITXDeep
  <1> QED BY <1>1, SellerSteps

\* A seller that finishes a round between two blocks acts in time, whatever the
\* buyer does, and if at most one thing fails.
THEOREM SellerHolds == TimelySeller => (Spec => []SellerInv)
  <1>1. SUFFICES ASSUME TimelySeller
                 PROVE  Spec => []SellerInv
    OBVIOUS
  <1>2. Init => SellerInv
    BY SellerInit
  <1>3. BaseInv /\ SellerInv /\ [Next]_vars => SellerInv'
    BY <1>1, SellerNext
  <1> QED BY <1>2, <1>3, BaseHolds, PTL DEF Spec

\* participateTxnConfirmed publishes the secret without looking at what is left
\* of the lock; still the PTX of a timely seller is not refunded after that, and
\* the redeem does not drop out of the pool.
THEOREM SecretHeld ==
  TimelySeller =>
    (Spec => []( /\ SecretNeverRaced
                 /\ "ptx_redeem" \in sent => conf["ptx_redeem"] # 0))
  <1>1. SUFFICES ASSUME TimelySeller
                 PROVE  Spec => []( /\ SecretNeverRaced
                                    /\ "ptx_redeem" \in sent => conf["ptx_redeem"] # 0)
    OBVIOUS
  <1>2. ASSUME BaseInv, SellerInv, "ptx_redeem" \in sent
        PROVE  conf["ptx_redeem"] # 0 /\ conf["ptx_refund"] <= 0
    <2>1. conf["ptx_redeem"] # 0
      BY <1>2 DEF SellerInv, SellerClock
    <2>2. "ptx_redeem" \in Spends /\ Rival["ptx_redeem"] = "ptx_refund"
      BY DEF Spends, Rival
    <2>3. conf[Rival["ptx_redeem"]] <= 0
      BY <1>2, <2>1, <2>2, SpendFacts DEF BaseInv
    <2> QED BY <2>1, <2>2, <2>3
  <1>3. BaseInv /\ SellerInv => /\ SecretNeverRaced
                                /\ "ptx_redeem" \in sent => conf["ptx_redeem"] # 0
    BY <1>2 DEF SecretNeverRaced
  <1>4. Spec => []SellerInv
    BY <1>1, SellerHolds
  <1> QED BY <1>3, <1>4, BaseHolds, PTL

-----------------------------------------------------------------------------
\* The seller keeps its bid until the ITX is spent.

\* The accept timeout leaves a timely seller the time to see its ITX confirmed.
TimelyAccept ==
  /\ TimelySeller
  /\ MineDelay + ConfA + MaxFaults <= AcceptTimeout
  /\ ConfA + MaxFaults <= LockValue

\* What the seller records before its bid times out, if it does.
SellerRecords ==
  /\ db["S"].state \in Live \union {"BID_RECEIVED", "SWAP_COMPLETED"}
  /\ up["S"] /\ db["S"].state = "BID_ACCEPTED" => mem["S"].state = "BID_ACCEPTED"
  /\ mem["S"].ih /\ ~Spent("itx") => "ITX" \in watch["S"]

\* An accepted bid is no older than its ITX.
AgeClock ==
  db["S"].state = "BID_ACCEPTED" =>
    /\ conf["itx"] < 0 => age["S"] <= MineDelay + conf["itx"]
    /\ conf["itx"] > 0 => age["S"] <= MineDelay + conf["itx"] - 1

\* A bid that was accepted stays the accepted one, or becomes another.
StaysAccepted ==
  db'["S"].state = "BID_ACCEPTED" => db["S"].state = "BID_ACCEPTED"

\* The seller writes what it had in memory, or ends the bid.
LEMMA RecordsWritten ==
  ASSUME BaseInv, SellerRecords, ~Spent("itx")' => ~Spent("itx"),
         \/ mem'["S"] = NoBid /\ db'["S"].state \in {"SWAP_COMPLETED", "BID_ERROR"}
         \/ /\ mem'["S"].state \in Live
            /\ mem'["S"].state = "BID_ACCEPTED" => mem["S"].state = "BID_ACCEPTED"
            /\ mem'["S"].ih => mem["S"].ih \/ "ITX" \in watch'["S"]
            /\ "ITX" \in watch["S"] => "ITX" \in watch'["S"] \/ Spent("itx")'
            /\ \/ db'["S"].state = mem'["S"].state
               \/ /\ db'["S"] = db["S"] /\ up["S"]
                  /\ db["S"].state = "BID_ACCEPTED" => mem'["S"].state = "BID_ACCEPTED"
  PROVE  SellerRecords' /\ StaysAccepted
  <1>1. mem["S"].state = "BID_ACCEPTED" => db["S"].state = "BID_ACCEPTED"
    BY NodeFacts DEF Nodes
  <1>2. CASE mem'["S"] = NoBid /\ db'["S"].state \in {"SWAP_COMPLETED", "BID_ERROR"}
    BY <1>2 DEF SellerRecords, StaysAccepted, NoBid, Live
  <1>3. CASE mem'["S"] # NoBid \/ db'["S"].state \notin {"SWAP_COMPLETED", "BID_ERROR"}
    <2>1. SellerRecords'
      BY <1>3 DEF SellerRecords
    <2>2. StaysAccepted
      BY <1>1, <1>3 DEF StaysAccepted
    <2> QED BY <2>1, <2>2
  <1> QED BY <1>2, <1>3

\* checkBidState of the seller.
LEMMA RecordsChecked ==
  ASSUME BaseInv, SellerRecords, ~Spent("itx")' => ~Spent("itx"), CheckBidState("S")
  PROVE  SellerRecords' /\ StaysAccepted
  <1>1. up["S"] /\ TypeOK
    BY DEF CheckBidState, BaseInv
  <1>2. /\ mem["S"] \in Bids /\ watch["S"] \in WatchSets
        /\ mem["S"] # NoBid <=> mem["S"].state \in Live
        /\ mem["S"].state = "BID_ACCEPTED" => db["S"].state = "BID_ACCEPTED"
    BY NodeFacts DEF Nodes
  <1>3. ASSUME mem'["S"] = mem["S"], db'["S"] = db["S"], watch'["S"] = watch["S"]
        PROVE  SellerRecords' /\ StaysAccepted
    <2>1. up' = up
      BY DEF CheckBidState
    <2> QED BY <1>3, <2>1 DEF SellerRecords, StaysAccepted
  <1>4. ASSUME SaveBid("S", [mem["S"] EXCEPT !.state = "BID_ERROR"]), watch' = watch
        PROVE  SellerRecords' /\ StaysAccepted
    <2>1. PICK e \in Bids : e = [mem["S"] EXCEPT !.state = "BID_ERROR"]
      BY <1>2, ErrorBid
    <2>2. e.ih = mem["S"].ih /\ e.state = "BID_ERROR"
      BY <1>2, <2>1, StateFields DEF BidStates
    <2>3. mem'["S"] = e /\ db'["S"] = e
      BY <1>1, <1>4, <2>1, WriteFacts DEF Nodes
    <2>4. mem'["S"].state \in Live
      BY <2>2, <2>3 DEF Live
    <2> QED BY <1>4, <2>2, <2>3, <2>4, RecordsWritten
  <1>5. ASSUME NEW b \in Bids, NEW w \in WatchSets, NEW pub \in SUBSET Tx,
               Conclude("S", b, pub, w, TRUE)
                 \/ (Conclude("S", b, pub, w, FALSE)
                       /\ (db["S"].state = "BID_ACCEPTED" => b.state = "BID_ACCEPTED")),
               b.state \in Live, b.state # "BID_ACCEPTED", b.ih => mem["S"].ih,
               "ITX" \in watch["S"] => "ITX" \in w
        PROVE  SellerRecords' /\ StaysAccepted
    <2>1. \/ /\ mem'["S"] = NoBid /\ db'["S"].state = "SWAP_COMPLETED"
          \/ /\ mem'["S"].state = b.state /\ watch'["S"] = w
             /\ mem'["S"].ih => b.ih
             /\ db'["S"] = mem'["S"]
                \/ (db'["S"] = db["S"] /\ db["S"].state # "BID_ACCEPTED")
      <3>1. /\ "S" \in Nodes
            /\ Conclude("S", b, pub, w, TRUE) \/ Conclude("S", b, pub, w, FALSE)
        BY <1>5 DEF Nodes
      <3>2. \/ mem'["S"] = NoBid /\ db'["S"].state = "SWAP_COMPLETED"
            \/ /\ mem'["S"].state = b.state
               /\ db'["S"] = mem'["S"] \/ db'["S"] = db["S"]
        BY <3>1, ConcludeNet
      <3>3. mem'["S"] = NoBid \/ watch'["S"] = w
        BY <3>1, ConcludeNet
      <3>4. mem'["S"] = NoBid \/ (mem'["S"].ih => b.ih)
        BY <3>1, ConcludeNet
      <3>5. Conclude("S", b, pub, w, TRUE) =>
              mem'["S"] = NoBid \/ db'["S"] = mem'["S"]
        BY <3>1, ConcludeNet
      <3>6. NoBid.state \notin Live
        BY DEF NoBid, Live
      <3>7. CASE Conclude("S", b, pub, w, TRUE)
        BY <1>5, <3>2, <3>3, <3>4, <3>5, <3>6, <3>7
      <3>8. CASE db["S"].state = "BID_ACCEPTED" => b.state = "BID_ACCEPTED"
        BY <1>5, <3>2, <3>3, <3>4, <3>6, <3>8
      <3> QED BY <1>5, <3>7, <3>8
    <2> QED BY <1>1, <1>5, <2>1, RecordsWritten
  <1>6. CASE CheckAccepted("S")
    <2>1. /\ mem["S"].state = "BID_ACCEPTED"
          /\ \/ AcceptedWaits("S") \/ AcceptedWrong("S") \/ AcceptedSeen("S")
             \/ AcceptedInitiates("S")
      BY <1>6, AcceptedCases DEF Nodes, AcceptedAnswers, AcceptedFails
    <2>2. CASE AcceptedWaits("S")
      BY <1>3, <2>2 DEF AcceptedWaits
    <2>3. CASE AcceptedWrong("S")
      <3>1. PICK e \in Bids : e = [mem["S"] EXCEPT !.state = "BID_ERROR"]
                              /\ e.state = "BID_ERROR"
        BY <1>2, ErrorBid
      <3>2. mem'["S"] = NoBid /\ db'["S"].state = "BID_ERROR"
        BY <2>3, <3>1 DEF AcceptedWrong
      <3> QED BY <3>2, RecordsWritten
    <2>4. CASE AcceptedSeen("S")
      <3>1. PICK b \in Bids : b = ItxSeen(mem["S"])
        BY <1>2, ItxSeenFields
      <3>2. b.state = "BID_ACCEPTED"
        BY <1>2, <2>1, <3>1, ItxSeenFields
      <3>3. mem'["S"] = b /\ db'["S"] = b /\ "ITX" \in watch'["S"]
        BY <2>4, <3>1 DEF AcceptedSeen
      <3>4. mem'["S"].state \in Live
        BY <3>2, <3>3 DEF Live
      <3> QED BY <2>1, <3>2, <3>3, <3>4, RecordsWritten
    <2>5. CASE AcceptedInitiates("S")
      <3>1. PICK b \in Bids : b = Initiated("S", ItxSeen(mem["S"]))
        BY <1>2, InitiatedFields DEF Nodes
      <3>2. b.state = "SWAP_INITIATED"
        BY <1>2, <3>1, InitiatedFields DEF Nodes
      <3>3. mem'["S"] = b /\ db'["S"] = b /\ "ITX" \in watch'["S"]
        BY <2>5, <3>1 DEF AcceptedInitiates, InitiatedWatch
      <3>4. mem'["S"].state \in Live
        BY <3>2, <3>3 DEF Live
      <3> QED BY <3>2, <3>3, <3>4, RecordsWritten
    <2> QED BY <2>1, <2>2, <2>3, <2>4, <2>5
  <1>7. db["S"].state = "BID_ACCEPTED" => mem["S"].state = "BID_ACCEPTED"
    BY <1>1 DEF SellerRecords
  <1>8. CASE CheckOther("S")
    <2>1. /\ mem["S"].state \in {"SWAP_PARTICIPATING", "BID_ERROR"}
          /\ Conclude("S", mem["S"], {}, watch["S"], FALSE)
      BY <1>8 DEF CheckOther
    <2>2. /\ mem["S"].state \in Live /\ mem["S"].state # "BID_ACCEPTED"
          /\ {} \in SUBSET Tx
      BY <2>1 DEF Live
    <2>3. db["S"].state # "BID_ACCEPTED"
      BY <1>7, <2>2
    <2>4. PICK b \in Bids : b = mem["S"]
      BY <1>2
    <2>5. Conclude("S", b, {}, watch["S"], FALSE)
      BY <2>1, <2>4
    <2> QED BY <1>2, <1>5, <2>2, <2>3, <2>4, <2>5
  <1>9. CASE CheckInitiated("S")
    <2>1. /\ mem["S"].state = "SWAP_INITIATED"
          /\ \/ InitiatedWaits("S") \/ InitiatedSees("S") \/ InitiatedTakes("S")
             \/ InitiatedFails("S")
      BY <1>9, InitiatedCases DEF Nodes, InitiatedFollows
    <2>2. PICK w \in WatchSets : /\ w = PtxWatch("S")
                                 /\ "ITX" \in watch["S"] => "ITX" \in w
      BY <1>2 DEF PtxWatch, WatchSets
    <2>3. PICK s \in Bids : s = PtxSeen(mem["S"])
      BY <1>2, PtxSeenFields
    <2>4. s.state = "SWAP_INITIATED" /\ s.ih = mem["S"].ih
      BY <1>2, <2>1, <2>3, PtxSeenFields
    <2>5. PICK c \in Bids : c = PtxConfirmed(mem["S"])
      BY <1>2, PtxConfirmedFields
    <2>6. c.state = "SWAP_PARTICIPATING" /\ c.ih = mem["S"].ih
      BY <1>2, <2>5, PtxConfirmedFields
    <2>7. /\ {"SWAP_INITIATED", "SWAP_PARTICIPATING"} \subseteq Live
          /\ {} \in SUBSET Tx /\ {"ptx_redeem"} \in SUBSET Tx
      BY DEF Live, Tx
    <2>8. db["S"].state # "BID_ACCEPTED"
      BY <1>7, <2>1
    <2>9. CASE InitiatedWaits("S")
      BY <1>2, <1>5, <2>1, <2>7, <2>8, <2>9 DEF InitiatedWaits
    <2>10. CASE InitiatedSees("S")
      <3>1. Conclude("S", s, {}, w, TRUE) \/ Conclude("S", s, {}, w, FALSE)
        BY <2>2, <2>3, <2>10 DEF InitiatedSees
      <3> QED BY <1>5, <2>2, <2>4, <2>7, <2>8, <3>1
    <2>11. CASE InitiatedTakes("S")
      <3>1. Conclude("S", c, {"ptx_redeem"}, w, TRUE)
        BY <2>2, <2>5, <2>11 DEF InitiatedTakes
      <3> QED BY <1>5, <2>2, <2>6, <2>7, <3>1
    <2>12. CASE InitiatedFails("S")
      <3>1. PICK e \in Bids : e = [c EXCEPT !.state = "BID_ERROR"]
        BY ErrorBid
      <3>2. e.state = "BID_ERROR" /\ e.ih = c.ih
        BY <3>1, StateFields DEF BidStates
      <3>3. /\ \/ mem'["S"] = c /\ db'["S"] = db["S"]
               \/ mem'["S"] = e /\ db'["S"] = e
            /\ watch'["S"] = w
        BY <1>1, <2>2, <2>5, <2>12, <3>1, WriteFacts DEF InitiatedFails, Nodes
      <3>4. "BID_ERROR" \in Live
        BY DEF Live
      <3> QED BY <1>1, <2>2, <2>6, <2>7, <2>8, <3>2, <3>3, <3>4, RecordsWritten
    <2> QED BY <2>1, <2>9, <2>10, <2>11, <2>12
  <1>10. CASE CheckNothingMade("S") \/ CheckFails("S")
    BY <1>3, <1>4, <1>10 DEF CheckNothingMade, CheckFails
  <1>11. CASE UNCHANGED <<mem, db, watch>>
    BY <1>3, <1>11
  <1> QED BY <1>6, <1>8, <1>9, <1>10, <1>11 DEF CheckBidState

\* The seller saves its bid with the end of a lock in it.
LEMMA RecordsSaved ==
  ASSUME BaseInv, SellerRecords, conf' = conf, NEW b \in Bids, SaveBid("S", b),
         b.state = mem["S"].state, b.ih => mem["S"].ih, mem["S"] # NoBid,
         "ITX" \in watch["S"] => "ITX" \in watch'["S"] \/ Spent("itx")
  PROVE  SellerRecords' /\ StaysAccepted
  <1>1. mem'["S"] = b /\ db'["S"] = b
    BY WriteFacts DEF BaseInv, Nodes
  <1>2. mem["S"].state \in Live
    BY NodeFacts DEF Nodes
  <1>3. Spent("itx")' <=> Spent("itx")
    BY DEF Spent
  <1>4. mem'["S"].ih => mem["S"].ih
    BY <1>1
  <1> QED BY <1>1, <1>2, <1>3, <1>4, RecordsWritten

\* The seller's bid stays as it is.
LEMMA RecordsSame ==
  ASSUME SellerRecords, Spent("itx") => Spent("itx")', up'["S"] = up["S"],
         mem'["S"] = mem["S"], db'["S"] = db["S"], watch'["S"] = watch["S"]
  PROVE  SellerRecords' /\ StaysAccepted
  BY DEF SellerRecords, StaysAccepted

\* checkWatched of the seller.
LEMMA RecordsWatched ==
  ASSUME BaseInv, SellerRecords, CheckWatched("S")
  PROVE  SellerRecords' /\ StaysAccepted
  <1>1. /\ conf' = conf /\ TypeOK /\ "S" \in Nodes
        /\ mem["S"] \in Bids /\ watch["S"] \in WatchSets
        /\ CopyTrue("S", db["S"], mem["S"], watch["S"])
    BY NodeFacts DEF CheckWatched, BaseInv, Nodes
  <1>2. watch["S"] # {} => mem["S"] # NoBid
    BY <1>1 DEF CopyTrue
  <1>3. {"TX_REDEEMED", "TX_REFUNDED", "TX_IN_CHAIN"} \subseteq TxStates
    BY DEF TxStates
  <1>4. watch \in [Nodes -> WatchSets]
    BY <1>1 DEF TypeOK, WatchSets
  <1>5. CASE InitiateTxnSpent("S")
    <2>1. PICK x \in TxStates :
            x = IF conf["itx_redeem"] > 0 THEN "TX_REDEEMED" ELSE "TX_REFUNDED"
      BY <1>3
    <2>2. PICK b \in Bids : b = [mem["S"] EXCEPT !.itx = x]
      BY <1>1, ItxFields
    <2>3. SaveBid("S", b) /\ Spent("itx") /\ "ITX" \in watch["S"]
      BY <1>5, <2>1, <2>2 DEF InitiateTxnSpent
    <2>4. b.state = mem["S"].state
      BY <1>1, <2>2, ItxFields
    <2>5. b.ih => mem["S"].ih
      BY <1>1, <2>2 DEF Bids
    <2> QED BY <1>1, <1>2, <2>3, <2>4, <2>5, RecordsSaved
  <1>6. CASE ParticipateTxnSpent("S")
    <2>1. "ITX" \in watch["S"] => "ITX" \in watch'["S"]
      BY <1>1, <1>4, <1>6 DEF ParticipateTxnSpent
    <2>2. /\ \/ SaveBid("S", [mem["S"] EXCEPT !.ptx = "TX_REFUNDED"])
             \/ SaveBid("S", [mem["S"] EXCEPT !.ptx = "TX_REDEEMED", !.secret = TRUE])
          /\ watch["S"] # {}
      BY <1>6 DEF ParticipateTxnSpent
    <2>3. PICK b1 \in Bids : b1 = [mem["S"] EXCEPT !.ptx = "TX_REFUNDED"]
      BY <1>1, <1>3, PtxFields
    <2>4. PICK b2 \in Bids :
            b2 = [mem["S"] EXCEPT !.ptx = "TX_REDEEMED", !.secret = TRUE]
      BY <1>1, <1>3, PtxFields
    <2>5. b1.state = mem["S"].state /\ b2.state = mem["S"].state
      BY <1>1, <2>3, <2>4 DEF Bids
    <2>6. b1.ih => mem["S"].ih
      BY <1>1, <2>3 DEF Bids
    <2>7. b2.ih => mem["S"].ih
      BY <1>1, <2>4 DEF Bids
    <2>8. CASE SaveBid("S", b1)
      BY <1>1, <1>2, <2>1, <2>2, <2>5, <2>6, <2>8, RecordsSaved
    <2>9. CASE SaveBid("S", b2)
      BY <1>1, <1>2, <2>1, <2>2, <2>5, <2>7, <2>9, RecordsSaved
    <2> QED BY <2>2, <2>3, <2>4, <2>8, <2>9
  <1>7. CASE ProcessFoundScript("S")
    <2>1. "ITX" \in watch["S"] => "ITX" \in watch'["S"]
      BY <1>1, <1>4, <1>7 DEF ProcessFoundScript
    <2>2. PICK b \in Bids : b = [mem["S"] EXCEPT !.pt = "Known", !.ptx = "TX_IN_CHAIN"]
      BY <1>1, <1>3, PtxFields
    <2>3. SaveBid("S", b) /\ watch["S"] # {}
      BY <1>7, <2>2 DEF ProcessFoundScript
    <2>4. b.state = mem["S"].state
      BY <1>1, <2>2 DEF Bids
    <2>5. b.ih => mem["S"].ih
      BY <1>1, <2>2 DEF Bids
    <2> QED BY <1>1, <1>2, <2>1, <2>3, <2>4, <2>5, RecordsSaved
  <1>8. CASE UNCHANGED <<db, mem, watch, redeems, up>>
    <2>1. Spent("itx") => Spent("itx")'
      BY <1>1 DEF Spent
    <2> QED BY <1>8, <2>1, RecordsSame
  <1> QED BY <1>5, <1>6, <1>7, <1>8 DEF CheckWatched

\* The bid of a timely seller does not time out.
LEMMA NoTimeout ==
  ASSUME BaseInv, TimelyAccept, SellerInv, SellerRecords, AgeClock,
         db["S"].state = "BID_ACCEPTED"
  PROVE  /\ age["S"] < AcceptTimeout /\ conf["itx"] + Past(Checked("S")) <= LockValue
         /\ conf["itx"] \in Int /\ conf["itx"] # 0 /\ age["S"] \in Nat
  <1>1. TypeOK /\ LedgerInv /\ OrderInv
    BY DEF BaseInv
  <1>2. conf["itx"] \in Int /\ conf["itx"] # 0
    BY <1>1 DEF LedgerInv, OrderInv, Tx
  <1>3. age["S"] \in Nat /\ faults \in Nat /\ faults <= MaxFaults /\ MaxFaults \in Nat
    BY <1>1, Times DEF TypeOK, Nodes
  <1>4. SellerAt("BID_ACCEPTED")
    BY DEF SellerRecords, SellerAt
  <1>5. PICK c \in {0, 1} : c = Past(Checked("S"))
    BY DEF Past
  <1>6. conf["itx"] + c <= ConfA + faults
    BY <1>4, <1>5 DEF SellerInv, SellerClock
  <1>7. /\ conf["itx"] < 0 => age["S"] <= MineDelay + conf["itx"]
        /\ conf["itx"] > 0 => age["S"] <= MineDelay + conf["itx"] - 1
    BY DEF AgeClock
  <1>8. conf["itx"] + c <= LockValue
    BY <1>2, <1>3, <1>5, <1>6, Times DEF TimelyAccept
  <1>9. age["S"] < AcceptTimeout
    <2>1. CASE conf["itx"] < 0
      BY <1>2, <1>3, <1>7, <2>1, Times DEF TimelyAccept
    <2>2. CASE conf["itx"] > 0
      BY <1>2, <1>3, <1>5, <1>6, <1>7, <2>2, Times DEF TimelyAccept
    <2> QED BY <1>2, <2>1, <2>2
  <1> QED BY <1>2, <1>3, <1>5, <1>8, <1>9

\* The invariant of a timely seller's records.
SellerKeeps == SellerRecords /\ AgeClock

\* An accepted bid gets older in a block only.
LEMMA AgeKept ==
  ASSUME BaseInv, AgeClock, StaysAccepted, age'["S"] = age["S"],
         NEW T \in SUBSET Tx, BroadcastFacts(T)
  PROVE  AgeClock'
  <1>1. LedgerInv /\ OrderInv
    BY DEF BaseInv
  <1>2. SUFFICES ASSUME db'["S"].state = "BID_ACCEPTED"
                 PROVE  /\ conf'["itx"] < 0 => age'["S"] <= MineDelay + conf'["itx"]
                        /\ conf'["itx"] > 0 => age'["S"] <= MineDelay + conf'["itx"] - 1
    BY DEF AgeClock
  <1>3. db["S"].state = "BID_ACCEPTED"
    BY <1>2 DEF StaysAccepted
  <1>4. conf["itx"] # 0
    BY <1>1, <1>3 DEF LedgerInv, OrderInv, Tx
  <1>5. conf'["itx"] = conf["itx"]
    BY <1>4 DEF BroadcastFacts, Tx
  <1> QED BY <1>3, <1>5 DEF AgeClock

\* The accept timeout finds nothing to archive.
LEMMA RecordsQueued ==
  ASSUME BaseInv, TimelyAccept, SellerInv, SellerKeeps, CheckQueuedActions("S")
  PROVE  SellerRecords' /\ StaysAccepted
  <1>1. ~CheckAcceptedBids("S")
    <2>1. SUFFICES ASSUME db["S"].state = "BID_ACCEPTED", age["S"] = AcceptTimeout
                   PROVE  FALSE
      BY DEF CheckAcceptedBids
    <2>2. age["S"] < AcceptTimeout /\ age["S"] \in Nat
      BY <2>1, NoTimeout DEF SellerKeeps
    <2> QED BY <2>1, <2>2
  <1>2. UNCHANGED <<conf, db, mem, watch, up>>
    BY <1>1 DEF CheckQueuedActions, RedeemITx
  <1>3. Spent("itx") => Spent("itx")'
    BY <1>2 DEF Spent
  <1> QED BY <1>2, <1>3, RecordsSame DEF SellerKeeps

\* A crash of the seller loses what is not in the row.
LEMMA RecordsCrashed ==
  ASSUME BaseInv, SellerRecords, Crash("S")
  PROVE  SellerRecords' /\ StaysAccepted
  <1>1. LoseMemory("S") /\ db' = db /\ TypeOK
    BY DEF Crash, BaseInv
  <1>2. mem'["S"] = NoBid /\ up'["S"] = FALSE
    BY <1>1 DEF LoseMemory, TypeOK, Nodes
  <1> QED BY <1>1, <1>2 DEF SellerRecords, StaysAccepted, NoBid

\* A restart of the seller loads that row and watches the ITX.
LEMMA RecordsRestarted ==
  ASSUME BaseInv, SellerRecords, Restart("S")
  PROVE  SellerRecords' /\ StaysAccepted
  <1>1. db' = db /\ TypeOK /\ ~up["S"] /\ "S" \in Nodes
    BY DEF Restart, BaseInv, Nodes
  <1>2. mem["S"] = NoBid
    BY <1>1, NodeFacts
  <1>3. CASE db["S"].state \in Reloaded
    <2>1. mem'["S"] = db["S"] /\ "ITX" \in watch'["S"]
      BY <1>1, <1>3 DEF Restart, TypeOK
    <2> QED BY <1>1, <2>1 DEF SellerRecords, StaysAccepted
  <1>4. CASE db["S"].state \notin Reloaded
    <2>1. mem'["S"] = NoBid
      BY <1>2, <1>4 DEF Restart
    <2> QED BY <1>1, <1>4, <2>1 DEF SellerRecords, StaysAccepted, NoBid, Reloaded
  <1> QED BY <1>3, <1>4

\* acceptBid starts the clock, and the ITX is in the pool.
LEMMA RecordsAccepted ==
  ASSUME BaseInv, SellerKeeps, AcceptBid
  PROVE  SellerKeeps'
  <1>1. TypeOK /\ LedgerInv /\ OrderInv /\ "S" \in Nodes /\ "itx" \in Tx
    BY DEF BaseInv, Nodes, Tx
  <1>2. PICK b \in Bids : b = [NoBid EXCEPT !.state = "BID_ACCEPTED", !.itx = "TX_SENT"]
    BY DEF NoBid, Bids, BidStates, TxStates
  <1>3. b.state = "BID_ACCEPTED" /\ ~b.ih
    BY <1>2 DEF NoBid
  <1>4. SaveBid("S", b) /\ Broadcast({"itx"}) /\ age' = [age EXCEPT !["S"] = 0]
    BY <1>2 DEF AcceptBid, SendBidAccept
  <1>5. mem'["S"] = b /\ db'["S"] = b
    BY <1>1, <1>4, WriteFacts
  <1>6. SellerRecords'
    BY <1>3, <1>5 DEF SellerRecords, Live
  <1>7. PICK T \in SUBSET Tx : T = {"itx"}
    BY <1>1
  <1>8. BroadcastFacts(T)
    BY <1>1, <1>4, <1>7, BroadcastLedger
  <1>9. conf["itx"] = 0
    BY <1>1 DEF AcceptBid, OrderInv, LedgerInv
  <1>10. conf'["itx"] = -MineDelay
    BY <1>1, <1>7, <1>8, <1>9 DEF BroadcastFacts
  <1>11. age'["S"] = 0
    BY <1>1, <1>4 DEF TypeOK
  <1>12. AgeClock'
    BY <1>10, <1>11, Times DEF AgeClock
  <1> QED BY <1>6, <1>12 DEF SellerKeeps

\* A block: the bid gets older, and so does its ITX.
LEMMA RecordsTick ==
  ASSUME BaseInv, TimelyAccept, SellerInv, SellerKeeps, Tick
  PROVE  SellerKeeps'
  <1>1. TypeOK /\ LedgerInv /\ BlockFacts /\ "S" \in Nodes
    BY TickSound DEF BaseInv, Nodes
  <1>2. db' = db /\ mem' = mem /\ watch' = watch /\ up' = up
    BY DEF Tick
  <1>3. ASSUME NEW t \in Tx, conf[t] > 0
        PROVE  conf'[t] > 0
    BY <1>1, <1>3 DEF BlockFacts, LedgerInv
  <1>4. Spent("itx") => Spent("itx")'
    BY <1>3 DEF Spent
  <1>5. SellerRecords' /\ StaysAccepted
    BY <1>2, <1>4, RecordsSame DEF SellerKeeps
  <1>6. ASSUME db["S"].state = "BID_ACCEPTED"
        PROVE  /\ conf'["itx"] < 0 => age'["S"] <= MineDelay + conf'["itx"]
               /\ conf'["itx"] > 0 => age'["S"] <= MineDelay + conf'["itx"] - 1
    <2>1. /\ age["S"] < AcceptTimeout /\ conf["itx"] + Past(Checked("S")) <= LockValue
          /\ conf["itx"] \in Int /\ conf["itx"] # 0 /\ age["S"] \in Nat
      BY <1>6, NoTimeout DEF SellerKeeps
    <2>2. Past(Checked("S")) = 1
      BY DEF Tick, TimelyAccept, TimelySeller, Nodes, Past, Checked
    <2>3. age'["S"] = age["S"] + 1
      BY <1>1, <1>6, <2>1 DEF Tick
    <2>4. /\ conf["itx"] < 0 => age["S"] <= MineDelay + conf["itx"]
          /\ conf["itx"] > 0 => age["S"] <= MineDelay + conf["itx"] - 1
      BY <1>6 DEF SellerKeeps, AgeClock
    <2>5. CASE conf["itx"] < 0
      <3>1. conf'["itx"] = 1 \/ (conf'["itx"] < 0 /\ conf'["itx"] = conf["itx"] + 1)
        BY <1>1, <2>5 DEF BlockFacts
      <3> QED BY <2>1, <2>3, <2>4, <2>5, <3>1, Times
    <2>6. CASE conf["itx"] > 0
      <3>1. conf["itx"] < Cap["itx"]
        BY <2>1, <2>2, TxFacts, Times
      <3>2. conf'["itx"] = conf["itx"] + 1
        BY <1>1, <2>6, <3>1 DEF BlockFacts, Tx
      <3> QED BY <2>1, <2>3, <2>4, <2>6, <3>2, Times
    <2> QED BY <2>1, <2>5, <2>6
  <1>7. AgeClock'
    BY <1>2, <1>6 DEF AgeClock
  <1> QED BY <1>5, <1>7 DEF SellerKeeps

\* No step makes a timely seller lose its bid.
LEMMA RecordsSteps ==
  ASSUME BaseInv, TimelyAccept, SellerInv, SellerKeeps, Next
  PROVE  SellerKeeps'
  <1>1. CASE Tick
    BY <1>1, RecordsTick
  <1>2. CASE AcceptBid
    BY <1>2, RecordsAccepted
  <1>3. TypeOK /\ LedgerInv /\ "S" \in Nodes /\ "B" \in Nodes /\ "S" # "B"
    BY DEF BaseInv, Nodes
  <1>4. ASSUME Frame("B") \/ (Frame("S") /\ SellerRecords' /\ StaysAccepted),
               age'["S"] = age["S"], NEW n \in Nodes, Aside(n)
        PROVE  SellerKeeps'
    <2>1. SellerRecords' /\ StaysAccepted
      <3>1. CASE Frame("B")
        <4>1. Spent("itx") => Spent("itx")'
          BY <3>1 DEF Frame, Spent
        <4> QED BY <1>3, <3>1, <4>1, RecordsSame DEF Frame, Others, SellerKeeps
      <3> QED BY <1>4, <3>1
    <2>2. PICK T \in SUBSET Tx : BroadcastFacts(T)
      BY <1>4, PubFacts DEF Aside
    <2> QED BY <1>4, <2>1, <2>2, AgeKept DEF SellerKeeps
  <1>5. CASE \/ CheckBidState("S") \/ CheckWatched("S") \/ CheckQueuedActions("S")
             \/ Crash("S") \/ Restart("S")
    <2>1. Frame("S") /\ Aside("S")
      BY <1>5, SellerSides
    <2>2. age' = age
      BY <1>5 DEF CheckBidState, CheckWatched, CheckQueuedActions, Crash, Restart
    <2>3. ~Spent("itx")' => ~Spent("itx")
      BY <2>1 DEF Frame, Spent
    <2>4. SellerRecords' /\ StaysAccepted
      BY <1>5, <2>3, RecordsChecked, RecordsWatched, RecordsQueued, RecordsCrashed,
         RecordsRestarted DEF SellerKeeps
    <2> QED BY <1>3, <1>4, <2>1, <2>2, <2>4
  <1>6. CASE \/ ProcessBidAccept
             \/ CheckBidState("B") \/ CheckWatched("B") \/ CheckQueuedActions("B")
             \/ Crash("B") \/ Restart("B")
    <2>1. Frame("B") /\ Aside("B")
      BY <1>6, BuyerSides
    <2>2. age'["S"] = age["S"]
      BY <1>3, <1>6 DEF ProcessBidAccept, TypeOK, CheckBidState, CheckWatched,
         CheckQueuedActions, Crash, Restart
    <2> QED BY <1>3, <1>4, <2>1, <2>2
  <1> QED BY <1>1, <1>2, <1>5, <1>6 DEF Next, Engine, Nodes

\* A timely seller whose accept timeout leaves it the time to see the ITX confirmed
\* keeps its bid in progress, and watches the ITX, until that is spent.
THEOREM SellerTracks == TimelyAccept => (Spec => []SellerTracksITX)
  <1>1. SUFFICES ASSUME TimelyAccept
                 PROVE  Spec => []SellerTracksITX
    OBVIOUS
  <1>2. TimelySeller
    BY <1>1 DEF TimelyAccept
  <1>3. Init => SellerKeeps
    <2>1. SUFFICES ASSUME Init
                   PROVE  SellerKeeps
      OBVIOUS
    <2>2. db["S"] = [NoBid EXCEPT !.state = "BID_RECEIVED"] /\ mem["S"] = NoBid
      BY <2>1 DEF Init, Nodes
    <2>3. db["S"].state = "BID_RECEIVED" /\ ~mem["S"].ih
      BY <2>2 DEF NoBid
    <2> QED BY <2>3 DEF SellerKeeps, SellerRecords, AgeClock
  <1>4. BaseInv /\ SellerInv /\ SellerKeeps /\ [Next]_vars => SellerKeeps'
    <2>1. ASSUME SellerKeeps, UNCHANGED vars
          PROVE  SellerKeeps'
      BY <2>1 DEF vars, SellerKeeps, SellerRecords, AgeClock, Spent
    <2> QED BY <1>1, <2>1, RecordsSteps
  <1>5. ASSUME BaseInv, SellerKeeps
        PROVE  SellerTracksITX
    <2>1. SUFFICES ASSUME up["S"], "itx" \in sent, ~Spent("itx"),
                          db["S"].state # "BID_ERROR"
                   PROVE  mem["S"] # NoBid /\ (mem["S"].ih => "ITX" \in watch["S"])
      BY DEF SellerTracksITX
    <2>2. LedgerInv /\ OrderInv /\ RowTrue("S", db["S"])
      BY <1>5 DEF BaseInv, NodeInv, Nodes
    <2>3. db["S"].state # "SWAP_COMPLETED"
      BY <2>1, <2>2, SpentFacts DEF RowTrue, AllSpent, Ended
    <2>4. db["S"].state # "BID_RECEIVED"
      BY <2>1, <2>2 DEF OrderInv
    <2>5. db["S"].state \in Reloaded
      BY <1>5, <2>1, <2>3, <2>4 DEF SellerKeeps, SellerRecords, Live, Reloaded
    <2>6. mem["S"] # NoBid
      BY <1>5, <2>1, <2>5, NodeFacts DEF CopyTrue, Nodes
    <2> QED BY <1>5, <2>1, <2>6 DEF SellerKeeps, SellerRecords
  <1>6. BaseInv /\ SellerKeeps => SellerTracksITX
    BY <1>5
  <1>7. Spec => []SellerInv
    BY <1>2, SellerHolds
  <1> QED BY <1>3, <1>4, <1>6, <1>7, BaseHolds, PTL DEF Spec

-----------------------------------------------------------------------------
\* Time, for the buyer.

\* The latest block, counted from that of the ITX, in which the PTX is made.
PtxBy == IF BidValid > ConfA THEN BidValid ELSE ConfA

\* How deep the PTX gets, at the latest, before its redeem or its refund is out.
Reveal == IF "S" \in Late THEN ParticipateLock ELSE ConfB

\* The latest block in which the PTX is in a block.
MinedBy == PtxBy + MineDelay - 1

\* The latest block in which the PTX is redeemed.
RedeemedBy == MinedBy + Reveal + MineDelay

\* The buyer finishes a round between two blocks, at most one thing fails, and
\* the initiate lock has room for all that comes before the buyer's redeem is
\* mined.
TimelyBuyer ==
  /\ "B" \notin Late /\ MaxFaults <= 1
  /\ "S" \notin Late => TimelySeller
  /\ RedeemedBy + MaxFaults + 1 + MineDelay <= LockValue

\* The buyer acts on an accepted bid, or will after a restart.
BuyerAt(s) == (up["B"] => mem["B"].state = s) /\ (~up["B"] => db["B"].state = s)

\* The buyer has the PTX to watch and to refund.
Tracking == "ptx" \in sent /\ conf["ptx_refund"] <= 0 /\ ~db["B"].secret

\* The states of a bid that follows the PTX.
Following == {"SWAP_INITIATED", "SWAP_PARTICIPATING"}

\* How a PTX that was sent and not spent is recorded.
Unspent == {"TX_SENT", "TX_CONFIRMED"}

\* A buyer that runs follows the PTX; its row does while a crash may come.
TrackingRows ==
  /\ up["B"] => /\ mem["B"] # NoBid
                /\ mem["B"].ptx \in Unspent /\ "PTX" \in watch["B"]
                /\ faults < MaxFaults => mem["B"].state \in Following
  /\ ~up["B"] \/ faults < MaxFaults =>
       db["B"].state \in Following /\ db["B"].ptx \in Unspent

\* The queued redeem has its secret, but after a crash between the two commits;
\* and a secret has its redeem.
SecretRows ==
  /\ redeems > 0 /\ ~db["B"].secret =>
       faults = MaxFaults /\ (up["B"] => pc["B"] # "queue")
  /\ db["B"].secret => redeems > 0 \/ "itx_redeem" \in sent
  /\ ~up["B"] => pc["B"] = "check"

\* What the buyer has in memory and on record.
BuyerRows ==
  /\ db["B"].state = "BID_ACCEPTED" /\ up["B"] /\ mem["B"].state # "BID_ACCEPTED" =>
       faults = MaxFaults
  /\ mem["B"] # NoBid => (mem["B"].secret <=> db["B"].secret)
  /\ Tracking => TrackingRows
  /\ SecretRows

\* A valid bid has an ITX that is no deeper than the bid is old.
BidClock == bid_age < BidValid => conf["itx"] <= bid_age

\* How deep the ITX is before the PTX is made.
AcceptClock ==
  BuyerAt("BID_ACCEPTED") => conf["itx"] + Past(Checked("B")) <= PtxBy + faults

\* How deep the ITX is while the PTX gets deep.
PtxClock ==
  /\ conf["ptx"] < 0 => conf["itx"] - conf["ptx"] <= MinedBy + faults + 1
  /\ 0 < conf["ptx"] /\ conf["ptx"] < ParticipateLock =>
       conf["itx"] - conf["ptx"] <= MinedBy + faults

\* The same, once the PTX can be refunded.
RefundClock ==
  /\ conf["ptx"] = ParticipateLock /\ conf["ptx_refund"] = 0
        /\ conf["ptx_redeem"] <= 0 =>
       conf["itx"] + Past(Checked("B")) <= MinedBy + Reveal + faults
  /\ conf["ptx_refund"] < 0 =>
       conf["itx"] - conf["ptx_refund"] <= RedeemedBy + faults

\* The same, while a timely seller has the PTX to redeem.
RevealClock ==
  /\ SellerAt("SWAP_INITIATED") /\ conf["ptx"] > 0 /\ "ptx" \notin bad =>
       conf["itx"] + Past(Checked("S")) <= MinedBy + Reveal + faults
  /\ conf["ptx_redeem"] < 0 =>
       conf["itx"] - conf["ptx_redeem"] <= RedeemedBy + faults

\* The same, until the buyer has seen the redeem of the PTX.
WatchClock ==
  conf["ptx_redeem"] > 0 /\ redeems = 0 /\ "itx_redeem" \notin sent =>
    conf["itx"] + Past(Watched("B")) <= RedeemedBy + faults

\* The same, until it has published its own redeem.
QueueClock ==
  redeems > 0 /\ "itx_redeem" \notin sent =>
    conf["itx"] + Past(Queued("B")) <= RedeemedBy + faults + 1

\* The same, until that is mined.
RedeemClock ==
  "itx_redeem" \in sent =>
    /\ conf["itx_redeem"] # 0
    /\ conf["itx_redeem"] < 0 =>
         conf["itx"] - conf["itx_redeem"] <= RedeemedBy + faults + 1 + MineDelay

\* How deep the ITX is at each stage of the buyer.
BuyerClock ==
  /\ BidClock /\ AcceptClock /\ PtxClock
  /\ IF "S" \in Late THEN RefundClock ELSE RevealClock
  /\ WatchClock /\ QueueClock /\ RedeemClock

\* The invariant of a timely buyer.
BuyerInv == BuyerRows /\ BuyerClock

-----------------------------------------------------------------------------
\* The steps, for the buyer.

\* A step does not get ahead of the buyer's checkBidState.
CheckSlack == Past(Checked("B"))' + faults <= Past(Checked("B")) + faults'

\* A step does not get ahead of the buyer's watcher.
WatchSlack == Past(Watched("B"))' + faults <= Past(Watched("B")) + faults'

\* A step does not get ahead of the buyer's queue.
QueueSlack == Past(Queued("B"))' + faults <= Past(Queued("B")) + faults'

\* How the buyer gets to the PTX, and how long it stays where it is.
AnswerMoves ==
  /\ BuyerAt("BID_ACCEPTED")' =>
       conf["itx"] < PtxBy \/ (BuyerAt("BID_ACCEPTED") /\ CheckSlack)
  /\ "ptx" \in sent' => "ptx" \in sent \/ conf["itx"] <= PtxBy + faults
  /\ conf["ptx"] = ParticipateLock /\ conf'["ptx_refund"] = 0
        /\ conf["ptx_redeem"] <= 0 =>
       CheckSlack

\* How the buyer gets to the redeem of the ITX.
RedeemMoves ==
  /\ conf["ptx_redeem"] > 0 /\ redeems' = 0 /\ "itx_redeem" \notin sent' =>
       redeems = 0 /\ WatchSlack
  /\ redeems' > 0 /\ "itx_redeem" \notin sent' => redeems = 0 \/ QueueSlack
  /\ "itx_redeem" \in sent' => "itx_redeem" \in sent \/ redeems > 0

\* What the constants say of a timely buyer.
LEMMA BuyerTimes ==
  ASSUME TimelyBuyer
  PROVE  /\ PtxBy \in Nat /\ ConfA <= PtxBy /\ BidValid <= PtxBy
         /\ Reveal \in Nat \ {0} /\ MinedBy \in Nat /\ RedeemedBy \in Nat
         /\ MinedBy = PtxBy + MineDelay - 1
         /\ RedeemedBy = MinedBy + Reveal + MineDelay
         /\ ConfB <= Reveal /\ ("S" \in Late => Reveal = ParticipateLock)
         /\ RedeemedBy + MaxFaults + 1 + MineDelay <= LockValue
  <1>1. PtxBy \in Nat /\ ConfA <= PtxBy /\ BidValid <= PtxBy
    BY Times DEF PtxBy
  <1>2. /\ Reveal \in Nat \ {0} /\ ConfB <= Reveal
        /\ "S" \in Late => Reveal = ParticipateLock
    BY Times DEF Reveal
  <1> QED BY <1>1, <1>2, Times DEF MinedBy, RedeemedBy, TimelyBuyer

\* Publishing keeps how deep the locks are.
LEMMA PublishedConf ==
  ASSUME LedgerInv, NEW T \in SUBSET Tx, BroadcastFacts(T)
  PROVE  /\ \A t \in Tx : /\ conf[t] \in Int /\ conf'[t] \in Int
                          /\ conf'[t] <= conf[t]
                          /\ conf[t] # 0 \/ conf'[t] > 0 => conf'[t] = conf[t]
                          /\ conf'[t] # conf[t] =>
                               t \in T /\ conf[t] = 0 /\ conf'[t] = -MineDelay
                          /\ t \in T /\ conf[t] = 0 => conf'[t] = -MineDelay
         /\ {"itx", "itx_redeem", "itx_refund"} \subseteq Tx
         /\ {"ptx", "ptx_redeem", "ptx_refund"} \subseteq Tx
         /\ sent' = sent \union T
  BY Times DEF LedgerInv, BroadcastFacts, Tx

\* A step that moves the buyer on as it should keeps how deep the ITX is.
LEMMA BuyerKept ==
  ASSUME BaseInv, OrderInv', TimelyBuyer, BuyerInv,
         NEW T \in SUBSET Tx, BroadcastFacts(T),
         bad' = bad, bid_age' = bid_age, faults' \in {faults, faults + 1},
         AnswerMoves, RedeemMoves,
         "S" \notin Late => SellerInv /\ SellerMoves
  PROVE  BuyerClock'
  <1>1. /\ \A t \in Tx : /\ conf[t] \in Int /\ conf'[t] \in Int
                         /\ conf'[t] <= conf[t]
                         /\ conf[t] # 0 \/ conf'[t] > 0 => conf'[t] = conf[t]
                         /\ conf'[t] # conf[t] =>
                              t \in T /\ conf[t] = 0 /\ conf'[t] = -MineDelay
                         /\ t \in T /\ conf[t] = 0 => conf'[t] = -MineDelay
        /\ {"itx", "itx_redeem", "itx_refund", "ptx", "ptx_redeem", "ptx_refund"}
             \subseteq Tx
        /\ sent' = sent \union T
    BY PublishedConf DEF BaseInv
  <1>2. faults \in Nat /\ faults' \in Nat /\ faults <= faults' /\ bid_age \in Nat
    BY Times DEF BaseInv, TypeOK
  <1>3. /\ conf["itx"] \in Int /\ conf'["itx"] \in Int /\ conf'["itx"] <= conf["itx"]
        /\ conf["ptx"] \in Int /\ conf'["ptx"] \in Int
        /\ conf["ptx_redeem"] \in Int /\ conf'["ptx_redeem"] \in Int
        /\ conf["ptx_refund"] \in Int /\ conf'["ptx_refund"] \in Int
        /\ conf["itx_redeem"] \in Int /\ conf'["itx_redeem"] \in Int
    BY <1>1
  <1>4. PICK c \in {0, 1} : c = Past(Checked("B"))
    BY DEF Past
  <1>5. PICK d \in {0, 1} : d = Past(Checked("B"))'
    BY DEF Past
  <1>6. CheckSlack <=> d + faults <= c + faults'
    BY <1>4, <1>5 DEF CheckSlack
  <1>7. BidClock'
    BY <1>1, <1>2, <1>3 DEF BidClock, BuyerInv, BuyerClock
  <1>8. AcceptClock'
    <2>1. ASSUME BuyerAt("BID_ACCEPTED")'
          PROVE  conf'["itx"] + d <= PtxBy + faults'
      <3>1. CASE conf["itx"] < PtxBy
        BY <1>2, <1>3, <3>1, BuyerTimes
      <3>2. CASE BuyerAt("BID_ACCEPTED") /\ CheckSlack
        <4>1. conf["itx"] + c <= PtxBy + faults
          BY <1>4, <3>2 DEF BuyerInv, BuyerClock, AcceptClock
        <4>2. d + faults <= c + faults'
          BY <1>6, <3>2
        <4> QED BY <1>2, <1>3, <1>4, <1>5, <4>1, <4>2, BuyerTimes
      <3> QED BY <2>1, <3>1, <3>2 DEF AnswerMoves
    <2>2. Past(Checked("B"))' = d
      BY <1>5
    <2> QED BY <2>1, <2>2 DEF AcceptClock
  <1>9. PtxClock'
    <2>1. ASSUME conf'["ptx"] < 0
          PROVE  conf'["itx"] - conf'["ptx"] <= MinedBy + faults' + 1
      <3>1. CASE conf["ptx"] = 0
        <4>1. "ptx" \in sent' /\ "ptx" \notin sent /\ conf'["ptx"] = -MineDelay
          BY <1>1, <2>1, <3>1 DEF BaseInv, LedgerInv
        <4>2. conf["itx"] <= PtxBy + faults
          BY <4>1 DEF AnswerMoves
        <4> QED BY <1>2, <1>3, <4>1, <4>2, BuyerTimes, Times
      <3>2. CASE conf["ptx"] # 0
        <4>1. conf'["ptx"] = conf["ptx"]
          BY <1>1, <3>2
        <4>2. conf["itx"] - conf["ptx"] <= MinedBy + faults + 1
          BY <2>1, <4>1 DEF BuyerInv, BuyerClock, PtxClock
        <4> QED BY <1>2, <1>3, <4>1, <4>2, BuyerTimes
      <3> QED BY <3>1, <3>2
    <2>2. ASSUME 0 < conf'["ptx"], conf'["ptx"] < ParticipateLock
          PROVE  conf'["itx"] - conf'["ptx"] <= MinedBy + faults'
      <3>1. conf'["ptx"] = conf["ptx"]
        BY <1>1, <2>2
      <3>2. conf["itx"] - conf["ptx"] <= MinedBy + faults
        BY <2>2, <3>1 DEF BuyerInv, BuyerClock, PtxClock
      <3> QED BY <1>2, <1>3, <3>1, <3>2, BuyerTimes
    <2> QED BY <2>1, <2>2 DEF PtxClock
  <1>10. ASSUME "S" \in Late
         PROVE  RefundClock'
    <2>1. RefundClock
      BY <1>10 DEF BuyerInv, BuyerClock
    <2>2. ASSUME conf'["ptx"] = ParticipateLock, conf'["ptx_refund"] = 0,
                 conf'["ptx_redeem"] <= 0
          PROVE  conf'["itx"] + d <= MinedBy + Reveal + faults'
      <3>1. conf["ptx"] = ParticipateLock
        BY <1>1, <2>2, Times
      <3>2. conf["ptx_redeem"] <= 0 /\ conf["ptx_refund"] = 0
        BY <1>1, <2>2
      <3>3. d + faults <= c + faults'
        BY <1>6, <2>2, <3>1, <3>2 DEF AnswerMoves
      <3>4. conf["itx"] + c <= MinedBy + Reveal + faults
        BY <1>4, <2>1, <3>1, <3>2 DEF RefundClock
      <3> QED BY <1>2, <1>3, <1>4, <1>5, <3>3, <3>4, BuyerTimes
    <2>3. ASSUME conf'["ptx_refund"] < 0
          PROVE  conf'["itx"] - conf'["ptx_refund"] <= RedeemedBy + faults'
      <3>1. CASE conf["ptx_refund"] = 0
        <4>1. "ptx_refund" \in T /\ conf'["ptx_refund"] = -MineDelay
          BY <1>1, <2>3, <3>1
        <4>2. Takes("ptx_refund")
          BY <4>1 DEF BroadcastFacts
        <4>3. conf["ptx"] >= ParticipateLock /\ conf["ptx_redeem"] <= 0
          BY <4>2, TakesFacts DEF BaseInv, Spends, Rival
        <4>4. conf["ptx"] = ParticipateLock
          BY <1>1, <1>3, <4>3, TxFacts, Times DEF BaseInv, LedgerInv
        <4>5. conf["itx"] + c <= MinedBy + Reveal + faults
          BY <1>4, <2>1, <3>1, <4>3, <4>4 DEF RefundClock
        <4> QED BY <1>2, <1>3, <4>1, <4>5, BuyerTimes, Times
      <3>2. CASE conf["ptx_refund"] # 0
        <4>1. conf'["ptx_refund"] = conf["ptx_refund"]
          BY <1>1, <3>2
        <4>2. conf["itx"] - conf["ptx_refund"] <= RedeemedBy + faults
          BY <2>1, <2>3, <4>1 DEF RefundClock
        <4> QED BY <1>2, <1>3, <4>1, <4>2, BuyerTimes
      <3> QED BY <3>1, <3>2
    <2>4. Past(Checked("B"))' = d
      BY <1>5
    <2> QED BY <2>2, <2>3, <2>4 DEF RefundClock
  <1>11. ASSUME "S" \notin Late
         PROVE  RevealClock'
    <2>1. RevealClock /\ SellerInv /\ SellerMoves
      BY <1>11 DEF BuyerInv, BuyerClock
    <2>2. PICK a \in {0, 1} : a = Past(Checked("S"))
      BY DEF Past
    <2>3. PICK b \in {0, 1} : b = Past(Checked("S"))'
      BY DEF Past
    <2>4. Slack <=> b + faults <= a + faults'
      BY <2>2, <2>3 DEF Slack
    <2>5. ASSUME SellerAt("SWAP_INITIATED")', conf'["ptx"] > 0, "ptx" \notin bad
          PROVE  conf'["itx"] + b <= MinedBy + Reveal + faults'
      <3>1. conf["ptx"] > 0
        BY <1>1, <2>5
      <3>2. CASE conf["ptx"] < ConfB
        <4>1. conf["itx"] - conf["ptx"] <= MinedBy + faults
          BY <1>3, <3>1, <3>2, Times DEF BuyerInv, BuyerClock, PtxClock
        <4> QED BY <1>2, <1>3, <3>2, <4>1, BuyerTimes, Times
      <3>3. CASE SellerAt("BID_ACCEPTED")
        <4>1. conf["itx"] + a <= ConfA + faults
          BY <2>1, <2>2, <3>3 DEF SellerInv, SellerClock
        <4> QED BY <1>2, <1>3, <4>1, BuyerTimes, Times
      <3>4. CASE SellerAt("SWAP_INITIATED") /\ Slack
        <4>1. conf["itx"] + a <= MinedBy + Reveal + faults
          BY <2>1, <2>2, <2>5, <3>1, <3>4 DEF RevealClock
        <4>2. b + faults <= a + faults'
          BY <2>4, <3>4
        <4> QED BY <1>2, <1>3, <2>2, <2>3, <4>1, <4>2, BuyerTimes
      <3> QED BY <2>1, <2>5, <3>2, <3>3, <3>4 DEF SellerMoves
    <2>6. ASSUME conf'["ptx_redeem"] < 0
          PROVE  conf'["itx"] - conf'["ptx_redeem"] <= RedeemedBy + faults'
      <3>1. CASE conf["ptx_redeem"] = 0
        <4>1. "ptx_redeem" \in sent' /\ conf'["ptx_redeem"] = -MineDelay
          BY <1>1, <2>6, <3>1
        <4>2. "ptx_redeem" \notin sent
          BY <2>1, <3>1 DEF SellerInv, SellerClock
        <4>3. SellerAt("SWAP_INITIATED") /\ "ptx" \notin bad /\ conf["ptx"] > 0
          BY <2>1, <4>1, <4>2 DEF SellerMoves
        <4>4. conf["itx"] + a <= MinedBy + Reveal + faults
          BY <2>1, <2>2, <4>3 DEF RevealClock
        <4> QED BY <1>2, <1>3, <4>1, <4>4, BuyerTimes, Times
      <3>2. CASE conf["ptx_redeem"] # 0
        <4>1. conf'["ptx_redeem"] = conf["ptx_redeem"]
          BY <1>1, <3>2
        <4>2. conf["itx"] - conf["ptx_redeem"] <= RedeemedBy + faults
          BY <2>1, <2>6, <4>1 DEF RevealClock
        <4> QED BY <1>2, <1>3, <4>1, <4>2, BuyerTimes
      <3> QED BY <3>1, <3>2
    <2>7. Past(Checked("S"))' = b
      BY <2>3
    <2>8. bad' = bad
      OBVIOUS
    <2> QED BY <2>5, <2>6, <2>7, <2>8 DEF RevealClock
  <1>12. WatchClock'
    <2>1. PICK a \in {0, 1} : a = Past(Watched("B"))
      BY DEF Past
    <2>2. PICK b \in {0, 1} : b = Past(Watched("B"))'
      BY DEF Past
    <2>3. WatchSlack <=> b + faults <= a + faults'
      BY <2>1, <2>2 DEF WatchSlack
    <2>4. ASSUME conf'["ptx_redeem"] > 0, redeems' = 0, "itx_redeem" \notin sent'
          PROVE  conf'["itx"] + b <= RedeemedBy + faults'
      <3>1. conf["ptx_redeem"] > 0 /\ "itx_redeem" \notin sent
        BY <1>1, <2>4
      <3>2. redeems = 0 /\ b + faults <= a + faults'
        BY <2>3, <2>4, <3>1 DEF RedeemMoves
      <3>3. conf["itx"] + a <= RedeemedBy + faults
        BY <2>1, <3>1, <3>2 DEF BuyerInv, BuyerClock, WatchClock
      <3> QED BY <1>2, <1>3, <2>1, <2>2, <3>2, <3>3, BuyerTimes
    <2>5. Past(Watched("B"))' = b
      BY <2>2
    <2> QED BY <2>4, <2>5 DEF WatchClock
  <1>13. QueueClock'
    <2>1. PICK a \in {0, 1} : a = Past(Queued("B"))
      BY DEF Past
    <2>2. PICK b \in {0, 1} : b = Past(Queued("B"))'
      BY DEF Past
    <2>3. QueueSlack <=> b + faults <= a + faults'
      BY <2>1, <2>2 DEF QueueSlack
    <2>4. ASSUME redeems' > 0, "itx_redeem" \notin sent'
          PROVE  conf'["itx"] + b <= RedeemedBy + faults' + 1
      <3>1. "itx_redeem" \notin sent
        BY <1>1, <2>4
      <3>2. CASE redeems = 0
        <4>1. conf'["ptx_redeem"] > 0
          BY <2>4 DEF OrderInv
        <4>2. conf["ptx_redeem"] > 0
          BY <1>1, <4>1
        <4>3. PICK e \in {0, 1} : e = Past(Watched("B"))
          BY DEF Past
        <4>4. conf["itx"] + e <= RedeemedBy + faults
          BY <3>1, <3>2, <4>2, <4>3 DEF BuyerInv, BuyerClock, WatchClock
        <4> QED BY <1>2, <1>3, <4>4, BuyerTimes
      <3>3. CASE redeems # 0
        <4>1. redeems > 0
          BY <3>3 DEF BaseInv, TypeOK, MaxRedeems
        <4>2. b + faults <= a + faults'
          BY <2>3, <2>4, <3>3 DEF RedeemMoves
        <4>3. conf["itx"] + a <= RedeemedBy + faults + 1
          BY <2>1, <3>1, <4>1 DEF BuyerInv, BuyerClock, QueueClock
        <4> QED BY <1>2, <1>3, <2>1, <2>2, <4>2, <4>3, BuyerTimes
      <3> QED BY <3>2, <3>3
    <2>5. Past(Queued("B"))' = b
      BY <2>2
    <2> QED BY <2>4, <2>5 DEF QueueClock
  <1>14. RedeemClock'
    <2>1. ASSUME "itx_redeem" \in sent'
          PROVE  /\ conf'["itx_redeem"] # 0
                 /\ conf'["itx_redeem"] < 0 =>
                      conf'["itx"] - conf'["itx_redeem"]
                        <= RedeemedBy + faults' + 1 + MineDelay
      <3>1. CASE "itx_redeem" \in sent
        <4>1. /\ conf["itx_redeem"] # 0
              /\ conf["itx_redeem"] < 0 =>
                   conf["itx"] - conf["itx_redeem"] <= RedeemedBy + faults + 1 + MineDelay
          BY <3>1 DEF BuyerInv, BuyerClock, RedeemClock
        <4>2. conf'["itx_redeem"] = conf["itx_redeem"]
          BY <1>1, <4>1
        <4> QED BY <1>2, <1>3, <4>1, <4>2, BuyerTimes, Times
      <3>2. CASE "itx_redeem" \notin sent
        <4>1. redeems > 0 /\ conf["itx_redeem"] = 0 /\ conf'["itx_redeem"] = -MineDelay
          BY <1>1, <2>1, <3>2 DEF RedeemMoves, BaseInv, LedgerInv
        <4>2. PICK a \in {0, 1} : a = Past(Queued("B"))
          BY DEF Past
        <4>3. conf["itx"] + a <= RedeemedBy + faults + 1
          BY <3>2, <4>1, <4>2 DEF BuyerInv, BuyerClock, QueueClock
        <4> QED BY <1>2, <1>3, <4>1, <4>3, BuyerTimes, Times
      <3> QED BY <3>1, <3>2
    <2> QED BY <2>1 DEF RedeemClock
  <1> QED BY <1>7, <1>8, <1>9, <1>10, <1>11, <1>12, <1>13, <1>14 DEF BuyerClock

\* What a block does to the locks of a swap with a PTX.
LEMMA PtxBlock ==
  ASSUME BaseInv, Tick, conf["ptx"] # 0
  PROVE  /\ conf["itx"] \in Int /\ conf'["itx"] \in Int /\ conf'["itx"] <= conf["itx"] + 1
         /\ conf["ptx"] \in Int /\ conf'["ptx"] \in Int /\ conf'["ptx"] # 0
         /\ conf["ptx"] < 0 => conf'["ptx"] = 1 \/ conf'["ptx"] = conf["ptx"] + 1
         /\ conf["ptx"] > 0 =>
              conf'["ptx"] = IF conf["ptx"] < ParticipateLock THEN conf["ptx"] + 1
                                                              ELSE conf["ptx"]
         /\ conf["ptx"] <= ParticipateLock
  <1>1. /\ LedgerInv /\ OrderInv /\ BlockFacts
    BY TickSound DEF BaseInv
  <1>2. /\ "itx" \in Tx /\ "ptx" \in Tx /\ Cap["ptx"] = ParticipateLock
    BY TxFacts
  <1>3. "ptx" \in sent
    BY <1>1, <1>2 DEF LedgerInv
  <1>4. conf["itx"] \in Int /\ conf["itx"] > 0
    BY <1>1, <1>2, <1>3, Times DEF LedgerInv, OrderInv, ITXDeep
  <1>5. conf'["itx"] \in Int /\ conf'["itx"] <= conf["itx"] + 1
    BY <1>1, <1>2, <1>4 DEF BlockFacts
  <1>6. conf["ptx"] \in Int /\ conf'["ptx"] \in Int /\ conf["ptx"] <= ParticipateLock
    BY <1>1, <1>2 DEF LedgerInv, BlockFacts
  <1>7. /\ conf["ptx"] < 0 =>
             conf'["ptx"] = 1 \/ (conf'["ptx"] < 0 /\ conf'["ptx"] = conf["ptx"] + 1)
        /\ conf["ptx"] > 0 =>
             conf'["ptx"] = IF conf["ptx"] < ParticipateLock THEN conf["ptx"] + 1
                                                             ELSE conf["ptx"]
    BY <1>1, <1>2 DEF BlockFacts
  <1>8. conf'["ptx"] # 0
    BY <1>6, <1>7, Times
  <1> QED BY <1>4, <1>5, <1>6, <1>7, <1>8

\* What a block does to a transaction that takes a lock.
LEMMA SpendBlock ==
  ASSUME BaseInv, Tick, NEW t \in Spends
  PROVE  /\ conf[t] \in Int /\ conf'[t] \in Int
         /\ conf[t] = 0 => conf'[t] = 0
         /\ conf[t] > 0 => conf'[t] = 1
         /\ conf'[t] < 0 => conf[t] < 0 /\ conf'[t] <= conf[t] + 1
         /\ conf'[t] > 0 => conf[t] # 0
         /\ conf[t] < 0 /\ conf[Parent[t]] > 0 =>
              \/ conf'[t] = 1
              \/ conf'[t] < 0 /\ conf'[t] = conf[t] + 1
              \/ conf'[t] = 0 /\ conf[Rival[t]] < 0
  <1>1. LedgerInv /\ BlockFacts
    BY TickSound DEF BaseInv
  <1>2. t \in Tx /\ conf[t] \in Int /\ conf'[t] \in Int /\ Cap[t] = 1
        /\ conf[t] <= 1 /\ conf[Parent[t]] \in Int
    BY <1>1, SpendFacts DEF BlockFacts, LedgerInv
  <1>3. /\ conf[t] = 0 => conf'[t] = 0
        /\ conf[t] > 0 => conf'[t] = 1
    BY <1>1, <1>2 DEF BlockFacts
  <1>4. /\ conf[t] < 0 /\ conf[Parent[t]] > 0 =>
             \/ conf'[t] = 1
             \/ conf'[t] < 0 /\ conf'[t] = conf[t] + 1
             \/ conf'[t] = 0 /\ conf[Rival[t]] < 0
        /\ conf[t] < 0 /\ conf[Parent[t]] <= 0 => conf'[t] = conf[t]
    BY <1>1 DEF BlockFacts
  <1> QED BY <1>2, <1>3, <1>4

\* A block: the buyer ran a round since the last one.
LEMMA BuyerTick ==
  ASSUME BaseInv, TimelyBuyer, BuyerInv, Tick
  PROVE  BuyerInv'
  <1>1. /\ TypeOK /\ LedgerInv /\ OrderInv /\ BlockFacts
    BY TickSound DEF BaseInv
  <1>2. /\ db' = db /\ mem' = mem /\ up' = up /\ pc' = pc /\ bad' = bad
        /\ faults' = faults /\ sent' = sent /\ ran' = [n \in Nodes |-> 0]
        /\ redeems' = redeems /\ watch' = watch
        /\ bid_age' = IF bid_age < BidValid THEN bid_age + 1 ELSE bid_age
        /\ ran["B"] = 3 /\ ("S" \notin Late => ran["S"] = 3)
    BY <1>1 DEF Tick, TimelyBuyer, Nodes, BlockFacts
  <1>3. /\ Past(Checked("B")) = 1 /\ Past(Checked("B"))' = 0
        /\ Past(Watched("B")) = 1 /\ Past(Watched("B"))' = 0
        /\ Past(Queued("B")) = 1 /\ Past(Queued("B"))' = 0
    <2>1. ran'["B"] = 0
      BY <1>2 DEF Nodes
    <2> QED BY <1>2, <2>1 DEF Checked, Watched, Queued, Past
  <1>4. "S" \notin Late => Past(Checked("S")) = 1 /\ Past(Checked("S"))' = 0
    <2>1. ran'["S"] = 0
      BY <1>2 DEF Nodes
    <2> QED BY <1>2, <2>1 DEF Checked, Past
  <1>5. faults \in Nat /\ faults <= MaxFaults /\ bid_age \in Nat /\ MaxFaults \in Nat
    BY <1>1, Times DEF TypeOK
  <1>6. /\ conf["itx"] \in Int /\ conf'["itx"] \in Int
        /\ conf["itx"] > 0 => conf'["itx"] <= conf["itx"] + 1
        /\ conf["itx"] <= 0 => conf'["itx"] <= 1
        /\ conf["itx"] = 0 => conf'["itx"] = 0
    BY <1>1, TxFacts DEF LedgerInv, BlockFacts
  <1>7. {"ptx_redeem", "ptx_refund", "itx_redeem", "itx_refund"} \subseteq Spends
    BY DEF Spends
  <1>8. \A t \in Spends :
          /\ conf[t] \in Int /\ conf'[t] \in Int
          /\ conf[t] = 0 => conf'[t] = 0
          /\ conf[t] > 0 => conf'[t] = 1
          /\ conf'[t] < 0 => conf[t] < 0 /\ conf'[t] <= conf[t] + 1
          /\ conf'[t] > 0 => conf[t] # 0
          /\ conf[t] < 0 /\ conf[Parent[t]] > 0 =>
               \/ conf'[t] = 1
               \/ conf'[t] < 0 /\ conf'[t] = conf[t] + 1
               \/ conf'[t] = 0 /\ conf[Rival[t]] < 0
    BY SpendBlock
  <1>9. BuyerRows'
    <2>1. Tracking' => Tracking
      BY <1>2, <1>7, <1>8 DEF Tracking
    <2>2. TrackingRows' <=> TrackingRows
      BY <1>2 DEF TrackingRows
    <2>3. SecretRows' <=> SecretRows
      BY <1>2 DEF SecretRows
    <2> QED BY <1>2, <2>1, <2>2, <2>3 DEF BuyerInv, BuyerRows
  <1>10. BidClock'
    <2>1. BidClock
      BY DEF BuyerInv, BuyerClock
    <2>2. CASE bid_age < BidValid
      <3>1. conf["itx"] <= bid_age /\ bid_age' = bid_age + 1
        BY <1>2, <2>1, <2>2 DEF BidClock
      <3>2. conf'["itx"] <= bid_age + 1
        BY <1>5, <1>6, <3>1
      <3> QED BY <3>1, <3>2 DEF BidClock
    <2>3. CASE ~(bid_age < BidValid)
      BY <1>2, <2>3 DEF BidClock
    <2> QED BY <2>2, <2>3
  <1>11. AcceptClock'
    <2>1. ASSUME BuyerAt("BID_ACCEPTED")
          PROVE  conf'["itx"] + 0 <= PtxBy + faults
      <3>1. conf["itx"] + 1 <= PtxBy + faults
        BY <1>3, <2>1 DEF BuyerInv, BuyerClock, AcceptClock
      <3> QED BY <1>5, <1>6, <3>1, BuyerTimes, Times
    <2>2. BuyerAt("BID_ACCEPTED")' <=> BuyerAt("BID_ACCEPTED")
      BY <1>2 DEF BuyerAt
    <2> QED BY <1>2, <1>3, <2>1, <2>2 DEF AcceptClock
  <1>12. PtxClock /\ (conf["ptx"] = 0 => conf'["ptx"] = 0)
    BY <1>1, TxFacts DEF BuyerInv, BuyerClock, BlockFacts
  <1>13. PtxClock'
    <2>1. CASE conf["ptx"] = 0
      BY <1>12, <2>1 DEF PtxClock
    <2>2. CASE conf["ptx"] # 0
      <3>1. conf'["ptx"] < 0 => conf'["itx"] - conf'["ptx"] <= MinedBy + faults + 1
        BY <1>5, <1>12, <2>2, PtxBlock, BuyerTimes, Times DEF PtxClock
      <3>2. 0 < conf'["ptx"] /\ conf'["ptx"] < ParticipateLock =>
              conf'["itx"] - conf'["ptx"] <= MinedBy + faults
        BY <1>5, <1>12, <2>2, PtxBlock, BuyerTimes, Times DEF PtxClock
      <3> QED BY <1>2, <3>1, <3>2 DEF PtxClock
    <2> QED BY <2>1, <2>2
  <1>14. ASSUME "S" \in Late
         PROVE  RefundClock'
    <2>1. RefundClock /\ Reveal = ParticipateLock
      BY <1>14, BuyerTimes DEF BuyerInv, BuyerClock
    <2>2. ASSUME conf'["ptx"] = ParticipateLock, conf'["ptx_refund"] = 0,
                 conf'["ptx_redeem"] <= 0
          PROVE  conf'["itx"] <= MinedBy + Reveal + faults
      <3>1. conf["ptx"] # 0
        BY <1>12, <2>2, Times
      <3>2. conf["ptx_redeem"] <= 0 /\ conf["ptx_refund"] <= 0
        BY <1>7, <1>8, <2>2
      <3>3. CASE conf["ptx"] = ParticipateLock
        <4>1. conf["ptx_refund"] = 0
          <5>1. CASE conf["ptx_refund"] < 0
            <6>1. Parent["ptx_refund"] = "ptx" /\ Rival["ptx_refund"] = "ptx_redeem"
              BY TxFacts DEF Rival, Spends
            <6>2. conf["ptx"] > 0
              BY <3>3, Times
            <6>3. conf'["ptx_refund"] = 0 /\ conf["ptx_redeem"] < 0
              BY <1>7, <1>8, <2>2, <5>1, <6>1, <6>2
            <6>4. conf'["ptx_redeem"] = 1
              BY <1>1, <1>7, <2>2, <5>1, <6>1, <6>2 DEF BlockFacts
            <6> QED BY <2>2, <6>4
          <5> QED BY <1>7, <1>8, <3>2, <5>1
        <4>2. conf["itx"] + 1 <= MinedBy + Reveal + faults
          BY <1>3, <2>1, <3>2, <3>3, <4>1 DEF RefundClock
        <4> QED BY <1>5, <3>1, <4>2, PtxBlock, BuyerTimes
      <3>4. CASE 0 < conf["ptx"] /\ conf["ptx"] < ParticipateLock
        <4>1. conf["itx"] - conf["ptx"] <= MinedBy + faults
          BY <1>12, <3>4 DEF PtxClock
        <4> QED BY <1>5, <2>1, <2>2, <3>1, <3>4, <4>1, PtxBlock, BuyerTimes, Times
      <3>5. CASE conf["ptx"] < 0
        <4>1. conf["itx"] - conf["ptx"] <= MinedBy + faults + 1
          BY <1>12, <3>5 DEF PtxClock
        <4> QED BY <1>5, <2>1, <3>1, <3>5, <4>1, PtxBlock, BuyerTimes, Times
      <3> QED BY <3>1, <3>3, <3>4, <3>5, PtxBlock, Times
    <2>3. ASSUME conf'["ptx_refund"] < 0
          PROVE  conf'["itx"] - conf'["ptx_refund"] <= RedeemedBy + faults
      <3>1. conf["ptx_refund"] < 0 /\ conf["ptx"] > 0
        BY <1>1, <1>7, <1>8, <2>3, TxFacts, Times DEF LedgerInv
      <3>2. conf["itx"] - conf["ptx_refund"] <= RedeemedBy + faults
        BY <2>1, <3>1 DEF RefundClock
      <3>3. conf'["ptx_refund"] = conf["ptx_refund"] + 1
        <4>1. Parent["ptx_refund"] = "ptx"
          BY TxFacts
        <4> QED BY <1>7, <1>8, <2>3, <3>1, <4>1
      <3>4. conf["ptx"] # 0
        BY <3>1
      <3> QED BY <1>5, <1>7, <1>8, <3>2, <3>3, <3>4, PtxBlock, BuyerTimes
    <2>4. conf'["itx"] + 0 = conf'["itx"]
      BY <1>6
    <2> QED BY <1>2, <1>3, <2>2, <2>3, <2>4 DEF RefundClock
  <1>15. ASSUME "S" \notin Late
         PROVE  RevealClock'
    <2>1. RevealClock
      BY <1>15 DEF BuyerInv, BuyerClock
    <2>2. ASSUME SellerAt("SWAP_INITIATED"), conf'["ptx"] > 0, "ptx" \notin bad
          PROVE  conf'["itx"] <= MinedBy + Reveal + faults
      <3>1. conf["ptx"] # 0
        BY <1>12, <2>2
      <3>2. CASE conf["ptx"] > 0
        <4>1. conf["itx"] + 1 <= MinedBy + Reveal + faults
          BY <1>4, <1>15, <2>1, <2>2, <3>2 DEF RevealClock
        <4> QED BY <1>5, <3>1, <4>1, PtxBlock, BuyerTimes
      <3>3. CASE conf["ptx"] < 0
        <4>1. conf["itx"] - conf["ptx"] <= MinedBy + faults + 1
          BY <1>12, <3>3 DEF PtxClock
        <4> QED BY <1>5, <3>1, <3>3, <4>1, PtxBlock, BuyerTimes
      <3> QED BY <3>1, <3>2, <3>3, PtxBlock
    <2>3. ASSUME conf'["ptx_redeem"] < 0
          PROVE  conf'["itx"] - conf'["ptx_redeem"] <= RedeemedBy + faults
      <3>1. conf["ptx_redeem"] < 0 /\ conf["ptx"] > 0
        BY <1>1, <1>7, <1>8, <2>3, TxFacts DEF LedgerInv, OrderInv
      <3>2. conf["itx"] - conf["ptx_redeem"] <= RedeemedBy + faults
        BY <2>1, <3>1 DEF RevealClock
      <3>3. conf'["ptx_redeem"] = conf["ptx_redeem"] + 1
        <4>1. Parent["ptx_redeem"] = "ptx"
          BY TxFacts
        <4> QED BY <1>7, <1>8, <2>3, <3>1, <4>1
      <3>4. conf["ptx"] # 0
        BY <3>1
      <3> QED BY <1>5, <1>7, <1>8, <3>2, <3>3, <3>4, PtxBlock, BuyerTimes
    <2>4. SellerAt("SWAP_INITIATED")' <=> SellerAt("SWAP_INITIATED")
      BY <1>2 DEF SellerAt
    <2>5. conf'["itx"] + 0 = conf'["itx"]
      BY <1>6
    <2> QED BY <1>2, <1>4, <1>15, <2>2, <2>3, <2>4, <2>5 DEF RevealClock
  <1>16. WatchClock'
    <2>1. ASSUME conf'["ptx_redeem"] > 0, redeems = 0, "itx_redeem" \notin sent
          PROVE  conf'["itx"] <= RedeemedBy + faults
      <3>1. conf["ptx_redeem"] # 0
        BY <1>7, <1>8, <2>1
      <3>2. conf["ptx"] > 0 /\ "ptx_redeem" \in Tx /\ conf["ptx_refund"] <= 0
        BY <1>1, <1>7, <3>1, SpendFacts, TxFacts DEF LedgerInv, OrderInv, Rival
      <3>3. CASE conf["ptx_redeem"] > 0
        <4>1. conf["itx"] + 1 <= RedeemedBy + faults
          BY <1>3, <2>1, <3>3 DEF BuyerInv, BuyerClock, WatchClock
        <4> QED BY <1>5, <3>2, <4>1, PtxBlock, BuyerTimes
      <3>4. CASE conf["ptx_redeem"] < 0 /\ "S" \notin Late
        <4>1. conf["itx"] - conf["ptx_redeem"] <= RedeemedBy + faults
          BY <3>4 DEF BuyerInv, BuyerClock, RevealClock
        <4> QED BY <1>5, <1>7, <1>8, <3>2, <3>4, <4>1, PtxBlock, BuyerTimes
      <3>5. CASE conf["ptx_redeem"] < 0 /\ "S" \in Late
        <4>1. RefundClock /\ Reveal = ParticipateLock
          BY <3>5, BuyerTimes DEF BuyerInv, BuyerClock
        <4>2. conf["ptx_refund"] < 0 =>
                conf["itx"] - conf["ptx_refund"] <= RedeemedBy + faults
          BY <4>1 DEF RefundClock
        <4>3. conf["ptx_refund"] = 0 /\ conf["ptx"] = ParticipateLock =>
                conf["itx"] + 1 <= MinedBy + Reveal + faults
          BY <1>3, <1>7, <1>8, <3>5, <4>1 DEF RefundClock
        <4>4. conf["ptx"] < ParticipateLock =>
                conf["itx"] - conf["ptx"] <= MinedBy + faults
          BY <1>12, <3>2 DEF PtxClock
        <4>5. /\ conf["ptx_refund"] \in Int
              /\ conf["ptx_refund"] # 0 => conf["ptx"] >= ParticipateLock
          BY <1>1, <1>7, <1>8, TxFacts DEF LedgerInv
        <4>6. CASE conf["ptx"] < ParticipateLock
          BY <1>5, <3>2, <4>1, <4>4, <4>6, PtxBlock, BuyerTimes, Times
        <4>7. CASE conf["ptx"] = ParticipateLock /\ conf["ptx_refund"] = 0
          BY <1>5, <3>2, <4>3, <4>7, PtxBlock, BuyerTimes, Times
        <4>8. CASE conf["ptx_refund"] < 0
          BY <1>5, <3>2, <4>2, <4>5, <4>8, PtxBlock, BuyerTimes
        <4> QED BY <3>2, <4>5, <4>6, <4>7, <4>8, PtxBlock, Times
      <3> QED BY <1>7, <1>8, <3>1, <3>3, <3>4, <3>5
    <2>2. conf'["itx"] + 0 = conf'["itx"]
      BY <1>6
    <2> QED BY <1>2, <1>3, <2>1, <2>2 DEF WatchClock
  <1>17. QueueClock'
    <2>1. ASSUME redeems > 0, "itx_redeem" \notin sent
          PROVE  conf'["itx"] <= RedeemedBy + faults + 1
      <3>1. conf["itx"] + 1 <= RedeemedBy + faults + 1
        BY <1>3, <2>1 DEF BuyerInv, BuyerClock, QueueClock
      <3> QED BY <1>5, <1>6, <3>1, BuyerTimes
    <2>2. conf'["itx"] + 0 = conf'["itx"]
      BY <1>6
    <2> QED BY <1>2, <1>3, <2>1, <2>2 DEF QueueClock
  <1>18. RedeemClock'
    <2>1. ASSUME "itx_redeem" \in sent
          PROVE  /\ conf'["itx_redeem"] # 0
                 /\ conf'["itx_redeem"] < 0 =>
                      conf'["itx"] - conf'["itx_redeem"]
                        <= RedeemedBy + faults + 1 + MineDelay
      <3>1. /\ conf["itx_redeem"] # 0
            /\ conf["itx_redeem"] < 0 =>
                 conf["itx"] - conf["itx_redeem"] <= RedeemedBy + faults + 1 + MineDelay
        BY <2>1 DEF BuyerInv, BuyerClock, RedeemClock
      <3>2. CASE conf["itx_redeem"] > 0
        BY <1>7, <1>8, <3>2
      <3>3. CASE conf["itx_redeem"] < 0
        <4>1. conf["itx"] < LockValue
          BY <1>5, <1>6, <1>7, <1>8, <3>1, <3>3, BuyerTimes, Times
        <4>2. conf["itx_refund"] = 0
          BY <1>1, <1>6, <4>1, Times DEF LedgerInv
        <4>3. conf["itx"] > 0
          <5>1. conf["ptx_redeem"] > 0
            BY <1>1, <2>1 DEF OrderInv
          <5>2. "ptx" \in sent
            BY <1>1, <1>7, <1>8, <5>1, TxFacts DEF LedgerInv
          <5> QED BY <1>1, <1>6, <5>2, Times DEF OrderInv, ITXDeep
        <4>4. Parent["itx_redeem"] = "itx" /\ Rival["itx_redeem"] = "itx_refund"
          BY TxFacts DEF Rival, Spends
        <4>5. \/ conf'["itx_redeem"] = 1
              \/ conf'["itx_redeem"] < 0 /\ conf'["itx_redeem"] = conf["itx_redeem"] + 1
          BY <1>7, <1>8, <3>3, <4>2, <4>3, <4>4
        <4> QED BY <1>5, <1>6, <1>7, <1>8, <3>1, <3>3, <4>3, <4>5, BuyerTimes, Times
      <3> QED BY <1>7, <1>8, <3>1, <3>2, <3>3
    <2> QED BY <1>2, <2>1 DEF RedeemClock
  <1> QED BY <1>9, <1>10, <1>11, <1>13, <1>14, <1>15, <1>16, <1>17, <1>18
          DEF BuyerInv, BuyerClock

\* A step that keeps what the buyer counts on.
BuyerMoves == BuyerRows' /\ AnswerMoves /\ RedeemMoves

\* What a timely buyer has time for.
LEMMA BuyerFacts ==
  ASSUME BaseInv, TimelyBuyer, BuyerInv
  PROVE  /\ BuyerAt("BID_ACCEPTED") => conf["itx_refund"] = 0
         /\ conf["ptx_redeem"] > 0 => conf["itx_refund"] <= 0 /\ conf["itx"] > 0
         /\ conf["ptx_redeem"] > 0 /\ "itx_redeem" \notin sent => conf["itx_refund"] = 0
         /\ conf["ptx_redeem"] > 0 => "ptx" \in sent /\ conf["ptx_refund"] = 0
         /\ conf["ptx_redeem"] > 0 /\ ~db["B"].secret => Tracking
         /\ redeems > 0 \/ "itx_redeem" \in sent \/ db["B"].secret =>
              conf["ptx_redeem"] > 0
         /\ "ptx" \in sent => /\ mem["B"].state # "BID_ACCEPTED"
                              /\ db["B"].state \notin {"BID_SENT", "BID_ACCEPTED"}
                              /\ mem["B"] # NoBid =>
                                   mem["B"].ptx # "None" /\ mem["B"].pt = "Known"
         /\ "ptx" \notin sent => conf["ptx"] = 0 /\ conf["ptx_redeem"] = 0
         /\ redeems \in 0..MaxRedeems
  <1>1. TypeOK /\ LedgerInv /\ OrderInv
    BY DEF BaseInv
  <1>2. /\ faults \in Nat /\ faults <= MaxFaults /\ MaxFaults \in Nat
        /\ redeems \in 0..MaxRedeems
    BY <1>1, Times DEF TypeOK
  <1>3. /\ {"itx", "ptx"} \subseteq Tx
        /\ {"itx_redeem", "itx_refund", "ptx_redeem", "ptx_refund"} \subseteq Spends
        /\ Rival["itx_redeem"] = "itx_refund" /\ Rival["ptx_redeem"] = "ptx_refund"
        /\ Parent["ptx_redeem"] = "ptx"
    BY TxFacts DEF Spends, Rival
  <1>4. conf["itx"] \in Int /\ conf["ptx"] \in Int /\ conf["ptx_redeem"] \in Int
    BY <1>1, <1>3, SpendFacts DEF LedgerInv
  <1>5. conf["itx"] < LockValue => conf["itx_refund"] = 0
    BY <1>1, <1>4, Times DEF LedgerInv
  <1>6. BuyerAt("BID_ACCEPTED") => conf["itx_refund"] = 0
    <2>1. PICK c \in {0, 1} : c = Past(Checked("B"))
      BY DEF Past
    <2>2. BuyerAt("BID_ACCEPTED") => conf["itx"] + c <= PtxBy + faults
      BY <2>1 DEF BuyerInv, BuyerClock, AcceptClock
    <2> QED BY <1>2, <1>4, <1>5, <2>1, <2>2, BuyerTimes, Times
  <1>7. conf["ptx_redeem"] > 0 => "ptx" \in sent /\ conf["ptx_refund"] = 0
    <2>1. ASSUME conf["ptx_redeem"] > 0
          PROVE  "ptx" \in sent /\ conf["ptx_refund"] = 0
      <3>1. conf["ptx_refund"] = 0 /\ conf["ptx"] > 0
        BY <1>1, <1>3, <2>1, SpendFacts
      <3> QED BY <1>1, <1>3, <3>1 DEF LedgerInv
    <2> QED BY <2>1
  <1>8. "ptx" \in sent => conf["itx"] > 0
    BY <1>1, <1>4, Times DEF OrderInv, ITXDeep
  <1>9. conf["ptx_redeem"] > 0 /\ "itx_redeem" \notin sent => conf["itx_refund"] = 0
    <2>1. PICK c \in {0, 1} : c = Past(Watched("B"))
      BY DEF Past
    <2>2. PICK d \in {0, 1} : d = Past(Queued("B"))
      BY DEF Past
    <2>3. conf["ptx_redeem"] > 0 /\ redeems = 0 /\ "itx_redeem" \notin sent =>
            conf["itx"] + c <= RedeemedBy + faults
      BY <2>1 DEF BuyerInv, BuyerClock, WatchClock
    <2>4. redeems > 0 /\ "itx_redeem" \notin sent =>
            conf["itx"] + d <= RedeemedBy + faults + 1
      BY <2>2 DEF BuyerInv, BuyerClock, QueueClock
    <2>5. redeems = 0 \/ redeems > 0
      BY <1>2 DEF MaxRedeems
    <2> QED BY <1>2, <1>4, <1>5, <2>1, <2>2, <2>3, <2>4, <2>5, BuyerTimes, Times
  <1>10. "itx_redeem" \in sent => conf["itx_refund"] <= 0
    <2>1. "itx_redeem" \in sent => conf["itx_redeem"] # 0
      BY DEF BuyerInv, BuyerClock, RedeemClock
    <2> QED BY <1>1, <1>3, <2>1, SpendFacts
  <1>11. redeems > 0 \/ "itx_redeem" \in sent \/ db["B"].secret => conf["ptx_redeem"] > 0
    BY <1>1 DEF OrderInv, BaseInv, NodeInv, RowTrue, Nodes
  <1>12. "ptx" \in sent => /\ mem["B"].state # "BID_ACCEPTED"
                           /\ db["B"].state \notin {"BID_SENT", "BID_ACCEPTED"}
                           /\ mem["B"] # NoBid =>
                                mem["B"].ptx # "None" /\ mem["B"].pt = "Known"
    <2>1. RowTrue("B", mem["B"])
      BY DEF BaseInv, NodeInv, Nodes
    <2> QED BY <1>1, <2>1 DEF OrderInv, BuyerAnswered, RowTrue
  <1>13. "ptx" \notin sent => conf["ptx"] = 0 /\ conf["ptx_redeem"] = 0
    <2>1. conf["ptx_redeem"] # 0 => conf["ptx"] # 0
      BY <1>1, <1>3, SpendFacts
    <2> QED BY <1>1, <1>3, <2>1 DEF LedgerInv
  <1>14. conf["ptx_redeem"] > 0 /\ ~db["B"].secret => Tracking
    BY <1>7 DEF Tracking
  <1>15. conf["itx_refund"] = 0 => conf["itx_refund"] <= 0
    OBVIOUS
  <1> QED BY <1>2, <1>6, <1>7, <1>8, <1>9, <1>10, <1>11, <1>12, <1>13, <1>14, <1>15

\* Before the PTX is made there is little to count on.
LEMMA BuyerBefore ==
  ASSUME BaseInv, BaseInv', TimelyBuyer, BuyerInv, "ptx" \notin sent, "ptx" \notin sent',
         db'["B"].state = "BID_ACCEPTED" /\ up'["B"] =>
           mem'["B"].state = "BID_ACCEPTED" \/ faults' = MaxFaults,
         BuyerAt("BID_ACCEPTED")' =>
           conf["itx"] < PtxBy \/ (BuyerAt("BID_ACCEPTED") /\ CheckSlack),
         ~up'["B"] => pc'["B"] = "check"
  PROVE  BuyerMoves
  <1>1. conf["ptx"] = 0 /\ conf["ptx_redeem"] = 0 /\ redeems = 0
    BY BuyerFacts DEF MaxRedeems
  <1>2. LedgerInv' /\ OrderInv' /\ TypeOK'
    BY DEF BaseInv
  <1>3. conf'["ptx_redeem"] = 0
    <2>1. "ptx" \in Tx /\ "ptx_redeem" \in Spends /\ Parent["ptx_redeem"] = "ptx"
      BY TxFacts DEF Spends
    <2>2. conf'["ptx"] = 0
      BY <1>2, <2>1 DEF LedgerInv
    <2> QED BY <1>2, <2>1, <2>2 DEF LedgerInv
  <1>4. ~(redeems' > 0) /\ "itx_redeem" \notin sent'
    BY <1>2, <1>3 DEF OrderInv
  <1>5. ~db'["B"].secret /\ ~mem'["B"].secret
    BY <1>3 DEF BaseInv, NodeInv, Nodes, RowTrue
  <1>6. BuyerRows'
    BY <1>4, <1>5 DEF BuyerRows, Tracking, SecretRows
  <1>7. AnswerMoves
    BY <1>1, Times DEF AnswerMoves
  <1>8. RedeemMoves
    BY <1>1, <1>4 DEF RedeemMoves
  <1> QED BY <1>6, <1>7, <1>8 DEF BuyerMoves

\* Once the PTX is made the bid is not accepted again.
LEMMA BuyerAfter ==
  ASSUME BaseInv', "ptx" \in sent, "ptx" \in sent',
         mem'["B"] # NoBid => (mem'["B"].secret <=> db'["B"].secret),
         Tracking' => TrackingRows', SecretRows',
         conf["ptx"] = ParticipateLock /\ conf'["ptx_refund"] = 0
           /\ conf["ptx_redeem"] <= 0 => CheckSlack,
         RedeemMoves
  PROVE  BuyerMoves
  <1>1. db'["B"].state # "BID_ACCEPTED" /\ mem'["B"].state # "BID_ACCEPTED"
    BY DEF BaseInv, OrderInv, BuyerAnswered
  <1>2. BuyerRows'
    BY <1>1 DEF BuyerRows
  <1>3. AnswerMoves
    BY <1>1 DEF AnswerMoves, BuyerAt
  <1> QED BY <1>2, <1>3 DEF BuyerMoves

\* Nothing the seller does takes the buyer's time.
LEMMA BuyerSeller ==
  ASSUME BaseInv, TimelyBuyer, BuyerInv, Frame("S"), Aside("S")
  PROVE  BuyerMoves
  <1>1. /\ db'["B"] = db["B"] /\ mem'["B"] = mem["B"] /\ watch'["B"] = watch["B"]
        /\ up'["B"] = up["B"] /\ pc'["B"] = pc["B"] /\ ran'["B"] = ran["B"]
        /\ redeems' = redeems
    BY DEF Frame, Others, Aside, Nodes
  <1>2. PICK T \in SUBSET Pub("S") : BroadcastFacts(T)
    BY DEF Aside
  <1>3. /\ "ptx" \in sent' <=> "ptx" \in sent
        /\ "itx_redeem" \in sent' <=> "itx_redeem" \in sent
    BY <1>2 DEF Pub, BroadcastFacts
  <1>4. faults \in Nat /\ faults' \in Nat /\ faults <= faults' /\ faults' <= MaxFaults
        /\ MaxFaults \in Nat
    BY Times DEF Aside, BaseInv, TypeOK
  <1>5. CheckSlack /\ WatchSlack /\ QueueSlack
    <2>1. /\ Past(Checked("B"))' = Past(Checked("B"))
          /\ Past(Watched("B"))' = Past(Watched("B"))
          /\ Past(Queued("B"))' = Past(Queued("B"))
      BY <1>1 DEF Past, Checked, Watched, Queued
    <2>2. PICK c \in {0, 1} : c = Past(Checked("B"))
      BY DEF Past
    <2>3. PICK d \in {0, 1} : d = Past(Watched("B"))
      BY DEF Past
    <2>4. PICK e \in {0, 1} : e = Past(Queued("B"))
      BY DEF Past
    <2>5. CheckSlack
      BY <1>4, <2>1, <2>2 DEF CheckSlack
    <2>6. WatchSlack
      BY <1>4, <2>1, <2>3 DEF WatchSlack
    <2>7. QueueSlack
      BY <1>4, <2>1, <2>4 DEF QueueSlack
    <2> QED BY <2>5, <2>6, <2>7
  <1>6. Tracking' <=> Tracking
    <2>1. conf'["ptx_refund"] > 0 <=> conf["ptx_refund"] > 0
      BY DEF Frame, Tx
    <2>2. conf["ptx_refund"] \in Int /\ conf'["ptx_refund"] \in Int
      BY <1>2 DEF BaseInv, LedgerInv, BroadcastFacts, Tx
    <2> QED BY <1>1, <1>3, <2>1, <2>2 DEF Tracking
  <1>7. faults = MaxFaults => faults' = MaxFaults
    BY <1>4
  <1>8. faults' < MaxFaults => faults < MaxFaults
    BY <1>4
  <1>9. BuyerRows'
    <2>1. TrackingRows => TrackingRows'
      BY <1>1, <1>8 DEF TrackingRows
    <2>2. SecretRows => SecretRows'
      BY <1>1, <1>3, <1>7 DEF SecretRows
    <2> QED BY <1>1, <1>6, <1>7, <2>1, <2>2 DEF BuyerInv, BuyerRows
  <1>10. AnswerMoves
    BY <1>1, <1>3, <1>5 DEF AnswerMoves, BuyerAt
  <1>11. RedeemMoves
    BY <1>1, <1>3, <1>5 DEF RedeemMoves
  <1> QED BY <1>9, <1>10, <1>11 DEF BuyerMoves

\* A stage that is not done, and a failed one, take no time.
LEMMA BuyerSlack ==
  ASSUME BaseInv, faults' \in {faults, faults + 1}
  PROVE  /\ (Checked("B")' => Checked("B")) \/ faults' = faults + 1 => CheckSlack
         /\ (Watched("B")' => Watched("B")) \/ faults' = faults + 1 => WatchSlack
         /\ (Queued("B")' => Queued("B")) \/ faults' = faults + 1 => QueueSlack
  <1>1. faults \in Nat
    BY Times DEF BaseInv, TypeOK
  <1>2. (Checked("B")' => Checked("B")) \/ faults' = faults + 1 => CheckSlack
    <2>1. PICK c \in {0, 1} : c = Past(Checked("B"))
      BY DEF Past
    <2>2. PICK d \in {0, 1} : d = Past(Checked("B"))'
      BY DEF Past
    <2>3. (Checked("B")' => Checked("B")) => d <= c
      BY <2>1, <2>2 DEF Past
    <2> QED BY <1>1, <2>1, <2>2, <2>3 DEF CheckSlack
  <1>3. (Watched("B")' => Watched("B")) \/ faults' = faults + 1 => WatchSlack
    <2>1. PICK c \in {0, 1} : c = Past(Watched("B"))
      BY DEF Past
    <2>2. PICK d \in {0, 1} : d = Past(Watched("B"))'
      BY DEF Past
    <2>3. (Watched("B")' => Watched("B")) => d <= c
      BY <2>1, <2>2 DEF Past
    <2> QED BY <1>1, <2>1, <2>2, <2>3 DEF WatchSlack
  <1>4. (Queued("B")' => Queued("B")) \/ faults' = faults + 1 => QueueSlack
    <2>1. PICK c \in {0, 1} : c = Past(Queued("B"))
      BY DEF Past
    <2>2. PICK d \in {0, 1} : d = Past(Queued("B"))'
      BY DEF Past
    <2>3. (Queued("B")' => Queued("B")) => d <= c
      BY <2>1, <2>2 DEF Past
    <2> QED BY <1>1, <2>1, <2>2, <2>3 DEF QueueSlack
  <1> QED BY <1>2, <1>3, <1>4

\* The end of checkBidState, for a bid with a PTX.
LEMMA BuyerConcludes ==
  ASSUME BaseInv, BaseInv', TimelyBuyer, BuyerInv, NEW b \in Bids, NEW w \in WatchSets,
         up["B"], up' = up, pc["B"] = "check", StageDone("B"), faults' = faults,
         Conclude("B", b, {}, w, TRUE) \/ Conclude("B", b, {}, w, FALSE),
         "ptx" \in sent, mem["B"] # NoBid, b.state \in Live \ {"BID_ACCEPTED"},
         RowTrue("B", b), b.secret <=> mem["B"].secret,
         Tracking => b.ptx \in Unspent /\ "PTX" \in w,
         b.state = mem["B"].state \/ b.state \in Following
  PROVE  BuyerMoves
  <1>1. TypeOK /\ LedgerInv /\ OrderInv
    BY DEF BaseInv
  <1>2. /\ Others("B")
        /\ Finishes("B", b, {}) \/ Keeps("B", b, {}, w)
    BY <1>1, ConcludeCases DEF Nodes
  <1>3. PICK R \in SUBSET OwnRefund("B") : BroadcastFacts({} \union R)
    BY ConcludeNet DEF Nodes
  <1>4. R \in SUBSET Tx /\ R \subseteq {"ptx_refund"} /\ BroadcastFacts(R)
    <2>1. {} \union R = R
      OBVIOUS
    <2> QED BY <1>3, <2>1 DEF OwnRefund, Tx
  <1>5. /\ \A t \in Tx : conf[t] \in Int /\ conf'[t] \in Int
        /\ conf'["ptx_refund"] > 0 <=> conf["ptx_refund"] > 0
        /\ conf'["ptx_refund"] = 0 => conf["ptx_refund"] = 0
        /\ sent' = sent \union R
    BY <1>1, <1>4, PublishedConf, Times
  <1>6. "ptx" \in sent' /\ ("itx_redeem" \in sent' <=> "itx_redeem" \in sent)
    BY <1>4, <1>5
  <1>7. WatchSlack /\ QueueSlack
    BY <1>1, StagePast, BuyerSlack DEF Nodes
  <1>8. pc'["B"] = "watch" /\ up'["B"]
    BY <1>1 DEF StageDone, NextStage, TypeOK, Nodes
  <1>9. mem["B"].secret <=> db["B"].secret
    BY DEF BuyerInv, BuyerRows
  <1>10. /\ conf["ptx_refund"] \in Int /\ conf'["ptx_refund"] \in Int
         /\ conf["ptx_redeem"] \in Int /\ conf["ptx"] \in Int
    BY <1>5 DEF Tx
  <1>11. db["B"].secret => conf["ptx_redeem"] > 0
    BY BuyerFacts
  <1>12. (db'["B"].secret <=> db["B"].secret) => (Tracking' => Tracking)
    BY <1>5, <1>10 DEF Tracking
  <1>13. CASE Finishes("B", b, {})
    <2>1. AllSpent(b) /\ mem'["B"] = NoBid /\ redeems' = 0
      BY <1>13 DEF Finishes
    <2>2. db'["B"].secret <=> db["B"].secret
      <3>1. PICK h \in Bids : h = [b EXCEPT !.state = "SWAP_COMPLETED"]
        BY StateFields DEF BidStates
      <3>2. h.secret = b.secret
        BY <3>1, StateFields DEF BidStates
      <3>3. db'["B"] = h
        BY <1>13, <3>1 DEF Finishes
      <3> QED BY <1>9, <3>2, <3>3
    <2>3. ~Tracking
      BY <2>1 DEF AllSpent, Unspent
    <2>4. conf["ptx_redeem"] > 0 => "itx_redeem" \in sent
      <3>1. b.itx # "None" /\ b.itx # "TX_IN_CHAIN"
        BY DEF RowTrue, Live
      <3>2. conf["ptx_redeem"] > 0 => b.itx # "TX_REFUNDED"
        <4>1. conf["itx_refund"] \in Int
          BY <1>5 DEF Tx
        <4> QED BY <4>1, BuyerFacts DEF RowTrue
      <3>3. b.itx = "TX_REDEEMED" => "itx_redeem" \in sent
        BY <1>1 DEF RowTrue, LedgerInv, Tx
      <3> QED BY <2>1, <3>1, <3>2, <3>3 DEF AllSpent
    <2>5. SecretRows'
      BY <1>6, <1>8, <1>11, <2>1, <2>2, <2>4 DEF SecretRows
    <2>6. RedeemMoves
      BY <1>6, <2>1, <2>4 DEF RedeemMoves
    <2>7. ~(conf["ptx"] = ParticipateLock /\ conf'["ptx_refund"] = 0
              /\ conf["ptx_redeem"] <= 0)
      BY <1>5, <1>10, <1>11, <2>3 DEF Tracking
    <2> QED BY <1>6, <1>12, <2>1, <2>2, <2>3, <2>5, <2>6, <2>7, BuyerAfter
  <1>14. CASE Keeps("B", b, {}, w)
    <2>1. PICK h \in Bids : h = PtxHeight("B", b)
      BY PtxHeightFields DEF Nodes
    <2>2. /\ h.state = b.state /\ h.ptx = b.ptx /\ h.secret = b.secret
          /\ b.ptx \in {"TX_SENT", "TX_CONFIRMED"} /\ b.pt = "Known" /\ conf["ptx"] > 0 =>
               h.pconf = "Chain"
      BY <2>1, PtxHeightFields DEF Nodes
    <2>3. /\ mem'["B"] = h /\ watch'["B"] = w /\ redeems' = redeems
          /\ db'["B"] = h \/ db'["B"] = db["B"]
      BY <1>14, <2>1 DEF Keeps
    <2>4. /\ db'["B"].secret <=> db["B"].secret
          /\ mem'["B"].secret <=> db'["B"].secret
      BY <1>9, <2>2, <2>3
    <2>5. h # NoBid
      BY <2>2 DEF Live, NoBid
    <2>6. Tracking' => TrackingRows'
      <3>1. SUFFICES ASSUME Tracking'
                     PROVE  TrackingRows'
        OBVIOUS
      <3>2. Tracking /\ b.ptx \in Unspent /\ "PTX" \in w
        BY <1>12, <2>4, <3>1
      <3>3. TrackingRows
        BY <3>2 DEF BuyerInv, BuyerRows
      <3>4. faults < MaxFaults => h.state \in Following
        BY <2>2, <3>3 DEF TrackingRows
      <3> QED BY <1>8, <2>2, <2>3, <2>5, <3>2, <3>3, <3>4 DEF TrackingRows
    <2>7. SecretRows'
      BY <1>6, <1>8, <2>3, <2>4 DEF SecretRows, BuyerInv, BuyerRows
    <2>8. RedeemMoves
      BY <1>6, <1>7, <2>3 DEF RedeemMoves
    <2>9. ASSUME conf["ptx"] = ParticipateLock, conf'["ptx_refund"] = 0,
                 conf["ptx_redeem"] <= 0
          PROVE  FALSE
      <3>1. ~db["B"].secret /\ conf["ptx_refund"] = 0
        BY <1>5, <1>10, <1>11, <2>9
      <3>2. b.ptx \in Unspent
        BY <3>1 DEF Tracking
      <3>3. b.pt = "Known"
        BY <3>2 DEF RowTrue, Unspent
      <3>4. h.pconf = "Chain" /\ h.ptx \in {"TX_SENT", "TX_CONFIRMED"}
        BY <2>2, <2>9, <3>2, <3>3, Times DEF Unspent
      <3>5. "ptx_refund" \in Tx /\ Parent["ptx_refund"] = "ptx" /\ "ptx" \in Tx
            /\ Csv["ptx_refund"] = ParticipateLock
        BY TxFacts DEF Tx
      <3>6. ~SpentByOther("ptx_refund")
        <4>1. \A u \in Tx : Conflicts("ptx_refund", u) => u = "ptx_redeem"
          BY DEF Conflicts, Parent, Tx
        <4> QED BY <1>10, <2>9, <4>1 DEF SpentByOther
      <3>7. Takes("ptx_refund")
        BY <2>9, <3>1, <3>5, <3>6, Times DEF Takes, Accepts, Mature
      <3>8. "ptx_refund" \in Refunds("B", mem'["B"])
        BY <2>3, <2>9, <3>4, <3>5, <3>7, Times DEF Refunds
      <3>9. conf'["ptx_refund"] = -MineDelay
        BY <1>14, <3>1, <3>5, <3>8 DEF Keeps, Broadcast
      <3> QED BY <2>9, <3>9, Times
    <2> QED BY <1>6, <2>4, <2>6, <2>7, <2>8, <2>9, BuyerAfter
  <1> QED BY <1>2, <1>13, <1>14

\* The one fault.
LEMMA BuyerFault ==
  ASSUME BaseInv, TimelyBuyer, Fault
  PROVE  faults < MaxFaults /\ faults' = MaxFaults /\ faults' = faults + 1
  BY Times DEF BaseInv, TypeOK, Fault, TimelyBuyer

\* checkBidState of the buyer's accepted bid: the PTX is made in time.
LEMMA BuyerCheckAccepted ==
  ASSUME BaseInv, BaseInv', TimelyBuyer, BuyerInv,
         up["B"], up' = up, pc["B"] = "check", StageDone("B"), CheckAccepted("B")
  PROVE  BuyerMoves
  <1>1. TypeOK /\ LedgerInv /\ OrderInv
    BY DEF BaseInv
  <1>2. /\ Others("B") /\ mem["B"].state = "BID_ACCEPTED"
        /\ \/ AcceptedWaits("B") \/ AcceptedWrong("B") \/ AcceptedSeen("B")
           \/ AcceptedInitiates("B") \/ AcceptedAnswers("B") \/ AcceptedFails("B")
    BY AcceptedCases DEF Nodes
  <1>3. "ptx" \notin sent /\ BuyerAt("BID_ACCEPTED")
    BY <1>2, BuyerFacts DEF BuyerAt
  <1>4. /\ conf["ptx"] = 0 /\ conf["ptx_redeem"] = 0 /\ conf["itx_refund"] = 0
        /\ redeems = 0
    BY <1>3, BuyerFacts DEF MaxRedeems
  <1>5. "itx_redeem" \notin sent /\ conf["itx_redeem"] = 0
    BY <1>1, <1>4 DEF OrderInv, LedgerInv, Tx
  <1>6. ~Touched("itx")
    BY <1>4, <1>5 DEF Touched, Parent, Tx
  <1>7. up'["B"] /\ mem["B"] \in Bids /\ ~mem["B"].secret
    BY <1>4, NodeFacts DEF Nodes, RowTrue
  <1>8. conf["itx"] \in Int
    BY <1>1 DEF LedgerInv, Tx
  <1>9. ASSUME NEW b, Broadcast(Refunds("B", b))
        PROVE  "ptx" \notin sent'
    <2>1. Refunds("B", b) \in SUBSET {"ptx_refund"}
      BY RefundsOwn DEF Nodes, OwnRefund
    <2> QED BY <1>3, <1>9, <2>1 DEF Broadcast
  <1>10. CASE AcceptedWaits("B")
    <2>1. "ptx" \notin sent' /\ mem'["B"].state = "BID_ACCEPTED"
      BY <1>2, <1>9, <1>10 DEF AcceptedWaits
    <2>2. conf["itx"] < PtxBy
      BY <1>6, <1>8, <1>10, BuyerTimes, Times DEF AcceptedWaits
    <2> QED BY <1>3, <1>7, <2>1, <2>2, BuyerBefore
  <1>11. CASE AcceptedWrong("B")
    <2>1. "ptx" \notin sent' /\ mem'["B"] = NoBid
      BY <1>3, <1>11 DEF AcceptedWrong
    <2>2. db'["B"].state = "BID_ERROR"
      <3>1. PICK h \in Bids : h = [mem["B"] EXCEPT !.state = "BID_ERROR"]
                              /\ h.state = "BID_ERROR"
        BY <1>7, ErrorBid
      <3> QED BY <1>11, <3>1 DEF AcceptedWrong
    <2>3. ~BuyerAt("BID_ACCEPTED")'
      BY <1>7, <2>1 DEF BuyerAt, NoBid
    <2> QED BY <1>3, <1>7, <2>1, <2>2, <2>3, BuyerBefore
  <1>12. CASE AcceptedSeen("B")
    <2>1. PICK h \in Bids : h = ItxSeen(mem["B"])
      BY <1>7, ItxSeenFields
    <2>2. mem'["B"].state = "BID_ACCEPTED"
      BY <1>2, <1>7, <1>12, <2>1, ItxSeenFields DEF AcceptedSeen
    <2>3. "ptx" \notin sent'
      BY <1>9, <1>12 DEF AcceptedSeen
    <2>4. conf["itx"] < PtxBy
      BY <1>8, <1>12, BuyerTimes, Times DEF AcceptedSeen, ITXDeep
    <2> QED BY <1>3, <1>7, <2>2, <2>3, <2>4, BuyerBefore
  <1>13. CASE AcceptedAnswers("B")
    <2>1. PICK h \in Bids : h = Initiated("B", ItxSeen(mem["B"]))
      BY <1>7, InitiatedFields DEF Nodes
    <2>2. h.state = "SWAP_INITIATED" /\ ~h.secret
      <3>1. h.state = "SWAP_INITIATED" /\ h.secret = mem["B"].secret
        BY <1>7, <2>1, InitiatedFields DEF Nodes
      <3> QED BY <1>7, <3>1
    <2>3. PICK g \in Bids : g = [h EXCEPT !.ptx = "TX_SENT"]
      BY PtxFields DEF TxStates
    <2>4. g.state = "SWAP_INITIATED" /\ g.ptx = "TX_SENT" /\ ~g.secret
      <3>1. g.state = h.state /\ g.ptx = "TX_SENT" /\ g.secret = h.secret
        BY <2>3 DEF Bids
      <3> QED BY <2>2, <3>1
    <2>5. /\ mem'["B"] = g /\ db'["B"] = g /\ "PTX" \in watch'["B"] /\ redeems' = 0
          /\ sent' = sent \union {"ptx"}
      BY <1>4, <1>13, <2>1, <2>3 DEF AcceptedAnswers, InitiatedWatch, Broadcast
    <2>6. "itx_redeem" \notin sent'
      BY <1>5, <2>5
    <2>7. g # NoBid
      BY <2>4 DEF NoBid
    <2>8. BuyerRows'
      <3>1. TrackingRows'
        BY <1>7, <2>4, <2>5, <2>7 DEF TrackingRows, Following, Unspent
      <3>2. SecretRows'
        BY <1>7, <2>4, <2>5 DEF SecretRows
      <3> QED BY <2>4, <2>5, <3>1, <3>2 DEF BuyerRows
    <2>9. AnswerMoves
      <3>1. PICK c \in {0, 1} : c = Past(Checked("B"))
        BY DEF Past
      <3>2. conf["itx"] + c <= PtxBy + faults
        BY <1>3, <3>1 DEF BuyerInv, BuyerClock, AcceptClock
      <3>3. faults \in Nat
        BY <1>1, Times DEF TypeOK
      <3>4. conf["itx"] <= PtxBy + faults
        BY <1>8, <3>1, <3>2, <3>3, BuyerTimes
      <3>5. ~BuyerAt("BID_ACCEPTED")'
        BY <1>7, <2>4, <2>5 DEF BuyerAt
      <3> QED BY <1>4, <3>4, <3>5, Times DEF AnswerMoves
    <2>10. RedeemMoves
      BY <1>4, <2>5, <2>6 DEF RedeemMoves
    <2> QED BY <2>8, <2>9, <2>10 DEF BuyerMoves
  <1>14. CASE AcceptedFails("B")
    <2>1. Fault /\ "ptx" \notin sent'
      BY <1>3, <1>14 DEF AcceptedFails
    <2>2. PICK h \in Bids : h = Initiated("B", ItxSeen(mem["B"]))
      BY <1>7, InitiatedFields DEF Nodes
    <2>3. h.state = "SWAP_INITIATED" /\ h.pt = "Known"
      BY <1>7, <2>2, InitiatedFields DEF Nodes
    <2>4. mem'["B"].state # "BID_ACCEPTED"
      <3>1. PICK made \in BOOLEAN :
              LET b == [h EXCEPT !.pt = IF made THEN @ ELSE "None"]
              IN \/ mem'["B"] = b
                 \/ mem'["B"] = [b EXCEPT !.state = "BID_ERROR"]
        BY <1>14, <2>2 DEF AcceptedFails
      <3>2. PICK p \in {"Known", "None"} : p = IF made THEN h.pt ELSE "None"
        BY <2>3
      <3>3. PICK b \in Bids : b = [h EXCEPT !.pt = p]
        BY <2>3, <3>2 DEF Bids
      <3>4. b.state = "SWAP_INITIATED"
        BY <2>3, <3>3 DEF Bids
      <3>5. PICK e \in Bids : e = [b EXCEPT !.state = "BID_ERROR"]
                              /\ e.state = "BID_ERROR"
        BY ErrorBid
      <3>6. mem'["B"] = b \/ mem'["B"] = e
        BY <3>1, <3>2, <3>3, <3>5
      <3> QED BY <3>4, <3>5, <3>6
    <2>5. ~BuyerAt("BID_ACCEPTED")'
      BY <1>7, <2>4 DEF BuyerAt
    <2>6. faults' = MaxFaults
      BY <2>1, BuyerFault
    <2> QED BY <1>3, <1>7, <2>1, <2>5, <2>6, BuyerBefore
  <1> QED BY <1>2, <1>10, <1>11, <1>12, <1>13, <1>14 DEF AcceptedInitiates

\* The end of checkBidState, for a bid that is not accepted any more.
LEMMA BuyerConcluded ==
  ASSUME BaseInv, BaseInv', TimelyBuyer, BuyerInv, NEW b \in Bids, NEW w \in WatchSets,
         up["B"], up' = up, pc["B"] = "check", StageDone("B"), faults' = faults,
         Conclude("B", b, {}, w, TRUE) \/ Conclude("B", b, {}, w, FALSE),
         mem["B"] # NoBid, mem["B"].state # "BID_ACCEPTED",
         b.state \in Live \ {"BID_ACCEPTED"},
         RowTrue("B", b), b.secret <=> mem["B"].secret,
         Tracking => b.ptx \in Unspent /\ "PTX" \in w,
         b.state = mem["B"].state \/ b.state \in Following
  PROVE  BuyerMoves
  <1>1. ASSUME "ptx" \notin sent
        PROVE  BuyerMoves
    <2>1. PICK R \in SUBSET OwnRefund("B") : BroadcastFacts({} \union R)
      BY ConcludeNet DEF Nodes
    <2>2. "ptx" \notin sent'
      BY <1>1, <2>1 DEF BroadcastFacts, OwnRefund
    <2>3. \/ mem'["B"] = NoBid /\ db'["B"].state = "SWAP_COMPLETED"
          \/ /\ mem'["B"].state = b.state
             /\ db'["B"].state = b.state \/ db'["B"] = db["B"]
      <3>1. \/ mem'["B"] = NoBid /\ db'["B"].state = "SWAP_COMPLETED"
            \/ /\ mem'["B"].state = b.state
               /\ db'["B"] = mem'["B"] \/ db'["B"] = db["B"]
        BY ConcludeNet DEF Nodes
      <3> QED BY <3>1
    <2>4. mem'["B"].state # "BID_ACCEPTED"
      BY <2>3 DEF NoBid
    <2>5. db'["B"].state = "BID_ACCEPTED" => faults' = MaxFaults
      BY <2>3 DEF BuyerInv, BuyerRows
    <2>6. ~BuyerAt("BID_ACCEPTED")' /\ up'["B"]
      BY <2>4 DEF BuyerAt
    <2> QED BY <1>1, <2>2, <2>5, <2>6, BuyerBefore
  <1> QED BY <1>1, BuyerConcludes

\* checkBidState of the buyer's initiated bid.
LEMMA BuyerCheckInitiated ==
  ASSUME BaseInv, BaseInv', TimelyBuyer, BuyerInv,
         up["B"], up' = up, pc["B"] = "check", StageDone("B"), CheckInitiated("B")
  PROVE  BuyerMoves
  <1>1. /\ mem["B"].state = "SWAP_INITIATED"
        /\ InitiatedWaits("B") \/ InitiatedSees("B") \/ InitiatedFollows("B")
    BY InitiatedCases DEF Nodes, InitiatedTakes, InitiatedFails
  <1>2. /\ mem["B"] \in Bids /\ watch["B"] \in WatchSets /\ RowTrue("B", mem["B"])
        /\ mem["B"] # NoBid
    BY <1>1, NodeFacts DEF Nodes, NoBid
  <1>3. Tracking => mem["B"].ptx \in Unspent /\ "PTX" \in watch["B"]
    BY DEF BuyerInv, BuyerRows, TrackingRows
  <1>4. PICK w \in WatchSets : w = PtxWatch("B") /\ ("PTX" \in watch["B"] => "PTX" \in w)
    BY <1>2 DEF PtxWatch, WatchSets
  <1>5. CASE InitiatedWaits("B")
    <2>1. Conclude("B", mem["B"], {}, watch["B"], FALSE) /\ faults' = faults
      BY <1>5 DEF InitiatedWaits
    <2>2. mem["B"].state \in Live \ {"BID_ACCEPTED"}
      BY <1>1 DEF Live
    <2> QED BY <1>1, <1>2, <1>3, <2>1, <2>2, BuyerConcluded
  <1>6. CASE InitiatedSees("B")
    <2>1. PICK b \in Bids : b = PtxSeen(mem["B"])
      BY <1>2, PtxSeenFields
    <2>2. /\ b.state = "SWAP_INITIATED" /\ b.itx = mem["B"].itx /\ b.pt = "Known"
          /\ b.ptx = (IF mem["B"].ptx \in {"None", "TX_NONE"} THEN "TX_SENT"
                                                              ELSE mem["B"].ptx)
          /\ b.secret = mem["B"].secret
      BY <1>1, <1>2, <2>1, PtxSeenFields
    <2>3. /\ Conclude("B", b, {}, w, TRUE) \/ Conclude("B", b, {}, w, FALSE)
          /\ faults' = faults
      BY <1>4, <1>6, <2>1 DEF InitiatedSees
    <2>4. RowTrue("B", b)
      BY <1>1, <1>2, <2>2 DEF RowTrue
    <2>5. b.state \in Live \ {"BID_ACCEPTED"}
      BY <2>2 DEF Live
    <2>6. Tracking => b.ptx \in Unspent /\ "PTX" \in w
      BY <1>3, <1>4, <2>2 DEF Unspent
    <2>7. b.secret <=> mem["B"].secret
      BY <2>2
    <2>8. b.state = mem["B"].state
      BY <1>1, <2>2
    <2> QED BY <1>1, <1>2, <2>3, <2>4, <2>5, <2>6, <2>7, <2>8, BuyerConcluded
  <1>7. CASE InitiatedFollows("B")
    <2>1. PICK b \in Bids : b = PtxConfirmed(mem["B"])
      BY <1>2, PtxConfirmedFields
    <2>2. /\ b.state = "SWAP_PARTICIPATING" /\ b.itx = mem["B"].itx /\ b.pt = "Known"
          /\ b.ptx = "TX_CONFIRMED" /\ b.secret = mem["B"].secret
      BY <1>2, <2>1, PtxConfirmedFields
    <2>3. Conclude("B", b, {}, w, TRUE) /\ faults' = faults
      BY <1>4, <1>7, <2>1 DEF InitiatedFollows
    <2>4. RowTrue("B", b)
      BY <1>1, <1>2, <2>2 DEF RowTrue
    <2>5. b.state \in Live \ {"BID_ACCEPTED"} /\ b.state \in Following
      BY <2>2 DEF Live, Following
    <2>6. Tracking => b.ptx \in Unspent /\ "PTX" \in w
      BY <1>3, <1>4, <2>2 DEF Unspent
    <2>7. b.secret <=> mem["B"].secret
      BY <2>2
    <2> QED BY <1>1, <1>2, <2>3, <2>4, <2>5, <2>6, <2>7, BuyerConcluded
  <1> QED BY <1>1, <1>5, <1>6, <1>7

\* An error of the buyer's check, or a check of no bid.
LEMMA BuyerCheckStays ==
  ASSUME BaseInv, BaseInv', TimelyBuyer, BuyerInv,
         up["B"], up' = up, pc["B"] = "check", StageDone("B"),
         conf' = conf, sent' = sent, watch' = watch, redeems' = redeems,
         \/ /\ mem' = mem /\ db' = db
            /\ (faults' = faults /\ mem["B"] = NoBid) \/ Fault
         \/ /\ SaveBid("B", [mem["B"] EXCEPT !.state = "BID_ERROR"])
            /\ (mem["B"].pt = "None" /\ faults' = faults) \/ Fault
            /\ mem["B"] # NoBid
  PROVE  BuyerMoves
  <1>1. TypeOK /\ LedgerInv /\ OrderInv
    BY DEF BaseInv
  <1>2. /\ faults \in Nat /\ MaxFaults \in Nat
        /\ Fault => faults' = MaxFaults /\ faults' = faults + 1
    BY <1>1, BuyerFault, Times DEF TypeOK
  <1>3. mem["B"] \in Bids
    BY NodeFacts DEF Nodes
  <1>4. PICK e \in Bids : e = [mem["B"] EXCEPT !.state = "BID_ERROR"]
    BY <1>3, ErrorBid
  <1>5. e.state = "BID_ERROR" /\ e.ptx = mem["B"].ptx /\ e.secret = mem["B"].secret
    BY <1>3, <1>4, StateFields DEF BidStates
  <1>6. \/ /\ mem'["B"] = mem["B"] /\ db'["B"] = db["B"]
           /\ (faults' = faults /\ mem["B"] = NoBid) \/ Fault
        \/ /\ mem'["B"] = e /\ db'["B"] = e /\ mem["B"] # NoBid
           /\ (mem["B"].pt = "None" /\ faults' = faults) \/ Fault
    BY <1>1, <1>4, WriteFacts DEF Nodes
  <1>7. pc'["B"] = "watch" /\ up'["B"]
    BY <1>1 DEF StageDone, NextStage, TypeOK, Nodes
  <1>8. WatchSlack /\ QueueSlack /\ (Fault => CheckSlack)
    BY <1>1, <1>2, <1>6, StagePast, BuyerSlack DEF Nodes
  <1>9. CASE "ptx" \notin sent
    <2>1. db'["B"].state = "BID_ACCEPTED" =>
            mem'["B"].state = "BID_ACCEPTED" \/ faults' = MaxFaults
      BY <1>2, <1>5, <1>6 DEF BuyerInv, BuyerRows, NoBid
    <2>2. BuyerAt("BID_ACCEPTED")' => BuyerAt("BID_ACCEPTED") /\ CheckSlack
      BY <1>5, <1>6, <1>7, <1>8 DEF BuyerAt, NoBid
    <2> QED BY <1>7, <1>9, <2>1, <2>2, BuyerBefore
  <1>10. CASE "ptx" \in sent
    <2>1. mem["B"] # NoBid => mem["B"].pt = "Known"
      BY <1>10, BuyerFacts
    <2>2. \/ /\ mem["B"] = NoBid /\ faults' = faults
             /\ mem'["B"] = mem["B"] /\ db'["B"] = db["B"]
          \/ /\ Fault
             /\ \/ mem'["B"] = mem["B"] /\ db'["B"] = db["B"]
                \/ mem'["B"] = e /\ db'["B"] = e /\ mem["B"] # NoBid
      BY <1>6, <2>1
    <2>3. mem["B"] # NoBid => (mem["B"].secret <=> db["B"].secret)
      BY DEF BuyerInv, BuyerRows
    <2>4. /\ db'["B"].secret <=> db["B"].secret
          /\ mem'["B"] # NoBid => (mem'["B"].secret <=> db'["B"].secret)
      BY <1>5, <2>2, <2>3
    <2>5. Tracking' <=> Tracking
      BY <2>4 DEF Tracking
    <2>6. Tracking => /\ mem["B"] # NoBid /\ mem["B"].ptx \in Unspent
                      /\ "PTX" \in watch["B"]
      BY DEF BuyerInv, BuyerRows, TrackingRows
    <2>7. Tracking' => TrackingRows'
      <3>1. SUFFICES ASSUME Tracking
                     PROVE  TrackingRows'
        BY <2>5
      <3>2. Fault /\ faults' = MaxFaults
        BY <1>2, <2>2, <2>6, <3>1
      <3>3. mem'["B"] # NoBid /\ mem'["B"].ptx \in Unspent
        BY <1>5, <2>2, <2>6, <3>1 DEF NoBid
      <3>4. ~(faults' < MaxFaults)
        BY <1>2, <3>2
      <3> QED BY <1>7, <2>6, <3>1, <3>3, <3>4 DEF TrackingRows
    <2>8. SecretRows'
      <3>1. faults = MaxFaults => faults' = MaxFaults
        BY <1>2, <2>2 DEF Fault
      <3> QED BY <1>7, <2>4, <3>1 DEF BuyerInv, BuyerRows, SecretRows
    <2>9. conf["ptx"] = ParticipateLock /\ conf'["ptx_refund"] = 0
            /\ conf["ptx_redeem"] <= 0 => CheckSlack
      <3>1. SUFFICES ASSUME conf["ptx_refund"] = 0, conf["ptx_redeem"] <= 0
                     PROVE  Fault
        BY <1>8
      <3>2. conf["ptx_redeem"] \in Int
        BY <1>1 DEF LedgerInv, Tx
      <3>3. ~db["B"].secret
        BY <3>1, <3>2, BuyerFacts
      <3>4. Tracking
        BY <1>10, <3>1, <3>3 DEF Tracking
      <3> QED BY <2>2, <2>6, <3>4
    <2>10. RedeemMoves
      BY <1>8 DEF RedeemMoves
    <2> QED BY <1>10, <2>4, <2>7, <2>8, <2>9, <2>10, BuyerAfter
  <1> QED BY <1>9, <1>10

\* checkBidState of the buyer.
LEMMA BuyerChecks ==
  ASSUME BaseInv, BaseInv', TimelyBuyer, BuyerInv, CheckBidState("B")
  PROVE  BuyerMoves
  <1>1. up["B"] /\ up' = up /\ pc["B"] = "check" /\ StageDone("B")
    BY DEF CheckBidState
  <1>2. /\ mem["B"] \in Bids /\ watch["B"] \in WatchSets /\ RowTrue("B", mem["B"])
    BY NodeFacts DEF Nodes
  <1>3. CASE CheckAccepted("B")
    BY <1>1, <1>3, BuyerCheckAccepted
  <1>4. CASE CheckInitiated("B")
    BY <1>1, <1>4, BuyerCheckInitiated
  <1>5. CASE CheckOther("B")
    <2>1. /\ mem["B"].state \in {"SWAP_PARTICIPATING", "BID_ERROR"} /\ faults' = faults
          /\ Conclude("B", mem["B"], {}, watch["B"], FALSE)
      BY <1>5 DEF CheckOther
    <2>2. mem["B"].state \in Live \ {"BID_ACCEPTED"} /\ mem["B"] # NoBid
      BY <2>1 DEF Live, NoBid
    <2>3. Tracking => mem["B"].ptx \in Unspent /\ "PTX" \in watch["B"]
      BY <1>1 DEF BuyerInv, BuyerRows, TrackingRows
    <2> QED BY <1>1, <1>2, <2>1, <2>2, <2>3, BuyerConcluded
  <1>6. CASE CheckNothingMade("B")
    <2>1. mem["B"] # NoBid
      BY <1>6 DEF CheckNothingMade, NoBid
    <2> QED BY <1>1, <1>6, <2>1, BuyerCheckStays DEF CheckNothingMade
  <1>7. CASE CheckFails("B") /\ mem["B"] # NoBid
    BY <1>1, <1>7, BuyerCheckStays DEF CheckFails
  <1>8. CASE mem["B"] = NoBid /\ UNCHANGED <<conf, sent, mem, db, watch, redeems, faults>>
    BY <1>1, <1>8, BuyerCheckStays
  <1> QED BY <1>3, <1>4, <1>5, <1>6, <1>7, <1>8 DEF CheckBidState

\* A spend that the buyer records keeps the state of its bid.
LEMMA BuyerSaves ==
  ASSUME BaseInv, BaseInv', TimelyBuyer, BuyerInv, up["B"], mem["B"] # NoBid,
         UNCHANGED <<conf, sent, up, faults, pc, ran>>,
         NEW b \in Bids, SaveBid("B", b), b.state = mem["B"].state,
         \/ (b.secret <=> mem["B"].secret) /\ redeems' = redeems
         \/ b.secret /\ redeems' > 0,
         Tracking' => /\ b.ptx = mem["B"].ptx
                      /\ "PTX" \in watch["B"] => "PTX" \in watch'["B"]
  PROVE  BuyerMoves
  <1>1. TypeOK /\ LedgerInv /\ OrderInv
    BY DEF BaseInv
  <1>2. mem'["B"] = b /\ db'["B"] = b
    BY <1>1, WriteFacts DEF Nodes
  <1>3. CheckSlack /\ WatchSlack /\ QueueSlack
    BY <1>1, StagePast, BuyerSlack DEF Nodes
  <1>4. CASE "ptx" \notin sent
    <2>1. BuyerAt("BID_ACCEPTED")' => BuyerAt("BID_ACCEPTED") /\ CheckSlack
      BY <1>2, <1>3 DEF BuyerAt
    <2> QED BY <1>2, <1>4, <2>1, BuyerBefore
  <1>5. CASE "ptx" \in sent
    <2>1. mem["B"].secret <=> db["B"].secret
      BY DEF BuyerInv, BuyerRows
    <2>2. Tracking' => TrackingRows'
      <3>1. SUFFICES ASSUME Tracking'
                     PROVE  TrackingRows'
        OBVIOUS
      <3>2. ~b.secret
        BY <1>2, <3>1 DEF Tracking
      <3>3. Tracking
        BY <2>1, <3>1, <3>2 DEF Tracking
      <3>4. TrackingRows
        BY <3>3 DEF BuyerInv, BuyerRows
      <3>5. b # NoBid
        <4>1. mem["B"].state \in Live
          BY NodeFacts DEF Nodes
        <4> QED BY <4>1 DEF Live, NoBid
      <3> QED BY <1>2, <3>1, <3>4, <3>5 DEF TrackingRows
    <2>3. SecretRows'
      <3>1. CASE (b.secret <=> mem["B"].secret) /\ redeems' = redeems
        BY <1>2, <2>1, <3>1 DEF SecretRows, BuyerInv, BuyerRows
      <3>2. CASE b.secret /\ redeems' > 0
        BY <1>2, <3>2 DEF SecretRows
      <3> QED BY <3>1, <3>2
    <2>4. RedeemMoves
      <3>1. redeems' > 0 => redeems' # 0
        OBVIOUS
      <3> QED BY <1>3, <3>1 DEF RedeemMoves
    <2> QED BY <1>2, <1>3, <1>5, <2>2, <2>3, <2>4, BuyerAfter
  <1> QED BY <1>4, <1>5

\* The buyer queues its redeem and dies before the secret is saved.
LEMMA BuyerForgets ==
  ASSUME BaseInv, BaseInv', TimelyBuyer, BuyerInv, up["B"],
         conf' = conf, sent' = sent, db' = db, Fault, LoseMemory("B"),
         redeems' = redeems \/ (conf["ptx_redeem"] > 0 /\ redeems' > 0)
  PROVE  BuyerMoves
  <1>1. TypeOK /\ LedgerInv /\ OrderInv
    BY DEF BaseInv
  <1>2. ~up'["B"] /\ mem'["B"] = NoBid /\ pc'["B"] = "check" /\ db'["B"] = db["B"]
    BY <1>1 DEF LoseMemory, TypeOK, Nodes
  <1>3. faults < MaxFaults /\ faults' = MaxFaults /\ faults' = faults + 1
    BY BuyerFault
  <1>4. CheckSlack /\ WatchSlack /\ QueueSlack
    BY <1>3, BuyerSlack
  <1>5. CASE "ptx" \notin sent
    <2>1. BuyerAt("BID_ACCEPTED")' => BuyerAt("BID_ACCEPTED")
      <3>1. SUFFICES ASSUME db["B"].state = "BID_ACCEPTED"
                     PROVE  mem["B"].state = "BID_ACCEPTED"
        BY <1>2 DEF BuyerAt
      <3> QED BY <1>3, <3>1 DEF BuyerInv, BuyerRows
    <2> QED BY <1>2, <1>4, <1>5, <2>1, BuyerBefore
  <1>6. CASE "ptx" \in sent
    <2>1. Tracking' => TrackingRows'
      <3>1. Tracking' <=> Tracking
        BY <1>2 DEF Tracking
      <3>2. Tracking => db["B"].state \in Following /\ db["B"].ptx \in Unspent
        BY <1>3 DEF BuyerInv, BuyerRows, TrackingRows
      <3> QED BY <1>2, <3>1, <3>2 DEF TrackingRows
    <2>2. SecretRows'
      <3>1. db["B"].secret => redeems > 0 \/ "itx_redeem" \in sent
        BY DEF BuyerInv, BuyerRows, SecretRows
      <3> QED BY <1>2, <1>3, <3>1 DEF SecretRows
    <2>3. RedeemMoves
      <3>1. redeems' > 0 => redeems' # 0
        OBVIOUS
      <3> QED BY <1>4, <3>1 DEF RedeemMoves
    <2> QED BY <1>2, <1>4, <1>6, <2>1, <2>2, <2>3, BuyerAfter
  <1> QED BY <1>5, <1>6

\* The stages behind the check, when they find nothing or fail.
LEMMA BuyerPasses ==
  ASSUME BaseInv, BaseInv', TimelyBuyer, BuyerInv, up["B"],
         UNCHANGED <<conf, sent, db, mem, watch, redeems, up>>,
         StageDone("B"), pc["B"] \in {"watch", "queue"},
         faults' = faults \/ Fault,
         pc["B"] = "watch" =>
           ~("PTX" \in watch["B"] /\ Spent("ptx")) \/ Fault,
         pc["B"] = "queue" => redeems = 0 \/ Fault
  PROVE  BuyerMoves
  <1>1. TypeOK /\ LedgerInv /\ OrderInv
    BY DEF BaseInv
  <1>2. faults \in Nat /\ MaxFaults \in Nat
        /\ (Fault => faults < MaxFaults /\ faults' = MaxFaults /\ faults' = faults + 1)
    BY <1>1, BuyerFault, Times DEF TypeOK
  <1>3. CheckSlack /\ (pc["B"] = "queue" \/ Fault => WatchSlack)
        /\ (pc["B"] = "watch" \/ Fault => QueueSlack)
    BY <1>1, <1>2, StagePast, BuyerSlack DEF Nodes
  <1>4. CASE "ptx" \notin sent
    <2>1. db'["B"].state = "BID_ACCEPTED" =>
            mem'["B"].state = "BID_ACCEPTED" \/ faults' = MaxFaults
      BY <1>2 DEF BuyerInv, BuyerRows
    <2>2. BuyerAt("BID_ACCEPTED")' => BuyerAt("BID_ACCEPTED") /\ CheckSlack
      BY <1>3 DEF BuyerAt
    <2> QED BY <1>4, <2>1, <2>2, BuyerBefore
  <1>5. CASE "ptx" \in sent
    <2>1. Tracking' <=> Tracking
      BY DEF Tracking
    <2>2. Tracking' => TrackingRows'
      BY <1>2, <2>1 DEF BuyerInv, BuyerRows, TrackingRows
    <2>3. pc["B"] = "watch" /\ conf["ptx_redeem"] > 0 /\ ~db["B"].secret => Fault
      <3>1. SUFFICES ASSUME pc["B"] = "watch", conf["ptx_redeem"] > 0, ~db["B"].secret
                     PROVE  Fault
        OBVIOUS
      <3>2. Tracking
        BY <3>1, BuyerFacts
      <3>3. "PTX" \in watch["B"]
        BY <3>2 DEF BuyerInv, BuyerRows, TrackingRows
      <3> QED BY <3>1, <3>3, SpentFacts
    <2>4. redeems > 0 /\ ~db["B"].secret => ~Fault /\ pc["B"] = "watch"
      BY <1>2 DEF BuyerInv, BuyerRows, SecretRows
    <2>5. ~(redeems > 0 /\ ~db["B"].secret)
      BY <2>3, <2>4, BuyerFacts
    <2>6. SecretRows'
      BY <2>5 DEF BuyerInv, BuyerRows, SecretRows
    <2>7. RedeemMoves
      <3>1. conf["ptx_redeem"] > 0 /\ redeems = 0 /\ "itx_redeem" \notin sent =>
              pc["B"] = "queue" \/ Fault
        BY <2>3 DEF BuyerInv, BuyerRows, SecretRows
      <3>2. redeems > 0 => pc["B"] = "watch" \/ Fault
        OBVIOUS
      <3> QED BY <1>3, <3>1, <3>2 DEF RedeemMoves
    <2> QED BY <1>3, <1>5, <2>2, <2>6, <2>7, BuyerAfter DEF BuyerInv, BuyerRows
  <1> QED BY <1>4, <1>5

\* checkWatched of the buyer.
LEMMA BuyerWatches ==
  ASSUME BaseInv, BaseInv', TimelyBuyer, BuyerInv, CheckWatched("B")
  PROVE  BuyerMoves
  <1>1. up["B"] /\ conf' = conf /\ sent' = sent
    BY DEF CheckWatched
  <1>2. TypeOK /\ LedgerInv /\ OrderInv
    BY DEF BaseInv
  <1>3. /\ mem["B"] \in Bids /\ watch["B"] \in WatchSets
        /\ CopyTrue("B", db["B"], mem["B"], watch["B"])
    BY NodeFacts DEF Nodes
  <1>4. watch["B"] # {} => mem["B"] # NoBid
    BY <1>3 DEF CopyTrue
  <1>5. watch \in [Nodes -> WatchSets]
    BY <1>2 DEF TypeOK, WatchSets
  <1>6. CASE InitiateTxnSpent("B")
    <2>1. PICK x \in TxStates : x = IF conf["itx_redeem"] > 0 THEN "TX_REDEEMED"
                                                              ELSE "TX_REFUNDED"
      BY DEF TxStates
    <2>2. PICK b \in Bids : b = [mem["B"] EXCEPT !.itx = x]
      BY <1>3, ItxFields
    <2>3. b.state = mem["B"].state /\ b.ptx = mem["B"].ptx /\ b.secret = mem["B"].secret
      BY <1>3, <2>2, ItxFields
    <2>4. /\ SaveBid("B", b) /\ UNCHANGED <<redeems, up, faults, pc, ran>>
          /\ "ITX" \in watch["B"]
      BY <1>6, <2>1, <2>2 DEF InitiateTxnSpent
    <2>5. watch'["B"] = watch["B"] \ {"ITX"}
      BY <1>5, <1>6 DEF InitiateTxnSpent, Nodes
    <2>6. /\ b.secret <=> mem["B"].secret
          /\ "PTX" \in watch["B"] => "PTX" \in watch'["B"]
      BY <2>3, <2>5
    <2> QED BY <1>1, <1>4, <2>3, <2>4, <2>6, BuyerSaves
  <1>7. CASE ParticipateTxnSpent("B") /\ conf["ptx_refund"] > 0
    <2>1. PICK b \in Bids : b = [mem["B"] EXCEPT !.ptx = "TX_REFUNDED"]
      BY <1>3, PtxFields DEF TxStates
    <2>2. b.state = mem["B"].state /\ b.secret = mem["B"].secret
      BY <1>3, <2>1 DEF Bids
    <2>3. ~(conf["ptx_redeem"] > 0)
      BY <1>2, <1>7 DEF LedgerInv, Spends, Rival
    <2>4. /\ SaveBid("B", b) /\ UNCHANGED <<redeems, up, faults, pc, ran>>
          /\ "PTX" \in watch["B"]
      BY <1>7, <2>1, <2>3 DEF ParticipateTxnSpent
    <2>5. b.secret <=> mem["B"].secret
      BY <2>2
    <2>6. ~Tracking'
      <3>1. conf["ptx_refund"] \in Int
        BY <1>2 DEF LedgerInv, Tx
      <3> QED BY <1>1, <1>7, <3>1 DEF Tracking
    <2> QED BY <1>1, <1>4, <2>2, <2>4, <2>5, <2>6, BuyerSaves
  <1>8. CASE ParticipateTxnSpent("B") /\ ~(conf["ptx_refund"] > 0)
    <2>1. redeems' > 0 /\ conf["ptx_redeem"] > 0
      <3>1. redeems \in 0..2
        BY <1>2 DEF TypeOK, MaxRedeems
      <3> QED BY <1>8, <3>1 DEF ParticipateTxnSpent, MaxRedeems
    <2>2. PICK b \in Bids : b = [mem["B"] EXCEPT !.ptx = "TX_REDEEMED", !.secret = TRUE]
      BY <1>3, PtxFields DEF TxStates
    <2>3. b.state = mem["B"].state /\ b.secret
      BY <1>3, <2>2 DEF Bids
    <2>4. \/ /\ SaveBid("B", b) /\ UNCHANGED <<up, faults, pc, ran>>
             /\ "PTX" \in watch["B"]
          \/ Fault /\ LoseMemory("B") /\ db' = db
      BY <1>8, <2>2 DEF ParticipateTxnSpent
    <2>5. CASE /\ SaveBid("B", b) /\ UNCHANGED <<up, faults, pc, ran>>
               /\ "PTX" \in watch["B"]
      <3>1. ~Tracking'
        BY <1>2, <2>3, <2>5, WriteFacts DEF Tracking, Nodes
      <3> QED BY <1>1, <1>4, <2>1, <2>3, <2>5, <3>1, BuyerSaves
    <2>6. CASE Fault /\ LoseMemory("B") /\ db' = db
      BY <1>1, <2>1, <2>6, BuyerForgets
    <2> QED BY <2>4, <2>5, <2>6
  <1>9. ~ProcessFoundScript("B")
    BY <1>3 DEF ProcessFoundScript, CopyTrue
  <1>10. CASE /\ \/ ~("PTX" \in watch["B"] /\ Spent("ptx")) /\ faults' = faults
                 \/ Fault
              /\ StageDone("B") /\ UNCHANGED <<db, mem, watch, redeems, up>>
    BY <1>1, <1>10, BuyerPasses DEF CheckWatched
  <1> QED BY <1>6, <1>7, <1>8, <1>9, <1>10 DEF CheckWatched

\* The accept timeout and the queued redeem of the buyer.
LEMMA BuyerQueues ==
  ASSUME BaseInv, BaseInv', TimelyBuyer, BuyerInv, CheckQueuedActions("B")
  PROVE  BuyerMoves
  <1>1. /\ up["B"] /\ pc["B"] = "queue" /\ StageDone("B") /\ up' = up
        /\ pc'["B"] = "check" /\ ran' \in [Nodes -> 0..3]
    BY DEF CheckQueuedActions, StageDone, NextStage, BaseInv, TypeOK, Nodes
  <1>2. TypeOK /\ LedgerInv /\ OrderInv
    BY DEF BaseInv
  <1>3. redeems > 0 => db["B"].secret
    BY <1>1 DEF BuyerInv, BuyerRows, SecretRows
  <1>4. CASE CheckAcceptedBids("B")
    <2>1. db["B"].state = "BID_ACCEPTED" /\ sent' = sent
      BY <1>4 DEF CheckAcceptedBids
    <2>2. "ptx" \notin sent /\ "ptx" \notin sent'
      BY <2>1, BuyerFacts
    <2>3. db["B"] \in Bids
      BY NodeFacts DEF Nodes
    <2>4. PICK b \in Bids : b = [db["B"] EXCEPT !.state = "SWAP_TIMEDOUT"]
      BY <2>3, StateFields DEF BidStates
    <2>5. b.state = "SWAP_TIMEDOUT"
      BY <2>3, <2>4, StateFields DEF BidStates
    <2>6. DeactivateBid("B", b)
      BY <1>4, <2>4 DEF CheckAcceptedBids
    <2>7. mem'["B"] = NoBid /\ db'["B"] = b
      BY <1>2, <2>6, WriteFacts DEF Nodes
    <2>8. ~BuyerAt("BID_ACCEPTED")'
      BY <1>1, <2>7 DEF BuyerAt, NoBid
    <2> QED BY <1>1, <2>2, <2>5, <2>7, <2>8, BuyerBefore
  <1>5. CASE redeems = 0 /\ UNCHANGED <<conf, sent, db, mem, watch, redeems, faults>>
    BY <1>1, <1>5, BuyerPasses
  <1>6. CASE Fault /\ UNCHANGED <<conf, sent, db, mem, watch, redeems>>
    BY <1>1, <1>6, BuyerPasses
  <1>7. ASSUME redeems > 0, mem' = mem, watch' = watch, faults' = faults,
               redeems' = redeems - 1, sent' = sent \/ sent' = sent \union {"itx_redeem"},
               "itx_redeem" \in sent', db'["B"].secret <=> db["B"].secret
        PROVE  BuyerMoves
    <2>1. conf["ptx_redeem"] > 0 /\ "ptx" \in sent /\ "ptx" \in sent'
      BY <1>7, BuyerFacts
    <2>2. db'["B"].secret
      BY <1>3, <1>7
    <2>3. mem'["B"] # NoBid => (mem'["B"].secret <=> db'["B"].secret)
      BY <1>7 DEF BuyerInv, BuyerRows
    <2>4. ~Tracking' /\ SecretRows'
      BY <1>1, <1>7, <2>2 DEF Tracking, SecretRows
    <2>5. RedeemMoves
      BY <1>7 DEF RedeemMoves
    <2>6. ~(conf["ptx_redeem"] <= 0)
      BY <1>2, <2>1 DEF LedgerInv, Tx
    <2> QED BY <2>1, <2>3, <2>4, <2>5, <2>6, BuyerAfter
  <1>8. CASE /\ redeems > 0 /\ db["B"].secret /\ Broadcast({"itx_redeem"})
             /\ redeems' = redeems - 1 /\ UNCHANGED <<db, faults, mem, watch>>
    <2>1. sent' = sent \union {"itx_redeem"}
      BY <1>8 DEF Broadcast
    <2> QED BY <1>7, <1>8, <2>1
  <1>9. CASE /\ redeems > 0 /\ Rejects("itx_redeem")
             /\ db' = [db EXCEPT !["B"].state = "BID_ERROR"]
             /\ redeems' = redeems - 1 /\ UNCHANGED <<conf, sent, faults, mem, watch>>
    <2>1. conf["ptx_redeem"] > 0
      BY <1>9, BuyerFacts
    <2>2. "itx_redeem" \in sent
      <3>1. SUFFICES ASSUME "itx_redeem" \notin sent
                     PROVE  FALSE
        OBVIOUS
      <3>2. conf["itx_redeem"] = 0 /\ conf["itx_refund"] = 0 /\ conf["itx"] > 0
        BY <1>2, <2>1, <3>1, BuyerFacts DEF LedgerInv, Tx
      <3>3. \A u \in Tx : Conflicts("itx_redeem", u) => u = "itx_refund"
        BY DEF Conflicts, Parent, Tx
      <3>4. Mature("itx_redeem")
        BY <3>2, TxFacts DEF Mature, Tx
      <3> QED BY <1>9, <3>2, <3>3, <3>4 DEF Rejects, SpentByOther
    <2>3. db'["B"].secret <=> db["B"].secret
      BY <1>2, <1>9 DEF TypeOK, Bids, Nodes
    <2> QED BY <1>7, <1>9, <2>2, <2>3
  <1> QED BY <1>3, <1>4, <1>5, <1>6, <1>8, <1>9 DEF CheckQueuedActions, RedeemITx

\* A restart of the buyer loads the row, and with it what to watch.
LEMMA BuyerRestarts ==
  ASSUME BaseInv, BaseInv', TimelyBuyer, BuyerInv, Restart("B")
  PROVE  BuyerMoves
  <1>1. /\ ~up["B"] /\ up'["B"] /\ pc["B"] = "check"
        /\ UNCHANGED <<conf, sent, db, redeems, pc, ran, faults>>
    BY DEF Restart, BuyerInv, BuyerRows, SecretRows, BaseInv, TypeOK, Nodes
  <1>2. TypeOK /\ LedgerInv /\ OrderInv
    BY DEF BaseInv
  <1>3. CheckSlack /\ WatchSlack /\ QueueSlack
    BY <1>1, <1>2, StagePast, BuyerSlack DEF Nodes
  <1>4. mem["B"] = NoBid /\ RowTrue("B", db["B"])
    BY <1>1, NodeFacts DEF Nodes
  <1>5. /\ db["B"].state \in Reloaded => mem'["B"] = db["B"]
        /\ db["B"].state \notin Reloaded => mem'["B"] = NoBid
    BY <1>2, <1>4 DEF Restart, TypeOK, Nodes
  <1>6. CASE "ptx" \notin sent
    <2>1. db'["B"].state = "BID_ACCEPTED" => mem'["B"].state = "BID_ACCEPTED"
      BY <1>1, <1>5 DEF Reloaded
    <2>2. BuyerAt("BID_ACCEPTED")' => BuyerAt("BID_ACCEPTED") /\ CheckSlack
      BY <1>1, <1>3, <1>5 DEF BuyerAt, NoBid
    <2> QED BY <1>1, <1>6, <2>1, <2>2, BuyerBefore
  <1>7. CASE "ptx" \in sent
    <2>1. mem'["B"] # NoBid => (mem'["B"].secret <=> db'["B"].secret)
      BY <1>1, <1>5
    <2>2. Tracking' => TrackingRows'
      <3>1. SUFFICES ASSUME Tracking
                     PROVE  TrackingRows'
        BY <1>1 DEF Tracking
      <3>2. db["B"].state \in Following /\ db["B"].ptx \in Unspent
        BY <1>1, <3>1 DEF BuyerInv, BuyerRows, TrackingRows
      <3>3. mem'["B"] = db["B"] /\ mem'["B"] # NoBid
        BY <1>5, <3>2 DEF Following, Reloaded, NoBid
      <3>4. db["B"].pt = "Known"
        BY <1>4, <3>2 DEF RowTrue, Unspent
      <3>5. "PTX" \in watch'["B"]
        BY <1>2, <3>2, <3>4 DEF Restart, TypeOK, Nodes, Following, Reloaded
      <3> QED BY <1>1, <3>2, <3>3, <3>5 DEF TrackingRows
    <2>3. SecretRows'
      BY <1>1 DEF BuyerInv, BuyerRows, SecretRows
    <2>4. RedeemMoves
      BY <1>1, <1>3 DEF RedeemMoves
    <2> QED BY <1>1, <1>3, <1>7, <2>1, <2>2, <2>3, <2>4, BuyerAfter
  <1> QED BY <1>6, <1>7

\* processBidAccept: the bid is valid, so the ITX is no deeper than it may be.
LEMMA BuyerAccepts ==
  ASSUME BaseInv, BaseInv', TimelyBuyer, BuyerInv, ProcessBidAccept
  PROVE  BuyerMoves
  <1>1. /\ up["B"] /\ db["B"].state = "BID_SENT" /\ bid_age < BidValid
        /\ sent' = sent /\ up' = up
    BY DEF ProcessBidAccept
  <1>2. "ptx" \notin sent
    BY <1>1, BuyerFacts
  <1>3. TypeOK /\ LedgerInv
    BY DEF BaseInv
  <1>4. conf["itx"] < PtxBy
    <2>1. conf["itx"] <= bid_age
      BY <1>1 DEF BuyerInv, BuyerClock, BidClock
    <2>2. conf["itx"] \in Int /\ bid_age \in Nat
      BY <1>3, Times DEF LedgerInv, TypeOK, Tx
    <2> QED BY <1>1, <2>1, <2>2, BuyerTimes, Times
  <1>5. PICK b \in Bids : b = [NoBid EXCEPT !.state = "BID_ACCEPTED", !.itx = "TX_NONE"]
    BY DEF NoBid, Bids, BidStates, TxStates
  <1>6. b.state = "BID_ACCEPTED"
    BY <1>5 DEF NoBid
  <1>7. mem'["B"] = b
    BY <1>3, <1>5, WriteFacts DEF ProcessBidAccept, Nodes
  <1> QED BY <1>1, <1>2, <1>4, <1>6, <1>7, BuyerBefore

\* At the start there is nothing to be late for.
LEMMA BuyerInit ==
  ASSUME Init, TimelyBuyer
  PROVE  BuyerInv
  <1>1. /\ conf = [t \in Tx |-> 0] /\ sent = {} /\ faults = 0 /\ redeems = 0
        /\ mem["B"] = NoBid /\ up["B"] /\ bid_age = 0
    BY DEF Init, Nodes
  <1>2. db["B"].state = "BID_SENT" /\ ~db["B"].secret
    <2>1. db["B"] = [NoBid EXCEPT !.state = "BID_SENT"]
      BY DEF Init, Nodes
    <2> QED BY <2>1 DEF NoBid
  <1>3. BuyerRows
    BY <1>1, <1>2 DEF BuyerRows, Tracking, SecretRows
  <1>4. /\ conf["itx"] = 0 /\ conf["ptx"] = 0 /\ conf["ptx_redeem"] = 0
        /\ conf["ptx_refund"] = 0
    BY <1>1 DEF Tx
  <1>5. ~BuyerAt("BID_ACCEPTED")
    BY <1>1 DEF BuyerAt, NoBid
  <1>6. BuyerClock
    BY <1>1, <1>4, <1>5, Times
       DEF BuyerClock, BidClock, AcceptClock, PtxClock, RefundClock, RevealClock,
           WatchClock, QueueClock, RedeemClock
  <1> QED BY <1>3, <1>6 DEF BuyerInv

\* Every step of either engine leaves the buyer its time.
LEMMA BuyerSteps ==
  ASSUME BaseInv, BaseInv', TimelyBuyer, BuyerInv, Next, "S" \notin Late => SellerInv
  PROVE  BuyerInv' /\ (Tick \/ BuyerMoves)
  <1>1. CASE Tick
    BY <1>1, BuyerTick
  <1>2. CASE ~Tick
    <2>1. \/ AcceptBid
          \/ CheckBidState("S") \/ CheckWatched("S") \/ CheckQueuedActions("S")
          \/ Crash("S") \/ Restart("S")
          \/ ProcessBidAccept
          \/ CheckBidState("B") \/ CheckWatched("B") \/ CheckQueuedActions("B")
          \/ Crash("B") \/ Restart("B")
      BY <1>2, NodeSteps DEF Nodes
    <2>2. ASSUME \/ AcceptBid
                 \/ CheckBidState("S") \/ CheckWatched("S")
                 \/ CheckQueuedActions("S") \/ Crash("S") \/ Restart("S")
          PROVE  BuyerMoves
      <3>1. Frame("S") /\ Aside("S")
        BY <2>2, SellerSides
      <3> QED BY <3>1, BuyerSeller
    <2>3. ASSUME \/ ProcessBidAccept
                 \/ CheckBidState("B") \/ CheckWatched("B")
                 \/ CheckQueuedActions("B") \/ Crash("B") \/ Restart("B")
          PROVE  BuyerMoves
      <3>1. Crash("B") => BuyerMoves
        BY BuyerForgets DEF Crash
      <3> QED BY <2>3, <3>1, BuyerAccepts, BuyerChecks, BuyerWatches, BuyerQueues,
                 BuyerRestarts
    <2>4. BuyerMoves
      BY <2>1, <2>2, <2>3
    <2>5. \E n \in Nodes : Aside(n)
      BY <2>1, SellerSides, BuyerSides DEF Nodes
    <2>6. PICK n \in Nodes : Aside(n)
      BY <2>5
    <2>7. PICK T \in SUBSET Tx : BroadcastFacts(T)
      BY <2>6, PubFacts DEF Aside
    <2>8. bad' = bad /\ bid_age' = bid_age /\ faults' \in {faults, faults + 1}
      BY <2>6 DEF Aside
    <2>9. "S" \notin Late => SellerInv /\ SellerMoves
      BY <1>2, SellerSteps DEF TimelyBuyer
    <2>10. OrderInv'
      BY DEF BaseInv
    <2>11. BuyerClock'
      BY <2>4, <2>7, <2>8, <2>9, <2>10, BuyerKept DEF BuyerMoves
    <2> QED BY <2>4, <2>11 DEF BuyerInv, BuyerMoves
  <1> QED BY <1>1, <1>2

\* Nor does a step that changes nothing.
LEMMA BuyerNext ==
  ASSUME BaseInv, BaseInv', TimelyBuyer, BuyerInv, [Next]_vars,
         "S" \notin Late => SellerInv
  PROVE  BuyerInv'
  <1>1. CASE UNCHANGED vars
    <2>1. BuyerRows'
      BY <1>1 DEF vars, BuyerInv, BuyerRows, Tracking, TrackingRows, SecretRows
    <2>2. BuyerClock'
      BY <1>1 DEF vars, BuyerInv, BuyerClock, BidClock, AcceptClock, PtxClock,
                  RefundClock, RevealClock, WatchClock, QueueClock, RedeemClock,
                  BuyerAt, SellerAt, Past, Checked, Watched, Queued
    <2> QED BY <2>1, <2>2 DEF BuyerInv
  <1> QED BY <1>1, BuyerSteps

\* A buyer that finishes a round between two blocks acts in time, whatever the
\* seller does, and if at most one thing fails.
THEOREM BuyerHolds == TimelyBuyer => (Spec => []BuyerInv)
  <1>1. SUFFICES ASSUME TimelyBuyer
                 PROVE  Spec => []BuyerInv
    OBVIOUS
  <1>2. Init => BuyerInv
    BY <1>1, BuyerInit
  <1>3. CASE "S" \in Late
    <2>1. BaseInv /\ BaseInv' /\ BuyerInv /\ [Next]_vars => BuyerInv'
      BY <1>1, <1>3, BuyerNext
    <2> QED BY <1>2, <2>1, BaseHolds, PTL DEF Spec
  <1>4. CASE "S" \notin Late
    <2>1. BaseInv /\ BaseInv' /\ SellerInv /\ BuyerInv /\ [Next]_vars => BuyerInv'
      BY <1>1, BuyerNext
    <2>2. Spec => []SellerInv
      BY <1>1, <1>4, SellerHolds DEF TimelyBuyer
    <2> QED BY <1>2, <2>1, <2>2, BaseHolds, PTL DEF Spec
  <1> QED BY <1>3, <1>4

\* A buyer that finishes a round between two blocks does not end with neither
\* coin, however late the seller acts: its engine follows the PTX while that is
\* locked, and the redeem of the ITX stays queued once the secret is known.
THEOREM BuyerSafe ==
  TimelyBuyer => (Spec => [](BuyerNotCheated /\ BuyerTracksPTX /\ SecretUsed))
  <1>1. SUFFICES ASSUME TimelyBuyer
                 PROVE  Spec => [](BuyerNotCheated /\ BuyerTracksPTX /\ SecretUsed)
    OBVIOUS
  <1>2. BaseInv /\ BuyerInv => BuyerNotCheated /\ BuyerTracksPTX /\ SecretUsed
    <2>1. SUFFICES ASSUME BaseInv, BuyerInv
                   PROVE  BuyerNotCheated /\ BuyerTracksPTX /\ SecretUsed
      OBVIOUS
    <2>2. LedgerInv
      BY <2>1 DEF BaseInv
    <2>3. /\ conf["itx_refund"] \in Int /\ conf["ptx_refund"] \in Int
          /\ conf["ptx_redeem"] \in Int
      BY <2>2 DEF LedgerInv, Tx
    <2>4. BuyerNotCheated
      BY <1>1, <2>1, <2>3, BuyerFacts DEF BuyerNotCheated
    <2>5. BuyerTracksPTX
      <3>1. SUFFICES ASSUME up["B"], "ptx" \in sent, ~Spent("ptx")
                     PROVE  /\ mem["B"].ptx \in {"TX_SENT", "TX_CONFIRMED"}
                            /\ "PTX" \in watch["B"]
        BY DEF BuyerTracksPTX
      <3>2. ~(conf["ptx_redeem"] > 0) /\ conf["ptx_refund"] <= 0
        BY <2>3, <3>1, SpentFacts
      <3>3. Tracking
        BY <1>1, <2>1, <3>1, <3>2, BuyerFacts DEF Tracking
      <3> QED BY <2>1, <3>1, <3>3 DEF BuyerInv, BuyerRows, TrackingRows, Unspent
    <2>6. SecretUsed
      BY <2>1 DEF SecretUsed, BuyerInv, BuyerRows, SecretRows
    <2> QED BY <2>4, <2>5, <2>6
  <1>3. Spec => []BuyerInv
    BY <1>1, BuyerHolds
  <1> QED BY <1>2, <1>3, BaseHolds, PTL

-----------------------------------------------------------------------------
\* Spends are remembered.

\* Node n does not take back that a lock is spent.
Remembers(n) ==
  mem[n] # NoBid /\ mem'[n] # NoBid =>
    /\ mem[n].itx \in Ended => mem'[n].itx \in Ended
    /\ mem[n].ptx \in Ended => mem'[n].ptx \in Ended

\* What Conclude keeps of the bid b it is given.
LEMMA ConcludeRemembers ==
  ASSUME BaseInv, NEW n \in Nodes, NEW b \in Bids, NEW pub \in SUBSET Tx,
         NEW w \in WatchSets,
         Conclude(n, b, pub, w, TRUE) \/ Conclude(n, b, pub, w, FALSE),
         b.itx = mem[n].itx,
         mem[n].ptx \in Ended => b.ptx = mem[n].ptx
  PROVE  Remembers(n)
  <1>1. mem'[n] = NoBid \/ (mem'[n].itx = b.itx /\ mem'[n].ptx = b.ptx)
    BY ConcludeNet
  <1> QED BY <1>1 DEF Remembers

\* checkBidState of an accepted bid looks at an unspent ITX, or knows nothing of it.
LEMMA AcceptedRemembers ==
  ASSUME BaseInv, NEW n \in Nodes, CheckAccepted(n),
         n = "B" => ~Spent("itx")
  PROVE  Remembers(n)
  <1>1. /\ \/ AcceptedWaits(n) \/ AcceptedWrong(n) \/ AcceptedSeen(n)
           \/ AcceptedInitiates(n) \/ AcceptedAnswers(n) \/ AcceptedFails(n)
        /\ mem[n].state = "BID_ACCEPTED"
    BY AcceptedCases
  <1>2. mem[n].ptx = "None" /\ RowTrue(n, mem[n])
    BY <1>1, NodeFacts
  <1>3. CASE AcceptedWaits(n) \/ AcceptedWrong(n)
    BY <1>3 DEF AcceptedWaits, AcceptedWrong, Remembers
  <1>4. CASE AcceptedSeen(n) \/ AcceptedInitiates(n) \/ AcceptedAnswers(n)
             \/ AcceptedFails(n)
    <2>1. ~Spent("itx")
      BY <1>4 DEF AcceptedSeen, AcceptedInitiates, AcceptedAnswers, AcceptedFails
    <2>2. mem[n].itx \notin Ended
      BY <1>2, <2>1, SpentFacts
    <2>3. mem[n].ptx \notin Ended
      BY <1>2 DEF Ended
    <2> QED BY <2>2, <2>3 DEF Remembers
  <1> QED BY <1>1, <1>3, <1>4

\* checkBidState of an initiated bid confirms a PTX that is not spent.
LEMMA InitiatedRemembers ==
  ASSUME BaseInv, NEW n \in Nodes, CheckInitiated(n)
  PROVE  Remembers(n)
  <1>1. /\ mem[n] \in Bids /\ watch[n] \in WatchSets /\ RowTrue(n, mem[n])
    BY NodeFacts
  <1>2. PtxWatch(n) \in WatchSets
    BY <1>1 DEF PtxWatch, WatchSets
  <1>3. PICK w \in WatchSets : w = PtxWatch(n)
    BY <1>2
  <1>4. {} \in SUBSET Tx /\ {"ptx_redeem"} \in SUBSET Tx
    BY DEF Tx
  <1>5. CASE InitiatedWaits(n)
    BY <1>1, <1>4, <1>5, ConcludeRemembers DEF InitiatedWaits
  <1>6. CASE InitiatedSees(n)
    <2>1. PICK b \in Bids : b = PtxSeen(mem[n])
      BY <1>1, PtxSeenFields
    <2>2. b.itx = mem[n].itx
          /\ b.ptx = IF mem[n].ptx \in {"None", "TX_NONE"} THEN "TX_SENT" ELSE mem[n].ptx
      BY <1>1, <2>1, PtxSeenFields
    <2>3. mem[n].ptx \in Ended => b.ptx = mem[n].ptx
      BY <2>2 DEF Ended
    <2>4. Conclude(n, b, {}, w, TRUE) \/ Conclude(n, b, {}, w, FALSE)
      BY <1>3, <1>6, <2>1 DEF InitiatedSees
    <2> QED BY <1>4, <2>2, <2>3, <2>4, ConcludeRemembers
  <1>7. CASE InitiatedTakes(n) \/ InitiatedFollows(n) \/ InitiatedFails(n)
    <2>1. ~Spent("ptx")
      BY <1>7 DEF InitiatedTakes, InitiatedFollows, InitiatedFails
    <2>2. mem[n].ptx \notin Ended
      BY <1>1, <2>1, SpentFacts
    <2>3. PICK b \in Bids : b = PtxConfirmed(mem[n])
      BY <1>1, PtxConfirmedFields
    <2>4. b.itx = mem[n].itx
      BY <1>1, <2>3, PtxConfirmedFields
    <2>5. CASE \/ Conclude(n, b, {"ptx_redeem"}, w, TRUE)
               \/ Conclude(n, b, {}, w, TRUE)
      BY <1>4, <2>2, <2>4, <2>5, ConcludeRemembers
    <2>6. CASE InitiatedFails(n)
      <3>1. PICK e \in Bids : e = [b EXCEPT !.state = "BID_ERROR"]
        BY ErrorBid
      <3>2. e.itx = b.itx
        BY <3>1, StateFields DEF BidStates
      <3>3. TypeOK
        BY DEF BaseInv
      <3>4. mem'[n] = b \/ mem'[n] = e
        BY <2>3, <2>6, <3>1, <3>3, WriteFacts DEF InitiatedFails
      <3> QED BY <2>2, <2>4, <3>2, <3>4 DEF Remembers
    <2> QED BY <1>3, <1>7, <2>3, <2>5, <2>6 DEF InitiatedTakes, InitiatedFollows
  <1> QED BY <1>5, <1>6, <1>7, InitiatedCases

\* What one engine does to its own bid.
LEMMA EngineRemembers ==
  ASSUME BaseInv, NEW n \in Nodes,
         n = "B" /\ mem["B"].state = "BID_ACCEPTED" => ~Spent("itx"),
         \/ CheckBidState(n) \/ CheckWatched(n) \/ CheckQueuedActions(n)
         \/ Crash(n) \/ Restart(n)
  PROVE  Remembers(n)
  <1>1. /\ mem[n] \in Bids /\ watch[n] \in WatchSets /\ RowTrue(n, mem[n])
        /\ CopyTrue(n, db[n], mem[n], watch[n]) /\ TypeOK
    BY NodeFacts DEF BaseInv
  <1>2. mem'[n] = mem[n] \/ mem'[n] = NoBid => Remembers(n)
    BY DEF Remembers
  <1>3. ASSUME SaveBid(n, [mem[n] EXCEPT !.state = "BID_ERROR"])
        PROVE  Remembers(n)
    <2>1. PICK e \in Bids : e = [mem[n] EXCEPT !.state = "BID_ERROR"]
      BY <1>1, ErrorBid
    <2>2. e.itx = mem[n].itx /\ e.ptx = mem[n].ptx
      BY <1>1, <2>1, StateFields DEF BidStates
    <2>3. mem'[n] = e
      BY <1>1, <1>3, <2>1, WriteFacts
    <2> QED BY <2>2, <2>3 DEF Remembers
  <1>4. CASE CheckBidState(n)
    <2>1. CASE CheckAccepted(n)
      BY <2>1, AcceptedRemembers DEF CheckAccepted
    <2>2. CASE CheckOther(n)
      BY <1>1, <2>2, ConcludeRemembers DEF CheckOther
    <2>3. CASE CheckNothingMade(n) \/ CheckFails(n)
      BY <1>2, <1>3, <2>3 DEF CheckNothingMade, CheckFails
    <2>4. CASE UNCHANGED mem
      BY <1>2, <2>4
    <2> QED BY <1>4, <2>1, <2>2, <2>3, <2>4, InitiatedRemembers DEF CheckBidState
  <1>5. CASE CheckWatched(n)
    <2>1. CASE InitiateTxnSpent(n)
      <3>1. PICK x \in TxStates : x = IF conf["itx_redeem"] > 0 THEN "TX_REDEEMED"
                                                                ELSE "TX_REFUNDED"
        BY DEF TxStates
      <3>2. PICK b \in Bids : b = [mem[n] EXCEPT !.itx = x]
        BY <1>1, ItxFields
      <3>3. b.itx = x /\ b.ptx = mem[n].ptx
        BY <1>1, <3>2, ItxFields
      <3>4. mem'[n] = b
        BY <1>1, <2>1, <3>1, <3>2, WriteFacts DEF InitiateTxnSpent
      <3> QED BY <3>1, <3>3, <3>4 DEF Remembers, Ended
    <2>2. CASE ParticipateTxnSpent(n)
      <3>1. PICK b \in Bids : b = [mem[n] EXCEPT !.ptx = "TX_REFUNDED"]
        BY <1>1, PtxFields DEF TxStates
      <3>2. PICK c \in Bids : c = [mem[n] EXCEPT !.ptx = "TX_REDEEMED", !.secret = TRUE]
        BY <1>1, PtxFields DEF TxStates
      <3>3. /\ b.itx = mem[n].itx /\ b.ptx = "TX_REFUNDED"
            /\ c.itx = mem[n].itx /\ c.ptx = "TX_REDEEMED"
        BY <1>1, <3>1, <3>2 DEF Bids
      <3>4. mem'[n] = b \/ mem'[n] = c \/ mem'[n] = NoBid
        BY <1>1, <2>2, <3>1, <3>2, WriteFacts DEF ParticipateTxnSpent, LoseMemory, TypeOK
      <3> QED BY <1>2, <3>3, <3>4 DEF Remembers, Ended
    <2>3. CASE ProcessFoundScript(n)
      <3>1. PICK b \in Bids : b = [mem[n] EXCEPT !.pt = "Known", !.ptx = "TX_IN_CHAIN"]
        BY <1>1, PtxFields DEF TxStates
      <3>2. b.itx = mem[n].itx
        BY <1>1, <3>1 DEF Bids
      <3>3. mem'[n] = b
        BY <1>1, <2>3, <3>1, WriteFacts DEF ProcessFoundScript
      <3>4. mem[n].ptx \notin Ended
        BY <1>1, <2>3 DEF ProcessFoundScript, CopyTrue
      <3> QED BY <3>2, <3>3, <3>4 DEF Remembers
    <2>4. CASE UNCHANGED mem
      BY <1>2, <2>4
    <2> QED BY <1>5, <2>1, <2>2, <2>3, <2>4 DEF CheckWatched
  <1>6. CASE CheckQueuedActions(n)
    <2>1. CASE CheckAcceptedBids(n)
      BY <1>1, <1>2, <2>1 DEF CheckAcceptedBids, DeactivateBid, TypeOK
    <2> QED BY <1>2, <1>6, <2>1 DEF CheckQueuedActions, RedeemITx
  <1>7. CASE Crash(n)
    BY <1>1, <1>2, <1>7 DEF Crash, LoseMemory, TypeOK
  <1>8. CASE Restart(n)
    BY <1>1, <1>8 DEF Restart, CopyTrue, Remembers
  <1> QED BY <1>4, <1>5, <1>6, <1>7, <1>8

\* What is mined stays mined.
LEMMA StepDeep ==
  ASSUME BaseInv, Next
  PROVE  \A t \in Tx : conf[t] > 0 => conf'[t] > 0
  <1>1. CASE Tick
    <2>1. BlockFacts /\ conf \in [Tx -> Int]
      BY <1>1, TickSound DEF BaseInv, LedgerInv
    <2> QED BY <2>1 DEF BlockFacts
  <1>2. CASE \E n \in Nodes : Sound(n)
    BY <1>2 DEF Sound, Frame
  <1> QED BY <1>1, <1>2, StepSound

\* Neither engine takes back a spend, in any step; only a buyer that is in time
\* never sees an ITX that is spent as one to be answered.
LEMMA StepsRemember ==
  ASSUME BaseInv, TimelyBuyer, BuyerInv, Next, NEW n \in Nodes
  PROVE  Remembers(n)
  <1>1. mem'[n] = mem[n] \/ mem[n] = NoBid => Remembers(n)
    BY DEF Remembers
  <1>2. mem["B"].state = "BID_ACCEPTED" => ~Spent("itx")
    <2>1. SUFFICES ASSUME mem["B"].state = "BID_ACCEPTED"
                   PROVE  ~Spent("itx")
      OBVIOUS
    <2>2. up["B"] /\ "ptx" \notin sent
      BY <2>1, NodeFacts, BuyerFacts DEF Nodes, NoBid
    <2>3. conf["itx_refund"] = 0 /\ conf["ptx_redeem"] = 0
      BY <2>1, <2>2, BuyerFacts DEF BuyerAt
    <2>4. "itx_redeem" \notin sent
      BY <2>3 DEF BaseInv, OrderInv
    <2>5. conf["itx_redeem"] = 0
      BY <2>4 DEF BaseInv, LedgerInv, Tx
    <2> QED BY <2>3, <2>5, SpentFacts
  <1>3. CASE Tick
    BY <1>1, <1>3 DEF Tick
  <1>4. CASE AcceptBid \/ ProcessBidAccept
    <2>1. CASE AcceptBid
      <3>1. mem["S"] = NoBid
        BY <2>1, NodeFacts DEF AcceptBid, Nodes, Live
      <3>2. Frame("S")
        BY <2>1, SellerSides
      <3> QED BY <1>1, <3>1, <3>2 DEF Frame, Others, Nodes
    <2>2. CASE ProcessBidAccept
      <3>1. mem["B"] = NoBid
        BY <2>2, NodeFacts DEF ProcessBidAccept, Nodes, Live
      <3>2. Frame("B")
        BY <2>2, BuyerSides
      <3> QED BY <1>1, <3>1, <3>2 DEF Frame, Others, Nodes
    <2> QED BY <1>4, <2>1, <2>2
  <1>5. ASSUME NEW k \in Nodes,
               \/ CheckBidState(k) \/ CheckWatched(k) \/ CheckQueuedActions(k)
               \/ Crash(k) \/ Restart(k)
        PROVE  Remembers(n)
    <2>1. CASE k = n
      BY <1>2, <1>5, <2>1, EngineRemembers
    <2>2. CASE k # n
      <3>1. Frame(k)
        BY <1>5, SellerSides, BuyerSides DEF Nodes
      <3> QED BY <1>1, <2>2, <3>1 DEF Frame, Others
    <2> QED BY <2>1, <2>2
  <1> QED BY <1>3, <1>4, <1>5, NodeSteps

\* The recorded end of a lock is never taken back: initiateTxnConfirmed and
\* participateTxnConfirmed overwrite the state of a lock, but never of one that the
\* watcher has seen spent, whatever order checkBidState and checkWatched find it in.
THEOREM SpendsKept == TimelyBuyer => (Spec => SpendsRemembered)
  <1>1. SUFFICES ASSUME TimelyBuyer
                 PROVE  Spec => SpendsRemembered
    OBVIOUS
  <1>2. BaseInv /\ BaseInv' /\ BuyerInv /\ [Next]_vars =>
          [\A n \in Nodes : mem[n] # NoBid /\ mem'[n] # NoBid =>
             /\ mem[n].itx \in Ended => mem'[n].itx = mem[n].itx
             /\ mem[n].ptx \in Ended => mem'[n].ptx = mem[n].ptx]_vars
    <2>1. SUFFICES ASSUME BaseInv, BaseInv', BuyerInv, Next,
                          NEW n \in Nodes, mem[n] # NoBid, mem'[n] # NoBid
                   PROVE  /\ mem[n].itx \in Ended => mem'[n].itx = mem[n].itx
                          /\ mem[n].ptx \in Ended => mem'[n].ptx = mem[n].ptx
      OBVIOUS
    <2>2. Remembers(n)
      BY <1>1, <2>1, StepsRemember
    <2>3. RowTrue(n, mem[n]) /\ RowTrue(n, mem[n])'
      BY <2>1 DEF BaseInv, NodeInv
    <2>4. LedgerInv /\ LedgerInv'
      BY <2>1 DEF BaseInv
    <2>5. \A t \in Tx : conf[t] > 0 => conf'[t] > 0
      BY <1>1, <2>1, StepDeep
    <2>6. /\ {"itx_redeem", "itx_refund", "ptx_redeem", "ptx_refund"} \subseteq Spends
          /\ Rival["itx_redeem"] = "itx_refund" /\ Rival["itx_refund"] = "itx_redeem"
          /\ Rival["ptx_redeem"] = "ptx_refund" /\ Rival["ptx_refund"] = "ptx_redeem"
      BY DEF Spends, Rival
    <2>7. \A t \in Spends : conf[t] > 0 => conf'[Rival[t]] = 0
      BY <2>4, <2>5, TxFacts DEF LedgerInv
    <2>8. mem[n].itx \in Ended => mem'[n].itx = mem[n].itx
      BY <2>1, <2>2, <2>3, <2>6, <2>7 DEF Remembers, RowTrue, Ended
    <2>9. mem[n].ptx \in Ended => mem'[n].ptx = mem[n].ptx
      BY <2>1, <2>2, <2>3, <2>6, <2>7 DEF Remembers, RowTrue, Ended
    <2> QED BY <2>8, <2>9
  <1>3. Spec => []BuyerInv
    BY <1>1, BuyerHolds
  <1> QED BY <1>2, <1>3, BaseHolds, PTL DEF Spec, SpendsRemembered

-----------------------------------------------------------------------------
\* The swap implements AtomicSwap.

\* What takes a coin is mined behind the lock it takes it from, and a lock that
\* is mined was published before.
LEMMA MinedStep ==
  ASSUME BaseInv, Next, NEW t \in Tx, ~Mined(t), Mined(t)'
  PROVE  t \in sent /\ (t \in Spends => Mined(Parent[t]))
  <1>1. Tick
    BY StepSound DEF Sound, Frame, Mined
  <1>2. LedgerInv /\ BlockFacts
    BY <1>1, TickSound DEF BaseInv
  <1>3. conf[t] \in Int /\ (t \in Spends => conf[Parent[t]] \in Int)
    BY <1>2, SpendFacts DEF LedgerInv
  <1>4. conf[t] < 0
    BY <1>2, <1>3 DEF BlockFacts, Mined
  <1>5. t \in sent
    BY <1>2, <1>4 DEF LedgerInv
  <1>6. t \in Spends /\ conf[Parent[t]] <= 0 => conf'[t] = conf[t]
    BY <1>2, <1>4 DEF BlockFacts
  <1> QED BY <1>3, <1>5, <1>6 DEF Mined

\* Of two transactions that take a coin one is mined, and only of a mined lock.
LEMMA MinedFacts ==
  ASSUME BaseInv
  PROVE  /\ Mined("itx_redeem") => ~Mined("itx_refund") /\ Mined("itx")
         /\ Mined("itx_refund") => ~Mined("itx_redeem") /\ Mined("itx")
         /\ Mined("ptx_redeem") => ~Mined("ptx_refund") /\ Mined("ptx")
         /\ Mined("ptx_refund") => ~Mined("ptx_redeem") /\ Mined("ptx")
  <1>1. /\ {"itx_redeem", "itx_refund", "ptx_redeem", "ptx_refund"} \subseteq Spends
        /\ Rival["itx_redeem"] = "itx_refund" /\ Rival["itx_refund"] = "itx_redeem"
        /\ Rival["ptx_redeem"] = "ptx_refund" /\ Rival["ptx_refund"] = "ptx_redeem"
    BY DEF Spends, Rival
  <1>2. \A t \in Spends : conf[t] > 0 => conf[Rival[t]] = 0 /\ conf[Parent[t]] > 0
    BY DEF BaseInv, LedgerInv
  <1> QED BY <1>1, <1>2, TxFacts DEF Mined

\* Both coins move as AtomicSwap lets them.
LEMMA CoinsMove ==
  ASSUME BaseInv, BaseInv', Next
  PROVE  /\ CoinA' \in Swap!After(CoinA, {"taken", "returned", "swiped"})
         /\ CoinB' \in Swap!After(CoinB, {"taken", "returned"})
         /\ CoinB = "none" /\ CoinB' = "locked" => CoinA # "none"
  <1>1. \A t \in Tx : Mined(t) => Mined(t)'
    BY StepDeep DEF Mined
  <1>2. /\ {"itx_redeem", "itx_refund", "ptx_redeem", "ptx_refund"} \subseteq Spends
        /\ {"itx_redeem", "itx_refund", "ptx_redeem", "ptx_refund"} \subseteq Tx
        /\ "itx" \in Tx /\ "ptx" \in Tx
    BY DEF Spends, Tx
  <1>3. /\ Mined("itx_redeem")' /\ ~Mined("itx_redeem") => Mined("itx")
        /\ Mined("itx_refund")' /\ ~Mined("itx_refund") => Mined("itx")
        /\ Mined("ptx_redeem")' /\ ~Mined("ptx_redeem") => Mined("ptx")
        /\ Mined("ptx_refund")' /\ ~Mined("ptx_refund") => Mined("ptx")
        /\ Mined("ptx")' /\ ~Mined("ptx") => "ptx" \in sent
    BY <1>2, MinedStep, TxFacts
  <1>4. /\ Mined("itx_redeem") => ~Mined("itx_refund") /\ Mined("itx")
        /\ Mined("itx_refund") => ~Mined("itx_redeem") /\ Mined("itx")
        /\ Mined("ptx_redeem") => ~Mined("ptx_refund") /\ Mined("ptx")
        /\ Mined("ptx_refund") => ~Mined("ptx_redeem") /\ Mined("ptx")
    BY MinedFacts
  <1>5. /\ Mined("itx_redeem")' => ~Mined("itx_refund")' /\ Mined("itx")'
        /\ Mined("itx_refund")' => ~Mined("itx_redeem")' /\ Mined("itx")'
        /\ Mined("ptx_redeem")' => ~Mined("ptx_refund")' /\ Mined("ptx")'
        /\ Mined("ptx_refund")' => ~Mined("ptx_redeem")' /\ Mined("ptx")'
    BY MinedFacts, PTL
  <1>6. CoinA' \in Swap!After(CoinA, {"taken", "returned", "swiped"})
    BY <1>1, <1>2, <1>3, <1>4, <1>5 DEF CoinA, Swap!After
  <1>7. CoinB' \in Swap!After(CoinB, {"taken", "returned"})
    BY <1>1, <1>2, <1>3, <1>4, <1>5 DEF CoinB, Swap!After
  <1>8. CoinB = "none" /\ CoinB' = "locked" => CoinA # "none"
    <2>1. SUFFICES ASSUME ~Mined("ptx"), Mined("ptx")'
                   PROVE  CoinA # "none"
      BY DEF CoinB
    <2>2. ITXDeep
      BY <1>3, <2>1 DEF BaseInv, OrderInv
    <2>3. conf["itx"] \in Int
      BY <1>2 DEF BaseInv, LedgerInv
    <2>4. Mined("itx")
      BY <2>2, <2>3, Times DEF ITXDeep, Mined
    <2> QED BY <2>4 DEF CoinA
  <1> QED BY <1>6, <1>7, <1>8

\* The buyer only takes the ITX once its PTX was taken, and a timely one always can.
LEMMA FairCoins ==
  ASSUME BaseInv, TimelyBuyer, BuyerInv
  PROVE  Swap!Fair
  <1>1. Mined("itx_redeem") => Mined("ptx_redeem")
    <2>1. Mined("itx_redeem") => "itx_redeem" \in sent
      <3>1. conf["itx_redeem"] \in Int
        BY DEF BaseInv, LedgerInv, Tx
      <3> QED BY <3>1 DEF BaseInv, LedgerInv, Mined, Tx
    <2> QED BY <2>1 DEF BaseInv, OrderInv, Mined
  <1>2. Mined("ptx_redeem") => ~Mined("itx_refund")
    <2>1. conf["itx_refund"] \in Int
      BY DEF BaseInv, LedgerInv, Tx
    <2> QED BY <2>1, BuyerFacts DEF Mined
  <1> QED BY <1>1, <1>2, MinedFacts DEF Swap!Fair, CoinA, CoinB

\* The two coins of the swap move as AtomicSwap says, if the buyer finishes a round
\* between two blocks and at most one thing fails: however late the seller acts,
\* coin B is never locked before coin A, an outcome never changes and nobody gets
\* both coins.
THEOREM Implements == TimelyBuyer => (Spec => ImplementsAtomicSwap)
  <1>1. SUFFICES ASSUME TimelyBuyer
                 PROVE  Spec => ImplementsAtomicSwap
    OBVIOUS
  <1>2. Init => Swap!Init
    BY DEF Init, Swap!Init, CoinA, CoinB, Mined, Tx
  <1>3. BaseInv /\ BaseInv' /\ BuyerInv /\ BuyerInv' /\ [Next]_vars =>
          [Swap!Move]_Swap!vars
    <2>1. SUFFICES ASSUME BaseInv, BaseInv', BuyerInv, BuyerInv', [Next]_vars
                   PROVE  [Swap!Move]_Swap!vars
      OBVIOUS
    <2>2. CASE UNCHANGED vars
      BY <2>2 DEF vars, Swap!vars, CoinA, CoinB, Mined
    <2>3. CASE Next
      <3>1. Swap!Fair'
        BY <1>1, <2>1, FairCoins, PTL
      <3> QED BY <2>1, <2>3, <3>1, CoinsMove DEF Swap!Move
    <2> QED BY <2>1, <2>2, <2>3
  <1>4. Spec => []BuyerInv
    BY <1>1, BuyerHolds
  <1> QED BY <1>2, <1>3, <1>4, BaseHolds, PTL
          DEF Spec, ImplementsAtomicSwap, Swap!Spec
=============================================================================
