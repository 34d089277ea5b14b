------------------------------- MODULE Ledger -------------------------------
(***************************************************************************)
(* The coin networks as the swap engine sees them: which transactions of a *)
(* swap were broadcast, which wait in the memory pools and how deep the    *)
(* mined ones are.  The daemons are external; what is modelled is what     *)
(* publishTx, getLockTxHeight, getMempoolTx and the consensus rules        *)
(* promise the engine.                                                     *)
(*                                                                         *)
(* conf[t] is one number per transaction:                                  *)
(*    0   not broadcast, or evicted by a mined conflict                    *)
(*    -k  in the memory pool, mined within the next k blocks               *)
(*    k   mined, with k confirmations (counted up to Cap[t])               *)
(***************************************************************************)
EXTENDS Integers

CONSTANTS
  Tx,         \* the transactions of one swap
  Chain,      \* Chain[t]: the network t belongs to
  Parent,     \* Parent[t]: the transaction whose swap output t spends
  Csv,        \* Csv[t]: confirmations of the parent that t must wait for
  MineDelay,  \* blocks within which a broadcast transaction is mined
  Cap         \* Cap[t]: confirmations beyond which nothing is decided

VARIABLES
  conf,       \* depth of every transaction
  sent        \* transactions ever broadcast, their witnesses are public

\* The parent of a transaction that spends ordinary wallet coins.
Wallet == "wallet"

\* Two transactions that spend the same swap output.
Conflicts(t, u) == t # u /\ Parent[t] = Parent[u] /\ Parent[t] # Wallet

\* The output t spends exists and its relative timelock has matured.
Mature(t) ==
  Parent[t] \in Tx => IF Csv[t] = 0 THEN conf[Parent[t]] # 0
                                    ELSE conf[Parent[t]] >= Csv[t]

\* The output t spends was taken by another transaction in a block.
SpentByOther(t) == \E u \in Tx : Conflicts(t, u) /\ conf[u] > 0

\* The network may take t.
Accepts(t) == conf[t] = 0 /\ Mature(t) /\ ~SpentByOther(t)

\* Publishing t succeeds, again when it already waits in the pool.
Takes(t) == Accepts(t) \/ conf[t] < 0

\* The network may turn t down: it is not valid now, or the node asked
\* already holds a conflicting transaction in its memory pool.
Rejects(t) ==
  \/ conf[t] > 0 \/ ~Mature(t) \/ SpentByOther(t)
  \/ conf[t] = 0 /\ \E u \in Tx : Conflicts(t, u) /\ conf[u] < 0

\* Broadcasting the transactions T.
Broadcast(T) ==
  /\ \A t \in T : Takes(t)
  /\ conf' = [t \in Tx |->
                IF t \in T /\ conf[t] = 0 THEN -MineDelay ELSE conf[t]]
  /\ sent' = sent \union T

\* t drops out of the pools when the transactions S are mined.
Evicted(t, S) ==
  \E u \in S : Conflicts(t, u) \/ (Parent[t] \in Tx /\ Conflicts(Parent[t], u))

\* A pool transaction a miner can put into the next block.
Mineable(t) ==
  /\ conf[t] < 0
  /\ Parent[t] \in Tx => conf[Parent[t]] > 0

\* Depth of t after a block that mines the transactions S.
NextConf(t, S) ==
  IF conf[t] > 0 THEN IF conf[t] < Cap[t] THEN conf[t] + 1 ELSE conf[t]
  ELSE IF t \in S THEN 1
  ELSE IF Evicted(t, S) THEN 0
  ELSE IF Mineable(t) THEN conf[t] + 1
  ELSE conf[t]

\* Network c finds a block.  Of two conflicting transactions at most one is
\* mined, and no transaction is passed over for longer than MineDelay.
NewBlock(c) ==
  \E S \in SUBSET {t \in Tx : Chain[t] = c /\ Mineable(t)} :
    /\ \A t, u \in S : ~Conflicts(t, u)
    /\ \A t \in Tx : (Chain[t] = c /\ Mineable(t) /\ conf[t] = -1) =>
                       (t \in S \/ Evicted(t, S))
    /\ conf' = [t \in Tx |-> IF Chain[t] = c THEN NextConf(t, S) ELSE conf[t]]
    /\ sent' = sent
=============================================================================
