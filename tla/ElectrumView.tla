---------------------------- MODULE ElectrumView ----------------------------
(***************************************************************************)
(* What a light wallet believes about one transaction of a swap, when the  *)
(* coin is used through Electrum servers: the answers of                   *)
(* _getLockTxHeightElectrum (depth and height of a lock transaction) and   *)
(* of getBatchUnspent / getUnspentOutputs (the outputs an address holds).  *)
(*                                                                         *)
(* Nothing here is read at one instant.  The chain height is the highest   *)
(* one a header notification ever brought; the transaction is looked up    *)
(* later, at the server connected then, which may lag the chain or be      *)
(* ahead of the height in hand; the depth is cached in the wallet database *)
(* for 300 s and a verified Merkle proof for as long as the process runs,  *)
(* while the chain may be reorganised under all of them.                   *)
(*                                                                         *)
(* The servers are honest: each answers from a past state of the chain.    *)
(***************************************************************************)
EXTENDS Integers, FiniteSets, FiniteSetsExt

CONSTANTS
    Servers,     \* the Electrum servers of the coin
    MaxTip,      \* bound: height of the best chain
    MaxReorgs    \* bound: reorganisations that move the transaction

\* What is assumed of the constants.
ConstantsOK ==
    /\ IsFiniteSet(Servers) /\ Servers # {}
    /\ MaxTip \in Nat \ {0} /\ MaxReorgs \in Nat

VARIABLES
    tip,         \* height of the best chain
    at,          \* height of the transaction in it, 0 while it is in the mempool
    past,        \* every height the transaction was ever mined at
    reorgs,      \* reorganisations so far
    view,        \* [server -> what it knows: tip and at]
    cur,         \* the server connected to
    sub,         \* ElectrumServer._subscribed_height
    wmc,         \* the height cached in wallet_tx_cache, 0 for no row
    mv,          \* BTCInterface._merkle_verified[txid], 0 for none
    q,           \* [kind of query -> the height it read, Idle if none runs]
    ans,         \* the last answer of getLockTxHeight
    unsp         \* what the last getBatchUnspent said of the output

vars == <<tip, at, past, reorgs, view, cur, sub, wmc, mv, q, ans, unsp>>

chainVars == <<tip, at, past, reorgs>>

answerVars == <<wmc, mv, ans, unsp>>

Heights == 0..MaxTip

\* The swap loop asks for the lock transaction, another thread for the outputs.
Kinds == {"lock", "unspent"}

Idle == -1

NoAnswer == [depth |-> 0, height |-> 0]

Init ==
    /\ tip = 1 /\ at = 0 /\ past = {} /\ reorgs = 0
    /\ view = [s \in Servers |-> [tip |-> 1, at |-> 0]]
    /\ cur \in Servers
    /\ sub \in {0, 1} /\ wmc = 0 /\ mv = 0
    /\ q = [kind \in Kinds |-> Idle] /\ ans = NoAnswer /\ unsp = "given"

-----------------------------------------------------------------------------
(* The chain and the servers *)

\* A block is found; it may contain the transaction.
Mine ==
    /\ tip < MaxTip
    /\ tip' = tip + 1
    /\ at' \in IF at = 0 THEN {0, tip + 1} ELSE {at}
    /\ past' = past \union ({at'} \ {0})
    /\ UNCHANGED <<reorgs, view, cur, sub, q, answerVars>>

\* A longer branch takes over: the transaction is in a later block or in none.
Reorganise ==
    /\ at # 0 /\ tip < MaxTip /\ reorgs < MaxReorgs
    /\ tip' = tip + 1
    /\ at' \in {0} \union ((at + 1)..(tip + 1))
    /\ past' = past \union ({at'} \ {0})
    /\ reorgs' = reorgs + 1
    /\ UNCHANGED <<view, cur, sub, q, answerVars>>

\* A server catches up with the chain.
ServerSync(s) ==
    /\ view[s] # [tip |-> tip, at |-> at]
    /\ view' = [view EXCEPT ![s] = [tip |-> tip, at |-> at]]
    /\ UNCHANGED <<chainVars, cur, sub, q, answerVars>>

\* _on_header_update: the height in hand only ever grows.
OnHeaderUpdate(h) == IF h > sub THEN h ELSE sub

\* A header notification of the connected server arrives.
Header ==
    /\ sub' = OnHeaderUpdate(view[cur].tip)
    /\ sub' # sub
    /\ UNCHANGED <<chainVars, view, cur, q, answerVars>>

\* _reconnect ends at another server; _subscribe_headers is called there, and
\* its failure is swallowed.
Switch(s) ==
    /\ s # cur
    /\ cur' = s
    /\ sub' \in {sub, OnHeaderUpdate(view[s].tip)}
    /\ UNCHANGED <<chainVars, view, q, answerVars>>

-----------------------------------------------------------------------------
(* getLockTxHeight *)

\* getBlockHeight: the subscribed height; before any header came, the height
\* the server is asked for, or 0 when it does not answer.
BlockHeights == IF sub > 0 THEN {sub} ELSE {0, view[cur].tip}

\* The height a query works with is read before the server is asked.
Begin(kind) ==
    /\ q[kind] = Idle
    /\ \E h \in BlockHeights : q' = [q EXCEPT ![kind] = h]
    /\ UNCHANGED <<chainVars, view, cur, sub, answerVars>>

\* _verifyTxMerkleElectrum: a proof verified before at this height is taken
\* from the cache, otherwise the server has a proof only where the
\* transaction is.  The call may fail, which is not an answer (None).
VerifyTxMerkle(h) ==
    IF h <= 0 THEN {"none"}
    ELSE IF mv = h THEN {"true"}
    ELSE IF view[cur].at = h THEN {"true", "none"} ELSE {"none"}

\* Mutant: the depth without its lower bound.
DepthUnbounded(h) == q["lock"] - h + 1

\* A verified transaction has a confirmation, whatever the height in hand.
Depth(h) == Max({1, q["lock"] - h + 1})

\* The row of wallet_tx_cache is there: its height is verified again.
LockTxCached ==
    /\ q["lock"] # Idle /\ wmc # 0
    /\ \E v \in VerifyTxMerkle(wmc) :
          /\ ans' = IF v = "true" THEN [depth |-> Depth(wmc), height |-> wmc]
                                  ELSE NoAnswer
          /\ mv' = IF v = "true" THEN wmc ELSE mv
    /\ q' = [q EXCEPT !["lock"] = Idle]
    /\ UNCHANGED <<chainVars, view, cur, sub, wmc, unsp>>

\* The confirmations the connected server reports.
Reported == IF view[cur].at = 0 THEN 0 ELSE view[cur].tip - view[cur].at + 1

\* The height derived from them with the chain height in hand: wrong whenever
\* that height is not the server's, and negative if it is 0.
Derived == IF view[cur].at = 0 THEN 0 ELSE q["lock"] - Reported + 1

\* The height that is verified first: that of the history if none was derived.
Claimed == IF Derived = 0 THEN view[cur].at ELSE Derived

\* Mutant: a transaction that could not be verified keeps the claimed height.
HeightsTrusted == {Claimed}

\* The heights the lookup may settle on: the claimed one if it verifies, else
\* the one of the address history if that does, else 0.
HeightsFound ==
    LET first == VerifyTxMerkle(Claimed)
        again == IF view[cur].at # Claimed THEN VerifyTxMerkle(view[cur].at) ELSE {"none"}
    IN  (IF "true" \in first THEN {Claimed} ELSE {})
          \union (IF "none" \in first /\ "true" \in again THEN {view[cur].at} ELSE {})
          \union (IF "none" \in first /\ "none" \in again THEN {0} ELSE {})

\* Mutant: the chain height in hand bounds the depth from below at 0 only.
LockTxLookupLagging ==
    /\ q["lock"] # Idle /\ wmc = 0 /\ Claimed >= 0
    /\ \E h \in HeightsFound :
          /\ ans' = IF h > 0 THEN [depth |-> Max({0, q["lock"] - h + 1}), height |-> h]
                             ELSE NoAnswer
          /\ wmc' = IF h > 0 THEN h ELSE wmc
          /\ mv' = IF h > 0 THEN h ELSE mv
    /\ q' = [q EXCEPT !["lock"] = Idle]
    /\ UNCHANGED <<chainVars, view, cur, sub, unsp>>

\* No row: the transaction is asked for, its height verified, and a verified
\* height is cached in the database and in memory.
LockTxLookup ==
    /\ q["lock"] # Idle /\ wmc = 0 /\ Claimed >= 0
    /\ \E h \in HeightsFound :
          /\ ans' = IF h > 0 THEN [depth |-> Depth(h), height |-> h] ELSE NoAnswer
          /\ wmc' = IF h > 0 THEN h ELSE wmc
          /\ mv' = IF h > 0 THEN h ELSE mv
    /\ q' = [q EXCEPT !["lock"] = Idle]
    /\ UNCHANGED <<chainVars, view, cur, sub, unsp>>

\* A negative height is neither looked up in the history nor verified: the
\* confirmations the server reported are the answer as they are.
LockTxUnverified ==
    /\ q["lock"] # Idle /\ wmc = 0 /\ Claimed < 0
    /\ ans' = [depth |-> Reported, height |-> 0]
    /\ q' = [q EXCEPT !["lock"] = Idle]
    /\ UNCHANGED <<chainVars, view, cur, sub, wmc, mv, unsp>>

\* A server that does not answer: nothing is known, the call for the lock
\* transaction returns None and the one for the outputs raises.
QueryFails(kind) ==
    /\ q[kind] # Idle
    /\ q' = [q EXCEPT ![kind] = Idle]
    /\ unsp' = IF kind = "unspent" THEN "raised" ELSE unsp
    /\ UNCHANGED <<chainVars, view, cur, sub, wmc, mv, ans>>

\* Mutant: the cached confirmations are kept until they are replaced.
KeepCacheRow == FALSE /\ UNCHANGED vars

\* getCachedTxConfirmations deletes the row once its 300 s are over.
CacheExpires ==
    /\ wmc # 0
    /\ wmc' = 0
    /\ UNCHANGED <<chainVars, view, cur, sub, mv, q, ans, unsp>>

\* A restart forgets the proofs and the heights; the cached row stays.
Restart ==
    /\ mv # 0
    /\ q' = [kind \in Kinds |-> Idle]
    /\ mv' = 0
    /\ sub' = view[cur].tip
    /\ UNCHANGED <<chainVars, view, cur, wmc, ans, unsp>>

-----------------------------------------------------------------------------
(* getBatchUnspent, getUnspentOutputs *)

\* Confirmations of the output as the wallet computes them.
Confirmations == IF view[cur].at <= 0 THEN 0 ELSE q["unspent"] - view[cur].at + 1

\* The server lists the output, mined or not; it is kept when it has the
\* confirmations asked for, which is 0 for a wallet that funds a transaction.
Unspent ==
    /\ q["unspent"] # Idle
    /\ unsp' = IF Confirmations >= 0 THEN "given" ELSE "omitted"
    /\ q' = [q EXCEPT !["unspent"] = Idle]
    /\ UNCHANGED <<chainVars, view, cur, sub, wmc, mv, ans>>

-----------------------------------------------------------------------------
Next ==
    \/ Mine
    \/ Reorganise
    \/ \E s \in Servers : ServerSync(s) \/ Switch(s)
    \/ Header
    \/ \E kind \in Kinds : Begin(kind) \/ QueryFails(kind)
    \/ LockTxCached
    \/ LockTxLookup
    \/ LockTxUnverified
    \/ CacheExpires
    \/ Restart
    \/ Unspent

Spec == Init /\ [][Next]_vars

-----------------------------------------------------------------------------
(* Properties *)

\* The variables stay in their types.
TypeOK ==
    /\ tip \in Heights /\ at \in Heights /\ past \subseteq Heights
    /\ reorgs \in 0..MaxReorgs
    /\ view \in [Servers -> [tip : Heights, at : Heights]]
    /\ cur \in Servers
    /\ sub \in Heights /\ wmc \in Heights /\ mv \in Heights
    /\ q \in [Kinds -> Heights \union {Idle}]
    /\ ans \in [depth : Heights, height : Heights]
    /\ unsp \in {"given", "omitted", "raised"}

\* The depth a swap acts on was real: the transaction was mined at the height
\* answered, with at least that many blocks from it to the tip.  The height is
\* often derived from a chain height that is not the server's: only the Merkle
\* proof keeps a wrong one out.
DepthReal ==
    ans.depth > 0 =>
        \E h \in past : ans.height \in {0, h} /\ ans.depth <= tip - h + 1

\* A transaction whose proof was verified has a confirmation, however far the
\* chain height in hand lags: the comment of _getLockTxHeightElectrum.
VerifiedCounts == ans.height > 0 => ans.depth > 0

\* The answer gives no height that the transaction does not have (a proof that
\* cannot be fetched answers 0).
AnswerNotOld == ans.height \in {0, at}

\* The answer gives the height the transaction has.
AnswerRight == ans.height = at

=============================================================================
