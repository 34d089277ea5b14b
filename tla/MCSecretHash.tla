---------------------------- MODULE MCSecretHash ----------------------------
(***************************************************************************)
(* SecretHashSwap for TLC.  A behaviour plays one part, which says who may *)
(* be late, what may be wrong and what may fail:                           *)
(*                                                                         *)
(*   "faults"       both engines are timely, with crashes and failures;    *)
(*   "settles"      both engines are timely and nothing fails;             *)
(*   "late_seller"  the seller's engine may be late or stay down;          *)
(*   "late_buyer"   the buyer's engine may be late or stay down;           *)
(*   "bad_lock"     a lock transaction may have a wrong amount.            *)
(***************************************************************************)
EXTENDS SecretHashSwap, TLAPS

CONSTANT Parts

VARIABLE part

\* All parts but the last begin without a wrong lock.
Sound == INSTANCE SecretHashSwap WITH Bad <- {}

Faulty == INSTANCE SecretHash_proofs WITH Bad <- {}

Settles == INSTANCE SecretHash_proofs WITH Bad <- {}, MaxFaults <- 0

LateSeller == INSTANCE SecretHash_proofs WITH
    Bad <- {}, MaxFaults <- 0, Late <- {"S"}, LockValue <- 9, WatchScripts <- FALSE

LateBuyer == INSTANCE SecretHash_proofs WITH Bad <- {}, MaxFaults <- 0, Late <- {"B"}

BadLock == INSTANCE SecretHash_proofs WITH MaxFaults <- 0

PartInit ==
    /\ part \in Parts
    /\ IF part = "bad_lock" THEN Init ELSE Sound!Init

PartNext ==
    \/ part = "faults" /\ Faulty!Next /\ UNCHANGED part
    \/ part = "settles" /\ Settles!Next /\ UNCHANGED part
    \/ part = "late_seller" /\ LateSeller!Next /\ UNCHANGED part
    \/ part = "late_buyer" /\ LateBuyer!Next /\ UNCHANGED part
    \/ part = "bad_lock" /\ BadLock!Next /\ UNCHANGED part

\* The main loop of a timely engine keeps running and is restarted, blocks are
\* found, and the accept message arrives.
Engines(n) ==
    \/ part = "settles" /\ Settles!Engine(n)
    \/ part = "late_seller" /\ n = "B" /\ LateSeller!Engine(n)
    \/ part = "late_buyer" /\ n = "S" /\ LateBuyer!Engine(n)
    \/ part = "bad_lock" /\ BadLock!Engine(n)

Blocks ==
    \/ part = "settles" /\ Settles!Tick
    \/ part = "late_seller" /\ LateSeller!Tick
    \/ part = "late_buyer" /\ LateBuyer!Tick
    \/ part = "bad_lock" /\ BadLock!Tick

PartFairness ==
    /\ WF_vars(UNCHANGED part /\ Blocks)
    /\ WF_vars(UNCHANGED part /\ part # "faults" /\ ProcessBidAccept)
    /\ \A n \in Nodes : WF_vars(UNCHANGED part /\ Engines(n))

PartSpec == PartInit /\ [][PartNext]_<<part, vars>> /\ PartFairness

-----------------------------------------------------------------------------
(* The promise of AtomicSwap.  It is one to a timely buyer: of the part in *)
(* which the buyer may be late nothing is promised.                        *)

Promised(coin) == IF part = "late_buyer" THEN "none" ELSE coin

Swaps == INSTANCE AtomicSwap WITH a <- Promised(CoinA), b <- Promised(CoinB)

\* ImplementsAtomicSwap, in every part but that: whenever the seller's engine runs,
\* and whatever crashes, the PTX is mined after the ITX, no outcome changes, and
\* nobody gets both coins.
PartsImplementAtomicSwap == Swaps!Spec

-----------------------------------------------------------------------------
\* Nobody gives a coin away.  The seller publishes the secret without looking at
\* what is left of the lock (participateTxnConfirmed), and a timely seller is
\* never overtaken by the refund of the PTX; a timely buyer does not end with
\* neither coin however late the seller acts; a lock of the wrong amount is not
\* answered with a coin or with the secret.
NobodyCheated ==
    /\ part \in {"faults", "late_buyer"} => SecretNeverRaced
    /\ part = "late_seller" => BuyerNotCheated
    /\ part = "bad_lock" => BadLockRefused

\* The records match the chains after a crash or a failure at any point: while a
\* coin is locked the engine that locked it has the bid in progress and watches
\* the lock, a recovered secret stays queued to be used, and SWAP_COMPLETED is
\* only recorded of a swap that ended.
RecordsTrue ==
    part = "faults" => SellerTracksITX /\ BuyerTracksPTX /\ SecretUsed /\ EndStatesTrue

\* The coins do not stay locked: a timely party gets its lock spent whatever the
\* other one does, and with two timely engines a PTX that was sent leads to both
\* coins changing hands.
CoinLocked ==
    \/ part \in {"settles", "late_seller", "bad_lock"} /\ "ptx" \in sent
    \/ part = "late_buyer" /\ "itx" \in sent

CoinFreed ==
    \/ part = "settles" /\ Mined("ptx_redeem") /\ Mined("itx_redeem")
    \/ part \in {"late_seller", "bad_lock"} /\ Spent("ptx")
    \/ part = "late_buyer" /\ Spent("itx")

LocksSettle == CoinLocked ~> CoinFreed

-----------------------------------------------------------------------------
(***************************************************************************)
(* What the theorems about one swap say of the five parts: a behaviour     *)
(* plays one part all along, as the specification says with that part's    *)
(* constants.                                                              *)
(***************************************************************************)

\* The parts there are, and that the engines that are not late have the time to
\* act in.
ASSUME PartsAssumption ==
    /\ Parts \subseteq {"faults", "settles", "late_seller", "late_buyer", "bad_lock"}
    /\ Faulty!TimelyAccept /\ Faulty!TimelyBuyer /\ Settles!TimelyBuyer
    /\ LateSeller!TimelyBuyer /\ LateBuyer!TimelySeller /\ BadLock!TimelyBuyer
    /\ LateSeller!TimesAssumption

\* What SecretHashSwap assumes of its constants holds of every part's.
LEMMA PartConstants ==
    /\ Faulty!TimesAssumption /\ Faulty!SettingsAssumption
    /\ Settles!TimesAssumption /\ Settles!SettingsAssumption
    /\ LateSeller!TimesAssumption /\ LateSeller!SettingsAssumption
    /\ LateBuyer!TimesAssumption /\ LateBuyer!SettingsAssumption
    /\ BadLock!TimesAssumption /\ BadLock!SettingsAssumption
BY TimesAssumption, SettingsAssumption, PartsAssumption
   DEF Faulty!TimesAssumption, Faulty!SettingsAssumption,
       Settles!TimesAssumption, Settles!SettingsAssumption,
       LateBuyer!TimesAssumption, LateBuyer!SettingsAssumption,
       BadLock!TimesAssumption, BadLock!SettingsAssumption,
       LateSeller!SettingsAssumption

\* A behaviour of the part "faults" is one of SecretHashSwap with that part's
\* constants, and one of another part never is; the same of the other parts.
LEMMA FaultyRuns ==
    PartInit /\ [][PartNext]_<<part, vars>> =>
        ([](part = "faults") /\ Faulty!Spec) \/ []~(part = "faults")
<1>1. PartInit /\ part = "faults" => Faulty!Init
  BY DEF PartInit,
         Faulty!Init, Faulty!Tx, Faulty!Nodes, Faulty!NoBid, Sound!Init, Sound!Tx,
         Sound!Nodes, Sound!NoBid
<1>2. [PartNext]_<<part, vars>> /\ part = "faults" =>
        [Faulty!Next]_(Faulty!vars) /\ (part = "faults")'
  BY DEF PartNext, vars, Faulty!vars
<1>3. [PartNext]_<<part, vars>> /\ ~(part = "faults") => (~(part = "faults"))'
  BY DEF PartNext
<1> QED
  BY <1>1, <1>2, <1>3, PTL DEF Faulty!Spec

\* The same of "settles".
LEMMA SettlesRuns ==
    PartInit /\ [][PartNext]_<<part, vars>> =>
        ([](part = "settles") /\ Settles!Spec) \/ []~(part = "settles")
<1>1. PartInit /\ part = "settles" => Settles!Init
  BY DEF PartInit,
         Settles!Init, Settles!Tx, Settles!Nodes, Settles!NoBid,
         Sound!Init, Sound!Tx, Sound!Nodes, Sound!NoBid
<1>2. [PartNext]_<<part, vars>> /\ part = "settles" =>
        [Settles!Next]_(Settles!vars) /\ (part = "settles")'
  BY DEF PartNext, vars, Settles!vars
<1>3. [PartNext]_<<part, vars>> /\ ~(part = "settles") => (~(part = "settles"))'
  BY DEF PartNext
<1> QED
  BY <1>1, <1>2, <1>3, PTL DEF Settles!Spec

\* The same of "late_seller".
LEMMA LateSellerRuns ==
    PartInit /\ [][PartNext]_<<part, vars>> =>
        ([](part = "late_seller") /\ LateSeller!Spec) \/ []~(part = "late_seller")
<1>1. PartInit /\ part = "late_seller" => LateSeller!Init
  BY DEF PartInit,
         LateSeller!Init, LateSeller!Tx, LateSeller!Nodes, LateSeller!NoBid, Sound!Init,
         Sound!Tx, Sound!Nodes, Sound!NoBid
<1>2. [PartNext]_<<part, vars>> /\ part = "late_seller" =>
        [LateSeller!Next]_(LateSeller!vars) /\ (part = "late_seller")'
  BY DEF PartNext, vars, LateSeller!vars
<1>3. [PartNext]_<<part, vars>> /\ ~(part = "late_seller") => (~(part = "late_seller"))'
  BY DEF PartNext
<1> QED
  BY <1>1, <1>2, <1>3, PTL DEF LateSeller!Spec

\* The same of "late_buyer".
LEMMA LateBuyerRuns ==
    PartInit /\ [][PartNext]_<<part, vars>> =>
        ([](part = "late_buyer") /\ LateBuyer!Spec) \/ []~(part = "late_buyer")
<1>1. PartInit /\ part = "late_buyer" => LateBuyer!Init
  BY DEF PartInit,
         LateBuyer!Init, LateBuyer!Tx, LateBuyer!Nodes, LateBuyer!NoBid, Sound!Init,
         Sound!Tx, Sound!Nodes, Sound!NoBid
<1>2. [PartNext]_<<part, vars>> /\ part = "late_buyer" =>
        [LateBuyer!Next]_(LateBuyer!vars) /\ (part = "late_buyer")'
  BY DEF PartNext, vars, LateBuyer!vars
<1>3. [PartNext]_<<part, vars>> /\ ~(part = "late_buyer") => (~(part = "late_buyer"))'
  BY DEF PartNext
<1> QED
  BY <1>1, <1>2, <1>3, PTL DEF LateBuyer!Spec

\* The same of "bad_lock".
LEMMA BadLockRuns ==
    PartInit /\ [][PartNext]_<<part, vars>> =>
        ([](part = "bad_lock") /\ BadLock!Spec) \/ []~(part = "bad_lock")
<1>1. PartInit /\ part = "bad_lock" => BadLock!Init
  BY DEF PartInit,
         BadLock!Init, BadLock!Tx, BadLock!Nodes, BadLock!NoBid, Init, Tx, Nodes, NoBid
<1>2. [PartNext]_<<part, vars>> /\ part = "bad_lock" =>
        [BadLock!Next]_(BadLock!vars) /\ (part = "bad_lock")'
  BY DEF PartNext, vars, BadLock!vars
<1>3. [PartNext]_<<part, vars>> /\ ~(part = "bad_lock") => (~(part = "bad_lock"))'
  BY DEF PartNext
<1> QED
  BY <1>1, <1>2, <1>3, PTL DEF BadLock!Spec

\* NobodyCheated holds in every part: the secret that participateTxnConfirmed
\* publishes is never overtaken by a timely seller's refund, a timely buyer gets its
\* coin or the seller's, and a lock of the wrong amount is refused (checkBidState).
THEOREM Honest == PartSpec => []NobodyCheated
<1>1. Faulty!Spec => []SecretNeverRaced
  <2>1. Faulty!TimelySeller
    BY PartsAssumption DEF Faulty!TimelyAccept
  <2>2. Faulty!Spec => []( /\ Faulty!SecretNeverRaced
                           /\ "ptx_redeem" \in sent => conf["ptx_redeem"] # 0)
    BY <2>1, PartConstants, Faulty!SecretHeld
  <2>3. Faulty!SecretNeverRaced => SecretNeverRaced
    BY DEF SecretNeverRaced, Faulty!SecretNeverRaced
  <2> QED
    BY <2>2, <2>3, PTL
<1>2. LateBuyer!Spec => []SecretNeverRaced
  <2>1. LateBuyer!TimelySeller
    BY PartsAssumption DEF Faulty!TimelyAccept
  <2>2. LateBuyer!Spec => []( /\ LateBuyer!SecretNeverRaced
                              /\ "ptx_redeem" \in sent => conf["ptx_redeem"] # 0)
    BY <2>1, PartConstants, LateBuyer!SecretHeld
  <2>3. LateBuyer!SecretNeverRaced => SecretNeverRaced
    BY DEF SecretNeverRaced, LateBuyer!SecretNeverRaced
  <2> QED
    BY <2>2, <2>3, PTL
<1>3. LateSeller!Spec => []BuyerNotCheated
  <2>1. LateSeller!Spec => [](LateSeller!BuyerNotCheated /\ LateSeller!BuyerTracksPTX
                             /\ LateSeller!SecretUsed)
    BY PartsAssumption, PartConstants, LateSeller!BuyerSafe
  <2>2. LateSeller!BuyerNotCheated => BuyerNotCheated
    BY DEF BuyerNotCheated, LateSeller!BuyerNotCheated
  <2> QED
    BY <2>1, <2>2, PTL
<1>4. BadLock!Spec => []BadLockRefused
  <2>1. BadLock!Spec => []BadLock!BadLockRefused
    BY PartConstants, BadLock!WrongLocksRefused
  <2>2. BadLock!BadLockRefused => BadLockRefused
    BY DEF BadLockRefused, BadLock!BadLockRefused
  <2> QED
    BY <2>1, <2>2, PTL
<1>5. /\ part = "faults" => SecretNeverRaced
      /\ part = "late_buyer" => SecretNeverRaced
      /\ part = "late_seller" => BuyerNotCheated
      /\ part = "bad_lock" => BadLockRefused
      => NobodyCheated
  BY DEF NobodyCheated
<1> QED
  BY <1>1, <1>2, <1>3, <1>4, <1>5, FaultyRuns, LateBuyerRuns, LateSellerRuns, BadLockRuns, PTL
     DEF PartSpec

\* RecordsTrue holds: whatever saveBid, saveBidInSession and loadFromDB leave in the
\* database after a crash or a failure, the lock that was sent stays tracked, the
\* secret stays queued and SWAP_COMPLETED is the truth.
THEOREM Recorded == PartSpec => []RecordsTrue
<1>1. Faulty!Spec => []SellerTracksITX
  <2>1. Faulty!Spec => []Faulty!SellerTracksITX
    BY PartsAssumption, PartConstants, Faulty!SellerTracks
  <2>2. Faulty!SellerTracksITX => SellerTracksITX
    BY DEF Faulty!SellerTracksITX, Faulty!Spent, Faulty!NoBid, Faulty!Tx, Faulty!Parent,
           SellerTracksITX, Spent, NoBid, Tx, Parent
  <2> QED
    BY <2>1, <2>2, PTL
<1>2. Faulty!Spec => [](BuyerTracksPTX /\ SecretUsed)
  <2>1. Faulty!Spec => [](Faulty!BuyerNotCheated /\ Faulty!BuyerTracksPTX /\ Faulty!SecretUsed)
    BY PartsAssumption, PartConstants, Faulty!BuyerSafe
  <2>2. Faulty!BuyerTracksPTX /\ Faulty!SecretUsed => BuyerTracksPTX /\ SecretUsed
    BY DEF Faulty!BuyerTracksPTX, Faulty!SecretUsed, Faulty!Spent, Faulty!Tx, Faulty!Parent,
           BuyerTracksPTX, SecretUsed, Spent, Tx, Parent
  <2> QED
    BY <2>1, <2>2, PTL
<1>3. Faulty!Spec => []EndStatesTrue
  <2>1. Faulty!Spec => []Faulty!EndStatesTrue
    BY PartConstants, Faulty!EndsTrue
  <2>2. Faulty!EndStatesTrue => EndStatesTrue
    BY DEF Faulty!EndStatesTrue, Faulty!Spent, Faulty!Tx, Faulty!Parent, EndStatesTrue, Spent, Tx,
           Parent
  <2> QED
    BY <2>1, <2>2, PTL
<1>4. (part = "faults" => SellerTracksITX /\ (BuyerTracksPTX /\ SecretUsed) /\ EndStatesTrue)
      => RecordsTrue
  BY DEF RecordsTrue
<1> QED
  BY <1>1, <1>2, <1>3, <1>4, FaultyRuns, PTL DEF PartSpec

\* A swap of the part "faults" keeps the promise of AtomicSwap, with the coins as
\* the suite names them; the same of the parts below.
LEMMA FaultyImplements ==
    Faulty!Spec /\ [](part = "faults") => PartsImplementAtomicSwap
<1>1. Faulty!Spec => Faulty!ImplementsAtomicSwap
  BY PartsAssumption, PartConstants, Faulty!Implements
<1>2. CoinA = Faulty!CoinA /\ CoinB = Faulty!CoinB
  BY DEF Faulty!CoinA, Faulty!CoinB, Faulty!Mined, CoinA, CoinB, Mined
<1>3. (CoinA = Faulty!CoinA)' /\ (CoinB = Faulty!CoinB)'
  BY DEF Faulty!CoinA, Faulty!CoinB, Faulty!Mined, CoinA, CoinB, Mined
<1>4. part = "faults" /\ Faulty!Swap!Init => Swaps!Init
  BY <1>2 DEF Faulty!Swap!Init, Swaps!Init, Promised
<1>5. part = "faults" /\ (part = "faults")' /\ [Faulty!Swap!Move]_(Faulty!Swap!vars) =>
        [Swaps!Move]_(Swaps!vars)
  <2>1. SUFFICES ASSUME part = "faults", part' = "faults",
                        [Faulty!Swap!Move]_(Faulty!Swap!vars)
                 PROVE  [Swaps!Move]_(Swaps!vars)
    OBVIOUS
  <2>2. /\ Promised(CoinA) = Faulty!CoinA /\ Promised(CoinB) = Faulty!CoinB
        /\ Promised(CoinA)' = Faulty!CoinA' /\ Promised(CoinB)' = Faulty!CoinB'
    BY <1>2, <1>3, <2>1 DEF Promised
  <2> QED
    BY <2>1, <2>2 DEF Faulty!Swap!Move, Faulty!Swap!vars, Faulty!Swap!After, Faulty!Swap!Fair,
                      Swaps!Move, Swaps!vars, Swaps!After, Swaps!Fair
<1> QED
  BY <1>1, <1>4, <1>5, PTL
     DEF Faulty!ImplementsAtomicSwap, Faulty!Swap!Spec, PartsImplementAtomicSwap, Swaps!Spec

\* The same of "settles".
LEMMA SettlesImplements ==
    Settles!Spec /\ [](part = "settles") => PartsImplementAtomicSwap
<1>1. Settles!Spec => Settles!ImplementsAtomicSwap
  BY PartsAssumption, PartConstants, Settles!Implements
<1>2. CoinA = Settles!CoinA /\ CoinB = Settles!CoinB
  BY DEF Settles!CoinA, Settles!CoinB, Settles!Mined, CoinA, CoinB, Mined
<1>3. (CoinA = Settles!CoinA)' /\ (CoinB = Settles!CoinB)'
  BY DEF Settles!CoinA, Settles!CoinB, Settles!Mined, CoinA, CoinB, Mined
<1>4. part = "settles" /\ Settles!Swap!Init => Swaps!Init
  BY <1>2 DEF Settles!Swap!Init, Swaps!Init, Promised
<1>5. part = "settles" /\ (part = "settles")' /\ [Settles!Swap!Move]_(Settles!Swap!vars) =>
        [Swaps!Move]_(Swaps!vars)
  <2>1. SUFFICES ASSUME part = "settles", part' = "settles",
                        [Settles!Swap!Move]_(Settles!Swap!vars)
                 PROVE  [Swaps!Move]_(Swaps!vars)
    OBVIOUS
  <2>2. /\ Promised(CoinA) = Settles!CoinA /\ Promised(CoinB) = Settles!CoinB
        /\ Promised(CoinA)' = Settles!CoinA' /\ Promised(CoinB)' = Settles!CoinB'
    BY <1>2, <1>3, <2>1 DEF Promised
  <2> QED
    BY <2>1, <2>2 DEF Settles!Swap!Move, Settles!Swap!vars, Settles!Swap!After, Settles!Swap!Fair,
                      Swaps!Move, Swaps!vars, Swaps!After, Swaps!Fair
<1> QED
  BY <1>1, <1>4, <1>5, PTL
     DEF Settles!ImplementsAtomicSwap, Settles!Swap!Spec, PartsImplementAtomicSwap, Swaps!Spec

\* The same of "late_seller".
LEMMA LateSellerImplements ==
    LateSeller!Spec /\ [](part = "late_seller") => PartsImplementAtomicSwap
<1>1. LateSeller!Spec => LateSeller!ImplementsAtomicSwap
  BY PartsAssumption, PartConstants, LateSeller!Implements
<1>2. CoinA = LateSeller!CoinA /\ CoinB = LateSeller!CoinB
  BY DEF LateSeller!CoinA, LateSeller!CoinB, LateSeller!Mined, CoinA, CoinB, Mined
<1>3. (CoinA = LateSeller!CoinA)' /\ (CoinB = LateSeller!CoinB)'
  BY DEF LateSeller!CoinA, LateSeller!CoinB, LateSeller!Mined, CoinA, CoinB, Mined
<1>4. part = "late_seller" /\ LateSeller!Swap!Init => Swaps!Init
  BY <1>2 DEF LateSeller!Swap!Init, Swaps!Init, Promised
<1>5. /\ part = "late_seller" /\ (part = "late_seller")'
      /\ [LateSeller!Swap!Move]_(LateSeller!Swap!vars)
      => [Swaps!Move]_(Swaps!vars)
  <2>1. SUFFICES ASSUME part = "late_seller", part' = "late_seller",
                        [LateSeller!Swap!Move]_(LateSeller!Swap!vars)
                 PROVE  [Swaps!Move]_(Swaps!vars)
    OBVIOUS
  <2>2. /\ Promised(CoinA) = LateSeller!CoinA /\ Promised(CoinB) = LateSeller!CoinB
        /\ Promised(CoinA)' = LateSeller!CoinA' /\ Promised(CoinB)' = LateSeller!CoinB'
    BY <1>2, <1>3, <2>1 DEF Promised
  <2> QED
    BY <2>1, <2>2 DEF LateSeller!Swap!Move, LateSeller!Swap!vars, LateSeller!Swap!After,
                      LateSeller!Swap!Fair, Swaps!Move, Swaps!vars, Swaps!After, Swaps!Fair
<1> QED
  BY <1>1, <1>4, <1>5, PTL
     DEF LateSeller!ImplementsAtomicSwap, LateSeller!Swap!Spec, PartsImplementAtomicSwap, Swaps!Spec

\* The same of "bad_lock".
LEMMA BadLockImplements ==
    BadLock!Spec /\ [](part = "bad_lock") => PartsImplementAtomicSwap
<1>1. BadLock!Spec => BadLock!ImplementsAtomicSwap
  BY PartsAssumption, PartConstants, BadLock!Implements
<1>2. CoinA = BadLock!CoinA /\ CoinB = BadLock!CoinB
  BY DEF BadLock!CoinA, BadLock!CoinB, BadLock!Mined, CoinA, CoinB, Mined
<1>3. (CoinA = BadLock!CoinA)' /\ (CoinB = BadLock!CoinB)'
  BY DEF BadLock!CoinA, BadLock!CoinB, BadLock!Mined, CoinA, CoinB, Mined
<1>4. part = "bad_lock" /\ BadLock!Swap!Init => Swaps!Init
  BY <1>2 DEF BadLock!Swap!Init, Swaps!Init, Promised
<1>5. part = "bad_lock" /\ (part = "bad_lock")' /\ [BadLock!Swap!Move]_(BadLock!Swap!vars) =>
        [Swaps!Move]_(Swaps!vars)
  <2>1. SUFFICES ASSUME part = "bad_lock", part' = "bad_lock",
                        [BadLock!Swap!Move]_(BadLock!Swap!vars)
                 PROVE  [Swaps!Move]_(Swaps!vars)
    OBVIOUS
  <2>2. /\ Promised(CoinA) = BadLock!CoinA /\ Promised(CoinB) = BadLock!CoinB
        /\ Promised(CoinA)' = BadLock!CoinA' /\ Promised(CoinB)' = BadLock!CoinB'
    BY <1>2, <1>3, <2>1 DEF Promised
  <2> QED
    BY <2>1, <2>2 DEF BadLock!Swap!Move, BadLock!Swap!vars, BadLock!Swap!After, BadLock!Swap!Fair,
                      Swaps!Move, Swaps!vars, Swaps!After, Swaps!Fair
<1> QED
  BY <1>1, <1>4, <1>5, PTL
     DEF BadLock!ImplementsAtomicSwap, BadLock!Swap!Spec, PartsImplementAtomicSwap, Swaps!Spec

\* Every part but "late_buyer" keeps the promise of AtomicSwap, step by step: what
\* the engines and the chains do to the ITX and the PTX is a move of the abstract
\* exchange or changes nothing of it.
THEOREM Promises == PartSpec => PartsImplementAtomicSwap
<1>1. PartInit /\ [][PartNext]_<<part, vars>> /\ [](part = "late_buyer") =>
        PartsImplementAtomicSwap
  <2>1. part = "late_buyer" => Swaps!Init
    BY DEF Swaps!Init, Promised
  <2>2. part = "late_buyer" /\ (part = "late_buyer")' => [Swaps!Move]_(Swaps!vars)
    BY DEF Swaps!vars, Promised
  <2> QED
    BY <2>1, <2>2, PTL DEF PartsImplementAtomicSwap, Swaps!Spec
<1>2. PartInit => \/ part = "faults" \/ part = "settles" \/ part = "late_seller"
                  \/ part = "late_buyer" \/ part = "bad_lock"
  BY PartsAssumption DEF PartInit
<1> QED
  BY <1>1, <1>2, FaultyRuns, SettlesRuns, LateSellerRuns, LateBuyerRuns, BadLockRuns,
     FaultyImplements, SettlesImplements, LateSellerImplements, BadLockImplements, PTL
     DEF PartSpec
=============================================================================
