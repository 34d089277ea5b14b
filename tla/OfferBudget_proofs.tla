------------------------ MODULE OfferBudget_proofs ------------------------
(***************************************************************************)
(* The budget of an offer, for any amounts and any number of bids: a       *)
(* tracked offer promises no more than it has, the reserve of a standing   *)
(* offer stays in the wallet, a strategy keeps its limit of bids, and a    *)
(* completed swap is counted once.                                         *)
(*                                                                         *)
(* What the code sums in SQL is a fold over a set of bids.  The first part *)
(* proves, by induction over finite sets, that it is a sum: of a union, of *)
(* a set and one bid more, of a part.  The second one reduces every action *)
(* to what it does to the bids in progress, the completed ones, the queue, *)
(* the wallet and the fills; the invariant has one part per promise.       *)
(***************************************************************************)
EXTENDS OfferBudget, FiniteSetTheorems, WellFoundedInduction, TLAPS

-----------------------------------------------------------------------------
\* Sums.  The fold of the community modules is a function chosen to satisfy its
\* recursive equation; that there is one is proved first.

\* A set of sets of bids that is not empty has a smallest set.
LEMMA SmallestSet ==
    ASSUME NEW B, IsFiniteSet(B), NEW T \in SUBSET SUBSET B, T # {}
    PROVE  \E s \in T : \A t \in T : ~(t \subseteq s /\ t # s)
<1>1. T \subseteq FiniteSubsetsOf(B)
  BY FS_FiniteSubsetsOfFinite
<1>2. PICK s \in T : \A t \in T : <<t, s>> \notin StrictSubsetOrdering(B)
  BY <1>1, FS_StrictSubsetOrderingWellFounded, WFMin, Zenon
<1>3. \A t \in T : ~(t \subseteq s /\ t # s)
  BY <1>2 DEF StrictSubsetOrdering
<1> QED
  BY <1>3

\* A set of natural numbers that is not empty has a smallest one.
LEMMA SmallestNumber ==
    ASSUME NEW T \in SUBSET Nat, T # {}
    PROVE  \E n \in T : \A m \in T : n <= m
<1>1. PICK n \in T : \A m \in T : <<m, n>> \notin OpToRel(<, Nat)
  BY NatLessThanWellFounded, WFMin, Zenon
<1>2. \A m \in T : ~(m < n)
  BY <1>1 DEF OpToRel
<1> QED
  BY <1>2

\* The bid that the fold takes out of s.
Pick(s) == CHOOSE b \in s : TRUE

\* The recursive equation of the fold, of a function g on sets of bids.
SumBody(g, s) == IF s = {} THEN 0 ELSE Amount[Pick(s)] + g[s \ {Pick(s)}]

\* Some function that satisfies it, as the community modules choose one.
Folded(S) == CHOOSE g : g = [s \in SUBSET S |-> SumBody(g, s)]

\* The bid that is taken is one of s.
LEMMA PickIn ==
    ASSUME NEW s, s # {}
    PROVE  Pick(s) \in s
BY DEF Pick

\* The sum of the model is that fold.
LEMMA SumIsFolded ==
    ASSUME NEW S
    PROVE  Sum(S) = Folded(S)[S]
BY DEF Sum, MapThenSumSet, MapThenFoldSet, Folded, SumBody, Pick

\* The recursive equation has a solution on every finite set.
LEMMA FoldExists ==
    ASSUME NEW S, IsFiniteSet(S)
    PROVE  \E g : g = [s \in SUBSET S |-> SumBody(g, s)]
<1> DEFINE Upto(n) == {s \in SUBSET S : Cardinality(s) <= n}
           Solves(g, n) == \A s \in Upto(n) : g[s] = SumBody(g, s)
           Unsolved == {n \in Nat : ~\E g : Solves(g, n)}
<1>1. \A s \in SUBSET S : IsFiniteSet(s) /\ Cardinality(s) \in Nat
  BY FS_Subset, FS_CardinalityType
<1>2. Unsolved = {}
  <2>1. SUFFICES ASSUME NEW k \in Unsolved PROVE FALSE
    OBVIOUS
  <2>2. PICK n \in Unsolved : \A m \in Unsolved : n <= m
    BY SmallestNumber
  <2>3. n # 0
    <3>1. Solves([s \in SUBSET S |-> 0], 0)
      BY <1>1, FS_EmptySet DEF SumBody
    <3> QED
      BY <3>1
  <2>4. n - 1 \in Nat /\ n - 1 \notin Unsolved
    BY <2>2, <2>3
  <2>5. PICK g : Solves(g, n - 1)
    BY <2>4
  <2> DEFINE h == [s \in SUBSET S |-> IF Cardinality(s) <= n - 1 THEN g[s] ELSE SumBody(g, s)]
  <2>6. ASSUME NEW s \in Upto(n) PROVE h[s] = SumBody(h, s)
    <3>1. h[s] = SumBody(g, s)
      BY <2>5
    <3>2. CASE s = {}
      BY <3>1, <3>2 DEF SumBody
    <3>3. CASE s # {}
      <4> DEFINE r == s \ {Pick(s)}
      <4>1. r \in SUBSET S /\ Cardinality(r) = Cardinality(s) - 1
        BY <1>1, <3>3, PickIn, FS_RemoveElement
      <4>2. h[r] = g[r]
        <5>1. Cardinality(r) <= n - 1
          BY <1>1, <4>1
        <5> QED
          BY <4>1, <5>1
      <4> QED
        BY <3>1, <3>3, <4>2 DEF SumBody
    <3> QED
      BY <3>2, <3>3
  <2>7. Solves(h, n)
    BY <2>6
  <2> QED
    BY <2>2, <2>7
<1>3. PICK g : Solves(g, Cardinality(S))
  BY <1>1, <1>2
<1> DEFINE h == [s \in SUBSET S |-> g[s]]
<1>4. ASSUME NEW s \in SUBSET S PROVE h[s] = SumBody(h, s)
  <2>1. g[s] = SumBody(g, s)
    BY <1>3, FS_Subset
  <2>2. s \ {Pick(s)} \in SUBSET S
    OBVIOUS
  <2> QED
    BY <2>1, <2>2 DEF SumBody
<1>5. h = [s \in SUBSET S |-> SumBody(h, s)]
  BY <1>4
<1> QED
  BY <1>5

\* The fold satisfies its equation.
LEMMA FoldedEquation ==
    ASSUME NEW S, IsFiniteSet(S), NEW s \in SUBSET S
    PROVE  Folded(S)[s] = SumBody(Folded(S), s)
<1>1. Folded(S) = [t \in SUBSET S |-> SumBody(Folded(S), t)]
  BY FoldExists DEF Folded
<1> QED
  BY <1>1

\* Bids is finite and the constants are as assumed.
Bounded == ConstantsOK /\ IsFiniteSet(Bids)

\* A smaller set of bids folds to the same sum on its own.
LEMMA FoldedIsSum ==
    ASSUME IsFiniteSet(Bids), NEW S \in SUBSET Bids, NEW s \in SUBSET S
    PROVE  Folded(S)[s] = Sum(s)
<1> DEFINE Odd == {t \in SUBSET Bids : \E U \in SUBSET Bids : t \subseteq U /\ Folded(U)[t] # Sum(t)}
<1>0. Odd \in SUBSET SUBSET Bids
  OBVIOUS
<1>1. SUFFICES ASSUME Odd # {} PROVE FALSE
  OBVIOUS
<1>2. PICK t \in Odd : \A u \in Odd : ~(u \subseteq t /\ u # t)
  <2> HIDE DEF Odd
  <2> QED
    BY <1>0, <1>1, SmallestSet
<1>3. PICK U \in SUBSET Bids : t \subseteq U /\ Folded(U)[t] # Sum(t)
  BY <1>2
<1>4. IsFiniteSet(U) /\ IsFiniteSet(t) /\ t \in SUBSET Bids
  BY <1>2, <1>3, FS_Subset
<1>5. Folded(U)[t] = SumBody(Folded(U), t) /\ Folded(t)[t] = SumBody(Folded(t), t)
  BY <1>3, <1>4, FoldedEquation
<1>6. SumBody(Folded(U), t) = SumBody(Folded(t), t)
  <2>1. CASE t = {}
    BY <2>1 DEF SumBody
  <2>2. CASE t # {}
    <3> DEFINE r == t \ {Pick(t)}
    <3>1. r \subseteq t /\ r # t
      BY <2>2, PickIn
    <3>2. r \notin Odd
      BY <1>2, <3>1
    <3>3. Folded(U)[r] = Sum(r) /\ Folded(t)[r] = Sum(r)
      BY <1>3, <1>4, <3>1, <3>2
    <3> QED
      BY <2>2, <3>3 DEF SumBody
  <2> QED
    BY <2>1, <2>2
<1> QED
  BY <1>3, <1>5, <1>6, SumIsFolded

\* The sum of no bids.
LEMMA SumEmpty == Sum({}) = 0
<1>1. IsFiniteSet({})
  BY FS_EmptySet
<1>2. Folded({})[{}] = SumBody(Folded({}), {})
  BY <1>1, FoldedEquation
<1> QED
  BY <1>2, SumIsFolded DEF SumBody

\* The bid the fold takes, and the rest.
LEMMA SumPick ==
    ASSUME IsFiniteSet(Bids), NEW S \in SUBSET Bids, S # {}
    PROVE  Sum(S) = Amount[Pick(S)] + Sum(S \ {Pick(S)})
<1>1. Folded(S)[S] = SumBody(Folded(S), S)
  BY FS_Subset, FoldedEquation
<1>2. Folded(S)[S \ {Pick(S)}] = Sum(S \ {Pick(S)})
  BY FoldedIsSum
<1> QED
  BY <1>1, <1>2, SumIsFolded DEF SumBody

\* A sum is a natural number.
LEMMA SumNat ==
    ASSUME Bounded, NEW S \in SUBSET Bids
    PROVE  Sum(S) \in Nat
<1> DEFINE Odd == {t \in SUBSET Bids : Sum(t) \notin Nat}
<1>0. Odd \in SUBSET SUBSET Bids
  OBVIOUS
<1>1. SUFFICES ASSUME Odd # {} PROVE FALSE
  OBVIOUS
<1>2. PICK t \in Odd : \A u \in Odd : ~(u \subseteq t /\ u # t)
  <2> HIDE DEF Odd
  <2> QED
    BY <1>0, <1>1, SmallestSet DEF Bounded
<1>3. t # {}
  BY <1>2, SumEmpty
<1>4. Pick(t) \in t
  BY <1>3, PickIn
<1>5. Sum(t \ {Pick(t)}) \in Nat
  BY <1>2, <1>4
<1>6. Amount[Pick(t)] \in Nat
  BY <1>2, <1>4 DEF Bounded, ConstantsOK
<1> QED
  BY <1>2, <1>3, <1>5, <1>6, SumPick DEF Bounded

\* Any bid can be taken out first.
LEMMA SumRemove ==
    ASSUME Bounded, NEW S \in SUBSET Bids, NEW b \in S
    PROVE  Sum(S) = Amount[b] + Sum(S \ {b})
<1> DEFINE Odd == {t \in SUBSET Bids : \E c \in t : Sum(t) # Amount[c] + Sum(t \ {c})}
<1>0. Odd \in SUBSET SUBSET Bids
  OBVIOUS
<1>1. SUFFICES ASSUME Odd # {} PROVE FALSE
  OBVIOUS
<1>2. PICK t \in Odd : \A u \in Odd : ~(u \subseteq t /\ u # t)
  <2> HIDE DEF Odd
  <2> QED
    BY <1>0, <1>1, SmallestSet DEF Bounded
<1>3. PICK c \in t : Sum(t) # Amount[c] + Sum(t \ {c})
  BY <1>2
<1> DEFINE p == Pick(t)
<1> DEFINE r == t \ {p}
<1>4. p \in t /\ t \in SUBSET Bids
  BY <1>2, <1>3, PickIn
<1>5. Sum(t) = Amount[p] + Sum(r)
  BY <1>3, <1>4, SumPick DEF Bounded
<1>6. p # c
  BY <1>3, <1>5
<1>7. c \in r /\ r \notin Odd /\ r \in SUBSET Bids
  BY <1>2, <1>4, <1>6
<1>8. Sum(r) = Amount[c] + Sum(r \ {c})
  BY <1>7
<1> DEFINE q == t \ {c}
<1>9. p \in q /\ q \notin Odd /\ q \in SUBSET Bids
  BY <1>2, <1>3, <1>4, <1>6
<1>10. Sum(q) = Amount[p] + Sum(q \ {p})
  BY <1>9
<1>11. r \ {c} = q \ {p}
  OBVIOUS
<1>12. Amount[c] \in Nat /\ Amount[p] \in Nat /\ Sum(q \ {p}) \in Nat
  BY <1>3, <1>4, <1>9, SumNat DEF Bounded, ConstantsOK
<1> QED
  <2> HIDE DEF p, q, r
  <2>1. Sum(t) = Amount[p] + (Amount[c] + Sum(q \ {p}))
    BY <1>5, <1>8, <1>11
  <2>2. Sum(t) = Amount[c] + Sum(q)
    BY <1>10, <1>12, <2>1
  <2> QED
    BY <1>3, <2>2 DEF q

\* One bid more.
LEMMA SumAdd ==
    ASSUME Bounded, NEW S \in SUBSET Bids, NEW b \in Bids, b \notin S
    PROVE  Sum(S \cup {b}) = Amount[b] + Sum(S)
<1>1. (S \cup {b}) \ {b} = S
  OBVIOUS
<1> QED
  BY <1>1, SumRemove, b \in S \cup {b}

\* A part is worth no more than the whole.
LEMMA SumMono ==
    ASSUME Bounded, NEW S \in SUBSET Bids, NEW R \in SUBSET S
    PROVE  Sum(R) <= Sum(S)
<1> DEFINE Odd == {t \in SUBSET Bids : R \subseteq t /\ ~(Sum(R) <= Sum(t))}
<1>0. Odd \in SUBSET SUBSET Bids
  OBVIOUS
<1>1. SUFFICES ASSUME Odd # {} PROVE FALSE
  OBVIOUS
<1>2. PICK t \in Odd : \A u \in Odd : ~(u \subseteq t /\ u # t)
  <2> HIDE DEF Odd
  <2> QED
    BY <1>0, <1>1, SmallestSet DEF Bounded
<1>3. Sum(R) \in Nat /\ Sum(t) \in Nat
  BY <1>2, SumNat
<1>4. PICK b \in t : b \notin R
  BY <1>2, <1>3
<1>5. Sum(t) = Amount[b] + Sum(t \ {b})
  BY <1>2, SumRemove
<1>6. t \ {b} \notin Odd
  BY <1>2, <1>4
<1>7. Sum(R) <= Sum(t \ {b})
  BY <1>2, <1>4, <1>6
<1>8. Sum(t \ {b}) \in Nat /\ Amount[b] \in Nat
  BY <1>2, SumNat DEF Bounded, ConstantsOK
<1> QED
  BY <1>2, <1>3, <1>5, <1>7, <1>8

\* A union is worth no more than its parts.
LEMMA SumUnion ==
    ASSUME Bounded, NEW S \in SUBSET Bids, NEW R \in SUBSET Bids
    PROVE  Sum(S \cup R) <= Sum(S) + Sum(R)
<1> DEFINE Odd == {t \in SUBSET Bids : ~(Sum(S \cup t) <= Sum(S) + Sum(t))}
<1>0. Odd \in SUBSET SUBSET Bids
  OBVIOUS
<1>1. SUFFICES ASSUME Odd # {} PROVE FALSE
  OBVIOUS
<1>2. PICK t \in Odd : \A u \in Odd : ~(u \subseteq t /\ u # t)
  <2> HIDE DEF Odd
  <2> QED
    BY <1>0, <1>1, SmallestSet DEF Bounded
<1>3. Sum(S) \in Nat /\ Sum(t) \in Nat /\ Sum(S \cup t) \in Nat
  BY <1>2, SumNat
<1>4. t # {}
  <2>1. SUFFICES ASSUME t = {} PROVE FALSE
    OBVIOUS
  <2>2. S \cup t = S
    BY <2>1
  <2>3. Sum(S \cup t) = Sum(S) + Sum(t)
    BY <1>3, <2>1, <2>2, SumEmpty
  <2> QED
    BY <1>2, <1>3, <2>3
<1>5. PICK b \in t : TRUE
  BY <1>4
<1> DEFINE r == t \ {b}
<1>6. Sum(t) = Amount[b] + Sum(r) /\ Sum(r) \in Nat /\ Amount[b] \in Nat
  BY <1>2, <1>5, SumRemove, SumNat DEF Bounded, ConstantsOK
<1>7. Sum(S \cup r) <= Sum(S) + Sum(r)
  BY <1>2, <1>5
<1>8. Sum(S \cup r) \in Nat
  BY <1>2, SumNat
<1>9. Sum(S \cup t) <= Amount[b] + Sum(S \cup r)
  <2>1. CASE b \in S
    <3>1. S \cup t = S \cup r
      BY <1>5, <2>1
    <3>2. Sum(S \cup t) = Sum(S \cup r)
      BY <3>1
    <3> HIDE DEF r
    <3> QED
      BY <1>3, <1>6, <1>8, <3>2
  <2>2. CASE b \notin S
    <3>1. S \cup t = (S \cup r) \cup {b}
      BY <1>5
    <3>2. Sum(S \cup t) = Amount[b] + Sum(S \cup r)
      BY <1>2, <1>5, <2>2, <3>1, SumAdd
    <3> QED
      BY <1>3, <3>2
  <2> QED
    BY <2>1, <2>2
<1> QED
  BY <1>2, <1>3, <1>6, <1>7, <1>8, <1>9

\* Bids that do not overlap.
LEMMA SumDisjoint ==
    ASSUME Bounded, NEW S \in SUBSET Bids, NEW R \in SUBSET Bids, S \cap R = {}
    PROVE  Sum(S \cup R) = Sum(S) + Sum(R)
<1> DEFINE Odd == {t \in SUBSET Bids : S \cap t = {} /\ Sum(S \cup t) # Sum(S) + Sum(t)}
<1>0. Odd \in SUBSET SUBSET Bids
  OBVIOUS
<1>1. SUFFICES ASSUME Odd # {} PROVE FALSE
  OBVIOUS
<1>2. PICK t \in Odd : \A u \in Odd : ~(u \subseteq t /\ u # t)
  <2> HIDE DEF Odd
  <2> QED
    BY <1>0, <1>1, SmallestSet DEF Bounded
<1>3. Sum(S) \in Nat /\ Sum(t) \in Nat
  BY <1>2, SumNat
<1>4. t # {}
  <2>1. SUFFICES ASSUME t = {} PROVE FALSE
    OBVIOUS
  <2>2. S \cup t = S
    BY <2>1
  <2>3. Sum(S \cup t) = Sum(S) + Sum(t)
    BY <1>3, <2>1, <2>2, SumEmpty
  <2> QED
    BY <1>2, <1>3, <2>3
<1>5. PICK b \in t : TRUE
  BY <1>4
<1> DEFINE r == t \ {b}
<1>6. Sum(t) = Amount[b] + Sum(r) /\ Sum(r) \in Nat /\ Amount[b] \in Nat
  BY <1>2, <1>5, SumRemove, SumNat DEF Bounded, ConstantsOK
<1>7. Sum(S \cup r) = Sum(S) + Sum(r)
  BY <1>2, <1>5
<1>8. S \cup t = (S \cup r) \cup {b} /\ b \notin S \cup r
  BY <1>2, <1>5
<1>9. Sum(S \cup t) = Amount[b] + Sum(S \cup r)
  BY <1>2, <1>5, <1>8, SumAdd
<1> QED
  BY <1>2, <1>3, <1>6, <1>7, <1>9

-----------------------------------------------------------------------------
\* What a step does to the bids in progress, the completed ones, the queue, the
\* wallet and the fills.  Each action is one of these.

\* The bids in progress.
Going == {b \in Bids : state[b] = "BID_ACCEPTED"}

\* The bids that wait for their action are those that checkQueuedActions can
\* reset.
Waiting == \A b \in Bids : state[b] = "SWAP_DELAYING" => b \in accepts /\ last[b] \in Acceptable

FillsSame == UNCHANGED <<filled, fills_completed, notices, uncounted, up>>

\* Nothing is taken and nothing ends.
Quiet ==
    /\ Going' = Going /\ Completed' = Completed /\ funded' = funded
    /\ InFlight' \subseteq InFlight /\ accepts' \subseteq accepts
    /\ FillsSame /\ overtaken' = overtaken

\* The strategy queues the accept of b.
Queues(b) ==
    /\ "accept" \in Verdicts(b)
    /\ Going' = Going /\ Completed' = Completed /\ funded' = funded
    /\ accepts' = accepts \cup {b} /\ InFlight' \subseteq InFlight \cup {b}
    /\ FillsSame /\ overtaken' = overtaken

\* Bid b is accepted, from the queue or by the user.
Accepts(b) ==
    /\ up /\ BudgetAllows(b) /\ FloorAllows(b)
    /\ b \in accepts \/ Manual
    /\ b \notin Completed /\ b \notin Going
    /\ Going' = Going \cup {b} /\ Completed' = Completed
    /\ funded' \subseteq funded \cup {b} /\ accepts' \subseteq accepts
    /\ InFlight' \subseteq InFlight \cup {b}
    /\ FillsSame /\ overtaken' = overtaken \cup uncounted

\* The lock of b is published.
Funds(b) ==
    /\ b \in Going /\ funded' = funded \cup {b}
    /\ UNCHANGED <<Going, Completed, InFlight, accepts, overtaken>> /\ FillsSame

\* Bid b ends without success.
Fails(b) ==
    /\ Going' = Going \ {b} /\ Completed' = Completed
    /\ InFlight' \subseteq InFlight /\ accepts' \subseteq accepts
    /\ funded' \subseteq funded
    /\ FillsSame /\ overtaken' = overtaken

\* Bid b is completed.
Completes(b) ==
    /\ up /\ b \in Going /\ b \in funded /\ b \notin Completed
    /\ Going' = Going \ {b} /\ Completed' = Completed \cup {b}
    /\ InFlight' \subseteq InFlight
    /\ notices' = notices \cup {b} /\ uncounted' = uncounted \cup {b}
    /\ UNCHANGED <<accepts, funded, filled, fills_completed, overtaken, up>>

SetsSame == UNCHANGED <<Going, Completed, InFlight, accepts, funded>>

\* The fill of b is counted, or lost to an error.
Fills(b) ==
    /\ b \in notices /\ notices' = notices \ {b}
    /\ SetsSame /\ UNCHANGED <<overtaken, up>>
    /\ \/ /\ Tracked /\ filled' = filled + Amount[b] /\ fills_completed' = fills_completed + 1
          /\ uncounted' = uncounted \ {b}
       \/ ~Tracked /\ uncounted' = uncounted \ {b} /\ UNCHANGED <<filled, fills_completed>>
       \/ UNCHANGED <<filled, fills_completed, uncounted>>

\* The process dies.
Dies ==
    /\ up' = FALSE /\ notices' = {} /\ SetsSame
    /\ UNCHANGED <<filled, fills_completed, uncounted, overtaken>>

\* The process is started.
Starts == Restart /\ SetsSame /\ overtaken' = overtaken

\* The steps of TypeOK.
LEMMA TypeInit ==
    ASSUME Bounded, Init
    PROVE  TypeOK /\ Waiting
<1>1. state \in [Bids -> BidStates] /\ last \in [Bids -> BidStates]
  BY DEF Init, BidStates
<1>2. /\ accepts \subseteq Bids /\ funded \subseteq Bids /\ notices \subseteq Bids
      /\ expired \subseteq Bids /\ uncounted \subseteq Bids /\ overtaken \subseteq Bids
  BY DEF Init
<1>3. filled \in Nat /\ fills_completed \in Nat /\ faults \in 0..MaxFaults
  BY DEF Init, Bounded, ConstantsOK
<1>4. {revoking, revoke_sent, active, offer_expired, up} \subseteq BOOLEAN
  BY DEF Init
<1>5. Waiting
  BY DEF Init, Waiting
<1> QED
  BY <1>1, <1>2, <1>3, <1>4, <1>5 DEF TypeOK

\* What a passed verdict means.
LEMMA VerdictMeans ==
    ASSUME NEW b \in Bids
    PROVE  /\ "accept" \in Verdicts(b) =>
                /\ BudgetAllows(b) /\ FloorAllows(b) /\ LegacyAllows(b)
                /\ ~(Cardinality(InFlight) >= MaxConcurrent)
           /\ \A v \in Verdicts(b) : v # "accept" => v \in {"BID_AACCEPT_FAIL", "BID_AACCEPT_DELAY"}
BY DEF Verdicts

\* Each step of one bid is one of these.
LEMMA EffectBid ==
    ASSUME Bounded, TypeOK, Waiting, NEW b \in Bids, BidStep(b)
    PROVE  Quiet \/ Queues(b) \/ Accepts(b) \/ Funds(b) \/ Fails(b) \/ Completes(b) \/ Fills(b)
<1> USE DEF TypeOK, rowVars, trackVars, offerVars, timeVars, FillsSame
<1>1. CASE ProcessXmrBid(b)
  <2>1. Quiet
    BY <1>1 DEF ProcessXmrBid, Receives, SetState, Quiet, Going, Completed, InFlight
  <2> QED
    BY <2>1
<1>2. CASE ReceiveXmrBid(b)
  <2>1. PICK v \in Verdicts(b) :
          IF v = "accept"
          THEN /\ state' = [state EXCEPT ![b] = "SWAP_DELAYING"]
               /\ last' = [last EXCEPT ![b] = "BID_RECEIVED"]
               /\ accepts' = accepts \union {b}
          ELSE /\ state' = [state EXCEPT ![b] = v]
               /\ last' = [last EXCEPT ![b] = "BID_RECEIVED"]
               /\ UNCHANGED accepts
    BY <1>2 DEF ReceiveXmrBid
  <2>2. CASE v = "accept"
    BY <1>2, <2>1, <2>2 DEF ReceiveXmrBid, Queues, Going, Completed, InFlight
  <2>3. CASE v # "accept"
    <3>1. v \in {"BID_AACCEPT_FAIL", "BID_AACCEPT_DELAY"}
      BY <2>3, VerdictMeans
    <3>2. Quiet
      BY <1>2, <2>1, <2>3, <3>1 DEF ReceiveXmrBid, Quiet, Going, Completed, InFlight
    <3> QED
      BY <3>2
  <2> QED
    BY <2>2, <2>3
<1>3. CASE ProcessBid(b)
  <2>1. Quiet
    BY <1>3 DEF ProcessBid, Receives, SetState, Quiet, Going, Completed, InFlight
  <2> QED
    BY <2>1
<1>4. CASE AutoAcceptBid(b)
  <2>1. PICK v \in Verdicts(b) :
          IF v = "accept"
          THEN /\ accepts' = accepts \union {b}
               /\ IF Kind = "reverse" THEN SetState(b, "SWAP_DELAYING")
                                      ELSE UNCHANGED <<state, last>>
          ELSE SetState(b, v) /\ UNCHANGED accepts
    BY <1>4 DEF AutoAcceptBid
  <2>2. CASE v = "accept"
    BY <1>4, <2>1, <2>2 DEF AutoAcceptBid, SetState, Queues, Going, Completed, InFlight
  <2>3. CASE v # "accept"
    <3>1. v \in {"BID_AACCEPT_FAIL", "BID_AACCEPT_DELAY"}
      BY <2>3, VerdictMeans
    <3>2. Quiet
      BY <1>4, <2>1, <2>3, <3>1 DEF AutoAcceptBid, SetState, Quiet, Going, Completed, InFlight
    <3> QED
      BY <3>2
  <2> QED
    BY <2>2, <2>3
<1>5. CASE CheckDelayedAutoAccept(b)
  <2>1. PICK v \in Verdicts(b) :
          IF v = "accept" THEN accepts' = accepts \union {b} /\ UNCHANGED <<state, last>>
                          ELSE SetState(b, v) /\ UNCHANGED accepts
    BY <1>5 DEF CheckDelayedAutoAccept
  <2>2. CASE v = "accept"
    BY <1>5, <2>1, <2>2 DEF CheckDelayedAutoAccept, Queues, Going, Completed, InFlight
  <2>3. CASE v # "accept"
    <3>1. v \in {"BID_AACCEPT_FAIL", "BID_AACCEPT_DELAY"}
      BY <2>3, VerdictMeans
    <3>2. Quiet
      BY <1>5, <2>1, <2>3, <3>1 DEF CheckDelayedAutoAccept, SetState, Quiet, Going, Completed, InFlight
    <3> QED
      BY <3>2
  <2> QED
    BY <2>2, <2>3
<1>6. CASE RunAccept(b)
  <2> DEFINE s == IF state[b] = "SWAP_DELAYING" THEN last[b] ELSE state[b]
  <2>1. up /\ b \in accepts /\ FillsSame
    BY <1>6 DEF RunAccept
  <2>2. CASE MayAccept(b, s) /\ Accepted(b) /\ accepts' = accepts \ {b}
    <3>1. BudgetAllows(b) /\ FloorAllows(b) /\ s \in Acceptable
      BY <2>2 DEF MayAccept
    <3>2. state[b] \notin {"BID_ACCEPTED", "SWAP_COMPLETED"}
      BY <3>1 DEF Acceptable
    <3>3. /\ state' = [state EXCEPT ![b] = "BID_ACCEPTED"] /\ funded' \subseteq funded \cup {b}
          /\ overtaken' = overtaken \cup uncounted
      BY <2>2 DEF Accepted, SetState
    <3>4. Accepts(b)
      BY <2>1, <2>2, <3>1, <3>2, <3>3 DEF Accepts, Going, Completed, InFlight
    <3> QED
      BY <3>4
  <2>3. CASE AcceptFails(b) /\ accepts' = accepts \ {b} /\ UNCHANGED <<funded, overtaken>>
    <3>1. Quiet
      BY <2>1, <2>3 DEF AcceptFails, SetState, Acceptable, Quiet, Going, Completed, InFlight
    <3> QED
      BY <3>1
  <2> QED
    BY <1>6, <2>2, <2>3 DEF RunAccept
<1>7. CASE ManualAccept(b)
  <2>1. Manual /\ up /\ FillsSame /\ UNCHANGED accepts
    BY <1>7 DEF ManualAccept
  <2>2. BudgetAllows(b) /\ FloorAllows(b) /\ state[b] \in Acceptable
    BY <1>7 DEF ManualAccept, MayAccept
  <2>3. /\ state' = [state EXCEPT ![b] = "BID_ACCEPTED"] /\ funded' \subseteq funded \cup {b}
        /\ overtaken' = overtaken \cup uncounted
    BY <1>7 DEF ManualAccept, Accepted, SetState
  <2>4. Accepts(b)
    BY <2>1, <2>2, <2>3 DEF Accepts, Acceptable, Going, Completed, InFlight
  <2> QED
    BY <2>4
<1>8. CASE Fund(b)
  BY <1>8 DEF Fund, Funds, Going, Completed, InFlight
<1>9. CASE Fail(b)
  BY <1>9 DEF Fail, SetState, Fails, Going, Completed, InFlight
<1>10. CASE Complete(b)
  BY <1>10 DEF Complete, SetState, Completes, Going, Completed, InFlight
<1>11. CASE CompleteOfferFill(b)
  BY <1>11 DEF CompleteOfferFill, Fills, SetsSame, Going, Completed, InFlight
<1>12. CASE BidExpires(b)
  BY <1>12 DEF BidExpires, Quiet, Going, Completed, InFlight
<1>13. CASE ExpireBid(b)
  <2>1. Quiet
    BY <1>13 DEF ExpireBid, SetState, CanExpire, Acceptable, Quiet, Going, Completed, InFlight
  <2> QED
    BY <2>1
<1> QED
  BY <1>1, <1>2, <1>3, <1>4, <1>5, <1>6, <1>7, <1>8, <1>9, <1>10, <1>11, <1>12, <1>13
  DEF BidStep

\* Each step of the node is one of these, and a step of a bid one of the bid's.
LEMMA EffectStep ==
    ASSUME Bounded, TypeOK, Waiting, [Next]_vars
    PROVE  \/ Quiet \/ Dies \/ Starts
           \/ \E b \in Bids : \/ Queues(b) \/ Accepts(b) \/ Funds(b) \/ Fails(b)
                              \/ Completes(b) \/ Fills(b)
<1> USE DEF rowVars, trackVars, offerVars, timeVars, FillsSame
<1>1. CASE \E b \in Bids : BidStep(b)
  BY <1>1, EffectBid
<1>2. CASE RevokeExhausted \/ RevokeOffer \/ ProcessOfferRevoke \/ OfferExpires
  BY <1>2 DEF RevokeExhausted, RevokeOffer, ProcessOfferRevoke, OfferExpires,
              Quiet, Going, Completed, InFlight
<1>3. CASE Crash
  BY <1>3 DEF Crash, Dies, SetsSame, Going, Completed, InFlight
<1>4. CASE Restart
  BY <1>4 DEF Restart, Starts, SetsSame, Going, Completed, InFlight
<1>5. CASE UNCHANGED vars
  BY <1>5 DEF vars, Quiet, Going, Completed, InFlight
<1> QED
  BY <1>1, <1>2, <1>3, <1>4, <1>5 DEF Next

-----------------------------------------------------------------------------
\* The types and the bids that wait.

\* The rows of the bids after a step of bid b.
LEMMA RowsStep ==
    ASSUME Bounded, TypeOK, Waiting, NEW b \in Bids, BidStep(b)
    PROVE  /\ state' \in [Bids -> BidStates] /\ last' \in [Bids -> BidStates]
           /\ accepts' \subseteq Bids /\ funded' \subseteq Bids
           /\ Waiting'
<1> USE DEF TypeOK, rowVars, BidStates, Waiting
<1>1. CASE ProcessXmrBid(b)
  BY <1>1 DEF ProcessXmrBid, Receives, SetState
<1>2. CASE ReceiveXmrBid(b)
  <2>1. PICK v \in Verdicts(b) :
          IF v = "accept"
          THEN /\ state' = [state EXCEPT ![b] = "SWAP_DELAYING"]
               /\ last' = [last EXCEPT ![b] = "BID_RECEIVED"]
               /\ accepts' = accepts \union {b}
          ELSE /\ state' = [state EXCEPT ![b] = v]
               /\ last' = [last EXCEPT ![b] = "BID_RECEIVED"]
               /\ UNCHANGED accepts
    BY <1>2 DEF ReceiveXmrBid
  <2>2. v # "accept" => v \in {"BID_AACCEPT_FAIL", "BID_AACCEPT_DELAY"}
    BY VerdictMeans
  <2>3. UNCHANGED funded
    BY <1>2 DEF ReceiveXmrBid
  <2>4. CASE v = "accept"
    BY <2>1, <2>3, <2>4 DEF Acceptable
  <2>5. CASE v # "accept"
    BY <2>1, <2>2, <2>3, <2>5
  <2> QED
    BY <2>4, <2>5
<1>3. CASE ProcessBid(b)
  BY <1>3 DEF ProcessBid, Receives, SetState
<1>4. CASE AutoAcceptBid(b)
  <2>1. PICK v \in Verdicts(b) :
          IF v = "accept"
          THEN /\ accepts' = accepts \union {b}
               /\ IF Kind = "reverse" THEN SetState(b, "SWAP_DELAYING")
                                      ELSE UNCHANGED <<state, last>>
          ELSE SetState(b, v) /\ UNCHANGED accepts
    BY <1>4 DEF AutoAcceptBid
  <2>2. v # "accept" => v \in {"BID_AACCEPT_FAIL", "BID_AACCEPT_DELAY"}
    BY VerdictMeans
  <2>3. UNCHANGED funded /\ state[b] = "BID_RECEIVED"
    BY <1>4 DEF AutoAcceptBid
  <2>4. CASE v = "accept"
    BY <2>1, <2>3, <2>4 DEF Acceptable, SetState
  <2>5. CASE v # "accept"
    BY <2>1, <2>2, <2>3, <2>5 DEF SetState
  <2> QED
    BY <2>4, <2>5
<1>5. CASE CheckDelayedAutoAccept(b)
  <2>1. PICK v \in Verdicts(b) :
          IF v = "accept" THEN accepts' = accepts \union {b} /\ UNCHANGED <<state, last>>
                          ELSE SetState(b, v) /\ UNCHANGED accepts
    BY <1>5 DEF CheckDelayedAutoAccept
  <2>2. v # "accept" => v \in {"BID_AACCEPT_FAIL", "BID_AACCEPT_DELAY"}
    BY VerdictMeans
  <2>3. UNCHANGED funded
    BY <1>5 DEF CheckDelayedAutoAccept
  <2>4. CASE v = "accept"
    BY <2>1, <2>3, <2>4
  <2>5. CASE v # "accept"
    BY <2>1, <2>2, <2>3, <2>5 DEF SetState
  <2> QED
    BY <2>4, <2>5
<1>6. CASE RunAccept(b)
  <2>1. accepts' = accepts \ {b} /\ b \in accepts
    BY <1>6 DEF RunAccept
  <2>2. CASE Accepted(b)
    BY <2>1, <2>2 DEF Accepted, SetState
  <2>3. CASE AcceptFails(b) /\ UNCHANGED funded
    BY <2>1, <2>3 DEF AcceptFails, SetState, Acceptable
  <2> QED
    BY <1>6, <2>2, <2>3 DEF RunAccept
<1>7. CASE ManualAccept(b)
  BY <1>7 DEF ManualAccept, Accepted, SetState
<1>8. CASE Fund(b)
  BY <1>8 DEF Fund
<1>9. CASE Fail(b)
  BY <1>9 DEF Fail, SetState
<1>10. CASE Complete(b)
  BY <1>10 DEF Complete, SetState
<1>11. CASE CompleteOfferFill(b) \/ BidExpires(b)
  BY <1>11 DEF CompleteOfferFill, BidExpires
<1>12. CASE ExpireBid(b)
  BY <1>12 DEF ExpireBid, SetState
<1> QED
  BY <1>1, <1>2, <1>3, <1>4, <1>5, <1>6, <1>7, <1>8, <1>9, <1>10, <1>11, <1>12
  DEF BidStep

\* What else a step of bid b changes.
LEMMA RestStep ==
    ASSUME Bounded, TypeOK, NEW b \in Bids, BidStep(b)
    PROVE  /\ filled' \in Nat /\ fills_completed' \in Nat
           /\ notices' \subseteq Bids /\ expired' \subseteq Bids
           /\ uncounted' \subseteq Bids /\ overtaken' \subseteq Bids
           /\ {revoking', revoke_sent', active', offer_expired', up'} \subseteq BOOLEAN
           /\ faults' \in 0..MaxFaults
<1> USE DEF TypeOK, rowVars, trackVars, offerVars, timeVars, Fault
<1>1. MaxFaults \in Nat /\ Amount[b] \in Nat
  BY DEF Bounded, ConstantsOK
<1>2. CASE /\ UNCHANGED <<trackVars, offerVars, timeVars, up>>
           /\ faults' = faults \/ Fault
  <2>1. faults' \in 0..MaxFaults
    BY <1>1, <1>2
  <2> QED
    BY <1>2, <2>1
<1>3. CASE Complete(b)
  <2>1. notices' \subseteq Bids /\ uncounted' \subseteq Bids
    BY <1>3 DEF Complete
  <2> QED
    BY <1>3, <2>1 DEF Complete
<1>4. CASE CompleteOfferFill(b)
  <2>1. /\ filled' \in Nat /\ fills_completed' \in Nat /\ notices' \subseteq Bids
        /\ uncounted' \subseteq Bids
    BY <1>1, <1>4 DEF CompleteOfferFill
  <2>2. revoking' \in BOOLEAN
    BY <1>4 DEF CompleteOfferFill
  <2>3. faults' \in 0..MaxFaults
    BY <1>1, <1>4 DEF CompleteOfferFill
  <2>4. UNCHANGED <<overtaken, revoke_sent, active, timeVars, up>>
    BY <1>4 DEF CompleteOfferFill
  <2> QED
    BY <2>1, <2>2, <2>3, <2>4
<1>5. CASE BidExpires(b)
  <2>1. expired' \subseteq Bids
    BY <1>5 DEF BidExpires
  <2> QED
    BY <1>5, <2>1 DEF BidExpires
<1>6. CASE \/ ProcessXmrBid(b) \/ ReceiveXmrBid(b) \/ ProcessBid(b) \/ AutoAcceptBid(b)
           \/ CheckDelayedAutoAccept(b) \/ Fund(b) \/ Fail(b) \/ ExpireBid(b)
  BY <1>2, <1>6 DEF ProcessXmrBid, ReceiveXmrBid, ProcessBid, AutoAcceptBid,
     CheckDelayedAutoAccept, Fund, Fail, ExpireBid
<1>7. CASE RunAccept(b) \/ ManualAccept(b)
  <2>1. overtaken' \in {overtaken, overtaken \cup uncounted}
    BY <1>7 DEF RunAccept, ManualAccept, Accepted
  <2>2. UNCHANGED <<filled, fills_completed, notices, uncounted, offerVars, timeVars, up>>
    BY <1>7 DEF RunAccept, ManualAccept
  <2>3. faults' \in 0..MaxFaults
    BY <1>1, <1>7 DEF RunAccept, ManualAccept
  <2> QED
    BY <2>1, <2>2, <2>3
<1> QED
  BY <1>3, <1>4, <1>5, <1>6, <1>7 DEF BidStep

\* The steps that are not about one bid.
LEMMA NodeStep ==
    ASSUME Bounded, TypeOK,
           \/ RevokeExhausted \/ RevokeOffer \/ ProcessOfferRevoke
           \/ OfferExpires \/ Crash \/ Restart
    PROVE  /\ UNCHANGED rowVars
           /\ filled' \in Nat /\ fills_completed' \in Nat
           /\ notices' \subseteq Bids /\ expired' \subseteq Bids
           /\ uncounted' \subseteq Bids /\ overtaken' \subseteq Bids
           /\ {revoking', revoke_sent', active', offer_expired', up'} \subseteq BOOLEAN
           /\ faults' \in 0..MaxFaults
<1> USE DEF TypeOK, rowVars, trackVars, offerVars, timeVars
<1>1. CASE RevokeExhausted \/ RevokeOffer \/ ProcessOfferRevoke \/ OfferExpires
  BY <1>1 DEF RevokeExhausted, RevokeOffer, ProcessOfferRevoke, OfferExpires
<1>2. CASE Crash
  <2>1. faults' \in 0..MaxFaults
    BY <1>2 DEF Crash, Fault, Bounded, ConstantsOK
  <2> QED
    BY <1>2, <2>1 DEF Crash
<1>3. CASE Restart
  <2>1. Sum(Completed) \in Nat /\ Cardinality(Completed) \in Nat
    BY SumNat, FS_Subset, FS_CardinalityType DEF Bounded, Completed
  <2>2. filled' \in Nat /\ fills_completed' \in Nat
    BY <1>3, <2>1 DEF Restart, Reconciled
  <2>3. revoking' \in BOOLEAN /\ uncounted' \subseteq Bids
    BY <1>3 DEF Restart
  <2>4. UNCHANGED <<rowVars, notices, overtaken, revoke_sent, active, timeVars, faults>> /\ up' = TRUE
    BY <1>3 DEF Restart
  <2> QED
    BY <2>2, <2>3, <2>4
<1> QED
  BY <1>1, <1>2, <1>3

LEMMA TypeStep ==
    ASSUME Bounded, TypeOK, Waiting, [Next]_vars
    PROVE  TypeOK' /\ Waiting'
<1>1. CASE \E b \in Bids : BidStep(b)
  <2>1. PICK b \in Bids : BidStep(b)
    BY <1>1
  <2> QED
    BY <2>1, RowsStep, RestStep DEF TypeOK
<1>2. CASE \/ RevokeExhausted \/ RevokeOffer \/ ProcessOfferRevoke
           \/ OfferExpires \/ Crash \/ Restart
  <2>1. UNCHANGED <<state, last, accepts, funded>>
    BY <1>2, NodeStep DEF rowVars
  <2>2. Waiting'
    BY <2>1 DEF Waiting
  <2> QED
    BY <1>2, <2>1, <2>2, NodeStep DEF TypeOK
<1>3. CASE UNCHANGED vars
  BY <1>3 DEF vars, TypeOK, Waiting
<1> QED
  BY <1>1, <1>2, <1>3 DEF Next

\* Every variable keeps its type, and no bid is stranded in SWAP_DELAYING, whatever
\* fails and crashes between the queued action and the bid's state.
THEOREM TypeCorrect ==
    ASSUME Bounded
    PROVE  Spec => [](TypeOK /\ NoBidStranded)
<1>1. Init => TypeOK /\ Waiting
  BY TypeInit
<1>2. TypeOK /\ Waiting /\ [Next]_vars => TypeOK' /\ Waiting'
  BY TypeStep
<1>3. Waiting => NoBidStranded
  BY DEF Waiting, NoBidStranded
<1> QED
  BY <1>1, <1>2, <1>3, PTL DEF Spec

-----------------------------------------------------------------------------
\* The fills.

\* A notification is of a completed bid that is not counted and dies with the
\* process; no completed bid is counted twice, and those that are not uncounted are
\* in the fills.
FillsInv ==
    /\ notices \subseteq uncounted /\ uncounted \subseteq Completed
    /\ ~up => notices = {}
    /\ filled + Sum(notices) <= Sum(Completed)
    /\ fills_completed + Cardinality(notices) <= Cardinality(Completed)
    /\ Tracked => Sum(Completed \ uncounted) <= filled

\* What the sets are, and which of them overlap.
LEMMA SetsTyped ==
    ASSUME Bounded, TypeOK
    PROVE  /\ Going \in SUBSET Bids /\ Completed \in SUBSET Bids
           /\ InFlight \in SUBSET Bids /\ accepts \in SUBSET Bids
           /\ funded \in SUBSET Bids /\ notices \in SUBSET Bids
           /\ Completed \ uncounted \in SUBSET Bids
           /\ Going \subseteq InFlight /\ accepts \subseteq InFlight
           /\ Going \cap Completed = {}
BY DEF TypeOK, Going, Completed, InFlight

\* The sizes of sets of bids.
LEMMA Sizes ==
    ASSUME Bounded, NEW S \in SUBSET Bids
    PROVE  /\ IsFiniteSet(S) /\ Cardinality(S) \in Nat
           /\ \A R \in SUBSET S : Cardinality(R) <= Cardinality(S)
           /\ \A b \in S : Cardinality(S \ {b}) = Cardinality(S) - 1
           /\ \A b \in Bids : b \notin S => Cardinality(S \cup {b}) = Cardinality(S) + 1
<1>1. IsFiniteSet(S)
  BY FS_Subset DEF Bounded
<1>2. Cardinality(S) \in Nat
  BY <1>1, FS_CardinalityType
<1>3. \A R \in SUBSET S : Cardinality(R) <= Cardinality(S)
  BY <1>1, FS_Subset
<1>4. \A b \in S : Cardinality(S \ {b}) = Cardinality(S) - 1
  BY <1>1, FS_RemoveElement
<1>5. \A b \in Bids : b \notin S => Cardinality(S \cup {b}) = Cardinality(S) + 1
  BY <1>1, FS_AddElement
<1> QED
  BY <1>1, <1>2, <1>3, <1>4, <1>5

\* Nothing is counted at first.
LEMMA FillsInit ==
    ASSUME Init
    PROVE  FillsInv
<1>1. Completed = {} /\ notices = {} /\ uncounted = {} /\ filled = 0 /\ fills_completed = 0
  BY DEF Init, Completed
<1> QED
  BY <1>1, SumEmpty, FS_EmptySet DEF FillsInv, Tracked

\* Every step keeps the fills true.
LEMMA FillsStep ==
    ASSUME Bounded, TypeOK, Waiting, FillsInv, [Next]_vars
    PROVE  FillsInv'
<1>1. /\ Completed \in SUBSET Bids /\ notices \in SUBSET Bids
      /\ filled \in Nat /\ fills_completed \in Nat
  BY SetsTyped DEF TypeOK
<1>2. /\ Sum(Completed) \in Nat /\ Sum(notices) \in Nat
      /\ Cardinality(Completed) \in Nat /\ Cardinality(notices) \in Nat
  BY <1>1, SumNat, Sizes
<1>3. CASE FillsSame /\ Completed' = Completed
  BY <1>3 DEF FillsSame, FillsInv, Tracked
<1>4. CASE \E b \in Bids : Completes(b)
  <2>1. PICK b \in Bids : Completes(b)
    BY <1>4
  <2>2. b \notin Completed /\ b \notin notices
    BY <2>1 DEF Completes, FillsInv
  <2>3. /\ Sum(Completed \cup {b}) = Amount[b] + Sum(Completed)
        /\ Sum(notices \cup {b}) = Amount[b] + Sum(notices)
        /\ Cardinality(Completed \cup {b}) = Cardinality(Completed) + 1
        /\ Cardinality(notices \cup {b}) = Cardinality(notices) + 1
    BY <1>1, <2>2, SumAdd, Sizes
  <2>4. Amount[b] \in Nat
    BY DEF Bounded, ConstantsOK
  <2>5. /\ Completed' = Completed \cup {b} /\ notices' = notices \cup {b}
        /\ uncounted' = uncounted \cup {b}
        /\ UNCHANGED <<filled, fills_completed, up>>
    BY <2>1 DEF Completes
  <2>6. Completed' \ uncounted' = Completed \ uncounted /\ up
    BY <2>1, <2>2, <2>5 DEF Completes
  <2>7. notices' \subseteq uncounted' /\ uncounted' \subseteq Completed' /\ up'
    BY <2>5, <2>6 DEF FillsInv
  <2>8. /\ filled' + Sum(notices') <= Sum(Completed')
        /\ fills_completed' + Cardinality(notices') <= Cardinality(Completed')
    <3>1. /\ filled \in Nat /\ fills_completed \in Nat
          /\ filled + Sum(notices) <= Sum(Completed)
          /\ fills_completed + Cardinality(notices) <= Cardinality(Completed)
      BY DEF TypeOK, FillsInv
    <3> QED
      BY <1>2, <2>3, <2>4, <2>5, <3>1
  <2>9. Tracked => Sum(Completed' \ uncounted') <= filled'
    BY <2>5, <2>6 DEF FillsInv
  <2> QED
    BY <2>7, <2>8, <2>9 DEF FillsInv
<1>5. CASE \E b \in Bids : Fills(b)
  <2>1. PICK b \in Bids : Fills(b)
    BY <1>5
  <2>2. b \in notices /\ notices' = notices \ {b} /\ Completed' = Completed /\ up' = up
    BY <2>1 DEF Fills, SetsSame
  <2>3. Sum(notices) = Amount[b] + Sum(notices \ {b}) /\ Sum(notices \ {b}) \in Nat
    BY <1>1, <2>2, SumRemove, SumNat
  <2>4. Cardinality(notices \ {b}) = Cardinality(notices) - 1
    BY <1>1, <2>2, Sizes
  <2>5. Amount[b] \in Nat
    BY DEF Bounded, ConstantsOK
  <2>6. \/ /\ Tracked /\ filled' = filled + Amount[b] /\ fills_completed' = fills_completed + 1
           /\ uncounted' = uncounted \ {b}
        \/ ~Tracked /\ uncounted' = uncounted \ {b} /\ UNCHANGED <<filled, fills_completed>>
        \/ UNCHANGED <<filled, fills_completed, uncounted>>
    BY <2>1 DEF Fills
  <2>7. /\ notices' \subseteq uncounted' /\ uncounted' \subseteq Completed'
        /\ (~up' => notices' = {})
    BY <2>2, <2>6 DEF FillsInv
  <2>8. /\ filled' + Sum(notices') <= Sum(Completed')
        /\ fills_completed' + Cardinality(notices') <= Cardinality(Completed')
    BY <1>1, <1>2, <2>2, <2>3, <2>4, <2>5, <2>6 DEF FillsInv
  <2>9. ASSUME Tracked PROVE Sum(Completed' \ uncounted') <= filled'
    <3>1. CASE filled' = filled + Amount[b] /\ uncounted' = uncounted \ {b}
      <4>1. b \in uncounted /\ b \in Completed
        BY <2>2 DEF FillsInv
      <4>2. /\ Completed' \ uncounted' = (Completed \ uncounted) \cup {b}
            /\ b \notin Completed \ uncounted
        BY <2>2, <3>1, <4>1
      <4>3. Sum(Completed' \ uncounted') = Amount[b] + Sum(Completed \ uncounted)
        BY <4>2, SetsTyped, SumAdd
      <4>4. Sum(Completed \ uncounted) \in Nat /\ Sum(Completed \ uncounted) <= filled
        BY <2>9, SetsTyped, SumNat DEF FillsInv
      <4> QED
        BY <1>1, <2>5, <3>1, <4>3, <4>4
    <3>2. CASE filled' = filled /\ uncounted' = uncounted
      BY <2>2, <2>9, <3>2 DEF FillsInv
    <3> QED
      BY <2>6, <2>9, <3>1, <3>2
  <2> QED
    BY <2>7, <2>8, <2>9 DEF FillsInv, Tracked
<1>6. CASE Dies
  <2>1. /\ notices' = {} /\ Completed' = Completed /\ up' = FALSE
        /\ filled' = filled /\ fills_completed' = fills_completed /\ uncounted' = uncounted
    BY <1>6 DEF Dies, SetsSame
  <2>2. Sum({}) = 0 /\ Cardinality({}) = 0
    BY SumEmpty, FS_EmptySet
  <2> QED
    BY <1>1, <1>2, <2>1, <2>2 DEF FillsInv, Tracked
<1>7. CASE Starts
  <2>1. Completed' = Completed /\ notices' = notices /\ notices = {}
    BY <1>7 DEF Starts, SetsSame, Restart, FillsInv
  <2>2. Sum({}) = 0 /\ Cardinality({}) = 0
    BY SumEmpty, FS_EmptySet
  <2>3. filled <= Sum(Completed) /\ fills_completed <= Cardinality(Completed)
    BY <1>1, <1>2, <2>1, <2>2 DEF FillsInv
  <2>4. CASE Tracked /\ (filled < Sum(Completed) \/ fills_completed < Cardinality(Completed))
    <3>1. filled' = Sum(Completed) /\ fills_completed' = Cardinality(Completed)
      BY <1>1, <1>2, <1>7, <2>3, <2>4 DEF Starts, Restart, Reconciled
    <3>2. uncounted' = {} /\ Completed' \ uncounted' = Completed
      BY <1>7, <2>1, <2>4 DEF Starts, Restart
    <3> QED
      BY <1>1, <1>2, <2>1, <2>2, <3>1, <3>2 DEF FillsInv
  <2>5. CASE ~(Tracked /\ (filled < Sum(Completed) \/ fills_completed < Cardinality(Completed)))
    <3>1. filled' = filled /\ fills_completed' = fills_completed /\ uncounted' = uncounted
      BY <1>7, <2>5 DEF Starts, Restart
    <3> QED
      BY <1>1, <1>2, <2>1, <2>2, <2>3, <2>5, <3>1 DEF FillsInv, Tracked
  <2> QED
    BY <2>4, <2>5
<1> QED
  BY <1>3, <1>4, <1>5, <1>6, <1>7, EffectStep DEF Quiet, Queues, Accepts, Funds, Fails

\* A step does to each set what its kind says, a restart and a fill nothing.
LEMMA SetsStep ==
    ASSUME Bounded, TypeOK, Waiting, [Next]_vars
    PROVE  \/ /\ Going' \subseteq Going /\ accepts' \subseteq accepts
              /\ funded' \subseteq funded /\ InFlight' \subseteq InFlight
              /\ Completed' = Completed
           \/ \E b \in Bids : Queues(b) \/ Accepts(b) \/ Funds(b) \/ Completes(b)
BY EffectStep DEF Quiet, Dies, Starts, Fails, Fills, SetsSame

-----------------------------------------------------------------------------
\* The budget of a tracked offer.

\* What is in progress and what was completed, of the two tracked kinds, without the
\* completed bids that an accept overtook.
BudgetInv ==
    Mode \in {"ONE_TIME", "FIXED_TOTAL"} => Sum((Going \cup Completed) \ overtaken) <= Budget

\* What is taken when b is accepted fits, with what is in flight and filled.
LEMMA BudgetFits ==
    ASSUME Bounded, TypeOK, Mode \in {"ONE_TIME", "FIXED_TOTAL"}, NEW b \in Bids, BudgetAllows(b)
    PROVE  filled + Sum(InFlight \ {b}) + Amount[b] <= Budget
<1> DEFINE u == Sum(InFlight \ {b})
<1>1. u \in Nat
  BY SetsTyped, SumNat
<1>2. Amount[b] \in Nat \ {0} /\ Budget \in Nat /\ filled \in Nat
  BY DEF Bounded, ConstantsOK, TypeOK
<1>3. Amount[b] <= Remaining(u)
  BY DEF BudgetAllows
<1> HIDE DEF u
<1>4. filled + u + Amount[b] <= Budget
  BY <1>1, <1>2, <1>3 DEF Remaining
<1> QED
  BY <1>4 DEF u

\* Every step keeps a tracked offer within its budget.
LEMMA BudgetStep ==
    ASSUME Bounded, TypeOK, Waiting, FillsInv, BudgetInv, [Next]_vars
    PROVE  BudgetInv'
<1>1. SUFFICES ASSUME Mode \in {"ONE_TIME", "FIXED_TOTAL"}
               PROVE  Sum((Going' \cup Completed') \ overtaken') <= Budget
  BY DEF BudgetInv
<1>2. Going \in SUBSET Bids /\ Completed \in SUBSET Bids /\ InFlight \in SUBSET Bids
  BY SetsTyped
<1> DEFINE old == (Going \cup Completed) \ overtaken
           new == (Going' \cup Completed') \ overtaken'
<1>3. Sum(old) <= Budget /\ Sum(old) \in Nat /\ Budget \in Nat /\ old \in SUBSET Bids
  BY <1>1, <1>2, SumNat DEF BudgetInv, Bounded, ConstantsOK
<1>4. CASE new \subseteq old
  <2>1. Sum(new) <= Sum(old) /\ Sum(new) \in Nat
    BY <1>3, <1>4, SumMono, SumNat
  <2> QED
    BY <1>3, <2>1
<1>5. CASE \E b \in Bids : Accepts(b)
  <2>1. PICK b \in Bids : Accepts(b)
    BY <1>5
  <2> DEFINE done == Completed \ uncounted
             going == Going \cup {b}
  <2>2. /\ BudgetAllows(b) /\ b \notin Going
        /\ new \subseteq done \cup going
    BY <2>1 DEF Accepts
  <2>3. done \in SUBSET Bids /\ going \in SUBSET Bids /\ done \cup going \in SUBSET Bids
    BY <1>2
  <2>4. Sum(new) <= Sum(done \cup going) /\ Sum(new) \in Nat
    BY <2>2, <2>3, SumMono, SumNat
  <2>5. Sum(done \cup going) <= Sum(done) + Sum(going)
    BY <2>3, SumUnion
  <2>6. Sum(going) = Amount[b] + Sum(Going)
    BY <1>2, <2>2, SumAdd
  <2>7. Sum(Going) <= Sum(InFlight \ {b})
    BY <1>2, <2>2, SetsTyped, SumMono
  <2>8. Sum(done) <= filled
    BY <1>1 DEF FillsInv, Tracked
  <2>9. filled + Sum(InFlight \ {b}) + Amount[b] <= Budget
    BY <1>1, <2>2, BudgetFits
  <2>10. /\ Sum(Going) \in Nat /\ Sum(done) \in Nat /\ Sum(InFlight \ {b}) \in Nat
         /\ Sum(done \cup going) \in Nat /\ Amount[b] \in Nat /\ filled \in Nat
    BY <1>2, <2>3, SumNat DEF Bounded, ConstantsOK, TypeOK
  <2> QED
    BY <1>3, <2>4, <2>5, <2>6, <2>7, <2>8, <2>9, <2>10
<1>6. CASE UNCHANGED overtaken /\ Going' \cup Completed' \subseteq Going \cup Completed
  BY <1>4, <1>6
<1> QED
  <2>1. Quiet \/ Dies \/ Starts =>
          UNCHANGED overtaken /\ Going' \cup Completed' \subseteq Going \cup Completed
    BY DEF Quiet, Dies, Starts, SetsSame
  <2>2. \A b \in Bids : Queues(b) \/ Funds(b) \/ Fails(b) \/ Completes(b) \/ Fills(b) =>
          UNCHANGED overtaken /\ Going' \cup Completed' \subseteq Going \cup Completed
    BY DEF Queues, Funds, Fails, Completes, Fills, SetsSame
  <2> QED
    BY <1>5, <1>6, <2>1, <2>2, EffectStep

-----------------------------------------------------------------------------
\* The amount of an offer that is not tracked.

\* What a strategy has accepted, or has in flight, of an offer that is not tracked.
LegacyInv == ~Tracked /\ ~Manual => Sum(InFlight \cup Completed) <= Budget

\* Every step keeps an untracked offer within its amount.
LEMMA LegacyStep ==
    ASSUME Bounded, TypeOK, Waiting, LegacyInv, [Next]_vars
    PROVE  LegacyInv'
<1>1. SUFFICES ASSUME ~Tracked, ~Manual PROVE Sum(InFlight' \cup Completed') <= Budget
  BY DEF LegacyInv, Tracked
<1>2. /\ Going \in SUBSET Bids /\ Completed \in SUBSET Bids /\ InFlight \in SUBSET Bids
      /\ accepts \subseteq InFlight /\ Going \subseteq InFlight
  BY SetsTyped
<1> DEFINE old == InFlight \cup Completed
<1>3. Sum(old) <= Budget /\ Sum(old) \in Nat /\ Budget \in Nat /\ old \in SUBSET Bids
  BY <1>1, <1>2, SumNat DEF LegacyInv, Bounded, ConstantsOK
<1>4. CASE InFlight' \cup Completed' \subseteq old
  <2>1. Sum(InFlight' \cup Completed') <= Sum(old) /\ Sum(InFlight' \cup Completed') \in Nat
    BY <1>3, <1>4, SumMono, SumNat
  <2> QED
    BY <1>3, <2>1
<1>5. CASE \E b \in Bids : Queues(b)
  <2>1. PICK b \in Bids : Queues(b)
    BY <1>5
  <2>2. LegacyAllows(b) /\ InFlight' \cup Completed' \subseteq old \cup {b}
    BY <2>1, VerdictMeans DEF Queues
  <2>3. Sum(InFlight' \cup Completed') <= Sum(old \cup {b})
    BY <1>3, <2>2, SumMono
  <2>4. Sum(old \cup {b}) <= Amount[b] + Sum(old)
    <3>1. CASE b \in old
      <4>1. old \cup {b} = old
        BY <3>1
      <4>2. Sum(old \cup {b}) = Sum(old)
        BY <4>1
      <4> HIDE DEF old
      <4> QED
        BY <1>3, <4>2 DEF Bounded, ConstantsOK
    <3>2. CASE b \notin old
      <4>1. Sum(old \cup {b}) = Amount[b] + Sum(old)
        BY <1>3, <3>2, SumAdd
      <4>2. Amount[b] \in Nat
        BY DEF Bounded, ConstantsOK
      <4> QED
        BY <1>3, <4>1, <4>2
    <3> QED
      BY <3>1, <3>2
  <2>5. Sum(old) + Amount[b] <= Budget
    BY <1>1, <2>2 DEF LegacyAllows
  <2>6. Sum(InFlight' \cup Completed') \in Nat /\ Sum(old \cup {b}) \in Nat /\ Amount[b] \in Nat
    BY <1>3, <2>2, SumNat DEF Bounded, ConstantsOK
  <2> QED
    BY <1>3, <2>3, <2>4, <2>5, <2>6
<1> QED
  <2>1. \A b \in Bids : Accepts(b) \/ Funds(b) \/ Completes(b) => InFlight' \cup Completed' \subseteq old
    BY <1>1, <1>2 DEF Accepts, Funds, Completes
  <2> QED
    BY <1>4, <1>5, <2>1, SetsStep

-----------------------------------------------------------------------------
\* The reserve of the wallet.

\* A wallet that holds its reserve at the start.
HasReserve == 0 < Floor /\ Floor <= Balance

\* What was locked, and what the bids in progress will lock, leaves the reserve.
FloorInv == Mode = "STANDING" /\ HasReserve => Sum(funded \cup Going) + Floor <= Balance

\* Every step keeps the reserve.
LEMMA FloorStep ==
    ASSUME Bounded, TypeOK, Waiting, FloorInv, [Next]_vars
    PROVE  FloorInv'
<1>1. SUFFICES ASSUME Mode = "STANDING", HasReserve PROVE Sum(funded' \cup Going') + Floor <= Balance
  BY DEF FloorInv
<1>2. Going \in SUBSET Bids /\ funded \in SUBSET Bids /\ InFlight \in SUBSET Bids /\ Going \subseteq InFlight
  BY SetsTyped
<1> DEFINE old == funded \cup Going
<1>3. /\ Sum(old) + Floor <= Balance /\ Sum(old) \in Nat /\ old \in SUBSET Bids
      /\ Floor \in Nat /\ Balance \in Nat
  BY <1>1, <1>2, SumNat DEF FloorInv, Bounded, ConstantsOK
<1>4. CASE funded' \cup Going' \subseteq old
  <2>1. Sum(funded' \cup Going') <= Sum(old) /\ Sum(funded' \cup Going') \in Nat
    BY <1>3, <1>4, SumMono, SumNat
  <2> QED
    BY <1>3, <2>1
<1>5. CASE \E b \in Bids : Accepts(b)
  <2>1. PICK b \in Bids : Accepts(b)
    BY <1>5
  <2>2. FloorAllows(b) /\ b \notin Going /\ funded' \cup Going' \subseteq old \cup {b}
    BY <2>1 DEF Accepts
  <2>3. old \cup {b} = funded \cup ((Going \cup {b}))
    OBVIOUS
  <2>4. Sum(funded' \cup Going') <= Sum(old \cup {b})
    BY <1>3, <2>2, SumMono
  <2>5. Sum(old \cup {b}) <= Sum(funded) + Sum(Going \cup {b})
    BY <1>2, <2>3, SumUnion
  <2>6. Sum(Going \cup {b}) = Amount[b] + Sum(Going)
    BY <1>2, <2>2, SumAdd
  <2>7. Sum(Going) <= Sum(InFlight \ {b})
    BY <1>2, <2>2, SumMono
  <2>8. Balance - Sum(funded) - Sum(InFlight \ {b}) - Amount[b] >= Floor
    BY <1>1, <2>2 DEF FloorAllows, HasReserve
  <2>9. /\ Sum(funded' \cup Going') \in Nat /\ Sum(old \cup {b}) \in Nat /\ Sum(funded) \in Nat
        /\ Sum(Going) \in Nat /\ Sum(InFlight \ {b}) \in Nat /\ Amount[b] \in Nat
    BY <1>2, <1>3, <2>2, SumNat DEF Bounded, ConstantsOK
  <2> QED
    BY <1>3, <2>4, <2>5, <2>6, <2>7, <2>8, <2>9
<1> QED
  <2>1. \A b \in Bids : Queues(b) \/ Funds(b) \/ Completes(b) => funded' \cup Going' \subseteq old
    BY DEF Queues, Funds, Completes
  <2> QED
    BY <1>4, <1>5, <2>1, SetsStep

-----------------------------------------------------------------------------
\* The bids that a strategy has going.

\* A bid counts from when its accept is queued.
ConcurrencyInv == ~Manual => Cardinality(Going \cup accepts) <= MaxConcurrent

\* Every step keeps the limit.
LEMMA ConcurrencyStep ==
    ASSUME Bounded, TypeOK, Waiting, ConcurrencyInv, [Next]_vars
    PROVE  ConcurrencyInv'
<1>1. SUFFICES ASSUME ~Manual PROVE Cardinality(Going' \cup accepts') <= MaxConcurrent
  BY DEF ConcurrencyInv
<1>2. /\ Going \in SUBSET Bids /\ accepts \in SUBSET Bids /\ InFlight \in SUBSET Bids
      /\ Going \subseteq InFlight /\ accepts \subseteq InFlight
  BY SetsTyped
<1> DEFINE old == Going \cup accepts
<1>3. /\ Cardinality(old) <= MaxConcurrent /\ Cardinality(old) \in Nat /\ old \in SUBSET Bids
      /\ MaxConcurrent \in Nat
  BY <1>1, <1>2, Sizes DEF ConcurrencyInv, Bounded, ConstantsOK
<1>4. CASE Going' \cup accepts' \subseteq old
  <2>1. Going' \cup accepts' \in SUBSET old /\ Going' \cup accepts' \in SUBSET Bids
    BY <1>3, <1>4
  <2>2. Cardinality(Going' \cup accepts') <= Cardinality(old) /\ Cardinality(Going' \cup accepts') \in Nat
    BY <1>3, <2>1, Sizes
  <2> QED
    BY <1>3, <2>2
<1>5. CASE \E b \in Bids : Queues(b)
  <2>1. PICK b \in Bids : Queues(b)
    BY <1>5
  <2>2. ~(Cardinality(InFlight) >= MaxConcurrent) /\ Going' \cup accepts' = old \cup {b}
    BY <2>1, VerdictMeans DEF Queues
  <2>3. Cardinality(old) <= Cardinality(InFlight) /\ Cardinality(InFlight) \in Nat
    BY <1>2, Sizes
  <2>4. CASE b \in old
    <3>1. old \cup {b} = old
      BY <2>4
    <3> QED
      BY <1>3, <2>2, <3>1
  <2>5. CASE b \notin old
    <3>1. Cardinality(old \cup {b}) = Cardinality(old) + 1
      BY <1>3, <2>5, Sizes
    <3> QED
      BY <1>3, <2>2, <2>3, <3>1
  <2> QED
    BY <2>4, <2>5
<1> QED
  <2>1. \A b \in Bids : Accepts(b) \/ Funds(b) \/ Completes(b) => Going' \cup accepts' \subseteq old
    BY <1>1 DEF Accepts, Funds, Completes
  <2> QED
    BY <1>4, <1>5, <2>1, SetsStep

-----------------------------------------------------------------------------
\* The theorems.

\* The inductive invariant.
IInv == TypeOK /\ Waiting /\ FillsInv /\ BudgetInv /\ LegacyInv /\ FloorInv /\ ConcurrencyInv

\* The invariant holds at first,
LEMMA InvInit ==
    ASSUME Bounded, Init
    PROVE  IInv
<1>1. Going = {} /\ Completed = {} /\ InFlight = {} /\ accepts = {} /\ funded = {}
  BY DEF Init, Going, Completed, InFlight
<1>2. {Budget, Balance, Floor, MaxConcurrent} \subseteq Nat
  BY DEF Bounded, ConstantsOK
<1>3. BudgetInv /\ LegacyInv
  BY <1>1, <1>2, SumEmpty DEF BudgetInv, LegacyInv
<1>4. FloorInv
  BY <1>1, <1>2, SumEmpty DEF FloorInv, HasReserve
<1>5. ConcurrencyInv
  BY <1>1, <1>2, FS_EmptySet DEF ConcurrencyInv
<1> QED
  BY <1>3, <1>4, <1>5, TypeInit, FillsInit DEF IInv

\* every step keeps it,
LEMMA InvStep ==
    ASSUME Bounded, IInv, [Next]_vars
    PROVE  IInv'
BY TypeStep, FillsStep, BudgetStep, LegacyStep, FloorStep, ConcurrencyStep DEF IInv

\* and so it always holds.
LEMMA InvHolds ==
    ASSUME Bounded
    PROVE  Spec => []IInv
<1>1. Init => IInv
  BY InvInit
<1>2. IInv /\ [Next]_vars => IInv'
  BY InvStep
<1> QED
  BY <1>1, <1>2, PTL DEF Spec

\* The strategy and the user together never accept more of a tracked offer than its
\* budget and the completed swaps that an accept overtook, nor a strategy alone more
\* than the amount of an untracked one: whatever the amounts, however many bids,
\* and however late, lost or failed the counting of a fill is
\* (validate_offer_budget, offer_budget_allows, completeOfferTrackingForBid).
THEOREM BudgetKept ==
    ASSUME Bounded
    PROVE  Spec => []BudgetHeld
<1>1. IInv => BudgetHeld
  <2> SUFFICES ASSUME IInv PROVE BudgetHeld
    OBVIOUS
  <2>1. Committed = Going \cup Completed
    BY DEF Committed, Going, Completed
  <2>2. Mode \in {"ONE_TIME", "FIXED_TOTAL"} => Sum(Committed \ overtaken) <= Budget
    BY <2>1 DEF IInv, BudgetInv
  <2>3. ASSUME Mode = "LEGACY", ~Manual PROVE Sum(Committed) <= Budget
    <3>1. Sum(InFlight \cup Completed) <= Budget
      BY <2>3 DEF IInv, LegacyInv, Tracked
    <3>2. Committed \subseteq InFlight \cup Completed /\ InFlight \cup Completed \in SUBSET Bids
      BY <2>1, SetsTyped DEF IInv
    <3>3. /\ Sum(Committed) <= Sum(InFlight \cup Completed)
          /\ Sum(Committed) \in Nat /\ Sum(InFlight \cup Completed) \in Nat /\ Budget \in Nat
      BY <3>2, SumMono, SumNat DEF Bounded, ConstantsOK
    <3> QED
      BY <3>1, <3>3
  <2> QED
    BY <2>2, <2>3 DEF BudgetHeld
<1> QED
  BY <1>1, InvHolds, PTL

\* A wallet that holds the reserve of a standing offer at the start keeps it,
\* though several bids may be accepted before the first is funded
\* (validateOfferWalletFloor).
THEOREM ReserveKept ==
    ASSUME Bounded, HasReserve
    PROVE  Spec => []FloorHeld
<1>1. IInv => FloorHeld
  <2> SUFFICES ASSUME IInv, Mode = "STANDING" PROVE Balance - Sum(funded) >= Floor
    BY DEF FloorHeld
  <2>1. funded \cup Going \in SUBSET Bids /\ funded \in SUBSET (funded \cup Going)
    BY SetsTyped DEF IInv
  <2>2. /\ Sum(funded) <= Sum(funded \cup Going)
        /\ Sum(funded) \in Nat /\ Sum(funded \cup Going) \in Nat
        /\ Floor \in Nat /\ Balance \in Nat
    BY <2>1, SumMono, SumNat DEF Bounded, ConstantsOK
  <2>3. Sum(funded \cup Going) + Floor <= Balance
    BY DEF IInv, FloorInv
  <2> QED
    BY <2>2, <2>3
<1> QED
  BY <1>1, InvHolds, PTL

\* A strategy never has more than max_concurrent_bids going or queued, each
\* verdict being taken while the earlier ones wait in the queue
\* (shouldAutoAcceptBid).
THEOREM ConcurrencyKept ==
    ASSUME Bounded
    PROVE  Spec => []ConcurrencyHeld
<1>1. IInv => ConcurrencyHeld
  BY DEF IInv, ConcurrencyInv, ConcurrencyHeld, Going
<1> QED
  BY <1>1, InvHolds, PTL

\* No completed swap is counted twice in the fills, by its notification and by the
\* reconciliation of a restart, however late the notification is and whatever
\* fails (complete_offer_fill, reconcileOfferTracking).
THEOREM CountedOnce ==
    ASSUME Bounded
    PROVE  Spec => []FilledOnce
<1>1. IInv => FilledOnce
  <2> SUFFICES ASSUME IInv PROVE FilledOnce
    OBVIOUS
  <2>1. /\ Sum(notices) \in Nat /\ Cardinality(notices) \in Nat
        /\ Sum(Completed) \in Nat /\ Cardinality(Completed) \in Nat
        /\ filled \in Nat /\ fills_completed \in Nat
    BY SetsTyped, SumNat, Sizes DEF IInv, TypeOK
  <2> QED
    BY <2>1 DEF IInv, FillsInv, FilledOnce
<1> QED
  BY <1>1, InvHolds, PTL

\* After a restart the fills of a tracked offer are exactly its completed bids:
\* every notification that was lost is made up for and none is added again.
THEOREM RestartMakesUp ==
    ASSUME Bounded
    PROVE  Spec => [][RestartReconciles]_vars
<1>1. ASSUME IInv, [Next]_vars PROVE RestartReconciles
  <2>1. SUFFICES ASSUME ~up, up', Tracked
                 PROVE  filled' = Sum(Completed) /\ fills_completed' = Cardinality(Completed)
    BY DEF RestartReconciles
  <2>2. Restart
    <3>1. ~\E b \in Bids : BidStep(b)
      <4>1. SUFFICES ASSUME NEW b \in Bids, BidStep(b) PROVE FALSE
        OBVIOUS
      <4>2. CASE BidExpires(b)
        BY <2>1, <4>2 DEF BidExpires
      <4> QED
        BY <2>1, <4>1, <4>2 DEF BidStep, ProcessXmrBid, ReceiveXmrBid, ProcessBid, Receives,
           AutoAcceptBid, CheckDelayedAutoAccept, RunAccept, ManualAccept, Fund, Fail,
           Complete, CompleteOfferFill, ExpireBid
    <3>2. ~(RevokeExhausted \/ RevokeOffer \/ ProcessOfferRevoke \/ OfferExpires \/ Crash)
      BY <2>1 DEF RevokeExhausted, RevokeOffer, ProcessOfferRevoke, OfferExpires, Crash
    <3>3. ~UNCHANGED vars
      BY <2>1 DEF vars
    <3> QED
      BY <1>1, <3>1, <3>2, <3>3 DEF Next
  <2>3. /\ Sum(Completed) \in Nat /\ Cardinality(Completed) \in Nat
        /\ filled \in Nat /\ fills_completed \in Nat
    BY <1>1, SetsTyped, SumNat, Sizes DEF IInv, TypeOK
  <2>4. filled <= Sum(Completed) /\ fills_completed <= Cardinality(Completed)
    <3>1. notices = {}
      BY <1>1, <2>1 DEF IInv, FillsInv
    <3>2. filled + 0 <= Sum(Completed) /\ fills_completed + 0 <= Cardinality(Completed)
      BY <1>1, <3>1, SumEmpty, FS_EmptySet DEF IInv, FillsInv
    <3> QED
      BY <2>3, <3>2
  <2>5. CASE filled < Sum(Completed) \/ fills_completed < Cardinality(Completed)
    BY <2>1, <2>2, <2>3, <2>4, <2>5 DEF Restart, Reconciled
  <2>6. CASE ~(filled < Sum(Completed) \/ fills_completed < Cardinality(Completed))
    <3>1. filled' = filled /\ fills_completed' = fills_completed
      BY <2>2, <2>6 DEF Restart
    <3> QED
      BY <2>3, <2>4, <2>6, <3>1
  <2> QED
    BY <2>5, <2>6
<1> QED
  BY <1>1, InvHolds, PTL DEF Spec
=============================================================================
