----------------------------- MODULE OfferBudget -----------------------------
(***************************************************************************)
(* The maker's side of one offer: bids arrive, an automation strategy or   *)
(* the user accepts them, accepted bids complete or fail, and the offer is *)
(* held to its budget, its number of concurrent bids and the wallet's      *)
(* reserve (offer_tracking.py).                                            *)
(*                                                                         *)
(* An automatic accept is an action in the database queue that runs later. *)
(* A completed swap is counted by a notification that another thread       *)
(* handles later still; it is lost when the process dies and made up for   *)
(* by reconcileOfferTracking.                                              *)
(***************************************************************************)
EXTENDS Integers, FiniteSets, FiniteSetsExt

CONSTANTS
  Bids,           \* bids on the offer
  Amount,         \* Amount[b]: what bid b takes of the offer's coin_from
  Kind,           \* "secret_hash", "adaptor" or "reverse": the offer's swap type
  Mode,           \* OfferTrackingModes: "LEGACY", "ONE_TIME", "FIXED_TOTAL", "STANDING"
  Budget,         \* total_budget, of a LEGACY offer its amount
  Balance,        \* of the wallet at the start
  Floor,          \* min_wallet_reserve
  MaxConcurrent,  \* max_concurrent_bids of the strategy
  Manual,         \* the user accepts bids too
  MaxFaults       \* bound: crashes and daemon failures in a behaviour

\* What is assumed of the constants.
ConstantsOK ==
    /\ Amount \in [Bids -> Nat \ {0}]
    /\ {Budget, Balance, Floor, MaxFaults} \subseteq Nat
    /\ MaxConcurrent \in Nat \ {0}
    /\ Kind \in {"secret_hash", "adaptor", "reverse"}
    /\ Mode \in {"LEGACY", "ONE_TIME", "FIXED_TOTAL", "STANDING"}
    /\ Manual \in BOOLEAN

BidStates == {"NONE", "BID_RECEIVING", "BID_RECEIVED", "BID_AACCEPT_DELAY",
              "BID_AACCEPT_FAIL", "SWAP_DELAYING", "BID_ACCEPTED",
              "SWAP_COMPLETED", "BID_ERROR", "BID_EXPIRED"}

\* canAcceptBidState
Acceptable == {"BID_RECEIVED", "BID_AACCEPT_DELAY", "BID_AACCEPT_FAIL"}

\* canExpireBidState
CanExpire == Acceptable \union {"BID_RECEIVING"}

VARIABLES
  state, last,  \* state[b] and the state before it (getLastBidState)
  accepts,      \* bids with an ACCEPT_* action in the queue
  funded,       \* bids whose lock transaction has left the wallet
  filled, fills_completed,   \* of the offer_tracking row
  notices,      \* SWAP_COMPLETED notifications the thread pool has not run
  uncounted,    \* history: completed bids whose fill is not in the row
  overtaken,    \* history: bids that were uncounted when a later one was accepted
  revoking,     \* revokeOffer is about to be called for the exhausted offer
  revoke_sent,  \* an OFFER_REVOKE message is under way
  active,       \* offer.active_ind = 1
  expired,      \* bids past their expire_at
  offer_expired, up, faults

vars == <<state, last, accepts, funded, filled, fills_completed, notices,
          uncounted, overtaken, revoking, revoke_sent, active, expired,
          offer_expired, up, faults>>

rowVars == <<state, last, accepts, funded>>
trackVars == <<filled, fills_completed, notices, uncounted, overtaken>>
offerVars == <<revoking, revoke_sent, active>>
timeVars == <<expired, offer_expired>>

TypeOK ==
  /\ state \in [Bids -> BidStates] /\ last \in [Bids -> BidStates]
  /\ accepts \subseteq Bids /\ funded \subseteq Bids
  /\ filled \in Nat /\ fills_completed \in Nat
  /\ notices \subseteq Bids /\ expired \subseteq Bids
  /\ uncounted \subseteq Bids /\ overtaken \subseteq Bids
  /\ {revoking, revoke_sent, active, offer_expired, up} \subseteq BOOLEAN
  /\ faults \in 0..MaxFaults

Init ==
  /\ state = [b \in Bids |-> "NONE"]
  /\ last = [b \in Bids |-> "NONE"]
  /\ accepts = {} /\ funded = {}
  /\ filled = 0 /\ fills_completed = 0
  /\ notices = {} /\ expired = {} /\ uncounted = {} /\ overtaken = {}
  /\ revoking = FALSE /\ revoke_sent = FALSE /\ active = TRUE
  /\ offer_expired = FALSE /\ up = TRUE /\ faults = 0

-----------------------------------------------------------------------------
\* What an offer has left.

Sum(S) == MapThenSumSet(LAMBDA b : Amount[b], S)

Completed == {b \in Bids : state[b] = "SWAP_COMPLETED"}

\* Mutant: bids that wait for their accept action are left out.
InFlightAccepted == {b \in Bids : state[b] \in {"SWAP_DELAYING", "BID_ACCEPTED"}}

\* offer_in_flight_amount: bids in progress or about to be accepted.
InFlight == {b \in Bids : state[b] \in {"SWAP_DELAYING", "BID_ACCEPTED"}} \union accepts

Tracked == Mode # "LEGACY"

MaxFills == IF Mode = "ONE_TIME" THEN 1 ELSE 0

\* offer_tracking_remaining, with the amount u in flight.
Remaining(u) == IF Budget > filled + u THEN Budget - filled - u ELSE 0

\* offer_tracking_is_exhausted: with f filled in n swaps, u in flight.
Exhausted(f, n, u) ==
  /\ Mode \in {"ONE_TIME", "FIXED_TOTAL"}
  /\ (MaxFills > 0 /\ n >= MaxFills) \/ f + u >= Budget

\* Mutant: only what is filled counts against the budget.
BudgetAllowsFilled(b) ==
  Mode \in {"ONE_TIME", "FIXED_TOTAL"} => Amount[b] <= Remaining(0)

\* offer_budget_allows, validate_offer_budget.
BudgetAllows(b) ==
  LET u == Sum(InFlight \ {b})
  IN /\ ~Exhausted(filled, fills_completed, u)
     /\ Mode \in {"ONE_TIME", "FIXED_TOTAL"} => Amount[b] <= Remaining(u)

\* Mutant of FloorAllows: what is in flight is taken to be spent already.
FloorAllowsSpent(b) ==
  Mode = "STANDING" => Balance - Sum(funded) - Amount[b] >= Floor

\* validateOfferWalletFloor, while the balance can be asked for.
FloorAllows(b) ==
  Mode = "STANDING" /\ Floor > 0 =>
    Balance - Sum(funded) - Sum(InFlight \ {b}) - Amount[b] >= Floor

\* The limit of an offer without a budget.
LegacyAllows(b) ==
  ~Tracked => Sum(InFlight \union Completed) + Amount[b] <= Budget

-----------------------------------------------------------------------------
\* Bids arrive.

Fault == faults < MaxFaults /\ faults' = faults + 1

\* bid.setState
SetState(b, s) ==
  /\ state' = [state EXCEPT ![b] = s]
  /\ last' = [last EXCEPT ![b] = state[b]]

\* shouldAutoAcceptBid: what the strategy makes of bid b.  An identity that is
\* not wanted fails it, a wallet that is short delays it.
Verdicts(b) ==
  IF b \in expired \/ ~BudgetAllows(b) \/ ~FloorAllows(b) \/ ~LegacyAllows(b)
  THEN {"BID_AACCEPT_FAIL"}
  ELSE IF Cardinality(InFlight) >= MaxConcurrent THEN {"BID_AACCEPT_DELAY"}
  ELSE {"accept", "BID_AACCEPT_FAIL", "BID_AACCEPT_DELAY"}

\* The offer takes bids: processBid and its siblings.
Receives(b) ==
  up /\ state[b] = "NONE" /\ active /\ ~offer_expired /\ b \notin expired

\* processXmrBid: the bid is stored until its split messages are complete.
ProcessXmrBid(b) ==
  /\ Kind = "adaptor" /\ Receives(b)
  /\ SetState(b, "BID_RECEIVING")
  /\ UNCHANGED <<accepts, funded, trackVars, offerVars, timeVars, up, faults>>

\* receiveXmrBid: verdict and action are one transaction.
ReceiveXmrBid(b) ==
  /\ Kind = "adaptor" /\ up /\ state[b] = "BID_RECEIVING"
  /\ \E v \in Verdicts(b) :
       IF v = "accept"
       THEN /\ state' = [state EXCEPT ![b] = "SWAP_DELAYING"]
            /\ last' = [last EXCEPT ![b] = "BID_RECEIVED"]
            /\ accepts' = accepts \union {b}
       ELSE /\ state' = [state EXCEPT ![b] = v]
            /\ last' = [last EXCEPT ![b] = "BID_RECEIVED"]
            /\ UNCHANGED accepts
  /\ UNCHANGED <<funded, trackVars, offerVars, timeVars, up, faults>>

\* processBid, processADSBidReversed: the bid is saved first.
ProcessBid(b) ==
  /\ Kind # "adaptor" /\ Receives(b)
  /\ SetState(b, "BID_RECEIVED")
  /\ UNCHANGED <<accepts, funded, trackVars, offerVars, timeVars, up, faults>>

\* Their second part.  A bid whose process died in between is left to the user.
AutoAcceptBid(b) ==
  /\ Kind # "adaptor" /\ up
  /\ state[b] = "BID_RECEIVED" /\ last[b] = "NONE" /\ b \notin accepts
  /\ \E v \in Verdicts(b) :
       IF v = "accept"
       THEN /\ accepts' = accepts \union {b}
            /\ IF Kind = "reverse" THEN SetState(b, "SWAP_DELAYING")
                                   ELSE UNCHANGED <<state, last>>
       ELSE SetState(b, v) /\ UNCHANGED accepts
  /\ UNCHANGED <<funded, trackVars, offerVars, timeVars, up, faults>>

\* checkDelayedAutoAccept: the state stays BID_AACCEPT_DELAY, the queued action
\* keeps the bid from being queued again.
CheckDelayedAutoAccept(b) ==
  /\ up /\ state[b] = "BID_AACCEPT_DELAY" /\ b \notin accepts
  /\ \E v \in Verdicts(b) :
       IF v = "accept" THEN accepts' = accepts \union {b} /\ UNCHANGED <<state, last>>
                       ELSE SetState(b, v) /\ UNCHANGED accepts
  /\ UNCHANGED <<funded, trackVars, offerVars, timeVars, up, faults>>

-----------------------------------------------------------------------------
\* Bids are accepted.

\* The checks of acceptBid, acceptXmrBid and acceptADSReverseBid.
MayAccept(b, s) ==
  /\ b \notin expired /\ s \in Acceptable /\ active
  /\ Kind # "secret_hash" => ~offer_expired
  /\ BudgetAllows(b) /\ FloorAllows(b)

\* They pass: a secret-hash bid locks its coin at once.
Accepted(b) ==
  /\ SetState(b, "BID_ACCEPTED")
  /\ overtaken' = overtaken \union uncounted
  /\ funded' = IF Kind = "secret_hash" THEN funded \union {b} ELSE funded

\* Mutant of AcceptFails: the bid stays in SWAP_DELAYING.
AcceptFailsKept(b) == UNCHANGED <<state, last>>

\* checkQueuedActions, after an accept that failed for good.
AcceptFails(b) ==
  IF state[b] = "SWAP_DELAYING" /\ last[b] \in Acceptable
  THEN SetState(b, IF Kind = "reverse" THEN "BID_ERROR" ELSE last[b])
  ELSE UNCHANGED <<state, last>>

\* checkQueuedActions with the accept of b.
RunAccept(b) ==
  LET s == IF state[b] = "SWAP_DELAYING" THEN last[b] ELSE state[b]
  IN /\ up /\ b \in accepts
     /\ \/ /\ MayAccept(b, s) /\ Accepted(b)
           /\ accepts' = accepts \ {b} /\ UNCHANGED faults
        \/ /\ ~MayAccept(b, s) /\ UNCHANGED faults
           /\ AcceptFails(b) /\ accepts' = accepts \ {b} /\ UNCHANGED <<funded, overtaken>>
        \/ /\ MayAccept(b, s) /\ Fault             \* the wallet fails for good
           /\ AcceptFails(b) /\ accepts' = accepts \ {b} /\ UNCHANGED <<funded, overtaken>>
     /\ UNCHANGED <<filled, fills_completed, notices, uncounted, offerVars, timeVars, up>>

\* The user accepts b: acceptBid from the web pages or the API.
ManualAccept(b) ==
  /\ Manual /\ up
  /\ MayAccept(b, state[b]) /\ Accepted(b)
  /\ UNCHANGED <<accepts, filled, fills_completed, notices, uncounted, offerVars,
                 timeVars, up, faults>>

-----------------------------------------------------------------------------
\* Accepted bids.

\* The lock of an adaptor-signature bid is published.
Fund(b) ==
  /\ up /\ state[b] = "BID_ACCEPTED" /\ b \notin funded
  /\ funded' = funded \union {b}
  /\ UNCHANGED <<state, last, accepts, trackVars, offerVars, timeVars, up, faults>>

\* The swap ends without success, its lock is refunded; deactivateBid.
Fail(b) ==
  /\ up /\ state[b] = "BID_ACCEPTED"
  /\ SetState(b, "BID_ERROR")
  /\ funded' = funded \ {b}
  /\ accepts' = accepts \ {b}
  /\ UNCHANGED <<trackVars, offerVars, timeVars, up, faults>>

\* The swap succeeds and the notification is given to the thread pool: the main
\* loop and the HTTP threads go on whether or not it has been handled.
Complete(b) ==
  /\ up /\ state[b] = "BID_ACCEPTED" /\ b \in funded
  /\ SetState(b, "SWAP_COMPLETED")
  /\ notices' = notices \union {b} /\ uncounted' = uncounted \union {b}
  /\ UNCHANGED <<accepts, funded, filled, fills_completed, overtaken, offerVars,
                 timeVars, up, faults>>

\* completeOfferTrackingForBid, complete_offer_fill in a thread of the pool.  An
\* error is logged and the fill forgotten.
CompleteOfferFill(b) ==
  /\ up /\ b \in notices
  /\ notices' = notices \ {b}
  /\ \/ /\ Tracked
        /\ filled' = filled + Amount[b]
        /\ fills_completed' = fills_completed + 1
        /\ revoking' = (revoking \/ (active /\ Exhausted(filled', fills_completed', 0)))
        /\ uncounted' = uncounted \ {b}
        /\ UNCHANGED faults
     \/ /\ ~Tracked /\ uncounted' = uncounted \ {b}
        /\ UNCHANGED <<filled, fills_completed, revoking, faults>>
     \/ /\ Tracked /\ Fault
        /\ UNCHANGED <<filled, fills_completed, uncounted, revoking>>
  /\ UNCHANGED <<rowVars, overtaken, revoke_sent, active, timeVars, up>>

\* Mutant: the error of a failed revoke is all that is left of it.
RevokeExhaustedFails ==
  /\ up /\ revoking
  /\ revoking' = FALSE
  /\ UNCHANGED <<rowVars, trackVars, revoke_sent, active, timeVars, up, faults>>

\* revokeOffer for the exhausted offer: the message is sent, the row is left to
\* processOfferRevoke.
RevokeExhausted ==
  /\ up /\ revoking
  /\ revoking' = FALSE
  /\ revoke_sent' = (revoke_sent \/ (active /\ ~offer_expired))
  /\ UNCHANGED <<rowVars, trackVars, active, timeVars, up, faults>>

\* The user, or checkStandingOfferWalletFloors, revokes the offer.
RevokeOffer ==
  /\ up /\ active /\ ~offer_expired /\ ~revoke_sent
  /\ \/ Manual
     \/ Mode = "STANDING" /\ Floor > 0 /\ Balance - Sum(funded) <= Floor
  /\ revoke_sent' = TRUE
  /\ UNCHANGED <<rowVars, trackVars, revoking, active, timeVars, up, faults>>

\* processOfferRevoke of the maker's own message.
ProcessOfferRevoke ==
  /\ up /\ revoke_sent
  /\ revoke_sent' = FALSE
  /\ active' = (active /\ offer_expired)
  /\ UNCHANGED <<rowVars, trackVars, revoking, timeVars, up, faults>>

-----------------------------------------------------------------------------
\* Time, crashes.

BidExpires(b) ==
  /\ state[b] # "NONE" /\ b \notin expired
  /\ expired' = expired \union {b}
  /\ UNCHANGED <<rowVars, trackVars, offerVars, offer_expired, up, faults>>

OfferExpires ==
  /\ ~offer_expired /\ offer_expired' = TRUE
  /\ UNCHANGED <<rowVars, trackVars, offerVars, expired, up, faults>>

\* expireBidsAndOffers
ExpireBid(b) ==
  /\ up /\ b \in expired /\ state[b] \in CanExpire
  /\ SetState(b, "BID_EXPIRED")
  /\ UNCHANGED <<accepts, funded, trackVars, offerVars, timeVars, up, faults>>

Crash ==
  /\ up /\ Fault
  /\ up' = FALSE /\ notices' = {} /\ revoking' = FALSE
  /\ UNCHANGED <<rowVars, filled, fills_completed, uncounted, overtaken, revoke_sent,
                 active, timeVars>>

\* Mutant: the fills of the completed bids are added again.
ReconciledAgain(f, done) == f + done

\* reconcileOfferTracking: f on record, done by the completed bids.
Reconciled(f, done) == IF f > done THEN f ELSE done

\* start, with reconcileOfferTracking.
Restart ==
  /\ ~up /\ up' = TRUE
  /\ IF Tracked /\ (filled < Sum(Completed) \/ fills_completed < Cardinality(Completed))
     THEN /\ filled' = Reconciled(filled, Sum(Completed))
          /\ fills_completed' = Reconciled(fills_completed, Cardinality(Completed))
          /\ revoking' = (active /\ Exhausted(filled', fills_completed', 0))
          /\ uncounted' = {}
     ELSE UNCHANGED <<filled, fills_completed, uncounted, revoking>>
  /\ UNCHANGED <<rowVars, notices, overtaken, revoke_sent, active, timeVars, faults>>

BidStep(b) ==
  \/ ProcessXmrBid(b) \/ ReceiveXmrBid(b) \/ ProcessBid(b) \/ AutoAcceptBid(b)
  \/ CheckDelayedAutoAccept(b) \/ RunAccept(b) \/ ManualAccept(b)
  \/ Fund(b) \/ Fail(b) \/ Complete(b) \/ CompleteOfferFill(b)
  \/ BidExpires(b) \/ ExpireBid(b)

Next ==
  \/ \E b \in Bids : BidStep(b)
  \/ RevokeExhausted \/ RevokeOffer \/ ProcessOfferRevoke \/ OfferExpires
  \/ Crash \/ Restart

Spec == Init /\ [][Next]_vars

-----------------------------------------------------------------------------
\* Properties.

\* Bids the maker has committed coins to.
Committed == {b \in Bids : state[b] \in {"BID_ACCEPTED", "SWAP_COMPLETED"}}

\* What a maker is told of a tracked offer ("Unlimited fills, bounded by budget",
\* init_offer_tracking): it is never accepted beyond its budget, by the strategy
\* and the user together.  An accept between the end of a swap and the counting of
\* its fill breaks it, so the code keeps only BudgetHeld.
BoundedByBudget ==
  Mode \in {"ONE_TIME", "FIXED_TOTAL"} => Sum(Committed) <= Budget

\* What the code keeps: a tracked offer is exceeded by no more than the completed
\* swaps that a later accept overtook, the fill being counted by the thread pool
\* afterwards, lost to an error, or lost in a crash and not yet made up for; an
\* untracked one is never auto-accepted beyond its amount.
BudgetHeld ==
  /\ Mode \in {"ONE_TIME", "FIXED_TOTAL"} => Sum(Committed \ overtaken) <= Budget
  /\ Mode = "LEGACY" /\ ~Manual => Sum(Committed) <= Budget

\* An automatic accept never takes the wallet below the reserve of the offer,
\* though several bids may be accepted before the first one is funded
\* (validateOfferWalletFloor).
FloorHeld == Mode = "STANDING" => Balance - Sum(funded) >= Floor

\* The strategy has no more than max_concurrent_bids in progress or about to be.
ConcurrencyHeld ==
  ~Manual => Cardinality({b \in Bids : state[b] = "BID_ACCEPTED"} \union accepts)
               <= MaxConcurrent

\* A bid in SWAP_DELAYING, which nothing expires, waits for an action that is in
\* the queue (checkQueuedActions, "If delaying with no (further) queued actions
\* reset state").
NoBidStranded == \A b \in Bids : state[b] = "SWAP_DELAYING" => b \in accepts

\* No completed swap is counted twice, by its notification and by the
\* reconciliation after a restart.
FilledOnce == filled <= Sum(Completed) /\ fills_completed <= Cardinality(Completed)

\* A restart makes up for every notification that was lost.
RestartReconciles ==
  ~up /\ up' /\ Tracked => filled' = Sum(Completed) /\ fills_completed' = Cardinality(Completed)

\* The budget of the offer is filled.
Filled == Exhausted(filled, fills_completed, 0)

\* The offer is off the network.
Closed == ~active \/ offer_expired

\* Bid b can no longer be accepted and has an end, from SWAP_DELAYING too.
Ended(b) == state[b] \in {"BID_ACCEPTED", "SWAP_COMPLETED", "BID_ERROR", "BID_EXPIRED"}
=============================================================================
