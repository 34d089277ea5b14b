------------------------------- MODULE Expiry -------------------------------
(***************************************************************************)
(* How bids and offers expire (expireBidsAndOffers) and how their rows are *)
(* removed (remove_expired_data).  Records that will expire before the     *)
(* next look at the database wait in two lists; a list is popped while it  *)
(* is enumerated, may hold a record twice, and is lost with the process.   *)
(* The offer's and the bid's own life (received, accepted, ended) is what  *)
(* the other handlers do between two passes of update().                   *)
(***************************************************************************)
EXTENDS Integers, FiniteSets, SequencesExt

CONSTANTS
    Offers, Bids,  \* the records
    OfferOf,       \* OfferOf[b]: the offer the bid b is made on
    ValidFor,      \* the validity periods records are made with
    Interval,      \* check_expiring_bids_offers_seconds
    Retain,        \* expire_db_records_after
    UnusedOnly,    \* only offers without bids are removed (the default)
    MaxTime        \* bound of the clock

\* What is assumed of the constants.
ConstantsOK ==
    /\ OfferOf \in [Bids -> Offers]
    /\ Interval \in Nat \ {0} /\ Retain \in Nat /\ MaxTime \in Nat
    /\ ValidFor \subseteq Nat \ {0}
    /\ UnusedOnly \in BOOLEAN

Records == Offers \cup Bids

VARIABLES
    time,      \* getTime()
    passed,    \* the passes of update() have run at this time
    st,        \* st[r]: "none", "open" (can expire), "active" (a swap), "ended",
               \* "expired" or "removed"
    exp,       \* exp[r]: expire_at
    expiring,  \* _expiring_offers and _expiring_bids, in their order
    checked,   \* _last_checked_expiring_bids_offers
    locked     \* the bids with prefunded inputs locked in the wallet

vars == <<time, passed, st, exp, expiring, checked, locked>>

States == {"none", "open", "active", "ended", "expired", "removed"}

TypeOK ==
    /\ time \in 1..MaxTime /\ passed \in BOOLEAN
    /\ st \in [Records -> States]
    /\ exp \in [Records -> 0..(2 * MaxTime)]
    /\ DOMAIN expiring = {"offers", "bids"}
    /\ \A k \in DOMAIN expiring : Range(expiring[k]) \subseteq Records
    /\ checked \in 0..MaxTime
    /\ locked \subseteq Bids

Init ==
    /\ time = 1 /\ passed = FALSE
    /\ st = [r \in Records |-> "none"]
    /\ exp = [r \in Records |-> 0]
    /\ expiring = [offers |-> <<>>, bids |-> <<>>]
    /\ checked = 0
    /\ locked = {}

\* An offer is posted or received.
NewOffer(o) ==
    /\ st[o] = "none"
    /\ st' = [st EXCEPT ![o] = "open"]
    /\ \E v \in ValidFor : exp' = [exp EXCEPT ![o] = time + v]
    /\ UNCHANGED <<time, passed, expiring, checked, locked>>

\* A bid is posted or received on an offer that did not expire; a posted one
\* may come with a prefunded transaction, whose inputs are locked.
NewBid(b) ==
    /\ st[b] = "none"
    /\ st[OfferOf[b]] = "open" /\ exp[OfferOf[b]] > time
    /\ st' = [st EXCEPT ![b] = "open"]
    /\ \E v \in ValidFor : exp' = [exp EXCEPT ![b] = time + v]
    /\ locked' \in {locked, locked \cup {b}}
    /\ UNCHANGED <<time, passed, expiring, checked>>

\* A bid that was not set expired is accepted.  acceptBid looks at the time,
\* the side that receives the answer at the state only.
AcceptBid(b) ==
    /\ st[b] = "open"
    /\ st' = [st EXCEPT ![b] = "active"]
    /\ UNCHANGED <<time, passed, exp, expiring, checked, locked>>

\* The swap ends; its inputs are spent or unlocked.
EndBid(b) ==
    /\ st[b] = "active"
    /\ st' = [st EXCEPT ![b] = "ended"]
    /\ locked' = locked \ {b}
    /\ UNCHANGED <<time, passed, exp, expiring, checked>>

\* The offer is revoked.
RevokeOffer(o) ==
    /\ st[o] = "open"
    /\ st' = [st EXCEPT ![o] = "ended"]
    /\ UNCHANGED <<time, passed, exp, expiring, checked, locked>>

\* Mutant: the expired entry is not popped.
ScanStepKeeps(acc, r) ==
    IF exp[r] <= time THEN [acc EXCEPT !.out = @ \cup {r}, !.keep = Append(@, r)]
    ELSE [acc EXCEPT !.keep = Append(@, r)]

\* One turn of "for i, x in enumerate(list)": popping the entry at i moves the
\* next one to i, so the turn for i + 1 never looks at it.
ScanStep(acc, r) ==
    CASE acc.skip          -> [acc EXCEPT !.keep = Append(@, r), !.skip = FALSE]
      [] exp[r] <= time    -> [acc EXCEPT !.out = @ \cup {r}, !.skip = TRUE]
      [] OTHER             -> [acc EXCEPT !.keep = Append(@, r)]

\* The whole loop: the entries kept and the records found expired.
Scan(list) == FoldLeft(ScanStep, [keep |-> <<>>, out |-> {}, skip |-> FALSE], list)

\* The records the periodic query returns: those that expire before the next one.
DueSoon(R) == {r \in R : st[r] = "open" /\ exp[r] <= time + Interval}

\* The second look: only a record that still can expire is updated.
Expirable(R) == {r \in R : st[r] = "open"}

\* Mutant: the inputs of an expired bid stay locked.
UnlockInputsNot(B) == locked

\* unlockPrefundedTxInputs for the bids that expire.
UnlockInputs(B) == locked \ B

\* Mutant: the query is made once, when the process starts.
CheckRecordsOnce == checked = 0

\* The database is looked at once per interval.
CheckRecords == time - checked >= Interval

\* expireBidsAndOffers: the lists are scanned, then, once per interval, the
\* database; what the query finds expires now or is appended to its list, in
\* the order of the query.
ExpireBidsAndOffers ==
    /\ ~passed /\ passed' = TRUE
    /\ LET so == Scan(expiring.offers)
           sb == Scan(expiring.bids)
           dueO == IF CheckRecords THEN DueSoon(Offers) ELSE {}
           dueB == IF CheckRecords THEN DueSoon(Bids) ELSE {}
           now(R) == {r \in R : exp[r] <= time}
           out == Expirable(so.out \cup sb.out \cup now(dueO) \cup now(dueB))
       IN  /\ expiring' = [offers |-> so.keep \o SetToSeq(dueO \ now(dueO)),
                           bids |-> sb.keep \o SetToSeq(dueB \ now(dueB))]
           /\ st' = [r \in Records |-> IF r \in out THEN "expired" ELSE st[r]]
           /\ locked' = UnlockInputs(out)
    /\ checked' = IF CheckRecords THEN time ELSE checked
    /\ UNCHANGED <<time, exp>>

\* activeBidsQueryStr: a bid that keeps the rows of its offer.
KeepsOffer(b) == st[b] = "active" \/ (st[b] = "open" /\ exp[b] > time)

\* Mutant: an offer is removed whatever its bids do.
RemovableAny(o) == st[o] \notin {"none", "removed"} /\ exp[o] <= time - Retain

\* The offers remove_expired_data removes, whatever state they are in.
Removable(o) ==
    /\ st[o] \notin {"none", "removed"}
    /\ exp[o] <= time - Retain
    /\ \A b \in Bids : OfferOf[b] = o =>
         IF UnusedOnly THEN st[b] \in {"none", "removed"} ELSE ~KeepsOffer(b)

\* Mutant: the rows of the bids are left.
RemoveOffersOnly ==
    /\ passed /\ \E o \in Offers : Removable(o)
    /\ st' = [r \in Records |-> IF r \in Offers /\ Removable(r) THEN "removed" ELSE st[r]]
    /\ UNCHANGED <<time, passed, exp, expiring, checked, locked>>

\* remove_expired_data: the offers go with the rows of all their bids.  The
\* prefunded transactions go too, and nothing unlocks their inputs any more.
\* update() calls it after expireBidsAndOffers.
RemoveExpiredData ==
    /\ passed /\ \E o \in Offers : Removable(o)
    /\ st' = [r \in Records |->
                IF \/ r \in Offers /\ Removable(r)
                   \/ r \in Bids /\ st[r] # "none" /\ Removable(OfferOf[r])
                THEN "removed" ELSE st[r]]
    /\ UNCHANGED <<time, passed, exp, expiring, checked, locked>>

\* The process stops and starts: the lists and the time of the last query go.
Restart ==
    /\ expiring' = [offers |-> <<>>, bids |-> <<>>]
    /\ checked' = 0 /\ passed' = FALSE
    /\ UNCHANGED <<time, st, exp, locked>>

\* update() runs at least once between two ticks.
Tick ==
    /\ passed /\ time < MaxTime
    /\ time' = time + 1 /\ passed' = FALSE
    /\ UNCHANGED <<st, exp, expiring, checked, locked>>

Next ==
    \/ \E o \in Offers : NewOffer(o) \/ RevokeOffer(o)
    \/ \E b \in Bids : NewBid(b) \/ AcceptBid(b) \/ EndBid(b)
    \/ ExpireBidsAndOffers \/ RemoveExpiredData \/ Restart \/ Tick

Spec == Init /\ [][Next]_vars

-----------------------------------------------------------------------------
\* Although the loop skips the neighbour of what it pops, and although a record
\* made after a query is in no list, no record can expire a whole interval
\* after its time: the next query finds it.
ExpiredWithinInterval ==
    \A r \in Records : passed /\ st[r] = "open" => time - exp[r] < Interval

\* A bid that expired or was removed leaves no inputs locked in the wallet.
NothingLeftLocked == \A b \in Bids : st[b] \in {"expired", "removed"} => b \notin locked

\* The rows of a swap that runs are never removed, and no bid outlives its offer
\* (a property of steps).
SwapsKept ==
    \A b \in Bids :
        /\ st[b] = "active" => st'[b] # "removed"
        /\ st'[OfferOf[b]] = "removed" => st'[b] \in {"none", "removed"}

\* A record whose time has come is not left in the lists for good, although the
\* loop skips entries: it is gone after as many passes as the list is long.
ListsDrain ==
    \A k \in DOMAIN expiring : \A i \in DOMAIN expiring[k] :
        passed => time - exp[expiring[k][i]] <= Len(expiring[k])
=============================================================================
