----------------------------- MODULE OfferMaker -----------------------------
(***************************************************************************)
(* The automated market maker's offers: scripts/createoffers.py keeps one  *)
(* offer up for each of its templates and, for templates that sell a fixed *)
(* total, revokes and reposts it as it is taken.                           *)
(*                                                                         *)
(* The script is a second process.  It sees the node only through its JSON *)
(* API, so everything it decides on (the active offers, the balance, what  *)
(* is filled and in flight) may have changed by the time it acts, and what *)
(* it remembers survives a restart only if write_state saved it.  The node *)
(* is reduced to what the script sees of it; OfferBudget models how it     *)
(* keeps the budget of one offer.  All templates sell the same pair.       *)
(***************************************************************************)
EXTENDS Integers, FiniteSets, FiniteSetsExt

CONSTANTS
  Templates,     \* the offer templates
  Mode,          \* their offer_mode, "fixed_total" or "one_time"
  Total,         \* total_to_sell of a template
  Amount,        \* amount of a template
  Step,          \* amount_step of a template
  MinBalance,    \* the larger of min_coin_from_amt and the fee reserve
  Balance,       \* the coins in the wallet at the start
  MaxOffers,     \* bound on the offers posted
  MaxBids,       \* bound on the bids accepted
  Crashes,       \* TRUE: the script may be killed and started again
  Prunes         \* TRUE: entries may be older than prune_state_after_seconds

\* What is assumed of the constants.
ConstantsOK ==
    /\ IsFiniteSet(Templates) /\ Mode \in {"fixed_total", "one_time"}
    /\ {Total, Amount, Step, Balance, MaxOffers, MaxBids} \subseteq Nat \ {0}
    /\ MinBalance \in Nat /\ Step <= Amount /\ Amount <= Total
    /\ {Crashes, Prunes} \subseteq BOOLEAN

Ids == 1..MaxOffers

None == -1

VARIABLES
  offers,   \* the node: offer id -> its row, in the order they were posted
  wallet,   \* the node: the spendable balance
  accepted, \* the bids accepted
  mem,      \* script_state of the running script
  disk,     \* the state file
  pc,       \* where the script is in its loop
  todo,     \* templates of this round still to process
  snap,     \* the active offers as read at the start of the round
  balance,  \* the wallet balance as read in this round
  plan,     \* what the script is about to post
  unread,   \* history: sold of plan.t and not counted in the plan
  missed    \* history, per template: `unread' when its newest offer was posted, and
            \* what was accepted since on its older offers, or on an uncounted fill

vars == <<offers, wallet, accepted, mem, disk, pc, todo, snap, balance, plan, unread, missed>>

node == <<offers, wallet, accepted>>
script == <<mem, disk, pc, todo, snap, balance, plan>>
hist == <<unread, missed>>

(***************************************************************************)
(* The node, as the API shows it                                           *)
(***************************************************************************)
InFlight(o) == o.neg + o.prog

\* What an offer sold or is selling, fills that are not counted yet included.
Sold(o) == o.filled + o.late + InFlight(o)

\* tracking_remaining and tracking_exhausted of an offer.
Remaining(o) == o.budget - o.filled - InFlight(o)

Exhausted(o) == (Mode = "one_time" /\ o.filled > 0) \/ Remaining(o) <= 0

Listed == {id \in DOMAIN offers : offers[id].status # "gone"}

NextId == Cardinality(DOMAIN offers) + 1

OffersOf(t) == {id \in DOMAIN offers : offers[id].tmpl = t}

Newest(ids) == Max(ids)

\* The template whose plan was made and is not carried out.
Planning(t) == plan.t = t /\ pc \in {"revoke", "create"}

\* A bid on an offer is accepted by the automation; it counts as in flight from
\* then on and is in negotiation until the other side commits.
AcceptBid ==
  /\ accepted < MaxBids /\ accepted' = accepted + 1
  /\ \E id \in Listed, x \in 1..Amount :
       LET o == offers[id] IN
       /\ o.neg = 0 /\ x <= Remaining(o) /\ x <= o.amount /\ ~Exhausted(o)
       /\ offers' = [offers EXCEPT ![id].neg = x]
       /\ unread' = IF Planning(o.tmpl) THEN unread + x ELSE unread
       /\ missed' = [missed EXCEPT ![o.tmpl] =
                        @ + IF id = Newest(OffersOf(o.tmpl)) THEN Min({x, o.late}) ELSE x]
  /\ UNCHANGED <<wallet, script>>

\* The swap of a bid starts: the coins leave the spendable balance.
Commit ==
  /\ \E id \in DOMAIN offers :
       /\ offers[id].neg > 0 /\ wallet >= offers[id].neg
       /\ offers' = [offers EXCEPT ![id].prog = @ + offers[id].neg, ![id].neg = 0]
       /\ wallet' = wallet - offers[id].neg
  /\ UNCHANGED <<accepted, script, hist>>

\* The bidder walks away, or the swap is refunded.
BidFails ==
  /\ \E id \in DOMAIN offers :
       \/ /\ offers[id].neg > 0
          /\ offers' = [offers EXCEPT ![id].neg = 0]
          /\ UNCHANGED wallet
       \/ /\ offers[id].prog > 0
          /\ offers' = [offers EXCEPT ![id].prog = 0]
          /\ wallet' = wallet + offers[id].prog
  /\ UNCHANGED <<accepted, script, hist>>

\* The swaps of an offer complete: their bids are not in flight any more.
SwapsComplete ==
  /\ \E id \in DOMAIN offers :
       /\ offers[id].prog > 0
       /\ offers' = [offers EXCEPT ![id].late = @ + offers[id].prog, ![id].prog = 0]
  /\ UNCHANGED <<wallet, accepted, script, hist>>

\* complete_offer_fill, on a thread of the pool, counts what completed.
Fill ==
  /\ \E id \in DOMAIN offers :
       /\ offers[id].late > 0
       /\ offers' = [offers EXCEPT ![id].filled = @ + offers[id].late, ![id].late = 0]
  /\ UNCHANGED <<wallet, accepted, script, hist>>

\* An offer expires, or is closed because it is exhausted.
OfferEnds ==
  /\ \E id \in Listed :
       /\ offers[id].status = "active"
       /\ offers' = [offers EXCEPT ![id].status = "gone"]
  /\ UNCHANGED <<wallet, accepted, script, hist>>

\* The node handles the message that revokeOffer sent to the network, itself too.
RevokeArrives ==
  /\ \E id \in Listed :
       /\ offers[id].status = "revoking"
       /\ offers' = [offers EXCEPT ![id].status = "gone"]
  /\ UNCHANGED <<wallet, accepted, script, hist>>

\* The offers a set of revokeoffer calls really revokes: those still active.
CanRevoke(ids) == {id \in ids : offers[id].status = "active"}

(***************************************************************************)
(* The script's state file                                                 *)
(***************************************************************************)
NoState == [posted |-> [t \in Templates |-> {}], known |-> {},
            named  |-> [t \in Templates |-> {}],
            sold   |-> [t \in Templates |-> [id \in Ids |-> 0]],
            exhausted |-> {}]

\* reconcile_state_keys: entries under a template's name move to its id, unless
\* the id has entries of its own, when they are dropped.
ReconcileStateKeys(st) ==
  [st EXCEPT !.posted = [t \in Templates |-> IF t \in st.known THEN @[t] ELSE st.named[t]],
             !.known = @ \cup {t \in Templates : st.named[t] # {}},
             !.named = [t \in Templates |-> {}]]

SumOver(f(_), S) == FoldSet(LAMBDA x, acc : acc + f(x), 0, S)

(***************************************************************************)
(* process_offers                                                          *)
(***************************************************************************)
NoPlan == [t |-> CHOOSE t \in Templates : TRUE, used |-> 0, amount |-> 0, left |-> None]

\* The next template is processed: nothing is kept of the last one's plan.
NextTemplate ==
  /\ pc' = "round"
  /\ plan' = NoPlan /\ unread' = 0

\* A round ends: what was read in it is forgotten.
RoundOver ==
  /\ pc' = "idle" /\ todo' = {}
  /\ snap' = [id \in {} |-> 0] /\ balance' = 0
  /\ plan' = NoPlan /\ unread' = 0

\* main loop: the caches are cleared, the state is reconciled and saved if that
\* changed it, and the active offers are read once for the whole round.
StartRound ==
  /\ pc = "idle"
  /\ pc' = "round"
  /\ LET st == ReconcileStateKeys(mem) IN
       /\ mem' = st
       /\ disk' = IF st # mem THEN st ELSE disk
  /\ todo' = Templates
  /\ snap' = [id \in Listed |-> offers[id]]
  /\ balance' = wallet
  /\ UNCHANGED <<plan, node, hist>>

\* The template's offers as the state remembers them are read one by one: what
\* they filled is recorded, what is in flight is added up.  A template that was
\* taken once, or is marked so already, is not processed further.
CheckTracking(t) ==
  /\ pc = "round" /\ t \in todo
  /\ todo' = todo \ {t}
  /\ LET ids  == mem.posted[t]
         sold == [id \in Ids |-> IF id \in ids THEN offers[id].filled ELSE mem.sold[t][id]]
         used == SumOver(LAMBDA id : InFlight(offers[id]), ids)
         over == Mode = "one_time" /\ \E id \in ids : Exhausted(offers[id])
         st   == [mem EXCEPT !.sold[t] = sold, !.exhausted = IF over THEN @ \cup {t} ELSE @]
     IN  IF t \in mem.exhausted
         THEN UNCHANGED <<mem, disk, pc, plan, unread>>
         ELSE /\ mem' = st
              /\ disk' = IF st # mem THEN st ELSE disk
              /\ IF over THEN NextTemplate
                 ELSE /\ pc' = "revoke"
                      /\ plan' = [t |-> t, used |-> used, amount |-> 0,
                                  left |-> IF Mode = "fixed_total"
                                           THEN Total - SumOver(LAMBDA id : sold[id], Ids) - used
                                           ELSE None]
                      /\ unread' = SumOver(LAMBDA id : IF id \in ids THEN offers[id].late
                                                       ELSE Sold(offers[id]) - sold[id],
                                           OffersOf(t))
  /\ UNCHANGED <<snap, balance, node, missed>>

\* The budget of a fixed_total offer changed: something of it is taken, or more
\* is left to sell than it offers.
BudgetChanged(o, left) ==
  Mode = "fixed_total" /\ (o.filled + InFlight(o) > 0 \/ left > Remaining(o))

\* Offers of the round's snapshot: more than the wallet holds, budget changed.
TooLarge(ids) == {id \in ids : snap[id].amount > balance}

Changed(ids, left) == {id \in ids \ TooLarge(ids) : BudgetChanged(snap[id], left)}

BelowMinimum(ids, left) ==
  {id \in ids \ (TooLarge(ids) \cup Changed(ids, left)) : balance <= MinBalance}


\* Active offers of the pair count for the template, whether it knows them or not.
Matching(ids) == ids

\* How much to post: the template's amount or what is left of its total, reduced
\* to whole steps when the wallet would drop below the minimum; 0 is not posted.
OfferAmount(left, used) ==
  LET spendable == balance - used
      ceiling   == IF Mode = "fixed_total" THEN Min({Amount, left}) ELSE Amount
  IN  IF spendable - Min({Step, ceiling}) <= MinBalance THEN 0
      ELSE IF spendable - ceiling <= MinBalance
           THEN Step * ((spendable - MinBalance) \div Step)
           ELSE ceiling

\* The template's active offers are checked and revoked where needed.  One too
\* large for the wallet is also forgotten; one whose budget changed is kept in
\* the state and only revoked while no bid on it is in negotiation.  Of several
\* offers of the pair all but the newest are revoked and forgotten, and the
\* newest, if unknown, is recorded under the template's name.  With no offer
\* left up the amount of a new one is worked out.
CheckOffers ==
  /\ pc = "revoke"
  /\ LET t     == plan.t
         all   == Matching(DOMAIN snap)
         ids   == all \cap mem.posted[t]
         large == CanRevoke(TooLarge(ids))
         chg   == {id \in CanRevoke(Changed(ids, plan.left)) : offers[id].neg = 0}
         dups  == IF Cardinality(all) > 1 THEN all \ {Newest(all)} ELSE {}
         gone  == large \cup chg \cup CanRevoke(BelowMinimum(ids, plan.left)) \cup CanRevoke(dups)
         adopt == Cardinality(all) > 1 /\ Newest(all) \notin mem.posted[t]
         st    == [mem EXCEPT !.posted[t] = @ \ (large \cup dups),
                              !.named[t] = IF adopt THEN @ \cup {Newest(all)} ELSE @]
         found == IF Cardinality(all) > 1 THEN all \ dups ELSE all \ (large \cup chg)
         amt   == OfferAmount(plan.left, plan.used)
     IN  /\ offers' = [id \in DOMAIN offers |->
                         IF id \in gone THEN [offers[id] EXCEPT !.status = "revoking"]
                         ELSE offers[id]]
         /\ mem' = st
         /\ disk' = IF large # {} \/ adopt THEN st ELSE disk
         /\ IF found # {} \/ amt <= 0 THEN NextTemplate
            ELSE /\ pc' = "create"
                 /\ plan' = [plan EXCEPT !.amount = amt]
                 /\ UNCHANGED unread
  /\ UNCHANGED <<wallet, accepted, todo, snap, balance, missed>>

\* offers/new: the node stores the offer with its budget.
CreateOffer ==
  /\ pc = "create"
  /\ NextId \in Ids
  /\ pc' = "record"
  /\ offers' = [id \in DOMAIN offers \cup {NextId} |->
                  IF id = NextId
                  THEN [amount |-> plan.amount, status |-> "active", filled |-> 0, neg |-> 0,
                        prog |-> 0, late |-> 0, tmpl |-> plan.t,
                        budget |-> IF Mode = "fixed_total" THEN plan.left ELSE plan.amount]
                  ELSE offers[id]]
  /\ missed' = [missed EXCEPT ![plan.t] = unread]
  /\ UNCHANGED <<wallet, accepted, mem, disk, todo, snap, balance, plan, unread>>

\* The call fails, or the time for the next offer has not come: nothing changes.
CreateFails ==
  /\ pc = "create"
  /\ NextTemplate
  /\ UNCHANGED <<mem, disk, todo, snap, balance, node, missed>>

\* The new offer's id is appended to the state and saved.  The delay before the
\* next offer ends the round for the templates that would post.
RecordOffer ==
  /\ pc = "record"
  /\ RoundOver
  /\ mem' = [mem EXCEPT !.posted[plan.t] = @ \cup {NextId - 1}, !.known = @ \cup {plan.t}]
  /\ disk' = mem'
  /\ UNCHANGED <<node, missed>>

EndRound ==
  /\ pc = "round" /\ todo = {}
  /\ RoundOver
  /\ UNCHANGED <<mem, disk, node, missed>>

\* prune_script_state: entries older than the limit are removed from the list of
\* offers; what they sold stays.
PruneScriptState ==
  /\ Prunes /\ pc = "idle"
  /\ \E t \in Templates : \E id \in mem.posted[t] :
       /\ mem' = [mem EXCEPT !.posted[t] = @ \ {i \in @ : i <= id}]
       /\ disk' = mem'
  /\ UNCHANGED <<pc, todo, snap, balance, plan, node, hist>>

\* The script is killed and starts from its state file.
Restart ==
  /\ Crashes
  /\ RoundOver /\ mem' = disk
  /\ UNCHANGED <<disk, node, missed>>

Init ==
  /\ offers = [id \in {} |-> 0]
  /\ wallet = Balance /\ accepted = 0
  /\ mem = NoState /\ disk = NoState
  /\ pc = "idle" /\ todo = {}
  /\ snap = [id \in {} |-> 0]
  /\ balance = 0
  /\ plan = NoPlan
  /\ unread = 0 /\ missed = [t \in Templates |-> 0]

Next ==
  \/ AcceptBid \/ Commit \/ BidFails \/ SwapsComplete \/ Fill \/ OfferEnds \/ RevokeArrives
  \/ StartRound \/ CheckOffers \/ CreateOffer \/ CreateFails \/ RecordOffer \/ EndRound
  \/ PruneScriptState \/ Restart
  \/ \E t \in Templates : CheckTracking(t)

Spec == Init /\ [][Next]_vars

(***************************************************************************)
(* Properties                                                              *)
(***************************************************************************)
\* The types; the state file names only offers that exist.
TypeOK ==
  /\ DOMAIN offers \subseteq Ids /\ wallet \in 0..Balance /\ accepted \in 0..MaxBids
  /\ pc \in {"idle", "round", "revoke", "create", "record"}
  /\ todo \subseteq Templates /\ DOMAIN snap \subseteq DOMAIN offers
  /\ \A t \in Templates : disk.posted[t] \cup disk.named[t] \subseteq DOMAIN offers

\* What a template's offers sold and are selling exceeds its total_to_sell by no
\* more than what the script could not count when it posted the newest one (fills
\* the node had not counted, offers the state had lost or pruned) and what the node
\* accepted after the plan was made, on older offers whose revocation was on its way
\* or on a fill not counted yet; however offers were revoked, reposted, filled or
\* given up, and whenever the script was killed.
BudgetKept ==
  \A t \in Templates :
    SumOver(LAMBDA id : Sold(offers[id]), OffersOf(t)) <= Total + missed[t]

\* The pair never has two offers that are up for good: the script posts only
\* when it found none, a restart between posting an offer and saving it included.
OneOffer == Cardinality({id \in DOMAIN offers : offers[id].status = "active"}) <= 1

\* A template with coins left to sell and the coins in the wallet is on offer: an
\* offer is up, or everything is sold, in flight, or above the wallet.
OnOffer ==
  \A t \in Templates :
    \/ \E id \in OffersOf(t) : offers[id].status = "active"
    \/ SumOver(LAMBDA id : offers[id].filled, OffersOf(t)) >= Total
    \/ wallet <= MinBalance + Step
    \/ NextId \notin Ids
=============================================================================
