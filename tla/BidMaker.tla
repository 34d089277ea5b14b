------------------------------ MODULE BidMaker ------------------------------
(***************************************************************************)
(* The automated market maker's bids: process_bids, reconcile_state_keys   *)
(* and prune_script_state of scripts/createoffers.py.                      *)
(*                                                                         *)
(* For each bid template the script looks up the bids it remembers, and if *)
(* fewer than max_concurrent are in progress it bids on the first offer of *)
(* the book that passes its checks.  The node, a process of its own, is    *)
(* what the API shows of it: the offers, the sent bids with their states   *)
(* and the wallet, which the script reads once per round.  All templates   *)
(* bid on the same pair at rate 1.                                         *)
(***************************************************************************)
EXTENDS Integers, FiniteSets, FiniteSetsExt

CONSTANTS
  Templates,   \* the bid templates
  Offers,      \* the offers on the book
  Size,        \* offer -> its amount_from
  Fixed,       \* the offers whose amount is not negotiable
  Known,       \* the offers of identities with a successful swap
  KnownOnly,   \* TRUE: offers_to_bid_on is "known_only", else "all"
  Debug,       \* TRUE: the script runs with --debug
  Amount, MinSwap, MaxConcurrent,
  MinTo,       \* min_coin_to_balance
  MaxFrom,     \* max_coin_from_balance
  BalanceTo, BalanceFrom,
  MaxBids,     \* bound on the bids sent
  Crashes, Prunes,
  Ends         \* how a bid can end: "listed" in the script's states or "other"

\* What is assumed of the constants.
ConstantsOK ==
    /\ IsFiniteSet(Templates) /\ IsFiniteSet(Offers)
    /\ Size \in [Offers -> Nat \ {0}] /\ Fixed \subseteq Offers /\ Known \subseteq Offers
    /\ {Amount, MinSwap, MaxConcurrent, MaxBids, MaxFrom} \subseteq Nat \ {0}
    /\ {MinTo, BalanceTo, BalanceFrom} \subseteq Nat
    /\ {KnownOnly, Debug, Crashes, Prunes} \subseteq BOOLEAN
    /\ Ends \subseteq {"listed", "other"}

Ids == 1..MaxBids

VARIABLES
  bids,     \* the node: bid id -> offer, template, amount and state
  to, from, \* the node: the balances of the coin paid and the coin bought
  mem,      \* script_state["bids"]: template -> the entries it keeps
  disk,     \* the state file
  pc, todo, \* where the script is in its round
  cache,    \* the balances as read in this round, NotRead before
  plan,     \* the bid about to be sent
  unpaid,   \* history: bids sent and not paid when the balances were read
  overtaken, \* history: unpaid bids that another bid was sent on top of
  forgotten \* history: bids that the state file lost or that were pruned from it

vars == <<bids, to, from, mem, disk, pc, todo, cache, plan, unpaid, overtaken, forgotten>>
node == <<bids, to, from>>
script == <<mem, disk, pc, todo, cache, plan>>
hist == <<unpaid, overtaken, forgotten>>

NotRead == [to |-> -1, from |-> -1]

Open(b) == b.state \in {"sent", "expired", "funded"}

(***************************************************************************)
(* The node                                                                *)
(***************************************************************************)
\* A sent bid is accepted and this side locks its coins.
Fund ==
  /\ \E i \in DOMAIN bids :
       /\ bids[i].state = "sent" /\ to >= bids[i].amount
       /\ bids' = [bids EXCEPT ![i].state = "funded"]
       /\ to' = to - bids[i].amount
  /\ UNCHANGED <<from, script, hist>>

\* The time of a sent bid runs out; the node marks it Expired a while later,
\* and that is one of the states the script does not list.
Expire ==
  /\ \E i \in DOMAIN bids :
       \/ /\ bids[i].state = "sent"
          /\ bids' = [bids EXCEPT ![i].state = "expired"]
       \/ /\ bids[i].state = "expired" /\ "other" \in Ends
          /\ bids' = [bids EXCEPT ![i].state = "other"]
  /\ UNCHANGED <<to, from, script, hist>>

\* A swap completes, or the coins come back: in a state the script lists, as
\* Completed, or in one that it does not, as "Failed, refunded".
SwapEnds ==
  /\ \E i \in DOMAIN bids, e \in Ends :
       /\ bids[i].state = "funded"
       /\ bids' = [bids EXCEPT ![i].state = e]
       /\ \/ e = "listed" /\ from' = from + bids[i].amount /\ UNCHANGED to
          \/ to' = to + bids[i].amount /\ UNCHANGED from
  /\ UNCHANGED <<script, hist>>

(***************************************************************************)
(* process_bids                                                            *)
(***************************************************************************)
NoPlan == [t |-> CHOOSE t \in Templates : TRUE, o |-> CHOOSE o \in Offers : TRUE, amount |-> 0]

\* A round of the main loop.
StartRound ==
  /\ pc = "idle"
  /\ pc' = "round" /\ todo' = Templates
  /\ UNCHANGED <<mem, disk, cache, plan, node, hist>>

\* A round ends: the caches are cleared.
RoundOver ==
  /\ pc' = "idle" /\ todo' = {}
  /\ cache' = NotRead /\ plan' = NoPlan /\ unpaid' = {}

\* A remembered bid is over: its state is in the script's list, or it is still
\* only sent and has expired.
Over(b) == b.state \in {"listed", "expired"}

\* Fewer than max_concurrent of the remembered bids are in progress.
Room(entries) == Cardinality({e \in entries : e.active}) < MaxConcurrent

\* The template's active entries are looked up; ended ones are marked inactive
\* and the state is saved.
CheckBids(t) ==
  /\ pc = "round" /\ t \in todo
  /\ todo' = todo \ {t}
  /\ LET now == {[e EXCEPT !.active = @ /\ ~Over(bids[e.id])] : e \in mem[t]} IN
       /\ mem' = [mem EXCEPT ![t] = now]
       /\ disk' = IF now # mem[t] THEN mem' ELSE disk
       /\ pc' = IF Room(now) THEN "offers" ELSE "round"
  /\ plan' = [NoPlan EXCEPT !.t = t]
  /\ UNCHANGED <<cache, node, hist>>

\* get_wallet_info: the balances are read when first needed in a round.
Balances == IF cache = NotRead THEN [to |-> to, from |-> from] ELSE cache

\* What the two balance limits leave of an amount: it is reduced if both sides
\* can adjust it and more than the smallest swap remains, else 0.
WithinBalances(amount, adjust) ==
  LET room  == MaxFrom - Balances.from
      low   == IF amount <= room THEN amount ELSE IF adjust /\ room > MinSwap THEN room ELSE 0
      spare == Balances.to - MinTo
  IN  IF low <= spare THEN low ELSE IF adjust /\ spare > MinSwap THEN spare ELSE 0

\* The amount to bid on an offer, 0 when the offer is passed over: the
\* template's, cut to the offer, then to what the balances allow.
BidAmount(o) ==
  IF Size[o] < MinSwap \/ (o \in Fixed /\ Size[o] > Amount) THEN 0
  ELSE WithinBalances(Min({Amount, Size[o]}), o \notin Fixed)

\* sentbids: a bid on the offer is still available or active.
AlreadyBidding(o) == \E i \in DOMAIN bids : bids[i].offer = o /\ Open(bids[i])

\* The known_only filter leaves the offer out only when debugging: its continue
\* belongs to the debug message.
FilteredOut(o) == KnownOnly /\ o \notin Known /\ Debug

\* An offer that passes every check is bid on, the first one in the book's order.
ChooseOffer ==
  /\ pc = "offers"
  /\ \/ /\ \E o \in Offers :
             /\ BidAmount(o) > 0 /\ ~FilteredOut(o)
             /\ ~AlreadyBidding(o)
             /\ plan' = [plan EXCEPT !.o = o, !.amount = BidAmount(o)]
        /\ pc' = "post"
     \/ /\ \A o \in Offers : BidAmount(o) = 0 \/ FilteredOut(o) \/ AlreadyBidding(o)
        /\ pc' = "round" /\ UNCHANGED plan
  /\ cache' = Balances
  /\ unpaid' = IF cache = NotRead THEN {i \in DOMAIN bids : bids[i].state = "sent"} ELSE unpaid
  /\ UNCHANGED <<mem, disk, todo, node, overtaken, forgotten>>

\* bids/new: the node sends the bid.
PostBid ==
  /\ pc = "post"
  /\ LET i == Cardinality(DOMAIN bids) + 1 IN
       /\ i \in Ids
       /\ bids' = [j \in DOMAIN bids \cup {i} |->
                     IF j = i THEN [offer |-> plan.o, t |-> plan.t, amount |-> plan.amount, state |-> "sent"]
                     ELSE bids[j]]
  /\ pc' = "record"
  /\ overtaken' = overtaken \cup unpaid
  /\ UNCHANGED <<to, from, mem, disk, todo, cache, plan, unpaid, forgotten>>

\* The call fails: the script goes on with the next offer or template.
PostFails ==
  /\ pc = "post"
  /\ pc' = "round"
  /\ UNCHANGED <<mem, disk, todo, cache, plan, node, hist>>

\* The bid is recorded and saved; the delay before the next one ends the round.
RecordBid ==
  /\ pc = "record"
  /\ mem' = [mem EXCEPT ![plan.t] = @ \cup {[id |-> Cardinality(DOMAIN bids), active |-> TRUE]}]
  /\ disk' = mem'
  /\ RoundOver
  /\ UNCHANGED <<node, overtaken, forgotten>>

EndRound ==
  /\ pc = "round" /\ todo = {}
  /\ RoundOver
  /\ UNCHANGED <<mem, disk, node, overtaken, forgotten>>

\* prune_script_state: old entries go, whether their bid is in progress or not.
PruneScriptState ==
  /\ Prunes /\ pc = "idle"
  /\ \E t \in Templates : \E e \in mem[t] :
       /\ mem' = [mem EXCEPT ![t] = {x \in @ : x.id > e.id}]
       /\ forgotten' = forgotten \cup {x.id : x \in mem[t] \ mem'[t]}
  /\ disk' = mem'
  /\ UNCHANGED <<pc, todo, cache, plan, node, unpaid, overtaken>>

\* The script is killed and starts from its state file.
Restart ==
  /\ Crashes
  /\ RoundOver /\ mem' = disk
  /\ forgotten' = DOMAIN bids \ {e.id : e \in UNION {disk[t] : t \in Templates}}
  /\ UNCHANGED <<disk, node, overtaken>>

Init ==
  /\ bids = [i \in {} |-> 0]
  /\ to = BalanceTo /\ from = BalanceFrom
  /\ mem = [t \in Templates |-> {}] /\ disk = mem
  /\ pc = "idle" /\ todo = {}
  /\ cache = NotRead
  /\ plan = NoPlan
  /\ unpaid = {} /\ overtaken = {} /\ forgotten = {}

Next ==
  \/ Fund \/ Expire \/ SwapEnds
  \/ StartRound \/ ChooseOffer \/ PostBid \/ PostFails \/ RecordBid \/ EndRound
  \/ PruneScriptState \/ Restart
  \/ \E t \in Templates : CheckBids(t)

Spec == Init /\ [][Next]_vars

(***************************************************************************)
(* Properties                                                              *)
(***************************************************************************)
\* The types; an entry of the state file is of a bid the template sent, once.
TypeOK ==
  /\ DOMAIN bids \subseteq Ids /\ to \in Int /\ from \in Nat
  /\ pc \in {"idle", "round", "offers", "post", "record"} /\ todo \subseteq Templates
  /\ \A t \in Templates : \A e \in disk[t] :
       /\ e.id \in DOMAIN bids /\ bids[e.id].t = t
       /\ \A x \in disk[t] : x.id = e.id => x = e

OpenBids(t) == {i \in DOMAIN bids : bids[i].t = t /\ bids[i].state \in {"sent", "funded"}}

\* No offer has two bids of this node in progress, a script that was killed
\* after sending a bid and before saving it included.
OneBidPerOffer ==
  \A i, j \in DOMAIN bids :
    (i # j /\ bids[i].state \in {"sent", "funded"} /\ bids[j].state \in {"sent", "funded"})
      => bids[i].offer # bids[j].offer

\* A template never has more than max_concurrent bids in progress among those its
\* state kept: a bid that was not saved before the script was killed, or pruned
\* while in progress, is not counted by the script.
Concurrent ==
  \A t \in Templates : Cardinality(OpenBids(t) \ forgotten) <= MaxConcurrent

\* Paying for the bids takes the coin paid below min_coin_to_balance by no more than
\* the bids that had been sent, but not paid, when the balances for another bid were
\* read.
ReserveKept == to >= MinTo - MapThenSumSet(LAMBDA i : bids[i].amount, overtaken)

\* No bid that has ended counts against max_concurrent.
EndedReleased ==
  \A t \in Templates : \A e \in mem[t] :
    e.active => bids[e.id].state \in {"sent", "expired", "funded"}
=============================================================================
