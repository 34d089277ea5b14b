---------------------------- MODULE OfferTerms ----------------------------
(***************************************************************************)
(* The terms of one offer, from postOffer on the maker's node through      *)
(* processOffer on every node to the amounts of a bid: setBidAmounts on    *)
(* the taker's node, validateBidAmount on both.                            *)
(*                                                                         *)
(* Messages are broadcast on one or more networks: they stay in net, and a *)
(* node may process each of them late, in any order and more than once.    *)
(* The maker gets its own offer back.  COIN, the number of units in a      *)
(* coin, is scaled down together with the amounts; rates are, as in the    *)
(* code, units of coin_to per coin of coin_from.                           *)
(***************************************************************************)
EXTENDS Integers, FiniteSets, FiniteSetsExt

CONSTANTS
  COIN,           \* units in a coin of coin_from
  Pairs,          \* [swap, reverse, csv_from, csv_to]: swap type and coins
  AmountsFrom, AmountsTo, MinBids, \* of offers
  Wants,          \* amounts of coin_from a taker asks for
  Rates,          \* bid rates a taker may set
  Totals, TxFee,  \* what a taker spends in a bid with the fee subtracted, and the fee
  Locks,          \* [type, value]: lock types and values a maker may choose
  Regtest,        \* the chain is a regtest chain
  MinAmount, MaxAmount,   \* min_amount(), max_amount() of the coins
  MinLock, MaxLock,       \* min_sequence_lock_seconds, max_sequence_lock_seconds
  Fees,           \* fee rates a maker may choose
  Envs,           \* what a node knows of fees, see validateFeeRate
  AdjustTries,    \* adjust_tries
  MaxBids         \* bound: bids in a behaviour

Nodes == {"maker", "taker"}

NoOffer == [state |-> "none", active |-> 0]

VARIABLES
  db,         \* db[n]: the row of the offer at node n
  net,        \* messages: the offer, its revocation
  pending,    \* pending[n]: n knows a revocation of an offer it does not have
  expired,    \* nodes at which the offer is past its expire_at
  env,        \* fee information of each node
  bids,       \* bids sent: [amount, amount_to, env, status]
  attempt     \* the last bid the taker tried to make

vars == <<db, net, pending, expired, env, bids, attempt>>

----------------------------------------------------------------------------
(* Rates and amounts *)

\* make_int(amount_to / amount, r=1): rounded half up.
make_int(amount_to, amount) == (2 * amount_to * COIN + amount) \div (2 * amount)

\* Mutant: a tenth of the rate is tolerated.
WideTolerance(offer_rate) == Max({1, offer_rate \div 10})

calculateRateTolerance(offer_rate) == Max({1, offer_rate \div 10000})

Diff(a, b) == IF a >= b THEN a - b ELSE b - a

ratesMatch(rate1, offer_rate) == Diff(rate1, offer_rate) <= calculateRateTolerance(offer_rate)

validateOfferAmounts(t) ==
  /\ t.amount_from >= t.min_bid_amount
  /\ t.amount_from > MinAmount /\ t.amount_from < MaxAmount
  /\ t.amount_to > MinAmount /\ t.amount_to < MaxAmount

validateBidAmount(o, amount, rate) ==
  /\ rate > 0
  /\ amount >= o.min_bid_amount /\ amount <= o.amount_from
  /\ ~o.amount_negotiable => amount = o.amount_from
  /\ ~o.rate_negotiable => ratesMatch(rate, o.rate)

\* One try of setBidAmounts: the amounts at a lower amount of coin_from.
Try(o, amount) ==
  LET to == (amount * o.rate) \div COIN
  IN  [amount |-> amount, amount_to |-> to, diff |-> Diff(make_int(to, amount), o.rate),
       match |-> ratesMatch(make_int(to, amount), o.rate)]

\* The same amount for one unit of coin_to less.
LessTo(o, t) ==
  LET rate == make_int(t.amount_to - 1, t.amount)
  IN  [t EXCEPT !.amount_to = @ - 1, !.diff = Diff(rate, o.rate),
                !.match = ratesMatch(rate, o.rate)]

\* The search for amounts closer to the rate of the offer.  It goes on while
\* the tries match, keeps the best, and stops at the first that does not; when
\* nothing better was found, the one it stopped at is taken.
Adjusted(o, first) ==
  LET search[i \in 0..AdjustTries] ==
        \* best of tries 0..i-1, and whether the search has stopped
        IF i = 0 THEN [best |-> first, done |-> FALSE]
        ELSE LET s == search[i - 1]
                 t == Try(o, first.amount - (i - 1))
                 l == LessTo(o, t)
             IN  IF s.done \/ t.amount < 1 THEN s
                 ELSE IF t.match
                 THEN IF t.diff < s.best.diff
                      THEN [best |-> t, done |-> t.diff = 0]
                      ELSE s
                 ELSE IF l.diff < s.best.diff /\ l.match
                 THEN [best |-> l, done |-> TRUE]
                 ELSE IF /\ first.amount = l.amount /\ first.amount_to = l.amount_to
                 THEN [s EXCEPT !.done = TRUE]
                 ELSE IF s.best.diff = first.diff
                 THEN [best |-> l, done |-> TRUE]
                 ELSE [s EXCEPT !.done = TRUE]
  IN  search[AdjustTries].best

\* The amounts before the search; how is what the caller sets: "amount_to",
\* "bid_rate" or nothing.
FirstAmounts(o, amount, how, v) ==
  LET to == CASE how = "amount_to" -> v
              [] how = "bid_rate" -> (amount * v) \div COIN
              [] OTHER -> IF amount = o.amount_from THEN o.amount_to
                          ELSE (amount * o.rate) \div COIN
  IN  [amount |-> amount, amount_to |-> to, diff |-> Diff(make_int(to, amount), o.rate),
       match |-> ratesMatch(make_int(to, amount), o.rate)]

\* Mutant: the search also tries larger amounts.
SetBidAmountsUp(o, amount, how, v) ==
  LET first == FirstAmounts(o, amount, how, v)
  IN  IF o.amount_negotiable /\ ~o.rate_negotiable THEN Adjusted(o, [first EXCEPT !.amount = @ + 1])
      ELSE first

setBidAmounts(o, amount, how, v) ==
  LET first == FirstAmounts(o, amount, how, v)
  IN  IF o.amount_negotiable /\ ~o.rate_negotiable THEN Adjusted(o, first) ELSE first

----------------------------------------------------------------------------
(* Lock times and fee rates *)

Granularity == 512

\* Mutant: the division rounds down.
SequenceRoundedDown(lock) ==
  IF lock.type = "SEQUENCE_LOCK_TIME"
  THEN [time |-> TRUE, v |-> lock.value \div Granularity]
  ELSE [time |-> FALSE, v |-> lock.value]

\* A relative lock in units of 512 seconds, or in blocks.
getExpectedSequence(lock) ==
  IF lock.type = "SEQUENCE_LOCK_TIME"
  THEN [time |-> TRUE, v |-> (lock.value + (IF lock.value % Granularity # 0 THEN Granularity ELSE 0))
                               \div Granularity]
  ELSE [time |-> FALSE, v |-> lock.value]

decodeSequence(seq) == IF seq.time THEN seq.v * Granularity ELSE seq.v

ItxHasCsv(p) == IF p.reverse THEN p.csv_to ELSE p.csv_from

CsvOk(p) == IF p.swap = "XMR_SWAP" THEN ItxHasCsv(p) ELSE p.csv_from /\ p.csv_to

validateOfferLockValue(p, lock) ==
  CASE lock.type = "SEQUENCE_LOCK_TIME" ->
         lock.value >= MinLock /\ lock.value <= MaxLock /\ CsvOk(p)
    [] lock.type = "SEQUENCE_LOCK_BLOCKS" ->
         Regtest /\ lock.value >= 5 /\ lock.value <= 1000 /\ CsvOk(p)
    [] lock.type = "ABS_LOCK_TIME" ->
         /\ ~p.csv_from \/ ~p.csv_to
         /\ lock.value >= 4 * 3600 /\ lock.value <= 96 * 3600
    [] OTHER -> FALSE

\* What a node knows of fees: low_feerate (0: unset), its estimate with the
\* source, the hard minimum (-1: unknown), high_feerate, and the multipliers
\* in percent.
Estimated(e) == e.src = "estimatesmartfee"

\* Mutant: the hard minimum does not bound a lowered estimate.
MinFeeRateSoft(e) ==
  IF e.low > 0 THEN e.low ELSE (e.est * e.low_pct) \div 100

MinFeeRate(e) ==
  LET m == IF e.low > 0 THEN e.low ELSE e.est
  IN  IF e.hard = -1 THEN m
      ELSE IF e.low = 0 /\ Estimated(e) THEN Max({e.hard, (m * e.low_pct) \div 100})
      ELSE Max({m, e.hard})

MaxFeeRate(e) ==
  IF e.high_pct < 100 THEN e.high
  ELSE LET m == (e.est * e.high_pct) \div 100
       IN  IF Estimated(e) THEN Min({m, e.high}) ELSE m

\* An offer, not a bid, may pay more when the maximum comes from the relay fee.
validateFeeRate(e, rate, concept) ==
  /\ rate >= MinFeeRate(e)
  /\ \/ rate <= MaxFeeRate(e)
     \/ concept = "OFFER" /\ e.high_pct >= 100 /\ e.src = "relayfee"

OfferTermsValid(t, e) ==
  /\ validateOfferLockValue(t.pair, t.lock)
  /\ validateOfferAmounts(t)
  /\ t.pair.swap = "XMR_SWAP" =>
       /\ validateFeeRate(e, t.fee, "OFFER")
       /\ t.lock.type # "ABS_LOCK_TIME"

----------------------------------------------------------------------------
Init ==
  /\ db = [n \in Nodes |-> NoOffer]
  /\ net = {}
  /\ pending = [n \in Nodes |-> FALSE]
  /\ expired = {}
  /\ env \in [Nodes -> Envs]
  /\ bids = {}
  /\ attempt = [want |-> 0]

\* Mutant: the maker keeps the rate the user typed, the rounded down one.
RowRateTyped(t, state, was_sent) ==
  [state |-> state, was_sent |-> was_sent, active |-> 1, pair |-> t.pair,
   amount_from |-> t.amount_from, amount_to |-> t.amount_to,
   min_bid_amount |-> t.min_bid_amount,
   rate |-> IF was_sent THEN (t.amount_to * COIN) \div t.amount_from
            ELSE make_int(t.amount_to, t.amount_from),
   amount_negotiable |-> t.amount_negotiable, rate_negotiable |-> t.rate_negotiable,
   lock_time |-> IF t.pair.swap = "XMR_SWAP" THEN getExpectedSequence(t.lock) ELSE t.lock,
   lock |-> t.lock, fee |-> t.fee]

\* The row both nodes keep.  The rate is recomputed from the amounts.
Row(t, state, was_sent) ==
  [state |-> state, was_sent |-> was_sent, active |-> 1, pair |-> t.pair,
   amount_from |-> t.amount_from, amount_to |-> t.amount_to,
   min_bid_amount |-> t.min_bid_amount, rate |-> make_int(t.amount_to, t.amount_from),
   amount_negotiable |-> t.amount_negotiable, rate_negotiable |-> t.rate_negotiable,
   lock_time |-> IF t.pair.swap = "XMR_SWAP" THEN getExpectedSequence(t.lock) ELSE t.lock,
   lock |-> t.lock, fee |-> t.fee]

\* The message that carries the terms.
OfferMessage(t) == [kind |-> "offer", terms |-> t]

\* postOffer.  The message is out before the rows are committed: saved is
\* FALSE when the process dies in between.
postOffer(t, saved) ==
  /\ net = {}
  /\ OfferTermsValid(t, env["maker"])
  /\ net' = {OfferMessage(t)}
  /\ db' = IF saved THEN [db EXCEPT !["maker"] = Row(t, "OFFER_SENT", TRUE)] ELSE db
  /\ UNCHANGED <<pending, expired, env, bids, attempt>>

\* Mutant: revocations that came first are forgotten.
ProcessOfferForgets(n) ==
  \E m \in net :
    /\ m.kind = "offer"
    /\ n \notin expired
    /\ OfferTermsValid(m.terms, env[n])
    /\ db[n].state = "none" \/ (db[n].active = 1 /\ db[n].state = "OFFER_SENT")
    /\ db' = [db EXCEPT ![n] = IF @.state = "none" THEN Row(m.terms, "OFFER_RECEIVED", FALSE)
                               ELSE [@ EXCEPT !.state = "OFFER_RECEIVED"]]
    /\ UNCHANGED <<net, pending, expired, env, bids, attempt>>

\* processOffer at a node that has no row for it: every check raises or
\* returns; at the maker, it confirms the row.
processOffer(n) ==
  \E m \in net :
    /\ m.kind = "offer"
    /\ n \notin expired
    /\ OfferTermsValid(m.terms, env[n])
    /\ ~pending[n]
    /\ db[n].state = "none" \/ (db[n].active = 1 /\ db[n].state = "OFFER_SENT")
    /\ db' = [db EXCEPT ![n] = IF @.state = "none" THEN Row(m.terms, "OFFER_RECEIVED", FALSE)
                               ELSE [@ EXCEPT !.state = "OFFER_RECEIVED"]]
    /\ UNCHANGED <<net, pending, expired, env, bids, attempt>>

\* The maker's row changes when its own message comes back.
revokeOffer ==
  /\ db["maker"].state # "none" /\ db["maker"].was_sent
  /\ db["maker"].active = 1
  /\ "maker" \notin expired
  /\ net' = net \union {[kind |-> "revoke"]}
  /\ UNCHANGED <<db, pending, expired, env, bids, attempt>>

processOfferRevoke(n) ==
  /\ [kind |-> "revoke"] \in net
  /\ IF db[n].state = "none"
     THEN /\ ~pending[n]
          /\ pending' = [pending EXCEPT ![n] = TRUE]
          /\ UNCHANGED db
     ELSE /\ n \notin expired /\ db[n].active = 1
          /\ db' = [db EXCEPT ![n].active = 2]
          /\ UNCHANGED pending
  /\ UNCHANGED <<net, expired, env, bids, attempt>>

\* Time passes.  The taker counts from when the message was sent, which is
\* not before the maker's created_at.
Expire(n) ==
  /\ net # {}
  /\ n \notin expired
  /\ n = "taker" => "maker" \in expired
  /\ expired' = expired \union {n}
  /\ UNCHANGED <<db, net, pending, env, bids, attempt>>

FeeChange(n) ==
  /\ \E e \in Envs : e # env[n] /\ env' = [env EXCEPT ![n] = e]
  /\ UNCHANGED <<db, net, pending, expired, bids, attempt>>

\* What postBid and postXmrBid check before anything is sent.
Biddable(o) ==
  /\ o.state # "none" /\ o.active = 1
  /\ "taker" \notin expired
  /\ o.pair.swap = "XMR_SWAP" => validateFeeRate(env["taker"], o.fee, "BID")

\* Sends the bid when its amounts are valid; the user gets an error otherwise.
SendBid(o, want, first, a) ==
  LET ok == validateBidAmount(o, a.amount, make_int(a.amount_to, a.amount))
  IN  /\ attempt' = [want |-> want, max_to |-> first.amount_to, amount |-> a.amount,
                     amount_to |-> a.amount_to, sent |-> ok]
      /\ bids' = IF ok THEN bids \union
                        {[amount |-> a.amount, amount_to |-> a.amount_to,
                          env |-> env["taker"], status |-> "sent", why |-> "none"]}
                 ELSE bids
      /\ UNCHANGED <<db, net, pending, expired, env>>

\* postBid, postXmrBid.
PostBid(want, how, v) ==
  LET o == db["taker"]
  IN  /\ Cardinality(bids) < MaxBids
      /\ Biddable(o)
      /\ SendBid(o, want, FirstAmounts(o, want, how, v), setBidAmounts(o, want, how, v))

\* createSubfeeBidTx and the bid that uses its transaction: the transaction
\* costs total, its output is lowered to the adjusted amount.
PostSubfeeBid(total) ==
  LET o      == db["taker"]
      out    == total - TxFee
      amount == (out * COIN) \div o.rate
      a      == setBidAmounts(o, amount, "bid_rate", o.rate)
      bid    == [a EXCEPT !.amount_to = Min({out, @})]
  IN  /\ Cardinality(bids) < MaxBids
      /\ Biddable(o)
      /\ o.pair.swap = "XMR_SWAP" /\ o.amount_negotiable
      /\ o.rate > 0 /\ amount > 0
      /\ SendBid(o, amount, [amount |-> amount, amount_to |-> out], bid)

\* Mutant: the rate is floored.
BidRateFloored(amount, amount_to) == (amount_to * COIN) \div amount

\* The maker computes the rate from the amounts in the message.
BidRateReceived(amount, amount_to) == make_int(amount_to, amount)

\* Why the maker drops a bid, in the order of the checks.
RejectedFor(o, b) ==
  CASE o.state = "none" -> "unknown"
    [] o.state # "none" /\ ~o.was_sent -> "unknown"
    [] o.state = "OFFER_SENT" /\ o.pair.swap = "SELLER_FIRST" -> "state"
    [] "maker" \in expired -> "expired"
    [] o.active # 1 -> "revoked"
    [] ~validateBidAmount(o, b.amount, BidRateReceived(b.amount, b.amount_to)) -> "amounts"
    [] OTHER -> "none"

\* processBid, processXmrBid, processADSBidReversed.
processBid(b) ==
  /\ b \in bids /\ b.status = "sent"
  /\ LET why == RejectedFor(db["maker"], b)
     IN  bids' = (bids \ {b}) \union
                 {[b EXCEPT !.status = IF why = "none" THEN "taken" ELSE "dropped", !.why = why]}
  /\ UNCHANGED <<db, net, pending, expired, env, attempt>>

Terms ==
  [pair : Pairs, amount_from : AmountsFrom, amount_to : AmountsTo, min_bid_amount : MinBids,
   amount_negotiable : BOOLEAN, rate_negotiable : BOOLEAN, lock : Locks, fee : Fees]

Next ==
  \/ \E t \in Terms, saved \in BOOLEAN : postOffer(t, saved)
  \/ \E n \in Nodes : processOffer(n) \/ processOfferRevoke(n) \/ Expire(n) \/ FeeChange(n)
  \/ revokeOffer
  \/ \E want \in Wants : PostBid(want, "none", 0)
  \/ \E want \in Wants, v \in Rates : PostBid(want, "bid_rate", v)
  \/ \E want \in Wants, v \in AmountsTo : PostBid(want, "amount_to", v)
  \/ \E total \in Totals : PostSubfeeBid(total)
  \/ \E b \in bids : processBid(b)

Spec == Init /\ [][Next]_vars

----------------------------------------------------------------------------
\* Both nodes hold the same terms: the rate each recomputes, the relative lock
\* each derives, the fee the transactions will pay.
SameTerms ==
  (db["maker"].state # "none" /\ db["taker"].state # "none") =>
    [db["maker"] EXCEPT !.state = "", !.was_sent = TRUE, !.active = 1]
      = [db["taker"] EXCEPT !.state = "", !.was_sent = TRUE, !.active = 1]

\* The lock of the transactions is never shorter than the one agreed on.
LockNotShort ==
  \A n \in Nodes :
    (db[n].state # "none" /\ db[n].pair.swap = "XMR_SWAP")
      => decodeSequence(db[n].lock_time) >= db[n].lock.value

\* A bid the taker's node let out is never dropped by the maker for its
\* amounts: the two compute the same rate.
AmountsAgree == \A b \in bids : b.why # "amounts"

\* At a fixed rate the maker never gives more per unit than it offered, but
\* for the tolerance and the rounding of the two rates.
MakerNotShort ==
  LET o == db["maker"]
  IN  \A b \in bids :
        (b.status = "taken" /\ ~o.rate_negotiable) =>
          /\ b.amount >= o.min_bid_amount /\ b.amount <= o.amount_from
          /\ COIN * (b.amount_to * o.amount_from - o.amount_to * b.amount)
               >= -((Max({1, o.rate \div 10000}) + 1) * b.amount * o.amount_from)

\* The search never makes a taker buy more than it asked for, nor pay more
\* than it asked for or the rate of the offer makes of it.
NeverMoreThanAsked ==
  attempt.want > 0 =>
    /\ attempt.amount <= attempt.want
    /\ attempt.amount_to <=
         Max({attempt.max_to, (attempt.want * db["taker"].rate) \div COIN})

\* A bid goes out only at a fee its node would relay, and not above the cap
\* when the node has an estimate: an offer let in while there was none is
\* looked at again.
FeeSane ==
  \A b \in bids :
    db["taker"].pair.swap = "XMR_SWAP" =>
      /\ b.env.hard # -1 => db["taker"].fee >= b.env.hard
      /\ Estimated(b.env) => db["taker"].fee <= b.env.high

\* A revocation a node has seen is final, whichever of it and the offer came
\* first and however often the offer comes again.
RevokedStays == \A n \in Nodes : pending[n] => db[n].state = "none"
=============================================================================
