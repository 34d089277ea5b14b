----------------------------- MODULE OfferRate -----------------------------
(***************************************************************************)
(* The rate at which the market maker posts an offer: the part of          *)
(* process_offers (scripts/createoffers.py) between sizing an offer and    *)
(* posting it.  Two sources may or may not answer, the price service and   *)
(* the offers of others on the order book, of which only those count that  *)
(* accept bids at least as freely as the template's own strategy.          *)
(*                                                                         *)
(* One behaviour is one evaluation: the inputs are chosen, the sources are *)
(* asked in turn, the rate is worked out or the template is skipped.       *)
(* Rates are in hundredths.                                                *)
(***************************************************************************)
EXTENDS Integers, FiniteSetsExt

CONSTANTS Rates, MinRates, Tweaks

\* What is assumed of the constants.
ConstantsOK ==
    /\ Rates \subseteq Nat \ {0} /\ MinRates \subseteq Nat /\ Tweaks \subseteq -99..200

None == -1

Modes == {"false", "true", "all", "only", "minrate", "static"}

Strategies == {"accept_all", "accept_known", "none"}

\* An offer on the book: its rate and its automation_strat_id, 0 for none.
Book == [rate : Rates, strat : 0..2]

VARIABLES
  mode, strategy, minrate, tweak, \* of the template
  samePart,  \* both coins are variants of Particl
  book,      \* the offers of others
  gecko,     \* the service's rate, None when it does not answer
  cg, mk,    \* the rates obtained so far
  pc, rate

vars == <<mode, strategy, minrate, tweak, samePart, book, gecko, cg, mk, pc, rate>>
inputs == <<mode, strategy, minrate, tweak, samePart, book, gecko>>

Init ==
  /\ mode \in Modes /\ strategy \in Strategies
  /\ minrate \in MinRates /\ tweak \in Tweaks
  /\ samePart \in BOOLEAN
  /\ book \in {S \in SUBSET Book : Cardinality(S) <= 2}
  /\ gecko \in Rates \cup {None}
  /\ cg = None /\ mk = None
  /\ pc = "start" /\ rate = None

\* A mode that may fall back on the minimum rate needs one.
Start ==
  /\ pc = "start"
  /\ pc' = IF mode \in {"minrate", "static", "true", "only"} /\ minrate <= 0
           THEN "skipped" ELSE "gecko"
  /\ UNCHANGED <<inputs, cg, mk, rate>>

\* The price service is asked where the mode uses it and the coins differ.
AskGecko ==
  /\ pc = "gecko"
  /\ pc' = "book"
  /\ cg' = IF ~samePart /\ mode \notin {"only", "minrate", "static"} THEN gecko ELSE None
  /\ UNCHANGED <<inputs, mk, rate>>

\* Mutant: offers count that accept bids less freely than the template.
ComparableAny(o) == o.strat \in {0, 1, 2}

\* The offers of the book that compete with a template of this strategy.
Comparable(o) ==
  CASE strategy = "accept_all" -> o.strat = 1
    [] strategy = "accept_known" -> o.strat \in {1, 2}
    [] OTHER -> TRUE

\* The order book gives the lowest rate of the offers that compete.
AskBook ==
  /\ pc = "book"
  /\ pc' = "choose"
  /\ LET rates == {o.rate : o \in {x \in book : Comparable(x)}} IN
       mk' = IF mode \in {"true", "only", "all", "minrate"} /\ rates # {} THEN Min(rates) ELSE None
  /\ UNCHANGED <<inputs, cg, rate>>

\* Mutant: the lower of the two rates is used.
BaseRateLower ==
  CASE mode = "false"  -> IF samePart THEN 100 ELSE cg
    [] mode \in {"true", "all"} -> IF cg # None /\ mk # None THEN Min({cg, mk}) ELSE None
    [] mode = "minrate" -> IF mk # None THEN mk ELSE minrate
    [] mode = "only"   -> mk
    [] mode = "static" -> minrate

\* The base rate of each mode, None when its sources fail.
BaseRate ==
  CASE mode = "false"  -> IF samePart THEN 100 ELSE cg
    [] mode = "true"   -> Max({cg, mk})
    [] mode = "all"    -> IF cg # None /\ mk # None THEN Max({cg, mk}) ELSE None
    [] mode = "minrate" -> IF mk # None THEN mk ELSE minrate
    [] mode = "only"   -> mk
    [] mode = "static" -> minrate

\* Mutant: the fallback is tweaked too.
TweakedAlways(r) == (r * (100 + tweak)) \div 100

\* Only a rate that came from a source, or a static one, is tweaked.
Tweaked(r) ==
  IF r \in {cg, mk} \/ mode = "static" THEN (r * (100 + tweak)) \div 100 ELSE r

\* Mutant: no floor.
FlooredNot(r) == r

\* The rate never drops below the template's minimum.
Floored(r) == IF r < minrate THEN minrate ELSE r

Choose ==
  /\ pc = "choose"
  /\ IF BaseRate = None
     THEN pc' = "skipped" /\ UNCHANGED rate
     ELSE pc' = "posted" /\ rate' = Floored(Tweaked(BaseRate))
  /\ UNCHANGED <<inputs, cg, mk>>

Done == pc \in {"posted", "skipped"} /\ UNCHANGED vars

Next == Start \/ AskGecko \/ AskBook \/ Choose \/ Done

Spec == Init /\ [][Next]_vars

(***************************************************************************)
(* Properties                                                              *)
(***************************************************************************)
\* No offer is posted below the template's minrate, whatever the sources say
\* and however far the tweak lowers it ("Rate below which the offer won't drop").
RateFloor == pc = "posted" => rate >= minrate

\* The modes that use both sources never undercut the lower bound they promise:
\* with no negative tweak the posted rate is at least the service's rate and at
\* least that of the cheapest comparable offer, as far as each was available.
UsesHigher ==
  (pc = "posted" /\ mode \in {"true", "all"} /\ ~samePart /\ tweak >= 0) =>
    /\ rate >= gecko
    /\ LET rates == {o.rate : o \in {x \in book : Comparable(x)}} IN
         rates # {} => rate >= Min(rates)

\* A template that only competes with others is never priced after an offer
\* that accepts bids less freely than it does.
ComparesWithPeers ==
  (pc = "posted" /\ mode = "only" /\ strategy = "accept_all") =>
    \E o \in book : o.strat = 1 /\ rate = Floored((o.rate * (100 + tweak)) \div 100)

\* The minimum rate used as a fallback is posted as it is.
FallbackExact ==
  (pc = "posted" /\ mode = "minrate" /\ \A o \in book : ~Comparable(o)) => rate = minrate
=============================================================================
