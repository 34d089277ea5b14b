------------------------------ MODULE AmmCount ------------------------------
(***************************************************************************)
(* What the web interface says the market maker has on offer               *)
(* (basicswap/ui/page_amm.py): get_amm_active_count behind the status      *)
(* badge, and get_amm_template_runtime behind the table of templates.      *)
(* Both join the script's state file with the program's offers while the   *)
(* script posts, the offers expire and the user switches templates.        *)
(***************************************************************************)
EXTENDS FiniteSets, Naturals, FiniteSetsExt

CONSTANTS Template, \* ids of the offer templates in the configuration
          Offer,    \* offer ids
          Budget    \* total_to_sell of a fixed_total template, in units

\* What is assumed of the constants.
ConstantsOK ==
    /\ IsFiniteSet(Template) /\ IsFiniteSet(Offer) /\ Budget \in Nat \ {0}

VARIABLES posted,   \* state file: template -> offer ids
          live,     \* offers the program lists: active, not expired or revoked
          others,   \* offers of other users are listed too
          filled,   \* offer -> units sold (getOfferTrackingSummary)
          sold,     \* state file: template_tracking sold_by_offer
          enabled,  \* templates switched on in the configuration
          running,  \* get_amm_status() = "running"
          recent    \* the newest offer in the state is less than an hour old

vars == <<posted, live, others, filled, sold, enabled, running, recent>>

TypeOK ==
    /\ posted \in [Template -> SUBSET Offer] /\ live \subseteq Offer
    /\ others \in BOOLEAN /\ enabled \subseteq Template
    /\ running \in BOOLEAN /\ recent \in BOOLEAN
    /\ filled \in [Offer -> 0..Budget] /\ sold \in [Offer -> 0..Budget]
    /\ \A t, u \in Template : t # u => posted[t] \cap posted[u] = {}

Init ==
    /\ posted = [t \in Template |-> {}] /\ live = {} /\ others \in BOOLEAN
    /\ filled = [o \in Offer |-> 0] /\ sold = [o \in Offer |-> 0]
    /\ enabled = Template /\ running = FALSE /\ recent = FALSE

Posted == UNION {posted[t] : t \in Template}
SoldOf(t) == MapThenSumSet(LAMBDA o : filled[o], posted[t])

-----------------------------------------------------------------------------
(* What the page computes.                                                 *)

\* classify_offer_ids: an offer that is known, active, not expired.
ActiveOffers(t) == posted[t] \cap live

\* get_live_offer_fills: the larger of the script's figure and the program's.
LiveOfferFills(t) ==
    MapThenSumSet(LAMBDA o : Max({sold[o], filled[o]}), posted[t])

\* Mutant: the fills of the script's last pass decide.
ExhaustedByState(t) == MapThenSumSet(LAMBDA o : sold[o], posted[t]) >= Budget

\* get_amm_template_runtime: the row of a fixed_total template.
Exhausted(t) == LiveOfferFills(t) >= Budget

\* Mutant: disabled templates count as well.
CountOffersAll == MapThenSumSet(LAMBDA t : Cardinality(ActiveOffers(t)), Template)

\* The offers of enabled templates that the program lists.
CountOffers == MapThenSumSet(LAMBDA t : Cardinality(ActiveOffers(t)), enabled)

\* get_amm_active_count: nothing unless the script runs; with no offer counted,
\* 1 when nothing at all is listed and a recent offer exists, and 1 again
\* whenever the state file has offers.
ActiveCount ==
    IF ~running THEN 0
    ELSE IF CountOffers > 0 THEN CountOffers
    ELSE IF live = {} /\ ~others /\ recent THEN 1
    ELSE IF Posted # {} THEN 1 ELSE 0

-----------------------------------------------------------------------------
(* The script, the program and the user.                                   *)

SetRunning == running' = ~running /\ UNCHANGED <<posted, live, others, filled, sold, enabled, recent>>

\* process_offers posts an offer of an enabled template and notes its id.
Post(t, o) ==
    /\ running /\ t \in enabled /\ o \notin Posted
    /\ posted' = [posted EXCEPT ![t] = @ \cup {o}]
    /\ live' = live \cup {o} /\ recent' = TRUE
    /\ UNCHANGED <<others, filled, sold, enabled, running>>

\* An offer expires or is revoked.
Drop(o) ==
    /\ o \in live /\ live' = live \ {o}
    /\ UNCHANGED <<posted, others, filled, sold, enabled, running, recent>>

Fill(t, o) ==
    /\ o \in live \cap posted[t] /\ SoldOf(t) < Budget
    /\ filled' = [filled EXCEPT ![o] = @ + 1]
    /\ UNCHANGED <<posted, live, others, sold, enabled, running, recent>>

\* The script notes in its next pass what was sold.
NoteSold ==
    /\ running /\ sold # filled /\ sold' = filled
    /\ UNCHANGED <<posted, live, others, filled, enabled, running, recent>>

Toggle(t) ==
    /\ enabled' = IF t \in enabled THEN enabled \ {t} ELSE enabled \cup {t}
    /\ UNCHANGED <<posted, live, others, filled, sold, running, recent>>

HourPasses ==
    /\ recent /\ recent' = FALSE
    /\ UNCHANGED <<posted, live, others, filled, sold, enabled, running>>

Next ==
    \/ SetRunning \/ NoteSold \/ HourPasses
    \/ \E t \in Template : Toggle(t)
    \/ \E t \in Template, o \in Offer : Post(t, o) \/ Fill(t, o)
    \/ \E o \in Offer : Drop(o)

Spec == Init /\ [][Next]_vars

-----------------------------------------------------------------------------
(* Properties.                                                             *)

\* A running market maker with a listed offer of an enabled template is counted
\* exactly, and the badge never shows more than the offers that were posted.
CountExact ==
    /\ running /\ (\E t \in enabled : posted[t] \cap live # {})
         => ActiveCount = Cardinality(UNION {posted[t] \cap live : t \in enabled})
    /\ ActiveCount <= Cardinality(Posted)

\* A fixed_total template is shown as exhausted as soon as its budget is sold,
\* also before the script has noted the last sale.
ExhaustedAtOnce == \A t \in Template : SoldOf(t) >= Budget => Exhausted(t)
=============================================================================
