------------------------ MODULE ActionQueue_proofs ------------------------
(***************************************************************************)
(* The queue of delayed actions, for any number of bids, steps and errors: *)
(* a queued action is neither lost nor run twice.                          *)
(*                                                                         *)
(* That nothing is lost needs every delay to be at least one unit of the   *)
(* clock: a follow-up that is due in the very second in which its batch    *)
(* began is deleted with the batch (DelaysPositive).  That nothing runs    *)
(* twice does not.                                                         *)
(***************************************************************************)
EXTENDS ActionQueue, FiniteSetTheorems, TLAPS

\* No handler asks for a delay of zero: min_delay_event and its siblings are not
\* set to 0.
DelaysPositive == 0 \notin Delays

-----------------------------------------------------------------------------
\* The invariant.

Typed ==
    /\ time \in 0..MaxTime
    /\ rows \in SUBSET Actions
    /\ bid \in [Bids -> BidStates]
    /\ batch \in [now : -1..MaxTime, todo : SUBSET Actions, retry : SUBSET Actions]
    /\ handled \in SUBSET (Bids \X (1..MaxSteps))
    /\ saved \in [rows : SUBSET Actions, bid : [Bids -> BidStates],
                  handled : SUBSET (Bids \X (1..MaxSteps))]
    /\ errors \in 0..MaxErrors

\* The rows of R whose handler has not ended, by the set of handled actions H.
Open(R, H) == {a \in R : <<a.bid, a.n>> \notin H}

\* The actions of a bid form a chain: the open one is the last, the bid's state
\* tells which one it is, and a bid that waits for one has it.
Chain(R, B, H) ==
    /\ \A a \in Open(R, H) :
        /\ B[a.bid] = IF a.n = 1 THEN "delaying" ELSE "going"
        /\ a.n > 1 => <<a.bid, 1>> \in H
        /\ \A n \in 1..MaxSteps : <<a.bid, n>> \in H => n < a.n
        /\ \A c \in R : c.bid = a.bid => c = a \/ c.n < a.n
    /\ \A b \in Bids, n \in 1..MaxSteps : <<b, n>> \in H => <<b, 1>> \in H
    /\ DelaysPositive =>
        \A b \in Bids : B[b] \in {"delaying", "going"} => \E a \in Open(R, H) : a.bid = b

\* Between batches the session is committed and the queue holds open rows only.
Idle ==
    batch = NoBatch =>
        /\ Open(rows, handled) = rows
        /\ saved.rows = rows /\ saved.bid = bid /\ saved.handled = handled

\* In a batch, what is to be run or retried is open and was due when it began, and
\* the delete by time meets only rows whose handler ended.
InBatch ==
    batch # NoBatch =>
        /\ batch.now \in 0..time
        /\ batch.todo \cup batch.retry \subseteq Open(rows, handled)
        /\ batch.todo \cap batch.retry = {}
        /\ \A a \in batch.todo \cup batch.retry : a.at <= batch.now
        /\ \A a \in rows \ Open(rows, handled) : a.at <= batch.now
        /\ DelaysPositive =>
            \A a \in Open(rows, handled) : a.at > batch.now \/ a \in batch.todo \cup batch.retry

SavedSound ==
    /\ Open(saved.rows, saved.handled) = saved.rows
    /\ Chain(saved.rows, saved.bid, saved.handled)

IInv ==
    /\ Typed
    /\ Chain(rows, bid, handled) /\ SavedSound
    /\ Idle /\ InBatch

\* The invariant holds at first.
LEMMA InvInit ==
    ASSUME ConstantsOK, Init
    PROVE  IInv
<1>1. Typed
  <2>1. batch \in [now : -1..MaxTime, todo : SUBSET Actions, retry : SUBSET Actions]
    BY DEF Init, NoBatch, ConstantsOK
  <2>2. saved \in [rows : SUBSET Actions, bid : [Bids -> BidStates],
                   handled : SUBSET (Bids \X (1..MaxSteps))]
    BY DEF Init, Committed, BidStates
  <2> QED
    BY <2>1, <2>2 DEF Init, Typed, ConstantsOK, BidStates
<1>2. saved.rows = {} /\ saved.bid = bid /\ saved.handled = {}
  BY DEF Init, Committed
<1>3. Chain(rows, bid, handled) /\ SavedSound
  BY <1>2 DEF Init, Chain, Open, SavedSound
<1>4. Idle /\ InBatch
  BY <1>2 DEF Init, Idle, InBatch, Open
<1> QED
  BY <1>1, <1>3, <1>4 DEF IInv

\* A second passes: no row changes.
LEMMA TickStep ==
    ASSUME ConstantsOK, IInv, Tick
    PROVE  IInv'
<1>1. Typed'
  BY DEF IInv, Typed, Tick, ConstantsOK
<1>2. Idle' /\ InBatch'
  BY DEF IInv, Idle, InBatch, Tick, Typed, ConstantsOK
<1> QED
  BY <1>1, <1>2 DEF IInv, Tick, SavedSound

\* A batch begins: what it has still to run is what is due.
LEMMA BeginBatchStep ==
    ASSUME ConstantsOK, IInv, BeginBatch
    PROVE  IInv'
<1>1. batch' = [now |-> time, todo |-> {a \in rows : a.at <= time}, retry |-> {}]
  BY DEF BeginBatch
<1>2. /\ UNCHANGED <<time, rows, bid, handled, saved, errors>>
      /\ Open(rows, handled) = rows
  BY DEF BeginBatch, IInv, Idle
<1>3. Typed'
  <2>1. time \in -1..MaxTime /\ {a \in rows : a.at <= time} \in SUBSET Actions
    BY DEF IInv, Typed, ConstantsOK
  <2> QED
    BY <1>1, <1>2, <2>1 DEF IInv, Typed
<1>4. batch'.now = time /\ batch'.todo = {a \in rows : a.at <= time} /\ batch'.retry = {}
  BY <1>1
<1>5. batch' # NoBatch
  <2>1. batch'.now >= 0
    BY <1>4 DEF IInv, Typed
  <2> QED
    BY <2>1 DEF NoBatch
<1>6. \A a \in rows : a.at \in Nat
  BY DEF IInv, Typed, Actions
<1>7. Idle' /\ InBatch'
  <2>1. time \in 0..time
    BY DEF IInv, Typed, ConstantsOK
  <2> QED
    BY <1>2, <1>4, <1>5, <1>6, <2>1 DEF Idle, InBatch, IInv, Typed
<1> QED
  BY <1>2, <1>3, <1>7 DEF IInv, SavedSound

\* A batch that is rolled back restores the rows the commit saved.
LEMMA RollBackStep ==
    ASSUME ConstantsOK, IInv, RollBack
    PROVE  IInv'
<1>1. /\ rows' = saved.rows /\ bid' = saved.bid /\ handled' = saved.handled
      /\ batch' = NoBatch /\ time' = time /\ saved' = saved
  BY DEF RollBack
<1>2. Typed'
  <2>1. NoBatch \in [now : -1..MaxTime, todo : SUBSET Actions, retry : SUBSET Actions]
    BY DEF NoBatch, ConstantsOK
  <2>2. errors' \in 0..MaxErrors
    BY DEF RollBack, IInv, Typed, ConstantsOK
  <2> QED
    BY <1>1, <2>1, <2>2 DEF IInv, Typed
<1>3. Chain(rows', bid', handled') /\ SavedSound'
  BY <1>1 DEF IInv, SavedSound
<1>4. Idle' /\ InBatch'
  BY <1>1 DEF IInv, SavedSound, Idle, InBatch
<1> QED
  BY <1>2, <1>3, <1>4 DEF IInv

\* What a commit with an empty batch saves.
LEMMA CommitSaves ==
    ASSUME saved' = Committed'
    PROVE  saved'.rows = rows' /\ saved'.bid = bid' /\ saved'.handled = handled'
BY DEF Committed

\* A bid is accepted for later: its first action is queued.
LEMMA QueueAcceptStep ==
    ASSUME ConstantsOK, IInv, NEW b \in Bids, QueueAccept(b)
    PROVE  IInv'
<1>1. PICK d \in Delays : time + d <= MaxTime /\ rows' = rows \cup {NewAction(b, 1, d)}
  BY DEF QueueAccept
<1> DEFINE a == NewAction(b, 1, d)
<1>2. a \in Actions /\ a.bid = b /\ a.n = 1
  BY <1>1 DEF NewAction, Actions, IInv, Typed, ConstantsOK
<1> HIDE DEF a
<1>3. /\ batch = NoBatch /\ batch' = NoBatch /\ bid[b] = "waiting" /\ <<b, 1>> \notin handled
      /\ bid' = [bid EXCEPT ![b] = "delaying"]
      /\ UNCHANGED <<time, batch, handled, errors>> /\ saved' = Committed'
  BY DEF QueueAccept
<1>4. rows' = rows \cup {a}
  BY <1>1 DEF a
<1>5. saved'.rows = rows' /\ saved'.bid = bid' /\ saved'.handled = handled'
  BY <1>3, CommitSaves
<1>6. Open(rows, handled) = rows /\ Open(rows', handled') = rows'
  BY <1>2, <1>3, <1>4 DEF IInv, Idle, Open
<1>7. \A c \in rows : c.bid # b
  BY <1>3, <1>6 DEF IInv, Chain
<1>8. \A n \in 1..MaxSteps : <<b, n>> \notin handled
  BY <1>3 DEF IInv, Chain
<1>9. Typed'
  <2>1. saved' \in [rows : SUBSET Actions, bid : [Bids -> BidStates],
                    handled : SUBSET (Bids \X (1..MaxSteps))]
    BY <1>2, <1>3, <1>4 DEF Committed, IInv, Typed, BidStates
  <2> QED
    BY <1>2, <1>3, <1>4, <2>1 DEF IInv, Typed, BidStates
<1>10. Chain(rows', bid', handled')
  <2>1. \A c \in rows' : c = a \/ (c \in Open(rows, handled) /\ c.bid # b)
    BY <1>4, <1>6, <1>7
  <2>2. ASSUME NEW c \in rows'
        PROVE  /\ bid'[c.bid] = IF c.n = 1 THEN "delaying" ELSE "going"
               /\ c.n > 1 => <<c.bid, 1>> \in handled'
               /\ \A n \in 1..MaxSteps : <<c.bid, n>> \in handled' => n < c.n
               /\ \A e \in rows' : e.bid = c.bid => e = c \/ e.n < c.n
    BY <1>2, <1>3, <1>4, <1>7, <1>8, <2>1 DEF IInv, Chain, Typed
  <2>3. DelaysPositive =>
          \A x \in Bids : bid'[x] \in {"delaying", "going"} => \E c \in rows' : c.bid = x
    BY <1>2, <1>3, <1>4, <1>6 DEF IInv, Chain, Typed
  <2> QED
    BY <1>3, <1>6, <2>2, <2>3 DEF Chain, IInv
<1>11. SavedSound' /\ Idle' /\ InBatch'
  BY <1>3, <1>5, <1>6, <1>10 DEF SavedSound, Idle, InBatch
<1> QED
  BY <1>9, <1>10, <1>11 DEF IInv

\* A bid ends outside the queue, and its rows are deactivated.
LEMMA DeactivateStep ==
    ASSUME ConstantsOK, IInv, NEW b \in Bids, Deactivate(b)
    PROVE  IInv'
<1>1. /\ batch = NoBatch /\ batch' = NoBatch
      /\ bid' = [bid EXCEPT ![b] = "ended"]
      /\ rows' = {a \in rows : a.bid # b}
      /\ UNCHANGED <<time, batch, handled, errors>> /\ saved' = Committed'
  BY DEF Deactivate
<1>2. saved'.rows = rows' /\ saved'.bid = bid' /\ saved'.handled = handled'
  BY <1>1, CommitSaves
<1>3. Open(rows, handled) = rows /\ Open(rows', handled') = rows'
  BY <1>1 DEF IInv, Idle, Open
<1>4. Typed'
  <2>1. saved' \in [rows : SUBSET Actions, bid : [Bids -> BidStates],
                    handled : SUBSET (Bids \X (1..MaxSteps))]
    BY <1>1 DEF Committed, IInv, Typed, BidStates
  <2> QED
    BY <1>1, <2>1 DEF IInv, Typed, BidStates
<1>5. Chain(rows', bid', handled')
  <2>1. \A a \in rows : a.bid \in Bids
    BY DEF IInv, Typed, Actions
  <2> QED
    BY <1>1, <1>3, <2>1 DEF IInv, Chain, Typed
<1>6. SavedSound' /\ Idle' /\ InBatch'
  BY <1>1, <1>2, <1>3, <1>5 DEF SavedSound, Idle, InBatch
<1> QED
  BY <1>4, <1>5, <1>6 DEF IInv

\* The batch is deleted by its time: only rows whose handler has ended.
LEMMA EndBatchStep ==
    ASSUME ConstantsOK, IInv, EndBatch
    PROVE  IInv'
<1>1. /\ batch # NoBatch /\ batch.todo = {} /\ batch' = NoBatch
      /\ rows' = Cleared
      /\ UNCHANGED <<time, bid, handled, errors>> /\ saved' = Committed'
  BY DEF EndBatch
<1>2. saved'.rows = rows' /\ saved'.bid = bid' /\ saved'.handled = handled'
  BY <1>1, CommitSaves
<1>3. \A a \in rows : a.at \in Nat
  BY DEF IInv, Typed, Actions
<1>4. batch.now \in Nat
  BY <1>1 DEF IInv, InBatch, Typed
<1>5. rows' \subseteq Open(rows, handled)
  BY <1>1, <1>3, <1>4 DEF Cleared, IInv, InBatch
<1>6. DelaysPositive => rows' = Open(rows, handled)
  BY <1>1, <1>5 DEF Cleared, IInv, InBatch, Open
<1>7. Open(rows', handled') = rows'
  BY <1>1, <1>5 DEF Open
<1>8. Typed'
  <2>1. NoBatch \in [now : -1..MaxTime, todo : SUBSET Actions, retry : SUBSET Actions]
    BY DEF NoBatch, ConstantsOK
  <2>2. rows' \in SUBSET Actions
    BY <1>1 DEF Cleared, IInv, Typed
  <2>3. saved' \in [rows : SUBSET Actions, bid : [Bids -> BidStates],
                    handled : SUBSET (Bids \X (1..MaxSteps))]
    BY <1>1, <2>2 DEF Committed, IInv, Typed
  <2> QED
    BY <1>1, <2>1, <2>2, <2>3 DEF IInv, Typed
<1>9. Chain(rows', bid', handled')
  <2>1. rows' \subseteq rows
    BY <1>5 DEF Open
  <2> QED
    BY <1>1, <1>5, <1>6, <1>7, <2>1 DEF IInv, Chain
<1>10. SavedSound' /\ Idle' /\ InBatch'
  BY <1>1, <1>2, <1>7, <1>9 DEF SavedSound, Idle, InBatch
<1> QED
  BY <1>8, <1>9, <1>10 DEF IInv

-----------------------------------------------------------------------------
\* The handlers of a batch.

\* What is known of the action whose handler runs.
LEMMA RunningFacts ==
    ASSUME ConstantsOK, IInv, NEW a \in batch.todo
    PROVE  /\ batch # NoBatch /\ a \in Open(rows, handled) /\ a \in rows
           /\ a.bid \in Bids /\ a.n \in 1..MaxSteps /\ a.n \in Nat \ {0} /\ a.at \in Nat
           /\ <<a.bid, a.n>> \in Bids \X (1..MaxSteps)
           /\ batch.now \in Nat /\ time \in Nat /\ batch.now <= time
           /\ a.at <= batch.now /\ a \notin batch.retry
           /\ bid[a.bid] = IF a.n = 1 THEN "delaying" ELSE "going"
           /\ a.n > 1 => <<a.bid, 1>> \in handled
           /\ \A n \in 1..MaxSteps : <<a.bid, n>> \in handled => n < a.n
           /\ \A c \in rows : c.bid = a.bid => c = a \/ c.n < a.n
<1>1. batch # NoBatch
  BY DEF NoBatch
<1>2. a \in Open(rows, handled) /\ a.at <= batch.now /\ a \notin batch.retry /\ batch.now \in 0..time
  BY <1>1 DEF IInv, InBatch
<1>3. a \in rows
  BY <1>2 DEF Open
<1>4. a \in Actions /\ time \in Nat
  BY <1>3 DEF IInv, Typed, ConstantsOK
<1>5. /\ a.bid \in Bids /\ a.n \in 1..MaxSteps /\ a.n \in Nat \ {0} /\ a.at \in Nat
      /\ <<a.bid, a.n>> \in Bids \X (1..MaxSteps)
  BY <1>4 DEF Actions, ConstantsOK
<1>6. /\ bid[a.bid] = IF a.n = 1 THEN "delaying" ELSE "going"
      /\ a.n > 1 => <<a.bid, 1>> \in handled
      /\ \A n \in 1..MaxSteps : <<a.bid, n>> \in handled => n < a.n
      /\ \A c \in rows : c.bid = a.bid => c = a \/ c.n < a.n
  BY <1>2 DEF IInv, Chain
<1> QED
  BY <1>1, <1>2, <1>3, <1>4, <1>5, <1>6

\* The batch after the handler of a, which leaves the list.
LEMMA RanBatch ==
    ASSUME ConstantsOK, IInv, NEW a \in batch.todo
    PROVE  /\ Ran(a) \in [now : -1..MaxTime, todo : SUBSET Actions, retry : SUBSET Actions]
           /\ Ran(a).now = batch.now /\ Ran(a).todo = batch.todo \ {a}
           /\ Ran(a).retry = batch.retry
           /\ Ran(a) # NoBatch
<1>1. batch \in [now : -1..MaxTime, todo : SUBSET Actions, retry : SUBSET Actions]
  BY DEF IInv, Typed
<1>2. /\ Ran(a) \in [now : -1..MaxTime, todo : SUBSET Actions, retry : SUBSET Actions]
      /\ Ran(a).now = batch.now /\ Ran(a).todo = batch.todo \ {a}
      /\ Ran(a).retry = batch.retry
  BY <1>1 DEF Ran
<1>3. Ran(a) # NoBatch
  <2>1. Ran(a).now \in Nat
    BY <1>2, RunningFacts
  <2> QED
    BY <2>1 DEF NoBatch
<1> QED
  BY <1>2, <1>3

LEMMA RunRetryStep ==
    ASSUME ConstantsOK, IInv, NEW a \in batch.todo, RunRetry(a)
    PROVE  IInv'
<1>1. /\ batch' = [Ran(a) EXCEPT !.retry = @ \cup {a}]
      /\ UNCHANGED <<time, rows, bid, handled, saved>>
  BY DEF RunRetry
<1>2. /\ batch' \in [now : -1..MaxTime, todo : SUBSET Actions, retry : SUBSET Actions]
      /\ batch'.now = batch.now /\ batch'.todo = batch.todo \ {a}
      /\ batch'.retry = batch.retry \cup {a}
  <2>1. a \in Actions
    BY DEF IInv, Typed
  <2> QED
    BY <1>1, <2>1, RanBatch
<1>3. batch' # NoBatch
  <2>1. batch'.now \in Nat
    BY <1>2, RunningFacts
  <2> QED
    BY <2>1 DEF NoBatch
<1>4. Typed'
  <2>1. errors' \in 0..MaxErrors
    BY DEF RunRetry, IInv, Typed, ConstantsOK
  <2> QED
    BY <1>1, <1>2, <2>1 DEF IInv, Typed
<1>5. Idle' /\ InBatch'
  <2>1. batch'.todo \cup batch'.retry = batch.todo \cup batch.retry
    BY <1>2
  <2>2. batch'.todo \cap batch'.retry = {}
    BY <1>2, RunningFacts DEF IInv, InBatch
  <2> QED
    BY <1>1, <1>2, <1>3, <2>1, <2>2, RunningFacts DEF IInv, Idle, InBatch
<1> QED
  BY <1>1, <1>4, <1>5 DEF IInv, SavedSound

\* The open rows without a, whose handler has ended: none of them is of a's bid.
LEMMA OpenAfter ==
    ASSUME ConstantsOK, IInv, NEW a \in batch.todo
    PROVE  LET H == handled \cup {<<a.bid, a.n>>}
           IN  /\ Open(rows, H) = Open(rows, handled) \ {a}
               /\ \A c \in Open(rows, H) : c.bid \in Bids /\ c.n \in Nat \ {0} /\ c.bid # a.bid
<1> DEFINE H == handled \cup {<<a.bid, a.n>>}
<1>1. ASSUME NEW c \in rows, c \in Open(rows, handled), c # a
      PROVE  c.bid \in Bids /\ c.n \in Nat \ {0} /\ c.bid # a.bid /\ c \in Open(rows, H)
  <2>1. c.bid \in Bids /\ c.n \in Nat \ {0}
    BY DEF IInv, Typed, Actions, ConstantsOK
  <2>2. c.bid # a.bid
    <3>1. SUFFICES ASSUME c.bid = a.bid PROVE FALSE
      OBVIOUS
    <3>2. a \in rows /\ a.n \in Nat /\ c.n < a.n
      BY <1>1, <3>1, RunningFacts
    <3>3. a.n < c.n
      BY <1>1, <3>1, <3>2 DEF IInv, Chain
    <3> QED
      BY <2>1, <3>2, <3>3
  <2> QED
    BY <1>1, <2>1, <2>2 DEF Open
<1>2. Open(rows, H) = Open(rows, handled) \ {a}
  BY <1>1 DEF Open
<1>3. \A c \in Open(rows, H) : c.bid \in Bids /\ c.n \in Nat \ {0} /\ c.bid # a.bid
  BY <1>1, <1>2 DEF Open
<1> QED
  BY <1>2, <1>3

\* A handler ends and queues nothing: its bid does not wait for an action.
LEMMA EndsStep ==
    ASSUME ConstantsOK, IInv, NEW a \in batch.todo,
           NEW v \in BidStates \ {"delaying", "going"},
           batch' = Ran(a), handled' = handled \cup {<<a.bid, a.n>>},
           bid' = [bid EXCEPT ![a.bid] = v],
           UNCHANGED <<time, rows, saved, errors>>
    PROVE  IInv'
<1> DEFINE H == handled \cup {<<a.bid, a.n>>}
<1>1. a.bid \in Bids /\ a.n \in Nat \ {0} /\ <<a.bid, a.n>> \in Bids \X (1..MaxSteps)
  BY RunningFacts
<1>2. bid'[a.bid] \notin {"delaying", "going"} /\ \A b \in Bids : b # a.bid => bid'[b] = bid[b]
  BY <1>1 DEF IInv, Typed
<1>3. Typed'
  <2>1. bid' \in [Bids -> BidStates]
    BY <1>1 DEF IInv, Typed
  <2>2. handled' \in SUBSET (Bids \X (1..MaxSteps))
    BY <1>1 DEF IInv, Typed
  <2> QED
    BY <2>1, <2>2, RanBatch DEF IInv, Typed
<1>4. /\ Open(rows, H) = Open(rows, handled) \ {a}
      /\ \A c \in Open(rows, H) : c.bid \in Bids /\ c.n \in Nat \ {0} /\ c.bid # a.bid
  BY OpenAfter
<1>5. Chain(rows', bid', handled')
  <2>1. ASSUME NEW c \in Open(rows, H)
        PROVE  /\ bid'[c.bid] = IF c.n = 1 THEN "delaying" ELSE "going"
               /\ c.n > 1 => <<c.bid, 1>> \in H
               /\ \A n \in 1..MaxSteps : <<c.bid, n>> \in H => n < c.n
               /\ \A e \in rows : e.bid = c.bid => e = c \/ e.n < c.n
    <3>1. c \in Open(rows, handled) /\ c.bid \in Bids /\ c.bid # a.bid
      BY <1>4
    <3> QED
      BY <1>2, <3>1 DEF IInv, Chain
  <2>2. \A b \in Bids, n \in 1..MaxSteps : <<b, n>> \in H => <<b, 1>> \in H
    <3>1. SUFFICES ASSUME NEW b \in Bids, NEW n \in 1..MaxSteps, <<b, n>> \in H
                   PROVE  <<b, 1>> \in H
      OBVIOUS
    <3>2. CASE <<b, n>> \in handled
      BY <3>2 DEF IInv, Chain
    <3>3. CASE b = a.bid /\ n = a.n
      <4>1. a.n = 1 \/ a.n > 1
        BY <1>1
      <4> QED
        BY <3>3, <4>1, RunningFacts
    <3> QED
      BY <3>1, <3>2, <3>3
  <2>3. ASSUME DelaysPositive, NEW b \in Bids, bid'[b] \in {"delaying", "going"}
        PROVE  \E c \in Open(rows, H) : c.bid = b
    BY <1>2, <1>4, <2>3 DEF IInv, Chain
  <2> QED
    BY <2>1, <2>2, <2>3 DEF Chain
<1>6. Idle' /\ InBatch'
  <2>1. /\ batch'.now = batch.now /\ batch'.todo = batch.todo \ {a}
        /\ batch'.retry = batch.retry /\ batch' # NoBatch
    BY RanBatch
  <2>2. batch # NoBatch /\ a.at <= batch.now /\ a \notin batch.retry /\ a \in rows
    BY RunningFacts
  <2> QED
    BY <1>4, <2>1, <2>2 DEF IInv, Idle, InBatch
<1> QED
  BY <1>3, <1>5, <1>6 DEF IInv, SavedSound

\* A handler that gives up leaves the bid in error, or waiting again.
LEMMA RunFailsStep ==
    ASSUME ConstantsOK, IInv, NEW a \in batch.todo, RunFails(a)
    PROVE  IInv'
<1> DEFINE v == IF a.n > 1 THEN "error" ELSE "waiting"
<1>1. bid' = [bid EXCEPT ![a.bid] = v]
  <2>1. CASE a.n > 1
    BY <2>1 DEF RunFails
  <2>2. CASE ~(a.n > 1)
    <3>1. a.n = 1
      <4>1. a.n \in Nat \ {0}
        BY RunningFacts
      <4> QED
        BY <2>2, <4>1
    <3>2. bid[a.bid] = "delaying"
      BY <3>1, RunningFacts
    <3>3. \A c \in rows : c.bid = a.bid => c = a
      <4>1. \A c \in rows : c.n \in Nat \ {0}
        BY DEF IInv, Typed, Actions, ConstantsOK
      <4>2. \A c \in rows : ~(c.n < 1)
        BY <4>1
      <4> QED
        BY <3>1, <4>2, RunningFacts
    <3>4. {c \in rows : c.bid = a.bid} = {a}
      BY <3>3, RunningFacts
    <3>5. Cardinality({a}) = 1
      BY FS_Singleton
    <3>6. CountQueued(a.bid) = 1
      BY <3>4, <3>5 DEF CountQueued
    <3> QED
      BY <2>2, <3>2, <3>6 DEF RunFails
  <2> QED
    BY <2>1, <2>2
<1>2. v \in BidStates \ {"delaying", "going"}
  BY DEF BidStates
<1> HIDE DEF v
<1> QED
  BY <1>1, <1>2, EndsStep DEF RunFails

\* The handler that queues the next action of the protocol.
LEMMA RunOnStep ==
    ASSUME ConstantsOK, IInv, NEW a \in batch.todo, RunDone(a), a.n < MaxSteps,
           NEW d \in Delays, time + d <= MaxTime,
           rows' = rows \cup {NewAction(a.bid, a.n + 1, d)},
           bid' = [bid EXCEPT ![a.bid] = "going"]
    PROVE  IInv'
<1> DEFINE H == handled \cup {<<a.bid, a.n>>}
           f == NewAction(a.bid, a.n + 1, d)
<1>1. /\ batch' = Ran(a) /\ handled' = H
      /\ UNCHANGED <<time, saved, errors>>
  BY DEF RunDone
<1>2. a.bid \in Bids /\ a.n \in Nat \ {0} /\ <<a.bid, a.n>> \in Bids \X (1..MaxSteps)
  BY RunningFacts
<1>3. time \in Nat /\ d \in Nat /\ MaxSteps \in Nat /\ (DelaysPositive => d > 0)
  BY DEF IInv, Typed, ConstantsOK, DelaysPositive
<1>4. f \in Actions /\ f.bid = a.bid /\ f.n = a.n + 1 /\ f.at = time + d
  BY <1>2, <1>3 DEF NewAction, Actions
<1>5. rows' = rows \cup {f}
  OBVIOUS
<1> HIDE DEF f
<1>6. bid'[a.bid] = "going" /\ \A b \in Bids : b # a.bid => bid'[b] = bid[b]
  BY <1>2 DEF IInv, Typed
<1>7. /\ Open(rows, H) = Open(rows, handled) \ {a}
      /\ \A c \in Open(rows, H) : c.bid \in Bids /\ c.n \in Nat \ {0} /\ c.bid # a.bid
  BY OpenAfter
<1>8. \A n \in 1..MaxSteps : <<a.bid, n>> \in H => n < a.n + 1
  <2>1. SUFFICES ASSUME NEW n \in 1..MaxSteps, <<a.bid, n>> \in H PROVE n < a.n + 1
    OBVIOUS
  <2>2. n < a.n \/ n = a.n
    BY <2>1, RunningFacts
  <2> QED
    BY <1>2, <1>3, <2>2
<1>9. <<f.bid, f.n>> \notin H
  <2>1. f.n \in 1..MaxSteps /\ ~(f.n < a.n + 1)
    BY <1>2, <1>3, <1>4
  <2> QED
    BY <1>4, <1>8, <2>1
<1>10. Open(rows', H) = Open(rows, H) \cup {f}
  BY <1>5, <1>9 DEF Open
<1>11. \A c \in rows : c.bid = a.bid => c.n < a.n + 1
  <2>1. SUFFICES ASSUME NEW c \in rows, c.bid = a.bid PROVE c.n < a.n + 1
    OBVIOUS
  <2>2. c.n \in Nat
    BY DEF IInv, Typed, Actions, ConstantsOK
  <2>3. c = a \/ c.n < a.n
    BY <2>1, RunningFacts
  <2> QED
    BY <1>2, <2>2, <2>3
<1>12. Typed'
  <2>1. bid' \in [Bids -> BidStates]
    BY <1>2 DEF IInv, Typed, BidStates
  <2>2. handled' \in SUBSET (Bids \X (1..MaxSteps)) /\ rows' \in SUBSET Actions
    BY <1>1, <1>2, <1>4, <1>5 DEF IInv, Typed
  <2> QED
    BY <1>1, <2>1, <2>2, RanBatch DEF IInv, Typed
<1>13. <<a.bid, 1>> \in H
  <2>1. a.n = 1 \/ a.n > 1
    BY <1>2
  <2> QED
    BY <2>1, RunningFacts
<1>14. Chain(rows', bid', handled')
  <2>1. ASSUME NEW c \in Open(rows', H)
        PROVE  /\ bid'[c.bid] = IF c.n = 1 THEN "delaying" ELSE "going"
               /\ c.n > 1 => <<c.bid, 1>> \in H
               /\ \A n \in 1..MaxSteps : <<c.bid, n>> \in H => n < c.n
               /\ \A e \in rows' : e.bid = c.bid => e = c \/ e.n < c.n
    <3>1. CASE c = f
      <4>1. c.n # 1 /\ c.n = a.n + 1 /\ c.bid = a.bid
        BY <1>2, <1>4, <3>1
      <4> QED
        BY <1>5, <1>6, <1>8, <1>11, <1>13, <3>1, <4>1
    <3>2. CASE c \in Open(rows, H)
      <4>1. c \in Open(rows, handled) /\ c.bid \in Bids /\ c.bid # a.bid
        BY <1>7, <3>2
      <4> QED
        BY <1>4, <1>5, <1>6, <4>1 DEF IInv, Chain
    <3> QED
      BY <1>10, <3>1, <3>2
  <2>2. \A b \in Bids, n \in 1..MaxSteps : <<b, n>> \in H => <<b, 1>> \in H
    BY <1>13 DEF IInv, Chain
  <2>3. ASSUME DelaysPositive, NEW b \in Bids, bid'[b] \in {"delaying", "going"}
        PROVE  \E c \in Open(rows', H) : c.bid = b
    <3>1. CASE b = a.bid
      BY <1>4, <1>10, <3>1
    <3>2. CASE b # a.bid
      BY <1>6, <1>7, <1>10, <2>3, <3>2 DEF IInv, Chain
    <3> QED
      BY <3>1, <3>2
  <2> QED
    BY <1>1, <2>1, <2>2, <2>3 DEF Chain
<1>15. Idle' /\ InBatch'
  <2>1. /\ batch'.now = batch.now /\ batch'.todo = batch.todo \ {a}
        /\ batch'.retry = batch.retry /\ batch' # NoBatch
    BY <1>1, RanBatch
  <2>2. /\ batch # NoBatch /\ a.at <= batch.now /\ a \notin batch.retry /\ a \in rows
        /\ batch.now \in Nat /\ batch.now <= time
    BY RunningFacts
  <2>3. DelaysPositive => f.at > batch.now
    BY <1>3, <1>4, <2>2
  <2>4. rows' \ Open(rows', H) = (rows \ Open(rows, handled)) \cup {a}
    <3>1. f \in Open(rows', H)
      BY <1>10
    <3>2. a \notin Open(rows', H)
      BY <1>5, <1>7, <1>9, <1>10 DEF Open
    <3>3. f \notin rows \ Open(rows, handled)
      <4>1. SUFFICES ASSUME f \in rows PROVE FALSE
        OBVIOUS
      <4>2. f.n < a.n + 1
        BY <1>4, <1>11, <4>1
      <4> QED
        BY <1>2, <1>4, <4>2
    <3> QED
      BY <1>5, <1>7, <1>10, <2>2, <3>1, <3>2, <3>3
  <2>5. \A c \in rows' \ Open(rows', H) : c.at <= batch.now
    BY <2>2, <2>4 DEF IInv, InBatch
  <2>6. DelaysPositive => \A c \in Open(rows', H) : c.at > batch'.now \/ c \in batch'.todo \cup batch'.retry
    BY <1>7, <1>10, <2>1, <2>2, <2>3 DEF IInv, InBatch
  <2>7. batch'.todo \cup batch'.retry \subseteq Open(rows', H)
    BY <1>7, <1>10, <2>1, <2>2 DEF IInv, InBatch
  <2>8. /\ batch'.now \in 0..time' /\ batch'.todo \cap batch'.retry = {}
        /\ \A c \in batch'.todo \cup batch'.retry : c.at <= batch'.now
    BY <1>1, <2>1, <2>2 DEF IInv, InBatch
  <2> QED
    BY <1>1, <2>1, <2>5, <2>6, <2>7, <2>8 DEF Idle, InBatch
<1> QED
  BY <1>1, <1>12, <1>14, <1>15 DEF IInv, SavedSound

\* A handler that succeeds ends the protocol or queues its next action.
LEMMA RunDoneStep ==
    ASSUME ConstantsOK, IInv, NEW a \in batch.todo, RunDone(a)
    PROVE  IInv'
<1>1. CASE bid' = [bid EXCEPT ![a.bid] = "ended"] /\ rows' = rows
  <2>1. "ended" \in BidStates \ {"delaying", "going"}
    BY DEF BidStates
  <2> QED
    BY <1>1, <2>1, EndsStep DEF RunDone
<1>2. CASE /\ a.n < MaxSteps
           /\ \E d \in Delays :
                time + d <= MaxTime /\ rows' = rows \cup {NewAction(a.bid, a.n + 1, d)}
           /\ bid' = [bid EXCEPT ![a.bid] = "going"]
  BY <1>2, RunOnStep
<1> QED
  BY <1>1, <1>2 DEF RunDone

-----------------------------------------------------------------------------
\* The theorems.

\* Every step keeps the invariant.
LEMMA InvStep ==
    ASSUME ConstantsOK, IInv, [Next]_vars
    PROVE  IInv'
<1>1. CASE UNCHANGED vars
  BY <1>1 DEF vars, IInv, Typed, SavedSound, Idle, InBatch
<1> QED
  BY <1>1, TickStep, QueueAcceptStep, DeactivateStep, BeginBatchStep, RunDoneStep,
     RunRetryStep, RunFailsStep, EndBatchStep, RollBackStep DEF Next

\* The invariant always holds.
LEMMA InvHolds ==
    ASSUME ConstantsOK
    PROVE  Spec => []IInv
<1>1. Init => IInv
  BY InvInit
<1>2. IInv /\ [Next]_vars => IInv'
  BY InvStep
<1> QED
  BY <1>1, <1>2, PTL DEF Spec

\* Every variable keeps its type.
THEOREM TypeCorrect ==
    ASSUME ConstantsOK
    PROVE  Spec => []TypeOK
<1>1. IInv => TypeOK
  <2> SUFFICES ASSUME IInv PROVE TypeOK
    OBVIOUS
  <2>1. DOMAIN batch = DOMAIN NoBatch
    BY DEF IInv, Typed, NoBatch
  <2> QED
    BY <2>1 DEF IInv, Typed, TypeOK
<1> QED
  BY <1>1, InvHolds, PTL

\* No row is left in the queue whose handler has ended, whatever was retried,
\* failed or rolled back: checkQueuedActions runs no action twice.
THEOREM NothingRunsTwice ==
    ASSUME ConstantsOK
    PROVE  Spec => []RunsOnce
<1>1. IInv => RunsOnce
  BY DEF IInv, Idle, Open, RunsOnce
<1> QED
  BY <1>1, InvHolds, PTL

\* A bid that waits for an action has one in the queue, as long as no delay is
\* zero: the delete by time at the end of checkQueuedActions spares what a handler
\* of the batch queued.
THEOREM NothingIsLost ==
    ASSUME ConstantsOK, DelaysPositive
    PROVE  Spec => []NoActionLost
<1>1. IInv => NoActionLost
  <2> SUFFICES ASSUME IInv, NEW b \in Bids, bid[b] \in {"delaying", "going"}, batch = NoBatch
               PROVE  \E a \in rows : a.bid = b /\ <<b, a.n>> \notin handled
    BY DEF NoActionLost
  <2>1. PICK a \in Open(rows, handled) : a.bid = b
    BY DEF IInv, Chain
  <2> QED
    BY <2>1 DEF Open
<1> QED
  BY <1>1, InvHolds, PTL
=============================================================================
