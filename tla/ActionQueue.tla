----------------------------- MODULE ActionQueue -----------------------------
(***************************************************************************)
(* The queue of delayed actions (table actions): createActionInSession     *)
(* adds a row with a trigger time, checkQueuedActions runs every due row   *)
(* in one database session and clears the queue by trigger time, keeping   *)
(* the rows whose handler asked for a retry.  The clock moves while the    *)
(* batch runs.  A handler may queue a follow-up, in the same session.      *)
(***************************************************************************)
EXTENDS Integers, FiniteSets

CONSTANTS
    Bids,       \* the bids actions are linked to
    Delays,     \* the delays a handler may ask for, in clock units
    MaxTime,    \* bound of the clock
    MaxSteps,   \* bound: actions of one bid, first to last
    MaxErrors   \* bound: transient errors, rollbacks and restarts

\* What is assumed of the constants.
ConstantsOK ==
    /\ Delays \subseteq Nat /\ Delays # {}
    /\ MaxTime \in Nat /\ MaxSteps \in Nat \ {0} /\ MaxErrors \in Nat

VARIABLES
    time,     \* getTime()
    rows,     \* the active rows of the table actions, as the open session sees them
    bid,      \* bid[b]: "waiting", "delaying", "going", "ended" or "error"
    batch,    \* NoBatch, or what the running checkQueuedActions holds
    handled,  \* the actions whose handler ended, with success or a lasting error
    saved,    \* rows, bid and handled at the last commit
    errors    \* transient errors, rollbacks and restarts so far

vars == <<time, rows, bid, batch, handled, saved, errors>>

\* An action is named by its bid and its number in the chain of that bid; the
\* first one accepts the bid.
Actions == [bid : Bids, n : 1..MaxSteps, at : 0..MaxTime]

NoBatch == [now |-> 0 - 1, todo |-> {}, retry |-> {}]

Committed == [rows |-> rows, bid |-> bid, handled |-> handled]

BidStates == {"waiting", "delaying", "going", "ended", "error"}

TypeOK ==
    /\ time \in 0..MaxTime
    /\ rows \subseteq Actions
    /\ bid \in [Bids -> BidStates]
    /\ DOMAIN batch = DOMAIN NoBatch /\ batch.now \in -1..MaxTime
    /\ batch.todo \subseteq Actions /\ batch.retry \subseteq Actions
    /\ handled \subseteq Bids \X (1..MaxSteps)
    /\ saved.rows \subseteq Actions /\ saved.bid \in [Bids -> BidStates]
    /\ saved.handled \subseteq Bids \X (1..MaxSteps)
    /\ errors \in 0..MaxErrors

Init ==
    /\ time = 0
    /\ rows = {}
    /\ bid = [b \in Bids |-> "waiting"]
    /\ batch = NoBatch
    /\ handled = {}
    /\ saved = Committed
    /\ errors = 0

\* createActionInSession: the row is due delay after the clock's time now.
NewAction(b, n, delay) == [bid |-> b, n |-> n, at |-> time + delay]

\* Several rows of one bid: countQueuedActions.
CountQueued(b) == Cardinality({a \in rows : a.bid = b})

\* The clock, which also moves while a batch runs.
Tick ==
    /\ time < MaxTime
    /\ time' = time + 1
    /\ UNCHANGED <<rows, bid, batch, handled, saved, errors>>

\* A bid is received and the strategy accepts it later.  A message is handled
\* in a session of its own, never inside a batch: the session holds the lock.
QueueAccept(b) ==
    /\ batch = NoBatch
    /\ bid[b] = "waiting"
    /\ <<b, 1>> \notin handled
    /\ \E d \in Delays :
        /\ time + d <= MaxTime
        /\ rows' = rows \cup {NewAction(b, 1, d)}
    /\ bid' = [bid EXCEPT ![b] = "delaying"]
    /\ UNCHANGED <<time, batch, handled, errors>>
    /\ saved' = Committed'

\* checkQueuedActions reads the clock once and fetches the rows that are due.
BeginBatch ==
    /\ batch = NoBatch
    /\ \E a \in rows : a.at <= time
    /\ batch' = [now |-> time, todo |-> {a \in rows : a.at <= time}, retry |-> {}]
    /\ UNCHANGED <<time, rows, bid, handled, saved, errors>>

\* A fetched action is the next to run.
Running(a) == a \in batch.todo

Ran(a) == [batch EXCEPT !.todo = @ \ {a}]

\* The handler succeeds: the bid moves on and the next action of the protocol
\* is queued, or the swap is over.
RunDone(a) ==
    /\ Running(a)
    /\ batch' = Ran(a)
    /\ handled' = handled \cup {<<a.bid, a.n>>}
    /\ \/ /\ a.n < MaxSteps
          /\ \E d \in Delays :
              /\ time + d <= MaxTime
              /\ rows' = rows \cup {NewAction(a.bid, a.n + 1, d)}
          /\ bid' = [bid EXCEPT ![a.bid] = "going"]
       \/ /\ a.n = MaxSteps
          /\ bid' = [bid EXCEPT ![a.bid] = "ended"]
          /\ rows' = rows
    /\ UNCHANGED <<time, saved, errors>>

\* The handler raises TemporaryError, or an error that isBidTransientError
\* takes for one: the row is kept for the next call.
RunRetry(a) ==
    /\ Running(a)
    /\ errors < MaxErrors
    /\ errors' = errors + 1
    /\ batch' = [Ran(a) EXCEPT !.retry = @ \cup {a}]
    /\ UNCHANGED <<time, rows, bid, handled, saved>>

\* The handler raises any other error: the bid is set to BID_ERROR, except
\* that a bid that could not be accepted goes back to its earlier state when no
\* other action of it is queued.
RunFails(a) ==
    /\ Running(a)
    /\ batch' = Ran(a)
    /\ handled' = handled \cup {<<a.bid, a.n>>}
    /\ bid' = [bid EXCEPT ![a.bid] =
                 IF a.n > 1 THEN "error"
                 ELSE IF CountQueued(a.bid) < 2 /\ @ = "delaying" THEN "waiting"
                 ELSE @]
    /\ UNCHANGED <<time, rows, saved, errors>>

\* Mutant: the clock is read again for the delete.
ClearedLate == {a \in rows : a.at > time \/ a \in batch.retry}

\* Mutant: the retried rows are deleted too.
ClearedAll == {a \in rows : a.at > batch.now}

\* Mutant: what is due at the very second of the batch is kept.
ClearedBefore == {a \in rows : a.at >= batch.now \/ a \in batch.retry}

\* The rows left by the delete at the end of the batch.
Cleared == {a \in rows : a.at > batch.now \/ a \in batch.retry}

\* The queue is cleared of what was due when the batch began, and the session
\* is committed.
EndBatch ==
    /\ batch # NoBatch
    /\ batch.todo = {}
    /\ rows' = Cleared
    /\ batch' = NoBatch
    /\ UNCHANGED <<time, bid, handled, errors>>
    /\ saved' = Committed'

\* The process dies in the batch, or an error leaves the session: it is rolled
\* back, and handleSessionErrors or the restart loads the bids from the database.
RollBack ==
    /\ batch # NoBatch
    /\ errors < MaxErrors
    /\ errors' = errors + 1
    /\ rows' = saved.rows
    /\ bid' = saved.bid
    /\ handled' = saved.handled
    /\ batch' = NoBatch
    /\ UNCHANGED <<time, saved>>

\* deactivateBid removes the actions of a bid that ended without them: it was
\* abandoned, or the chain showed its end.  Never inside a batch.
Deactivate(b) ==
    /\ batch = NoBatch
    /\ bid[b] \in {"delaying", "going"}
    /\ bid' = [bid EXCEPT ![b] = "ended"]
    /\ rows' = {a \in rows : a.bid # b}
    /\ UNCHANGED <<time, batch, handled, errors>>
    /\ saved' = Committed'

Next ==
    \/ Tick
    \/ \E b \in Bids : QueueAccept(b) \/ Deactivate(b)
    \/ BeginBatch
    \/ \E a \in batch.todo : RunDone(a) \/ RunRetry(a) \/ RunFails(a)
    \/ EndBatch
    \/ RollBack

Spec == Init /\ [][Next]_vars

-----------------------------------------------------------------------------
\* A bid that waits for an action has one: a bid in SWAP_DELAYING has its accept
\* queued, and one under way has a row that no handler has ended yet.  A handler
\* that queues its follow-up while the batch it runs in is cleared, a retry and a
\* rolled back session must not lose it.
NoActionLost ==
    \A b \in Bids : bid[b] \in {"delaying", "going"} /\ batch = NoBatch =>
        \E a \in rows : a.bid = b /\ <<b, a.n>> \notin handled

\* No action is left in the queue once its handler ended: it would run twice.
RunsOnce ==
    batch = NoBatch => \A a \in rows : <<a.bid, a.n>> \notin handled

\* The row of the n-th action of bid b is committed.
Queued(b, n) == \E a \in saved.rows : a.bid = b /\ a.n = n

\* The action was run to an end in a committed batch, or its bid ended before.
EndedOrRan(b, n) == <<b, n>> \in saved.handled \/ bid[b] \in {"ended", "error"}
=============================================================================
