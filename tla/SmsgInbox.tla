------------------------------ MODULE SmsgInbox ------------------------------
(***************************************************************************)
(* Reading the secure-message inbox of the Particl daemon: the scan of     *)
(* unread messages in start, the ZMQ queue (update, processZmqSmsg), the   *)
(* polling of updateNetwork, and the removal of expired messages           *)
(* (expireMessages).                                                       *)
(*                                                                         *)
(* "smsginbox unread" returns the unread messages in the order of the      *)
(* store and sets read those it could decrypt. A message to a wallet key   *)
(* does not decrypt while the wallet is locked, one to an unknown key      *)
(* never does.                                                             *)
(***************************************************************************)
EXTENDS FiniteSets, Naturals, SequencesExt

CONSTANTS Msg,        \* messages
          Foreign,    \* messages that never decrypt
          Limit,      \* smsg_rpc_bulk_limit
          Zmq, Poll,  \* zmq_queue_enabled, poll_smsg
          MaxLocks,   \* bound: times the wallet is locked
          MaxFails,   \* bound: RPC calls that fail, crashes of the program
          MaxPasses   \* bound: passes of expireMessages

\* What is assumed of the constants.
ConstantsOK ==
    /\ IsFiniteSet(Msg) /\ Foreign \subseteq Msg /\ Limit \in Nat \ {0}
    /\ Zmq \in BOOLEAN /\ Poll \in BOOLEAN /\ MaxLocks \in Nat /\ MaxFails \in Nat
    /\ MaxPasses \in Nat

VARIABLES inbox,      \* the store of the daemon, in its order
          arrived,    \* history: messages that were ever stored
          before,     \* history: those stored before this run subscribed
          read,       \* messages whose status is read
          expired,    \* messages past their time to live
          locked,     \* the wallet is locked
          queue,      \* notifications waiting in the ZMQ socket
          pc,         \* "down", "scan", "run" or "expire"
          page,       \* messages returned by smsginbox and not yet processed
          offset, now, \* of the loop that runs: options["offset"]; those expired at its start
          processed,  \* messages given to processMsg with their content
          missed,     \* history: notifications whose message did not decrypt or load
          struck,     \* history: messages of a page that a crash cut short
          veiled,     \* history of this run: the wallet was locked during the scan
          kept,       \* history of this pass: a deletion failed
          locks, fails, passes

run == <<pc, page, offset, now>>
history == <<before, missed, struck, veiled, kept>>
vars == <<inbox, arrived, before, read, expired, locked, queue, pc, page, offset, now,
          processed, missed, struck, veiled, kept, locks, fails, passes>>

Stored == ToSet(inbox)

TypeOK ==
    /\ Stored \subseteq arrived /\ arrived \subseteq Msg /\ read \subseteq arrived \ Foreign
    /\ expired \subseteq arrived /\ before \subseteq arrived /\ processed \subseteq arrived
    /\ ToSet(queue) \subseteq arrived /\ (queue # <<>> => Zmq /\ pc # "down")
    /\ pc \in {"down", "scan", "run", "expire"} /\ offset \in 0..Cardinality(Msg)
    /\ ToSet(page) \subseteq arrived /\ now \subseteq arrived
    /\ missed \subseteq arrived /\ struck \subseteq arrived
    /\ \A b \in {locked, veiled, kept} : b \in BOOLEAN
    /\ locks \in 0..MaxLocks /\ fails \in 0..MaxFails /\ passes \in 0..MaxPasses

Init ==
    /\ inbox = <<>> /\ arrived = {} /\ before = {} /\ read = {} /\ expired = {}
    /\ locked = FALSE /\ queue = <<>> /\ pc = "down" /\ page = <<>> /\ offset = 0
    /\ now = {} /\ processed = {} /\ missed = {} /\ struck = {} /\ veiled = FALSE
    /\ kept = FALSE /\ locks = 0 /\ fails = 0 /\ passes = 0

Decrypts(m) == m \notin Foreign /\ ~locked

\* One page of a list: max_results entries from the offset on.
PageAt(list, from) ==
    SubSeq(list, from + 1, IF from + Limit < Len(list) THEN from + Limit ELSE Len(list))

Unread == SelectSeq(inbox, LAMBDA m : m \notin read)

-----------------------------------------------------------------------------
(* The daemon, the clock and the user (external).                          *)

\* A message is stored, and announced if the program listens.
Arrive(m) ==
    /\ m \notin arrived
    /\ inbox' = Append(inbox, m) /\ arrived' = arrived \cup {m}
    /\ queue' = IF Zmq /\ pc # "down" THEN Append(queue, m) ELSE queue
    /\ UNCHANGED <<read, expired, locked, run, processed, history, locks, fails, passes>>

Lapse(m) ==
    /\ MaxPasses > 0 /\ m \in Stored \ expired
    /\ expired' = expired \cup {m}
    /\ UNCHANGED <<inbox, arrived, read, locked, queue, run, processed, history, locks,
                   fails, passes>>

\* lockWallets and unlockWallets: the queue is not read meanwhile.
ToggleLock ==
    /\ pc \in {"scan", "run"} /\ page = <<>>
    /\ locked \/ locks < MaxLocks
    /\ locked' = ~locked /\ locks' = IF locked THEN locks ELSE locks + 1
    /\ veiled' = (veiled \/ pc = "scan")
    /\ UNCHANGED <<inbox, arrived, before, read, expired, queue, run, processed, missed,
                   struck, kept, fails, passes>>

-----------------------------------------------------------------------------
(* start: subscribe, then scan the unread messages page by page.           *)

StartNetworks ==
    /\ pc = "down"
    /\ pc' = "scan" /\ offset' = 0 /\ before' = arrived /\ veiled' = locked
    /\ UNCHANGED <<inbox, arrived, read, expired, locked, queue, page, now, processed,
                   missed, struck, kept, locks, fails, passes>>

\* "smsginbox unread": a page is returned and what decrypted is set read.
SetRead(msgs) == read' = read \cup {m \in ToSet(msgs) : Decrypts(m)}

\* Mutant: an exception of the first handler ends the loop over the page.
ProcessMsgFirst(msgs) == processed' = processed \cup {m \in {msgs[1]} : Decrypts(m)}

\* processMsg: a message without content is dropped, any other one is handed to its
\* handler; an exception of the handler is logged.
ProcessMsg(msgs) == processed' = processed \cup {m \in ToSet(msgs) : Decrypts(m)}

ScanRead ==
    /\ pc = "scan" /\ page = <<>> /\ PageAt(Unread, offset) # <<>>
    /\ page' = PageAt(Unread, offset)
    /\ SetRead(page')
    /\ UNCHANGED <<inbox, arrived, expired, locked, queue, pc, offset, now, processed,
                   history, locks, fails, passes>>

\* Mutant: the offset moves past every message of the page.
ScanOffsetAll(msgs) == offset + Len(msgs)

\* Mutant: the offset stays.
ScanOffsetNone(msgs) == offset

\* Only messages that were not set read are in the next list again.
ScanOffset(msgs) == offset + Cardinality({m \in ToSet(msgs) : ~Decrypts(m)})

ScanPage ==
    /\ pc = "scan" /\ page # <<>>
    /\ ProcessMsg(page) /\ offset' = ScanOffset(page)
    /\ pc' = IF Len(page) < Limit THEN "run" ELSE "scan"
    /\ page' = <<>>
    /\ UNCHANGED <<inbox, arrived, read, expired, locked, queue, now, history, locks,
                   fails, passes>>

\* An empty page ends the scan.
ScanDone ==
    /\ pc = "scan" /\ page = <<>> /\ PageAt(Unread, offset) = <<>>
    /\ pc' = "run"
    /\ UNCHANGED <<inbox, arrived, read, expired, locked, queue, page, offset, now,
                   processed, history, locks, fails, passes>>

-----------------------------------------------------------------------------
(* update: the ZMQ queue and the polling.                                  *)

\* Mutant: the message is set read and dropped when the handler has not had it.
ProcessZmqSmsgDrops(m) ==
    read' = (IF m \in Foreign THEN read ELSE read \cup {m}) /\ UNCHANGED <<processed, missed>>

\* processZmqSmsg: the message is fetched, with its status set read if it decrypts,
\* and given to processMsg.
ProcessZmqSmsg(m) ==
    IF m \in Stored /\ Decrypts(m)
    THEN read' = read \cup {m} /\ ProcessMsg(<<m>>) /\ UNCHANGED missed
    ELSE missed' = missed \cup {m} /\ UNCHANGED <<read, processed>>

ReadQueue ==
    /\ pc = "run" /\ page = <<>> /\ queue # <<>>
    /\ ProcessZmqSmsg(Head(queue))
    /\ queue' = Tail(queue)
    /\ UNCHANGED <<inbox, arrived, before, expired, locked, run, struck, veiled, kept,
                   locks, fails, passes>>

\* The RPC fails, also after its retries: the exception ends the reading of the
\* queue for this update and the notification is lost.
ReadQueueFails ==
    /\ pc = "run" /\ page = <<>> /\ queue # <<>> /\ fails < MaxFails
    /\ missed' = missed \cup {Head(queue)} /\ queue' = Tail(queue) /\ fails' = fails + 1
    /\ UNCHANGED <<inbox, arrived, before, read, expired, locked, run, processed, struck,
                   veiled, kept, locks, passes>>

\* updateNetwork: the first page of the unread messages, and no other.
PollSmsg ==
    /\ Poll /\ pc = "run" /\ page = <<>> /\ PageAt(Unread, 0) # <<>>
    /\ page' = PageAt(Unread, 0)
    /\ SetRead(page')
    /\ UNCHANGED <<inbox, arrived, expired, locked, queue, pc, offset, now, processed,
                   history, locks, fails, passes>>

PollProcess ==
    /\ pc = "run" /\ page # <<>>
    /\ ProcessMsg(page) /\ page' = <<>>
    /\ UNCHANGED <<inbox, arrived, read, expired, locked, queue, pc, offset, now, history,
                   locks, fails, passes>>

-----------------------------------------------------------------------------
(* expireMessages: a pass over all messages, page by page.                 *)

ExpireStart ==
    /\ pc = "run" /\ page = <<>> /\ ~locked /\ passes < MaxPasses
    /\ pc' = "expire" /\ offset' = 0 /\ now' = expired /\ kept' = FALSE
    /\ passes' = passes + 1
    /\ UNCHANGED <<inbox, arrived, before, read, expired, locked, queue, page, processed,
                   missed, struck, veiled, locks, fails>>

\* Mutant: the offset moves past the whole page, also past what was removed.
NextOffsetAll(msgs, removed) == offset + Len(msgs)

\* options["offset"] += len(inbox_messages) - loop_removed
NextOffset(msgs, removed) == offset + Len(msgs) - Cardinality(removed)

\* remove_if_expired on every message of the page; a deletion that fails is logged.
ExpirePage ==
    /\ pc = "expire"
    /\ LET msgs == PageAt(inbox, offset)
           due  == ToSet(msgs) \cap now
       IN \E removed \in {due} \cup {due \ {m} : m \in due} :
            /\ removed # due => fails < MaxFails
            /\ fails' = IF removed # due THEN fails + 1 ELSE fails
            /\ kept' = (kept \/ removed # due)
            /\ inbox' = SelectSeq(inbox, LAMBDA m : m \notin removed)
            /\ offset' = NextOffset(msgs, removed)
            /\ pc' = IF Len(msgs) < Limit THEN "run" ELSE "expire"
    /\ UNCHANGED <<arrived, before, read, expired, locked, queue, page, now, processed,
                   missed, struck, veiled, locks, passes>>

\* The program is killed; the daemon goes on.
Crash ==
    /\ pc # "down" /\ fails < MaxFails
    /\ pc' = "down" /\ queue' = <<>> /\ page' = <<>> /\ struck' = struck \cup ToSet(page)
    /\ fails' = fails + 1
    /\ UNCHANGED <<inbox, arrived, before, read, expired, locked, offset, now, processed,
                   missed, veiled, kept, locks, passes>>

Program ==
    \/ StartNetworks \/ ScanRead \/ ScanPage \/ ScanDone \/ ReadQueue
    \/ PollSmsg \/ PollProcess \/ ExpirePage

Next ==
    \/ Program \/ ExpireStart \/ ReadQueueFails \/ Crash \/ ToggleLock
    \/ \E m \in Msg : Arrive(m) \/ Lapse(m)

Spec == Init /\ [][Next]_vars

-----------------------------------------------------------------------------
(* Properties.                                                             *)

\* A message is set read only when it was handed to processMsg, is about to be, or a
\* crash came between the two: nothing else is lost for the next scan (smsginbox
\* with updatestatus in start, updateNetwork and processZmqSmsg).
ReadIsProcessed == read \subseteq processed \cup ToSet(page) \cup struck

\* When the scan of start is over, what was stored before the program listened and
\* decrypts has been processed, whatever undecrypted messages lie between.
ScanComplete ==
    pc = "run" /\ ~veiled
        => (before \cap Stored) \ Foreign \subseteq processed \cup struck

\* While the program runs, a stored message that was not processed is still
\* announced, or its notification was spent while it could not be read.
NoneForgotten ==
    Zmq /\ pc = "run" /\ ~veiled
        => Stored \ Foreign \subseteq processed \cup ToSet(page) \cup ToSet(queue)
                                     \cup missed \cup struck

\* A pass in which no deletion failed removes all that had expired when it began,
\* and no message that has not expired is ever removed (expireMessages).
PassRemovesAll ==
    /\ arrived \ Stored \subseteq expired
    /\ pc = "run" /\ passes > 0 /\ ~kept /\ fails = 0 => now \cap Stored = {}

\* Message m was processed, or removed as expired, or lost with a notification or to a
\* crash.
Handled(m) == m \in processed \cup missed \cup struck \/ m \notin Stored
=============================================================================
