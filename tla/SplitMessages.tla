---------------------------- MODULE SplitMessages ----------------------------
(***************************************************************************)
(* The proof of an adaptor-signature bid, or of its accept, is longer than *)
(* a message: its start travels in the bid (accept) message, the rest in   *)
(* numbered split messages.  Messages may be lost, doubled, delayed and    *)
(* reordered; parts may come before the message they belong to.  The       *)
(* receiver keeps the parts in xmr_split_data, and checkSplitMessages puts *)
(* them together, gives up, or forgets old parts.                          *)
(***************************************************************************)
EXTENDS Integers, FiniteSets, FiniteSetsExt

CONSTANTS
    SizeInit, SizePart,  \* msg_split_info: bytes in the first message, in a part
    ProofLen,            \* dleag_proof_len
    MaxChunks,           \* the greatest sequence number the receiver takes
    Ttl,                 \* ttl_xmr_split_messages
    MaxAge,              \* greatest age of the bid when its message is handled
    MaxCopies,           \* bound: deliveries of one message
    MaxTime              \* bound of the clock

\* What is assumed of the constants.
ConstantsOK ==
    /\ SizeInit \in Nat \ {0} /\ SizePart \in Nat \ {0} /\ ProofLen \in Nat
    /\ MaxChunks \in Nat /\ Ttl \in Nat /\ MaxAge \in Nat
    /\ MaxCopies \in Nat \ {0} /\ MaxTime \in Nat

VARIABLES
    time,      \* getTime() of the receiver
    sent,      \* the numbers sent so far, 0 for the bid or accept message
    copies,    \* copies[n]: deliveries of the message numbered n
    state,     \* the bid: "waiting", "receiving", "received" or "error"
    started,   \* when the bid became "receiving"
    created,   \* bid.created_at
    rows,      \* xmr_split_data: sequence, length and creation time of each row
    looked     \* checkSplitMessages ran at this time

vars == <<time, sent, copies, state, started, created, rows, looked>>

\* sendXmrSplitMessages: the rest of the proof in parts numbered from 1.
NumParts == (ProofLen - SizeInit + SizePart - 1) \div SizePart

Smaller(a, b) == IF a < b THEN a ELSE b

\* The length of part n; the last one is what is left.
PartLen(n) == Smaller(SizePart, ProofLen - SizeInit - (n - 1) * SizePart)

Numbers == 0..NumParts

TypeOK ==
    /\ time \in 0..MaxTime /\ started \in 0..MaxTime /\ created \in (-MaxAge)..MaxTime
    /\ sent \in -1..NumParts
    /\ copies \in [Numbers -> 0..MaxCopies]
    /\ state \in {"waiting", "receiving", "received", "error"}
    /\ \A r \in rows : r.seq \in 1..MaxChunks /\ r.len \in 1..SizePart /\ r.at \in 0..MaxTime
    /\ looked \in BOOLEAN

Init ==
    /\ time = 0 /\ started = 0 /\ created = 0
    /\ sent = -1
    /\ copies = [n \in Numbers |-> 0]
    /\ state = "waiting"
    /\ rows = {}
    /\ looked = FALSE

\* Mutant: an empty part is sent when the proof is.
SendPast ==
    /\ sent <= NumParts
    /\ sent' = sent + 1
    /\ UNCHANGED <<time, copies, state, started, created, rows, looked>>

\* The messages go out one after the other.
Send ==
    /\ sent < NumParts
    /\ sent' = sent + 1
    /\ UNCHANGED <<time, copies, state, started, created, rows, looked>>

Delivered(n) ==
    /\ n <= sent /\ copies[n] < MaxCopies
    /\ copies' = [copies EXCEPT ![n] = @ + 1]

\* processXmrBid, processXmrBidAccept: the message with the start of the proof.
\* created_at is the time a bid was sent; an accept leaves it as it was.
ReceiveFirst ==
    /\ Delivered(0)
    /\ state = "waiting"
    /\ state' = "receiving" /\ started' = time
    /\ \E age \in 0..MaxAge : created' = time - age
    /\ UNCHANGED <<time, sent, rows, looked>>

\* A second copy finds the bid in another state, which is an error.
ReceiveFirstAgain ==
    /\ Delivered(0)
    /\ state # "waiting"
    /\ UNCHANGED <<time, sent, state, started, created, rows, looked>>

\* Mutant: a part is stored again.
IsDuplicateNever(n) == FALSE

\* A row of the same bid, type, sequence number and sender exists.
IsDuplicate(n) == \E r \in rows : r.seq = n

\* Mutant: the upper limit is off by one.
InLimitsLess(n) == n < MaxChunks

\* The size and the sequence number the receiver takes.
InLimits(n) == n <= MaxChunks

\* processXmrSplitMessage: the part is stored, whatever state the bid is in.
ReceivePart(n) ==
    /\ n > 0 /\ Delivered(n)
    /\ rows' = IF ~InLimits(n) \/ IsDuplicate(n) THEN rows
               ELSE rows \cup {[seq |-> n, len |-> PartLen(n), at |-> time,
                                copy |-> copies[n]]}
    /\ UNCHANGED <<time, sent, state, started, created, looked>>

\* The bytes in hand.
TotalLen == SizeInit + MapThenSumSet(LAMBDA r : r.len, rows)

\* verifyDLEAG of the start and the rows in the order of their numbers.
ProofVerifies == {r.seq : r \in rows} = 1..NumParts /\ Cardinality(rows) = NumParts

\* Rows older than the limit are deleted.
Kept == {r \in rows : r.at + Ttl >= time}

\* Mutant: more bytes than the proof has are waited for.
CompleteMore == TotalLen > ProofLen

\* Enough bytes were received.
Complete == TotalLen >= ProofLen

\* Mutant: the limit is not applied.
TimedOutNever == FALSE

\* The bid is too old to wait any longer.
TimedOut == created + Ttl < time

\* checkSplitMessages, for one bid; then the old rows are deleted.
CheckSplitMessages ==
    /\ ~looked /\ looked' = TRUE
    /\ state' = IF state # "receiving" THEN state
                ELSE IF Complete THEN (IF ProofVerifies THEN "received" ELSE "error")
                ELSE IF TimedOut THEN "error" ELSE state
    /\ rows' = Kept
    /\ UNCHANGED <<time, sent, copies, started, created>>

\* update() looks at the split messages before the clock moves on.
Tick ==
    /\ looked /\ time < MaxTime
    /\ time' = time + 1 /\ looked' = FALSE
    /\ UNCHANGED <<sent, copies, state, started, created, rows>>

Next ==
    \/ Send \/ ReceiveFirst \/ ReceiveFirstAgain
    \/ \E n \in Numbers : ReceivePart(n)
    \/ CheckSplitMessages \/ Tick

\* The main loop runs; messages need not come.
Spec == Init /\ [][Next]_vars

-----------------------------------------------------------------------------
\* The parts put together are the proof that was sent: a bid only fails because
\* parts are missing, never because of doubled, reordered or early ones.
FailsOnlyByTime == state = "error" => created + Ttl < time

\* No part of an honest proof is refused: a node that also speaks Simplex splits
\* for the smaller messages of that network, and a receiver on SMSG counts with
\* the larger ones.
NoPartRefused ==
    \A n \in 1..NumParts : copies'[n] # copies[n] => n \in {r.seq : r \in rows'}

\* A bid whose parts are all stored when the receiver looks is received.
WholeIsReceived ==
    looked' /\ ~looked /\ state = "receiving" /\ {r.seq : r \in rows} = 1..NumParts
        => state' = "received"

\* The bid waits for parts, and the clock goes on for long enough.
PartsWait == state = "receiving" /\ MaxTime - time > Ttl + 1
=============================================================================
