------------------------------ MODULE PeerLink ------------------------------
(***************************************************************************)
(* The peer to peer link of basicswap/network/network.py: node "a" dials   *)
(* node "b", sends a handshake, b answers with a ping that carries its     *)
(* version, and from then on both sides exchange pings and pongs.          *)
(*                                                                         *)
(* Every message is encrypted under the session's key with a nonce that is *)
(* hashed forward by each message, so a side that misses one message can   *)
(* decrypt none of the later ones.  A nonce is modelled by its position in *)
(* the chain of its direction.  The TCP stream is a sequence of units:     *)
(* a message is MsgUnits units, the first of which holds its header, and a *)
(* read returns any non empty prefix of what arrived.                      *)
(***************************************************************************)
EXTENDS Naturals, SequencesExt

CONSTANTS
  MaxSessions,   \* bound on the connections a makes
  MaxPings,      \* bound on the pings of a side in one connection
  MsgUnits,      \* units of a message on the wire
  SplitReads,    \* TRUE: a read may end inside a message
  Faults         \* handshakes that b refuses, "time" and "mac", besides "none"

\* What is assumed of the constants.
ConstantsOK ==
    /\ MaxSessions \in Nat \ {0} /\ MaxPings \in Nat /\ MsgUnits \in Nat \ {0, 1}
    /\ SplitReads \in BOOLEAN /\ Faults \subseteq {"none", "time", "mac"}

Sides == {"a", "b"}

Other(s) == IF s = "a" THEN "b" ELSE "a"

VARIABLES
  peer,      \* side -> its Peer object of the link, or NoPeer
  wire,      \* side -> the units that travel to it
  listening, \* connections a opened that b has not accepted
  session,   \* the number of connections so far, the ephemeral key of the last
  seen,      \* _seen_ephem_keys of b
  fault      \* what is wrong with the handshake of this session

vars == <<peer, wire, listening, session, seen, fault>>

NoPeer == [id |-> 0]

\* Peer.__init__: no keys yet, not ready, no message being received.
NewPeer(id) ==
  [id |-> id, ready |-> FALSE, key |-> 0, sent |-> 0, recv |-> 0, pinged |-> FALSE,
   pings |-> 0, version |-> FALSE, rlen |-> 0, rbuf |-> << >>, queue |-> << >>]

Messages ==
  [kind : {"handshake", "ping", "pong"}, key : 1..MaxSessions, n : Nat, version : BOOLEAN]

(***************************************************************************)
(* Sending                                                                 *)
(***************************************************************************)
\* send_msg: the framed message is written to the socket whole.
Packed(m) == [i \in 1..MsgUnits |-> [msg |-> m, i |-> i]]

\* A write to a connection whose other end is gone is lost.
SendTo(s, m) ==
  wire' = [wire EXCEPT ![s] = IF peer[s] = NoPeer THEN @ ELSE @ \o Packed(m)]

\* Mutant: the dialling side counts itself ready once its handshake is sent.
SendHandshakeReady(p, id) ==
  [p EXCEPT !.key = id, !.sent = 1, !.recv = 0, !.ready = TRUE, !.queue = << >>]

\* send_handshake: a new ephemeral key gives the session key, the nonce of the
\* next message is derived from the handshake's mac, the receive chain starts
\* from the key, and the side waits for the peer to complete the handshake.
SendHandshake(p, id) ==
  [p EXCEPT !.key = id, !.sent = 1, !.recv = 0, !.ready = FALSE, !.queue = << >>]

\* add_connection: connect, register the peer and send the handshake.
AddConnection ==
  /\ peer["a"] = NoPeer /\ peer["b"] = NoPeer /\ ~listening
  /\ session < MaxSessions
  /\ session' = session + 1
  /\ listening' = TRUE
  /\ fault' \in Faults
  /\ LET id == session + 1 IN
       /\ peer' = [peer EXCEPT !["a"] = SendHandshake(NewPeer(id), id)]
       /\ wire' = [a |-> << >>, b |-> Packed([kind |-> "handshake", key |-> id, n |-> 0, version |-> TRUE])]
  /\ UNCHANGED seen

\* The listening socket is readable: accept registers an incoming peer.
Accept ==
  /\ listening
  /\ listening' = FALSE
  /\ peer' = [peer EXCEPT !["b"] = NewPeer(session)]
  /\ UNCHANGED <<wire, session, seen, fault>>

\* send_ping: encrypted under the send nonce, which moves on; the first ping
\* after a handshake carries the version.
Ping(s) ==
  /\ peer[s] # NoPeer /\ peer[s].ready
  /\ peer[s].pings < MaxPings
  /\ peer' = [peer EXCEPT ![s].sent = @ + 1, ![s].pinged = TRUE, ![s].pings = @ + 1]
  /\ SendTo(Other(s), [kind |-> "ping", key |-> peer[s].key, n |-> peer[s].sent,
                       version |-> ~peer[s].pinged])
  /\ UNCHANGED <<listening, session, seen, fault>>

(***************************************************************************)
(* Receiving                                                               *)
(***************************************************************************)
\* A message received to its full length is queued for msg_thread.
Put(st) ==
  IF st.rlen > 0 /\ Len(st.rbuf) = st.rlen
  THEN [st EXCEPT !.queue = Append(@, st.rbuf[1].msg), !.rlen = 0, !.togo = 0]
  ELSE st

\* receive_bytes, one unit: outside a message the unit must be a header, which
\* gives the length; inside one, a chunk of at most the missing length is cut
\* from the read and REPLACES what was received before.  An error drops the
\* rest of the read.
ReceiveUnit(st, u) ==
  IF st.error THEN st
  ELSE IF st.rlen = 0
    THEN IF u.i = 1
         THEN Put([st EXCEPT !.rlen = MsgUnits, !.rbuf = <<u>>, !.togo = MsgUnits - 1])
         ELSE [st EXCEPT !.error = TRUE]
    ELSE IF st.togo = 0
      THEN Put([st EXCEPT !.togo = st.rlen - Len(st.rbuf) - 1, !.rbuf = <<u>>])
      ELSE Put([st EXCEPT !.togo = @ - 1, !.rbuf = Append(@, u)])

\* receive_bytes on what one read returned.
ReceiveBytes(p, bytes) ==
  LET st == FoldLeft(ReceiveUnit,
                     [rlen |-> p.rlen, rbuf |-> p.rbuf, queue |-> p.queue,
                      togo |-> 0, error |-> FALSE],
                     bytes)
  IN  [p EXCEPT !.rlen = st.rlen, !.rbuf = st.rbuf, !.queue = st.queue]

\* listen_thread: the socket of s is readable and holds data.
Read(s) ==
  /\ peer[s] # NoPeer
  /\ \E k \in 1..Len(wire[s]) :
       /\ SplitReads \/ wire[s][k].i = MsgUnits
       /\ peer' = [peer EXCEPT ![s] = ReceiveBytes(@, SubSeq(wire[s], 1, k))]
       /\ wire' = [wire EXCEPT ![s] = SubSeq(@, k + 1, Len(@))]
  /\ UNCHANGED <<listening, session, seen, fault>>

(***************************************************************************)
(* msg_thread                                                              *)
(***************************************************************************)
\* Mutant: the handshake is accepted but the side does not count itself ready.
HandshakeNotReady(p, m) ==
  [p EXCEPT !.key = m.key, !.recv = 1, !.sent = 0, !.version = TRUE, !.pinged = FALSE]

\* The part of process_handshake after the checks: mirror the nonces of the
\* sender, learn its version and schedule the ping that completes the handshake.
HandshakeDone(p, m) ==
  [p EXCEPT !.key = m.key, !.recv = 1, !.sent = 0, !.version = TRUE,
            !.ready = TRUE, !.pinged = FALSE]

\* process_handshake: the queue is dumped; a stale timestamp or a reused
\* ephemeral key changes nothing else, a bad mac leaves the new keys behind.
ProcessHandshake(s, m) ==
  /\ m.kind = "handshake"
  /\ LET p    == [peer[s] EXCEPT !.queue = << >>]
         early == fault = "time" \/ m.key \in seen
     IN  /\ peer' = [peer EXCEPT ![s] = IF early THEN p
                                        ELSE IF fault = "mac" THEN [p EXCEPT !.key = m.key]
                                        ELSE HandshakeDone(p, m)]
         /\ seen' = IF early THEN seen ELSE seen \cup {m.key}
  /\ UNCHANGED wire

\* A ping or pong decrypts only under the session key and the expected nonce.
Decrypts(p, m) == m.key = p.key /\ m.n = p.recv

\* Mutant: the answer reuses the send nonce.
PongReusesNonce(p) == p

\* send_pong moves the send nonce on.
PongSent(p) == [p EXCEPT !.sent = @ + 1]

\* process_ping: a version completes the handshake on the dialling side; the
\* receive nonce moves on and a pong is sent.
ProcessPing(s, m) ==
  /\ m.kind = "ping"
  /\ LET p == [peer[s] EXCEPT !.queue = Tail(@)] IN
       IF Decrypts(p, m)
       THEN /\ peer' = [peer EXCEPT ![s] =
                         PongSent([p EXCEPT !.ready = @ \/ m.version,
                                            !.version = @ \/ m.version,
                                            !.recv = @ + 1])]
            /\ SendTo(Other(s), [kind |-> "pong", key |-> p.key, n |-> p.sent, version |-> FALSE])
       ELSE peer' = [peer EXCEPT ![s] = p] /\ UNCHANGED wire
  /\ UNCHANGED seen

\* process_pong: the receive nonce moves on.
ProcessPong(s, m) ==
  /\ m.kind = "pong"
  /\ LET p == [peer[s] EXCEPT !.queue = Tail(@)] IN
       peer' = [peer EXCEPT ![s] = IF Decrypts(p, m) THEN [p EXCEPT !.recv = @ + 1] ELSE p]
  /\ UNCHANGED <<wire, seen>>

\* process_message: one queued message of the peer; a due ping, and the first
\* one always is, goes out before it.
ProcessMessage(s) ==
  /\ peer[s] # NoPeer /\ peer[s].queue # << >>
  /\ ~(peer[s].ready /\ ~peer[s].pinged /\ peer[s].pings < MaxPings)
  /\ LET m == Head(peer[s].queue) IN
       ProcessHandshake(s, m) \/ ProcessPing(s, m) \/ ProcessPong(s, m)
  /\ UNCHANGED <<listening, session, fault>>

(***************************************************************************)
(* Connections end                                                         *)
(***************************************************************************)
\* The node of s closes its socket, as stopNetwork does.
Close(s) ==
  /\ peer[s] # NoPeer /\ ~listening
  /\ peer' = [peer EXCEPT ![s] = NoPeer]
  /\ wire' = [wire EXCEPT ![s] = << >>]
  /\ UNCHANGED <<listening, session, seen, fault>>

\* listen_thread reads nothing from a closed connection: disconnect.
Disconnect(s) ==
  /\ peer[s] # NoPeer /\ peer[Other(s)] = NoPeer /\ ~listening
  /\ wire[s] = << >>
  /\ peer' = [peer EXCEPT ![s] = NoPeer]
  /\ UNCHANGED <<wire, listening, session, seen, fault>>

Init ==
  /\ peer = [s \in Sides |-> NoPeer]
  /\ wire = [s \in Sides |-> << >>]
  /\ listening = FALSE
  /\ session = 0
  /\ seen = {}
  /\ fault = "none"

Next ==
  \/ AddConnection \/ Accept
  \/ \E s \in Sides : Ping(s) \/ Read(s) \/ ProcessMessage(s) \/ Close(s) \/ Disconnect(s)

Spec == Init /\ [][Next]_vars

(***************************************************************************)
(* Properties                                                              *)
(***************************************************************************)
\* The types; a read of whole messages leaves no message half received.
TypeOK ==
  /\ \A s \in Sides :
       peer[s] # NoPeer =>
         /\ peer[s].id \in 1..MaxSessions
         /\ peer[s].key \in 0..MaxSessions
         /\ peer[s].queue \in Seq(Messages)
         /\ Len(peer[s].rbuf) <= MsgUnits
         /\ peer[s].rlen \in IF SplitReads THEN {0, MsgUnits} ELSE {0}
  /\ listening \in BOOLEAN /\ session \in 0..MaxSessions
  /\ seen \subseteq 1..MaxSessions /\ fault \in {"none", "time", "mac"}

Linked == peer["a"] # NoPeer /\ peer["b"] # NoPeer /\ ~listening

\* The messages that s has still to process, oldest first.
Pending(s) == peer[s].queue \o [k \in 1..(Len(wire[s]) \div MsgUnits) |-> wire[s][k * MsgUnits].msg]

\* The nonce chains never drift apart: once b accepted the handshake, every
\* message on its way to a side carries exactly the nonce the side will expect
\* when it gets to it, and the sender's next nonce follows the last of them
\* (send_ping, send_pong, process_ping and process_pong each hash forward once).
NoncesAgree ==
  (Linked /\ peer["b"].ready) =>
    \A s \in Sides :
      /\ \A k \in 1..Len(Pending(s)) :
           Pending(s)[k].key = peer[s].key /\ Pending(s)[k].n = peer[s].recv + k - 1
      /\ peer[Other(s)].sent = peer[s].recv + Len(Pending(s))

\* The side that dialled counts the link ready only after the other one does:
\* a handshake that b refused never leaves a ready.
ReadyTogether == (Linked /\ peer["a"].ready) => peer["b"].ready

\* An accepted connection whose handshake is sound.
SoundLink == Linked /\ fault = "none"

\* It is ready on both sides, or one of them closed it ("Both nodes are
\* initialised").
LinkReady == ~Linked \/ (peer["a"].ready /\ peer["b"].ready)
=============================================================================
