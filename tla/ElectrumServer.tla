--------------------------- MODULE ElectrumServer ---------------------------
(***************************************************************************)
(* ElectrumServer and ElectrumConnection: the requests of the wallet's     *)
(* threads to one of several Electrum servers.  A call takes the lock,     *)
(* connects if there is no connection, sends a request and waits for the   *)
(* answer with its id, which a listener thread puts in the queue of that   *)
(* request.  A call that fails is tried once more after a reconnect.  A    *)
(* server that limits the rate, or lets five calls time out, is            *)
(* blacklisted for a while.                                                *)
(*                                                                         *)
(* Answers may come after the call gave up, sockets close under a waiting  *)
(* call, another thread disconnects or shuts down while a call is under    *)
(* way.  Payloads are left out: a request is known by its id, and an       *)
(* answer that comes after its request was given up is late.               *)
(***************************************************************************)
EXTENDS Integers, FiniteSets

CONSTANTS
    Servers,      \* the servers of the coin
    Healthy,      \* those that accept every connection and answer in time
    Callers,      \* the threads that make calls
    Pinger,       \* the keepalive thread
    Ids,          \* request ids, numbers from 1
    MaxTimeouts,  \* _max_consecutive_timeouts, 5 in the code
    Decays,       \* whether timeouts may lie more than 90 s apart
    Closes        \* whether a server may close a connection it accepted

\* What is assumed of the constants.
ConstantsOK ==
    /\ Servers # {} /\ Healthy \subseteq Servers
    /\ Pinger \notin Callers
    /\ MaxTimeouts \in Nat \ {0}
    /\ Decays \in BOOLEAN /\ Closes \in BOOLEAN

VARIABLES
    conn,         \* _connection: server, socket, flags and listener, or NoConn
    srv,          \* _current_server_idx
    lock,         \* who holds ElectrumServer._lock
    pc,           \* [thread -> where its call is]
    attempt,      \* [thread -> 0 or 1]
    todo,         \* [thread -> servers connect() has still to try]
    waiting,      \* the request the lock's holder waits for, or NoRequest
    wire,         \* answers under way on the open socket: id, late
    res,          \* [thread -> how its last call ended]
    black,        \* _server_blacklist
    timeouts,     \* _consecutive_timeouts
    stopping,     \* _stopping
    down          \* shutdown() has returned

vars == <<conn, srv, lock, pc, attempt, todo, waiting, wire, res, black,
          timeouts, stopping, down>>

blame == <<black, timeouts>>

Threads == Callers \union {Pinger}

NoConn == [server |-> "none"]

NoRequest == 0

NoLock == "free"

Init ==
    /\ conn = NoConn /\ srv \in Servers /\ lock = NoLock
    /\ pc = [c \in Threads |-> "idle"]
    /\ attempt = [c \in Threads |-> 0]
    /\ todo = [c \in Threads |-> {}]
    /\ waiting = NoRequest /\ wire = {}
    /\ res = [c \in Threads |-> "none"]
    /\ black = {} /\ timeouts = 0
    /\ stopping = FALSE /\ down = FALSE

-----------------------------------------------------------------------------
(* The connection *)

\* is_connected(): what the flags say, whatever the socket is.
IsConnected == conn # NoConn /\ conn.up

\* ElectrumConnection.connect on a new object: the header subscription has
\* started the listener.
Opened(s) == [server |-> s, up |-> TRUE, open |-> TRUE, listener |-> "runs"]

\* ElectrumConnection.disconnect: the listener is stopped and the socket closed.
Closed == [conn EXCEPT !.up = FALSE, !.open = FALSE, !.listener = "off"]

\* A request given up leaves its answer under way, unless the socket is closed.
\* Bound: late answers leave one id free, more of them are lost.
GivenUp ==
    LET late == {[w EXCEPT !.late = TRUE] : w \in wire}
    IN  IF conn' = NoConn \/ Cardinality(late) >= Cardinality(Ids) THEN {} ELSE late

\* get_sorted_servers: the servers that are not blacklisted, or all of them when
\* that leaves none.  Their order depends on measured latencies.
SortedServers == IF Servers \ black = {} THEN Servers ELSE Servers \ black

\* The list is emptied when every server is on it.
BlacklistRead == IF Servers \ black = {} THEN {} ELSE black

-----------------------------------------------------------------------------
(* A call *)

\* call(), call_batch() and their background forms refuse when stopping.
StartCall(c) ==
    /\ pc[c] = "idle" /\ ~stopping
    /\ pc' = [pc EXCEPT ![c] = "lock"]
    /\ res' = [res EXCEPT ![c] = "none"]
    /\ UNCHANGED <<conn, srv, lock, attempt, todo, waiting, wire, blame, stopping, down>>

\* The lock is free.
TakeLock(c) ==
    /\ pc[c] = "lock" /\ lock = NoLock
    /\ lock' = c
    /\ pc' = [pc EXCEPT ![c] = "attempt"]
    /\ attempt' = [attempt EXCEPT ![c] = 0]
    /\ UNCHANGED <<conn, srv, todo, waiting, wire, res, blame, stopping, down>>

\* The lock was not free for the call's timeout and 5 s.
LockTimeout(c) ==
    /\ pc[c] = "lock" /\ lock # NoLock
    /\ pc' = [pc EXCEPT ![c] = "idle"]
    /\ res' = [res EXCEPT ![c] = "error"]
    /\ UNCHANGED <<conn, srv, lock, attempt, todo, waiting, wire, blame, stopping, down>>

\* The keepalive thread pings an idle connection, if the lock is free.
StartPing ==
    /\ pc[Pinger] = "idle" /\ lock = NoLock /\ IsConnected
    /\ lock' = Pinger
    /\ pc' = [pc EXCEPT ![Pinger] = "send"]
    /\ attempt' = [attempt EXCEPT ![Pinger] = 1]
    /\ UNCHANGED <<conn, srv, todo, waiting, wire, res, blame, stopping, down>>

\* The call is over: result or exception, and the lock released.
Finish(c, r) ==
    /\ pc' = [pc EXCEPT ![c] = "idle"]
    /\ res' = [res EXCEPT ![c] = r]
    /\ lock' = NoLock

\* The head of the attempt loop: connect if there is no connection.
Attempt(c) ==
    /\ pc[c] = "attempt"
    /\ \/ /\ stopping
          /\ Finish(c, "error")
          /\ UNCHANGED <<todo, black>>
       \/ /\ ~stopping /\ ~IsConnected
          /\ todo' = [todo EXCEPT ![c] = SortedServers]
          /\ black' = BlacklistRead
          /\ pc' = [pc EXCEPT ![c] = "connect"]
          /\ UNCHANGED <<lock, res>>
       \/ /\ ~stopping /\ IsConnected
          /\ pc' = [pc EXCEPT ![c] = "send"]
          /\ UNCHANGED <<lock, res, todo, black>>
    /\ UNCHANGED <<conn, srv, attempt, waiting, wire, timeouts, stopping, down>>

\* _reconnect: the connection is dropped and the servers are tried again, the
\* current one first.  When stopping it returns at once.
Reconnect(c, next) ==
    IF stopping
    THEN pc' = [pc EXCEPT ![c] = "attempt"] /\ UNCHANGED <<conn, todo>>
    ELSE /\ conn' = NoConn
         /\ todo' = [todo EXCEPT ![c] =
                        IF Servers \ black' = {} THEN Servers ELSE Servers \ black']
         /\ pc' = [pc EXCEPT ![c] = next]

\* _check_connection_health of a connection unused for 60 s: the ping fails.
HealthFails(c) ==
    /\ pc[c] = "attempt" /\ ~stopping /\ IsConnected
    /\ conn.server \notin Healthy \/ ~conn.open
    /\ conn' = NoConn
    /\ wire' = {}
    /\ todo' = [todo EXCEPT ![c] = SortedServers]
    /\ black' = BlacklistRead
    /\ pc' = [pc EXCEPT ![c] = "health"]
    /\ UNCHANGED <<srv, lock, attempt, waiting, res, timeouts, stopping, down>>

\* Where a call goes once its connect or reconnect succeeded: connect() and the
\* health check go on to send, a retry to the head of the loop.
AfterConnect(c) == IF pc[c] = "retry" THEN "attempt" ELSE "send"

\* The servers in the order they are tried: _reconnect prefers the current one.
MayTry(c, s) ==
    /\ s \in todo[c]
    /\ (pc[c] \in {"retry", "health"} /\ srv \in todo[c]) => s = srv

\* _try_connect_server succeeds; when stopping, the new connection is closed.
ConnectOk(c, s) ==
    /\ pc[c] \in {"connect", "retry", "health"} /\ MayTry(c, s)
    /\ srv' = s
    /\ IF stopping
       THEN /\ conn' = NoConn
            /\ todo' = [todo EXCEPT ![c] = @ \ {s}]
            /\ UNCHANGED pc
       ELSE /\ conn' = Opened(s)
            /\ todo' = [todo EXCEPT ![c] = {}]
            /\ pc' = [pc EXCEPT ![c] = AfterConnect(c)]
    /\ wire' = {}
    /\ UNCHANGED <<lock, attempt, waiting, res, blame, stopping, down>>

\* It fails: refused, no version, or a rate limit, which blacklists the server.
ConnectFails(c, s) ==
    /\ pc[c] \in {"connect", "retry", "health"} /\ MayTry(c, s)
    /\ s \notin Healthy
    /\ todo' = [todo EXCEPT ![c] = @ \ {s}]
    /\ black' \in {black, black \union {s}}
    /\ UNCHANGED <<conn, srv, lock, pc, attempt, waiting, wire, res, timeouts,
                   stopping, down>>

\* No server is left: connect() and the health check raise, a retry goes on to
\* its second attempt.
NoServer(c) ==
    /\ pc[c] \in {"connect", "retry", "health"} /\ todo[c] = {}
    /\ IF pc[c] = "retry"
       THEN pc' = [pc EXCEPT ![c] = "attempt"] /\ UNCHANGED <<lock, res>>
       ELSE Finish(c, "error")
    /\ UNCHANGED <<conn, srv, attempt, todo, waiting, wire, blame, stopping, down>>

\* Mutant: the request id is not advanced.
SendSameId(c) ==
    /\ pc[c] = "send" /\ IsConnected /\ conn.open
    /\ \E i \in Ids :
          /\ \A j \in Ids : i <= j
          /\ waiting' = i
          /\ wire' = wire \union {[id |-> i, late |-> FALSE]}
    /\ pc' = [pc EXCEPT ![c] = "wait"]
    /\ UNCHANGED <<conn, srv, lock, attempt, todo, res, blame, stopping, down>>

\* ElectrumConnection.call: the request is sent under an id never used before
\* on this connection, and its queue registered.
Send(c) ==
    /\ pc[c] = "send" /\ IsConnected /\ conn.open
    /\ \E i \in Ids :
          /\ \A w \in wire : w.id # i
          /\ waiting' = i
          /\ wire' = wire \union {[id |-> i, late |-> FALSE]}
    /\ pc' = [pc EXCEPT ![c] = "wait"]
    /\ UNCHANGED <<conn, srv, lock, attempt, todo, res, blame, stopping, down>>

\* The connection went down since is_connected() was asked: the connection
\* object opens a new socket to its server itself and sends there.  A listener
\* that ended is not started again.
SendReopens(c) ==
    /\ pc[c] = "send" /\ conn # NoConn /\ ~conn.up
    /\ conn' = [conn EXCEPT !.up = TRUE, !.open = TRUE]
    /\ \E i \in Ids :
          /\ waiting' = i
          /\ wire' = {[id |-> i, late |-> FALSE]}
    /\ pc' = [pc EXCEPT ![c] = "wait"]
    /\ UNCHANGED <<srv, lock, attempt, todo, res, blame, stopping, down>>

\* Which failures are followed by a reconnect, on the first attempt:
\* _should_reconnect_after.
ShouldReconnect(kind) == kind \in {"timeout", "temporary", "rate"} \/ ~IsConnected

\* Mutant: the call is tried again for as long as it fails.
RetriesForever(c) == TRUE

\* Only the first attempt is followed by another one.
Retries(c) == attempt[c] = 0

\* Mutant: a timeout is not counted.
RecordNothing == UNCHANGED blame

\* _record_timeout: the count is of timeouts of any server, answered calls in
\* between included, unless 90 s passed since the last one.
RecordTimeout ==
    IF stopping THEN UNCHANGED blame
    ELSE \E decayed \in IF Decays THEN BOOLEAN ELSE {FALSE} :
           LET n == IF decayed THEN 1 ELSE timeouts + 1
           IN  IF n >= MaxTimeouts
               THEN black' = black \union {srv} /\ timeouts' = 0
               ELSE timeouts' = n /\ UNCHANGED black

\* What a failure does to the standing of the server.
Blame(kind) ==
    CASE kind = "rate" -> black' = black \union {srv} /\ UNCHANGED timeouts
      [] kind = "timeout" -> RecordTimeout
      [] OTHER -> UNCHANGED blame

\* A request that failed: the keepalive thread swallows it; a call reconnects
\* and tries again, or raises.
Fail(c, kind) ==
    /\ waiting' = NoRequest
    /\ IF c = Pinger
       THEN Finish(c, "none") /\ UNCHANGED <<conn, attempt, todo, blame>>
       ELSE /\ Blame(kind)
            /\ IF Retries(c) /\ ShouldReconnect(kind)
               THEN /\ attempt' = [attempt EXCEPT ![c] = 1]
                    /\ Reconnect(c, "retry")
                    /\ UNCHANGED <<lock, res>>
               ELSE Finish(c, IF kind = "refused" THEN "refused" ELSE "error")
                    /\ UNCHANGED <<conn, attempt, todo>>
    /\ UNCHANGED <<srv, stopping, down>>

\* The socket cannot be opened again, or sending on it fails.
SendFails(c) ==
    /\ pc[c] = "send" /\ conn # NoConn
    /\ ~conn.up \/ ~conn.open
    /\ conn.server \notin Healthy \/ conn.up
    /\ Fail(c, "temporary")
    /\ wire' = {}

\* Whether somebody reads the socket: the listener, or the call itself when the
\* listener was stopped.  A listener that saw the socket close is gone, but
\* calls still leave the reading to it.
SomebodyReads == conn.listener = "runs" \/ (conn.listener = "off" /\ waiting # NoRequest)

\* The queue of the request with the id of the message, on its connection.
IsAnswer(w) == waiting = w.id

\* A message is read: the waiting call takes the answer with its id, others are
\* dropped.
Deliver(w) ==
    /\ IsConnected /\ conn.open /\ SomebodyReads
    /\ IF IsAnswer(w)
       THEN \E c \in Threads :
              /\ pc[c] = "wait"
              /\ \/ /\ Finish(c, IF w.late THEN "wrong" ELSE "answer")
                    /\ waiting' = NoRequest
                    /\ UNCHANGED <<conn, attempt, todo, srv, blame, stopping, down>>
                 \/ Fail(c, "refused")
                 \/ conn.server \notin Healthy /\ Fail(c, "rate")
              /\ wire' = GivenUp \ {[w EXCEPT !.late = TRUE]}
       ELSE /\ wire' = wire \ {w}
            /\ UNCHANGED <<conn, srv, lock, pc, attempt, todo, waiting, res, blame,
                           stopping, down>>

\* No answer within the call's timeout.
Timeout(c) ==
    /\ pc[c] = "wait"
    /\ \/ conn = NoConn
       \/ conn.server \notin Healthy
       \/ ~conn.up \/ ~conn.open \/ ~SomebodyReads
    /\ Fail(c, "timeout")
    /\ wire' = GivenUp

-----------------------------------------------------------------------------
(* What happens to the connection meanwhile *)

\* The server closes the socket.
ServerCloses ==
    /\ Closes /\ conn # NoConn /\ conn.open /\ conn.server \notin Healthy
    /\ conn' = [conn EXCEPT !.open = FALSE]
    /\ wire' = {}
    /\ UNCHANGED <<srv, lock, pc, attempt, todo, waiting, res, blame, stopping, down>>

\* The listener reads the end of the stream, flags the connection and ends.
ListenerEnds ==
    /\ conn # NoConn /\ conn.listener = "runs" /\ ~conn.open
    /\ conn' = [conn EXCEPT !.up = FALSE, !.listener = "gone"]
    /\ UNCHANGED <<srv, lock, pc, attempt, todo, waiting, wire, res, blame, stopping, down>>

\* disconnect(): with the lock the connection is given up; without it, after
\* 5 s, it is closed under the call that uses it, whose queue is told so.
Disconnect ==
    /\ IF conn = NoConn THEN UNCHANGED <<conn, wire>>
       ELSE /\ conn' = IF lock = NoLock THEN NoConn ELSE Closed
            /\ wire' = {}
    /\ UNCHANGED <<srv, lock, pc, attempt, todo, waiting, blame>>

\* A thread whose batch failed disconnects before it tries again.
DisconnectAfterError(c) ==
    /\ pc[c] = "idle" /\ res[c] = "error"
    /\ res' = [res EXCEPT ![c] = "none"]
    /\ Disconnect
    /\ UNCHANGED <<stopping, down>>

\* The waiting call finds "Connection closed" in its queue.
ClosedInQueue(c) ==
    /\ pc[c] = "wait" /\ conn # NoConn /\ conn.listener = "off" /\ ~conn.up
    /\ Fail(c, "closed")
    /\ UNCHANGED wire

\* shutdown(): no new calls, then disconnect().
Shutdown ==
    /\ ~stopping
    /\ stopping' = TRUE
    /\ UNCHANGED <<conn, srv, lock, pc, attempt, todo, waiting, wire, res, blame, down>>

ShutdownDisconnects ==
    /\ stopping /\ ~down
    /\ down' = TRUE
    /\ Disconnect
    /\ UNCHANGED <<res, stopping>>

\* The 300 s of a blacklisted server are over.
BlacklistExpires(s) ==
    /\ s \in black
    /\ black' = black \ {s}
    /\ UNCHANGED <<conn, srv, lock, pc, attempt, todo, waiting, wire, res,
                   timeouts, stopping, down>>

-----------------------------------------------------------------------------
\* The steps a thread takes by itself in a call.
ThreadStep(c) ==
    \/ TakeLock(c) \/ LockTimeout(c) \/ Attempt(c) \/ HealthFails(c) \/ NoServer(c)
    \/ \E s \in Servers : ConnectOk(c, s) \/ ConnectFails(c, s)
    \/ Send(c) \/ SendReopens(c) \/ SendFails(c)
    \/ Timeout(c) \/ ClosedInQueue(c)

\* Calls, pings, and what happens to their connection.
Work ==
    \/ \E c \in Callers : StartCall(c) \/ DisconnectAfterError(c)
    \/ StartPing
    \/ \E c \in Threads : ThreadStep(c)
    \/ \E w \in wire : Deliver(w)
    \/ ServerCloses \/ ListenerEnds

Next ==
    \/ Work
    \/ Shutdown \/ ShutdownDisconnects
    \/ \E s \in Servers : BlacklistExpires(s)

Spec == Init /\ [][Next]_vars

\* The polling thread calls again and again, every 10 to 15 s: timeouts do not
\* lie 90 s apart, and a server's 300 s on the blacklist do not end before the
\* next call went to another one.  It does get the lock: a ping gives up after
\* 10 s, a call waits 15 s.  Nobody shuts down.
NextPolling ==
    \/ Work
    \/ \E s \in Servers : conn # NoConn /\ conn.server # s /\ BlacklistExpires(s)

-----------------------------------------------------------------------------
(* Properties *)

\* The variables stay in their types.
TypeOK ==
    /\ conn = NoConn \/ conn \in [server : Servers, up : BOOLEAN,
                                  open : BOOLEAN, listener : {"runs", "off", "gone"}]
    /\ srv \in Servers
    /\ lock \in Threads \union {NoLock}
    /\ pc \in [Threads -> {"idle", "lock", "attempt", "connect", "retry", "health",
                           "send", "wait"}]
    /\ attempt \in [Threads -> {0, 1}]
    /\ todo \in [Threads -> SUBSET Servers]
    /\ waiting \in Ids \union {NoRequest}
    /\ wire \subseteq [id : Ids, late : BOOLEAN]
    /\ res \in [Threads -> {"none", "answer", "wrong", "refused", "error"}]
    /\ black \subseteq Servers /\ timeouts \in 0..(MaxTimeouts - 1)
    /\ stopping \in BOOLEAN /\ down \in BOOLEAN

\* An answer is the answer to the request of the call that gets it: one that
\* comes after its call timed out is never given to a later call, not across
\* reconnects and not on the same socket either.
AnswerBelongs == \A c \in Threads : res[c] # "wrong"

\* The call of thread c is under way.
CallWaits(c) == pc[c] # "idle"

\* A call was answered.
Answered == \E c \in Callers : res[c] \in {"answer", "refused"}

=============================================================================
