--------------------------- MODULE SimplexCommands ---------------------------
(***************************************************************************)
(* Commands to the Simplex client over one websocket.  A thread sends a    *)
(* command under a mutex and waits for the response with its number.  The  *)
(* websocket's thread puts the responses into one queue; every waiting     *)
(* thread takes from it and drops what is not for it.                      *)
(***************************************************************************)
EXTENDS Integers, Sequences, FiniteSets

CONSTANTS
    Threads,    \* the threads that send commands: the main loop, HTTP threads
    MaxCmds,    \* bound: commands sent
    MaxTries    \* num_tries of a wait

\* What is assumed of the constants.
ConstantsOK ==
    /\ MaxCmds \in Nat /\ MaxTries \in Nat \ {0}

VARIABLES
    corrId,    \* the number of the last command
    call,      \* call[t]: the command t waits for, its tries and its outcome
    pending,   \* commands the client has not answered
    cmdQueue   \* cmd_recv_queue

vars == <<corrId, call, pending, cmdQueue>>

Idle == [id |-> 0, tries |-> 0, result |-> "idle", got |-> 0]

TypeOK ==
    /\ corrId \in 0..MaxCmds
    /\ \A t \in Threads :
        /\ call[t].id \in 0..MaxCmds /\ call[t].got \in 0..MaxCmds
        /\ call[t].tries \in 0..MaxTries
        /\ call[t].result \in {"idle", "waiting", "done", "timeout"}
    /\ pending \subseteq 1..MaxCmds
    /\ cmdQueue \in Seq(1..MaxCmds)

Init ==
    /\ corrId = 0
    /\ call = [t \in Threads |-> Idle]
    /\ pending = {}
    /\ cmdQueue = <<>>

\* send_command: the number is taken and the command sent under the mutex.
SendCommand(t) ==
    /\ call[t].result # "waiting" /\ corrId < MaxCmds
    /\ corrId' = corrId + 1
    /\ call' = [call EXCEPT ![t] = [Idle EXCEPT !.id = corrId + 1, !.result = "waiting"]]
    /\ pending' = pending \cup {corrId + 1}
    /\ UNCHANGED <<cmdQueue>>

\* The client answers a command, in any order.
Answer(c) ==
    /\ c \in pending /\ pending' = pending \ {c}
    /\ cmdQueue' = Append(cmdQueue, c)
    /\ UNCHANGED <<corrId, call>>

\* The connection is lost and made again: what was not answered never is.
Reconnect ==
    /\ pending # {} /\ pending' = {}
    /\ UNCHANGED <<corrId, call, cmdQueue>>

\* Mutant: any response will do.
IsMineAny(t, c) == TRUE

\* The response has the number waited for.
IsMine(t, c) == c = call[t].id

\* One turn of wait_for_command_response: the next response is taken off the
\* queue, whoever it is for.
WaitTurn(t) ==
    /\ call[t].result = "waiting" /\ call[t].tries < MaxTries
    /\ cmdQueue # <<>>
    /\ cmdQueue' = Tail(cmdQueue)
    /\ LET c == Head(cmdQueue)
       IN  call' = [call EXCEPT
                       ![t].tries = @ + 1,
                       ![t].result = IF IsMine(t, c) THEN "done" ELSE @,
                       ![t].got = IF IsMine(t, c) THEN c ELSE @]
    /\ UNCHANGED <<corrId, pending>>

\* Mutant: a turn without a response does not count.
WaitNothingFree(t) ==
    /\ call[t].result = "waiting" /\ call[t].tries < MaxTries
    /\ cmdQueue = <<>>
    /\ UNCHANGED vars

\* A turn that finds the queue empty.
WaitNothing(t) ==
    /\ call[t].result = "waiting" /\ call[t].tries < MaxTries
    /\ cmdQueue = <<>>
    /\ call' = [call EXCEPT ![t].tries = @ + 1]
    /\ UNCHANGED <<corrId, pending, cmdQueue>>

\* The last turn is over: ValueError.
WaitEnds(t) ==
    /\ call[t].result = "waiting" /\ call[t].tries = MaxTries
    /\ call' = [call EXCEPT ![t].result = "timeout"]
    /\ UNCHANGED <<corrId, pending, cmdQueue>>

Next ==
    \/ \E t \in Threads : SendCommand(t) \/ WaitTurn(t) \/ WaitNothing(t) \/ WaitEnds(t)
    \/ \E c \in pending : Answer(c)
    \/ Reconnect

Spec == Init /\ [][Next]_vars

-----------------------------------------------------------------------------
\* A call never returns the response to another thread's command, although all
\* responses come over one queue.
ResponseIsOwn == \A t \in Threads : call[t].result = "done" => call[t].got = call[t].id

\* The call of thread t waits; the connection may be lost meanwhile.
CallWaits(t) == call[t].result = "waiting"
=============================================================================
