------------------------------- MODULE Launcher -------------------------------
(***************************************************************************)
(* The life of the node process (basicswap/bin/run.py: runClient,          *)
(* mainLoop, signal_handler; basicswap.py: stopDaemons, start,             *)
(* waitForDaemonRPC, finalise) and of the coin daemons it manages.         *)
(*                                                                         *)
(* A coin daemon is a child process that outlives a killed parent. Only    *)
(* one daemon of a coin can run: a second one finds the data directory     *)
(* locked and ends at once (external behaviour).                           *)
(***************************************************************************)
EXTENDS FiniteSets, Naturals, Sequences

CONSTANTS Coins,      \* managed coins, in the order of settings["chainclients"]
          Silent,     \* coins that stopDaemon skips: Monero and Wownero, Decred
          MaxKills,   \* bound: times the program is killed (SIGKILL, power loss)
          MaxRuns,    \* bound: times the program is started
          Tries       \* startup_tries

\* What is assumed of the constants.
ConstantsOK ==
    /\ Silent \subseteq {Coins[i] : i \in DOMAIN Coins}
    /\ MaxKills \in Nat /\ MaxRuns \in Nat /\ Tries \in Nat \ {0}

Coin == {Coins[i] : i \in DOMAIN Coins}
Ordinary == Coin \ Silent

VARIABLES daemon,    \* per coin: "none", "loading" (no RPC yet), "ready", "stuck"
          child,     \* coins whose running daemon is a child of this run
          daemons,   \* the list of runClient: coins it has started a process for
          pids,      \* coins in the list that becomes the .pids file
          pidsFile,  \* coins with a line in .pids
          pc,        \* step of runClient
          idx,       \* the coin the current loop is at
          tries,     \* calls of testDaemonRPC so far for that coin
          handlers,  \* the signal handlers are installed
          delay,     \* delay_event (chainstate_delay_event is set with it)
          failCode,  \* fail_code
          noRPC,     \* history of the run: a daemon's RPC was given up
          clean,     \* history of the run: no daemon ran when it began to start them
          exitCode,  \* what the last run returned, or Killed
          kills, runs

vars == <<daemon, child, daemons, pids, pidsFile, pc, idx, tries, handlers, delay,
          failCode, noRPC, clean, exitCode, kills, runs>>

Killed == 2

Steps == {"off", "stop", "spawn", "record", "signals", "start", "main", "finalise",
          "interrupt", "wait", "save"}

TypeOK ==
    /\ daemon \in [Coin -> {"none", "loading", "ready", "stuck"}]
    /\ child \subseteq {c \in Coin : daemon[c] # "none"}
    /\ daemons \subseteq Coin /\ child \subseteq daemons /\ pids \subseteq daemons
    /\ pidsFile \subseteq Ordinary
    /\ pc \in Steps /\ idx \in 1..Len(Coins) + 1 /\ tries \in 0..Tries
    /\ handlers \in BOOLEAN /\ delay \in BOOLEAN /\ failCode \in 0..1
    /\ noRPC \in BOOLEAN /\ clean \in BOOLEAN /\ exitCode \in {0, 1, Killed}
    /\ kills \in 0..MaxKills /\ runs \in 0..MaxRuns
    /\ pc = "off" => daemons = {} /\ ~handlers

Init ==
    /\ daemon = [c \in Coin |-> "none"] /\ child = {} /\ daemons = {} /\ pids = {}
    /\ pidsFile = {} /\ pc = "off" /\ idx = 1 /\ tries = 0 /\ handlers = FALSE
    /\ delay = FALSE /\ failCode = 0 /\ noRPC = FALSE /\ clean = TRUE /\ exitCode = Killed
    /\ kills = 0 /\ runs = 0

AtCoin == idx <= Len(Coins)
Cur == Coins[idx]
Running == {c \in Coin : daemon[c] # "none"}

\* The process ends: its memory is gone, its children live on.
Gone ==
    /\ pc' = "off" /\ child' = {} /\ daemons' = {} /\ pids' = {} /\ handlers' = FALSE

-----------------------------------------------------------------------------
(* The coin daemons (external).                                            *)

DaemonLoads(c) ==
    /\ daemon[c] = "loading"
    /\ \E s \in {"ready", "stuck"} : daemon' = [daemon EXCEPT ![c] = s]
    /\ UNCHANGED <<child, daemons, pids, pidsFile, pc, idx, tries, handlers, delay,
                   failCode, noRPC, clean, exitCode, kills, runs>>

DaemonCrashes(c) ==
    /\ daemon[c] # "none" /\ kills < MaxKills
    /\ daemon' = [daemon EXCEPT ![c] = "none"] /\ child' = child \ {c}
    /\ kills' = kills + 1
    /\ UNCHANGED <<daemons, pids, pidsFile, pc, idx, tries, handlers, delay, failCode,
                   noRPC, clean, exitCode, runs>>

-----------------------------------------------------------------------------
(* runClient up to the main loop.                                          *)

\* The settings are read and BasicSwap is built; lines of an old .pids file are
\* only logged ("TODO: try close").
RunClient ==
    /\ pc = "off" /\ runs < MaxRuns
    /\ pc' = "stop" /\ idx' = 1 /\ tries' = 0 /\ runs' = runs + 1
    /\ delay' = FALSE /\ failCode' = 0 /\ noRPC' = FALSE
    /\ UNCHANGED <<daemon, child, daemons, pids, pidsFile, handlers, exitCode, kills, clean>>

\* stopDaemon: the RPC "stop" until the daemon no longer answers, then the wait for
\* its .cookie. A daemon whose RPC does not listen yet counts as stopped, and the
\* function returns at once for Monero, Wownero and Decred.
StopDaemon(c) ==
    IF c \in Silent \/ daemon[c] = "loading"
    THEN UNCHANGED daemon
    ELSE daemon[c] # "stuck" /\ daemon' = [daemon EXCEPT ![c] = "none"]

StopDaemons ==
    /\ pc = "stop" /\ AtCoin
    /\ StopDaemon(Cur)
    /\ idx' = idx + 1
    /\ UNCHANGED <<child, daemons, pids, pidsFile, pc, tries, handlers, delay, failCode,
                   noRPC, clean, exitCode, kills, runs>>

\* "Could not stop ...": raised outside the try block, so the process ends here.
StopDaemonsFails ==
    /\ pc = "stop" /\ AtCoin
    /\ Cur \in Ordinary /\ daemon[Cur] # "none"
    /\ Gone /\ exitCode' = 1
    /\ UNCHANGED <<daemon, pidsFile, idx, tries, delay, failCode, noRPC, clean, kills, runs>>

StopDaemonsDone ==
    /\ pc = "stop" /\ ~AtCoin
    /\ pc' = "spawn" /\ idx' = 1 /\ clean' = (Running = {})
    /\ UNCHANGED <<daemon, child, daemons, pids, pidsFile, tries, handlers, delay,
                   failCode, noRPC, exitCode, kills, runs>>

\* startDaemon, startXmrDaemon and startXmrWalletDaemon: the configuration is brought
\* up to date and the process is created. A daemon of the coin that still runs keeps
\* the data directory, and the new process ends at once.
StartDaemon(c) ==
    /\ daemons' = daemons \cup {c}
    /\ IF daemon[c] = "none"
       THEN daemon' = [daemon EXCEPT ![c] = "loading"] /\ child' = child \cup {c}
       ELSE UNCHANGED <<daemon, child>>

\* Monero, Wownero and Decred: the process is not added to pids.
SpawnSilent ==
    /\ pc = "spawn" /\ AtCoin /\ Cur \in Silent
    /\ StartDaemon(Cur)
    /\ idx' = idx + 1
    /\ UNCHANGED <<pids, pidsFile, pc, tries, handlers, delay, failCode, noRPC, clean,
                   exitCode, kills, runs>>

\* Every other coin: the process goes to pids.
SpawnOrdinary ==
    /\ pc = "spawn" /\ AtCoin /\ Cur \in Ordinary
    /\ StartDaemon(Cur)
    /\ pids' = pids \cup {Cur} /\ idx' = idx + 1
    /\ UNCHANGED <<pidsFile, pc, tries, handlers, delay, failCode, noRPC, clean, exitCode,
                   kills, runs>>

\* The binary or its configuration is missing: the exception ends the try block.
SpawnFails ==
    /\ pc = "spawn" /\ AtCoin
    /\ pc' = "finalise"
    /\ UNCHANGED <<daemon, child, daemons, pids, pidsFile, idx, tries, handlers, delay,
                   failCode, noRPC, clean, exitCode, kills, runs>>

\* The .pids file is written once, after the last daemon was started.
WritePids ==
    /\ pc = "spawn" /\ ~AtCoin
    /\ pidsFile' = IF pids # {} THEN pids ELSE pidsFile
    /\ pc' = "signals"
    /\ UNCHANGED <<daemon, child, daemons, pids, idx, tries, handlers, delay, failCode,
                   noRPC, clean, exitCode, kills, runs>>

InstallHandlers ==
    /\ pc = "signals"
    /\ handlers' = TRUE /\ pc' = "start" /\ idx' = 1 /\ tries' = 0
    /\ UNCHANGED <<daemon, child, daemons, pids, pidsFile, delay, failCode, noRPC, clean,
                   exitCode, kills, runs>>

-----------------------------------------------------------------------------
(* BasicSwap.start, coin by coin.                                          *)

\* testDaemonRPC answers: the interface is set up, its thread is started.
CoinReady ==
    /\ pc = "start" /\ AtCoin /\ ~noRPC /\ daemon[Cur] = "ready"
    /\ idx' = idx + 1 /\ tries' = 0
    /\ UNCHANGED <<daemon, child, daemons, pids, pidsFile, pc, handlers, delay, failCode,
                   noRPC, clean, exitCode, kills, runs>>

\* testDaemonRPC fails: wait and try again, startup_tries times.
TryAgain ==
    /\ pc = "start" /\ AtCoin /\ ~delay /\ tries < Tries /\ daemon[Cur] # "ready"
    /\ tries' = tries + 1
    /\ UNCHANGED <<daemon, child, daemons, pids, pidsFile, pc, idx, handlers, delay,
                   failCode, noRPC, clean, exitCode, kills, runs>>

\* stopRunning(with_code)
StopRunning(code) == failCode' = code /\ delay' = TRUE

\* The last try failed: stopRunning(1), and start goes on with getDaemonVersion.
GiveUpRPC ==
    /\ pc = "start" /\ AtCoin /\ ~delay /\ tries = Tries /\ daemon[Cur] # "ready"
    /\ StopRunning(1) /\ noRPC' = TRUE
    /\ UNCHANGED <<daemon, child, daemons, pids, pidsFile, pc, idx, tries, handlers,
                   exitCode, kills, runs, clean>>

\* An exception leaves start: getDaemonVersion after the wait was given up or cut
\* short by a signal, a wallet that can not be opened, a failed database upgrade.
StartRaises ==
    /\ pc = "start" /\ (AtCoin /\ daemon[Cur] # "ready" => delay)
    /\ pc' = "finalise"
    /\ UNCHANGED <<daemon, child, daemons, pids, pidsFile, idx, tries, handlers, delay,
                   failCode, noRPC, clean, exitCode, kills, runs>>

\* The rest of start: networks, bids in progress, inbox, HTTP and websocket servers.
StartDone ==
    /\ pc = "start" /\ ~AtCoin
    /\ pc' = "main"
    /\ UNCHANGED <<daemon, child, daemons, pids, pidsFile, idx, tries, handlers, delay,
                   failCode, noRPC, clean, exitCode, kills, runs>>

-----------------------------------------------------------------------------
(* mainLoop and the shutdown.                                              *)

\* delay_event.wait(0.5) returns True. Until then mainLoop updates and polls.
MainLoopEnds ==
    /\ pc = "main" /\ delay
    /\ pc' = "finalise"
    /\ UNCHANGED <<daemon, child, daemons, pids, pidsFile, idx, tries, handlers, delay,
                   failCode, noRPC, clean, exitCode, kills, runs>>

\* Mutant: the handler stops the program without asking whether it is stopping.
SignalAlways == handlers /\ StopRunning(0)

\* signal_handler: SIGINT, SIGTERM or SIGHUP, unless the program is stopping already.
Signal == handlers /\ ~delay /\ StopRunning(0)

SignalHandler ==
    /\ pc # "off"
    /\ Signal
    /\ UNCHANGED <<daemon, child, daemons, pids, pidsFile, pc, idx, tries, handlers,
                   noRPC, clean, exitCode, kills, runs>>

\* The shutdown button of the page (stopRunning in http_server): the server runs from
\* the end of start.
ShutdownRequest ==
    /\ pc = "main" /\ ~delay
    /\ StopRunning(0)
    /\ UNCHANGED <<daemon, child, daemons, pids, pidsFile, pc, idx, tries, handlers,
                   noRPC, clean, exitCode, kills, runs>>

\* finalise: servers, AMM, price thread, networks, threads and thread pool stop.
Finalise ==
    /\ pc = "finalise"
    /\ delay' = TRUE /\ pc' = "interrupt"
    /\ UNCHANGED <<daemon, child, daemons, pids, pidsFile, idx, tries, handlers, failCode,
                   noRPC, clean, exitCode, kills, runs>>

\* Mutant: the wait has no timeout.
InterruptAndWaitForever ==
    /\ pc = "interrupt" /\ \A c \in child : daemon[c] # "stuck"
    /\ daemon' = [c \in Coin |-> IF c \in child /\ daemon[c] # "stuck"
                                 THEN "none" ELSE daemon[c]]
    /\ child' = {c \in child : daemon[c] = "stuck"}
    /\ pc' = "save"
    /\ UNCHANGED <<daemons, pids, pidsFile, idx, tries, handlers, delay, failCode, noRPC, clean,
                   exitCode, kills, runs>>

\* SIGINT to every process of daemons; then each is waited for, 120 s at most. A
\* stuck daemon does not end in that time.
InterruptAndWait ==
    /\ pc = "interrupt"
    /\ daemon' = [c \in Coin |-> IF c \in child /\ daemon[c] # "stuck"
                                 THEN "none" ELSE daemon[c]]
    /\ child' = {c \in child : daemon[c] = "stuck"}
    /\ pc' = "save"
    /\ UNCHANGED <<daemons, pids, pidsFile, idx, tries, handlers, delay, failCode, noRPC, clean,
                   exitCode, kills, runs>>

\* Mutant: the file is emptied.
ClosedPidsAll == {}

\* .pids keeps the processes that were not closed.
ClosedPids == {c \in pidsFile : c \notin daemons \ child}

\* The file is rewritten and fail_code is returned.
RewritePids ==
    /\ pc = "save"
    /\ pidsFile' = ClosedPids
    /\ Gone /\ exitCode' = failCode
    /\ UNCHANGED <<daemon, idx, tries, delay, failCode, noRPC, clean, kills, runs>>

\* A signal before the handlers are installed, or SIGKILL at any time.
Kill ==
    /\ pc # "off" /\ kills < MaxKills
    /\ Gone /\ exitCode' = Killed /\ kills' = kills + 1
    /\ UNCHANGED <<daemon, pidsFile, idx, tries, delay, failCode, noRPC, clean, runs>>

Program ==
    \/ StopDaemons \/ StopDaemonsFails \/ StopDaemonsDone
    \/ SpawnSilent \/ SpawnOrdinary \/ SpawnFails \/ WritePids \/ InstallHandlers
    \/ CoinReady \/ TryAgain \/ GiveUpRPC \/ StartRaises \/ StartDone
    \/ MainLoopEnds \/ Finalise \/ InterruptAndWait \/ RewritePids

Next ==
    \/ RunClient \/ Program \/ SignalHandler \/ ShutdownRequest \/ Kill
    \/ \E c \in Coin : DaemonLoads(c) \/ DaemonCrashes(c)

Spec == Init /\ [][Next]_vars

-----------------------------------------------------------------------------
(* Properties.                                                             *)

\* A run that returned after it had given up on a daemon's RPC returns a non-zero
\* code, whatever signals came in between: that is what makes systemd start it again
\* (waitForDaemonRPC, stopRunning, signal_handler).
RestartIsAsked == pc = "off" /\ noRPC /\ exitCode # Killed => exitCode = 1

\* A run that began with no daemon running, came past the start of its daemons and
\* returns, leaves no daemon of an ordinary coin running without a line in .pids,
\* also when the start failed or a daemon did not end in time (runClient).
ReturnsClean ==
    pc = "save" /\ handlers /\ clean /\ pc' = "off" /\ exitCode' # Killed
        => Running' \cap Ordinary \subseteq pidsFile'

\* A shutdown was asked for.
ShuttingDown == pc # "off" /\ delay

=============================================================================
