----------------------------- MODULE AmmProcess -----------------------------
(***************************************************************************)
(* Starting and stopping the market maker script as a child process        *)
(* (basicswap/ui/page_amm.py, _autostartAMM and finalise in basicswap.py). *)
(*                                                                         *)
(* The HTTP server runs every request in a thread of its own and the       *)
(* functions below take no common lock, so a request is a sequence of      *)
(* steps: the listing of "ps", one kill, the new API token, the child.     *)
(* A child survives a crash of the program as an orphan; it can only talk  *)
(* to the program while the token it was given is the current one.         *)
(***************************************************************************)
EXTENDS FiniteSets, Naturals

CONSTANTS Req,        \* threads that run a request, the autostart or the shutdown
          AutostartOn, \* settings["amm_autostart"]
          MaxProcs,   \* bound: children started
          MaxCrashes  \* bound: crashes of the program

\* What is assumed of the constants.
ConstantsOK ==
    /\ IsFiniteSet(Req) /\ AutostartOn \in BOOLEAN
    /\ MaxProcs \in Nat /\ MaxCrashes \in Nat

Proc == 1..MaxProcs
NoProc == 0

VARIABLES alive,      \* processes that "ps" lists
          used,       \* history: process numbers given so far
          capture,    \* children whose log_capture_thread is still running
          handle,     \* amm_process, or NoProc
          token,      \* who holds the current _amm_api_token: a child, the request
                      \* that is about to hand it to its child, or NoProc
          status,     \* amm_status
          autostart,  \* the start-up still has to start the child
          pc, pids,   \* per request: its step and the processes it is to kill
          since,      \* history, per request: `used' when it began
          crossed,    \* history: requests during which another one ran
          before,     \* history, per child: `since' of the request that started it
          alone,      \* history: children of this run whose request was not crossed
          earlier,    \* history: `used' when this run of the program began
          crashes

vars == <<alive, used, capture, handle, token, status, autostart, pc, pids, since,
          crossed, before, alone, earlier, crashes>>

Steps == {"idle", "list", "kill", "check", "token", "spawn",
          "terminate", "orphans", "stopkill", "clear"}

TypeOK ==
    /\ used \in 0..MaxProcs /\ alive \subseteq 1..used /\ capture \subseteq 1..used
    /\ handle \in 0..used /\ token \in (0..used) \cup Req
    /\ status \in {"running", "stopped"} /\ autostart \in BOOLEAN
    /\ pc \in [Req -> Steps] /\ pids \in [Req -> SUBSET Proc]
    /\ \A r \in Req : pids[r] # {} => pc[r] \in {"kill", "stopkill"}
    /\ since \in [Req -> 0..used] /\ crossed \subseteq Req
    /\ before \in [Proc -> 0..used] /\ alone \subseteq 1..used /\ earlier \in 0..used
    /\ crashes \in 0..MaxCrashes

Init ==
    /\ alive = {} /\ used = 0 /\ capture = {} /\ handle = NoProc /\ token = NoProc
    /\ status = "stopped" /\ autostart = AutostartOn
    /\ pc = [r \in Req |-> "idle"] /\ pids = [r \in Req |-> {}]
    /\ since = [r \in Req |-> 0] /\ crossed = {}
    /\ before = [p \in Proc |-> 0] /\ alone = {} /\ earlier = 0
    /\ crashes = 0

Running == {r \in Req : pc[r] # "idle"}

Goto(r, step) == pc' = [pc EXCEPT ![r] = step]

world == <<alive, used, capture>>
shared == <<handle, token, status>>
begins == <<since, crossed>>
starts == <<before, alone>>

-----------------------------------------------------------------------------
(* start_amm_process.                                                      *)

\* A request begins, whatever other requests run.
Begins(r) ==
    /\ pc[r] = "idle"
    /\ since' = [since EXCEPT ![r] = used]
    /\ crossed' = IF Running = {} THEN crossed \ {r} ELSE crossed \cup Running \cup {r}

Begin(r, step) ==
    /\ Begins(r)
    /\ Goto(r, step)
    /\ UNCHANGED <<world, shared, autostart, pids, starts, earlier, crashes>>

\* Mutant: only the program's own child counts as a duplicate.
CheckDuplicatesOwn == handle = NoProc \/ handle \notin alive

\* check_existing_amm_processes and the poll of amm_process: no other child.
CheckDuplicates == alive = {} /\ (handle = NoProc \/ handle \notin alive)

\* Mutant: the token is made before the request is refused.
StartCheckToken(r) ==
    /\ pc[r] = "check"
    /\ token' = r
    /\ Goto(r, IF CheckDuplicates /\ used < MaxProcs THEN "token" ELSE "idle")
    /\ UNCHANGED <<world, handle, status, autostart, pids, begins, starts, earlier, crashes>>

\* "already running" answers the request.
StartCheck(r) ==
    /\ pc[r] = "check"
    /\ Goto(r, IF CheckDuplicates /\ used < MaxProcs THEN "token" ELSE "idle")
    /\ UNCHANGED <<world, shared, autostart, pids, begins, starts, earlier, crashes>>

\* A fresh token replaces the one of an earlier child.  Between the check and
\* here the configuration file may be written.
StartToken(r) ==
    /\ pc[r] = "token"
    /\ token' = r
    /\ Goto(r, "spawn")
    /\ UNCHANGED <<world, handle, status, autostart, pids, begins, starts, earlier, crashes>>

\* Popen succeeds and the log is captured, or it raises.
StartSpawn(r) ==
    /\ pc[r] = "spawn"
    /\ Goto(r, "idle")
    /\ \/ /\ used < MaxProcs
          /\ used' = used + 1
          /\ alive' = alive \cup {used'} /\ capture' = capture \cup {used'}
          /\ handle' = used' /\ status' = "running"
          /\ token' = IF token = r THEN used' ELSE token
          /\ before' = [before EXCEPT ![used'] = since[r]]
          /\ alone' = IF r \in crossed THEN alone ELSE alone \cup {used'}
       \/ UNCHANGED <<world, shared, starts>>
    /\ UNCHANGED <<autostart, pids, begins, earlier, crashes>>

-----------------------------------------------------------------------------
(* kill_existing_amm_processes, start_amm_process_force.                   *)

\* The listing of "ps"; what starts later is not in it.
ListProcesses(r, from, to) ==
    /\ pc[r] = from
    /\ pids' = [pids EXCEPT ![r] = alive]
    /\ Goto(r, to)
    /\ UNCHANGED <<world, shared, autostart, begins, starts, earlier, crashes>>

\* Mutant: only the child of this run is killed.
KillProcessesOwn(r, from, to) ==
    /\ pc[r] = from
    /\ alive' = alive \ (pids[r] \cap {handle})
    /\ pids' = [pids EXCEPT ![r] = {}]
    /\ Goto(r, to)
    /\ UNCHANGED <<used, capture, shared, autostart, begins, starts, earlier, crashes>>

\* SIGTERM, one second, SIGKILL, for every listed process.
KillProcesses(r, from, to) ==
    /\ pc[r] = from
    /\ alive' = alive \ pids[r]
    /\ pids' = [pids EXCEPT ![r] = {}]
    /\ Goto(r, to)
    /\ UNCHANGED <<used, capture, shared, autostart, begins, starts, earlier, crashes>>

StartForce(r) == ListProcesses(r, "list", "kill") \/ KillProcesses(r, "kill", "check")

-----------------------------------------------------------------------------
(* stop_amm_process.                                                       *)

\* The child of this run is terminated, or killed after three seconds.
StopTerminate(r) ==
    /\ pc[r] = "terminate"
    /\ alive' = alive \ {handle}
    /\ Goto(r, "orphans")
    /\ UNCHANGED <<used, capture, shared, autostart, pids, begins, starts, earlier, crashes>>

\* The status, the token and the handle are reset whatever runs by now.
StopClear(r) ==
    /\ pc[r] = "clear"
    /\ status' = "stopped" /\ token' = NoProc /\ handle' = NoProc
    /\ Goto(r, "idle")
    /\ UNCHANGED <<world, autostart, pids, begins, starts, earlier, crashes>>

Stop(r) ==
    \/ StopTerminate(r)
    \/ ListProcesses(r, "orphans", "stopkill")
    \/ KillProcesses(r, "stopkill", "clear")
    \/ StopClear(r)

RunRequest(r) ==
    StartForce(r) \/ StartCheck(r) \/ StartToken(r) \/ StartSpawn(r) \/ Stop(r)

-----------------------------------------------------------------------------
(* The page, the start-up, the child and the program.                      *)

\* The page: start, force_start and stop; kill_orphans only lists and kills.
PageStart(r) == Begin(r, "check")
PageForceStart(r) == Begin(r, "list")
PageStop(r) == Begin(r, "terminate")

\* Mutant: the start-up never forces.
AutostartGentle(r) ==
    /\ autostart /\ Begins(r)
    /\ autostart' = FALSE
    /\ Goto(r, "check")
    /\ UNCHANGED <<world, shared, pids, starts, earlier, crashes>>

\* _autostartAMM: force start when "ps" shows a process of an earlier run.
Autostart(r) ==
    /\ autostart /\ Begins(r)
    /\ autostart' = FALSE
    /\ Goto(r, IF alive # {} THEN "list" ELSE "check")
    /\ UNCHANGED <<world, shared, pids, starts, earlier, crashes>>

\* The child exits by itself (a fatal error, or it cannot log in).
Exit(p) ==
    /\ p \in alive
    /\ alive' = alive \ {p}
    /\ UNCHANGED <<used, capture, shared, autostart, pc, pids, begins, starts, earlier, crashes>>

\* The end of log_capture_thread(process) sets the status, whichever child it is.
LogCaptureEnds(p) ==
    /\ p \in capture /\ p \notin alive
    /\ capture' = capture \ {p}
    /\ status' = "stopped"
    /\ UNCHANGED <<alive, used, handle, token, autostart, pc, pids, begins, starts, earlier, crashes>>

\* The program dies without finalise and is started again: children live on.
Crash ==
    /\ crashes < MaxCrashes
    /\ crashes' = crashes + 1
    /\ capture' = {} /\ handle' = NoProc /\ token' = NoProc /\ status' = "stopped"
    /\ autostart' = AutostartOn
    /\ pc' = [r \in Req |-> "idle"] /\ pids' = [r \in Req |-> {}]
    /\ since' = [r \in Req |-> 0] /\ crossed' = {}
    /\ alone' = {} /\ earlier' = used
    /\ UNCHANGED <<alive, used, before>>

Request(r) == PageStart(r) \/ PageForceStart(r) \/ PageStop(r) \/ Autostart(r)

Next ==
    \/ \E r \in Req : Request(r) \/ RunRequest(r)
    \/ \E p \in Proc : Exit(p) \/ LogCaptureEnds(p)
    \/ Crash

Spec == Init /\ [][Next]_vars

-----------------------------------------------------------------------------
(* Properties.                                                             *)

\* "proper duplicate prevention" (start_amm_process): never two market makers at
\* work, which would post every template twice from the same state file.  Two starts
\* whose checks cross break it, so the code keeps only NoneDoubled.
OneProcess == Cardinality(alive) <= 1

\* What the check prevents while requests cross: no start adds a market maker to
\* one that ran when the start was requested, an orphan of an earlier run of the
\* program included.
NoneDoubled == \A p, q \in alive : p < q => p > before[q]

\* A child whose start no other request crossed can log in for as long as it runs:
\* no later request, however these cross, takes its token away.
ChildCanLogIn == \A p \in alive \cap alone : token = p

\* Stopping stops "the AMM process and any orphaned processes": when a stop
\* request returns, none is left of the market makers that ran when it was made,
\* whatever other requests did meanwhile.
StopStops ==
    \A r \in Req : pc[r] = "clear" /\ pc'[r] = "idle" /\ crashes' = crashes
                     => \A p \in alive' : p > since[r]

\* No market maker of an earlier run of the program is at work.
TakenOver == \A p \in alive : p > earlier
=============================================================================
