----------------------------- MODULE NodePrepare -----------------------------
(***************************************************************************)
(* basicswap-prepare (basicswap/bin/prepare.py): the commands that set a   *)
(* node up, add, enable and disable coins, switch Tor, upgrade the coin    *)
(* cores and choose the message network.                                   *)
(*                                                                         *)
(* A command reads basicswap.json, works through files in steps, and       *)
(* writes basicswap.json in place. It can stop between any two steps: an   *)
(* exception or exitWithError, or the program is killed, which may leave a *)
(* file that was being written torn.                                       *)
(***************************************************************************)
EXTENDS FiniteSets, Naturals

CONSTANTS Coin, Part,   \* coins; Particl, which is always there
          MaxVersion,   \* bound: releases of basicswap-prepare
          MaxStops,     \* bound: commands that stop before their end
          MaxOps,       \* bound: commands
          SetupOverTor  \* the node is set up with --usetorproxy

\* What is assumed of the constants.
ConstantsOK ==
    /\ IsFiniteSet(Coin) /\ Part \in Coin /\ MaxVersion \in Nat \ {0}
    /\ MaxStops \in Nat /\ MaxOps \in Nat /\ SetupOverTor \in BOOLEAN

Net == {"smsg", "simplex"}

\* basicswap.json: coins by connection, recorded core versions, use_tor, networks.
Settings == [coin : [Coin -> {"absent", "off", "on"}], ver : [Coin -> 0..MaxVersion],
             tor : BOOLEAN, net : [Net -> {"absent", "off", "on"}]]

ConfStates == {"none", "plain", "tor", "torn"}

VARIABLES json,     \* basicswap.json: "none", "ok" or "torn"
          saved,    \* its content, when it is "ok"
          mem,      \* the settings the command works on
          file,     \* per coin, the release file of the current version:
                    \* "none", "part", "good", "bad" (complete but damaged)
          bin,      \* per coin: version of the extracted core, 0 for none
          badBin,   \* coins with a core extracted from a damaged file
          conf, last, \* per coin: its configuration file and the ".last" copy
          wallet,   \* coins whose wallet was initialised
          known,    \* version of the cores this release of the program installs
          op, phase, todo, \* the command, its phase, coins left in the phase
          arg,      \* the coin or network the command is about
          stops, ops

settingsVars == <<json, saved, mem>>
coinFiles == <<file, bin, badBin, conf, last, wallet>>
vars == <<json, saved, mem, file, bin, badBin, conf, last, wallet, known, op, phase,
          todo, arg, stops, ops>>

Ops == {"none", "setup", "add", "disable", "tor", "notor", "upgrade", "addnet", "disnet"}
Phases == {"none", "core", "verify", "data", "wallets", "rewrite", "rewriting", "save",
           "saving"}

TypeOK ==
    /\ json \in {"none", "ok", "torn"} /\ saved \in Settings /\ mem \in Settings
    /\ file \in [Coin -> {"none", "part", "good", "bad"}]
    /\ bin \in [Coin -> 0..known] /\ badBin \subseteq Coin
    /\ conf \in [Coin -> ConfStates] /\ last \in [Coin -> ConfStates]
    /\ wallet \subseteq {c \in Coin : conf[c] # "none"}
    /\ known \in 1..MaxVersion /\ op \in Ops /\ phase \in Phases /\ todo \subseteq Coin
    /\ arg \in Coin \cup Net /\ stops \in 0..MaxStops /\ ops \in 0..MaxOps
    /\ (op = "none") = (phase = "none")

Fresh == [coin |-> [c \in Coin |-> "absent"], ver |-> [c \in Coin |-> 0], tor |-> FALSE,
          net |-> [n \in Net |-> "absent"]]

Init ==
    /\ json = "none" /\ saved = Fresh /\ mem = Fresh
    /\ file = [c \in Coin |-> "none"] /\ bin = [c \in Coin |-> 0] /\ badBin = {}
    /\ conf = [c \in Coin |-> "none"] /\ last = [c \in Coin |-> "none"] /\ wallet = {}
    /\ known = 1 /\ op = "none" /\ phase = "none" /\ todo = {} /\ arg = Part
    /\ stops = 0 /\ ops = 0

Listed(s) == {c \in Coin : s.coin[c] # "absent"}

Begin(o, a, p, cs) ==
    /\ op = "none" /\ ops < MaxOps
    /\ op' = o /\ arg' = a /\ phase' = p /\ todo' = cs /\ ops' = ops + 1

Goto(p, cs) == phase' = p /\ todo' = cs /\ UNCHANGED <<op, arg, ops>>

\* A coin enters the settings with the version this release installs.
WithCoins(s, cs) ==
    [s EXCEPT !.coin = [c \in Coin |-> IF c \in cs THEN "on" ELSE s.coin[c]],
              !.ver  = [c \in Coin |-> IF c \in cs THEN known ELSE s.ver[c]]]

-----------------------------------------------------------------------------
(* The commands, each up to its first step.                                *)

\* First setup: refused when basicswap.json exists. --usetorproxy sets use_tor.
Setup(cs) ==
    /\ json = "none" /\ Part \in cs
    /\ Begin("setup", Part, "core", cs)
    /\ mem' = [WithCoins(Fresh, cs) EXCEPT !.tor = SetupOverTor]
    /\ UNCHANGED <<json, saved, coinFiles, known, stops>>

\* --addcoin: a disabled coin is enabled, any other one in the settings is refused.
AddCoin(c) ==
    /\ json = "ok" /\ saved.coin[c] \in {"absent", "off"}
    /\ IF saved.coin[c] = "off"
       THEN Begin("add", c, "save", {}) /\ mem' = [saved EXCEPT !.coin[c] = "on"]
       ELSE Begin("add", c, "core", {c}) /\ mem' = WithCoins(saved, {c})
    /\ UNCHANGED <<json, saved, coinFiles, known, stops>>

DisableCoin(c) ==
    /\ json = "ok" /\ c # Part /\ saved.coin[c] = "on"
    /\ Begin("disable", c, "save", {}) /\ mem' = [saved EXCEPT !.coin[c] = "off"]
    /\ UNCHANGED <<json, saved, coinFiles, known, stops>>

EnableTor ==
    /\ json = "ok"
    /\ Begin("tor", Part, "rewrite", Listed(saved)) /\ mem' = [saved EXCEPT !.tor = TRUE]
    /\ UNCHANGED <<json, saved, coinFiles, known, stops>>

DisableTor ==
    /\ json = "ok"
    /\ Begin("notor", Part, "rewrite", Listed(saved)) /\ mem' = [saved EXCEPT !.tor = FALSE]
    /\ UNCHANGED <<json, saved, coinFiles, known, stops>>

\* --upgradecores: the managed coins whose version differs, one after the other.
Outdated(s) == {c \in Coin : s.coin[c] = "on" /\ s.ver[c] # known}

UpgradeCores ==
    /\ json = "ok" /\ Outdated(saved) # {}
    /\ Begin("upgrade", Part, "core", Outdated(saved)) /\ mem' = saved
    /\ UNCHANGED <<json, saved, coinFiles, known, stops>>

\* An empty list of networks stands for the default, smsg.
Networks(s) == IF \A n \in Net : s.net[n] = "absent"
               THEN [s.net EXCEPT !["smsg"] = "on"] ELSE s.net

\* --addnetwork: the other networks are disabled. A network that is not listed is
\* appended. For smsg an entry is switched on; for simplex the loop variable is
\* rebound, and an entry stays as it is.
AddNetwork(n) ==
    LET list == Networks(saved)
        on   == IF list[n] = "absent" \/ n = "smsg" THEN "on" ELSE list[n]
    IN /\ json = "ok"
       /\ Begin("addnet", n, "save", {})
       /\ mem' = [saved EXCEPT !.net = [k \in Net |->
                    IF k = n THEN on ELSE IF list[k] = "absent" THEN "absent" ELSE "off"]]
       /\ UNCHANGED <<json, saved, coinFiles, known, stops>>

\* --disablenetwork: the list is read, nothing is changed and nothing is saved.
DisableNetwork(n) ==
    /\ json = "ok"
    /\ Begin("disnet", n, "save", {}) /\ mem' = saved
    /\ UNCHANGED <<json, saved, coinFiles, known, stops>>

-----------------------------------------------------------------------------
(* prepareCore: download, verify, extract.                                 *)

\* downloadRelease: a complete file is kept, a part is resumed or begun again.
Download(c) ==
    /\ phase = "core" /\ c \in todo
    /\ IF file[c] \in {"good", "bad"} THEN UNCHANGED file
       ELSE \E f \in {"good", "bad"} : file' = [file EXCEPT ![c] = f]
    /\ arg' = c /\ phase' = "verify"
    /\ UNCHANGED <<settingsVars, bin, badBin, conf, last, wallet, known, op, todo, stops,
                   ops>>

\* The connection breaks: a part of the file stays, the command ends.
DownloadFails(c) ==
    /\ phase = "core" /\ c \in todo /\ file[c] \in {"none", "part"} /\ stops < MaxStops
    /\ file' = [file EXCEPT ![c] = "part"] /\ stops' = stops + 1
    /\ op' = "none" /\ phase' = "none" /\ todo' = {}
    /\ UNCHANGED <<settingsVars, bin, badBin, conf, last, wallet, known, arg, ops>>

\* Mutant: a file of the right size is not checked.
CoreVerifiedNever(c) == TRUE

\* verifyCoreHash and verifyCoreSignature
CoreVerified(c) == file[c] = "good"

\* Mutant: the new version is recorded for every coin when the first one is done.
RecordVersionAll(c) == [mem EXCEPT !.ver = [k \in Coin |-> IF k \in todo THEN known ELSE mem.ver[k]]]

\* The version that is recorded with the next save of an upgrade.
RecordVersion(c) == [mem EXCEPT !.ver[c] = known]

\* The verified release is extracted. Setup and addcoin go on with the next coin; an
\* upgrade records the version of this one and saves.
ExtractCore(c) ==
    /\ phase = "verify" /\ c = arg /\ CoreVerified(c)
    /\ bin' = [bin EXCEPT ![c] = known]
    /\ badBin' = IF file[c] = "good" THEN badBin \ {c} ELSE badBin \cup {c}
    /\ IF op = "upgrade"
       THEN mem' = RecordVersion(c) /\ phase' = "save" /\ todo' = todo \ {c}
       ELSE /\ UNCHANGED mem
            /\ IF todo = {c} THEN phase' = "data" /\ todo' = Listed(mem) \ Listed(saved)
                             ELSE phase' = "core" /\ todo' = todo \ {c}
    /\ UNCHANGED <<json, saved, file, conf, last, wallet, known, op, arg, stops, ops>>

-----------------------------------------------------------------------------
(* prepareDataDir and initialise_wallets.                                  *)

\* The Tor settings go into the file if extra_opts holds the control password: it is
\* taken from the settings for addcoin, and generated too late for it in a setup.
DataDirTor == op = "add" /\ mem.tor

\* Mutant: the settings are saved before the wallets are initialised.
PrepareDataDirSaves(c) ==
    /\ phase = "data" /\ c \in todo /\ conf[c] = "none"
    /\ conf' = [conf EXCEPT ![c] = IF DataDirTor THEN "tor" ELSE "plain"]
    /\ IF todo = {c} THEN Goto("save", {})
                     ELSE Goto("data", todo \ {c})
    /\ UNCHANGED <<settingsVars, file, bin, badBin, last, wallet, known, stops>>

\* The configuration file of a new coin; an existing one ends the command.
PrepareDataDir(c) ==
    /\ phase = "data" /\ c \in todo /\ conf[c] = "none"
    /\ conf' = [conf EXCEPT ![c] = IF DataDirTor THEN "tor" ELSE "plain"]
    /\ IF todo = {c} THEN Goto("wallets", Listed(mem) \ Listed(saved))
                     ELSE Goto("data", todo \ {c})
    /\ UNCHANGED <<settingsVars, file, bin, badBin, last, wallet, known, stops>>

\* Particl first, then the other coins from its key.
InitialiseWallet(c) ==
    /\ phase = "wallets" /\ c \in todo /\ (Part \in todo => c = Part)
    /\ wallet' = wallet \cup {c}
    /\ IF todo = {c} THEN Goto("save", {}) ELSE Goto("wallets", todo \ {c})
    /\ UNCHANGED <<settingsVars, file, bin, badBin, conf, last, known, stops>>

-----------------------------------------------------------------------------
(* modify_tor_config: copy to ".last", then write the file anew from it.   *)

RewriteBegin(c) ==
    /\ phase = "rewrite" /\ c \in todo /\ conf[c] # "none"
    /\ last' = [last EXCEPT ![c] = conf[c]] /\ conf' = [conf EXCEPT ![c] = "torn"]
    /\ phase' = "rewriting" /\ todo' = (todo \ {c}) /\ arg' = c
    /\ UNCHANGED <<settingsVars, file, bin, badBin, wallet, known, op, stops, ops>>

\* Mutant: the settings are removed and not written again.
TorLinesNever(state) == IF state = "torn" THEN "torn" ELSE "plain"

\* The Tor lines are removed and, to enable Tor, written again.
TorLines(state) == IF state = "torn" THEN "torn" ELSE IF op = "tor" THEN "tor" ELSE "plain"

RewriteEnd ==
    /\ phase = "rewriting"
    /\ conf' = [conf EXCEPT ![arg] = TorLines(last[arg])]
    /\ phase' = (IF todo = {} THEN "save" ELSE "rewrite")
    /\ UNCHANGED <<settingsVars, file, bin, badBin, last, wallet, known, op, todo, arg,
                   stops, ops>>

-----------------------------------------------------------------------------
(* save_config writes basicswap.json in place.                             *)

SaveBegin ==
    /\ phase = "save" /\ op # "disnet"
    /\ json' = "torn" /\ phase' = "saving"
    /\ UNCHANGED <<saved, mem, coinFiles, known, op, todo, arg, stops, ops>>

\* The last save ends the command; an upgrade goes on with its next coin.
SaveEnd ==
    /\ phase = "saving"
    /\ json' = "ok" /\ saved' = mem
    /\ IF op = "upgrade" /\ todo # {} THEN phase' = "core" /\ UNCHANGED op
                                      ELSE phase' = "none" /\ op' = "none"
    /\ UNCHANGED <<mem, coinFiles, known, todo, arg, stops, ops>>

\* --disablenetwork returns.
DisableNetworkDone ==
    /\ phase = "save" /\ op = "disnet"
    /\ phase' = "none" /\ op' = "none"
    /\ UNCHANGED <<settingsVars, coinFiles, known, todo, arg, stops, ops>>

\* An exception, exitWithError or a kill: the settings in memory are gone. (In
\* "rewriting" and "saving" only a kill stops the command.)
Stop ==
    /\ op # "none" /\ stops < MaxStops
    /\ op' = "none" /\ phase' = "none" /\ todo' = {} /\ stops' = stops + 1
    /\ UNCHANGED <<settingsVars, coinFiles, known, arg, ops>>

\* The user installs a newer release, with newer cores.
NewRelease ==
    /\ op = "none" /\ known < MaxVersion
    /\ known' = known + 1 /\ file' = [c \in Coin |-> "none"]
    /\ UNCHANGED <<settingsVars, bin, badBin, conf, last, wallet, op, phase, todo, arg,
                   stops, ops>>

Next ==
    \/ \E cs \in SUBSET Coin : Setup(cs)
    \/ \E c \in Coin :
          \/ AddCoin(c) \/ DisableCoin(c) \/ Download(c) \/ DownloadFails(c)
          \/ ExtractCore(c) \/ PrepareDataDir(c) \/ InitialiseWallet(c) \/ RewriteBegin(c)
    \/ \E n \in Net : AddNetwork(n) \/ DisableNetwork(n)
    \/ EnableTor \/ DisableTor \/ UpgradeCores \/ RewriteEnd \/ SaveBegin \/ SaveEnd
    \/ DisableNetworkDone \/ Stop \/ NewRelease

Spec == Init /\ [][Next]_vars

-----------------------------------------------------------------------------
(* Properties.                                                             *)

\* The core version basicswap.json records was extracted, also when an upgrade or a
\* setup stopped half way (prepareCore before save_config).
VersionInstalled == json = "ok" => \A c \in Listed(saved) : saved.ver[c] <= bin[c]

\* No core is extracted from a release file that fails its checks, also when the file
\* lies there from an earlier attempt (tryPrepareCore).
OnlyVerified == badBin = {}

\* A coin in basicswap.json has its configuration file and its wallet.
ListedIsPrepared ==
    json = "ok" => \A c \in Listed(saved) : conf[c] # "none" /\ c \in wallet

\* As long as no command was stopped, the coins use Tor exactly when use_tor is set.
TorAgrees ==
    op = "none" /\ json = "ok" /\ stops = 0
        => \A c \in Listed(saved) : conf[c] = (IF saved.tor THEN "tor" ELSE "plain")

=============================================================================
