------------------------------ MODULE AmmConfig ------------------------------
(***************************************************************************)
(* The two files the market maker script shares with the web interface:    *)
(* the configuration, which every pass of the script reads and may rewrite *)
(* (readConfig in scripts/createoffers.py) and the AMM page edits          *)
(* (basicswap/ui/page_amm.py), and the state file, which the script writes *)
(* from its memory and the page can clear.                                 *)
(*                                                                         *)
(* Neither side locks or renames: a write opens the file, which empties    *)
(* it, and then writes it; a reader in between finds no JSON, and two      *)
(* writers that have the file open at the same time may leave a mixed      *)
(* text.  A configuration is the set of edits it contains.                 *)
(***************************************************************************)
EXTENDS FiniteSets, Naturals

CONSTANTS Edit,       \* edits a user makes on the page (a template, a setting)
          MaxPasses   \* bound: passes of the script

\* What is assumed of the constants.
ConstantsOK ==
    /\ IsFiniteSet(Edit) /\ MaxPasses \in Nat

\* Every edit is handled by a request thread of its own; the script is one more.
Script == "script"
Actors == Edit \cup {Script}

VARIABLES file,     \* [edits, norm, text]: the configuration file; norm: the
                    \* script finds nothing to fill in or to rename
          copy,     \* per actor: the configuration it read or composed
          pc,       \* per actor: "idle", "have" a copy, "open": has the file open,
                    \* "shared": so had another one meanwhile, "done", "failed"
          safe,     \* history: edits written while nobody else held a copy
          script,   \* "up", or "exited" by a fatal error
          memory,   \* offers in the script's own state
          stateFile, \* offers in the state file
          passes

vars == <<file, copy, pc, safe, script, memory, stateFile, passes>>
state == <<memory, stateFile>>

Opened(a) == pc[a] \in {"open", "shared"}
Busy(a) == pc[a] = "have" \/ Opened(a)

Config == [edits : SUBSET Edit, norm : BOOLEAN]
EmptyConfig == [edits |-> {}, norm |-> FALSE]

TypeOK ==
    /\ file \in [edits : SUBSET Edit, norm : BOOLEAN, text : {"whole", "empty", "mixed"}]
    /\ copy \in [Actors -> Config]
    /\ pc \in [Actors -> {"idle", "have", "open", "shared", "done", "failed"}]
    /\ safe \subseteq {e \in Edit : pc[e] = "done"}
    /\ script \in {"up", "exited"}
    /\ memory \subseteq 1..MaxPasses /\ stateFile \subseteq memory
    /\ passes \in 0..MaxPasses
    /\ file.text = "empty" => \E a \in Actors : Opened(a)

Init ==
    /\ file = [edits |-> {}, norm |-> FALSE, text |-> "whole"]
    /\ copy = [a \in Actors |-> EmptyConfig]
    /\ pc = [a \in Actors |-> "idle"]
    /\ safe = {} /\ script = "up" /\ memory = {} /\ stateFile = {} /\ passes = 0

Whole == file.text = "whole"

-----------------------------------------------------------------------------
(* Reading and writing a file.                                             *)

Take(a, c) == copy' = [copy EXCEPT ![a] = c] /\ pc' = [pc EXCEPT ![a] = "have"]
Give(a, p) == pc' = [pc EXCEPT ![a] = p] /\ UNCHANGED copy

\* num_changes > 0 at the end of readConfig: a default to fill in, a template to
\* name, number, rename or clamp; then the file is rewritten.
NeedsRewrite(c) == ~c.norm

\* open(path, "w") empties the file, also under another one that has it open.
Truncate(a) ==
    /\ pc[a] = "have" /\ (a = Script => NeedsRewrite(copy[a]))
    /\ file' = [file EXCEPT !.text = "empty"]
    /\ pc' = LET open == {b \in Actors : Opened(b)}
             IN  [b \in Actors |-> IF b = a THEN IF open = {} THEN "open" ELSE "shared"
                                   ELSE IF b \in open THEN "shared" ELSE pc[b]]
    /\ UNCHANGED <<copy, safe, script, state, passes>>

\* json.dump and close: the actor's copy replaces whatever is there.  Who writes at
\* an offset of its own into a file that another one emptied or filled may leave
\* the rest of the other text, or a hole.
Write(a) ==
    /\ Opened(a)
    /\ \E text \in {"whole"} \cup (IF pc[a] = "shared" THEN {"mixed"} ELSE {}) :
         file' = [edits |-> copy[a].edits, norm |-> a = Script \/ copy[a].norm,
                  text |-> text]
    /\ Give(a, IF a = Script THEN "idle" ELSE "done")
    /\ safe' = IF a # Script /\ \A b \in Actors \ {a} : ~Busy(b)
               THEN safe \cup {a} ELSE safe
    /\ UNCHANGED <<script, state, passes>>

-----------------------------------------------------------------------------
(* The page and the API.                                                   *)

\* Mutant: adding a template starts from the page's default configuration.
AddTemplateFresh(e) ==
    /\ pc[e] = "idle"
    /\ IF ~Whole THEN Give(e, "failed")
       ELSE Take(e, [edits |-> {e}, norm |-> FALSE])
    /\ UNCHANGED <<file, safe, script, state, passes>>

\* save_global_settings, add_offer, add_bid: load the file, change it, write it.
\* A file that cannot be parsed is an error message.
AddTemplate(e) ==
    /\ pc[e] = "idle"
    /\ IF ~Whole THEN Give(e, "failed")
       ELSE \E n \in BOOLEAN : Take(e, [edits |-> file.edits \cup {e}, norm |-> n])
    /\ UNCHANGED <<file, safe, script, state, passes>>

\* validate_amm_config checks amounts, rates, modes and names of every template;
\* what the user typed may pass or not.
ValidateAmmConfig == BOOLEAN

\* save_config and amm_config_api: the text the browser loaded with the page, with
\* the user's edit, if it validates.  It is held from the load of the page on.
SaveConfig(e) ==
    /\ pc[e] = "idle" /\ Whole
    /\ \E ok \in ValidateAmmConfig, n \in BOOLEAN :
         IF ok THEN Take(e, [edits |-> file.edits \cup {e}, norm |-> n])
               ELSE Give(e, "failed")
    /\ UNCHANGED <<file, safe, script, state, passes>>

\* prune_state: the page writes "{}" into the state file.
PruneState ==
    /\ stateFile # {}
    /\ stateFile' = {}
    /\ UNCHANGED <<file, copy, pc, safe, script, memory, passes>>

-----------------------------------------------------------------------------
(* The script.                                                             *)

\* main: each pass starts with readConfig, outside the try block that guards the
\* rest of the pass; a text that is no JSON ends the script ("Fatal error").
ReadConfig ==
    /\ script = "up" /\ pc[Script] = "idle" /\ passes < MaxPasses
    /\ passes' = passes + 1
    /\ IF ~Whole
       THEN script' = "exited" /\ UNCHANGED <<copy, pc>>
       ELSE /\ Take(Script, [edits |-> file.edits, norm |-> file.norm])
            /\ UNCHANGED script
    /\ UNCHANGED <<file, safe, state>>

\* Nothing to rewrite: readConfig returns.
KeepConfig ==
    /\ pc[Script] = "have" /\ ~NeedsRewrite(copy[Script])
    /\ Give(Script, "idle")
    /\ UNCHANGED <<file, safe, script, state, passes>>

\* process_offers posts an offer and write_state writes all of the state.
PostOffer ==
    /\ script = "up" /\ pc[Script] = "idle" /\ passes \notin memory /\ passes > 0
    /\ memory' = memory \cup {passes}
    /\ stateFile' = memory'
    /\ UNCHANGED <<file, copy, pc, safe, script, passes>>

Next ==
    \/ \E e \in Edit : AddTemplate(e) \/ SaveConfig(e)
    \/ \E a \in Actors : Truncate(a) \/ Write(a)
    \/ ReadConfig \/ KeepConfig \/ PostOffer \/ PruneState

Spec == Init /\ [][Next]_vars

-----------------------------------------------------------------------------
(* Properties.                                                             *)

\* An edit that the page reported as saved is in the file, whoever writes it
\* afterwards, if nobody else held a copy of the configuration when it was written:
\* no other request or page of a browser, and no pass of the script.
NoEditLost == Whole => safe \subseteq file.edits
=============================================================================
