---------------------------- MODULE SettingsFile ----------------------------
(***************************************************************************)
(* basicswap.json and the requests that write it while the node runs:      *)
(* editGeneralSettings and editSettings work on a copy of self.settings    *)
(* taken before they get mxDB and write it to a new file that is moved     *)
(* over the old one; enableCoin and disableCoin change self.settings and   *)
(* rewrite the file itself; the AMM page changes self.settings and writes  *)
(* and moves the same new file without a lock.  Each HTTP request is a     *)
(* thread.                                                                 *)
(*                                                                         *)
(* Files are inodes: opening an existing path for writing truncates its    *)
(* inode, a move makes the path name another one.                          *)
(***************************************************************************)
EXTENDS Naturals, Sequences, FiniteSets, FiniteSetsExt

CONSTANTS
    Threads,     \* the HTTP threads
    Kinds,       \* the kinds of request: "general", "coin", "switch", "amm"
    Overlap,     \* requests run at the same time
    MaxRequests, \* requests
    MaxCrashes   \* crashes of the node

\* What is assumed of the constants.
ConstantsOK ==
    /\ Kinds \subseteq {"general", "coin", "switch", "amm"}
    /\ {MaxRequests, MaxCrashes} \subseteq Nat

VARIABLES
    settings, \* self.settings
    runtime,  \* the values the running node uses
    inode,    \* the contents of the files made so far
    path,     \* the inodes of basicswap.json and of its .new, 0 for none
    lock,     \* the holder of mxDB
    thread,   \* the requests
    applied,  \* the value last reported as applied, by key
    used      \* requests and crashes so far

vars == <<settings, runtime, inode, path, lock, thread, applied, used>>

\* The keys of a request in the order they are looked at: one that only takes
\* effect in the running node, one with a range, and a coin's two.
KeysOf(kind) ==
    CASE kind = "general" -> <<"debug", "session_timeout_minutes">>
      [] kind = "coin" -> <<"conf_target", "anon_tx_ring_size">>
      [] kind = "switch" -> <<"connection_type">>
      [] kind = "amm" -> <<"amm_autostart">>

Keys == UNION {{KeysOf(k)[i] : i \in DOMAIN KeysOf(k)} :
                 k \in {"general", "coin", "switch", "amm"}}

\* The keys the running node has a copy of, and those with a range.
Mirrored == {"debug", "conf_target", "anon_tx_ring_size"}

Ranged == {"session_timeout_minutes", "conf_target", "anon_tx_ring_size"}

OutOfRange == 2

KeySet(kind) == {KeysOf(kind)[i] : i \in DOMAIN KeysOf(kind)}

\* The forms of page_settings and of the AMM page.
Requests(kind) ==
    { d \in [KeySet(kind) -> 0 .. OutOfRange] :
        \A k \in KeySet(kind) : d[k] = OutOfRange => k \in Ranged }

Torn == [k \in Keys |-> 99]

NoThread == 0

Free == [pc |-> "free", kind |-> "general", data |-> [k \in {} |-> 0], copy |-> Torn, fd |-> 0]

Init ==
    /\ settings = [k \in Keys |-> 0]
    /\ runtime = [k \in Mirrored |-> 0]
    /\ inode = <<[k \in Keys |-> 0]>>
    /\ path = [file |-> 1, new |-> 0]
    /\ lock = NoThread
    /\ thread = [t \in Threads |-> Free]
    /\ applied = [k \in Keys |-> 0]
    /\ used = [requests |-> 0, crashes |-> 0]

\* The content of the settings file.
OnDisk == inode[path.file]

-----------------------------------------------------------------------------
(* The edits.                                                              *)

\* The keys of a request that are taken before the first one out of range.
Taken(t) ==
    LET ks == KeysOf(thread[t].kind)
    IN { ks[i] : i \in { j \in DOMAIN ks :
           \A m \in 1 .. j : thread[t].data[ks[m]] # OutOfRange } }

Refused(t) == \E k \in DOMAIN thread[t].data : thread[t].data[k] = OutOfRange

\* A request comes in; the edits copy the settings before they wait for mxDB.
Begin(t, kind, data) ==
    /\ thread[t].pc = "free" /\ used.requests < MaxRequests
    /\ Overlap \/ \A u \in Threads : thread[u].pc = "free"
    /\ thread' = [thread EXCEPT ![t] =
         [pc |-> "begun", kind |-> kind, data |-> data, copy |-> settings, fd |-> 0]]
    /\ used' = [used EXCEPT !.requests = @ + 1]
    /\ UNCHANGED <<settings, runtime, inode, path, lock, applied>>

\* The body of editGeneralSettings and of editSettings: the values are checked
\* one after the other, and put in the copy and in the running node; one out
\* of range raises, with the earlier ones already in the running node.
ApplyEdit(t) ==
    /\ thread[t].pc = "begun" /\ thread[t].kind \in {"general", "coin"}
    /\ lock = NoThread
    /\ LET th == thread[t]
           new == [k \in Keys |-> IF k \in Taken(t) THEN th.data[k] ELSE th.copy[k]]
           changed == {k \in Taken(t) : th.data[k] # th.copy[k]}
       IN /\ runtime' = [k \in Mirrored |-> IF k \in changed THEN th.data[k] ELSE runtime[k]]
          /\ IF Refused(t) \/ changed = {}
             THEN thread' = [thread EXCEPT ![t] = Free] /\ UNCHANGED lock
             ELSE /\ thread' = [thread EXCEPT ![t].copy = new, ![t].pc = "open"]
                  /\ lock' = t
    /\ UNCHANGED <<settings, inode, path, applied, used>>

\* enableCoin, disableCoin and the AMM page change self.settings itself and
\* take no lock.
ChangeInPlace(t) ==
    /\ thread[t].pc = "begun" /\ thread[t].kind \in {"switch", "amm"}
    /\ settings' = [k \in Keys |-> IF k \in DOMAIN thread[t].data
                                   THEN thread[t].data[k] ELSE settings[k]]
    /\ thread' = [thread EXCEPT ![t].pc = "open"]
    /\ UNCHANGED <<runtime, inode, path, lock, applied, used>>

\* Mutant: the edits rewrite the settings file as enableCoin does.
WritesNewNever(kind) == FALSE

\* Whether a request writes the .new file and moves it.
WritesNew(kind) == kind # "switch"

\* open(path, "w"): an existing file is truncated.
OpenForWrite(t) ==
    /\ thread[t].pc = "open"
    /\ LET p == IF WritesNew(thread[t].kind) THEN "new" ELSE "file"
           i == IF path[p] # 0 THEN path[p] ELSE Len(inode) + 1
       IN /\ inode' = IF path[p] # 0 THEN [inode EXCEPT ![i] = Torn] ELSE Append(inode, Torn)
          /\ path' = [path EXCEPT ![p] = i]
          /\ thread' = [thread EXCEPT ![t].fd = i, ![t].pc = "dump"]
    /\ UNCHANGED <<settings, runtime, lock, applied, used>>

\* What json.dump writes: the copy of an edit, the live settings otherwise.
Dumped(t) == IF thread[t].kind \in {"general", "coin"} THEN thread[t].copy ELSE settings

Dump(t) ==
    /\ thread[t].pc = "dump"
    /\ inode' = [inode EXCEPT ![thread[t].fd] = Dumped(t)]
    /\ thread' = [thread EXCEPT ![t].pc = IF WritesNew(thread[t].kind) THEN "move" ELSE "end"]
    /\ UNCHANGED <<settings, runtime, path, lock, applied, used>>

\* shutil.move of the .new file; it raises when another request has moved it.
Move(t) ==
    /\ thread[t].pc = "move"
    /\ IF path.new # 0
       THEN /\ path' = [file |-> path.new, new |-> 0]
            /\ thread' = [thread EXCEPT ![t].pc = "end"]
            /\ UNCHANGED lock
       ELSE /\ thread' = [thread EXCEPT ![t] = Free]
            /\ lock' = IF lock = t THEN NoThread ELSE lock
            /\ UNCHANGED path
    /\ UNCHANGED <<settings, runtime, inode, applied, used>>

\* Mutant: an edit keeps self.settings as it was.
SettingsAfterKept(t) == settings

\* The edits make their copy the settings of the node.
SettingsAfter(t) ==
    IF thread[t].kind \in {"general", "coin"} THEN thread[t].copy ELSE settings

\* The request ends and reports its values as applied.
End(t) ==
    /\ thread[t].pc = "end"
    /\ settings' = SettingsAfter(t)
    /\ applied' = [k \in Keys |-> IF k \in DOMAIN thread[t].data
                                  THEN thread[t].data[k] ELSE applied[k]]
    /\ lock' = IF lock = t THEN NoThread ELSE lock
    /\ thread' = [thread EXCEPT ![t] = Free]
    /\ UNCHANGED <<runtime, inode, path, used>>

\* The node dies and starts again from the file, if it can be read.
Crash ==
    /\ used.crashes < MaxCrashes /\ OnDisk # Torn
    /\ settings' = OnDisk
    /\ runtime' = [k \in Mirrored |-> OnDisk[k]]
    /\ thread' = [t \in Threads |-> Free]
    /\ lock' = NoThread
    /\ applied' = [k \in Keys |-> IF \E t \in Threads : k \in DOMAIN thread[t].data
                                  THEN OnDisk[k] ELSE applied[k]]
    /\ used' = [used EXCEPT !.crashes = @ + 1]
    /\ UNCHANGED <<inode, path>>

Next ==
    \/ \E t \in Threads :
         \/ \E kind \in Kinds : \E data \in Requests(kind) : Begin(t, kind, data)
         \/ ApplyEdit(t) \/ ChangeInPlace(t) \/ OpenForWrite(t)
         \/ Dump(t) \/ Move(t) \/ End(t)
    \/ Crash

Spec == Init /\ [][Next]_vars

-----------------------------------------------------------------------------
(* Properties.                                                             *)

\* A node that dies at any moment of an edit finds a complete settings file:
\* the edits never leave basicswap.json half written.
Readable == OnDisk # Torn

\* What was reported as applied is in the settings of the node and in the file
\* once no request is under way, whatever was edited before and after it.
AppliedKept ==
    (\A t \in Threads : thread[t].pc = "free") =>
      \A k \in Keys : settings[k] = applied[k] /\ OnDisk[k] = applied[k]

=============================================================================
