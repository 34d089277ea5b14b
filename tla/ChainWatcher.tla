---------------------------- MODULE ChainWatcher ----------------------------
(***************************************************************************)
(* The search of one coin's chain for spends of watched outputs:           *)
(* checkWatched, checkForSpends and, for a coin in electrum mode, the      *)
(* background fetch.  The position in the chain is kept in memory and      *)
(* persisted block by block, the watched outputs are in memory only and    *)
(* are added again for every active bid after a restart.                   *)
(*                                                                         *)
(* A block is a number, its time is its height.  Reorganisations replace   *)
(* the end of the chain by a longer one.  The loop of checkForSpends is    *)
(* one step per block, so that blocks arrive and the process dies inside   *)
(* it.                                                                     *)
(***************************************************************************)
EXTENDS Integers, Sequences, FiniteSets, SequencesExt

CONSTANTS
  Outputs,     \* outputs that bids watch
  Txs,         \* the transactions of the bids that spend outputs
  SpentBy,     \* SpentBy[o]: the transaction that spends o
  TxHeight,    \* TxHeight[o]: height of the transaction with the output o
  AdaptorBid,  \* the outputs belong to adaptor-signature bids
  Mode,        \* how the coin is searched: "blocks", "spent_index", "electrum"
  LateAdd,     \* an output may be spent already when its watch is added
  MaxHeight,   \* bound on the chain
  MaxReorgs,   \* bound on reorganisations
  MaxCrashes,  \* bound on crashes
  MaxLoop      \* _max_check_loop_blocks

\* What is assumed of the constants.
ConstantsOK ==
    /\ TxHeight \in [Outputs -> 1..MaxHeight]
    /\ SpentBy \in [Outputs -> Txs]
    /\ {MaxHeight, MaxLoop} \subseteq Nat \ {0}
    /\ {MaxReorgs, MaxCrashes} \subseteq Nat
    /\ {AdaptorBid, LateAdd} \subseteq BOOLEAN
    /\ Mode \in {"blocks", "spent_index", "electrum"}

\* The first block that reorganisations may replace.
Base == 1 + (CHOOSE h \in {TxHeight[o] : o \in Outputs} :
               \A o \in Outputs : TxHeight[o] <= h)

\* Heights are below this.
Never == MaxHeight + 1

VARIABLES
  chain,       \* the blocks of the best chain
  blocks,      \* blocks made so far
  mined,       \* mined[t]: the block with transaction t, 0 if there is none
  bids,        \* outputs that active bids want watched
  watched,     \* cc["watched_outputs"]
  last_height_checked, block_check_min_time,  \* of coin_clients, in memory
  saved_height,                               \* last_height_checked_<coin>
  checked,     \* the checkedblocks table
  cur, top,    \* the loop of checkForSpends: its own height and chain_blocks;
               \* cur is -1 when it does not run
  budget,      \* iterations the loop may still make
  fetched,     \* results of the background fetch, <<>> when there are none
  noticed,     \* spends given to processSpentOutput
  up, reorgs, crashes

vars == <<chain, blocks, mined, bids, watched, last_height_checked,
          block_check_min_time, saved_height, checked, cur, top, budget,
          fetched, noticed, up, reorgs, crashes>>

chainVars == <<chain, blocks, mined>>
loopVars == <<cur, top, budget>>

TypeOK ==
  /\ chain \in Seq(Nat) /\ Len(chain) \in Base..MaxHeight
  /\ mined \in [Txs -> 0..blocks]
  /\ bids \subseteq Outputs
  /\ ToSet(watched) \subseteq Outputs /\ IsInjective(watched)
  /\ last_height_checked \in 0..MaxHeight
  /\ saved_height \in 0..MaxHeight
  /\ block_check_min_time \in 0..Never
  /\ checked \subseteq 1..blocks
  /\ cur \in -1..MaxHeight /\ top \in 0..MaxHeight /\ budget \in 0..MaxLoop
  /\ noticed \subseteq Txs
  /\ up \in BOOLEAN /\ reorgs \in 0..MaxReorgs /\ crashes \in 0..MaxCrashes

Init ==
  /\ chain = [h \in 1..Base |-> h]
  /\ blocks = Base
  /\ mined = [t \in Txs |-> 0]
  /\ bids = {}
  /\ watched = <<>>
  /\ last_height_checked = 0
  /\ block_check_min_time = Never
  /\ saved_height = 0
  /\ checked = {}
  /\ cur = -1 /\ top = 0 /\ budget = 0
  /\ fetched = <<>>
  /\ noticed = {}
  /\ up = TRUE /\ reorgs = 0 /\ crashes = 0

-----------------------------------------------------------------------------
\* The network.

InChain(t) == \E h \in 1..Len(chain) : chain[h] = mined[t]

\* A new block, with any of the spends that wait.
NewBlock ==
  /\ Len(chain) < MaxHeight
  /\ chain' = Append(chain, blocks + 1)
  /\ blocks' = blocks + 1
  /\ \E S \in SUBSET {t \in Txs : ~InChain(t)} :
       mined' = [t \in Txs |-> IF t \in S THEN blocks + 1 ELSE mined[t]]
  /\ UNCHANGED <<bids, watched, last_height_checked, block_check_min_time,
                 saved_height, checked, cur, top, budget, fetched, noticed, up,
                 reorgs, crashes>>

\* The last k blocks are replaced by k + 1 others; their spends are mined
\* anywhere in the new ones, or wait again.
Reorg(k) ==
  LET n == Len(chain)
      new == blocks + 1..blocks + k + 1
  IN /\ reorgs < MaxReorgs
     /\ n - k >= Base /\ n + 1 <= MaxHeight
     /\ chain' = SubSeq(chain, 1, n - k) \o [i \in 1..k + 1 |-> blocks + i]
     /\ blocks' = blocks + k + 1
     /\ mined' \in {m \in [Txs -> new \union {0} \union {mined[t] : t \in Txs}] :
                      \A t \in Txs :
                        IF InChain(t) /\ \E h \in 1..n - k : chain[h] = mined[t]
                        THEN m[t] = mined[t] ELSE m[t] \in new \union {0}}
     /\ reorgs' = reorgs + 1
     /\ UNCHANGED <<bids, watched, last_height_checked, block_check_min_time,
                    saved_height, checked, cur, top, budget, fetched, noticed,
                    up, crashes>>

-----------------------------------------------------------------------------
\* The watched list.

\* Mutant: the search only ever moves on.
SetLastHeightCheckedStartOnce(h, w, at) ==
  IF w = <<>> THEN [height |-> h, min_time |-> h] ELSE at

\* setLastHeightCheckedStart: where the search stands after the start at height
\* h, with the watched outputs w and the search at position at before.
SetLastHeightCheckedStart(h, w, at) ==
  IF w = <<>> \/ at.height > h THEN [height |-> h, min_time |-> h] ELSE at

\* addWatchedOutput: once per output.
AddWatchedOutput(w, o) == IF o \in ToSet(w) THEN w ELSE Append(w, o)

\* removeWatchedOutput, with the output of one transaction.
RemoveWatchedOutput(w, o) == SelectSeq(w, LAMBDA x : x # o)

Position == [height |-> last_height_checked, min_time |-> block_check_min_time]

MoveTo(p) ==
  /\ last_height_checked' = p.height
  /\ block_check_min_time' = p.min_time

\* A swap step starts to watch o.
Watch(o) ==
  /\ up /\ cur = -1
  /\ o \notin bids /\ SpentBy[o] \notin noticed
  /\ LateAdd \/ ~InChain(SpentBy[o])
  /\ bids' = bids \union {o}
  /\ MoveTo(SetLastHeightCheckedStart(TxHeight[o], watched, Position))
  /\ watched' = AddWatchedOutput(watched, o)
  /\ UNCHANGED <<chainVars, saved_height, checked, loopVars, fetched, noticed,
                 up, reorgs, crashes>>

\* deactivateBid stops watching o.
Unwatch(o) ==
  /\ up /\ cur = -1
  /\ o \in bids
  /\ bids' = bids \ {o}
  /\ watched' = RemoveWatchedOutput(watched, o)
  /\ UNCHANGED <<chainVars, last_height_checked, block_check_min_time,
                 saved_height, checked, loopVars, fetched, noticed, up, reorgs,
                 crashes>>

-----------------------------------------------------------------------------
\* The search of a coin with an RPC connection.

\* The outputs one transaction of a block takes out of the list w.  The list is
\* iterated while processSpentOutput removes from it: the entry after a removed
\* one is passed over.
Hits(w, t) ==
  LET hit[i \in 0..Len(w)] == i > 0 /\ SpentBy[w[i]] = t /\ ~hit[i - 1]
  IN {w[i] : i \in {j \in 1..Len(w) : hit[j]}}

\* The spends in block b that the loop over its transactions finds.
Found(b) == {o \in ToSet(watched) : \E t \in Txs : mined[t] = b /\ o \in Hits(watched, t)}

\* checkWatched, checkForSpends up to its loop.
BeginCheck ==
  /\ up /\ Mode = "blocks" /\ cur = -1
  /\ watched # <<>>
  /\ last_height_checked < Len(chain)
  /\ cur' = last_height_checked
  /\ top' = Len(chain)
  /\ budget' = MaxLoop
  /\ UNCHANGED <<chainVars, bids, watched, last_height_checked,
                 block_check_min_time, saved_height, checked, fetched, noticed,
                 up, reorgs, crashes>>

\* Mutant of HaveCheckedPrevBlock: the previous block is not looked at.
AssumePrevBlock(h) == TRUE

\* haveCheckedPrevBlock, for the block at height h.
HaveCheckedPrevBlock(h) == chain[h - 1] \in checked

\* updateCheckedBlock.
UpdateCheckedBlock(h) ==
  /\ last_height_checked' = h
  /\ saved_height' = IF last_height_checked = h THEN saved_height ELSE h
  /\ checked' = checked \union {chain[h]}

\* One iteration: step back to a block whose parent was checked, or look
\* through the block.
CheckBlock ==
  LET h == cur + 1
  IN /\ up /\ cur # -1 /\ cur < top /\ budget > 0
     /\ budget' = budget - 1
     /\ IF block_check_min_time > h \/ cur < 1 \/ HaveCheckedPrevBlock(h)
        THEN /\ noticed' = noticed \union {SpentBy[o] : o \in Found(chain[h])}
             /\ watched' = SelectSeq(watched, LAMBDA o : o \notin Found(chain[h]))
             /\ bids' = bids \ Found(chain[h])
             /\ cur' = h
             /\ UpdateCheckedBlock(h)
        ELSE /\ cur' = cur - 1
             /\ UNCHANGED <<noticed, watched, bids, last_height_checked,
                            saved_height, checked>>
     /\ UNCHANGED <<chainVars, block_check_min_time, top, fetched, up, reorgs,
                    crashes>>

\* The loop ends at chain_blocks, at its limit or with an error of the daemon.
EndCheck ==
  /\ cur # -1
  /\ cur' = -1
  /\ UNCHANGED <<chainVars, bids, watched, last_height_checked,
                 block_check_min_time, saved_height, checked, top, budget,
                 fetched, noticed, up, reorgs, crashes>>

\* Mutant: a spend is only asked for when it is the last of the list.
CheckSpentIndexLast ==
  LET R == {o \in ToSet(watched) : InChain(SpentBy[o]) /\ Len(watched) = 1}
  IN /\ up /\ Mode = "spent_index" /\ R # {}
     /\ noticed' = noticed \union {SpentBy[o] : o \in R}
     /\ watched' = SelectSeq(watched, LAMBDA o : o \notin R)
     /\ bids' = bids \ R
     /\ UNCHANGED <<chainVars, last_height_checked, block_check_min_time,
                    saved_height, checked, loopVars, fetched, up, reorgs, crashes>>

\* checkForSpends of a coin with a spent index: every watched output is asked
\* for, the entry after a removed one again in the next round.
CheckSpentIndex ==
  LET hit[i \in 0..Len(watched)] ==
        i > 0 /\ InChain(SpentBy[watched[i]]) /\ ~hit[i - 1]
      R == {watched[i] : i \in {j \in 1..Len(watched) : hit[j]}}
  IN /\ up /\ Mode = "spent_index" /\ R # {}
     /\ noticed' = noticed \union {SpentBy[o] : o \in R}
     /\ watched' = SelectSeq(watched, LAMBDA o : o \notin R)
     /\ bids' = bids \ R
     /\ UNCHANGED <<chainVars, last_height_checked, block_check_min_time,
                    saved_height, checked, loopVars, fetched, up, reorgs, crashes>>

-----------------------------------------------------------------------------
\* The search of a coin in electrum mode.

\* checkWatched hands a copy of the list to a background thread
\* (_fetchSpendsElectrum); a query may fail, so any of the spends that are
\* mined may be missing from the results.
FetchSpends ==
  /\ up /\ Mode = "electrum" /\ fetched = <<>>
  /\ watched # <<>>
  /\ \E R \in SUBSET {o \in ToSet(watched) : InChain(SpentBy[o])} :
       fetched' = <<[outputs |-> R, chain_blocks |-> Len(chain)]>>
  /\ UNCHANGED <<chainVars, bids, watched, last_height_checked,
                 block_check_min_time, saved_height, checked, loopVars, noticed,
                 up, reorgs, crashes>>

\* Mutant of ProcessFetchedSpends: the whole list is taken for checked.
ProcessFetchedSpendsAll ==
  /\ up /\ fetched # <<>>
  /\ noticed' = noticed \union {SpentBy[o] : o \in Head(fetched).outputs}
  /\ watched' = <<>>
  /\ last_height_checked' = Head(fetched).chain_blocks
  /\ fetched' = <<>>
  /\ UNCHANGED <<chainVars, bids, block_check_min_time, saved_height, checked,
                 loopVars, up, reorgs, crashes>>

\* update, _processFetchedSpends: what was found is processed, also for outputs
\* that are not watched any more; a bid that has ended ignores it.
ProcessFetchedSpends ==
  LET R == Head(fetched).outputs
  IN /\ up /\ fetched # <<>>
     /\ noticed' = noticed \union {SpentBy[o] : o \in R \intersect bids}
     /\ watched' = SelectSeq(watched, LAMBDA o : o \notin R)
     /\ bids' = bids \ R
     /\ last_height_checked' = Head(fetched).chain_blocks
     /\ fetched' = <<>>
     /\ UNCHANGED <<chainVars, block_check_min_time, saved_height, checked,
                    loopVars, up, reorgs, crashes>>

-----------------------------------------------------------------------------
\* Restarts.

Crash ==
  /\ up /\ crashes < MaxCrashes
  /\ crashes' = crashes + 1
  /\ up' = FALSE
  /\ watched' = <<>>
  /\ fetched' = <<>>
  /\ cur' = -1
  /\ UNCHANGED <<chainVars, bids, last_height_checked, block_check_min_time,
                 saved_height, checked, top, budget, noticed, reorgs>>

\* Mutant: the outputs of a reloaded bid are not watched.
ReWatchNone(B) == <<>>

\* activateBid watches the outputs of every active bid again.
ReWatch(B) == SetToSeq(B)

\* activateBid for the bids in the order seq: an adaptor-signature bid starts
\* the search at its own height (watchXmrSwap), a secret-hash bid only when
\* there is no position yet.
Resume(seq, p) ==
  LET at[i \in 0..Len(seq)] ==
        IF i = 0 THEN p
        ELSE IF AdaptorBid
        THEN SetLastHeightCheckedStart(TxHeight[seq[i]], SubSeq(seq, 1, i - 1),
                                       at[i - 1])
        ELSE IF at[i - 1].height < 1
        THEN SetLastHeightCheckedStart(TxHeight[seq[i]], SubSeq(seq, 1, i),
                                       at[i - 1])
        ELSE at[i - 1]
  IN at[Len(seq)]

\* setCoinConnectParams reads the saved height, and block_check_min_time under
\* another name than it was saved with: it is never found.
Restart ==
  /\ ~up
  /\ up' = TRUE
  /\ LET seq == ReWatch(bids)
     IN /\ watched' = seq
        /\ MoveTo(Resume(seq, [height |-> saved_height, min_time |-> Never]))
  /\ UNCHANGED <<chainVars, bids, saved_height, checked, loopVars, fetched,
                 noticed, reorgs, crashes>>

Search == BeginCheck \/ CheckBlock \/ CheckSpentIndex \/ FetchSpends \/ ProcessFetchedSpends

Next ==
  \/ NewBlock
  \/ \E k \in 1..2 : Reorg(k)
  \/ \E o \in Outputs : Watch(o) \/ Unwatch(o)
  \/ Search \/ EndCheck
  \/ Crash \/ Restart

Spec == Init /\ [][Next]_vars

\* A step in which a query of the daemon or of the electrum server fails.
QueryFails ==
  \/ cur # -1 /\ cur' = -1 /\ up' /\ cur < top /\ budget > 0
  \/ /\ fetched = <<>> /\ fetched' # <<>>
     /\ \E o \in ToSet(watched) :
          InChain(SpentBy[o]) /\ o \notin Head(fetched').outputs

-----------------------------------------------------------------------------
\* Properties.

\* No spend is left behind: below the height the search has reached, as long as
\* that block is on the chain, there is no spend of an output that is still
\* watched, unless the same transaction was noticed by another output of it.
NoSpendMissed ==
  up /\ Mode = "blocks" /\ last_height_checked > 0
     /\ chain[last_height_checked] \in checked =>
    \A o \in ToSet(watched) : \A h \in 1..last_height_checked :
      chain[h] = mined[SpentBy[o]] => SpentBy[o] \in noticed

\* Only an output nobody waits for is out of the list: what an active bid wants
\* watched is watched while the process runs.
BidsWatched == up => bids = ToSet(watched)

\* A bid waits for the spend of o and it is in the chain.
SpendWaits(o) == o \in bids /\ InChain(SpentBy[o])

\* The spend was noticed, or the bid or the chain has changed.
SpendServed(o) == SpentBy[o] \in noticed \/ ~SpendWaits(o)
=============================================================================
