------------------------------- MODULE MCNode -------------------------------
(***************************************************************************)
(* The parts of a node besides the two swap protocols, each on small       *)
(* instances: the action queue, the chain watcher, the budget of an offer, *)
(* the terms of offers and bids, expiry, the settings file, and what       *)
(* messages travel over: routes, split messages, portals, the commands to  *)
(* the Simplex client, the peer links and the SMSG inbox.  One part moves  *)
(* in a behaviour, and `part' says which; the others stay where they       *)
(* began, so that the states of a run are the sum of the states of its     *)
(* parts.                                                                  *)
(***************************************************************************)
EXTENDS Integers, Sequences, TLC, FiniteSetTheorems, TLAPS

Bid2 == {"b1", "b2"}

Bid3 == {"b1", "b2", "b3"}

\* The first two actions of each bid, by number; a bid and a contact likewise.
Steps ==
    <<[bid |-> "b1", n |-> 1], [bid |-> "b1", n |-> 2],
      [bid |-> "b2", n |-> 1], [bid |-> "b2", n |-> 2]>>

OutputNo == <<"o1", "o2">>

BidNo == <<"b1", "b1", "b2">>

\* What the bids take of the offer.
Amounts == [b \in Bid3 |-> CASE b = "b1" -> 2 [] b = "b2" -> 1 [] b = "b3" -> 3]

\* Secret-hash swaps with and without relative locks on both chains, adaptor
\* swaps in the two directions.
CoinPairs ==
    {[swap |-> "SELLER_FIRST", reverse |-> FALSE, csv_from |-> TRUE, csv_to |-> TRUE],
     [swap |-> "SELLER_FIRST", reverse |-> FALSE, csv_from |-> FALSE, csv_to |-> TRUE],
     [swap |-> "XMR_SWAP", reverse |-> FALSE, csv_from |-> TRUE, csv_to |-> FALSE],
     [swap |-> "XMR_SWAP", reverse |-> TRUE, csv_from |-> FALSE, csv_to |-> TRUE]}

\* A relative lock off the granularity and an absolute one.
OfferLocks ==
    {[type |-> "SEQUENCE_LOCK_TIME", value |-> 4000],
     [type |-> "ABS_LOCK_TIME", value |-> 14400]}

\* A node with an estimate, one that only knows the relay fee.
FeeViews ==
    {[low |-> 0, est |-> 12, src |-> "estimatesmartfee", hard |-> 10,
      high |-> 25, low_pct |-> 80, high_pct |-> 400],
     [low |-> 0, est |-> 5, src |-> "relayfee", hard |-> 5,
      high |-> 25, low_pct |-> 80, high_pct |-> 400]}

\* The parts that a run moves.
CONSTANT Parts

\* The part that moves in this behaviour.
VARIABLE part

-----------------------------------------------------------------------------
\* The action queue.
VARIABLES
    q_time, q_rows, q_bid, q_batch, q_handled, q_saved, q_errors

q_vars ==
    <<q_time, q_rows, q_bid, q_batch, q_handled, q_saved, q_errors>>

Queue == INSTANCE ActionQueue_proofs WITH
    Bids <- Bid2, Delays <- {1, 2}, MaxTime <- 4, MaxSteps <- 2, MaxErrors <- 1,
    time <- q_time, rows <- q_rows, bid <- q_bid, batch <- q_batch,
    handled <- q_handled, saved <- q_saved, errors <- q_errors

-----------------------------------------------------------------------------
\* The chain watcher.
VARIABLES
    w_chain, w_blocks, w_mined, w_bids, w_watched, w_last_height_checked,
    w_block_check_min_time, w_saved_height, w_checked, w_cur, w_top, w_budget,
    w_fetched, w_noticed, w_up, w_reorgs, w_crashes

w_vars ==
    <<w_chain, w_blocks, w_mined, w_bids, w_watched, w_last_height_checked,
      w_block_check_min_time, w_saved_height, w_checked, w_cur, w_top, w_budget,
      w_fetched, w_noticed, w_up, w_reorgs, w_crashes>>

\* A coin searched block by block, adaptor-signature bids.
Watch == INSTANCE ChainWatcher WITH
    Outputs <- {"o1", "o2"}, Txs <- {"t1", "t2"}, SpentBy <- [o1 |-> "t1", o2 |-> "t2"],
    TxHeight <- [o1 |-> 1, o2 |-> 2], AdaptorBid <- TRUE, Mode <- "blocks",
    LateAdd <- TRUE, MaxHeight <- 5, MaxReorgs <- 1, MaxCrashes <- 1, MaxLoop <- 6,
    chain <- w_chain, blocks <- w_blocks, mined <- w_mined, bids <- w_bids,
    watched <- w_watched, last_height_checked <- w_last_height_checked,
    block_check_min_time <- w_block_check_min_time, saved_height <- w_saved_height,
    checked <- w_checked, cur <- w_cur, top <- w_top, budget <- w_budget,
    fetched <- w_fetched, noticed <- w_noticed, up <- w_up, reorgs <- w_reorgs,
    crashes <- w_crashes

\* One transaction spends both outputs.
WatchOne == INSTANCE ChainWatcher WITH
    Outputs <- {"o1", "o2"}, Txs <- {"t1", "t2"}, SpentBy <- [o1 |-> "t1", o2 |-> "t1"],
    TxHeight <- [o1 |-> 1, o2 |-> 1], AdaptorBid <- TRUE, Mode <- "blocks",
    LateAdd <- TRUE, MaxHeight <- 4, MaxReorgs <- 1, MaxCrashes <- 1, MaxLoop <- 6,
    chain <- w_chain, blocks <- w_blocks, mined <- w_mined, bids <- w_bids,
    watched <- w_watched, last_height_checked <- w_last_height_checked,
    block_check_min_time <- w_block_check_min_time, saved_height <- w_saved_height,
    checked <- w_checked, cur <- w_cur, top <- w_top, budget <- w_budget,
    fetched <- w_fetched, noticed <- w_noticed, up <- w_up, reorgs <- w_reorgs,
    crashes <- w_crashes

\* Secret-hash bids, with a crash.
WatchHtlc == INSTANCE ChainWatcher WITH
    Outputs <- {"o1", "o2"}, Txs <- {"t1", "t2"}, SpentBy <- [o1 |-> "t1", o2 |-> "t2"],
    TxHeight <- [o1 |-> 1, o2 |-> 1], AdaptorBid <- FALSE, Mode <- "blocks",
    LateAdd <- FALSE, MaxHeight <- 4, MaxReorgs <- 0, MaxCrashes <- 1, MaxLoop <- 4,
    chain <- w_chain, blocks <- w_blocks, mined <- w_mined, bids <- w_bids,
    watched <- w_watched, last_height_checked <- w_last_height_checked,
    block_check_min_time <- w_block_check_min_time, saved_height <- w_saved_height,
    checked <- w_checked, cur <- w_cur, top <- w_top, budget <- w_budget,
    fetched <- w_fetched, noticed <- w_noticed, up <- w_up, reorgs <- w_reorgs,
    crashes <- w_crashes

\* A coin behind an electrum server.
WatchElectrum == INSTANCE ChainWatcher WITH
    Outputs <- {"o1", "o2"}, Txs <- {"t1", "t2"}, SpentBy <- [o1 |-> "t1", o2 |-> "t2"],
    TxHeight <- [o1 |-> 1, o2 |-> 2], AdaptorBid <- TRUE, Mode <- "electrum",
    LateAdd <- TRUE, MaxHeight <- 4, MaxReorgs <- 1, MaxCrashes <- 1, MaxLoop <- 6,
    chain <- w_chain, blocks <- w_blocks, mined <- w_mined, bids <- w_bids,
    watched <- w_watched, last_height_checked <- w_last_height_checked,
    block_check_min_time <- w_block_check_min_time, saved_height <- w_saved_height,
    checked <- w_checked, cur <- w_cur, top <- w_top, budget <- w_budget,
    fetched <- w_fetched, noticed <- w_noticed, up <- w_up, reorgs <- w_reorgs,
    crashes <- w_crashes

\* A coin whose daemon has a spent index.
WatchIndex == INSTANCE ChainWatcher WITH
    Outputs <- {"o1", "o2"}, Txs <- {"t1", "t2"}, SpentBy <- [o1 |-> "t1", o2 |-> "t2"],
    TxHeight <- [o1 |-> 1, o2 |-> 2], AdaptorBid <- TRUE, Mode <- "spent_index",
    LateAdd <- TRUE, MaxHeight <- 4, MaxReorgs <- 1, MaxCrashes <- 1, MaxLoop <- 6,
    chain <- w_chain, blocks <- w_blocks, mined <- w_mined, bids <- w_bids,
    watched <- w_watched, last_height_checked <- w_last_height_checked,
    block_check_min_time <- w_block_check_min_time, saved_height <- w_saved_height,
    checked <- w_checked, cur <- w_cur, top <- w_top, budget <- w_budget,
    fetched <- w_fetched, noticed <- w_noticed, up <- w_up, reorgs <- w_reorgs,
    crashes <- w_crashes

-----------------------------------------------------------------------------
\* The budget of an offer.
VARIABLES
    b_state, b_last, b_accepts, b_funded, b_filled, b_fills_completed, b_notices,
    b_uncounted, b_overtaken,
    b_revoking, b_revoke_sent, b_active, b_expired, b_offer_expired, b_up, b_faults

b_vars ==
    <<b_state, b_last, b_accepts, b_funded, b_filled, b_fills_completed, b_notices,
    b_uncounted, b_overtaken,
      b_revoking, b_revoke_sent, b_active, b_expired, b_offer_expired, b_up, b_faults>>

\* Two bids of which the offer can pay one.
UserAccepts == INSTANCE OfferBudget_proofs WITH
    Bids <- Bid2, Amount <- [b \in Bid2 |-> Amounts[b]], Kind <- "adaptor",
    Mode <- "FIXED_TOTAL", Budget <- 2, Balance <- 9, Floor <- 0, MaxConcurrent <- 2,
    Manual <- TRUE, MaxFaults <- 1,
    state <- b_state, last <- b_last, accepts <- b_accepts, funded <- b_funded,
    filled <- b_filled, fills_completed <- b_fills_completed, notices <- b_notices,
    uncounted <- b_uncounted, overtaken <- b_overtaken,
    revoking <- b_revoking, revoke_sent <- b_revoke_sent, active <- b_active,
    expired <- b_expired, offer_expired <- b_offer_expired, up <- b_up,
    faults <- b_faults

\* An offer that is filled once.
OneTime == INSTANCE OfferBudget_proofs WITH
    Bids <- Bid2, Amount <- [b \in Bid2 |-> 1], Kind <- "reverse", Mode <- "ONE_TIME",
    Budget <- 1, Balance <- 9, Floor <- 0, MaxConcurrent <- 2, Manual <- TRUE,
    MaxFaults <- 1,
    state <- b_state, last <- b_last, accepts <- b_accepts, funded <- b_funded,
    filled <- b_filled, fills_completed <- b_fills_completed, notices <- b_notices,
    uncounted <- b_uncounted, overtaken <- b_overtaken,
    revoking <- b_revoking, revoke_sent <- b_revoke_sent, active <- b_active,
    expired <- b_expired, offer_expired <- b_offer_expired, up <- b_up,
    faults <- b_faults

\* A strategy accepts one bid at a time.
Automated == INSTANCE OfferBudget_proofs WITH
    Bids <- Bid3, Amount <- Amounts, Kind <- "secret_hash", Mode <- "LEGACY",
    Budget <- 4, Balance <- 9, Floor <- 0, MaxConcurrent <- 1, Manual <- FALSE,
    MaxFaults <- 0,
    state <- b_state, last <- b_last, accepts <- b_accepts, funded <- b_funded,
    filled <- b_filled, fills_completed <- b_fills_completed, notices <- b_notices,
    uncounted <- b_uncounted, overtaken <- b_overtaken,
    revoking <- b_revoking, revoke_sent <- b_revoke_sent, active <- b_active,
    expired <- b_expired, offer_expired <- b_offer_expired, up <- b_up,
    faults <- b_faults

\* An offer with a reserve.
Standing == INSTANCE OfferBudget_proofs WITH
    Bids <- Bid2, Amount <- [b \in Bid2 |-> Amounts[b]], Kind <- "adaptor",
    Mode <- "STANDING", Budget <- 4, Balance <- 5, Floor <- 3, MaxConcurrent <- 2,
    Manual <- TRUE, MaxFaults <- 0,
    state <- b_state, last <- b_last, accepts <- b_accepts, funded <- b_funded,
    filled <- b_filled, fills_completed <- b_fills_completed, notices <- b_notices,
    uncounted <- b_uncounted, overtaken <- b_overtaken,
    revoking <- b_revoking, revoke_sent <- b_revoke_sent, active <- b_active,
    expired <- b_expired, offer_expired <- b_offer_expired, up <- b_up,
    faults <- b_faults

\* Notifications are late and fills fail.
Reconciled == INSTANCE OfferBudget_proofs WITH
    Bids <- Bid2, Amount <- [b \in Bid2 |-> Amounts[b]], Kind <- "adaptor",
    Mode <- "FIXED_TOTAL", Budget <- 4, Balance <- 9, Floor <- 0, MaxConcurrent <- 2,
    Manual <- TRUE, MaxFaults <- 2,
    state <- b_state, last <- b_last, accepts <- b_accepts, funded <- b_funded,
    filled <- b_filled, fills_completed <- b_fills_completed, notices <- b_notices,
    uncounted <- b_uncounted, overtaken <- b_overtaken,
    revoking <- b_revoking, revoke_sent <- b_revoke_sent, active <- b_active,
    expired <- b_expired, offer_expired <- b_offer_expired, up <- b_up,
    faults <- b_faults

\* Both bids together exhaust the offer.
Closing == INSTANCE OfferBudget_proofs WITH
    Bids <- Bid2, Amount <- [b \in Bid2 |-> Amounts[b]], Kind <- "adaptor",
    Mode <- "FIXED_TOTAL", Budget <- 3, Balance <- 9, Floor <- 0, MaxConcurrent <- 2,
    Manual <- TRUE, MaxFaults <- 0,
    state <- b_state, last <- b_last, accepts <- b_accepts, funded <- b_funded,
    filled <- b_filled, fills_completed <- b_fills_completed, notices <- b_notices,
    uncounted <- b_uncounted, overtaken <- b_overtaken,
    revoking <- b_revoking, revoke_sent <- b_revoke_sent, active <- b_active,
    expired <- b_expired, offer_expired <- b_offer_expired, up <- b_up,
    faults <- b_faults

-----------------------------------------------------------------------------
\* The terms of offers and bids.
VARIABLES
    o_db, o_net, o_pending, o_expired, o_env, o_bids, o_attempt

o_vars ==
    <<o_db, o_net, o_pending, o_expired, o_env, o_bids, o_attempt>>

Terms == INSTANCE OfferTerms WITH
    COIN <- 100, Pairs <- CoinPairs, AmountsFrom <- {91}, AmountsTo <- {120},
    MinBids <- {30}, Wants <- {30, 91}, Rates <- {120, 131}, Totals <- {60}, TxFee <- 3,
    Locks <- OfferLocks, Regtest <- FALSE, MinAmount <- 1, MaxAmount <- 1000,
    MinLock <- 3600, MaxLock <- 345600, Fees <- {9, 30}, Envs <- FeeViews,
    AdjustTries <- 8, MaxBids <- 1,
    db <- o_db, net <- o_net, pending <- o_pending, expired <- o_expired, env <- o_env,
    bids <- o_bids, attempt <- o_attempt

-----------------------------------------------------------------------------
\* Expiry of offers and bids, and removal of old records.
VARIABLES
    x_time, x_passed, x_st, x_exp, x_expiring, x_checked, x_locked

x_vars ==
    <<x_time, x_passed, x_st, x_exp, x_expiring, x_checked, x_locked>>

Expiring == INSTANCE Expiry WITH
    Offers <- {"o1"}, Bids <- Bid2, OfferOf <- [b \in Bid2 |-> "o1"],
    ValidFor <- {1, 2}, Interval <- 2, Retain <- 3, UnusedOnly <- FALSE, MaxTime <- 6,
    time <- x_time, passed <- x_passed, st <- x_st, exp <- x_exp,
    expiring <- x_expiring, checked <- x_checked, locked <- x_locked

\* Only offers without bids are removed.
Unused == INSTANCE Expiry WITH
    Offers <- {"o1", "o2"}, Bids <- {"b1"}, OfferOf <- [b \in {"b1"} |-> "o1"],
    ValidFor <- {1, 2}, Interval <- 2, Retain <- 1, UnusedOnly <- TRUE, MaxTime <- 4,
    time <- x_time, passed <- x_passed, st <- x_st, exp <- x_exp,
    expiring <- x_expiring, checked <- x_checked, locked <- x_locked

-----------------------------------------------------------------------------
\* The settings file.
VARIABLES
    s_settings, s_runtime, s_inode, s_path, s_lock, s_thread, s_applied, s_used

s_vars ==
    <<s_settings, s_runtime, s_inode, s_path, s_lock, s_thread, s_applied, s_used>>

\* Two requests at the same time.
Settings == INSTANCE SettingsFile WITH
    Threads <- {1, 2}, Kinds <- {"general", "coin"}, Overlap <- TRUE, MaxRequests <- 2,
    MaxCrashes <- 1,
    settings <- s_settings, runtime <- s_runtime, inode <- s_inode, path <- s_path,
    lock <- s_lock, thread <- s_thread, applied <- s_applied, used <- s_used

\* Requests one after the other.
Settings1 == INSTANCE SettingsFile WITH
    Threads <- {1}, Kinds <- {"general", "coin", "switch", "amm"}, Overlap <- FALSE,
    MaxRequests <- 3, MaxCrashes <- 1,
    settings <- s_settings, runtime <- s_runtime, inode <- s_inode, path <- s_path,
    lock <- s_lock, thread <- s_thread, applied <- s_applied, used <- s_used

-----------------------------------------------------------------------------
\* Direct message routes over Simplex.
VARIABLES
    r_conns, r_route, r_link, r_mroute, r_bid, r_got, r_reqs, r_events, r_contact,
    r_raised, r_faults

r_vars ==
    <<r_conns, r_route, r_link, r_mroute, r_bid, r_got, r_reqs, r_events, r_contact,
      r_raised, r_faults>>

Routes == INSTANCE MessageRoutes WITH
    Addrs <- {"a1"}, Bids <- Bid2, AddrOf <- [b \in Bid2 |-> "a1"], PostLate <- TRUE,
    MaxConns <- 2, MaxFaults <- 1,
    conns <- r_conns, route <- r_route, link <- r_link, mroute <- r_mroute,
    bid <- r_bid, got <- r_got, reqs <- r_reqs, events <- r_events,
    contact <- r_contact, raised <- r_raised, faults <- r_faults

\* No call fails half way.
RoutesUp == INSTANCE MessageRoutes WITH
    Addrs <- {"a1"}, Bids <- Bid2, AddrOf <- [b \in Bid2 |-> "a1"], PostLate <- FALSE,
    MaxConns <- 2, MaxFaults <- 0,
    conns <- r_conns, route <- r_route, link <- r_link, mroute <- r_mroute,
    bid <- r_bid, got <- r_got, reqs <- r_reqs, events <- r_events,
    contact <- r_contact, raised <- r_raised, faults <- r_faults

-----------------------------------------------------------------------------
\* The split messages of a bid.
VARIABLES
    m_time, m_sent, m_copies, m_state, m_started, m_created, m_rows, m_looked

m_vars ==
    <<m_time, m_sent, m_copies, m_state, m_started, m_created, m_rows, m_looked>>

\* The sizes of SMSG.
Split == INSTANCE SplitMessages WITH
    SizeInit <- 16000, SizePart <- 17000, ProofLen <- 48893, MaxChunks <- 4, Ttl <- 2,
    MaxAge <- 1, MaxCopies <- 2, MaxTime <- 5,
    time <- m_time, sent <- m_sent, copies <- m_copies, state <- m_state,
    started <- m_started, created <- m_created, rows <- m_rows, looked <- m_looked

\* The sizes of Simplex.
SplitSmall == INSTANCE SplitMessages WITH
    SizeInit <- 9000, SizePart <- 11000, ProofLen <- 48893, MaxChunks <- 4, Ttl <- 2,
    MaxAge <- 0, MaxCopies <- 1, MaxTime <- 4,
    time <- m_time, sent <- m_sent, copies <- m_copies, state <- m_state,
    started <- m_started, created <- m_created, rows <- m_rows, looked <- m_looked

-----------------------------------------------------------------------------
\* Portals between the networks.
VARIABLES
    p_time, p_op, p_own, p_rows, p_addrs, p_offers, p_known, p_wrapped, p_posted,
    p_sentTo, p_missed

p_vars ==
    <<p_time, p_op, p_own, p_rows, p_addrs, p_offers, p_known, p_wrapped, p_posted,
      p_sentTo, p_missed>>

\* A user of one network.
Portal == INSTANCE Portals WITH
    From <- "smsg", To <- "simplex", UserNets <- {"smsg"}, Msgs <- {"m1"}, Valid <- 2,
    Slack <- 1, Forget <- 4, StampsNow <- TRUE, MaxAddrs <- 2, MaxTime <- 6,
    time <- p_time, op <- p_op, own <- p_own, rows <- p_rows, addrs <- p_addrs,
    offers <- p_offers, known <- p_known, wrapped <- p_wrapped, posted <- p_posted,
    sentTo <- p_sentTo, missed <- p_missed

\* A user of both networks.
PortalBoth == INSTANCE Portals WITH
    From <- "smsg", To <- "simplex", UserNets <- {"smsg", "simplex"}, Msgs <- {"m1"},
    Valid <- 2, Slack <- 1, Forget <- 4, StampsNow <- TRUE, MaxAddrs <- 1, MaxTime <- 4,
    time <- p_time, op <- p_op, own <- p_own, rows <- p_rows, addrs <- p_addrs,
    offers <- p_offers, known <- p_known, wrapped <- p_wrapped, posted <- p_posted,
    sentTo <- p_sentTo, missed <- p_missed

PortalUp == INSTANCE Portals WITH
    From <- "smsg", To <- "simplex", UserNets <- {"smsg"}, Msgs <- {"m1"}, Valid <- 2,
    Slack <- 1, Forget <- 4, StampsNow <- TRUE, MaxAddrs <- 2, MaxTime <- 5,
    time <- p_time, op <- p_op, own <- p_own, rows <- p_rows, addrs <- p_addrs,
    offers <- p_offers, known <- p_known, wrapped <- p_wrapped, posted <- p_posted,
    sentTo <- p_sentTo, missed <- p_missed

-----------------------------------------------------------------------------
\* Commands to the Simplex client.
VARIABLES
    c_corrId, c_call, c_pending, c_cmdQueue

c_vars ==
    <<c_corrId, c_call, c_pending, c_cmdQueue>>

Commands == INSTANCE SimplexCommands WITH
    Threads <- {1, 2}, MaxCmds <- 3, MaxTries <- 3,
    corrId <- c_corrId, call <- c_call, pending <- c_pending, cmdQueue <- c_cmdQueue

-----------------------------------------------------------------------------
\* The link of two peers.
VARIABLES
    l_peer, l_wire, l_listening, l_session, l_seen, l_fault

l_vars ==
    <<l_peer, l_wire, l_listening, l_session, l_seen, l_fault>>

\* A link that is made again.
Link == INSTANCE PeerLink WITH
    MaxSessions <- 2, MaxPings <- 2, MsgUnits <- 2, SplitReads <- FALSE,
    Faults <- {"none", "time", "mac"},
    peer <- l_peer, wire <- l_wire, listening <- l_listening, session <- l_session,
    seen <- l_seen, fault <- l_fault

LinkOnce == INSTANCE PeerLink WITH
    MaxSessions <- 1, MaxPings <- 2, MsgUnits <- 2, SplitReads <- FALSE,
    Faults <- {"none", "time", "mac"},
    peer <- l_peer, wire <- l_wire, listening <- l_listening, session <- l_session,
    seen <- l_seen, fault <- l_fault

-----------------------------------------------------------------------------
\* The SMSG inbox.
VARIABLES
    i_inbox, i_arrived, i_before, i_read, i_expired, i_locked, i_queue, i_pc, i_page,
    i_offset, i_now, i_processed, i_missed, i_struck, i_veiled, i_kept, i_locks,
    i_fails, i_passes

i_vars ==
    <<i_inbox, i_arrived, i_before, i_read, i_expired, i_locked, i_queue, i_pc, i_page,
      i_offset, i_now, i_processed, i_missed, i_struck, i_veiled, i_kept, i_locks,
      i_fails, i_passes>>

\* Messages are announced over ZMQ, the wallet may be locked.
Inbox == INSTANCE SmsgInbox WITH
    Msg <- {"m1", "m2", "m3"}, Foreign <- {"m1"}, Limit <- 2, Zmq <- TRUE,
    Poll <- FALSE, MaxLocks <- 1, MaxFails <- 1, MaxPasses <- 0,
    inbox <- i_inbox, arrived <- i_arrived, before <- i_before, read <- i_read,
    expired <- i_expired, locked <- i_locked, queue <- i_queue, pc <- i_pc,
    page <- i_page, offset <- i_offset, now <- i_now, processed <- i_processed,
    missed <- i_missed, struck <- i_struck, veiled <- i_veiled, kept <- i_kept,
    locks <- i_locks, fails <- i_fails, passes <- i_passes

\* Expired messages are removed, in pages of one.
InboxZmq == INSTANCE SmsgInbox WITH
    Msg <- {"m1", "m2", "m3"}, Foreign <- {"m1"}, Limit <- 1, Zmq <- TRUE,
    Poll <- FALSE, MaxLocks <- 0, MaxFails <- 1, MaxPasses <- 1,
    inbox <- i_inbox, arrived <- i_arrived, before <- i_before, read <- i_read,
    expired <- i_expired, locked <- i_locked, queue <- i_queue, pc <- i_pc,
    page <- i_page, offset <- i_offset, now <- i_now, processed <- i_processed,
    missed <- i_missed, struck <- i_struck, veiled <- i_veiled, kept <- i_kept,
    locks <- i_locks, fails <- i_fails, passes <- i_passes

InboxUp == INSTANCE SmsgInbox WITH
    Msg <- {"m1", "m2"}, Foreign <- {"m1"}, Limit <- 1, Zmq <- TRUE, Poll <- FALSE,
    MaxLocks <- 0, MaxFails <- 1, MaxPasses <- 1,
    inbox <- i_inbox, arrived <- i_arrived, before <- i_before, read <- i_read,
    expired <- i_expired, locked <- i_locked, queue <- i_queue, pc <- i_pc,
    page <- i_page, offset <- i_offset, now <- i_now, processed <- i_processed,
    missed <- i_missed, struck <- i_struck, veiled <- i_veiled, kept <- i_kept,
    locks <- i_locks, fails <- i_fails, passes <- i_passes

\* The inbox is polled.
InboxPoll == INSTANCE SmsgInbox WITH
    Msg <- {"m1", "m2", "m3"}, Foreign <- {"m1"}, Limit <- 2, Zmq <- FALSE,
    Poll <- TRUE, MaxLocks <- 0, MaxFails <- 1, MaxPasses <- 0,
    inbox <- i_inbox, arrived <- i_arrived, before <- i_before, read <- i_read,
    expired <- i_expired, locked <- i_locked, queue <- i_queue, pc <- i_pc,
    page <- i_page, offset <- i_offset, now <- i_now, processed <- i_processed,
    missed <- i_missed, struck <- i_struck, veiled <- i_veiled, kept <- i_kept,
    locks <- i_locks, fails <- i_fails, passes <- i_passes

-----------------------------------------------------------------------------
vars == <<part, q_vars, w_vars, b_vars, o_vars, x_vars, s_vars, r_vars, m_vars, p_vars,
          c_vars, l_vars, i_vars>>

AllParts ==
    {"queue", "watch", "watch_one", "watch_htlc", "watch_electrum", "watch_index",
     "budget", "budget_once", "budget_auto", "budget_floor", "budget_late",
     "budget_closes", "terms", "expiry", "expiry_unused", "settings", "settings_alone",
     "routes", "routes_sends", "split", "split_simplex", "portals", "portals_both",
     "portals_delivers", "commands", "link", "link_completes", "inbox", "inbox_zmq",
     "inbox_live", "inbox_poll"}

\* The state of the part that moves.
moving ==
    CASE part = "queue" -> q_vars
      [] part \in {"watch", "watch_one", "watch_htlc", "watch_electrum",
                          "watch_index"} -> w_vars
      [] part \in {"budget", "budget_once", "budget_auto", "budget_floor",
                          "budget_late", "budget_closes"} -> b_vars
      [] part = "terms" -> o_vars
      [] part \in {"expiry", "expiry_unused"} -> x_vars
      [] part \in {"settings", "settings_alone"} -> s_vars
      [] part \in {"routes", "routes_sends"} -> r_vars
      [] part \in {"split", "split_simplex"} -> m_vars
      [] part \in {"portals", "portals_both", "portals_delivers"} -> p_vars
      [] part = "commands" -> c_vars
      [] part \in {"link", "link_completes"} -> l_vars
      [] part \in {"inbox", "inbox_zmq", "inbox_live", "inbox_poll"} -> i_vars

\* The parts that do not move are in an initial state of theirs.
Init ==
    /\ part \in Parts
    /\ Queue!Init
    /\ IF part = "watch_one" THEN WatchOne!Init ELSE
       IF part = "watch_htlc" THEN WatchHtlc!Init ELSE
       IF part = "watch_electrum" THEN WatchElectrum!Init ELSE
       IF part = "watch_index" THEN WatchIndex!Init ELSE
       Watch!Init
    /\ IF part = "budget_once" THEN OneTime!Init ELSE
       IF part = "budget_auto" THEN Automated!Init ELSE
       IF part = "budget_floor" THEN Standing!Init ELSE
       IF part = "budget_late" THEN Reconciled!Init ELSE
       IF part = "budget_closes" THEN Closing!Init ELSE
       UserAccepts!Init
    /\ Terms!Init
    /\ part = "terms" \/ (o_env = [n \in {"maker", "taker"} |-> CHOOSE e \in FeeViews : TRUE])
    /\ IF part = "expiry_unused" THEN Unused!Init ELSE
       Expiring!Init
    /\ IF part = "settings_alone" THEN Settings1!Init ELSE
       Settings!Init
    /\ IF part = "routes_sends" THEN RoutesUp!Init ELSE
       Routes!Init
    /\ IF part = "split_simplex" THEN SplitSmall!Init ELSE
       Split!Init
    /\ IF part = "portals_both" THEN PortalBoth!Init ELSE
       IF part = "portals_delivers" THEN PortalUp!Init ELSE
       Portal!Init
    /\ Commands!Init
    /\ IF part = "link_completes" THEN LinkOnce!Init ELSE
       Link!Init
    /\ IF part = "inbox_zmq" THEN InboxZmq!Init ELSE
       IF part = "inbox_live" THEN InboxUp!Init ELSE
       IF part = "inbox_poll" THEN InboxPoll!Init ELSE
       Inbox!Init

Next ==
    \/ /\ part = "queue" /\ Queue!Next
       /\ UNCHANGED <<part, w_vars, b_vars, o_vars, x_vars, s_vars, r_vars, m_vars,
                     p_vars, c_vars, l_vars, i_vars>>
    \/ /\ \/ part = "watch" /\ Watch!Next
          \/ part = "watch_one" /\ WatchOne!Next
          \/ part = "watch_htlc" /\ WatchHtlc!Next
          \/ part = "watch_electrum" /\ WatchElectrum!Next
          \/ part = "watch_index" /\ WatchIndex!Next
       /\ UNCHANGED <<part, q_vars, b_vars, o_vars, x_vars, s_vars, r_vars, m_vars,
                     p_vars, c_vars, l_vars, i_vars>>
    \/ /\ \/ part = "budget" /\ UserAccepts!Next
          \/ part = "budget_once" /\ OneTime!Next
          \/ part = "budget_auto" /\ Automated!Next
          \/ part = "budget_floor" /\ Standing!Next
          \/ part = "budget_late" /\ Reconciled!Next
          \/ part = "budget_closes" /\ Closing!Next
       /\ UNCHANGED <<part, q_vars, w_vars, o_vars, x_vars, s_vars, r_vars, m_vars,
                     p_vars, c_vars, l_vars, i_vars>>
    \/ /\ part = "terms" /\ Terms!Next
       /\ UNCHANGED <<part, q_vars, w_vars, b_vars, x_vars, s_vars, r_vars, m_vars,
                     p_vars, c_vars, l_vars, i_vars>>
    \/ /\ \/ part = "expiry" /\ Expiring!Next
          \/ part = "expiry_unused" /\ Unused!Next
       /\ UNCHANGED <<part, q_vars, w_vars, b_vars, o_vars, s_vars, r_vars, m_vars,
                     p_vars, c_vars, l_vars, i_vars>>
    \/ /\ \/ part = "settings" /\ Settings!Next
          \/ part = "settings_alone" /\ Settings1!Next
       /\ UNCHANGED <<part, q_vars, w_vars, b_vars, o_vars, x_vars, r_vars, m_vars,
                     p_vars, c_vars, l_vars, i_vars>>
    \/ /\ \/ part = "routes" /\ Routes!Next
          \/ part = "routes_sends" /\ RoutesUp!Next
       /\ UNCHANGED <<part, q_vars, w_vars, b_vars, o_vars, x_vars, s_vars, m_vars,
                     p_vars, c_vars, l_vars, i_vars>>
    \/ /\ \/ part = "split" /\ Split!Next
          \/ part = "split_simplex" /\ SplitSmall!Next
       /\ UNCHANGED <<part, q_vars, w_vars, b_vars, o_vars, x_vars, s_vars, r_vars,
                     p_vars, c_vars, l_vars, i_vars>>
    \/ /\ \/ part = "portals" /\ Portal!Next
          \/ part = "portals_both" /\ PortalBoth!Next
          \/ part = "portals_delivers" /\ PortalUp!Next
       /\ UNCHANGED <<part, q_vars, w_vars, b_vars, o_vars, x_vars, s_vars, r_vars,
                     m_vars, c_vars, l_vars, i_vars>>
    \/ /\ part = "commands" /\ Commands!Next
       /\ UNCHANGED <<part, q_vars, w_vars, b_vars, o_vars, x_vars, s_vars, r_vars,
                     m_vars, p_vars, l_vars, i_vars>>
    \/ /\ \/ part = "link" /\ Link!Next
          \/ part = "link_completes" /\ LinkOnce!Next
       /\ UNCHANGED <<part, q_vars, w_vars, b_vars, o_vars, x_vars, s_vars, r_vars,
                     m_vars, p_vars, c_vars, i_vars>>
    \/ /\ \/ part = "inbox" /\ Inbox!Next
          \/ part = "inbox_zmq" /\ InboxZmq!Next
          \/ part = "inbox_live" /\ InboxUp!Next
          \/ part = "inbox_poll" /\ InboxPoll!Next
       /\ UNCHANGED <<part, q_vars, w_vars, b_vars, o_vars, x_vars, s_vars, r_vars,
                     m_vars, p_vars, c_vars, l_vars>>

\* What the threads of a part keep doing, by number: the k-th action of a part
\* is taken again and again.
Runs(k) ==
    \* The main loop calls checkQueuedActions; the clock moves.
    \/ /\ part = "queue"
       /\ \/ k = 1 /\ Queue!Tick
          \/ k = 2 /\ Queue!BeginBatch
          \/ k = 3 /\ \E a \in q_batch.todo : Queue!RunDone(a) \/ Queue!RunFails(a)
          \/ k = 4 /\ Queue!EndBatch
    \* update() calls checkWatched, and a process that died is restarted.
    \/ /\ part \in {"watch_htlc", "watch_index", "watch_electrum"}
       /\ \/ k = 1 /\ Watch!Restart
          \/ k = 2 /\ part = "watch_htlc" /\ (WatchHtlc!BeginCheck \/ WatchHtlc!CheckBlock)
          \/ k = 3 /\ part = "watch_htlc" /\ WatchHtlc!EndCheck /\ (w_cur = w_top \/ w_budget = 0)
          \/ k = 2 /\ part = "watch_index" /\ WatchIndex!CheckSpentIndex
          \/ k = 2 /\ part = "watch_electrum" /\ WatchElectrum!FetchSpends
          \/ k = 3 /\ part = "watch_electrum" /\ WatchElectrum!ProcessFetchedSpends
    \* The threads keep running, and the node receives what it sends.
    \/ /\ part = "budget_closes"
       /\ \/ k = 1 /\ Closing!RevokeExhausted
          \/ k = 2 /\ Closing!ProcessOfferRevoke
          \/ k = 3 /\ Closing!Restart
          \/ k = 4 /\ Closing!CompleteOfferFill("b1")
          \/ k = 5 /\ Closing!CompleteOfferFill("b2")
          \/ k = 6 /\ (Closing!RunAccept("b1") \/ Closing!ExpireBid("b1"))
          \/ k = 7 /\ (Closing!RunAccept("b2") \/ Closing!ExpireBid("b2"))
    \* updateNetwork reads the Simplex events, and a request is answered unless
    \* it is lost.
    \/ /\ part = "routes_sends"
       /\ \E c \in 1..2 :
            \/ k = c /\ RoutesUp!BidderConnected(c)
            \/ k = 2 + c /\ RoutesUp!Disconnected(c)
            \/ k = 4 + c /\ (RoutesUp!ProcessConnectRequest(c, "a1") \/ RoutesUp!RequestLost(c, "a1"))
    \* The main loop calls checkSplitMessages.
    \/ /\ part = "split_simplex"
       /\ \/ k = 1 /\ SplitSmall!CheckSplitMessages
          \/ k = 2 /\ SplitSmall!Tick
    \* The operator's main loop handles what arrives; it is started again.
    \/ /\ part = "portals_delivers"
       /\ \/ k = 1 /\ PortalUp!StartNetworks
          \/ k = 2 /\ PortalUp!Tick
          \/ \E a \in 1..2 : k = 2 + a /\ PortalUp!ProcessPortalMessage("m1", a)
    \* A thread that waits for a response goes on.
    \/ /\ part = "commands" /\ k \in {1, 2}
       /\ (Commands!WaitTurn(k) \/ Commands!WaitNothing(k) \/ Commands!WaitEnds(k))
    \* The two threads of each node keep running; nobody has to close a link.
    \/ /\ part = "link_completes"
       /\ \/ k = 1 /\ LinkOnce!Accept
          \/ k = 2 /\ LinkOnce!Ping("a")
          \/ k = 3 /\ LinkOnce!Ping("b")
          \/ k = 4 /\ LinkOnce!Read("a")
          \/ k = 5 /\ LinkOnce!Read("b")
          \/ k = 6 /\ LinkOnce!ProcessMessage("a")
          \/ k = 7 /\ LinkOnce!ProcessMessage("b")
    \* The main loop goes on; a poll does not keep the queue from being read.
    \/ /\ part = "inbox_live"
       /\ \/ k = 1 /\ InboxUp!Program
          \/ k = 2 /\ InboxUp!ReadQueue
          \/ k = 3 /\ InboxUp!ExpirePage
    \/ /\ part = "inbox_poll"
       /\ k = 1 /\ InboxPoll!Program

\* A query of a daemon or of a server that fails is answered in the end.
Fairness ==
    /\ \A k \in 1..7 : WF_moving(UNCHANGED part /\ Runs(k))
    /\ <>[][~WatchHtlc!QueryFails]_vars

Spec == Init /\ [][Next]_vars /\ Fairness

-----------------------------------------------------------------------------
ASSUME ConstantsAssumption ==
    /\ Parts \subseteq AllParts
    /\ Queue!ConstantsOK
    /\ Watch!ConstantsOK /\ WatchOne!ConstantsOK /\ WatchHtlc!ConstantsOK
    /\ WatchElectrum!ConstantsOK /\ WatchIndex!ConstantsOK
    /\ UserAccepts!ConstantsOK /\ OneTime!ConstantsOK /\ Automated!ConstantsOK
    /\ Standing!ConstantsOK /\ Reconciled!ConstantsOK /\ Closing!ConstantsOK
    /\ Expiring!ConstantsOK /\ Unused!ConstantsOK
    /\ Settings!ConstantsOK /\ Settings1!ConstantsOK
    /\ Routes!ConstantsOK /\ RoutesUp!ConstantsOK
    /\ Split!ConstantsOK /\ SplitSmall!ConstantsOK
    /\ Portal!ConstantsOK /\ PortalBoth!ConstantsOK /\ PortalUp!ConstantsOK
    /\ Commands!ConstantsOK /\ Link!ConstantsOK /\ LinkOnce!ConstantsOK
    /\ Inbox!ConstantsOK /\ InboxZmq!ConstantsOK /\ InboxUp!ConstantsOK /\ InboxPoll!ConstantsOK

\* The state of every part has the types of the rows and objects it stands for.
TypeOK ==
    /\ part = "queue" => Queue!TypeOK
    /\ part = "watch" => Watch!TypeOK
    /\ part = "budget" => UserAccepts!TypeOK
    /\ part = "expiry" => Expiring!TypeOK
    /\ part = "routes" => Routes!TypeOK
    /\ part = "split" => Split!TypeOK
    /\ part = "portals" => Portal!TypeOK
    /\ part = "commands" => Commands!TypeOK
    /\ part = "link" => Link!TypeOK
    /\ part = "inbox" => Inbox!TypeOK

\* An action that a row announces runs exactly once: checkQueuedActions clears
\* the queue by trigger time without deleting what a handler of the batch queued,
\* and nothing that is rolled back makes an action run again.
ActionsRunOnce ==
    part = "queue" => Queue!NoActionLost /\ Queue!RunsOnce

\* No spend of a watched output goes unseen: checkForSpends never passes the
\* block of a spend without handing it to processSpentOutput, through reorgs,
\* crashes and outputs added meanwhile, and while the engine runs the outputs of
\* its active bids are watched.
SpendsSeen ==
    /\ part = "watch" => Watch!NoSpendMissed /\ Watch!BidsWatched
    /\ part = "watch_one" => WatchOne!NoSpendMissed
    /\ part = "watch_electrum" => WatchElectrum!BidsWatched

\* An offer promises no more than it has, up to what the threads allow.  With the
\* user and a strategy both accepting, the accepted bids exceed its budget by no
\* more than the completed swaps that an accept overtook before their fill was in
\* the row, and stay within the bids a strategy may have going; automatic
\* acceptance leaves min_wallet_reserve, no bid is left waiting for an acceptance
\* that will not come, and a completed bid is counted in the fills once.
BudgetHeld ==
    /\ part = "budget" => UserAccepts!BudgetHeld /\ UserAccepts!NoBidStranded
    /\ part = "budget_once" => OneTime!BudgetHeld /\ OneTime!NoBidStranded
    /\ part = "budget_auto" => Automated!BudgetHeld /\ Automated!ConcurrencyHeld
    /\ part = "budget_floor" => Standing!FloorHeld
    /\ part = "budget_late" => Reconciled!FilledOnce

\* Maker and taker agree.  They hold the same terms of an offer, a lock time is
\* not rounded below the least one, both compute the same amounts from a bid's
\* amount and rate, rounding never gives the maker less than its rate, the search
\* for an amount that fits never buys more than was asked for, a fee rate that is
\* taken passes validateFeeRate, and a revoked offer is not taken again when its
\* message arrives late.
TermsAgree ==
    part = "terms" =>
        /\ Terms!SameTerms /\ Terms!LockNotShort /\ Terms!AmountsAgree
        /\ Terms!MakerNotShort /\ Terms!NeverMoreThanAsked
        /\ Terms!FeeSane /\ Terms!RevokedStays

\* What the node keeps is kept in order.  Records past their time are expired
\* within the interval of the check, the inputs of an expired bid are unlocked,
\* the lists drain although they are popped while they are enumerated, and
\* basicswap.json can be read after a crash at any point of a save and holds the
\* settings the page reported as applied.
RecordsInOrder ==
    /\ part = "expiry" => /\ Expiring!ExpiredWithinInterval
                          /\ Expiring!NothingLeftLocked
                          /\ Expiring!ListsDrain
    /\ part = "expiry_unused" => Unused!ExpiredWithinInterval
    /\ part = "settings" => Settings!Readable
    /\ part = "settings_alone" => Settings1!AppliedKept

\* A message takes the way its sender thinks it takes.  The bidder knows which
\* bids the maker has, whatever error ends the loop that sends them; it has one
\* route per pair of addresses and none over a closed contact; a bid in parts
\* fails only because its time is over; a portal posts a message once on each
\* network.
RoutesSound ==
    /\ part = "routes" => Routes!SentIsKnown /\ Routes!OneRoute /\ Routes!ClosedForgotten
    /\ part = "split" => Split!FailsOnlyByTime
    /\ part = "portals" => Portal!PostedOnce
    /\ part = "portals_both" => PortalBoth!PostedOnce

\* What is received is matched with what it belongs to.  A call of the Simplex
\* client never returns the response to another thread's command; the nonces of
\* the two sides of a link do not drift apart, and who dialled is not ready before
\* the other side; a message is set read only when it is processed; the scan at
\* the start leaves none out, a stored message stays announced, and a pass of
\* expireMessages removes what had expired and nothing else.
ReceivedMatches ==
    /\ part = "commands" => Commands!ResponseIsOwn
    /\ part = "link" => Link!NoncesAgree /\ Link!ReadyTogether
    /\ part = "inbox" => Inbox!ReadIsProcessed /\ Inbox!ScanComplete /\ Inbox!NoneForgotten
    /\ part = "inbox_zmq" => InboxZmq!NoneForgotten /\ InboxZmq!PassRemovesAll

\* What no step does.  A restart leaves no difference between an offer's fills and
\* its completed bids; no bid in a swap is removed, nor an offer before its bids;
\* expireMessageRoutes closes no route of a swap; no bid is dropped whose parts
\* are all there, and no part of an honest proof is refused for its number; a
\* portal is announced again only when its last announcement is over.
StepsSound ==
    [][/\ part = "budget_late" => Reconciled!RestartReconciles
       /\ part = "expiry" => Expiring!SwapsKept
       /\ part = "expiry_unused" => Unused!SwapsKept
       /\ part = "routes" => Routes!SwapKeepsRoute
       /\ part = "split" => Split!WholeIsReceived
       /\ part = "split_simplex" => SplitSmall!NoPartRefused
       /\ part = "portals" => Portal!RefreshedSeldom]_vars

\* The k-th piece of work that the engine owes: an action whose row is committed,
\* a spend in the chain that a bid waits for, an offer that is filled, a bid
\* whose time is over.
WorkWaits(k) ==
    \/ part = "queue" /\ Queue!Queued(Steps[k].bid, Steps[k].n)
    \/ part \in {"watch_htlc", "watch_index", "watch_electrum"}
       /\ k \in 1..2 /\ WatchHtlc!SpendWaits(OutputNo[k])
    \/ part = "budget_closes" /\ ((k = 1 /\ Closing!Filled) \/ (k \in {2, 3} /\ BidNo[k] \in b_expired))

WorkEnds(k) ==
    \/ part = "queue" /\ Queue!EndedOrRan(Steps[k].bid, Steps[k].n)
    \/ part \in {"watch_htlc", "watch_index", "watch_electrum"}
       /\ k \in 1..2 /\ WatchHtlc!SpendServed(OutputNo[k])
    \/ part = "budget_closes" /\ ((k = 1 /\ Closing!Closed) \/ (k \in {2, 3} /\ Closing!Ended(BidNo[k])))

\* What the engine owes is done in the end: a queued action runs unless its bid
\* ended, a spend that stays in the chain is noticed by each kind of search, an
\* exhausted offer is closed, and a bid past its time does not stay open.
WorkDone == \A k \in 1..4 : WorkWaits(k) ~> WorkEnds(k)

\* The k-th message that waits: a bid whose contact is joined, a message handed
\* to a portal, a message in the inbox that can be decrypted, a call of the
\* Simplex client, a handshake that is sound, parts of a bid.
MessageWaits(k) ==
    \/ part = "routes_sends" /\ RoutesUp!BidWaits(Steps[k].bid, Steps[k].n)
    \/ part = "portals_delivers" /\ k \in 1..2 /\ <<"m1", k>> \in p_wrapped
    \/ part \in {"inbox_live", "inbox_poll"} /\ k = 1 /\ "m2" \in i_arrived
    \/ part = "inbox_live" /\ k = 2 /\ i_pc = "scan"
    \/ part = "commands" /\ k \in 1..2 /\ Commands!CallWaits(k)
    \/ part = "link_completes" /\ k = 1 /\ LinkOnce!SoundLink
    \/ part = "split_simplex" /\ k = 1 /\ SplitSmall!PartsWait

MessageServed(k) ==
    \/ part = "routes_sends" /\ RoutesUp!BidSent(Steps[k].bid, Steps[k].n)
    \/ part = "portals_delivers" /\ PortalUp!Delivered("m1")
    \/ part \in {"inbox_live", "inbox_poll"} /\ k = 1 /\ InboxUp!Handled("m2")
    \/ part = "inbox_live" /\ k = 2 /\ i_pc # "scan"
    \/ part = "commands" /\ k \in 1..2 /\ ~Commands!CallWaits(k)
    \/ part = "link_completes" /\ k = 1 /\ LinkOnce!LinkReady
    \/ part = "split_simplex" /\ k = 1 /\ m_state # "receiving"

\* Nothing in the message layer waits for ever: a bid is sent when its contact is
\* joined unless the route goes away, a portal posts what it was handed unless
\* the operator lost it in a restart, a message in the inbox is processed unless
\* it expired or was lost with its notification or to a crash, the scan ends,
\* a call returns, a sound handshake completes, and a bid does not wait for its
\* parts for ever.
MessagesServed == \A k \in 1..4 : MessageWaits(k) ~> MessageServed(k)

-----------------------------------------------------------------------------
(***************************************************************************)
(* What the theorems about a part say of the suite: a behaviour moves one  *)
(* part all along, as that part's specification says, or never moves it.   *)
(***************************************************************************)

\* A behaviour is one of the event queue (checkQueuedActions), or leaves it alone.
LEMMA QueueRuns ==
    Init /\ [][Next]_vars =>
        ([](part = "queue") /\ Queue!Spec) \/ [](~(part = "queue"))
<1>1. Init /\ part = "queue" => Queue!Init
  BY DEF Init
<1>2. [Next]_vars /\ part = "queue" =>
        [Queue!Next]_(Queue!vars) /\ (part = "queue")'
  BY DEF Next, vars, q_vars, Queue!vars
<1>3. [Next]_vars /\ ~(part = "queue") => (~(part = "queue"))'
  BY DEF Next, vars
<1> QED
  BY <1>1, <1>2, <1>3, PTL DEF Queue!Spec

\* The same of an offer whose bids the user accepts (acceptBid).
LEMMA UserAcceptsRuns ==
    Init /\ [][Next]_vars =>
        ([](part = "budget") /\ UserAccepts!Spec) \/ [](~(part = "budget"))
<1>1. Init /\ part = "budget" => UserAccepts!Init
  BY DEF Init
<1>2. [Next]_vars /\ part = "budget" =>
        [UserAccepts!Next]_(UserAccepts!vars) /\ (part = "budget")'
  BY DEF Next, vars, b_vars, UserAccepts!vars
<1>3. [Next]_vars /\ ~(part = "budget") => (~(part = "budget"))'
  BY DEF Next, vars
<1> QED
  BY <1>1, <1>2, <1>3, PTL DEF UserAccepts!Spec

\* The same of a one-time automation strategy.
LEMMA OneTimeRuns ==
    Init /\ [][Next]_vars =>
        ([](part = "budget_once") /\ OneTime!Spec) \/ [](~(part = "budget_once"))
<1>1. Init /\ part = "budget_once" => OneTime!Init
  BY DEF Init
<1>2. [Next]_vars /\ part = "budget_once" =>
        [OneTime!Next]_(OneTime!vars) /\ (part = "budget_once")'
  BY DEF Next, vars, b_vars, OneTime!vars
<1>3. [Next]_vars /\ ~(part = "budget_once") => (~(part = "budget_once"))'
  BY DEF Next, vars
<1> QED
  BY <1>1, <1>2, <1>3, PTL DEF OneTime!Spec

\* The same of the automation strategy with its limits (shouldAutoAcceptBid).
LEMMA AutomatedRuns ==
    Init /\ [][Next]_vars =>
        ([](part = "budget_auto") /\ Automated!Spec) \/ [](~(part = "budget_auto"))
<1>1. Init /\ part = "budget_auto" => Automated!Init
  BY DEF Init
<1>2. [Next]_vars /\ part = "budget_auto" =>
        [Automated!Next]_(Automated!vars) /\ (part = "budget_auto")'
  BY DEF Next, vars, b_vars, Automated!vars
<1>3. [Next]_vars /\ ~(part = "budget_auto") => (~(part = "budget_auto"))'
  BY DEF Next, vars
<1> QED
  BY <1>1, <1>2, <1>3, PTL DEF Automated!Spec

\* The same of a standing offer with a reserve.
LEMMA StandingRuns ==
    Init /\ [][Next]_vars =>
        ([](part = "budget_floor") /\ Standing!Spec) \/ [](~(part = "budget_floor"))
<1>1. Init /\ part = "budget_floor" => Standing!Init
  BY DEF Init
<1>2. [Next]_vars /\ part = "budget_floor" =>
        [Standing!Next]_(Standing!vars) /\ (part = "budget_floor")'
  BY DEF Next, vars, b_vars, Standing!vars
<1>3. [Next]_vars /\ ~(part = "budget_floor") => (~(part = "budget_floor"))'
  BY DEF Next, vars
<1> QED
  BY <1>1, <1>2, <1>3, PTL DEF Standing!Spec

\* The same of fills that are reconciled late.
LEMMA ReconciledRuns ==
    Init /\ [][Next]_vars =>
        ([](part = "budget_late") /\ Reconciled!Spec) \/ [](~(part = "budget_late"))
<1>1. Init /\ part = "budget_late" => Reconciled!Init
  BY DEF Init
<1>2. [Next]_vars /\ part = "budget_late" =>
        [Reconciled!Next]_(Reconciled!vars) /\ (part = "budget_late")'
  BY DEF Next, vars, b_vars, Reconciled!vars
<1>3. [Next]_vars /\ ~(part = "budget_late") => (~(part = "budget_late"))'
  BY DEF Next, vars
<1> QED
  BY <1>1, <1>2, <1>3, PTL DEF Reconciled!Spec

\* checkQueuedActions runs what was queued, and runs it once, in the behaviours of
\* the suite.
THEOREM QueueKept == Spec => []ActionsRunOnce
<1>1. Queue!ConstantsOK /\ Queue!DelaysPositive
  BY ConstantsAssumption DEF Queue!DelaysPositive
<1>2. Queue!Spec => []Queue!NoActionLost /\ []Queue!RunsOnce
  BY <1>1, Queue!NothingIsLost, Queue!NothingRunsTwice
<1>3. (Queue!NoActionLost /\ Queue!RunsOnce) \/ ~(part = "queue") => ActionsRunOnce
  BY DEF ActionsRunOnce
<1> QED
  BY <1>2, <1>3, QueueRuns, PTL DEF Spec

\* The bids of an offer are finitely many.
LEMMA BidsFinite == IsFiniteSet(Bid2) /\ IsFiniteSet(Bid3)
<1>1. IsFiniteSet({"b1"})
  BY FS_Singleton
<1>2. IsFiniteSet({"b1"} \cup {"b2"})
  BY <1>1, FS_AddElement
<1>3. IsFiniteSet(({"b1"} \cup {"b2"}) \cup {"b3"})
  BY <1>2, FS_AddElement
<1>4. Bid2 = {"b1"} \cup {"b2"} /\ Bid3 = ({"b1"} \cup {"b2"}) \cup {"b3"}
  BY DEF Bid2, Bid3
<1> QED
  BY <1>2, <1>3, <1>4

\* An offer promises no more than it has, and a completed bid is counted once, in
\* the behaviours of the suite.
THEOREM OfferKept == Spec => []BudgetHeld
<1>1. UserAccepts!Bounded
  BY ConstantsAssumption, BidsFinite
     DEF UserAccepts!Bounded, IsFiniteSet, UserAccepts!IsFiniteSet
<1>2. OneTime!Bounded
  BY ConstantsAssumption, BidsFinite
     DEF OneTime!Bounded, IsFiniteSet, OneTime!IsFiniteSet
<1>3. Automated!Bounded
  BY ConstantsAssumption, BidsFinite
     DEF Automated!Bounded, IsFiniteSet, Automated!IsFiniteSet
<1>4. Standing!Bounded /\ Standing!HasReserve
  BY ConstantsAssumption, BidsFinite
     DEF Standing!Bounded, Standing!HasReserve, IsFiniteSet, Standing!IsFiniteSet
<1>5. Reconciled!Bounded
  BY ConstantsAssumption, BidsFinite
     DEF Reconciled!Bounded, IsFiniteSet, Reconciled!IsFiniteSet
<1>6. Spec => [](part = "budget" => UserAccepts!BudgetHeld /\ UserAccepts!NoBidStranded)
  <2>1. UserAccepts!Spec => []UserAccepts!BudgetHeld
    BY <1>1, UserAccepts!BudgetKept
  <2>2. UserAccepts!Spec => [](UserAccepts!TypeOK /\ UserAccepts!NoBidStranded)
    BY <1>1, UserAccepts!TypeCorrect
  <2> QED
    BY <2>1, <2>2, UserAcceptsRuns, PTL DEF Spec
<1>7. Spec => [](part = "budget_once" => OneTime!BudgetHeld /\ OneTime!NoBidStranded)
  <2>1. OneTime!Spec => []OneTime!BudgetHeld
    BY <1>2, OneTime!BudgetKept
  <2>2. OneTime!Spec => [](OneTime!TypeOK /\ OneTime!NoBidStranded)
    BY <1>2, OneTime!TypeCorrect
  <2> QED
    BY <2>1, <2>2, OneTimeRuns, PTL DEF Spec
<1>8. Spec => [](part = "budget_auto" => Automated!BudgetHeld /\ Automated!ConcurrencyHeld)
  <2>1. Automated!Spec => []Automated!BudgetHeld
    BY <1>3, Automated!BudgetKept
  <2>2. Automated!Spec => []Automated!ConcurrencyHeld
    BY <1>3, Automated!ConcurrencyKept
  <2> QED
    BY <2>1, <2>2, AutomatedRuns, PTL DEF Spec
<1>9. Spec => [](part = "budget_floor" => Standing!FloorHeld)
  <2>1. Standing!Spec => []Standing!FloorHeld
    BY <1>4, Standing!ReserveKept
  <2> QED
    BY <2>1, StandingRuns, PTL DEF Spec
<1>10. Spec => [](part = "budget_late" => Reconciled!FilledOnce)
  <2>1. Reconciled!Spec => []Reconciled!FilledOnce
    BY <1>5, Reconciled!CountedOnce
  <2> QED
    BY <2>1, ReconciledRuns, PTL DEF Spec
<1> QED
  BY <1>6, <1>7, <1>8, <1>9, <1>10, PTL DEF BudgetHeld
=============================================================================
