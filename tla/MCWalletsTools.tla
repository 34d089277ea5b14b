--------------------------- MODULE MCWalletsTools ---------------------------
(***************************************************************************)
(* The wallets and the programs around the node, each on small instances:  *)
(* the locks on outputs, the light wallet, what it hears from Electrum     *)
(* servers, the Monero wallet, passwords, the switch between the wallets,  *)
(* the lock transactions of the coins; and the market maker's offers,      *)
(* rates and bids, its process, its configuration and what the page shows  *)
(* of it, the launcher and the preparation of a node.  One part moves in a *)
(* behaviour, and `part' says which; the others stay where they began.     *)
(***************************************************************************)
EXTENDS Integers, TLC, TLAPS

\* An offer larger than the template's amount and one, of a fixed amount, that
\* is smaller.
Sizes == [o1 |-> 3, o2 |-> 1]

\* The parts that a run moves.
CONSTANT Parts

\* The part that moves in this behaviour.
VARIABLE part

-----------------------------------------------------------------------------
\* The locks on outputs.
VARIABLES
    u_time, u_lock, u_pc, u_inputs, u_since, u_db, u_reserve, u_spent

u_vars ==
    <<u_time, u_lock, u_pc, u_inputs, u_since, u_db, u_reserve, u_spent>>

-----------------------------------------------------------------------------
\* The passwords of the wallets.
VARIABLES
    p_wallet, p_xmr, p_swapPw, p_active, p_inProgress, p_isLocked, p_task, p_used,
    p_unseen

p_vars ==
    <<p_wallet, p_xmr, p_swapPw, p_active, p_inProgress, p_isLocked, p_task, p_used,
      p_unseen>>

-----------------------------------------------------------------------------
\* The light wallet.
VARIABLES
    g_rows, g_last, g_migrations, g_keys, g_given, g_funds, g_cached, g_sync, g_received

g_vars ==
    <<g_rows, g_last, g_migrations, g_keys, g_given, g_funds, g_cached, g_sync,
      g_received>>

\* One size of the light wallet and of its outputs for the instances below.
Gap == 3
MaxIndex == 3
Foreign == {<<"node", 0>>}
MaxMigrations == 1
MaxFunds == 1

Utxos == {"u1", "u2"}
Bids == {"b1", "b2"}
Withdrawals == {"w1"}
Need == 1
BidLock == 3
OpLock == 1
AcceptTimeout == 2
MaxTime == 3
NoOp == "none"

\* The wallet, the locks on its outputs and the passwords: Outputs is of UtxoLocks,
\* Access of WalletPasswords.  A password changes, right or wrong, while bids are
\* accepted, wallets locked, calls fail and the node restarts.
Wallet == INSTANCE Wallets_proofs WITH
    Swaps <- {"s1"}, FirstPassword <- "p1", Passwords <- {"p1", "p2"}, Honest <- FALSE,
    PerCoin <- FALSE, Locks <- TRUE, Concurrent <- TRUE, ManageDaemon <- TRUE,
    FoundPath <- TRUE, MaxChanges <- 2, MaxFails <- 1, MaxRestarts <- 1,
    rows <- g_rows, last <- g_last, migrations <- g_migrations, keys <- g_keys,
    given <- g_given, funds <- g_funds, cached <- g_cached, sync <- g_sync,
    received <- g_received

\* Wallets with a password are locked and unlocked, calls fail, the node restarts.
Unlock == INSTANCE Wallets_proofs WITH
    Swaps <- {"s1"}, FirstPassword <- "p1", Passwords <- {"p1", "p2"}, Honest <- FALSE,
    PerCoin <- FALSE, Locks <- TRUE, Concurrent <- FALSE, ManageDaemon <- TRUE,
    FoundPath <- TRUE, MaxChanges <- 0, MaxFails <- 1, MaxRestarts <- 1,
    rows <- g_rows, last <- g_last, migrations <- g_migrations, keys <- g_keys,
    given <- g_given, funds <- g_funds, cached <- g_cached, sync <- g_sync,
    received <- g_received

\* Requests name single coins, calls fail, bids are accepted meanwhile.
Seeds == INSTANCE Wallets_proofs WITH
    Swaps <- {"s1"}, FirstPassword <- "", Passwords <- {"p1"}, Honest <- FALSE,
    PerCoin <- TRUE, Locks <- FALSE, Concurrent <- TRUE, ManageDaemon <- TRUE,
    FoundPath <- TRUE, MaxChanges <- 1, MaxFails <- 1, MaxRestarts <- 0,
    rows <- g_rows, last <- g_last, migrations <- g_migrations, keys <- g_keys,
    given <- g_given, funds <- g_funds, cached <- g_cached, sync <- g_sync,
    received <- g_received

LightUp == INSTANCE LightWallet WITH
    Gap <- 2, MaxIndex <- 2, Foreign <- {<<"node", 0>>}, MaxMigrations <- 1,
    MaxFunds <- 1,
    rows <- g_rows, last <- g_last, migrations <- g_migrations, keys <- g_keys,
    given <- g_given, funds <- g_funds, cached <- g_cached, sync <- g_sync,
    received <- g_received

-----------------------------------------------------------------------------
\* The chain as an Electrum server shows it.
VARIABLES
    v_tip, v_at, v_past, v_reorgs, v_view, v_cur, v_sub, v_wmc, v_mv, v_q, v_ans, v_unsp

v_vars ==
    <<v_tip, v_at, v_past, v_reorgs, v_view, v_cur, v_sub, v_wmc, v_mv, v_q, v_ans,
      v_unsp>>

View == INSTANCE ElectrumView WITH
    Servers <- {"s1", "s2"}, MaxTip <- 2, MaxReorgs <- 1,
    tip <- v_tip, at <- v_at, past <- v_past, reorgs <- v_reorgs, view <- v_view,
    cur <- v_cur, sub <- v_sub, wmc <- v_wmc, mv <- v_mv, q <- v_q, ans <- v_ans,
    unsp <- v_unsp

ViewUp == INSTANCE ElectrumView WITH
    Servers <- {"s1", "s2"}, MaxTip <- 2, MaxReorgs <- 1,
    tip <- v_tip, at <- v_at, past <- v_past, reorgs <- v_reorgs, view <- v_view,
    cur <- v_cur, sub <- v_sub, wmc <- v_wmc, mv <- v_mv, q <- v_q, ans <- v_ans,
    unsp <- v_unsp

-----------------------------------------------------------------------------
\* The connection to an Electrum server.
VARIABLES
    e_conn, e_srv, e_lock, e_pc, e_attempt, e_todo, e_waiting, e_wire, e_res, e_black,
    e_timeouts, e_stopping, e_down

e_vars ==
    <<e_conn, e_srv, e_lock, e_pc, e_attempt, e_todo, e_waiting, e_wire, e_res, e_black,
      e_timeouts, e_stopping, e_down>>

\* Servers that may fail in every way.
Server == INSTANCE ElectrumServer WITH
    Servers <- {"s1", "s2"}, Healthy <- {}, Callers <- {"a"}, Pinger <- "ka",
    Ids <- {1, 2}, MaxTimeouts <- 1, Decays <- TRUE, Closes <- TRUE,
    conn <- e_conn, srv <- e_srv, lock <- e_lock, pc <- e_pc, attempt <- e_attempt,
    todo <- e_todo, waiting <- e_waiting, wire <- e_wire, res <- e_res,
    black <- e_black, timeouts <- e_timeouts, stopping <- e_stopping, down <- e_down

ServerOne == INSTANCE ElectrumServer WITH
    Servers <- {"s1"}, Healthy <- {}, Callers <- {"a"}, Pinger <- "ka", Ids <- {1, 2},
    MaxTimeouts <- 1, Decays <- FALSE, Closes <- TRUE,
    conn <- e_conn, srv <- e_srv, lock <- e_lock, pc <- e_pc, attempt <- e_attempt,
    todo <- e_todo, waiting <- e_waiting, wire <- e_wire, res <- e_res,
    black <- e_black, timeouts <- e_timeouts, stopping <- e_stopping, down <- e_down

\* One of the servers works.
ServerPoll == INSTANCE ElectrumServer WITH
    Servers <- {"s1", "s2"}, Healthy <- {"s1"}, Callers <- {"a"}, Pinger <- "ka",
    Ids <- {1, 2}, MaxTimeouts <- 2, Decays <- FALSE, Closes <- FALSE,
    conn <- e_conn, srv <- e_srv, lock <- e_lock, pc <- e_pc, attempt <- e_attempt,
    todo <- e_todo, waiting <- e_waiting, wire <- e_wire, res <- e_res,
    black <- e_black, timeouts <- e_timeouts, stopping <- e_stopping, down <- e_down

-----------------------------------------------------------------------------
\* The Monero wallet.
VARIABLES
    x_w, x_txs, x_saved, x_found, x_spent, x_shown, x_faults

x_vars ==
    <<x_w, x_txs, x_saved, x_found, x_spent, x_shown, x_faults>>

Monero == INSTANCE MoneroWallet WITH
    Swaps <- {"s1", "s2"}, Payers <- {"s1"}, Main <- "main", Out <- "out",
    Peer <- "peer", NoWallet <- "none", Managed <- TRUE, LockAmount <- 2, MaxDrops <- 0,
    MaxCorrupt <- 0, MaxTxs <- 5, MaxRestarts <- 1,
    w <- x_w, txs <- x_txs, saved <- x_saved, found <- x_found, spent <- x_spent,
    shown <- x_shown, faults <- x_faults

\* Opens fail and a cache is corrupt.
MoneroDrops == INSTANCE MoneroWallet WITH
    Swaps <- {"s1", "s2"}, Payers <- {"s1"}, Main <- "main", Out <- "out",
    Peer <- "peer", NoWallet <- "none", Managed <- TRUE, LockAmount <- 2, MaxDrops <- 1,
    MaxCorrupt <- 1, MaxTxs <- 3, MaxRestarts <- 1,
    w <- x_w, txs <- x_txs, saved <- x_saved, found <- x_found, spent <- x_spent,
    shown <- x_shown, faults <- x_faults

-----------------------------------------------------------------------------
\* The switch between the wallets.
VARIABLES
    w_saved, w_mode, w_at, w_conf, w_cached, w_swap, w_ready, w_pending, w_pc, w_got,
    w_owed, w_lost, w_restarts, w_switches

w_vars ==
    <<w_saved, w_mode, w_at, w_conf, w_cached, w_swap, w_ready, w_pending, w_pc, w_got,
      w_owed, w_lost, w_restarts, w_switches>>

\* From the node's wallet: restarts, failed calls and swaps in progress.
Switch == INSTANCE WalletSwitch WITH
    Coin <- {"c1"}, StartMode <- "rpc", QueryFails <- TRUE, Busy <- TRUE,
    MaxRestarts <- 1, MaxSwitches <- 2,
    saved <- w_saved, mode <- w_mode, at <- w_at, conf <- w_conf, cached <- w_cached,
    swap <- w_swap, ready <- w_ready, pending <- w_pending, pc <- w_pc, got <- w_got,
    owed <- w_owed, lost <- w_lost, restarts <- w_restarts, switches <- w_switches

\* From the light wallet and back, with the same.
SwitchUp == INSTANCE WalletSwitch WITH
    Coin <- {"c1"}, StartMode <- "electrum", QueryFails <- TRUE, Busy <- TRUE,
    MaxRestarts <- 2, MaxSwitches <- 2,
    saved <- w_saved, mode <- w_mode, at <- w_at, conf <- w_conf, cached <- w_cached,
    swap <- w_swap, ready <- w_ready, pending <- w_pending, pc <- w_pc, got <- w_got,
    owed <- w_owed, lost <- w_lost, restarts <- w_restarts, switches <- w_switches

-----------------------------------------------------------------------------
\* The lock transactions of the coins.
VARIABLES
    l_terms, l_tweaked, l_phase, l_txs, l_mempool, l_mined

l_vars ==
    <<l_terms, l_tweaked, l_phase, l_txs, l_mempool, l_mined>>

LockTx == INSTANCE LockTxs WITH
    MaxMoney <- 2000000000, Kinds <- {"BTC", "NAV", "DCR", "BCH", "BLIND"},
    Values <- {900, 100000}, Rates <- {1000, 9999, 10001}, Lock1 <- 2, Lock2 <- 3,
    MaxAge <- 4, Slacks <- {0, 9},
    terms <- l_terms, tweaked <- l_tweaked, phase <- l_phase, txs <- l_txs,
    mempool <- l_mempool, mined <- l_mined

-----------------------------------------------------------------------------
\* The market maker's offers.
VARIABLES
    o_offers, o_wallet, o_accepted, o_mem, o_disk, o_pc, o_todo, o_snap, o_balance, o_plan,
    o_unread, o_missed

o_vars ==
    <<o_offers, o_wallet, o_accepted, o_mem, o_disk, o_pc, o_todo, o_snap, o_balance, o_plan,
      o_unread, o_missed>>

\* A wallet that holds more than the template sells: what is sold is up to the
\* script, which may be killed, and to the node, which accepts, counts and prunes
\* when it pleases.
Maker == INSTANCE OfferMaker WITH
    Templates <- {"t1"}, Mode <- "fixed_total", Total <- 2, Amount <- 2, Step <- 1,
    MinBalance <- 0, Balance <- 9, MaxOffers <- 2, MaxBids <- 2,
    Crashes <- TRUE, Prunes <- TRUE,
    offers <- o_offers, wallet <- o_wallet, accepted <- o_accepted, mem <- o_mem,
    disk <- o_disk, pc <- o_pc, todo <- o_todo, snap <- o_snap, balance <- o_balance, plan <- o_plan,
    unread <- o_unread, missed <- o_missed

\* Two templates; the script may be killed between any two steps.
MakerDies == INSTANCE OfferMaker WITH
    Templates <- {"t1", "t2"}, Mode <- "fixed_total", Total <- 1, Amount <- 1,
    Step <- 1, MinBalance <- 0, Balance <- 2, MaxOffers <- 2, MaxBids <- 1,
    Crashes <- TRUE, Prunes <- TRUE,
    offers <- o_offers, wallet <- o_wallet, accepted <- o_accepted, mem <- o_mem,
    disk <- o_disk, pc <- o_pc, todo <- o_todo, snap <- o_snap, balance <- o_balance, plan <- o_plan,
    unread <- o_unread, missed <- o_missed

\* Offers that are taken once.
MakerOnce == INSTANCE OfferMaker WITH
    Templates <- {"t1"}, Mode <- "one_time", Total <- 1, Amount <- 1, Step <- 1,
    MinBalance <- 0, Balance <- 3, MaxOffers <- 2, MaxBids <- 3,
    Crashes <- TRUE, Prunes <- TRUE,
    offers <- o_offers, wallet <- o_wallet, accepted <- o_accepted, mem <- o_mem,
    disk <- o_disk, pc <- o_pc, todo <- o_todo, snap <- o_snap, balance <- o_balance, plan <- o_plan,
    unread <- o_unread, missed <- o_missed

MakerUp == INSTANCE OfferMaker WITH
    Templates <- {"t1"}, Mode <- "fixed_total", Total <- 2, Amount <- 1, Step <- 1,
    MinBalance <- 0, Balance <- 9, MaxOffers <- 2, MaxBids <- 2,
    Crashes <- FALSE, Prunes <- FALSE,
    offers <- o_offers, wallet <- o_wallet, accepted <- o_accepted, mem <- o_mem,
    disk <- o_disk, pc <- o_pc, todo <- o_todo, snap <- o_snap, balance <- o_balance, plan <- o_plan,
    unread <- o_unread, missed <- o_missed

-----------------------------------------------------------------------------
\* The rates of the market maker.
VARIABLES
    r_mode, r_strategy, r_minrate, r_tweak, r_samePart, r_book, r_gecko, r_cg, r_mk,
    r_pc, r_rate

r_vars ==
    <<r_mode, r_strategy, r_minrate, r_tweak, r_samePart, r_book, r_gecko, r_cg, r_mk,
      r_pc, r_rate>>

Rate == INSTANCE OfferRate WITH
    Rates <- {100, 200}, MinRates <- {0, 150}, Tweaks <- {-50, 10},
    mode <- r_mode, strategy <- r_strategy, minrate <- r_minrate, tweak <- r_tweak,
    samePart <- r_samePart, book <- r_book, gecko <- r_gecko, cg <- r_cg, mk <- r_mk,
    pc <- r_pc, rate <- r_rate

-----------------------------------------------------------------------------
\* The market maker's bids.
VARIABLES
    b_bids, b_to, b_from, b_mem, b_disk, b_pc, b_todo, b_cache, b_plan, b_unpaid,
    b_overtaken, b_forgotten

b_vars ==
    <<b_bids, b_to, b_from, b_mem, b_disk, b_pc, b_todo, b_cache, b_plan, b_unpaid,
      b_overtaken, b_forgotten>>

\* Limits on the bids in progress and on the balance, for a script that may be
\* killed and entries that may be pruned at any time.
Bidder == INSTANCE BidMaker WITH
    Templates <- {"t1"}, Offers <- {"o1", "o2"}, Size <- Sizes, Fixed <- {"o2"},
    Known <- {"o1"}, KnownOnly <- FALSE, Debug <- FALSE, Amount <- 2, MinSwap <- 1,
    MaxConcurrent <- 1, MinTo <- 1, MaxFrom <- 6, BalanceTo <- 3, BalanceFrom <- 0,
    MaxBids <- 3, Crashes <- TRUE, Prunes <- TRUE, Ends <- {"listed", "other"},
    bids <- b_bids, to <- b_to, from <- b_from, mem <- b_mem, disk <- b_disk,
    pc <- b_pc, todo <- b_todo, cache <- b_cache, plan <- b_plan, unpaid <- b_unpaid,
    overtaken <- b_overtaken, forgotten <- b_forgotten

\* Two templates, a script that is killed and entries that are pruned.
BidderDies == INSTANCE BidMaker WITH
    Templates <- {"t1", "t2"}, Offers <- {"o1", "o2"}, Size <- Sizes, Fixed <- {"o2"},
    Known <- {"o1"}, KnownOnly <- FALSE, Debug <- FALSE, Amount <- 2, MinSwap <- 1,
    MaxConcurrent <- 1, MinTo <- 1, MaxFrom <- 6, BalanceTo <- 4, BalanceFrom <- 0,
    MaxBids <- 2, Crashes <- TRUE, Prunes <- TRUE, Ends <- {"listed"},
    bids <- b_bids, to <- b_to, from <- b_from, mem <- b_mem, disk <- b_disk,
    pc <- b_pc, todo <- b_todo, cache <- b_cache, plan <- b_plan, unpaid <- b_unpaid,
    overtaken <- b_overtaken, forgotten <- b_forgotten

\* Bids end in states that the script lists.
BidderUp == INSTANCE BidMaker WITH
    Templates <- {"t1"}, Offers <- {"o1", "o2"}, Size <- Sizes, Fixed <- {"o2"},
    Known <- {"o1"}, KnownOnly <- FALSE, Debug <- FALSE, Amount <- 2, MinSwap <- 1,
    MaxConcurrent <- 1, MinTo <- 1, MaxFrom <- 6, BalanceTo <- 4, BalanceFrom <- 0,
    MaxBids <- 2, Crashes <- FALSE, Prunes <- FALSE, Ends <- {"listed"},
    bids <- b_bids, to <- b_to, from <- b_from, mem <- b_mem, disk <- b_disk,
    pc <- b_pc, todo <- b_todo, cache <- b_cache, plan <- b_plan, unpaid <- b_unpaid,
    overtaken <- b_overtaken, forgotten <- b_forgotten

-----------------------------------------------------------------------------
\* The market maker's process.
VARIABLES
    a_alive, a_used, a_capture, a_handle, a_token, a_status, a_autostart, a_pc, a_pids,
    a_since, a_crossed, a_before, a_alone, a_earlier, a_crashes

a_vars ==
    <<a_alive, a_used, a_capture, a_handle, a_token, a_status, a_autostart, a_pc,
      a_pids, a_since, a_crossed, a_before, a_alone, a_earlier, a_crashes>>

\* Two requests, each in a thread of its own, and a crash of the program.
Amm == INSTANCE AmmProcess WITH
    Req <- {1, 2}, AutostartOn <- TRUE, MaxProcs <- 2, MaxCrashes <- 1,
    alive <- a_alive, used <- a_used, capture <- a_capture, handle <- a_handle,
    token <- a_token, status <- a_status, autostart <- a_autostart, pc <- a_pc,
    pids <- a_pids, since <- a_since, crossed <- a_crossed, before <- a_before,
    alone <- a_alone, earlier <- a_earlier, crashes <- a_crashes

\* The same with one child, which the crash may leave behind.
AmmUp == INSTANCE AmmProcess WITH
    Req <- {1, 2}, AutostartOn <- TRUE, MaxProcs <- 1, MaxCrashes <- 1,
    alive <- a_alive, used <- a_used, capture <- a_capture, handle <- a_handle,
    token <- a_token, status <- a_status, autostart <- a_autostart, pc <- a_pc,
    pids <- a_pids, since <- a_since, crossed <- a_crossed, before <- a_before,
    alone <- a_alone, earlier <- a_earlier, crashes <- a_crashes

-----------------------------------------------------------------------------
\* The market maker's configuration file.
VARIABLES
    c_file, c_copy, c_pc, c_safe, c_script, c_memory, c_stateFile, c_passes

c_vars ==
    <<c_file, c_copy, c_pc, c_safe, c_script, c_memory, c_stateFile, c_passes>>

\* The page and the script each read and write the whole file.
Config == INSTANCE AmmConfig WITH
    Edit <- {"e1", "e2"}, MaxPasses <- 3,
    file <- c_file, copy <- c_copy, pc <- c_pc, safe <- c_safe, script <- c_script,
    memory <- c_memory, stateFile <- c_stateFile, passes <- c_passes

-----------------------------------------------------------------------------
\* What the page shows of the market maker.
VARIABLES
    n_posted, n_live, n_others, n_filled, n_sold, n_enabled, n_running, n_recent

n_vars ==
    <<n_posted, n_live, n_others, n_filled, n_sold, n_enabled, n_running, n_recent>>

Count == INSTANCE AmmCount WITH
    Template <- {"t1", "t2"}, Offer <- {"o1", "o2"}, Budget <- 2,
    posted <- n_posted, live <- n_live, others <- n_others, filled <- n_filled,
    sold <- n_sold, enabled <- n_enabled, running <- n_running, recent <- n_recent

-----------------------------------------------------------------------------
\* The launcher.
VARIABLES
    d_daemon, d_child, d_daemons, d_pids, d_pidsFile, d_pc, d_idx, d_tries, d_handlers,
    d_delay, d_failCode, d_noRPC, d_clean, d_exitCode, d_kills, d_runs

d_vars ==
    <<d_daemon, d_child, d_daemons, d_pids, d_pidsFile, d_pc, d_idx, d_tries,
      d_handlers, d_delay, d_failCode, d_noRPC, d_clean, d_exitCode, d_kills, d_runs>>

Launch == INSTANCE Launcher WITH
    Coins <- <<"part", "btc", "xmr">>, Silent <- {"xmr"}, MaxKills <- 1, MaxRuns <- 2,
    Tries <- 2,
    daemon <- d_daemon, child <- d_child, daemons <- d_daemons, pids <- d_pids,
    pidsFile <- d_pidsFile, pc <- d_pc, idx <- d_idx, tries <- d_tries,
    handlers <- d_handlers, delay <- d_delay, failCode <- d_failCode, noRPC <- d_noRPC,
    clean <- d_clean, exitCode <- d_exitCode, kills <- d_kills, runs <- d_runs

LaunchOnce == INSTANCE Launcher WITH
    Coins <- <<"part", "btc", "xmr">>, Silent <- {"xmr"}, MaxKills <- 0, MaxRuns <- 1,
    Tries <- 2,
    daemon <- d_daemon, child <- d_child, daemons <- d_daemons, pids <- d_pids,
    pidsFile <- d_pidsFile, pc <- d_pc, idx <- d_idx, tries <- d_tries,
    handlers <- d_handlers, delay <- d_delay, failCode <- d_failCode, noRPC <- d_noRPC,
    clean <- d_clean, exitCode <- d_exitCode, kills <- d_kills, runs <- d_runs

-----------------------------------------------------------------------------
\* The preparation of a node.
VARIABLES
    i_json, i_saved, i_mem, i_file, i_bin, i_badBin, i_conf, i_last, i_wallet, i_known,
    i_op, i_phase, i_todo, i_arg, i_stops, i_ops

i_vars ==
    <<i_json, i_saved, i_mem, i_file, i_bin, i_badBin, i_conf, i_last, i_wallet,
      i_known, i_op, i_phase, i_todo, i_arg, i_stops, i_ops>>

Prepare == INSTANCE NodePrepare WITH
    Coin <- {"part", "btc"}, Part <- "part", MaxVersion <- 2, MaxStops <- 1,
    MaxOps <- 3, SetupOverTor <- FALSE,
    json <- i_json, saved <- i_saved, mem <- i_mem, file <- i_file, bin <- i_bin,
    badBin <- i_badBin, conf <- i_conf, last <- i_last, wallet <- i_wallet,
    known <- i_known, op <- i_op, phase <- i_phase, todo <- i_todo, arg <- i_arg,
    stops <- i_stops, ops <- i_ops

-----------------------------------------------------------------------------
vars == <<part, u_vars, g_vars, v_vars, e_vars, x_vars, p_vars, w_vars, l_vars, o_vars,
          r_vars, b_vars, a_vars, c_vars, n_vars, d_vars, i_vars>>

AllParts ==
    {"utxos", "light", "light_live", "view", "view_live", "server", "server_ends",
     "server_recovers", "monero", "monero_drops", "passwords_encrypt",
     "passwords_unlock", "passwords_seeds", "switch", "switch_live", "locktxs", "maker",
     "maker_restart", "maker_once", "maker_live", "rate", "bidder", "bidder_restart",
     "bidder_live", "amm", "amm_live", "config", "count", "launcher",
     "launcher_live", "prepare"}

\* The state of the part that moves.
moving ==
    CASE part = "utxos" -> u_vars
      [] part \in {"light", "light_live"} -> g_vars
      [] part \in {"view", "view_live"} -> v_vars
      [] part \in {"server", "server_ends", "server_recovers"} -> e_vars
      [] part \in {"monero", "monero_drops"} -> x_vars
      [] part \in {"passwords_encrypt", "passwords_unlock", "passwords_seeds"} -> p_vars
      [] part \in {"switch", "switch_live"} -> w_vars
      [] part = "locktxs" -> l_vars
      [] part \in {"maker", "maker_restart", "maker_once", "maker_live"} -> o_vars
      [] part = "rate" -> r_vars
      [] part \in {"bidder", "bidder_restart", "bidder_live"} -> b_vars
      [] part \in {"amm", "amm_live"} -> a_vars
      [] part = "config" -> c_vars
      [] part = "count" -> n_vars
      [] part \in {"launcher", "launcher_live"} -> d_vars
      [] part = "prepare" -> i_vars

\* The parts that do not move are in an initial state of theirs.
Init ==
    /\ part \in Parts
    /\ Wallet!Outputs!Init
    /\ IF part = "light_live" THEN LightUp!Init ELSE
       Wallet!Init
    /\ part \in {"light", "light_live"} \/ (g_keys = [f \in {<<"node", 0>>} |-> "none"] /\ g_funds = [a \in DOMAIN g_funds |-> 0])
    /\ View!Init
    /\ part \in {"view", "view_live"} \/ (v_cur = "s1" /\ v_sub = 0)
    /\ IF part = "server_ends" THEN ServerOne!Init ELSE
       IF part = "server_recovers" THEN ServerPoll!Init ELSE
       Server!Init
    /\ part \in {"server", "server_ends", "server_recovers"} \/ (e_srv = "s1")
    /\ IF part = "monero_drops" THEN MoneroDrops!Init ELSE
       Monero!Init
    /\ IF part = "passwords_unlock" THEN Unlock!Access!Init ELSE
       IF part = "passwords_seeds" THEN Seeds!Access!Init ELSE
       Wallet!Access!Init
    /\ part \in {"passwords_encrypt", "passwords_unlock", "passwords_seeds"} \/ (p_wallet["btc"].seed = "swap")
    /\ IF part = "switch_live" THEN SwitchUp!Init ELSE
       Switch!Init
    /\ LockTx!Init
    /\ part = "locktxs" \/ (l_terms = [kind |-> "BTC", value |-> 900, rate |-> 1000] /\ l_tweaked = FALSE)
    /\ IF part = "maker_restart" THEN MakerDies!Init ELSE
       IF part = "maker_once" THEN MakerOnce!Init ELSE
       IF part = "maker_live" THEN MakerUp!Init ELSE
       Maker!Init
    /\ Rate!Init
    /\ part = "rate" \/ (r_mode = "static" /\ r_strategy = "none" /\ r_minrate = 0 /\ r_tweak = 10 /\ r_samePart = FALSE /\ r_book = {} /\ r_gecko = -1)
    /\ IF part = "bidder_restart" THEN BidderDies!Init ELSE
       IF part = "bidder_live" THEN BidderUp!Init ELSE
       Bidder!Init
    /\ IF part = "amm_live" THEN AmmUp!Init ELSE
       Amm!Init
    /\ Config!Init
    /\ Count!Init
    /\ part = "count" \/ (n_others = FALSE)
    /\ IF part = "launcher_live" THEN LaunchOnce!Init ELSE
       Launch!Init
    /\ Prepare!Init

Next ==
    \/ /\ part = "utxos" /\ Wallet!Outputs!Next
       /\ UNCHANGED <<part, g_vars, v_vars, e_vars, x_vars, p_vars, w_vars, l_vars,
                     o_vars, r_vars, b_vars, a_vars, c_vars, n_vars, d_vars, i_vars>>
    \/ /\ \/ part = "light" /\ Wallet!Next
          \/ part = "light_live" /\ LightUp!Next
       /\ UNCHANGED <<part, u_vars, v_vars, e_vars, x_vars, p_vars, w_vars, l_vars,
                     o_vars, r_vars, b_vars, a_vars, c_vars, n_vars, d_vars, i_vars>>
    \/ /\ \/ part = "view" /\ View!Next
          \/ part = "view_live" /\ ViewUp!Next
       /\ UNCHANGED <<part, u_vars, g_vars, e_vars, x_vars, p_vars, w_vars, l_vars,
                     o_vars, r_vars, b_vars, a_vars, c_vars, n_vars, d_vars, i_vars>>
    \/ /\ \/ part = "server" /\ Server!Next
          \/ part = "server_ends" /\ ServerOne!Next
          \/ part = "server_recovers" /\ ServerPoll!NextPolling
       /\ UNCHANGED <<part, u_vars, g_vars, v_vars, x_vars, p_vars, w_vars, l_vars,
                     o_vars, r_vars, b_vars, a_vars, c_vars, n_vars, d_vars, i_vars>>
    \/ /\ \/ part = "monero" /\ Monero!Next
          \/ part = "monero_drops" /\ MoneroDrops!Next
       /\ UNCHANGED <<part, u_vars, g_vars, v_vars, e_vars, p_vars, w_vars, l_vars,
                     o_vars, r_vars, b_vars, a_vars, c_vars, n_vars, d_vars, i_vars>>
    \/ /\ \/ part = "passwords_encrypt" /\ Wallet!Access!Next
          \/ part = "passwords_unlock" /\ Unlock!Access!Next
          \/ part = "passwords_seeds" /\ Seeds!Access!Next
       /\ UNCHANGED <<part, u_vars, g_vars, v_vars, e_vars, x_vars, w_vars, l_vars,
                     o_vars, r_vars, b_vars, a_vars, c_vars, n_vars, d_vars, i_vars>>
    \/ /\ \/ part = "switch" /\ Switch!Next
          \/ part = "switch_live" /\ SwitchUp!Next
       /\ UNCHANGED <<part, u_vars, g_vars, v_vars, e_vars, x_vars, p_vars, l_vars,
                     o_vars, r_vars, b_vars, a_vars, c_vars, n_vars, d_vars, i_vars>>
    \/ /\ part = "locktxs" /\ LockTx!Next
       /\ UNCHANGED <<part, u_vars, g_vars, v_vars, e_vars, x_vars, p_vars, w_vars,
                     o_vars, r_vars, b_vars, a_vars, c_vars, n_vars, d_vars, i_vars>>
    \/ /\ \/ part = "maker" /\ Maker!Next
          \/ part = "maker_restart" /\ MakerDies!Next
          \/ part = "maker_once" /\ MakerOnce!Next
          \/ part = "maker_live" /\ MakerUp!Next
       /\ UNCHANGED <<part, u_vars, g_vars, v_vars, e_vars, x_vars, p_vars, w_vars,
                     l_vars, r_vars, b_vars, a_vars, c_vars, n_vars, d_vars, i_vars>>
    \/ /\ part = "rate" /\ Rate!Next
       /\ UNCHANGED <<part, u_vars, g_vars, v_vars, e_vars, x_vars, p_vars, w_vars,
                     l_vars, o_vars, b_vars, a_vars, c_vars, n_vars, d_vars, i_vars>>
    \/ /\ \/ part = "bidder" /\ Bidder!Next
          \/ part = "bidder_restart" /\ BidderDies!Next
          \/ part = "bidder_live" /\ BidderUp!Next
       /\ UNCHANGED <<part, u_vars, g_vars, v_vars, e_vars, x_vars, p_vars, w_vars,
                     l_vars, o_vars, r_vars, a_vars, c_vars, n_vars, d_vars, i_vars>>
    \/ /\ \/ part = "amm" /\ Amm!Next
          \/ part = "amm_live" /\ AmmUp!Next
       /\ UNCHANGED <<part, u_vars, g_vars, v_vars, e_vars, x_vars, p_vars, w_vars,
                     l_vars, o_vars, r_vars, b_vars, c_vars, n_vars, d_vars, i_vars>>
    \/ /\ part = "config" /\ Config!Next
       /\ UNCHANGED <<part, u_vars, g_vars, v_vars, e_vars, x_vars, p_vars, w_vars,
                     l_vars, o_vars, r_vars, b_vars, a_vars, n_vars, d_vars, i_vars>>
    \/ /\ part = "count" /\ Count!Next
       /\ UNCHANGED <<part, u_vars, g_vars, v_vars, e_vars, x_vars, p_vars, w_vars,
                     l_vars, o_vars, r_vars, b_vars, a_vars, c_vars, d_vars, i_vars>>
    \/ /\ \/ part = "launcher" /\ Launch!Next
          \/ part = "launcher_live" /\ LaunchOnce!Next
       /\ UNCHANGED <<part, u_vars, g_vars, v_vars, e_vars, x_vars, p_vars, w_vars,
                     l_vars, o_vars, r_vars, b_vars, a_vars, c_vars, n_vars, i_vars>>
    \/ /\ part = "prepare" /\ Prepare!Next
       /\ UNCHANGED <<part, u_vars, g_vars, v_vars, e_vars, x_vars, p_vars, w_vars,
                     l_vars, o_vars, r_vars, b_vars, a_vars, c_vars, n_vars, d_vars>>

\* What the threads of a part keep doing, by number: the k-th action of a part
\* is taken again and again.
Runs(k) ==
    \* The wallet is migrated, and a sync that is listed goes on.
    \/ /\ part = "light_live"
       /\ \/ k = 1 /\ LightUp!RunMigration
          \/ k = 2 /\ (LightUp!SyncFetch \/ LightUp!SyncWrite)
    \* The servers follow the chain, a header gets through, cached rows age, and
    \* the swap loop asks for the lock transaction again and again.
    \/ /\ part = "view_live"
       /\ \/ k = 1 /\ ViewUp!ServerSync("s1")
          \/ k = 2 /\ ViewUp!ServerSync("s2")
          \/ k = 3 /\ ViewUp!Header
          \/ k = 4 /\ ViewUp!CacheExpires
          \/ k = 5 /\ ViewUp!Begin("lock")
          \/ k = 6 /\ (\/ ViewUp!LockTxCached \/ ViewUp!LockTxLookup
                       \/ ViewUp!LockTxUnverified \/ ViewUp!QueryFails("lock"))
    \* Threads run, a timeout elapses, and messages are read; shutdown is not
    \* required to happen, and neither is a new call.
    \/ /\ part = "server_ends"
       /\ \/ k = 1 /\ ServerOne!ThreadStep("a")
          \/ k = 2 /\ ServerOne!ThreadStep("ka")
          \/ k = 3 /\ \E w \in e_wire : ServerOne!Deliver(w)
          \/ k = 4 /\ ServerOne!ListenerEnds
    \* The polling thread calls again and again.
    \/ /\ part = "server_recovers"
       /\ \/ k = 1 /\ ServerPoll!ThreadStep("a")
          \/ k = 2 /\ ServerPoll!ThreadStep("ka")
          \/ k = 3 /\ \E w \in e_wire : ServerPoll!Deliver(w)
          \/ k = 4 /\ ServerPoll!ListenerEnds
          \/ k = 5 /\ ServerPoll!StartCall("a")
    \* Transactions confirm, and threads and timers go on.
    \/ /\ part = "switch_live"
       /\ \/ k = 1 /\ SwitchUp!Confirm("c1")
          \/ k = 2 /\ (SwitchUp!Wait \/ SwitchUp!RetryPendingSweeps)
          \/ k = 3 /\ SwitchUp!Unlock
          \/ k = 4 /\ SwitchUp!Transfer("background")
          \/ k = 5 /\ SwitchUp!Transfer("retry")
          \/ k = 6 /\ SwitchUp!Transfer("settings")
    \* The script's loop goes on, bids in negotiation end, swaps complete and are
    \* counted, and revocations arrive.
    \/ /\ part = "maker_live"
       /\ \/ k = 1 /\ (\/ MakerUp!StartRound \/ MakerUp!CheckOffers \/ MakerUp!RecordOffer
                       \/ MakerUp!EndRound \/ MakerUp!CheckTracking("t1"))
          \/ k = 2 /\ MakerUp!Commit
          \/ k = 3 /\ MakerUp!SwapsComplete
          \/ k = 4 /\ MakerUp!Fill
          \/ k = 5 /\ MakerUp!RevokeArrives
    \* The script's loop goes on and the node's bids end.
    \/ /\ part = "bidder_live"
       /\ \/ k = 1 /\ (\/ BidderUp!StartRound \/ BidderUp!ChooseOffer \/ BidderUp!RecordBid
                       \/ BidderUp!EndRound \/ BidderUp!CheckBids("t1"))
          \/ k = 2 /\ (BidderUp!PostBid \/ BidderUp!PostFails)
          \/ k = 3 /\ BidderUp!Fund
          \/ k = 4 /\ BidderUp!SwapEnds
    \* Threads run on.
    \/ part = "amm_live" /\ k \in {1, 2} /\ AmmUp!RunRequest(k)
    \* The launcher runs on.
    \/ part = "launcher_live" /\ k = 1 /\ LaunchOnce!Program

\* What happens if it can happen again and again: a full scan of the wallet is
\* listed, a query for the lock transaction is answered, an API call that posts
\* an offer succeeds, the start-up thread gets its turn.
SometimesRuns ==
    \/ part = "light_live" /\ LightUp!SyncList(FALSE)
    \/ part = "view_live" /\ ViewUp!LockTxLookup /\ v_ans'.height = v_view[v_cur].at
    \/ part = "maker_live" /\ MakerUp!CreateOffer
    \/ part = "amm_live" /\ \E r \in {1, 2} : AmmUp!Autostart(r)

\* The light wallet is left alone and its server answers in the end.  The polling
\* thread does get the lock of the connection: a ping gives up after 10 s, a call
\* waits 15 s.
Spec ==
    /\ Init /\ [][Next]_vars
    /\ \A k \in 1..6 : WF_moving(UNCHANGED part /\ Runs(k))
    /\ SF_moving(UNCHANGED part /\ SometimesRuns)
    /\ <>[][part = "light_live" => ~LightUp!Disturbed]_vars
    /\ []<>(part = "server_recovers" => e_lock = "a")

-----------------------------------------------------------------------------
ASSUME ConstantsAssumption ==
    /\ Parts \subseteq AllParts
    /\ Wallet!Outputs!ConstantsOK
    /\ Wallet!ConstantsOK /\ LightUp!ConstantsOK
    /\ View!ConstantsOK /\ ViewUp!ConstantsOK
    /\ Server!ConstantsOK /\ ServerOne!ConstantsOK /\ ServerPoll!ConstantsOK
    /\ Monero!ConstantsOK /\ MoneroDrops!ConstantsOK
    /\ Wallet!Access!ConstantsOK /\ Unlock!Access!ConstantsOK /\ Seeds!Access!ConstantsOK
    /\ Switch!ConstantsOK /\ SwitchUp!ConstantsOK
    /\ LockTx!ConstantsOK
    /\ Maker!ConstantsOK /\ MakerDies!ConstantsOK /\ MakerOnce!ConstantsOK /\ MakerUp!ConstantsOK
    /\ Rate!ConstantsOK
    /\ Bidder!ConstantsOK /\ BidderDies!ConstantsOK /\ BidderUp!ConstantsOK
    /\ Amm!ConstantsOK /\ AmmUp!ConstantsOK
    /\ Config!ConstantsOK
    /\ Count!ConstantsOK
    /\ Launch!ConstantsOK /\ LaunchOnce!ConstantsOK
    /\ Prepare!ConstantsOK

\* The state of every part has the types of the rows, files and objects it stands
\* for.
TypeOK ==
    /\ part = "utxos" => Wallet!Outputs!TypeOK
    /\ part = "light" => Wallet!TypeOK
    /\ part = "view" => View!TypeOK
    /\ part = "server" => Server!TypeOK
    /\ part = "switch" => Switch!TypeOK
    /\ part = "maker" => Maker!TypeOK
    /\ part = "bidder" => Bidder!TypeOK
    /\ part = "amm" => Amm!TypeOK
    /\ part = "config" => Config!TypeOK
    /\ part = "count" => Count!TypeOK
    /\ part = "launcher" => Launch!TypeOK
    /\ part = "prepare" => Prepare!TypeOK

\* What the wallet holds it can spend, once.  Outputs that are reserved for a bid
\* are not given to another operation while the bid may still publish ("Lock a
\* UTXO to prevent double-spending") and are free when it ended; what an address
\* that was given out receives can be signed for whatever migrations and imports
\* did since, it is given out once, and a restore from the seed finds it.
FundsHeld ==
    /\ part = "utxos" => /\ Wallet!Outputs!NoSharedInputs
                         /\ Wallet!Outputs!AcceptedStaysLocked
                         /\ Wallet!Outputs!NoLockLeft
    /\ part = "light" => Wallet!GivenSignable /\ Wallet!GivenOnce /\ Wallet!WithinGap

\* What a server answers is true of what was asked.  No depth is answered that
\* the transaction does not have in a chain a server showed, confirmations count
\* only with a verified proof, and a call is never answered with the response to
\* another request, although connections are replaced and requests time out.
AnswersTrue ==
    /\ part = "view" => View!DepthReal /\ View!VerifiedCounts
    /\ part = "server" => Server!AnswerBelongs

\* One wallet process that opens the files of all swaps pays from the right one.
\* The lock of a swap is paid once whatever is retried after a lost answer, locks
\* and withdrawals come out of the main wallet, what findTxB answers pays this
\* swap's lock in full, spendBLockTx spends the coins of its own swap, and what is
\* shown as the main wallet is the main wallet.
RightWallet ==
    /\ part = "monero" => Monero!OneLock /\ Monero!MainPays /\ Monero!ShowsMain
    /\ part = "monero_drops" => /\ MoneroDrops!MainPays
                                /\ MoneroDrops!FoundIsLock
                                /\ MoneroDrops!SpendsOwn

\* Passwords leave the node's wallets usable.  No swap is in progress with a part
\* of the wallets locked, a wallet with a seed that is not the node's is pointed
\* out, and a wallet that was unloaded to be encrypted is loaded again.
WalletsUsable ==
    /\ part = "passwords_unlock" => Unlock!Access!NoSwapHalfUnlocked
    /\ part = "passwords_seeds" => Seeds!Access!SeedWarned /\ Seeds!Access!WalletsLoaded

\* The lock transactions that a leader builds from the agreed terms protect both.
\* They pass the follower's checks, the leader refuses its own only when the
\* amount cannot pay them, it holds a refund the network takes before it locks
\* coins, it can take that refund before the follower can swipe it, and the output
\* a mercy transaction spends is one it watches.
LockTxsSound ==
    part = "locktxs" =>
        /\ LockTx!NoHonestRejection /\ LockTx!RefusedForCause
        /\ LockTx!RefundReady /\ LockTx!LeaderFirst /\ LockTx!MercyWatched


\* The programs around the node leave nothing half done.  No start adds a market
\* maker to one that ran when it was requested, however requests cross, and one
\* started alone can log in; an edit that was reported as saved, with nobody else
\* holding a copy of the configuration file, stays in it; the page counts the
\* offers of a running market maker and shows a template as exhausted as soon as
\* its budget is sold; a launcher that gave up on a daemon asks to be run again;
\* the core version that basicswap.json records was extracted from a release file
\* that passed its checks, a listed coin has its configuration and its wallet, and
\* the files agree about Tor, also when a command stopped half way.
ProgramsSound ==
    /\ part = "amm" => Amm!NoneDoubled /\ Amm!ChildCanLogIn
    /\ part = "config" => Config!NoEditLost
    /\ part = "count" => Count!CountExact /\ Count!ExhaustedAtOnce
    /\ part = "launcher" => Launch!RestartIsAsked
    /\ part = "prepare" => /\ Prepare!VersionInstalled /\ Prepare!OnlyVerified
                           /\ Prepare!ListedIsPrepared /\ Prepare!TorAgrees

\* What no step does.  A lock that is time locked is not answered as found; the
\* password of the main Monero wallet does not change while a swap in progress
\* that the request could see has a wallet file; an imported private key is never
\* lost; the setting does not move to the light wallet while a swap is in
\* progress; the refund does not displace a spend of the lock that the network
\* holds; no stop request returns with a market maker left of those that ran when
\* it was made; no run of the launcher returns with a daemon running that .pids
\* does not list.
StepsSound ==
    [][/\ part = "monero_drops" => MoneroDrops!FoundIsSpendable
       /\ part = "passwords_encrypt" => Wallet!Access!NoChangeWithSwaps
       /\ part = "light" => Wallet!KeysKept
       /\ part = "switch" => Switch!SwitchToLiteWaits
       /\ part = "locktxs" => LockTx!SpendStands
       /\ part = "amm" => Amm!StopStops
       /\ part = "launcher" => Launch!ReturnsClean]_vars

\* What the caller of a part waits for.
CallWaits ==
    \/ part \in {"server_ends", "server_recovers"} /\ ServerOne!CallWaits("a")
    \/ part = "switch_live" /\ "c1" \in w_owed
    \/ part = "amm_live" /\ a_autostart
    \/ part = "launcher_live" /\ LaunchOnce!ShuttingDown

CallServed ==
    \/ part \in {"server_ends", "server_recovers"} /\ ~ServerOne!CallWaits("a")
    \/ part = "switch_live" /\ SwitchUp!Settled("c1")
    \/ part = "amm_live" /\ AmmUp!TakenOver
    \/ part = "launcher_live" /\ d_pc = "off"

\* Nobody waits for ever: a call to a server ends, whatever the servers do and
\* whoever disconnects meanwhile; a sweep that was put off is made ("Will retry
\* automatically when transactions confirm"), if no restart or failed call makes
\* the node forget it; the autostart takes over from what a crash left behind; a
\* shutdown ends.
CallsServed == CallWaits ~> CallServed

\* The caches settle on the truth, and what recurs does so for ever.  Once wallet
\* and chain are quiet, the cached balances are those of the chain, no answer
\* gives the height that the transaction had before a reorganisation, and the one
\* it has is answered again and again; a server that does not answer is left for
\* one that does; a template with coins to sell is put on offer again; bids that
\* ended stop counting.
SettlesAndGoesOn ==
    /\ <>[](/\ part = "light_live" => LightUp!BalancesRight
            /\ part = "view_live" => ViewUp!AnswerNotOld)
    /\ []<>(/\ part = "view_live" => ViewUp!AnswerRight
            /\ part = "server_recovers" => ServerPoll!Answered
            /\ part = "maker_live" => MakerUp!OnOffer
            /\ part = "bidder_live" => BidderUp!EndedReleased)

-----------------------------------------------------------------------------
(***************************************************************************)
(* What the theorems about the built-in wallet say of the suite: a         *)
(* behaviour moves one part all along, or never moves it.                  *)
(***************************************************************************)

\* A behaviour is one of the locks on outputs (wallet_locked_utxos), or leaves
\* them alone.
LEMMA OutputsRuns ==
    Init /\ [][Next]_vars =>
        ([](part = "utxos") /\ Wallet!Outputs!Spec) \/ [](~(part = "utxos"))
<1>1. Init /\ part = "utxos" => Wallet!Outputs!Init
  BY DEF Init
<1>2. [Next]_vars /\ part = "utxos" =>
        [Wallet!Outputs!Next]_(Wallet!Outputs!vars) /\ (part = "utxos")'
  BY DEF Next, vars, u_vars, Wallet!Outputs!vars
<1>3. [Next]_vars /\ ~(part = "utxos") => (~(part = "utxos"))'
  BY DEF Next, vars
<1> QED
  BY <1>1, <1>2, <1>3, PTL DEF Wallet!Outputs!Spec

\* The same of the light wallet (wallet_manager.py).
LEMMA WalletRuns ==
    Init /\ [][Next]_vars =>
        ([](part = "light") /\ Wallet!Spec) \/ [](~(part = "light"))
<1>1. Init /\ part = "light" => Wallet!Init
  BY DEF Init
<1>2. [Next]_vars /\ part = "light" =>
        [Wallet!Next]_(Wallet!vars) /\ (part = "light")'
  BY DEF Next, vars, g_vars, Wallet!vars
<1>3. [Next]_vars /\ ~(part = "light") => (~(part = "light"))'
  BY DEF Next, vars
<1> QED
  BY <1>1, <1>2, <1>3, PTL DEF Wallet!Spec

\* What the built-in wallet holds it can spend, and no output is in two
\* transactions that may both be published, in the behaviours of the suite.
THEOREM FundsKept == Spec => []FundsHeld
<1>1. Wallet!Outputs!ConstantsOK /\ Wallet!LockOutlives
  BY ConstantsAssumption DEF Wallet!LockOutlives, AcceptTimeout, BidLock
<1>2. Wallet!ConstantsOK /\ Wallet!ForeignIsOther /\ Wallet!GapAboveOne
  BY ConstantsAssumption
     DEF Wallet!ForeignIsOther, Wallet!GapAboveOne, Wallet!Derived, Wallet!Chains, Gap, MaxIndex,
         Foreign
<1>3. Spec => [](part = "utxos" => /\ Wallet!Outputs!NoSharedInputs
                                   /\ Wallet!Outputs!AcceptedStaysLocked
                                   /\ Wallet!Outputs!NoLockLeft)
  <2>1. Wallet!Outputs!Spec => []Wallet!Outputs!NoSharedInputs
    BY <1>1, Wallet!InputsNotShared
  <2>2. Wallet!Outputs!Spec => []Wallet!Outputs!AcceptedStaysLocked
    BY <1>1, Wallet!LocksLast
  <2>3. Wallet!Outputs!Spec => []Wallet!Outputs!NoLockLeft
    BY <1>1, Wallet!LocksEnd
  <2> QED
    BY <2>1, <2>2, <2>3, OutputsRuns, PTL DEF Spec
<1>4. Spec => [](part = "light" => /\ Wallet!GivenSignable
                                   /\ Wallet!GivenOnce
                                   /\ Wallet!WithinGap)
  <2>1. Wallet!Spec => []Wallet!GivenSignable
    BY <1>2, Wallet!GivenCanBeSpent
  <2>2. Wallet!Spec => []Wallet!GivenOnce
    BY <1>2, Wallet!NeverReused
  <2>3. Wallet!Spec => []Wallet!WithinGap
    BY <1>2, Wallet!RestoreFinds
  <2> QED
    BY <2>1, <2>2, <2>3, WalletRuns, PTL DEF Spec
<1> QED
  BY <1>3, <1>4, PTL DEF FundsHeld

\* The same of encrypted wallets, locked and unlocked (unlockWallets).
LEMMA UnlockRuns ==
    Init /\ [][Next]_vars =>
        ([](part = "passwords_unlock") /\ Unlock!Access!Spec) \/ [](~(part = "passwords_unlock"))
<1>1. Init /\ part = "passwords_unlock" => Unlock!Access!Init
  BY DEF Init
<1>2. [Next]_vars /\ part = "passwords_unlock" =>
        [Unlock!Access!Next]_(Unlock!Access!vars) /\ (part = "passwords_unlock")'
  BY DEF Next, vars, p_vars, Unlock!Access!vars
<1>3. [Next]_vars /\ ~(part = "passwords_unlock") => (~(part = "passwords_unlock"))'
  BY DEF Next, vars
<1> QED
  BY <1>1, <1>2, <1>3, PTL DEF Unlock!Access!Spec

\* The same of requests for single coins (changeWalletPassword, reseedWallet).
LEMMA SeedsRuns ==
    Init /\ [][Next]_vars =>
        ([](part = "passwords_seeds") /\ Seeds!Access!Spec) \/ [](~(part = "passwords_seeds"))
<1>1. Init /\ part = "passwords_seeds" => Seeds!Access!Init
  BY DEF Init
<1>2. [Next]_vars /\ part = "passwords_seeds" =>
        [Seeds!Access!Next]_(Seeds!Access!vars) /\ (part = "passwords_seeds")'
  BY DEF Next, vars, p_vars, Seeds!Access!vars
<1>3. [Next]_vars /\ ~(part = "passwords_seeds") => (~(part = "passwords_seeds"))'
  BY DEF Next, vars
<1> QED
  BY <1>1, <1>2, <1>3, PTL DEF Seeds!Access!Spec

\* Passwords leave the node's wallets usable, in the behaviours of the suite: no swap is in
\* progress with a part of the wallets locked, a seed that is not the node's is pointed out,
\* no wallet is left unloaded.
THEOREM WalletsKept == Spec => []WalletsUsable
<1>1. Unlock!Access!ConstantsOK /\ Unlock!Encrypted
  BY ConstantsAssumption DEF Unlock!Encrypted, Unlock!NoPassword
<1>2. Seeds!Access!ConstantsOK
  BY ConstantsAssumption
<1>3. Spec => [](part = "passwords_unlock" => Unlock!Access!NoSwapHalfUnlocked)
  <2>1. Unlock!Access!Spec => []Unlock!Access!NoSwapHalfUnlocked
    BY <1>1, Unlock!NeverHalfUnlocked
  <2> QED
    BY <2>1, UnlockRuns, PTL DEF Spec
<1>4. Spec => [](part = "passwords_seeds" => /\ Seeds!Access!SeedWarned
                                             /\ Seeds!Access!WalletsLoaded)
  <2>1. Seeds!Access!Spec => []Seeds!Access!SeedWarned
    BY <1>2, Seeds!Warned
  <2>2. Seeds!Access!Spec => []Seeds!Access!WalletsLoaded
    BY <1>2, Seeds!StaysLoaded
  <2> QED
    BY <2>1, <2>2, SeedsRuns, PTL DEF Spec
<1> QED
  BY <1>3, <1>4, PTL DEF WalletsUsable
=============================================================================
