------------------------------- MODULE Portals -------------------------------
(***************************************************************************)
(* Bridging the message networks.  An operator active on both networks     *)
(* opens a portal from one to the other: an address of its own, announced  *)
(* by a portal offer and refreshed when it runs out.  A user on one        *)
(* network only sends a message there and, wrapped, to a portal's address; *)
(* the operator unwraps it and posts it on the other network.              *)
(***************************************************************************)
EXTENDS Integers, FiniteSets, FiniteSetsExt

CONSTANTS
    From, To,      \* the user's network and the one the portal leads to
    UserNets,      \* the networks the user is active on
    Msgs,          \* the messages the user sends
    Valid,         \* time_valid of a portal
    Slack,         \* how long after its end a portal is refreshed
    Forget,        \* _forget_portals_after
    StampsNow,     \* an announcement carries the time it is sent (SMSG), or
                   \* the time the portal last started (Simplex)
    MaxAddrs,      \* bound: portals opened
    MaxTime        \* bound of the clock

\* What is assumed of the constants.
ConstantsOK ==
    /\ From # To /\ UserNets \subseteq {From, To} /\ From \in UserNets
    /\ {Valid, Slack, Forget, MaxAddrs, MaxTime} \subseteq Nat
    /\ StampsNow \in BOOLEAN

VARIABLES
    time,
    op,       \* the operator: "up", "down" or "failed" (it cannot start)
    own,      \* own_portals: the portal in the operator's memory, or a set of none
    rows,     \* network_portals at the operator
    addrs,    \* portal addresses made so far
    offers,   \* announcements under way
    known,    \* known_portals: the portals in the user's memory
    wrapped,  \* messages under way to a portal's address
    posted,   \* posted[m][n]: how often m was posted on the network n
    sentTo,   \* sentTo[m]: the user has sent m
    missed    \* messages to a portal nobody serves any more

vars == <<time, op, own, rows, addrs, offers, known, wrapped, posted, sentTo, missed>>

Portal == [addr : 1..MaxAddrs, start : 0..MaxTime]

TypeOK ==
    /\ time \in 0..MaxTime /\ op \in {"up", "down", "failed"} /\ addrs \in 0..MaxAddrs
    /\ own \subseteq Portal /\ Cardinality(own) <= 1
    /\ rows \subseteq Portal /\ offers \subseteq Portal /\ known \subseteq Portal
    /\ wrapped \subseteq Msgs \X (1..MaxAddrs)
    /\ posted \in [Msgs -> [{From, To} -> 0..2]]
    /\ sentTo \in [Msgs -> BOOLEAN] /\ missed \subseteq Msgs

Init ==
    /\ time = 0 /\ op = "up" /\ addrs = 0
    /\ own = {} /\ rows = {} /\ offers = {} /\ known = {} /\ wrapped = {}
    /\ posted = [m \in Msgs |-> [n \in {From, To} |-> 0]]
    /\ sentTo = [m \in Msgs |-> FALSE]
    /\ missed = {}

Tick ==
    /\ time < MaxTime /\ time' = time + 1
    /\ UNCHANGED <<op, own, rows, addrs, offers, known, wrapped, posted, sentTo, missed>>

\* newPortal: a fresh address, a row, and an announcement.
NewPortal ==
    /\ op = "up" /\ own = {} /\ addrs < MaxAddrs
    /\ LET p == [addr |-> addrs + 1, start |-> time]
       IN  own' = {p} /\ rows' = rows \cup {p} /\ offers' = offers \cup {p}
    /\ addrs' = addrs + 1
    /\ UNCHANGED <<time, op, known, wrapped, posted, sentTo, missed>>

\* Mutant: the portal is refreshed all the time.
RefreshDueAlways(p) == TRUE

\* updateNetworkBridges: a portal is refreshed when its time has been over for Slack.
RefreshDue(p) == p.start + Valid <= time - Slack

\* refreshPortal: the announcement is sent again, then the start time is set, in
\* memory only.
RefreshPortal ==
    /\ op = "up"
    /\ \E p \in own :
        /\ RefreshDue(p)
        /\ offers' = offers \cup {[p EXCEPT !.start = IF StampsNow THEN time ELSE @]}
        /\ own' = {[p EXCEPT !.start = time]}
    /\ UNCHANGED <<time, op, rows, addrs, known, wrapped, posted, sentTo, missed>>

\* The same pass deletes rows that are long over; the row of a portal that was
\* refreshed still has its first start time.
ForgetPortals ==
    /\ op = "up" /\ \E p \in rows : p.start < time - Forget
    /\ rows' = {p \in rows : p.start >= time - Forget}
    /\ UNCHANGED <<time, op, own, addrs, offers, known, wrapped, posted, sentTo, missed>>

\* processPortalOffer at the user: an announcement that is not over is recorded,
\* in place of an earlier one of the same address.
ProcessPortalOffer(p) ==
    /\ p \in offers /\ offers' = offers \ {p}
    /\ known' = IF p.start + Valid < time THEN known
                ELSE {k \in known : k.addr # p.addr} \cup {p}
    /\ UNCHANGED <<time, op, own, rows, addrs, wrapped, posted, sentTo, missed>>

\* An announcement is lost.
OfferLost(p) ==
    /\ p \in offers /\ offers' = offers \ {p}
    /\ UNCHANGED <<time, op, own, rows, addrs, known, wrapped, posted, sentTo, missed>>

Count(m, N) == [n \in {From, To} |-> posted[m][n] + (IF n \in N THEN 1 ELSE 0)]

\* Mutant: the bridge is used for networks the message was sent to.
BridgedToAll == {To}

\* The networks left for a portal: those the message was not sent to yet.
BridgedTo == {To} \ UserNets

\* sendMessage: on every network the user is active on, then through a known
\* portal, over or not, to each network that is left.
SendMessage(m) ==
    /\ ~sentTo[m]
    /\ sentTo' = [sentTo EXCEPT ![m] = TRUE]
    /\ posted' = [posted EXCEPT ![m] = Count(m, UserNets)]
    /\ \/ BridgedTo # {} /\ \E p \in known : wrapped' = wrapped \cup {<<m, p.addr>>}
       \/ (BridgedTo = {} \/ known = {}) /\ wrapped' = wrapped
    /\ UNCHANGED <<time, op, own, rows, addrs, offers, known, missed>>

\* Mutant: the message is posted where it came from.
ForwardBack(m) == Count(m, {From})

\* The message goes to the network the portal leads to.
Forward(m) == Count(m, {To})

\* processPortalMessage: a message to the operator's portal is posted; a message
\* to an address it does not serve is dropped.
ProcessPortalMessage(m, a) ==
    /\ op = "up" /\ <<m, a>> \in wrapped /\ wrapped' = wrapped \ {<<m, a>>}
    /\ \/ /\ \E p \in own : p.addr = a
          /\ posted' = [posted EXCEPT ![m] = Forward(m)]
          /\ missed' = missed
       \/ /\ \A p \in own : p.addr # a
          /\ missed' = missed \cup {m}
          /\ posted' = posted
    /\ UNCHANGED <<time, op, own, rows, addrs, offers, known, sentTo>>

\* The operator's process stops (in time for the clock to outlive its portals).
Stop ==
    /\ op = "up" /\ op' = "down" /\ own' = {}
    /\ time + Valid < MaxTime
    /\ UNCHANGED <<time, rows, addrs, offers, known, wrapped, posted, sentTo, missed>>

\* startNetworks loads the portals that are not over: the dictionary they are
\* added to has no such method, and the start fails.
StartNetworks ==
    /\ op \in {"down", "failed"}
    /\ op' = IF \E p \in rows : p.start + Valid >= time THEN "failed" ELSE "up"
    /\ UNCHANGED <<time, own, rows, addrs, offers, known, wrapped, posted, sentTo, missed>>

Next ==
    \/ Tick \/ NewPortal \/ RefreshPortal \/ ForgetPortals \/ Stop \/ StartNetworks
    \/ \E p \in offers : ProcessPortalOffer(p) \/ OfferLost(p)
    \/ \E m \in Msgs : SendMessage(m)
    \/ \E m \in Msgs, a \in 1..MaxAddrs : ProcessPortalMessage(m, a)

Spec == Init /\ [][Next]_vars

-----------------------------------------------------------------------------
\* A message is on each network at most once, whatever networks the sender is
\* active on and although portals are announced again.
PostedOnce == \A m \in Msgs, n \in {From, To} : posted[m][n] <= 1

\* A message is posted on the other network, or the operator has lost the portal
\* in a restart.
Delivered(m) == posted[m][To] = 1 \/ m \in missed

\* An announcement is made only when the last one is over: an operator that runs
\* does not flood the network.
RefreshedSeldom ==
    \A p \in own, q \in own' : p.addr = q.addr /\ p # q => q.start - p.start >= Valid
=============================================================================
