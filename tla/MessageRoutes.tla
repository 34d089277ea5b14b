---------------------------- MODULE MessageRoutes ----------------------------
(***************************************************************************)
(* Direct message routes over Simplex.  A bidder asks the maker of an      *)
(* offer for a direct contact (CONNECT_REQ), keeps its bids at             *)
(* CONNECT_REQ_SENT while the contact is made, and sends them when Simplex *)
(* says it is connected.  Each side has a row per route (active_ind 2:     *)
(* being established, 1: established) and a row per bid or offer that uses *)
(* it.  Routes close when they are old and no bid needs them, or when the  *)
(* other side closes them.  A connection is named by its number.           *)
(***************************************************************************)
EXTENDS Integers, FiniteSets

CONSTANTS
    Addrs,       \* the bidder's addresses
    Bids,        \* the bids, all on one offer
    AddrOf,      \* AddrOf[b]: the address the bid b is sent from
    PostLate,    \* TRUE: bids may be made over an established route
    MaxConns,    \* bound: contacts asked for
    MaxFaults    \* bound: calls that fail half way

\* What is assumed of the constants.
ConstantsOK ==
    /\ AddrOf \in [Bids -> Addrs]
    /\ PostLate \in BOOLEAN /\ MaxConns \in Nat /\ MaxFaults \in Nat

VARIABLES
    conns,    \* contacts asked for so far
    route,    \* the bidder's rows of direct_message_routes
    link,     \* the bidder's rows of direct_message_route_links
    mroute,   \* the maker's routes, each with a row for the offer
    bid,      \* bid[b] at the bidder: "none", "connect", "sent", "swap", "ended"
    got,      \* got[b]: copies of the bid's message the maker has
    reqs,     \* CONNECT_REQ messages under way
    events,   \* Simplex events not handled yet: <<side, kind, connection>>
    contact,  \* the connections both sides joined and none deleted
    raised,   \* expireMessageRoutes ended with an error
    faults    \* calls that failed half way

vars == <<conns, route, link, mroute, bid, got, reqs, events, contact, raised, faults>>

Conns == 1..MaxConns
Routes == [conn : Conns, addr : Addrs, active : {1, 2}, old : BOOLEAN]
Links == [conn : Conns, bid : Bids, active : {1, 2}, old : BOOLEAN]

TypeOK ==
    /\ conns \in 0..MaxConns /\ faults \in 0..MaxFaults /\ raised \in BOOLEAN
    /\ route \subseteq Routes /\ mroute \subseteq Routes /\ link \subseteq Links
    /\ bid \in [Bids -> {"none", "connect", "sent", "swap", "ended"}]
    /\ got \in [Bids -> 0..2]
    /\ reqs \subseteq Conns \X Addrs /\ contact \subseteq Conns
    /\ events \subseteq {"bidder", "maker"} \X {"connected", "deleted"} \X Conns

Init ==
    /\ conns = 0 /\ faults = 0 /\ raised = FALSE
    /\ route = {} /\ link = {} /\ mroute = {}
    /\ bid = [b \in Bids |-> "none"]
    /\ got = [b \in Bids |-> 0]
    /\ reqs = {} /\ events = {} /\ contact = {}

\* Mutant: a new contact is asked for every bid.
RouteToNever(a) == {}

\* getMessageRoute is called with 1 for an established route and 2 for one being
\* established, but its parameter is the network: 1 is SMSG, which has no routes,
\* and 2 is Simplex.  What it returns is any route between the addresses.
RouteTo(a) == {r \in route : r.addr = a}

\* prepareMessageRoute: the route found, or a new one that is asked for.  No
\* route is ever found established.
PrepareRoute(b, c) ==
    LET a == AddrOf[b]
    IN  \/ /\ RouteTo(a) # {}
           /\ c \in {r.conn : r \in RouteTo(a)}
           /\ UNCHANGED <<conns, route, reqs>>
        \/ /\ RouteTo(a) = {} /\ conns < MaxConns
           /\ c = conns + 1 /\ conns' = c
           /\ route' = route \cup {[conn |-> c, addr |-> a, active |-> 2, old |-> FALSE]}
           /\ reqs' = reqs \cup {<<c, a>>}

NewLink(b, c) == [conn |-> c, bid |-> b, active |-> 1, old |-> FALSE]

MayPost(b) ==
    /\ bid[b] = "none" /\ \A l \in link : l.bid # b
    /\ PostLate \/ \A r \in RouteTo(AddrOf[b]) : r.active = 2

\* postBid, postXmrBid: the bid waits for the route.
PostBid(b) ==
    /\ MayPost(b)
    /\ \E c \in Conns :
        /\ PrepareRoute(b, c)
        /\ link' = link \cup {NewLink(b, c)}
    /\ bid' = [bid EXCEPT ![b] = "connect"]
    /\ UNCHANGED <<mroute, got, events, contact, raised, faults>>

\* A later call fails (the chain height, the wallet): the session is committed
\* all the same, with the route, and with the bid's link or without it.
PostBidFails(b) ==
    /\ MayPost(b) /\ faults < MaxFaults /\ faults' = faults + 1
    /\ \E c \in Conns :
        /\ PrepareRoute(b, c)
        /\ link' \in {link, link \cup {NewLink(b, c)}}
    /\ UNCHANGED <<mroute, bid, got, events, contact, raised>>

\* processConnectRequest at the maker: the contact is joined.  The check for an
\* existing route looks for one with the addresses the other way round.
ProcessConnectRequest(c, a) ==
    /\ <<c, a>> \in reqs /\ reqs' = reqs \ {<<c, a>>}
    /\ mroute' = mroute \cup {[conn |-> c, addr |-> a, active |-> 2, old |-> FALSE]}
    /\ contact' = contact \cup {c}
    /\ events' = events \cup {<<"bidder", "connected", c>>, <<"maker", "connected", c>>}
    /\ UNCHANGED <<conns, route, link, bid, got, raised, faults>>

\* The request is lost, or refused: offer expired, too many in an hour.
RequestLost(c, a) ==
    /\ <<c, a>> \in reqs /\ reqs' = reqs \ {<<c, a>>}
    /\ UNCHANGED <<conns, route, link, mroute, bid, got, events, contact, raised, faults>>

\* sendMessage over a direct route: the maker gets the bids.
SentOver(B) == [b \in Bids |-> got[b] + (IF b \in B THEN 1 ELSE 0)]

\* The links of a route whose bids were sent.
LinksSent(L, c, B) ==
    {IF l.conn = c /\ l.bid \in B THEN [l EXCEPT !.active = 2] ELSE l : l \in L}

\* Mutant: one bid is sent.
WaitingForOne(c) ==
    LET S == {l.bid : l \in {l \in link : l.conn = c /\ l.active = 1}}
    IN  IF S = {} THEN {} ELSE {CHOOSE b \in S : TRUE}

\* The bids that wait for the route c.
WaitingFor(c) == {l.bid : l \in {l \in link : l.conn = c /\ l.active = 1}}

\* The row of the connection is set to 1.
Established(R, c) == {IF r.conn = c THEN [r EXCEPT !.active = 1] ELSE r : r \in R}

\* processContactConnected at the bidder: the route is established, and every
\* bid that waits for it is sent; the event is handled once.
BidderConnected(c) ==
    /\ <<"bidder", "connected", c>> \in events
    /\ events' = events \ {<<"bidder", "connected", c>>}
    /\ \/ /\ \E r \in route : r.conn = c /\ r.active = 2
          /\ \A b \in WaitingFor(c) : bid[b] = "connect"
          /\ route' = Established(route, c)
          /\ bid' = [b \in Bids |-> IF b \in WaitingFor(c) THEN "sent" ELSE bid[b]]
          /\ got' = SentOver(WaitingFor(c))
          /\ link' = LinksSent(link, c, WaitingFor(c))
       \/ /\ ~\E r \in route : r.conn = c /\ r.active = 2
          /\ UNCHANGED <<route, bid, got, link>>
    /\ UNCHANGED <<conns, mroute, reqs, contact, raised, faults>>

\* Mutant: what was done before the error is rolled back.
BidderConnectedFailsUndone(c) ==
    /\ <<"bidder", "connected", c>> \in events
    /\ events' = events \ {<<"bidder", "connected", c>>}
    /\ \E r \in route : r.conn = c /\ r.active = 2
    /\ \E S \in SUBSET {b \in WaitingFor(c) : bid[b] = "connect"} :
        /\ S # WaitingFor(c)
        /\ \/ (\E b \in WaitingFor(c) : bid[b] = "none") /\ faults' = faults
           \/ (faults < MaxFaults) /\ faults' = faults + 1
        /\ got' = SentOver(S)
        /\ UNCHANGED <<route, bid, link>>
    /\ UNCHANGED <<conns, mroute, reqs, contact, raised>>

\* A bid cannot be sent, or its link has no bid: the error ends the loop after
\* some bids were sent, and the session is committed as it is.
BidderConnectedFails(c) ==
    /\ <<"bidder", "connected", c>> \in events
    /\ events' = events \ {<<"bidder", "connected", c>>}
    /\ \E r \in route : r.conn = c /\ r.active = 2
    /\ \E S \in SUBSET {b \in WaitingFor(c) : bid[b] = "connect"} :
        /\ S # WaitingFor(c)
        /\ \/ (\E b \in WaitingFor(c) : bid[b] = "none") /\ faults' = faults
           \/ (faults < MaxFaults) /\ faults' = faults + 1
        /\ got' = SentOver(S)
        /\ bid' = [b \in Bids |-> IF b \in S THEN "sent" ELSE bid[b]]
        /\ link' = LinksSent(link, c, S)
    /\ route' = Established(route, c)
    /\ UNCHANGED <<conns, mroute, reqs, contact, raised>>

\* processContactConnected at the maker, whose links are for the offer.
MakerConnected(c) ==
    /\ <<"maker", "connected", c>> \in events
    /\ events' = events \ {<<"maker", "connected", c>>}
    /\ mroute' = Established(mroute, c)
    /\ UNCHANGED <<conns, route, link, bid, got, reqs, contact, raised, faults>>

\* processContactDisconnected: the other side deleted the contact.
Disconnected(c) ==
    \/ /\ <<"bidder", "deleted", c>> \in events
       /\ events' = events \ {<<"bidder", "deleted", c>>}
       /\ route' = {r \in route : r.conn # c}
       /\ UNCHANGED <<conns, link, mroute, bid, got, reqs, contact, raised, faults>>
    \/ /\ <<"maker", "deleted", c>> \in events
       /\ events' = events \ {<<"maker", "deleted", c>>}
       /\ mroute' = {r \in mroute : r.conn # c}
       /\ UNCHANGED <<conns, route, link, bid, got, reqs, contact, raised, faults>>

\* The bid is accepted, or its swap ends.
BidMoves(b) ==
    /\ \/ bid[b] = "sent" /\ bid' = [bid EXCEPT ![b] = "swap"]
       \/ bid[b] = "swap" /\ bid' = [bid EXCEPT ![b] = "ended"]
    /\ UNCHANGED <<conns, route, link, mroute, got, reqs, events, contact, raised, faults>>

\* expire_message_routes_after passes, and so do the bids' validity periods.
GrowOld ==
    /\ \E r \in route : ~r.old
    /\ route' = {[r EXCEPT !.old = TRUE] : r \in route}
    /\ link' = {[l EXCEPT !.old = TRUE] : l \in link}
    /\ UNCHANGED <<conns, mroute, bid, got, reqs, events, contact, raised, faults>>

LinksOf(c) == {l \in link : l.conn = c}

\* Mutant: bids are not looked at.
NoActiveBidsAny(c) == \A l \in LinksOf(c) : l.old

\* No link of an established route is young, and no bid of it is in a swap or
\* waits and may still be answered.
NoActiveBids(c) == \A l \in LinksOf(c) : l.old /\ bid[l.bid] # "swap"

\* The routes expireMessageRoutes closes, at the bidder.
Closable(r) == r.old /\ (r.active = 2 \/ NoActiveBids(r.conn))

\* An established route without links has no greatest creation time: the
\* comparison with None raises, and update() ends there.
LinklessRoute == \E r \in route : r.old /\ r.active = 1 /\ LinksOf(r.conn) = {}

\* Mutant: the chat is deleted, the route kept.
CloseRouteKeeps(r) ==
    /\ Closable(r) /\ ~LinklessRoute
    /\ contact' = contact \ {r.conn}
    /\ events' = events \cup {<<"maker", "deleted", k>> : k \in contact \cap {r.conn}}
    /\ UNCHANGED <<conns, route, link, mroute, bid, got, reqs, raised, faults>>

\* expireMessageRoutes closes a route: the chat is deleted, then the row.
CloseRoute(r) ==
    /\ Closable(r) /\ ~LinklessRoute
    /\ route' = route \ {r}
    /\ contact' = contact \ {r.conn}
    /\ events' = events \cup {<<"maker", "deleted", k>> : k \in contact \cap {r.conn}}
    /\ UNCHANGED <<conns, link, mroute, bid, got, reqs, raised, faults>>

ExpiryRaises ==
    /\ LinklessRoute /\ ~raised
    /\ raised' = TRUE
    /\ UNCHANGED <<conns, route, link, mroute, bid, got, reqs, events, contact, faults>>

\* The maker closes its route, by the same rule at its side: none of its bids
\* is in a swap.
MakerCloses(r) ==
    /\ r \in mroute
    /\ \A b \in Bids : AddrOf[b] = r.addr => bid[b] \notin {"connect", "sent", "swap"}
    /\ mroute' = mroute \ {r}
    /\ contact' = contact \ {r.conn}
    /\ events' = events \cup {<<"bidder", "deleted", k>> : k \in contact \cap {r.conn}}
    /\ UNCHANGED <<conns, route, link, bid, got, reqs, raised, faults>>

Next ==
    \/ \E b \in Bids : PostBid(b) \/ PostBidFails(b) \/ BidMoves(b)
    \/ \E c \in Conns, a \in Addrs : ProcessConnectRequest(c, a) \/ RequestLost(c, a)
    \/ \E c \in Conns : BidderConnected(c) \/ BidderConnectedFails(c)
                       \/ MakerConnected(c) \/ Disconnected(c)
    \/ GrowOld \/ ExpiryRaises
    \/ \E r \in route : CloseRoute(r)
    \/ \E r \in mroute : MakerCloses(r)

Spec == Init /\ [][Next]_vars

-----------------------------------------------------------------------------
\* The bidder knows which bids the maker has, although an error may end the
\* loop that sends them anywhere: no bid is sent again and none forgotten.
SentIsKnown == \A b \in Bids : got[b] = IF bid[b] \in {"sent", "swap", "ended"} THEN 1 ELSE 0

\* The bidder has one route per pair of addresses, so that a message goes over
\* the contact it waited for.
OneRoute == \A r, q \in route : r.addr = q.addr => r = q

\* A route a swap uses is not closed by expiry: "Message routes with active bids
\* shouldn't expire".
SwapKeepsRoute ==
    \A r \in route : r \notin route' /\ <<"bidder", "deleted", r.conn>> \notin events
                     /\ r.active = 1 /\ route' \subseteq route
        => \A l \in LinksOf(r.conn) : bid[l.bid] # "swap"

\* A closed contact is closed for good: nothing is sent over it and no route of
\* the bidder to it lasts once the event that tells so is handled.
ClosedForgotten ==
    \A r \in route : r.active = 1 =>
        r.conn \in contact \/ <<"bidder", "deleted", r.conn>> \in events

\* Bid b waits for a route, and its contact is joined.
BidWaits(b, c) == bid[b] = "connect" /\ c \in contact /\ \E l \in LinksOf(c) : l.bid = b

\* It was sent, or the route went away first.
BidSent(b, c) == bid[b] = "sent" \/ \A r \in route : r.conn # c
=============================================================================
