------------------------------ MODULE Topology ------------------------------
(***************************************************************************)
(* The network graph: build_topology and refresh_diagnostics               *)
(* (server/src/api/network.rs).                                            *)
(*                                                                         *)
(* A node's view is what its diagnostics clusters were last read to hold:  *)
(* its own extended address and role, its neighbour table and route table  *)
(* (Thread), its access point and signal (Wi-Fi).  Views are read one      *)
(* device after the other, so that the two ends of a link may disagree.    *)
(* An octet string that is not one is "bad".                               *)
(***************************************************************************)
EXTENDS Integers, Sequences, SequencesExt

CONSTANTS
    TopoNodes,      \* the nodes of the store, in order
    ExtAddress,     \* the extended address of each
    AccessPoints,   \* BSSIDs
    Entries,        \* entries of the neighbour and route tables
    Signals,        \* signal strengths of Wi-Fi stations
    MaxTopoRefreshes \* bound: refreshes; one reaches every combination of views

\* An id that is made from an address or a BSSID has a prefix of its own, so
\* that it is no node's and no other's.
ASSUME TopologyAssumption ==
    /\ TopoNodes \in Seq(ToSet(TopoNodes))
    /\ \A i, j \in 1 .. Len(TopoNodes) : TopoNodes[i] = TopoNodes[j] => i = j
    /\ \A x, y \in ToSet(TopoNodes) : ExtAddress[x] = ExtAddress[y] => x = y
    /\ \A e \in Entries : e.lqi \in Int /\ e.ext \notin ToSet(TopoNodes) \cup AccessPoints
    /\ AccessPoints \cap ToSet(TopoNodes) = {}
    /\ Signals \subseteq Int /\ MaxTopoRefreshes \in Nat

VARIABLES
    reading,    \* what the store holds of each node's diagnostics
    refreshed,  \* refreshes so far
    refreshing, \* the nodes a refresh has still to read, in order
    answered    \* the graph that was asked for, while nothing was read since

topologyVars == <<reading, refreshed, refreshing, answered>>

Unread == "none"
Bad == "bad"
NoLqi == -1
NoSignal == 1
Blind == [role |-> FALSE, ext |-> Unread, neighbours |-> <<>>, routes |-> <<>>,
          bssid |-> Unread, rssi |-> NoSignal]

-----------------------------------------------------------------------------
(* How good a link is.                                                     *)

\* thread_strength.
ThreadStrength(lqi) ==
    CASE lqi = NoLqi -> "unknown" [] lqi = 0 -> "none" [] lqi = 1 -> "weak"
      [] lqi = 2 -> "medium" [] OTHER -> "strong"

\* wifi_strength.
WifiStrength(rssi) ==
    IF rssi = NoSignal THEN "unknown" ELSE IF rssi >= -55 THEN "strong"
    ELSE IF rssi >= -67 THEN "medium" ELSE IF rssi >= -80 THEN "weak" ELSE "none"

\* strength_rank.
StrengthRank(s) ==
    CASE s = "strong" -> 4 [] s = "medium" -> 3 [] s = "weak" -> 2 [] s = "none" -> 1
      [] OTHER -> 0

Strongest(a, b) == IF StrengthRank(a) >= StrengthRank(b) THEN a ELSE b

-----------------------------------------------------------------------------
(* The graph: its vertices and its links, in the order they are found.     *)

\* decode_ext_address, format_bssid.
Decoded(address) == address \notin {Unread, Bad}

MatterVertex(n) ==
    [id |-> n, kind |-> "matter", network |->
        IF reading[n].role \/ reading[n].ext # Unread THEN "thread"
        ELSE IF Decoded(reading[n].bssid) THEN "wifi" ELSE "unknown"]
Vertex(id, kind, network) == [id |-> id, kind |-> kind, network |-> network]
Invent(vertices, v) ==
    IF \E i \in 1 .. Len(vertices) : vertices[i].id = v.id THEN vertices ELSE Append(vertices, v)

NoInfo == "none"
Link(source, target, network, strength, out, route) ==
    [source |-> source, target |-> target, network |-> network, strength |-> strength,
     out |-> out, back |-> NoInfo, route |-> route]

\* A node of the store, and its access point with the link to it.
AddMatterNode(graph, n) ==
    LET vertices == Append(graph.vertices, MatterVertex(n))
        s == WifiStrength(reading[n].rssi)
    IN  IF Decoded(reading[n].bssid)
        THEN [vertices |-> Invent(vertices, Vertex(reading[n].bssid, "wifi_ap", "wifi")),
              links |-> Append(graph.links, Link(n, reading[n].bssid, "wifi", s, s, FALSE))]
        ELSE [graph EXCEPT !.vertices = vertices]

\* resolve_target: the first node of the store that says it has the address,
\* or a vertex made up for it.
Claimants(address) == {i \in 1 .. Len(TopoNodes) : reading[TopoNodes[i]].ext = address}
ResolveTarget(address) ==
    IF Claimants(address) # {} THEN TopoNodes[Min(Claimants(address))] ELSE address
WithTarget(vertices, address) ==
    IF Claimants(address) # {} THEN vertices
    ELSE Invent(vertices, Vertex(address, "thread_unknown", "thread"))

\* Mutant: a link seen from its other end is another link.
LinksSameWay(link, a, b) == link.source = a /\ link.target = b

\* links_same_pair.
LinksSamePair(link, a, b) == {link.source, link.target} = {a, b}

\* Mutant: what either end reports is kept as the first one's.
MergedForward(link, new) == [link EXCEPT !.out = new.out]

\* merge_connection, for a link that is there.
Merged(link, new) ==
    [link EXCEPT !.out = IF link.source = new.source THEN new.out ELSE @,
                 !.back = IF link.source = new.source THEN @ ELSE new.out,
                 !.strength = Strongest(@, new.strength)]
MergeConnection(links, new) ==
    LET same == {i \in 1 .. Len(links) : LinksSamePair(links[i], new.source, new.target)}
    IN  IF same = {} THEN Append(links, new)
        ELSE [links EXCEPT ![Min(same)] = Merged(@, new)]

\* An entry of the neighbour table of n.
AddNeighbour(graph, n, entry) ==
    IF ~ Decoded(entry.ext) THEN graph
    ELSE LET s == ThreadStrength(entry.lqi)
         IN  [vertices |-> WithTarget(graph.vertices, entry.ext),
              links |-> MergeConnection(graph.links,
                            Link(n, ResolveTarget(entry.ext), "thread", s, s, FALSE))]

\* Mutant: a route is drawn only to a node that is known.
DrawsRouteToKnown(links, n, entry) ==
    /\ Claimants(entry.ext) # {}
    /\ \A i \in 1 .. Len(links) : ~ LinksSamePair(links[i], n, ResolveTarget(entry.ext))

\* An entry of its route table, which says nothing about a link that is known.
DrawsRoute(links, n, entry) ==
    \A i \in 1 .. Len(links) : ~ LinksSamePair(links[i], n, ResolveTarget(entry.ext))
AddRoute(graph, n, entry) ==
    IF ~ Decoded(entry.ext) THEN graph
    ELSE [vertices |-> WithTarget(graph.vertices, entry.ext),
          links |-> IF DrawsRoute(graph.links, n, entry)
                    THEN Append(graph.links, Link(n, ResolveTarget(entry.ext), "thread",
                                                  ThreadStrength(entry.lqi), NoInfo, TRUE))
                    ELSE graph.links]

\* The tables of a node, the neighbours first.
AddNeighbours(graph, n) ==
    LET after[i \in 0 .. Len(reading[n].neighbours)] ==
            IF i = 0 THEN graph ELSE AddNeighbour(after[i - 1], n, reading[n].neighbours[i])
    IN  after[Len(reading[n].neighbours)]
AddRoutes(graph, n) ==
    LET after[i \in 0 .. Len(reading[n].routes)] ==
            IF i = 0 THEN graph ELSE AddRoute(after[i - 1], n, reading[n].routes[i])
    IN  after[Len(reading[n].routes)]

\* build_topology: the nodes of the store, and then the tables of each.
NoGraph == [vertices |-> <<>>, links |-> <<>>]
MatterNodes ==
    LET after[i \in 0 .. Len(TopoNodes)] ==
            IF i = 0 THEN NoGraph ELSE AddMatterNode(after[i - 1], TopoNodes[i])
    IN  after[Len(TopoNodes)]
Graph ==
    LET after[i \in 0 .. Len(TopoNodes)] ==
            IF i = 0 THEN MatterNodes
            ELSE AddRoutes(AddNeighbours(after[i - 1], TopoNodes[i]), TopoNodes[i])
    IN  after[Len(TopoNodes)]

-----------------------------------------------------------------------------
(* refresh_diagnostics, and what the devices answer.                       *)

TopologyInit ==
    /\ reading = [n \in ToSet(TopoNodes) |-> Blind]
    /\ refreshed = 0 /\ refreshing = <<>> /\ answered = <<>>

\* The graph is asked for, by another client or by the watcher perhaps while a
\* refresh is under way.
GetNetworkTopology ==
    /\ answered = <<>> /\ answered' = <<Graph>>
    /\ UNCHANGED <<reading, refreshed, refreshing>>

Refresh ==
    /\ refreshing = <<>> /\ refreshing' = TopoNodes
    /\ refreshed < MaxTopoRefreshes /\ refreshed' = refreshed + 1
    /\ answered' = <<>> /\ UNCHANGED reading

\* A node is read: its Thread tables name any nodes but itself, each once.
EntriesOf(n) == {e \in Entries : e.ext # ExtAddress[n]}
Neighbours(n) ==
    {<<>>} \cup {<<e>> : e \in EntriesOf(n)}
    \cup {pair \in {<<e, f>> : e, f \in {g \in EntriesOf(n) : Decoded(g.ext)}} :
              pair[1].ext # pair[2].ext}
RefreshThread(n, neighbours, routes, ext) ==
    /\ refreshing # <<>> /\ n = Head(refreshing) /\ refreshing' = Tail(refreshing)
    /\ answered' = <<>> /\ UNCHANGED refreshed
    /\ reading[n].bssid = Unread
    /\ reading' = [reading EXCEPT ![n] = [@ EXCEPT !.role = TRUE, !.ext = ext,
                                          !.neighbours = neighbours, !.routes = routes]]

\* So is a node on Wi-Fi.
RefreshWifi(n, bssid, rssi) ==
    /\ refreshing # <<>> /\ n = Head(refreshing) /\ refreshing' = Tail(refreshing)
    /\ answered' = <<>> /\ UNCHANGED refreshed
    /\ ~ reading[n].role
    /\ reading' = [reading EXCEPT ![n] = [@ EXCEPT !.bssid = bssid, !.rssi = rssi]]

\* It does not answer, or is not available: what is known of it stays.
RefreshSkips ==
    /\ refreshing # <<>> /\ refreshing' = Tail(refreshing)
    /\ answered' = <<>> /\ UNCHANGED refreshed
    /\ UNCHANGED reading

TopologyNext ==
    \/ GetNetworkTopology \/ Refresh
    \/ \E n \in ToSet(TopoNodes) :
          \/ \E table \in Neighbours(n), routes \in {<<>>} \cup {<<e>> : e \in EntriesOf(n)},
                ext \in {ExtAddress[n], Bad} :
                RefreshThread(n, table, routes, ext)
          \/ \E bssid \in AccessPoints \cup {Bad}, rssi \in Signals \cup {NoSignal} :
                RefreshWifi(n, bssid, rssi)
    \/ RefreshSkips

TopologySpec == TopologyInit /\ [][TopologyNext]_topologyVars

-----------------------------------------------------------------------------
(* Properties, of the graph of every combination of views.                 *)

Ids(graph) == {graph.vertices[i].id : i \in 1 .. Len(graph.vertices)}
Ends(link) == {link.source, link.target}

\* Each link is drawn once, whichever end reports it and in whichever table,
\* and both of its ends are in the graph, each once (api/network.rs:628).
GraphIsWellFormed(graph) ==
    /\ \A i, j \in 1 .. Len(graph.links) : Ends(graph.links[i]) = Ends(graph.links[j]) => i = j
    /\ \A i \in 1 .. Len(graph.links) : Ends(graph.links[i]) \subseteq Ids(graph)
    /\ \A i, j \in 1 .. Len(graph.vertices) :
          graph.vertices[i].id = graph.vertices[j].id => i = j

\* The link that n has to the node with an address, in either table, and to its
\* access point.
Reports(n, table) ==
    {{n, ResolveTarget(table[i].ext)} : i \in {j \in 1 .. Len(table) : Decoded(table[j].ext)}}
Hung(n) == IF Decoded(reading[n].bssid) THEN {{n, reading[n].bssid}} ELSE {}

\* Nothing that a node reports is left out and nothing is made up, also when
\* the other end reports nothing, does not say who it is or is a stranger.
EveryLinkIsDrawn(graph) ==
    {Ends(graph.links[i]) : i \in 1 .. Len(graph.links)} =
        UNION {Reports(n, reading[n].neighbours) \cup Reports(n, reading[n].routes) \cup Hung(n)
               : n \in ToSet(TopoNodes)}

\* What n reported last about its link to a node.
Reported(n, target) ==
    IF n \notin ToSet(TopoNodes) THEN NoInfo
    ELSE LET table == reading[n].neighbours
             seen == {i \in 1 .. Len(table) :
                         Decoded(table[i].ext) /\ ResolveTarget(table[i].ext) = target}
         IN  IF seen = {} THEN NoInfo ELSE ThreadStrength(table[Max(seen)].lqi)

\* Each direction of a link carries what the node at that end reported, though
\* the link may have been drawn for the other end, or for a route, first; and
\* the link is no weaker than either.
DirectionsAreTrue(graph) ==
    \A i \in 1 .. Len(graph.links) :
        LET l == graph.links[i]
        IN  l.network = "thread" =>
                /\ l.out = Reported(l.source, l.target) /\ l.back = Reported(l.target, l.source)
                /\ \A info \in {l.out, l.back} \ {NoInfo} :
                      StrengthRank(l.strength) >= StrengthRank(info)

\* The graph is what the nodes report, each link once and each direction as its
\* own end has it (api/network.rs:373).
GraphIsTrue ==
    \A graph \in ToSet(answered) :
        GraphIsWellFormed(graph) /\ EveryLinkIsDrawn(graph) /\ DirectionsAreTrue(graph)
=============================================================================
