----------------------------- MODULE MCServices -----------------------------
(***************************************************************************)
(* The services beside the node store, the monitor and the bus, for TLC.   *)
(* They share no state, so that a behaviour moves one of them.             *)
(***************************************************************************)
EXTENDS FabricLabel, Credentials, CheckIn, Firmware, ThreadDiagnostics, Actor, Import,
        Topology, Browser, BorderRouterItem, Pairing, RequestHead, FirstStart

VARIABLE part
Parts == {"label", "credentials", "icd", "firmware", "diagnostics", "actor", "import",
          "topology", "browser", "names", "item", "pairing", "head", "start"}

stateVars == <<labelVars, credVars, icdVars, firmwareVars, diagVars, actorVars, importVars>>
wireVars == <<topologyVars, browserVars, nameVars, itemVars, pairingVars, headVars, firstStartVars>>
servicesVars == <<stateVars, wireVars, part>>

\* A service that is not the one that moves stays in one initial state.
AtRest ==
    /\ part = "import" \/ install = PlainInstall
    /\ part = "names" \/ cells = [i \in 1 .. NameLength |-> CHOOSE c \in NameCells : TRUE]
    /\ part = "item" \/ (meshNode = (CHOOSE d \in MeshDevices : TRUE) /\ build = "current")
    /\ part = "head" \/ request = CHOOSE r \in HttpRequests : TRUE

Init ==
    /\ part \in Parts /\ AtRest
    /\ LabelInit /\ CredInit /\ IcdInit /\ FirmwareInit /\ DiagInit /\ ActorInit /\ ImportInit
    /\ TopologyInit /\ BrowserInit /\ NameInit /\ ItemInit /\ PairingInit /\ HeadInit
    /\ FirstStartInit

Labels == part = "label" /\ LabelNext
    /\ UNCHANGED <<credVars, icdVars, firmwareVars, diagVars, actorVars, importVars>>
    /\ UNCHANGED <<wireVars, part>>
Creds == part = "credentials" /\ CredNext
    /\ UNCHANGED <<labelVars, icdVars, firmwareVars, diagVars, actorVars, importVars>>
    /\ UNCHANGED <<wireVars, part>>
Icds == part = "icd" /\ IcdNext
    /\ UNCHANGED <<labelVars, credVars, firmwareVars, diagVars, actorVars, importVars>>
    /\ UNCHANGED <<wireVars, part>>
Firmwares == part = "firmware" /\ FirmwareNext
    /\ UNCHANGED <<labelVars, credVars, icdVars, diagVars, actorVars, importVars>>
    /\ UNCHANGED <<wireVars, part>>
Diags == part = "diagnostics" /\ DiagNext
    /\ UNCHANGED <<labelVars, credVars, icdVars, firmwareVars, actorVars, importVars>>
    /\ UNCHANGED <<wireVars, part>>
Actors == part = "actor" /\ ActorNext
    /\ UNCHANGED <<labelVars, credVars, icdVars, firmwareVars, diagVars, importVars>>
    /\ UNCHANGED <<wireVars, part>>
Imports == part = "import" /\ ImportNext
    /\ UNCHANGED <<labelVars, credVars, icdVars, firmwareVars, diagVars, actorVars>>
    /\ UNCHANGED <<wireVars, part>>
Topologies == part = "topology" /\ TopologyNext
    /\ UNCHANGED <<browserVars, nameVars, itemVars, pairingVars, headVars, firstStartVars>>
    /\ UNCHANGED <<stateVars, part>>
Browsers == part = "browser" /\ BrowserNext
    /\ UNCHANGED <<topologyVars, nameVars, itemVars, pairingVars, headVars, firstStartVars>>
    /\ UNCHANGED <<stateVars, part>>
Names == part = "names" /\ NameNext
    /\ UNCHANGED <<topologyVars, browserVars, itemVars, pairingVars, headVars, firstStartVars>>
    /\ UNCHANGED <<stateVars, part>>
Items == part = "item" /\ ItemNext
    /\ UNCHANGED <<topologyVars, browserVars, nameVars, pairingVars, headVars, firstStartVars>>
    /\ UNCHANGED <<stateVars, part>>
Pairings == part = "pairing" /\ PairingNext
    /\ UNCHANGED <<topologyVars, browserVars, nameVars, itemVars, headVars, firstStartVars>>
    /\ UNCHANGED <<stateVars, part>>
Heads == part = "head" /\ HeadNext
    /\ UNCHANGED <<topologyVars, browserVars, nameVars, itemVars, pairingVars, firstStartVars>>
    /\ UNCHANGED <<stateVars, part>>
Starts == part = "start" /\ FirstStartNext
    /\ UNCHANGED <<topologyVars, browserVars, nameVars, itemVars, pairingVars, headVars>>
    /\ UNCHANGED <<stateVars, part>>

Next ==
    \/ Labels \/ Creds \/ Icds \/ Firmwares \/ Diags \/ Actors \/ Imports
    \/ Topologies \/ Browsers \/ Names \/ Items \/ Pairings \/ Heads \/ Starts

Spec == Init /\ [][Next]_servicesVars

-----------------------------------------------------------------------------
(* Values of the constants.                                                *)

AdminVendors == [i1 |-> {"ours"}, i2 |-> {"ours", "other"}]
LabelTexts == {<<>>, <<"b">>, <<"a", " ", "b">>}
DefaultText == <<"a">>
At(local, node, collection, legacy) ==
    [local |-> local, node |-> node, collection |-> collection, legacy |-> legacy]
Plain == At(FALSE, TRUE, "status", "status")
RouterAnswers ==
    {<<At(TRUE, TRUE, "ok", "ok"), At(FALSE, TRUE, "silent", "ok")>>, <<Plain>>,
     <<At(FALSE, FALSE, "ok", "ok"), At(FALSE, TRUE, "ok", "status")>>,
     <<Plain, At(FALSE, TRUE, "status", "silent"), At(FALSE, TRUE, "status", "ok")>>}
Contexts == {<<"nodes">>, <<"nodes", "peer1">>}
PeerNames == <<"peer1", "peer2">>

MeshOrder == <<"x1", "x2">>
MeshAddresses == [x1 |-> "e1", x2 |-> "e2"]
TableEntry(ext, lqi) == [ext |-> ext, lqi |-> lqi]
TableEntries ==
    {TableEntry("e1", 1), TableEntry("e1", -1), TableEntry("e2", 1), TableEntry("e2", 2),
     TableEntry("e9", 3), TableEntry("bad", 3)}

Record_(type, foreign, name, host, address, txt) ==
    [type |-> type, foreign |-> foreign, name |-> name, host |-> host, address |-> address,
     txt |-> txt]
Router1 == [label |-> "r1", upper |-> TRUE]
Router1Lower == [label |-> "r1", upper |-> FALSE]
Router2 == [label |-> "r2", upper |-> TRUE]
Ptr(n) == Record_("PTR", FALSE, n, "none", 0, {})
Srv(n, host) == Record_("SRV", FALSE, n, host, 0, {})
Txt(n) == Record_("TXT", FALSE, n, "none", 0, {"xa"})
Adr(host, address) == Record_("ADDRESS", FALSE, Router1, host, address, {})
Responses ==
    {<<>>, <<Ptr(Router1)>>, <<Txt(Router1)>>, <<Srv(Router1, "h1"), Adr("h1", 3)>>,
     <<Ptr(Router1), Srv(Router1, "h1"), Adr("h1", 2), Adr("h1", 1)>>,
     <<Adr("h1", 2), Ptr(Router1Lower), Srv(Router1Lower, "h1"), Txt(Router1Lower)>>,
     <<Srv(Router2, "h2"), Adr("h2", 4), Txt(Router2)>>, <<Adr("h2", 5)>>, <<Srv(Router2, "none")>>,
     <<Srv(Router1, "h1"), Srv(Router2, "h1"), Adr("h1", 1)>>,
     <<Record_("SRV", TRUE, Router2, "h1", 0, {}), Srv(Router1, "h1"), Adr("h1", 3)>>}
On(index, up, loopback, family) ==
    [index |-> index, up |-> up, loopback |-> loopback, family |-> family]
InterfaceLists ==
    {<<>>, <<On(1, TRUE, TRUE, "v4"), On(2, TRUE, FALSE, "v4"), On(3, TRUE, FALSE, "v4"),
             On(3, TRUE, FALSE, "link"), On(1, TRUE, TRUE, "v6"), On(4, TRUE, FALSE, "v6"),
             On(3, TRUE, FALSE, "v6"),
             On(3, TRUE, FALSE, "v6"), On(5, FALSE, FALSE, "v6")>>}
MessageCells ==
    {[kind |-> "label", to |-> 0], [kind |-> "end", to |-> 0]}
    \cup {[kind |-> "pointer", to |-> t] : t \in 1 .. 4}

MeshNode(mode, children) ==
    [ext |-> "e1", rloc |-> 1, version |-> 4, mode |-> mode, counters |-> <<7, 8>>,
     children |-> children]
ChildOf(quality, mode) == <<240, quality, 5, mode>>
MeshNodes_ ==
    {MeshNode(mode, children) :
        mode \in {<<1, 1, 1>>, <<1, 0, 1>>},
        children \in {<<>>, <<ChildOf(3, <<0, 1, 0>>)>>,
                      <<ChildOf(2, <<0, 0, 0>>), ChildOf(1, <<1, 0, 0>>)>>}}

BlankLine == <<"r", "n", "r", "n">>
HttpRequest(kind, head, body, length) ==
    [kind |-> kind, bytes |-> head \o BlankLine \o body, length |-> length]
ClientRequests ==
    {HttpRequest("upgrade", <<"a", "r", "n", "b">>, <<>>, 0),
     HttpRequest("upgrade", <<"a">>, <<"w", "s">>, 0),
     HttpRequest("upload", <<"a">>, <<"x", "y", "r", "n", "r", "n">>, 6),
     HttpRequest("upload", <<"a">>, <<"x">>, 3),
     HttpRequest("upload", <<"a", "r", "n">>, <<"x", "y", "z", "x", "y", "z">>, 6),
     HttpRequest("upgrade", <<"a", "r", "n", "r">>, <<"w", "s", "w", "s", "w", "s">>, 0),
     HttpRequest("upload", <<>>, <<"x", "y">>, 1),
     HttpRequest("malformed", <<"?">>, <<>>, 0),
     HttpRequest("upgrade", <<"a", "b", "c", "d", "e", "f", "g", "h", "i", "j", "k">>, <<>>, 0),
     [kind |-> "upgrade", bytes |-> <<"a", "r", "n">>, length |-> 0]}
=============================================================================
