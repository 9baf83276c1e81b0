-------------------------- MODULE BorderRouterItem --------------------------
(***************************************************************************)
(* What a border router's JSON says of one node, as the protocol's node    *)
(* (translate_item, server/src/matter/otbr_rest.rs).                       *)
(*                                                                         *)
(* A JSON value is its kind and what it holds; an object is a function of  *)
(* its keys.  An optional result is a set of at most one element.  Of the  *)
(* groups of fields one of each shape is kept: plain fields, a field with  *)
(* two keys, a group that needs all of its fields, a list that needs all   *)
(* of its entries.                                                         *)
(***************************************************************************)
EXTENDS Integers, Sequences, FiniteSets

CONSTANTS
    MeshDevices,     \* what nodes of the mesh may be like
    MaxSpoilt    \* bound: fields that do not hold what they should

ASSUME ItemAssumption == MaxSpoilt \in Nat

VARIABLES
    meshNode,   \* the node
    build,      \* which build the border router runs
    spoilt,     \* the fields that are malformed
    reported    \* what translate_item returned, once it was called

itemVars == <<meshNode, build, spoilt, reported>>

Json(kind, value) == [kind |-> kind, v |-> value]

-----------------------------------------------------------------------------
(* Reading fields.                                                         *)

Field(object, key, kinds) ==
    IF key \in DOMAIN object /\ object[key].kind \in kinds THEN {object[key].v} ELSE {}
OrElse(a, b) == IF a # {} THEN a ELSE b

\* number, and hex_bytes of a string of eight bytes.
Number(object, key) == Field(object, key, {"number"})
HexBytes(object, key) == Field(object, key, {"hex"})

\* Mutant: a flag is read under its first key only.
FlagOfFirst(object, first, second) == Field(object, first, {"number", "bool"})

\* flag: the first of two keys that holds a bool or a number.
Flag(object, first, second) ==
    OrElse(Field(object, first, {"number", "bool"}), Field(object, second, {"number", "bool"}))

\* rloc16: a number, or one spelt as text.
Rloc16(object) == Field(object, "rloc16", {"number", "numeral"})

\* A group that is read only if each of its parts is, `?` after each.
AllOf(parts) ==
    IF \E i \in 1 .. Len(parts) : parts[i] = {} THEN {}
    ELSE {[i \in 1 .. Len(parts) |-> CHOOSE x \in parts[i] : TRUE]}

Mode(object) ==
    AllOf(<<Flag(object, "rxOnWhenIdle", "rxOnWhenIdle"),
            Flag(object, "fullThreadDevice", "deviceType"),
            Flag(object, "fullNetworkData", "networkData")>>)
ModeOf(object) == UNION {Mode(o) : o \in Field(object, "mode", {"object"})}

\* mac_counters; connectivity, leader_data and mle_counters are read likewise.
Counters(object) ==
    UNION {AllOf(<<Number(o, "ifInErrors"), Number(o, "ifOutErrors")>>)
           : o \in Field(object, "macCounters", {"object"})}

\* child; the legacy build has no link quality.
Child(object) ==
    AllOf(<<Number(object, "timeout"), OrElse(Number(object, "linkQuality"), {0}),
            Number(object, "childId"), ModeOf(object)>>)

\* An array of which every entry must be readable: childTable, and routeData
\* and ipv6Addresses likewise.
ChildTable(object) ==
    UNION {AllOf([i \in 1 .. Len(list) |->
                    IF list[i].kind = "object" THEN Child(list[i].v) ELSE {}])
           : list \in Field(object, "childTable", {"array"})}

TranslateNode(object) ==
    [ext |-> HexBytes(object, "extAddress"), rloc |-> Rloc16(object),
     version |-> OrElse(Number(object, "threadVersion"), Number(object, "version")),
     mode |-> ModeOf(object), counters |-> Counters(object), children |-> ChildTable(object)]

-----------------------------------------------------------------------------
(* normalize_keys.                                                         *)

Capitalised ==
    [ExtAddress |-> "extAddress", Rloc16 |-> "rloc16", Version |-> "version", Mode |-> "mode",
     RxOnWhenIdle |-> "rxOnWhenIdle", DeviceType |-> "deviceType", NetworkData |-> "networkData",
     MACCounters |-> "mACCounters", IfInErrors |-> "ifInErrors", IfOutErrors |-> "ifOutErrors",
     ChildTable |-> "childTable", Timeout |-> "timeout", ChildId |-> "childId"]
LowerFirst(key) == IF key \in DOMAIN Capitalised THEN Capitalised[key] ELSE key

\* normalize_key: a few keys begin with an acronym.
NormalizeKey(key) == IF key = "MACCounters" THEN "macCounters" ELSE LowerFirst(key)

RECURSIVE NormalizeKeys(_)
NormalizeKeys(value) ==
    CASE value.kind = "object" ->
            Json("object",
                 [k \in {NormalizeKey(key) : key \in DOMAIN value.v} |->
                     NormalizeKeys(value.v[CHOOSE key \in DOMAIN value.v : NormalizeKey(key) = k])])
      [] value.kind = "array" ->
            Json("array", [i \in 1 .. Len(value.v) |-> NormalizeKeys(value.v[i])])
      [] OTHER -> value

\* attributes_of: an item of the collection, or a bare node.
AttributesOf(object) ==
    IF Field(object, "attributes", {"object"}) # {} /\ {"type", "id"} \cap DOMAIN object # {}
    THEN object["attributes"].v ELSE object

\* Mutant: a node is known by its extended address alone.
IdentifiedByAddress(node) == node.ext # {}

\* translate_item: an item that identifies no node is dropped.
Identified(node) == node.ext # {} \/ node.rloc # {}
TranslateItem(item) ==
    LET node == TranslateNode(AttributesOf(NormalizeKeys(item).v))
    IN  IF Identified(node) THEN {node} ELSE {}

-----------------------------------------------------------------------------
(* How the two builds describe a node: the border router, external.        *)

\* A field that is malformed holds text that means nothing.
Spelled(name, value) == IF name \in spoilt THEN Json("text", "?") ELSE value
Num(name, value) == Spelled(name, Json("number", value))
ModeNow(m) ==
    Spelled("mode", Json("object",
        [rxOnWhenIdle |-> Json("bool", m[1]), fullThreadDevice |-> Spelled("ftd", Json("bool", m[2])),
         fullNetworkData |-> Json("bool", m[3])]))
ModeThen(m) ==
    Spelled("mode", Json("object",
        [RxOnWhenIdle |-> Json("number", m[1]), DeviceType |-> Num("ftd", m[2]),
         NetworkData |-> Json("number", m[3])]))

CurrentItem ==
    Json("object",
        [id |-> Json("text", "1"), type |-> Json("text", "threadNetworkDiagnostic"),
         attributes |-> Json("object",
            [extAddress |-> Spelled("ext", Json("hex", meshNode.ext)),
             rloc16 |-> Spelled("rloc", Json("numeral", meshNode.rloc)),
             threadVersion |-> Num("version", meshNode.version), mode |-> ModeNow(meshNode.mode),
             macCounters |-> Json("object", [ifInErrors |-> Num("errors", meshNode.counters[1]),
                                             ifOutErrors |-> Num("errors", meshNode.counters[2])]),
             childTable |-> Json("array", [i \in 1 .. Len(meshNode.children) |-> Json("object",
                [timeout |-> Num("timeout", meshNode.children[i][1]),
                 linkQuality |-> Num("quality", meshNode.children[i][2]),
                 childId |-> Json("number", meshNode.children[i][3]),
                 mode |-> ModeNow(meshNode.children[i][4])])])])])
LegacyItem ==
    Json("object",
        [ExtAddress |-> Spelled("ext", Json("hex", meshNode.ext)), Rloc16 |-> Num("rloc", meshNode.rloc),
         Version |-> Num("version", meshNode.version), Mode |-> ModeThen(meshNode.mode),
         MACCounters |-> Json("object", [IfInErrors |-> Num("errors", meshNode.counters[1]),
                                         IfOutErrors |-> Num("errors", meshNode.counters[2])]),
         ChildTable |-> Json("array", [i \in 1 .. Len(meshNode.children) |-> Json("object",
            [Timeout |-> Num("timeout", meshNode.children[i][1]),
             ChildId |-> Json("number", meshNode.children[i][3]),
             Mode |-> ModeThen(meshNode.children[i][4])])])])
ReceivedItem == IF build = "current" THEN CurrentItem ELSE LegacyItem

ItemInit ==
    /\ meshNode \in MeshDevices /\ build \in {"current", "legacy"}
    /\ spoilt = {} /\ reported = <<>>

\* A field comes out malformed.
Spoil(name) ==
    /\ reported = <<>> /\ Cardinality(spoilt) < MaxSpoilt
    /\ spoilt' = spoilt \cup {name}
    /\ UNCHANGED <<meshNode, build, reported>>

Report ==
    /\ reported = <<>> /\ reported' = <<TranslateItem(ReceivedItem)>>
    /\ UNCHANGED <<meshNode, build, spoilt>>

ItemNext ==
    \/ Report
    \/ \E name \in {"ext", "rloc", "version", "mode", "ftd", "errors", "timeout", "quality"} : Spoil(name)

-----------------------------------------------------------------------------
(* Properties.                                                             *)

\* The node as it is, but for the link qualities that were not to be had.
Whole ==
    LET Quality(child) == IF build = "legacy" \/ "quality" \in spoilt THEN 0 ELSE child[2]
    IN  [ext |-> {meshNode.ext}, rloc |-> {meshNode.rloc}, version |-> {meshNode.version},
         mode |-> {meshNode.mode}, counters |-> {meshNode.counters},
         children |-> {[i \in 1 .. Len(meshNode.children) |->
                           [meshNode.children[i] EXCEPT ![2] = Quality(meshNode.children[i])]]}]

\* The fields that each part of the node is read from.
ReadFrom ==
    [ext |-> {"ext"}, rloc |-> {"rloc"}, version |-> {"version"}, mode |-> {"mode", "ftd"},
     counters |-> {"errors"}, children |-> {"mode", "ftd", "timeout"}]

\* Whichever build describes a node, in its own spelling of keys and values
\* and wrapped or not, the protocol's node is the same (otbr_rest.rs:583).
SpellingsAgree == reported # <<>> /\ spoilt = {} => reported[1] = {Whole}

\* A malformed field costs the part that it belongs to, which is dropped as a
\* whole and never reported by halves, and no other; it costs the node only
\* if nothing is left to know it by (otbr_rest.rs:585).
SpoiltFieldsStayAlone ==
    reported # <<>> =>
    /\ reported[1] = {} <=> {"ext", "rloc"} \subseteq spoilt
    /\ \A node \in reported[1] : \A part \in DOMAIN ReadFrom :
          /\ node[part] \in {Whole[part], {}}
          /\ ReadFrom[part] \cap spoilt = {} => node[part] = Whole[part]

\* A node is reported as it is, as far as the border router says so readably.
ItemsAreReadAlike == SpellingsAgree /\ SpoiltFieldsStayAlone
=============================================================================
