---------------------------- MODULE FabricLabel ----------------------------
(***************************************************************************)
(* The label of the controller's fabric: set_default_fabric_label          *)
(* (server/src/api/server_info.rs), its owner (server/src/api/mod.rs), the *)
(* copies in rs-matter's fabric, in the configuration and on each device   *)
(* (server/src/storage/config.rs, server/src/api/fabrics.rs), and the      *)
(* label a commissioning tells the new device                              *)
(* (server/src/api/commissioning.rs).                                      *)
(*                                                                         *)
(* A label is a sequence of characters of which only blanks are told       *)
(* apart.  Steps end where the code awaits or releases a lock.             *)
(***************************************************************************)
EXTENDS Integers, Sequences

CONSTANTS
    LabelConns,
    LabelNodes,
    FirstNode,           \* the node commissioned before the server starts
    LabelRequests,       \* the texts clients send, the empty one for null
    LabelDefault,        \* DEFAULT_FABRIC_LABEL
    MaxLabelLen,         \* MAX_FABRIC_LABEL_LEN
    MaxLabelRequests,    \* bound: requests
    MaxLabelFaults       \* bound: calls that fail, saves that fail, kills

\* char::is_whitespace.
IsBlank(ch) == ch = " "

ASSUME LabelAssumption ==
    /\ "nobody" \notin LabelConns
    /\ FirstNode \in LabelNodes
    /\ LabelRequests \subseteq Seq(STRING)
    /\ LabelDefault \in Seq(STRING) /\ Len(LabelDefault) \in 1 .. MaxLabelLen
    /\ ~ IsBlank(LabelDefault[1]) /\ ~ IsBlank(LabelDefault[Len(LabelDefault)])
    /\ {MaxLabelLen, MaxLabelRequests, MaxLabelFaults} \subseteq Nat

VARIABLES
    owner,       \* ServerContext.fabric_label_owner
    fabricLabel, \* in rs-matter's fabric
    fabricSaved, \* and in its blob
    cachedLabel, \* ServerContext.fabric
    configLabel, \* ConfigData.fabric_label in memory
    savedLabel,  \* and in config.json
    devLabel,    \* what each device calls the fabric
    known,       \* the nodes in the node store
    away,        \* those marked unavailable
    setting,     \* the request each connection is handling
    late,        \* labels the actor will still set for callers that left
    labelUsed,   \* how much of each bound is used
    \* History, for the properties.
    missed,      \* nodes that were not told, or refused
    overtaken,   \* nodes told an older label after a newer one
    split        \* a set of the label failed halfway

labelHistory == <<missed, overtaken, split>>
labelVars == <<owner, fabricLabel, fabricSaved, cachedLabel, configLabel, savedLabel, devLabel, known,
               away, setting, late, labelUsed, labelHistory>>

Nobody == "nobody"
Resting == [at |-> "idle", label |-> <<>>, todo |-> {}]
Setters == {c \in LabelConns : setting[c].at \in {"fabric", "config", "snapshot", "push"}}
Commissioners == {c \in LabelConns : setting[c].at \in {"read", "tell"}}

\* str::trim.
Trim(s) ==
    LET kept == {i \in 1 .. Len(s) : ~ IsBlank(s[i])}
    IN  IF kept = {} THEN <<>>
        ELSE SubSeq(s, CHOOSE i \in kept : \A j \in kept : i <= j,
                       CHOOSE i \in kept : \A j \in kept : i >= j)

\* Mutant: an empty label is taken as it is.
NormalizeEmpty(s) == SubSeq(Trim(s), 1, IF Len(Trim(s)) < MaxLabelLen THEN Len(Trim(s)) ELSE MaxLabelLen)

\* ConfigStore::normalize_fabric_label: trimmed, then cut.  The cut may leave
\* a blank at the end, which a second call trims.
Normalize(s) ==
    LET effective == IF Trim(s) = <<>> THEN LabelDefault ELSE Trim(s)
    IN  SubSeq(effective, 1, IF Len(effective) < MaxLabelLen THEN Len(effective) ELSE MaxLabelLen)

LabelInit ==
    /\ owner = Nobody
    /\ fabricLabel = LabelDefault /\ fabricSaved = LabelDefault /\ cachedLabel = LabelDefault
    /\ configLabel = LabelDefault /\ savedLabel = LabelDefault
    /\ devLabel = [n \in LabelNodes |-> IF n = FirstNode THEN LabelDefault ELSE <<>>]
    /\ known = {FirstNode}
    /\ away = {}
    /\ setting = [c \in LabelConns |-> Resting]
    /\ late = {}
    /\ labelUsed = [requests |-> 0, faults |-> 0]
    /\ missed = {} /\ overtaken = {} /\ split = FALSE

-----------------------------------------------------------------------------
(* set_default_fabric_label.                                               *)

LabelAsked ==
    /\ labelUsed.requests < MaxLabelRequests
    /\ labelUsed' = [labelUsed EXCEPT !.requests = @ + 1]

LabelFault ==
    /\ labelUsed.faults < MaxLabelFaults
    /\ labelUsed' = [labelUsed EXCEPT !.faults = @ + 1]

Moves(c, at) == setting' = [setting EXCEPT ![c].at = at]
Rests(c) == setting' = [setting EXCEPT ![c] = Resting]

\* Mutant: whoever asks may set the label.
ClaimsAlways(c) == c \in LabelConns

\* claim_fabric_label.
Claims(c) == owner \in {Nobody, c}

SetLabel(c, text) ==
    /\ setting[c].at = "idle" /\ Claims(c) /\ LabelAsked
    /\ owner' = c
    /\ setting' = [setting EXCEPT ![c] = [at |-> "fabric", label |-> Normalize(text), todo |-> {}]]
    /\ UNCHANGED <<fabricLabel, fabricSaved, cachedLabel, configLabel, savedLabel, devLabel, known, away,
                   late, labelHistory>>

\* A request of a connection that does not own the label succeeds and does
\* nothing, like every request of a server with a pinned label.
SetIgnored(c) ==
    /\ setting[c].at = "idle" /\ ~ Claims(c) /\ LabelAsked
    /\ UNCHANGED <<owner, fabricLabel, fabricSaved, cachedLabel, configLabel, savedLabel, devLabel, known,
                   away, setting, late, labelHistory>>

\* The actor sets the label of rs-matter's fabric and persists it, in the
\* order in which it was asked,
FabricSet(c) ==
    /\ setting[c].at = "fabric" /\ late = {} /\ Moves(c, "config")
    /\ fabricLabel' = setting[c].label /\ fabricSaved' = fabricLabel'
    /\ UNCHANGED <<owner, cachedLabel, configLabel, savedLabel, devLabel, known, away, late,
                   labelUsed, labelHistory>>

\* or refuses the label,
FabricRefused(c) ==
    /\ setting[c].at = "fabric" /\ late = {} /\ LabelFault /\ Rests(c)
    /\ UNCHANGED <<owner, fabricLabel, fabricSaved, cachedLabel, configLabel, savedLabel, devLabel, known,
                   away, late, labelHistory>>

\* or cannot persist it (fabricSaved is left behind),
FabricUnsaved(c) ==
    /\ setting[c].at = "fabric" /\ late = {} /\ LabelFault /\ Rests(c)
    /\ fabricLabel' = setting[c].label
    /\ split' = TRUE
    /\ UNCHANGED <<owner, fabricSaved, cachedLabel, configLabel, savedLabel, devLabel, known, away, late,
                   missed, overtaken>>

\* or answers too late: the caller gives up, the operation does not.
FabricTimeout(c) ==
    /\ setting[c].at = "fabric" /\ LabelFault /\ Rests(c)
    /\ late' = late \cup {setting[c].label}
    /\ split' = TRUE
    /\ UNCHANGED <<owner, fabricLabel, fabricSaved, cachedLabel, configLabel, savedLabel, devLabel, known,
                   away, missed, overtaken>>

FabricLate(l) ==
    /\ l \in late /\ late' = late \ {l}
    /\ fabricLabel' = l /\ fabricSaved' = fabricLabel'
    /\ split' = TRUE
    /\ UNCHANGED <<owner, cachedLabel, configLabel, savedLabel, devLabel, known, away, setting,
                   labelUsed, missed, overtaken>>

\* ConfigStore::set_fabric_label, which normalises the label once more, and
\* update_cached_fabric_label.
ConfigSet(c) ==
    /\ setting[c].at = "config" /\ Moves(c, "snapshot")
    /\ configLabel' = Normalize(setting[c].label) /\ savedLabel' = configLabel'
    /\ cachedLabel' = setting[c].label
    /\ split' = FALSE
    /\ UNCHANGED <<owner, fabricLabel, fabricSaved, devLabel, known, away, late, labelUsed, missed,
                   overtaken>>

\* The label has changed in memory when its save fails; no node is told.
ConfigUnsaved(c) ==
    /\ setting[c].at = "config" /\ LabelFault /\ Rests(c)
    /\ configLabel' = Normalize(setting[c].label)
    /\ split' = TRUE /\ missed' = known
    /\ UNCHANGED <<owner, fabricLabel, fabricSaved, cachedLabel, savedLabel, devLabel, known, away, late,
                   overtaken>>

\* nodes.all_filtered(true): the nodes that are available now.
PushSnapshot(c) ==
    /\ setting[c].at = "snapshot"
    /\ setting' = [setting EXCEPT ![c].at = "push", ![c].todo = known \ away]
    /\ missed' = missed \cup (known \cap away)
    /\ UNCHANGED <<owner, fabricLabel, fabricSaved, cachedLabel, configLabel, savedLabel, devLabel, known,
                   away, late, labelUsed, overtaken, split>>

\* The device takes a label: push_fabric_label, answered with status 0 or
\* with none.
Takes(n, l) ==
    /\ devLabel' = [devLabel EXCEPT ![n] = l]
    /\ missed' = IF Normalize(l) = configLabel THEN missed \ {n} ELSE missed
    /\ overtaken' = IF Normalize(l) = configLabel THEN overtaken \ {n}
                    ELSE IF Normalize(devLabel[n]) = configLabel THEN overtaken \cup {n}
                    ELSE overtaken

PushTaken(c, n) ==
    /\ setting[c].at = "push" /\ n \in setting[c].todo
    /\ Takes(n, setting[c].label)
    /\ setting' = [setting EXCEPT ![c].todo = @ \ {n}]
    /\ UNCHANGED <<owner, fabricLabel, fabricSaved, cachedLabel, configLabel, savedLabel, known, away, late,
                   labelUsed, split>>

\* LabelConflict, another status, or an invoke that fails: logged.
PushRefused(c, n) ==
    /\ setting[c].at = "push" /\ n \in setting[c].todo /\ LabelFault
    /\ setting' = [setting EXCEPT ![c].todo = @ \ {n}]
    /\ missed' = missed \cup {n}
    /\ UNCHANGED <<owner, fabricLabel, fabricSaved, cachedLabel, configLabel, savedLabel, devLabel, known,
                   away, late, overtaken, split>>

\* broadcast_server_info, and the answer.
SetDone(c) ==
    /\ setting[c].at = "push" /\ setting[c].todo = {} /\ Rests(c)
    /\ UNCHANGED <<owner, fabricLabel, fabricSaved, cachedLabel, configLabel, savedLabel, devLabel, known,
                   away, late, labelUsed, labelHistory>>

-----------------------------------------------------------------------------
(* The end of commission: the actor has persisted the fabric, the node is  *)
(* stored, then told the label.                                            *)

\* Mutant: the label is read before the node is stored.
StoreCommissionedReading(c, n) ==
    /\ setting[c].at = "idle" /\ n \notin known /\ LabelAsked
    /\ fabricSaved' = fabricLabel
    /\ known' = known \cup {n}
    /\ setting' = [setting EXCEPT ![c] = [at |-> "tell", label |-> savedLabel, todo |-> {n}]]
    /\ UNCHANGED <<owner, fabricLabel, cachedLabel, configLabel, savedLabel, devLabel, away,
                   late, labelHistory>>

StoreCommissioned(c, n) ==
    /\ setting[c].at = "idle" /\ n \notin known /\ LabelAsked
    /\ fabricSaved' = fabricLabel
    /\ known' = known \cup {n}
    /\ setting' = [setting EXCEPT ![c] = [at |-> "read", label |-> <<>>, todo |-> {n}]]
    /\ UNCHANGED <<owner, fabricLabel, cachedLabel, configLabel, savedLabel, devLabel, away,
                   late, labelHistory>>

ReadLabel(c) ==
    /\ setting[c].at = "read"
    /\ setting' = [setting EXCEPT ![c].at = "tell", ![c].label = configLabel]
    /\ UNCHANGED <<owner, fabricLabel, fabricSaved, cachedLabel, configLabel, savedLabel, devLabel, known,
                   away, late, labelUsed, labelHistory>>

TellLabel(c, n) ==
    /\ setting[c].at = "tell" /\ n \in setting[c].todo /\ Rests(c)
    /\ Takes(n, setting[c].label)
    /\ UNCHANGED <<owner, fabricLabel, fabricSaved, cachedLabel, configLabel, savedLabel, known, away, late,
                   labelUsed, split>>

TellRefused(c, n) ==
    /\ setting[c].at = "tell" /\ n \in setting[c].todo /\ LabelFault /\ Rests(c)
    /\ missed' = missed \cup {n}
    /\ UNCHANGED <<owner, fabricLabel, fabricSaved, cachedLabel, configLabel, savedLabel, devLabel, known,
                   away, late, overtaken, split>>

-----------------------------------------------------------------------------

\* The monitor marks a node.
MarkNode(n) ==
    /\ n \in known
    /\ away' \in {away \cup {n}, away \ {n}} /\ away' # away
    /\ UNCHANGED <<owner, fabricLabel, fabricSaved, cachedLabel, configLabel, savedLabel, devLabel, known,
                   setting, late, labelUsed, labelHistory>>

\* release_fabric_label: compare and exchange.
Release(c) == IF owner = c THEN Nobody ELSE owner

\* serve_websocket ends, between two requests, and another client takes the
\* place of this one.
Disconnect(c) ==
    /\ setting[c].at = "idle"
    /\ owner' = Release(c) /\ owner' # owner
    /\ UNCHANGED <<fabricLabel, fabricSaved, cachedLabel, configLabel, savedLabel, devLabel, known, away,
                   setting, late, labelUsed, labelHistory>>

\* A kill, and the start after it.  No start tells a node the label.
Kill ==
    /\ LabelFault
    /\ owner' = Nobody
    /\ configLabel' = savedLabel
    /\ fabricLabel' = fabricSaved /\ cachedLabel' = fabricSaved
    /\ setting' = [c \in LabelConns |-> Resting]
    /\ late' = {}
    /\ away' = {}
    /\ missed' = IF split \/ Setters # {} THEN known
                 ELSE missed \cup UNION {setting[c].todo : c \in LabelConns}
    /\ split' = (split \/ Setters # {})
    /\ UNCHANGED <<fabricSaved, savedLabel, devLabel, known, overtaken>>

LabelNext ==
    \/ \E c \in LabelConns :
          \/ \E text \in LabelRequests : SetLabel(c, text)
          \/ SetIgnored(c)
          \/ FabricSet(c) \/ FabricRefused(c) \/ FabricUnsaved(c) \/ FabricTimeout(c)
          \/ ConfigSet(c) \/ ConfigUnsaved(c) \/ PushSnapshot(c) \/ SetDone(c)
          \/ ReadLabel(c) \/ Disconnect(c)
          \/ \E n \in LabelNodes :
                \/ PushTaken(c, n) \/ PushRefused(c, n)
                \/ StoreCommissioned(c, n) \/ TellLabel(c, n) \/ TellRefused(c, n)
    \/ \E l \in late : FabricLate(l)
    \/ \E n \in LabelNodes : MarkNode(n)
    \/ Kill

LabelSpec == LabelInit /\ [][LabelNext]_labelVars

-----------------------------------------------------------------------------
(* Properties.                                                             *)

\* The owner's whole request, awaits included, excludes every other set of
\* the label: claim_fabric_label admits one connection, and the claim is
\* released when that connection closes, not before (api/mod.rs:317).
OneSetterAtATime ==
    \A c, d \in Setters : c = d

\* When nobody is setting the label and no set of it failed halfway, the
\* fabric, the cache and the configuration agree (the configuration may have
\* trimmed a blank that the cut left), in memory and in config.json, and none
\* of them is empty.
PlacesAgree ==
    (Setters = {} /\ ~ split) =>
        /\ cachedLabel = fabricLabel
        /\ configLabel = Normalize(fabricLabel) /\ savedLabel = configLabel
        /\ configLabel # <<>>

\* When every request has ended, each node calls the fabric what the server
\* does, whatever the order in which commissionings and a change of the label
\* met, except one that could not be told or whose commissioning told it the
\* older label last.
DevicesFollow ==
    (Setters = {} /\ Commissioners = {}) =>
        \A n \in known \ (missed \cup overtaken) : Normalize(devLabel[n]) = configLabel

\* There is one label: the connections that set it do not meet, and its three
\* places and the devices end up with the same one (api/server_info.rs:191).
OneLabel == OneSetterAtATime /\ PlacesAgree /\ DevicesFollow
=============================================================================
