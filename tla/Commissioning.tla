--------------------------- MODULE Commissioning ---------------------------
(***************************************************************************)
(* How a device gets onto the controller's fabric and into its node list,  *)
(* and how it leaves: commission and commission_with_code                  *)
(* (server/src/api/commissioning.rs), the actor's operation behind them    *)
(* (server/src/matter/actor.rs, server/src/matter/commissioning.rs), the   *)
(* ids they use (server/src/storage/config.rs), remove_node                *)
(* (server/src/api/nodes.rs), and the start of the server with the import  *)
(* of another server's fabric (server/src/main.rs,                         *)
(* server/src/matter/controller.rs, server/src/migrate/mod.rs).            *)
(*                                                                         *)
(* A connection handles one request at a time; its steps end where it      *)
(* awaits, saves or publishes.  The actor interleaves the operations of    *)
(* all requests, and finishes one whose caller has timed out.  A save of   *)
(* the node list or the configuration is one step that may fail.  Node     *)
(* lists are sets of ids.                                                  *)
(***************************************************************************)
EXTENDS Integers

CONSTANTS
    Conns,
    Devices,
    Adopted,       \* the devices on the fabric offered for import, if any
    AdoptedId,     \* their ids there
    AdoptedNext,   \* the next id of the server imported from
    MaxId,         \* bound: ids that are issued
    MaxKills,      \* bound: times the process is killed
    MaxTimeouts,   \* bound: commissioning calls that time out
    MaxFaults,     \* bound: saves that fail
    MaxRequests    \* bound: requests of clients

ASSUME CommissioningAssumption ==
    /\ Adopted \subseteq Devices
    /\ AdoptedId \in [Adopted -> Nat \ {0}]
    /\ \A d, e \in Adopted : AdoptedId[d] = AdoptedId[e] => d = e
    /\ AdoptedNext \in Nat
    /\ {MaxId, MaxKills, MaxTimeouts, MaxFaults, MaxRequests} \subseteq Nat

AdoptedIds == {AdoptedId[d] : d \in Adopted}
Ids == 1 .. MaxId

VARIABLES
    up,         \* "down", the stages of a start, "up", or "broken"
    fabric,     \* the fabric's blob is in storage
    key,        \* the issuer's private key is in storage
    next,       \* ConfigData.next_node_id in memory
    nextDisk,   \* and in config.json
    nodes,      \* the NodeStore in memory
    nodesDisk,  \* and in nodes.json
    op,         \* the actor's operation for each id
    req,        \* the request each connection is handling
    dev,        \* the devices: on no fabric, under the fail-safe, or on ours
    view,       \* the nodes the clients know of
    used,       \* how much of each bound is used
    \* History, for the properties.
    issued,     \* the ids ever given to an operation or by the other server
    lost,       \* devices left on the fabric in one of the ways listed below
    raced,      \* nodes removed while their commissioning was not announced
    halfImported  \* a kill fell between the adopted fabric and its node list

diskVars == <<fabric, key, nextDisk, nodesDisk>>
historyVars == <<issued, lost, raced, halfImported>>
vars == <<up, diskVars, next, nodes, op, req, dev, view, used, historyVars>>

Factory == [st |-> "factory", id |-> 0]
NoOp == [at |-> "none", dev |-> 0]
Idle == [at |-> "idle", id |-> 0, dev |-> 0, again |-> FALSE]
Starting == {"install", "key", "apply", "config", "load"}
\* Where a request is: idle, commissioning, or removing a node.
Stages == {"idle", "allocate", "call", "store", "save", "interview", "announce",
           "remove", "forget", "saveRemoval", "tell"}

\* The devices on the fabric under an id.
Holders(i) == {d \in Devices : dev[d] = [st |-> "on", id |-> i]}

TypeOK ==
    /\ up \in Starting \cup {"down", "up", "broken"}
    /\ fabric \in BOOLEAN /\ key \in BOOLEAN
    /\ next \in Nat /\ nextDisk \in Nat
    /\ nodes \subseteq Nat /\ nodesDisk \subseteq Nat
    /\ op \in [Ids -> [at : {"none", "search", "case", "persist", "ok", "err"},
                       dev : Devices \cup {0}]]
    /\ \A i \in Ids : op[i].at # "none" => op[i].dev \in Devices
    /\ req \in [Conns -> [at : Stages, id : Nat, dev : Devices \cup {0}, again : BOOLEAN]]
    /\ \A c \in Conns : req[c].at = "allocate" \/ req[c].again => req[c].dev \in Devices
    /\ dev \in [Devices -> [st : {"factory", "armed", "on"}, id : Nat]]
    /\ view \subseteq Nat
    /\ used \in [kills : Nat, timeouts : Nat, faults : Nat, requests : Nat]
    /\ issued \subseteq Nat /\ raced \subseteq Nat
    /\ lost \subseteq Devices
    /\ halfImported \in BOOLEAN

\* An empty storage; the adopted devices are on the fabric to be imported.
Init ==
    /\ up = "down"
    /\ fabric = FALSE /\ key = FALSE
    /\ next = 1 /\ nextDisk = 1
    /\ nodes = {} /\ nodesDisk = {}
    /\ op = [i \in Ids |-> NoOp]
    /\ req = [c \in Conns |-> Idle]
    /\ dev = [d \in Devices |-> IF d \in Adopted
                                THEN [st |-> "on", id |-> AdoptedId[d]]
                                ELSE Factory]
    /\ view = {}
    /\ used = [kills |-> 0, timeouts |-> 0, faults |-> 0, requests |-> 0]
    /\ issued = AdoptedIds
    /\ lost = {} /\ raced = {}
    /\ halfImported = FALSE

-----------------------------------------------------------------------------
(* The start of the process.                                               *)

Highest(S, h) == h \in S /\ \A i \in S : i <= h

\* ConfigStore::reserve_node_ids_above.
ReservedAbove(n, h) == IF n <= h THEN h + 1 ELSE n

runVars == <<op, req, dev, view, used, historyVars>>

\* matter.startup finds a fabric in storage or not.  One without its key is
\* an error, in this and in every later start.
Start ==
    /\ up = "down"
    /\ up' = IF ~ fabric THEN "install" ELSE IF key THEN "load" ELSE "broken"
    /\ UNCHANGED <<diskVars, next, nodes, runVars>>

\* create_fabric or install_fabric, then persist_fabric.
InstallFabric ==
    /\ up = "install" /\ up' = "key"
    /\ fabric' = TRUE
    /\ UNCHANGED <<key, nextDisk, nodesDisk, next, nodes, runVars>>

PersistKey ==
    /\ up = "key"
    /\ up' = IF Adopted = {} THEN "load" ELSE "apply"
    /\ key' = TRUE
    /\ UNCHANGED <<fabric, nextDisk, nodesDisk, next, nodes, runVars>>

\* apply_state: first the node list, then the settings.
ApplyNodes ==
    /\ up = "apply" /\ up' = "config"
    /\ nodesDisk' = nodesDisk \cup AdoptedIds
    /\ UNCHANGED <<fabric, key, nextDisk, next, nodes, runVars>>

ApplyConfig ==
    /\ up = "config" /\ up' = "load"
    /\ \E h \in AdoptedIds \cup {AdoptedNext - 1} :
          /\ Highest(AdoptedIds \cup {AdoptedNext - 1}, h)
          /\ nextDisk' = ReservedAbove(nextDisk, h)
    /\ UNCHANGED <<fabric, key, nodesDisk, next, nodes, runVars>>

\* Mutant: the counter is taken from the configuration as it is.
LoadUnreserved ==
    /\ up = "load" /\ up' = "up"
    /\ nodes' = nodesDisk /\ view' = nodesDisk
    /\ next' = nextDisk /\ nextDisk' = nextDisk
    /\ UNCHANGED <<fabric, key, nodesDisk, op, req, dev, used, historyVars>>

\* serve: load both stores and reserve above the highest id in use.  Clients
\* that connect from now on are sent the list by start_listening.
Load ==
    /\ up = "load" /\ up' = "up"
    /\ nodes' = nodesDisk /\ view' = nodesDisk
    /\ \/ /\ nodesDisk = {}
          /\ next' = nextDisk
       \/ \E h \in nodesDisk : /\ Highest(nodesDisk, h)
                               /\ next' = ReservedAbove(nextDisk, h)
    /\ nextDisk' = next'
    /\ UNCHANGED <<fabric, key, nodesDisk, op, req, dev, used, historyVars>>

-----------------------------------------------------------------------------
(* Requests.                                                               *)

Goes(c, at) == req' = [req EXCEPT ![c].at = at]
Ends(c) == req' = [req EXCEPT ![c] = Idle]
Tries(c, at, i, again) ==
    req' = [req EXCEPT ![c] = [at |-> at, id |-> i, dev |-> req[c].dev, again |-> again]]

\* commission returned an error.  commission_with_code tries once more, over
\* Bluetooth, whatever the error was.
Fails(c) ==
    IF req[c].again THEN Tries(c, "allocate", 0, FALSE) ELSE Ends(c)

Fault ==
    /\ used.faults < MaxFaults
    /\ used' = [used EXCEPT !.faults = @ + 1]

Asked ==
    /\ used.requests < MaxRequests
    /\ used' = [used EXCEPT !.requests = @ + 1]

\* commission_with_code, with Bluetooth (again) or without, or
\* commission_on_network.
Commission(c, d, again) ==
    /\ up = "up" /\ req[c].at = "idle" /\ Asked
    /\ req' = [req EXCEPT ![c] = [at |-> "allocate", id |-> 0, dev |-> d, again |-> again]]
    /\ UNCHANGED <<up, diskVars, next, nodes, op, dev, view, historyVars>>

\* allocate_node_id takes max(next, 1) and persists the counter above it.
NextId == IF next < 1 THEN 1 ELSE next

\* Mutant: the counter is persisted by the next save only.
AllocateLazily(c) ==
    /\ req[c].at = "allocate" /\ NextId \in Ids
    /\ next' = NextId + 1
    /\ Tries(c, "call", NextId, req[c].again)
    /\ op' = [op EXCEPT ![NextId] = [at |-> "search", dev |-> req[c].dev]]
    /\ issued' = issued \cup {NextId}
    /\ UNCHANGED <<up, diskVars, nodes, dev, view, used, lost, raced, halfImported>>

\* allocate_node_id, then the request to the actor.
Allocate(c) ==
    /\ req[c].at = "allocate" /\ NextId \in Ids
    /\ next' = NextId + 1 /\ nextDisk' = next'
    /\ Tries(c, "call", NextId, req[c].again)
    /\ op' = [op EXCEPT ![NextId] = [at |-> "search", dev |-> req[c].dev]]
    /\ issued' = issued \cup {NextId}
    /\ UNCHANGED <<up, fabric, key, nodesDisk, nodes, dev, view, used, lost, raced,
                   halfImported>>

\* mutate has changed the counter in memory when its save fails.
AllocateFault(c) ==
    /\ req[c].at = "allocate" /\ NextId \in Ids /\ Fault
    /\ next' = NextId + 1
    /\ Fails(c)
    /\ UNCHANGED <<up, diskVars, nodes, op, dev, view, historyVars>>

\* The actor answers the request that waits for it.
Answer(c, i) ==
    /\ req[c].at = "call" /\ req[c].id = i /\ op[i].at \in {"ok", "err"}
    /\ op' = [op EXCEPT ![i] = NoOp]
    /\ IF op[i].at = "ok" THEN Goes(c, "store") ELSE Fails(c)
    /\ UNCHANGED <<up, diskVars, next, nodes, dev, view, used, historyVars>>

\* The call times out; the operation does not.
Timeout(c) ==
    /\ req[c].at = "call" /\ used.timeouts < MaxTimeouts
    /\ used' = [used EXCEPT !.timeouts = @ + 1]
    /\ Fails(c)
    /\ UNCHANGED <<up, diskVars, next, nodes, op, dev, view, historyVars>>

StoreNode(c) ==
    /\ req[c].at = "store" /\ Goes(c, "save")
    /\ nodes' = nodes \cup {req[c].id}
    /\ UNCHANGED <<up, diskVars, next, op, dev, view, used, historyVars>>

\* Mutant: the new node is not saved before it is interviewed.
SaveNodeLater(c) ==
    /\ req[c].at = "save" /\ Goes(c, "interview")
    /\ UNCHANGED <<up, diskVars, next, nodes, op, dev, view, used, historyVars>>

SaveNode(c) ==
    /\ req[c].at = "save" /\ Goes(c, "interview")
    /\ nodesDisk' = nodes
    /\ UNCHANGED <<up, fabric, key, nextDisk, next, nodes, op, dev, view, used,
                   historyVars>>

\* The node stays in memory, unsaved.  A kill before the next save forgets it.
SaveNodeFault(c) ==
    /\ req[c].at = "save" /\ Fault /\ Fails(c)
    /\ lost' = lost \cup Holders(req[c].id)
    /\ UNCHANGED <<up, diskVars, next, nodes, op, dev, view, issued, raced, halfImported>>

\* The interview answers: apply_interview, which needs the node, and its save.
Interviewed(c) ==
    /\ req[c].at = "interview" /\ req[c].id \in nodes
    /\ nodesDisk' = nodes
    /\ Goes(c, "announce")
    /\ UNCHANGED <<up, fabric, key, nextDisk, next, nodes, op, dev, view, used,
                   historyVars>>

InterviewSaveFault(c) ==
    /\ req[c].at = "interview" /\ req[c].id \in nodes
    /\ Fault /\ Fails(c)
    /\ UNCHANGED <<up, diskVars, next, nodes, op, dev, view, historyVars>>

\* The interview fails: the node is announced as it is.
InterviewFailed(c) ==
    /\ req[c].at = "interview" /\ req[c].id \in nodes
    /\ Goes(c, "announce")
    /\ UNCHANGED <<up, diskVars, next, nodes, op, dev, view, used, historyVars>>

\* Mutant: a node that is no longer there is announced all the same.
InterviewGoneIgnored(c) ==
    /\ req[c].at = "interview" /\ req[c].id \notin nodes
    /\ Goes(c, "announce")
    /\ UNCHANGED <<up, diskVars, next, nodes, op, dev, view, used, historyVars>>

\* Either way, a node that was removed meanwhile does not exist.
InterviewGone(c) ==
    /\ req[c].at = "interview" /\ req[c].id \notin nodes
    /\ Fails(c)
    /\ UNCHANGED <<up, diskVars, next, nodes, op, dev, view, used, historyVars>>

Announce(c) ==
    /\ req[c].at = "announce" /\ Ends(c)
    /\ view' = view \cup {req[c].id}
    /\ UNCHANGED <<up, diskVars, next, nodes, op, dev, used, historyVars>>

-----------------------------------------------------------------------------
(* The actor's operations, and the device under its fail-safe.             *)

Op(i, at) == op' = [op EXCEPT ![i].at = at]

\* The device is found, a session opened and the certificate added under an
\* armed fail-safe (phase 1, and the network's credentials over Bluetooth).
OpAddNoc(i) ==
    /\ op[i].at = "search" /\ dev[op[i].dev].st = "factory"
    /\ dev' = [dev EXCEPT ![op[i].dev] = [st |-> "armed", id |-> i]]
    /\ Op(i, "case")
    /\ UNCHANGED <<up, diskVars, next, nodes, req, view, used, historyVars>>

\* complete_via_case: CommissioningComplete disarms the fail-safe.
OpComplete(i) ==
    /\ op[i].at = "case" /\ dev[op[i].dev] = [st |-> "armed", id |-> i]
    /\ dev' = [dev EXCEPT ![op[i].dev].st = "on"]
    /\ Op(i, "persist")
    /\ UNCHANGED <<up, diskVars, next, nodes, req, view, used, historyVars>>

\* It does, and the answer is lost or the Bluetooth pump ends first.
OpUnconfirmed(i) ==
    /\ op[i].at = "case" /\ dev[op[i].dev] = [st |-> "armed", id |-> i]
    /\ dev' = [dev EXCEPT ![op[i].dev].st = "on"]
    /\ lost' = lost \cup {op[i].dev}
    /\ Op(i, "err")
    /\ UNCHANGED <<up, diskVars, next, nodes, req, view, used, issued, raced,
                   halfImported>>

OpFail(i) ==
    /\ op[i].at \in {"search", "case"}
    /\ Op(i, "err")
    /\ UNCHANGED <<up, diskVars, next, nodes, req, dev, view, used, historyVars>>

\* persist_fabric.
OpPersist(i) ==
    /\ op[i].at = "persist"
    /\ Op(i, "ok")
    /\ UNCHANGED <<up, diskVars, next, nodes, req, dev, view, used, historyVars>>

OpPersistFault(i) ==
    /\ op[i].at = "persist" /\ Fault
    /\ lost' = lost \cup {op[i].dev}
    /\ Op(i, "err")
    /\ UNCHANGED <<up, diskVars, next, nodes, req, dev, view, issued, raced,
                   halfImported>>

\* The answer of an operation nobody waits for is dropped.
OpUnheard(i) ==
    /\ op[i].at \in {"ok", "err"}
    /\ \A c \in Conns : ~ (req[c].at = "call" /\ req[c].id = i)
    /\ op' = [op EXCEPT ![i] = NoOp]
    /\ lost' = IF op[i].at = "ok" THEN lost \cup {op[i].dev} ELSE lost
    /\ UNCHANGED <<up, diskVars, next, nodes, req, dev, view, used, issued, raced,
                   halfImported>>

FailSafeExpires(d) ==
    /\ dev[d].st = "armed"
    /\ dev' = [dev EXCEPT ![d] = Factory]
    /\ UNCHANGED <<up, diskVars, next, nodes, op, req, view, used, historyVars>>

-----------------------------------------------------------------------------
(* remove_node.                                                            *)

Remove(c, i) ==
    /\ up = "up" /\ req[c].at = "idle" /\ i \in nodes /\ Asked
    /\ req' = [req EXCEPT ![c] = [at |-> "remove", id |-> i, dev |-> 0, again |-> FALSE]]
    /\ UNCHANGED <<up, diskVars, next, nodes, op, dev, view, historyVars>>

\* remove_our_fabric succeeds,
RemoveFabric(c) ==
    /\ req[c].at = "remove" /\ Goes(c, "forget")
    /\ Holders(req[c].id) # {}
    /\ dev' = [d \in Devices |-> IF d \in Holders(req[c].id) THEN Factory ELSE dev[d]]
    /\ lost' = lost \ Holders(req[c].id)
    /\ UNCHANGED <<up, diskVars, next, nodes, op, view, used, issued, raced,
                   halfImported>>

\* or fails, and the device keeps the fabric until it is factory reset.
RemoveUnreachable(c) ==
    /\ req[c].at = "remove" /\ Goes(c, "forget")
    /\ lost' = lost \cup Holders(req[c].id)
    /\ UNCHANGED <<up, diskVars, next, nodes, op, dev, view, used, issued, raced,
                   halfImported>>

RemoveNode(c) ==
    /\ req[c].at = "forget" /\ Goes(c, "saveRemoval")
    /\ nodes' = nodes \ {req[c].id}
    /\ raced' = IF \E e \in Conns : req[e].at = "announce" /\ req[e].id = req[c].id
                THEN raced \cup {req[c].id} ELSE raced
    /\ UNCHANGED <<up, diskVars, next, op, dev, view, used, issued, lost, halfImported>>

SaveRemoval(c) ==
    /\ req[c].at = "saveRemoval" /\ Goes(c, "tell")
    /\ nodesDisk' = nodes
    /\ UNCHANGED <<up, fabric, key, nextDisk, next, nodes, op, dev, view, used,
                   historyVars>>

\* The error returns before the event: the clients keep the node.
SaveRemovalFault(c) ==
    /\ req[c].at = "saveRemoval" /\ Fault /\ Ends(c)
    /\ raced' = raced \cup {req[c].id}
    /\ UNCHANGED <<up, diskVars, next, nodes, op, dev, view, issued, lost, halfImported>>

TellRemoved(c) ==
    /\ req[c].at = "tell" /\ Ends(c)
    /\ view' = view \ {req[c].id}
    /\ UNCHANGED <<up, diskVars, next, nodes, op, dev, used, historyVars>>

-----------------------------------------------------------------------------
(* The process is killed.  What a device was told stays with the device.   *)

\* The devices a kill strands: commissioned, and not yet in nodes.json.
InHand(d) ==
    \/ \E i \in Ids : op[i].at \in {"persist", "ok"} /\ d \in Holders(i)
    \/ \E c \in Conns : req[c].at \in {"store", "save"} /\ d \in Holders(req[c].id)

Kill ==
    /\ up \in Starting \cup {"up"} /\ up' = "down"
    /\ used.kills < MaxKills /\ used' = [used EXCEPT !.kills = @ + 1]
    /\ op' = [i \in Ids |-> NoOp]
    /\ req' = [c \in Conns |-> Idle]
    /\ nodes' = {} /\ next' = 1 /\ view' = {}
    /\ halfImported' = (halfImported \/ up = "apply")
    /\ lost' = lost \cup {d \in Devices : InHand(d)}
                    \cup (IF up = "apply" THEN Adopted ELSE {})
    /\ raced' = {}
    /\ UNCHANGED <<diskVars, dev, issued>>

-----------------------------------------------------------------------------
Starts == Start \/ InstallFabric \/ PersistKey \/ ApplyNodes \/ ApplyConfig \/ Load

Commissions(c) ==
    \/ \E d \in Devices, again \in BOOLEAN : Commission(c, d, again)
    \/ Allocate(c) \/ AllocateFault(c) \/ Timeout(c)
    \/ \E i \in Ids : Answer(c, i)
    \/ StoreNode(c) \/ SaveNode(c) \/ SaveNodeFault(c)
    \/ Interviewed(c) \/ InterviewSaveFault(c) \/ InterviewFailed(c) \/ InterviewGone(c)
    \/ Announce(c)

Removes(c) ==
    \/ \E i \in nodes : Remove(c, i)
    \/ RemoveFabric(c) \/ RemoveUnreachable(c) \/ RemoveNode(c)
    \/ SaveRemoval(c) \/ SaveRemovalFault(c) \/ TellRemoved(c)

Operates(i) ==
    \/ OpAddNoc(i) \/ OpComplete(i) \/ OpUnconfirmed(i) \/ OpFail(i)
    \/ OpPersist(i) \/ OpPersistFault(i) \/ OpUnheard(i)

Next ==
    \/ Starts \/ Kill
    \/ \E c \in Conns : Commissions(c) \/ Removes(c)
    \/ \E i \in Ids : Operates(i)
    \/ \E d \in Devices : FailSafeExpires(d)

Spec == Init /\ [][Next]_vars

-----------------------------------------------------------------------------
(* Properties.                                                             *)

\* "a crash mid-commission can never reissue the same id": no operation is
\* given an id that any device, or the server imported from, was ever given,
\* over every kill, unless one fell into the import.
NeverReissued ==
    [][\A i \in Ids : op[i].at = "none" /\ op'[i].at # "none" /\ ~ halfImported
                         => i \notin issued]_vars

\* No two devices on the fabric, or about to be, have the same id.
IdsAreUnique ==
    ~ halfImported =>
        \A d, e \in Devices :
            /\ dev[d].st # "factory" /\ dev[e].st # "factory"
            /\ dev[d].id = dev[e].id
            => d = e

\* "The node is stored before the interview so a process exit mid-interview
\* leaves a node that can be re-interviewed rather than a device that is on
\* the fabric but invisible to the controller": a device on the fabric is in
\* nodes.json, or in the hands of an operation or a request that has not
\* reached the interview, or was left there because its call timed out, its
\* last answer or a save was lost, or it did not answer its removal.
NoStranger ==
    \A d \in Devices :
        dev[d].st = "on" => \/ dev[d].id \in nodesDisk \cup nodes
                            \/ InHand(d) \/ d \in lost
                            \/ ~ key \/ up = "apply"

\* When all is quiet the clients know of no node that is not there, unless
\* it was removed while its commissioning was about to announce it, or its
\* removal could not be saved.
NoGhosts ==
    (\A c \in Conns : req[c].at = "idle") => view \subseteq nodes \cup raced
=============================================================================
