----------------------------- MODULE Monitoring -----------------------------
(***************************************************************************)
(* Keeping the nodes' attributes current: the monitor thread               *)
(* (server/src/monitor.rs), the subscription registry                      *)
(* (server/src/matter/subscriptions.rs), the report handler                *)
(* (server/src/matter/reports.rs) and the node requests that touch the     *)
(* same state (server/src/api/nodes.rs).                                   *)
(*                                                                         *)
(* Three threads of the server share the node store: Mon runs the monitor  *)
(* loop, Rep is the Matter thread handling reports, Req is a connection    *)
(* thread handling one request at a time.  A step is what a thread does    *)
(* between two awaits or two lock regions.  The attributes of a node are   *)
(* one value, a counter the device increments.  A device answers a         *)
(* subscription with a priming value, then reports changes and keepalives, *)
(* one report at a time.                                                   *)
(***************************************************************************)
EXTENDS Integers, FiniteSets

CONSTANTS
    Nodes,
    MaxInterval,  \* the keepalive a device promises, in ticks
    MaxDelay,     \* ticks a report takes to a reachable server at most
    MaxChanges,   \* bound: value changes of a device
    MaxSubs,      \* bound: subscription ids a device issues
    MaxOutages,   \* bound: times a device becomes unreachable
    MaxDrops,     \* bound: times a device drops its subscription
    MaxTimeouts,  \* bound: calls of the monitor that fail with the device there
    MaxRequests,  \* bound: requests of clients
    MaxUnsaved    \* bound: requests whose save() fails

ASSUME MonitoringBounds ==
    /\ MaxInterval \in Nat \ {0} /\ MaxDelay \in 0 .. MaxInterval - 1
    /\ {MaxChanges, MaxSubs, MaxOutages, MaxDrops, MaxTimeouts, MaxRequests,
      MaxUnsaved} \subseteq Nat

VARIABLES
    \* The devices.
    val,       \* each device's attribute value
    reach,     \* whether the device and the server reach each other
    devSub,    \* the subscription id the device holds for this server, 0 if none
    lastId,    \* the last subscription id the device issued
    due,       \* ticks since the device last reported
    unsent,    \* the device has a change it has not had acknowledged
    wire,      \* the report under way: NoReport, or its id, value and age
    expelled,  \* the devices that removed this controller's fabric
    \* The server.
    present,   \* the nodes in the NodeStore
    store,     \* NodeStore: value (Unread before the first), version, availability
    reg,       \* Registry: the subscription id held with each node, 0 if none
    silence,   \* Registry: ticks since last_report, up to twice MaxInterval
    todo,      \* monitor: the nodes this pass has still to look at
    polled,    \* monitor: the keys of last_polled
    mon,       \* monitor: where it is, and what it holds across awaits
    late,      \* subscribe operations the actor still runs for a caller that left
    rep,       \* report handler: where it is
    req,       \* the request being handled
    out,       \* the events a thread has yet to publish
    view,      \* a listening client's copy of each node, Gone once removed
    bound,     \* how much of each bound is used
    \* History, for the properties.
    mine,      \* the subscription ids ever entered in the registry
    lapsed,    \* the device was unreachable since its subscription began
    crossed,   \* the value was written while another thread held an older one
    overtaken, \* the node was changed while another thread had an event of it
               \* to publish
    unannounced \* the node's last change could not be saved, and so was not
               \* announced

Unread == -1
NoReport == [id |-> 0, val |-> Unread, age |-> 0]
Gone == [val |-> Unread, version |-> 0, avail |-> FALSE]
Nothing == [kind |-> "nothing", node |-> 0, body |-> Gone]
Threads == {"Mon", "Rep", "Req"}

deviceVars == <<val, reach, devSub, lastId, due, unsent, wire, expelled>>
storeVars == <<present, store>>
regVars == <<reg, silence>>
monVars == <<todo, polled, mon>>
historyVars == <<mine, lapsed, crossed, overtaken, unannounced>>
vars == <<deviceVars, storeVars, regVars, monVars, late, rep, req, out, view,
          bound, historyVars>>

NoWork == [at |-> "idle", node |-> 0, id |-> 0, val |-> Unread]
Idle == [at |-> "idle", node |-> 0, first |-> FALSE, id |-> 0, val |-> Unread]
MonAt(d, p) == mon.at = p /\ mon.node = d
\* Mutant: silence for one interval ends a subscription.
SilentOnce(d) == silence[d] >= MaxInterval
\* Registry::is_live, and what forget_silent drops.
Silent(d) == silence[d] >= 2 * MaxInterval
Live(d) == reg[d] # 0 /\ ~ Silent(d)
AwaitingFirst(d) ==
    d \in present /\ store[d].val = Unread /\ store[d].version = 0

(* A device may still hold a subscription of an earlier run of the server  *)
(* (id 1); a node may be known or adopted and never read.                  *)
Init ==
    /\ val = [d \in Nodes |-> 0]
    /\ reach = [d \in Nodes |-> TRUE]
    /\ lastId = [d \in Nodes |-> 1]
    /\ devSub \in [Nodes -> {0, 1}]
    /\ due = [d \in Nodes |-> 0]
    /\ unsent = [d \in Nodes |-> FALSE]
    /\ wire = [d \in Nodes |-> NoReport]
    /\ present = Nodes /\ expelled = {}
    /\ \E known \in SUBSET Nodes :
          store = [d \in Nodes |->
                     IF d \in known THEN [val |-> 0, version |-> 1, avail |-> TRUE]
                                    ELSE [val |-> Unread, version |-> 0, avail |-> FALSE]]
    /\ view = store
    /\ reg = [d \in Nodes |-> 0]
    /\ silence = [d \in Nodes |-> 0]
    /\ todo = {} /\ polled = {} /\ late = {}
    /\ mon = Idle
    /\ rep = NoWork
    /\ req = NoWork
    /\ out = [t \in Threads |-> Nothing]
    /\ bound = [outages |-> 0, drops |-> 0, timeouts |-> 0, requests |-> 0,
                unsaved |-> 0]
    /\ mine = [d \in Nodes |-> {}]
    /\ lapsed = [d \in Nodes |-> FALSE]
    /\ crossed = [d \in Nodes |-> FALSE]
    /\ overtaken = [d \in Nodes |-> FALSE]
    /\ unannounced = [d \in Nodes |-> FALSE]

-----------------------------------------------------------------------------
(* The devices (external: what rs-matter and the peer do).                 *)

DeviceChange(d) ==
    /\ val[d] < MaxChanges
    /\ val' = [val EXCEPT ![d] = @ + 1]
    /\ unsent' = [unsent EXCEPT ![d] = TRUE]
    /\ UNCHANGED <<reach, devSub, lastId, due, wire, expelled, storeVars, regVars, monVars,
                   late, rep, req, out, view, bound, historyVars>>

\* A change, or the keepalive that is due: one report at a time.
DeviceReport(d) ==
    /\ devSub[d] # 0 /\ wire[d] = NoReport
    /\ unsent[d] \/ due[d] = MaxInterval
    /\ wire' = [wire EXCEPT ![d] =
                  [id |-> devSub[d], val |-> IF unsent[d] THEN val[d] ELSE Unread,
                   age |-> 0]]
    /\ unsent' = [unsent EXCEPT ![d] = FALSE]
    /\ due' = [due EXCEPT ![d] = 0]
    /\ UNCHANGED <<val, reach, devSub, lastId, expelled, storeVars, regVars,
                   monVars, late, rep, req, out, view, bound, historyVars>>

\* The device gives up on a report, and with it on the subscription; or it
\* restarts, or makes room for another controller.
DeviceDrop(d) ==
    /\ devSub[d] # 0 /\ bound.drops < MaxDrops
    /\ bound' = [bound EXCEPT !.drops = @ + 1]
    /\ devSub' = [devSub EXCEPT ![d] = 0]
    /\ wire' = [wire EXCEPT ![d] = NoReport]
    /\ UNCHANGED <<val, reach, lastId, due, unsent, expelled, storeVars, regVars,
                   monVars, late, rep, req, out, view, historyVars>>

Outage(d) ==
    /\ reach[d] /\ bound.outages < MaxOutages
    /\ bound' = [bound EXCEPT !.outages = @ + 1]
    /\ reach' = [reach EXCEPT ![d] = FALSE]
    /\ lapsed' = [lapsed EXCEPT ![d] = TRUE]
    /\ UNCHANGED <<val, devSub, lastId, due, unsent, wire, expelled, storeVars,
                   regVars, monVars, late, rep, req, out, view, mine, crossed,
                   overtaken, unannounced>>

Return(d) ==
    /\ ~ reach[d] /\ d \notin expelled
    /\ reach' = [reach EXCEPT ![d] = TRUE]
    /\ UNCHANGED <<val, devSub, lastId, due, unsent, wire, expelled, storeVars,
                   regVars, monVars, late, rep, req, out, view, bound, historyVars>>

\* The device accepts a subscription: keep_subs(false) replaces the one it
\* holds, and the priming report carries everything that was unsent.
Accept(d) ==
    /\ reach[d] /\ lastId[d] < MaxSubs
    /\ lastId' = [lastId EXCEPT ![d] = @ + 1]
    /\ devSub' = [devSub EXCEPT ![d] = lastId'[d]]
    /\ due' = [due EXCEPT ![d] = 0]
    /\ unsent' = [unsent EXCEPT ![d] = FALSE]
    /\ lapsed' = [lapsed EXCEPT ![d] = FALSE]
    /\ UNCHANGED <<val, reach, wire, expelled>>

\* Time passes: no reachable device lets its keepalive or a report under way
\* run over.
Tick ==
    /\ \A d \in Nodes : reach[d] =>
          /\ devSub[d] # 0 /\ wire[d] = NoReport => due[d] < MaxInterval
          /\ wire[d] # NoReport => wire[d].age < MaxDelay
    /\ due' = [d \in Nodes |-> IF devSub[d] # 0 /\ due[d] < MaxInterval
                               THEN due[d] + 1 ELSE due[d]]
    /\ wire' = [d \in Nodes |-> IF wire[d] # NoReport /\ wire[d].age < MaxDelay
                                THEN [wire[d] EXCEPT !.age = @ + 1] ELSE wire[d]]
    /\ silence' = [d \in Nodes |-> IF reg[d] # 0 /\ ~ Silent(d)
                                   THEN silence[d] + 1 ELSE silence[d]]
    /\ UNCHANGED <<val, reach, devSub, lastId, unsent, expelled, storeVars, reg,
                   monVars, late, rep, req, out, view, bound, historyVars>>

-----------------------------------------------------------------------------
(* Writing the store and publishing.  The store is written under its lock; *)
(* the events go out afterwards, by the same thread, in a step of its own. *)

\* A value arrives that was read before the one the store holds.
Cross(d, v) ==
    crossed' = [crossed EXCEPT ![d] =
                  @ \/ (d \in present /\ v # Unread /\ v < store[d].val)]

\* The event thread t goes on to publish about the change it made.  It has
\* the whole node, earlier changes that were not announced included.
Emit(t, kind, d) ==
    /\ out' = [out EXCEPT ![t] = [kind |-> kind, node |-> d, body |-> store'[d]]]
    /\ overtaken' = [overtaken EXCEPT ![d] =
                       @ \/ \E u \in Threads \ {t} : out[u].node = d]
    /\ unannounced' = [unannounced EXCEPT ![d] = FALSE]

\* save() fails after a request has changed the store: it returns the error
\* before it publishes anything, and the change stays in memory.
Withhold(d) ==
    /\ bound.unsaved < MaxUnsaved
    /\ bound' = [bound EXCEPT !.unsaved = @ + 1]
    /\ unannounced' = [unannounced EXCEPT ![d] = TRUE]
    /\ UNCHANGED <<out, overtaken>>

\* Mutant: the node's entry is created when it is missing.
MergeCreates(t, d, v) ==
    /\ Cross(d, v)
    /\ IF v # Unread /\ store[d].val # v
       THEN /\ store' = [store EXCEPT ![d].val = v]
            /\ Emit(t, "updated", d)
       ELSE UNCHANGED <<store, out, overtaken, unannounced>>

\* publish_changes / merge_attributes: nothing for a node that is gone, no
\* event when nothing changed.
Merge(t, d, v) ==
    /\ Cross(d, v)
    /\ IF d \in present /\ v # Unread /\ store[d].val # v
       THEN /\ store' = [store EXCEPT ![d].val = v]
            /\ Emit(t, "updated", d)
       ELSE UNCHANGED <<store, out, overtaken, unannounced>>

\* NodeStore::apply_interview, of a node that is there.
Interviewed(d, v) ==
    store' = [store EXCEPT ![d] =
                [val |-> v, version |-> store[d].version + 1, avail |-> TRUE]]

\* publish_first_interview, which only logs a failing save, and interview_node
\* when its save succeeds.
Interview(t, d, v) ==
    /\ Cross(d, v)
    /\ IF d \in present
       THEN Interviewed(d, v) /\ Emit(t, "updated", d)
       ELSE UNCHANGED <<store, out, overtaken, unannounced>>

\* Mutant: the change of availability is not announced.
MarkAvailableSilent(t, d, available) ==
    /\ store' = IF d \in present THEN [store EXCEPT ![d].avail = available] ELSE store
    /\ UNCHANGED <<out, overtaken, unannounced>>

\* mark_available and the availability part of ping_node.
MarkAvailable(t, d, available) ==
    IF d \in present /\ store[d].avail # available
    THEN /\ store' = [store EXCEPT ![d].avail = available]
         /\ Emit(t, "updated", d)
    ELSE UNCHANGED <<store, out, overtaken, unannounced>>

Publish(t) ==
    /\ out[t] # Nothing
    /\ view' = [view EXCEPT ![out[t].node] = out[t].body]
    /\ out' = [out EXCEPT ![t] = Nothing]
    /\ UNCHANGED <<deviceVars, storeVars, regVars, monVars, late, rep, req, bound,
                   historyVars>>

-----------------------------------------------------------------------------
(* The monitor loop.                                                       *)

\* The top of a pass: forget_silent, then the list of nodes.
MonPass ==
    /\ mon = Idle /\ todo = {} /\ out["Mon"] = Nothing
    /\ reg' = [d \in Nodes |-> IF Silent(d) THEN 0 ELSE reg[d]]
    /\ silence' = [d \in Nodes |-> IF Silent(d) THEN 0 ELSE silence[d]]
    /\ todo' = present
    /\ polled' = polled \cap present
    /\ UNCHANGED <<deviceVars, storeVars, mon, late, rep, req, out, view, bound,
                   historyVars>>

\* A node that reports for itself, or was looked at too recently, is skipped.
MonSkip(d) ==
    /\ mon = Idle /\ out["Mon"] = Nothing /\ d \in todo
    /\ Live(d) \/ d \in polled
    /\ todo' = todo \ {d}
    /\ UNCHANGED <<deviceVars, storeVars, regVars, polled, mon, late, rep, req,
                   out, view, bound, historyVars>>

\* maintain_node up to its first await.
MonVisit(d) ==
    /\ mon = Idle /\ out["Mon"] = Nothing /\ d \in todo /\ ~ Live(d)
    /\ todo' = todo \ {d}
    /\ polled' = polled \cup {d}
    /\ mon' = [at |-> "subscribing", node |-> d, first |-> AwaitingFirst(d),
               id |-> 0, val |-> Unread]
    /\ UNCHANGED <<deviceVars, storeVars, regVars, late, rep, req, out, view,
                   bound, historyVars>>

\* The device confirms; its answer is on the way to the monitor thread.
SubscribeConfirmed(d) ==
    /\ MonAt(d, "subscribing") /\ Accept(d)
    /\ mon' = [mon EXCEPT !.at = "confirmed", !.id = lastId'[d], !.val = val[d]]
    /\ UNCHANGED <<storeVars, regVars, todo, polled, late, rep, req, out, view,
                   bound, mine, crossed, overtaken, unannounced>>

\* Mutant: an unreachable node is left as it was.
SubscribeUnreachableIgnored(d) ==
    /\ MonAt(d, "subscribing") /\ ~ reach[d]
    /\ mon' = Idle
    /\ UNCHANGED <<deviceVars, storeVars, regVars, todo, polled, late, rep, req,
                   out, view, bound, historyVars>>

\* node_not_resolving / node_not_ready: mark the node and leave.
SubscribeUnreachable(d) ==
    /\ MonAt(d, "subscribing") /\ ~ reach[d]
    /\ mon' = [mon EXCEPT !.at = "down"]
    /\ UNCHANGED <<deviceVars, storeVars, regVars, todo, polled, late, rep, req,
                   out, view, bound, historyVars>>

\* Mutant: no fallback to polling.
SubscribeRefusedForGood(d) ==
    /\ MonAt(d, "subscribing") /\ reach[d]
    /\ mon' = Idle
    /\ UNCHANGED <<deviceVars, storeVars, regVars, todo, polled, late, rep, req,
                   out, view, bound, historyVars>>

\* The device answers and declines: poll it.  poll_node looks at the store
\* again before its own await.
SubscribeRefused(d) ==
    /\ MonAt(d, "subscribing") /\ reach[d]
    /\ mon' = [mon EXCEPT !.at = "poll", !.first = AwaitingFirst(d)]
    /\ UNCHANGED <<deviceVars, storeVars, regVars, todo, polled, late, rep, req,
                   out, view, bound, historyVars>>

\* The call times out, which is not "unreachable": poll.  The actor still runs
\* the operation, and the device may accept it later.
SubscribeTimeout(d) ==
    /\ MonAt(d, "subscribing") /\ bound.timeouts < MaxTimeouts
    /\ bound' = [bound EXCEPT !.timeouts = @ + 1]
    /\ late' = late \cup {d}
    /\ mon' = [mon EXCEPT !.at = "poll", !.first = AwaitingFirst(d)]
    /\ UNCHANGED <<deviceVars, storeVars, regVars, todo, polled, rep, req, out,
                   view, historyVars>>

\* Nobody is left to be told of it.
LateSubscribe(d) ==
    /\ d \in late /\ Accept(d)
    /\ late' = late \ {d}
    /\ UNCHANGED <<storeVars, regVars, monVars, rep, req, out, view, bound,
                   mine, crossed, overtaken, unannounced>>

\* Registry::established.
MonEstablished(d) ==
    /\ MonAt(d, "confirmed")
    /\ reg' = [reg EXCEPT ![d] = mon.id]
    /\ silence' = [silence EXCEPT ![d] = 0]
    /\ mon' = [mon EXCEPT !.at = "priming"]
    /\ mine' = [mine EXCEPT ![d] = @ \cup {mon.id}]
    /\ UNCHANGED <<deviceVars, storeVars, todo, polled, late, rep, req, out, view,
                   bound, lapsed, crossed, overtaken, unannounced>>

\* Mutant: only a first read is published.
MonApplyFirstOnly(d) ==
    /\ MonAt(d, "priming") \/ MonAt(d, "read")
    /\ IF mon.first THEN Interview("Mon", d, mon.val)
                    ELSE UNCHANGED <<store, out, crossed, overtaken, unannounced>>
    /\ mon' = [mon EXCEPT !.at = "up"]
    /\ UNCHANGED <<deviceVars, present, regVars, todo, polled, late, rep, req,
                   view, bound, mine, lapsed>>

\* The value in hand, from the priming report or the poll: an interview if the
\* node was unread when the operation began, a change otherwise.
MonApply(d) ==
    /\ MonAt(d, "priming") \/ MonAt(d, "read")
    /\ IF mon.first THEN Interview("Mon", d, mon.val) ELSE Merge("Mon", d, mon.val)
    /\ mon' = [mon EXCEPT !.at = "up"]
    /\ UNCHANGED <<deviceVars, present, regVars, todo, polled, late, rep, req,
                   view, bound, mine, lapsed>>

MonPollAnswered(d) ==
    /\ MonAt(d, "poll") /\ reach[d]
    /\ mon' = [mon EXCEPT !.at = "read", !.val = val[d]]
    /\ UNCHANGED <<deviceVars, storeVars, regVars, todo, polled, late, rep, req,
                   out, view, bound, historyVars>>

\* Any error of the read, of a device that is there too.
MonPollFailed(d) ==
    /\ MonAt(d, "poll")
    /\ IF reach[d]
       THEN /\ bound.timeouts < MaxTimeouts
            /\ bound' = [bound EXCEPT !.timeouts = @ + 1]
       ELSE UNCHANGED bound
    /\ mon' = [mon EXCEPT !.at = "down"]
    /\ UNCHANGED <<deviceVars, storeVars, regVars, todo, polled, late, rep, req,
                   out, view, historyVars>>

\* mark_available, the last thing maintain_node does.
MonMark(d) ==
    /\ MonAt(d, "up") \/ MonAt(d, "down")
    /\ out["Mon"] = Nothing
    /\ MarkAvailable("Mon", d, mon.at = "up")
    /\ mon' = Idle
    /\ UNCHANGED <<deviceVars, present, regVars, todo, polled, late, rep, req,
                   view, bound, mine, lapsed, crossed>>

-----------------------------------------------------------------------------
(* The report handler.                                                     *)

\* Mutant: the node alone identifies a subscription.
AcceptsAnyId(d, id) == reg[d] # 0

\* Registry::accepts, and with it verdict(): the pair of node and id.
Accepts(d, id) == reg[d] # 0 /\ reg[d] = id

\* A report for a subscription this server holds: note it, then publish it.
ReportAccepted(d) ==
    /\ rep.at = "idle" /\ out["Rep"] = Nothing
    /\ reach[d] /\ wire[d] # NoReport
    /\ Accepts(d, wire[d].id)
    /\ silence' = [silence EXCEPT ![d] = 0]
    /\ rep' = [at |-> "accepted", node |-> d, id |-> wire[d].id, val |-> wire[d].val]
    /\ wire' = [wire EXCEPT ![d] = NoReport]
    /\ UNCHANGED <<val, reach, devSub, lastId, due, unsent, expelled, storeVars,
                   reg, monVars, late, req, out, view, bound, historyVars>>

\* InvalidSubscription: the device drops the subscription it reported on.
ReportDisowned(d) ==
    /\ rep.at = "idle" /\ out["Rep"] = Nothing
    /\ reach[d] /\ wire[d] # NoReport
    /\ ~ Accepts(d, wire[d].id)
    /\ devSub' = [devSub EXCEPT ![d] = IF @ = wire[d].id THEN 0 ELSE @]
    /\ wire' = [wire EXCEPT ![d] = NoReport]
    /\ UNCHANGED <<val, reach, lastId, due, unsent, expelled, storeVars, regVars,
                   monVars, late, rep, req, out, view, bound, historyVars>>

ReportApplied ==
    /\ rep.at = "accepted"
    /\ Merge("Rep", rep.node, rep.val)
    /\ rep' = NoWork
    /\ UNCHANGED <<deviceVars, present, regVars, monVars, late, req, view, bound,
                   mine, lapsed>>

\* The report does not decode: the device is answered Failure and ends the
\* subscription; the registry has already noted the report.
ReportUndecodable ==
    /\ rep.at = "accepted" /\ bound.drops < MaxDrops
    /\ bound' = [bound EXCEPT !.drops = @ + 1]
    /\ devSub' = [devSub EXCEPT ![rep.node] = IF @ = rep.id THEN 0 ELSE @]
    /\ rep' = NoWork
    /\ UNCHANGED <<val, reach, lastId, due, unsent, wire, expelled, storeVars,
                   regVars, monVars, late, req, out, view, historyVars>>

-----------------------------------------------------------------------------
(* Requests: remove_node, interview_node, ping_node.                       *)

Request(d, op) ==
    /\ req.at = "idle" /\ out["Req"] = Nothing /\ bound.requests < MaxRequests
    /\ d \in present
    /\ bound' = [bound EXCEPT !.requests = @ + 1]
    /\ req' = [at |-> op, node |-> d, id |-> 0, val |-> Unread]
    /\ UNCHANGED <<deviceVars, storeVars, regVars, monVars, late, rep, out, view,
                   historyVars>>

\* remove_our_fabric: best effort.  A device that is reached drops what it
\* holds for this fabric and answers no more.
RemoveFabric ==
    /\ req.at = "removing"
    /\ IF reach[req.node]
       THEN /\ devSub' = [devSub EXCEPT ![req.node] = 0]
            /\ wire' = [wire EXCEPT ![req.node] = NoReport]
            /\ reach' = [reach EXCEPT ![req.node] = FALSE]
            /\ lapsed' = [lapsed EXCEPT ![req.node] = TRUE]
            /\ expelled' = expelled \cup {req.node}
       ELSE UNCHANGED <<devSub, wire, reach, lapsed, expelled>>
    /\ req' = [req EXCEPT !.at = "forgetting"]
    /\ UNCHANGED <<val, lastId, due, unsent, storeVars, regVars, monVars, late,
                   rep, out, view, bound, mine, crossed, overtaken, unannounced>>

\* The rest of remove_node: the store, the file, then node_removed.
RemoveNode ==
    /\ req.at = "forgetting"
    /\ present' = present \ {req.node}
    /\ store' = [store EXCEPT ![req.node] = Gone]
    /\ \/ Emit("Req", "removed", req.node) /\ UNCHANGED bound
       \/ Withhold(req.node)
    /\ req' = NoWork
    /\ UNCHANGED <<deviceVars, regVars, monVars, late, rep, view, mine, lapsed,
                   crossed>>

InterviewRead ==
    /\ req.at = "interviewing"
    /\ req' = IF reach[req.node]
              THEN [req EXCEPT !.at = "read", !.val = val[req.node]]
              ELSE NoWork
    /\ UNCHANGED <<deviceVars, storeVars, regVars, monVars, late, rep, out, view,
                   bound, historyVars>>

\* An interview whose save() fails.
InterviewUnsaved(d, v) ==
    /\ d \in present
    /\ Cross(d, v)
    /\ Interviewed(d, v)
    /\ Withhold(d)

InterviewApply ==
    /\ req.at = "read"
    /\ \/ Interview("Req", req.node, req.val) /\ UNCHANGED bound
       \/ InterviewUnsaved(req.node, req.val)
    /\ req' = NoWork
    /\ UNCHANGED <<deviceVars, present, regVars, monVars, late, rep, view, mine,
                   lapsed>>

\* The last attempt of the ping ends: only a device that is reached answers.
PingEnds ==
    /\ req.at = "pinging"
    /\ \E answered \in BOOLEAN :
          /\ answered => reach[req.node]
          /\ req' = [req EXCEPT !.at = IF answered THEN "answered" ELSE "unanswered"]
    /\ UNCHANGED <<deviceVars, storeVars, regVars, monVars, late, rep, out, view,
                   bound, historyVars>>

\* Availability follows the ping.
PingNode ==
    /\ req.at \in {"answered", "unanswered"}
    /\ MarkAvailable("Req", req.node, req.at = "answered")
    /\ req' = NoWork
    /\ UNCHANGED <<deviceVars, present, regVars, monVars, late, rep, view, bound,
                   mine, lapsed, crossed>>

-----------------------------------------------------------------------------
Device(d) ==
    \/ DeviceChange(d) \/ DeviceReport(d) \/ DeviceDrop(d) \/ Outage(d) \/ Return(d)

\* The steps of maintain_node and poll_node, each after the await before it.
Maintain(d) ==
    \/ SubscribeConfirmed(d) \/ SubscribeUnreachable(d) \/ SubscribeRefused(d)
    \/ SubscribeTimeout(d) \/ MonEstablished(d) \/ MonApply(d)
    \/ MonPollAnswered(d) \/ MonPollFailed(d) \/ MonMark(d)

Report(d) == ReportAccepted(d) \/ ReportDisowned(d)

Requests ==
    \/ \E d \in Nodes, op \in {"removing", "interviewing", "pinging"} : Request(d, op)
    \/ RemoveFabric \/ RemoveNode \/ InterviewRead \/ InterviewApply
    \/ PingEnds \/ PingNode

Next ==
    \/ \E d \in Nodes : \/ Device(d) \/ MonSkip(d) \/ MonVisit(d) \/ Maintain(d)
                        \/ LateSubscribe(d) \/ Report(d)
    \/ MonPass \/ ReportApplied \/ ReportUndecodable \/ Requests \/ Tick
    \/ \E t \in Threads : Publish(t)

Spec == Init /\ [][Next]_vars

(* The threads run, time passes, a report under way arrives, a subscribing *)
(* device reports.  A node that is not skipped for ever comes due (strong  *)
(* fairness of MonVisit: last_polled only puts it off by an interval).     *)
Fairness ==
    /\ \A d \in Nodes : /\ WF_vars(DeviceReport(d)) /\ WF_vars(Report(d))
                        /\ WF_vars(Maintain(d)) /\ SF_vars(MonVisit(d))
                        /\ WF_vars(MonSkip(d))
    /\ \A t \in Threads : WF_vars(Publish(t))
    /\ WF_vars(MonPass) /\ WF_vars(ReportApplied) /\ WF_vars(Tick)
    /\ WF_vars(\/ RemoveFabric \/ RemoveNode \/ InterviewRead \/ InterviewApply
               \/ PingEnds \/ PingNode)

FairSpec == Spec /\ Fairness

-----------------------------------------------------------------------------
(* Properties.                                                             *)

\* Only reports on a subscription this server entered in its registry for
\* that node are applied: one that a device still holds from an earlier run,
\* or that a timed-out subscribe left behind, never reaches the store.
ReportsAreOurs ==
    rep.at = "accepted" => rep.id \in mine[rep.node]

\* forget_silent never forgets a subscription the device still holds and has
\* been able to report on: a keepalive sent at the interval and delayed by a
\* slow network is not silence.
NoFalseSilence ==
    [][\A d \in Nodes : reg[d] # 0 /\ reg'[d] = 0 /\ devSub[d] = reg[d]
                           => lapsed[d]]_vars

\* Nothing that is still under way for a node brings it back once it is
\* removed: no report, priming report, poll, interview or ping.
GoneStaysGone ==
    \A d \in Nodes \ present : store[d] = Gone

Quiet(d) ==
    /\ wire[d] = NoReport /\ ~ unsent[d]
    /\ ~ (rep.at = "accepted" /\ rep.node = d)
    /\ mon.node # d

\* A node under subscription is current whenever nothing about it is under
\* way, unless some thread wrote a value over a newer one.
SubscribedIsCurrent ==
    \A d \in present :
        Quiet(d) /\ devSub[d] # 0 /\ reg[d] = devSub[d] /\ ~ crossed[d]
            => store[d].val = val[d]

\* "The event fan-out is what makes a client's cached view converge without a
\* full refetch": with every event published, a listening client has what the
\* store has, unless one thread's event was overtaken by another's change of
\* the same node, or the node's last change is one of a remove_node or
\* interview_node that could not save it.  The store is changed under its lock
\* and the event published after it, so nothing keeps the two in the same
\* order; and both requests leave before the event when save() fails.
ViewConverges ==
    (\A t \in Threads : out[t] = Nothing) =>
        \A d \in Nodes : view[d] = store[d] \/ overtaken[d] \/ unannounced[d]

\* Whatever is lost, refused, timed out or disowned on the way, the store
\* comes to hold the value of a device that stays reachable, unless a value
\* was written over a newer one.
EventuallyCurrent ==
    \A d \in Nodes :
        <>[](reach[d]) => <>[](d \notin present \/ crossed[d] \/ store[d].val = val[d])

\* A device that stays unreachable is eventually marked unavailable for good,
\* even if its subscription looked live when it disappeared.
EventuallyUnavailable ==
    \A d \in Nodes :
        <>[](~ reach[d]) => <>[](d \notin present \/ ~ store[d].avail)

-----------------------------------------------------------------------------
(* What the comments of the code say.                                      *)

\* "Reporting already? Nothing to do.  The device is pushing changes and
\* reports is turning them into events": a subscribed node is current.
ReportingIsCurrent ==
    \A d \in present :
        Quiet(d) /\ devSub[d] # 0 /\ reg[d] = devSub[d] => store[d].val = val[d]
=============================================================================
