------------------------------ MODULE EventBus ------------------------------
(***************************************************************************)
(* The event fan-out (EventBus, server/src/api/mod.rs), the connections    *)
(* that listen to it (serve_websocket, server/src/ws/connection.rs), the   *)
(* topology watcher that both listens and publishes (watch,                *)
(* server/src/api/network.rs) and the shutdown of the server               *)
(* (run, server/src/ws/mod.rs).                                            *)
(*                                                                         *)
(* The node store and the server's identity are versions.  An event is its *)
(* kind, the version it announces and its place in the order of            *)
(* publication.  A connection's awaits are the boundaries of its steps:    *)
(* websocket.send, and the wait for a frame or an event.                   *)
(***************************************************************************)
EXTENDS Integers, Sequences

CONSTANTS
    Conns,         \* connection ids; each is used once
    Watcher,       \* the topology watcher
    Publishers,    \* threads that change the store or the identity and publish
    Kinds,         \* the kinds of change the publishers make
    Commands,      \* the commands the clients send
    Capacity,      \* the bound of a subscriber's channel (256 in the code)
    MaxChanges,    \* bound: changes the publishers make
    MaxRefreshes   \* bound: get_network_topology with refresh

ASSUME EventBusAssumption ==
    /\ Watcher \notin Conns
    /\ Capacity \in Nat \ {0}
    /\ MaxChanges \in Nat /\ MaxRefreshes \in Nat
    /\ Kinds \subseteq {"node", "attribute", "info", "diagnostics"}
    /\ Commands \subseteq {"start_listening", "get_network_topology",
                           "refresh", "get_thread_diagnostics"}

Subs == Conns \cup {Watcher}
EventKinds == {"node", "attribute", "info", "diagnostics", "topology", "shutdown"}
Events == [kind : EventKinds, ver : Nat, no : Nat]
None == [kind |-> "none", ver |-> 0, no |-> 0]
Nothing == [nodes |-> 0, info |-> 0]

VARIABLES
    up,           \* the process: "up", "stopping", "exited"
    nodes,        \* the version of the node store
    info,         \* the version of the server's identity
    out,          \* the change each publisher has applied and not published
    queue,        \* each subscriber's channel
    subscribers,  \* EventBus.subscribers: the senders
    conn,         \* "new", "greeting", "open", "busy", "sending", "closed"
    opted,        \* EventSubscriptions: what each connection opted into
    hand,         \* the response or event each connection is sending
    watch,        \* "start", "recv", "drain", "build", "publish", "ended"
    built,        \* the graph the watcher has in hand
    shape,        \* the graph it published last, 0 before the first
    changes, refreshes,  \* how much of the bounds is used
    \* What the clients have, and history for the properties:
    view,         \* the store and the identity as each client knows them
    told,         \* the clients that were sent server_shutdown
    total,        \* how many events were published
    taken,        \* the number of the last event each subscriber took
    cutAt,        \* the last event a subscriber dropped by the bus can take
    announced     \* the version of the store that was announced last, by any
                  \* event and by one that names a node

changeVars == <<nodes, info, out, changes>>
busVars == <<queue, subscribers, total, cutAt>>
connVars == <<conn, opted, hand, view, told>>
watchVars == <<watch, built, shape>>
vars == <<up, refreshes, taken, announced, changeVars, busVars, connVars, watchVars>>

Phases == {"new", "greeting", "open", "busy", "sending", "closed"}

TypeOK ==
    /\ up \in {"up", "stopping", "exited"}
    /\ nodes \in Nat /\ info \in Nat
    /\ out \in [Publishers -> [kind : Kinds, ver : Nat, no : {0}] \cup {None}]
    /\ queue \in [Subs -> Seq(Events)]
    /\ \A s \in Subs : Len(queue[s]) <= Capacity
    /\ subscribers \subseteq Subs
    /\ conn \in [Conns -> Phases]
    /\ opted \in [Conns -> SUBSET {"listening", "topology", "diagnostics"}]
    /\ hand \in [Conns -> Events \cup {None}
                          \cup [kind : {"snapshot"}, ver : Nat, no : {0}]]
    /\ watch \in {"start", "recv", "drain", "build", "publish", "ended"}
    /\ built \in Nat /\ shape \in Nat
    /\ changes \in Nat /\ refreshes \in Nat
    /\ view \in [Conns -> [nodes : Nat, info : Nat]]
    /\ told \subseteq Conns
    /\ total \in Nat
    /\ taken \in [Subs -> Nat] /\ cutAt \in [Subs -> Nat]
    /\ announced \in [any : Nat, node : Nat]

\* The store holds something when the first client comes.
Init ==
    /\ up = "up" /\ nodes = 1 /\ info = 1
    /\ out = [p \in Publishers |-> None]
    /\ queue = [s \in Subs |-> <<>>]
    /\ subscribers = {}
    /\ conn = [c \in Conns |-> "new"]
    /\ opted = [c \in Conns |-> {}]
    /\ hand = [c \in Conns |-> None]
    /\ watch = "start" /\ built = 0 /\ shape = 0
    /\ changes = 0 /\ refreshes = 0
    /\ view = [c \in Conns |-> Nothing]
    /\ told = {}
    /\ total = 0
    /\ taken = [s \in Subs |-> 0]
    /\ cutAt = [s \in Subs |-> 0]
    /\ announced = [any |-> 0, node |-> 0]

-----------------------------------------------------------------------------
(* EventBus.                                                               *)

\* The receiving end exists.
Receiving(s) == IF s = Watcher THEN watch # "ended"
                ELSE conn[s] \in {"greeting", "open", "busy", "sending"}

\* subscribe(): a fresh bounded channel.
Subscribe(s) ==
    /\ subscribers' = subscribers \cup {s}
    /\ queue' = [queue EXCEPT ![s] = <<>>]
    /\ taken' = [taken EXCEPT ![s] = total]
    /\ UNCHANGED <<total, cutAt>>

\* Whose try_send succeeds.
Keeps(s) == s \in subscribers /\ Receiving(s) /\ Len(queue[s]) < Capacity

Announced(kind, ver) ==
    [any |-> IF kind \in {"node", "attribute"} THEN ver ELSE announced.any,
     node |-> IF kind = "node" THEN ver ELSE announced.node]

\* Mutant: a full channel misses the event and stays subscribed.
PublishSkipping(kind, ver) ==
    LET event == [kind |-> kind, ver |-> ver, no |-> total + 1]
    IN  /\ subscribers' = {s \in subscribers : Receiving(s)}
        /\ queue' = [s \in Subs |-> IF Keeps(s) THEN Append(queue[s], event) ELSE queue[s]]
        /\ cutAt' = cutAt
        /\ total' = total + 1
        /\ announced' = Announced(kind, ver)

\* publish(): under the lock, every sender takes the event or is dropped.
Publish(kind, ver) ==
    LET event == [kind |-> kind, ver |-> ver, no |-> total + 1]
    IN  /\ subscribers' = {s \in subscribers : Keeps(s)}
        /\ queue' = [s \in Subs |-> IF Keeps(s) THEN Append(queue[s], event) ELSE queue[s]]
        /\ cutAt' = [s \in Subs |-> IF s \in subscribers /\ Receiving(s) /\ ~ Keeps(s)
                                 THEN total ELSE cutAt[s]]
        /\ total' = total + 1
        /\ announced' = Announced(kind, ver)

\* recv(): the queued events first, whether or not the sender is still there.
Recv(s) ==
    /\ queue[s] # <<>>
    /\ queue' = [queue EXCEPT ![s] = Tail(@)]
    /\ taken' = [taken EXCEPT ![s] = Head(queue[s]).no]
    /\ UNCHANGED <<subscribers, total, cutAt>>

\* recv() fails: nothing queued and no sender.
Closed(s) == queue[s] = <<>> /\ s \notin subscribers

-----------------------------------------------------------------------------
(* The publishers: monitor, report handler, request handlers.  Each        *)
(* changes the state and announces the change afterwards, unlocked.        *)

Apply(p, kind) ==
    /\ up # "exited" /\ out[p] = None /\ changes < MaxChanges
    /\ changes' = changes + 1
    /\ nodes' = IF kind \in {"node", "attribute"} THEN nodes + 1 ELSE nodes
    /\ info' = IF kind = "info" THEN info + 1 ELSE info
    /\ out' = [out EXCEPT ![p] = [kind |-> kind, no |-> 0,
                 ver |-> IF kind = "info" THEN info' ELSE nodes']]
    /\ UNCHANGED <<up, refreshes, taken, announced, busVars, connVars, watchVars>>

Announce(p) ==
    /\ up # "exited" /\ out[p] # None
    /\ Publish(out[p].kind, out[p].ver)
    /\ out' = [out EXCEPT ![p] = None]
    /\ UNCHANGED <<up, refreshes, taken, nodes, info, changes, connVars, watchVars>>

-----------------------------------------------------------------------------
(* serve_websocket.                                                        *)

\* The handshake is done: subscribe, then greet.
Connect(c) ==
    /\ up = "up" /\ conn[c] = "new"
    /\ Subscribe(c)
    /\ conn' = [conn EXCEPT ![c] = "greeting"]
    /\ UNCHANGED <<up, refreshes, announced, changeVars, opted, hand, view, told,
                   watchVars>>

\* The unsolicited server_info.
Greet(c) ==
    /\ up # "exited" /\ conn[c] = "greeting"
    /\ view' = [view EXCEPT ![c].info = info]
    /\ conn' = [conn EXCEPT ![c] = "open"]
    /\ UNCHANGED <<up, refreshes, taken, announced, changeVars, busVars, opted,
                   hand, told, watchVars>>

\* observe_command.
OptsInto(cmd) ==
    CASE cmd = "start_listening" -> "listening"
      [] cmd = "get_thread_diagnostics" -> "diagnostics"
      [] OTHER -> "topology"

\* What the handler answers: the node list, or what no property looks at.
Response(cmd) ==
    IF cmd = "start_listening" THEN [kind |-> "snapshot", ver |-> nodes, no |-> 0] ELSE None

\* handle_request: the opt-in latches, then the handler runs.  "refresh" is
\* get_network_topology with refresh: refresh_diagnostics first writes what the
\* nodes answer into the store, and set_attribute publishes nothing.
Command(c, cmd) ==
    /\ up # "exited" /\ conn[c] = "open"
    /\ opted' = [opted EXCEPT ![c] = @ \cup {OptsInto(cmd)}]
    /\ IF cmd = "refresh"
       THEN refreshes < MaxRefreshes /\ refreshes' = refreshes + 1 /\ nodes' = nodes + 1
       ELSE UNCHANGED <<refreshes, nodes>>
    /\ hand' = [hand EXCEPT ![c] = Response(cmd)]
    /\ conn' = [conn EXCEPT ![c] = "busy"]
    /\ UNCHANGED <<up, taken, announced, info, out, changes, busVars, view, told,
                   watchVars>>

\* Mutant: what queued up while the request ran is taken to be in the response.
ReplyDraining(c) ==
    /\ up # "exited" /\ conn[c] = "busy"
    /\ view' = IF hand[c].kind = "snapshot"
               THEN [view EXCEPT ![c].nodes = hand[c].ver] ELSE view
    /\ hand' = [hand EXCEPT ![c] = None]
    /\ conn' = [conn EXCEPT ![c] = "open"]
    /\ queue' = [queue EXCEPT ![c] = <<>>]
    /\ UNCHANGED <<up, refreshes, taken, announced, changeVars, subscribers, total,
                   cutAt, opted, told, watchVars>>

\* The response is sent, however long the request took.
Reply(c) ==
    /\ up # "exited" /\ conn[c] = "busy"
    /\ view' = IF hand[c].kind = "snapshot"
               THEN [view EXCEPT ![c].nodes = hand[c].ver] ELSE view
    /\ hand' = [hand EXCEPT ![c] = None]
    /\ conn' = [conn EXCEPT ![c] = "open"]
    /\ UNCHANGED <<up, refreshes, taken, announced, changeVars, busVars, opted, told,
                   watchVars>>

\* Mutant: the base stream is what announces a change of the store.
AcceptsChanges(c, kind) ==
    /\ "listening" \in opted[c]
    /\ kind \notin {"node", "attribute", "info"} => kind \in opted[c]

\* EventSubscriptions::accepts.
Accepts(c, kind) ==
    /\ "listening" \in opted[c]
    /\ kind \in {"topology", "diagnostics"} => kind \in opted[c]

\* An event that is not for this client is dropped, any other is sent.
TakeEvent(c) ==
    /\ up # "exited" /\ conn[c] = "open"
    /\ Recv(c)
    /\ IF Accepts(c, Head(queue[c]).kind)
       THEN /\ hand' = [hand EXCEPT ![c] = Head(queue[c])]
            /\ conn' = [conn EXCEPT ![c] = "sending"]
       ELSE UNCHANGED <<hand, conn>>
    /\ UNCHANGED <<up, refreshes, announced, changeVars, opted, view, told, watchVars>>

\* websocket.send of an event completes; a client that stops reading puts
\* this off for as long as it likes.
SendEvent(c) ==
    /\ up # "exited" /\ conn[c] = "sending"
    /\ view' = [view EXCEPT ![c] =
                  CASE hand[c].kind \in {"node", "attribute"} -> [@ EXCEPT !.nodes = hand[c].ver]
                    [] hand[c].kind = "info" -> [@ EXCEPT !.info = hand[c].ver]
                    [] OTHER -> @]
    /\ told' = IF hand[c].kind = "shutdown" THEN told \cup {c} ELSE told
    /\ hand' = [hand EXCEPT ![c] = None]
    /\ conn' = [conn EXCEPT ![c] = "open"]
    /\ UNCHANGED <<up, refreshes, taken, announced, changeVars, busVars, opted,
                   watchVars>>

\* serve_websocket returns and drops its receiver and what is queued.  The
\* sender stays in the bus until the next publication finds it disconnected.
Close(c) ==
    /\ conn' = [conn EXCEPT ![c] = "closed"]
    /\ queue' = [queue EXCEPT ![c] = <<>>]
    /\ opted' = [opted EXCEPT ![c] = {}]
    /\ hand' = [hand EXCEPT ![c] = None]
    /\ view' = [view EXCEPT ![c] = Nothing]
    /\ UNCHANGED <<up, refreshes, taken, announced, changeVars, subscribers, total,
                   cutAt, told, watchVars>>

\* Mutant: a failed recv is ignored and the connection kept.
DropStaleIgnored(c) ==
    /\ up # "exited" /\ conn[c] = "open" /\ Closed(c)
    /\ UNCHANGED vars

\* Incoming::Event(None): end the connection so that the client re-syncs.
DropStale(c) ==
    /\ up # "exited" /\ conn[c] = "open" /\ Closed(c)
    /\ Close(c)

\* The client goes away, or a send fails.
Disconnect(c) ==
    /\ up # "exited" /\ conn[c] \in {"greeting", "open", "busy", "sending"}
    /\ Close(c)

-----------------------------------------------------------------------------
(* watch_topology.                                                         *)

WatchStart ==
    /\ up # "exited" /\ watch = "start"
    /\ Subscribe(Watcher)
    /\ watch' = "recv"
    /\ UNCHANGED <<up, refreshes, announced, changeVars, connVars, built, shape>>

\* node_added, node_updated and node_removed start a rebuild.
WatchRecv ==
    /\ up # "exited" /\ watch = "recv"
    /\ Recv(Watcher)
    /\ watch' = IF Head(queue[Watcher]).kind = "node" THEN "drain" ELSE "recv"
    /\ UNCHANGED <<up, refreshes, announced, changeVars, connVars, built, shape>>

\* Mutant: after a burst the rebuild is left to the next event.
WatchDrainDebounced ==
    /\ up # "exited" /\ watch = "drain"
    /\ queue' = [queue EXCEPT ![Watcher] = <<>>]
    /\ taken' = [taken EXCEPT ![Watcher] =
                   IF queue[Watcher] = <<>> THEN @
                   ELSE queue[Watcher][Len(queue[Watcher])].no]
    /\ watch' = IF queue[Watcher] = <<>> THEN "build" ELSE "recv"
    /\ UNCHANGED <<up, refreshes, announced, changeVars, subscribers, total, cutAt,
                   connVars, built, shape>>

\* try_recv until the channel is empty.
WatchDrain ==
    /\ up # "exited" /\ watch = "drain"
    /\ queue' = [queue EXCEPT ![Watcher] = <<>>]
    /\ taken' = [taken EXCEPT ![Watcher] =
                   IF queue[Watcher] = <<>> THEN @
                   ELSE queue[Watcher][Len(queue[Watcher])].no]
    /\ watch' = "build"
    /\ UNCHANGED <<up, refreshes, announced, changeVars, subscribers, total, cutAt,
                   connVars, built, shape>>

\* build_topology over a copy of the store; the same graph is not published twice.
WatchBuild ==
    /\ up # "exited" /\ watch = "build"
    /\ built' = nodes
    /\ watch' = IF nodes = shape THEN "recv" ELSE "publish"
    /\ shape' = nodes
    /\ UNCHANGED <<up, refreshes, taken, announced, changeVars, busVars, connVars>>

WatchPublish ==
    /\ up # "exited" /\ watch = "publish"
    /\ Publish("topology", built)
    /\ watch' = "recv"
    /\ UNCHANGED <<up, refreshes, taken, changeVars, connVars, built, shape>>

\* The bus dropped the watcher: its loop, and its thread, end.
WatchEnd ==
    /\ up # "exited" /\ watch = "recv" /\ Closed(Watcher)
    /\ watch' = "ended"
    /\ UNCHANGED <<up, refreshes, taken, announced, changeVars, busVars, connVars,
                   built, shape>>

-----------------------------------------------------------------------------
(* The end of run(): one of the server's loops returned.                   *)

Shutdown ==
    /\ up = "up"
    /\ Publish("shutdown", 0)
    /\ up' = "stopping"
    /\ UNCHANGED <<refreshes, taken, changeVars, connVars, watchVars>>

\* run() returns, main returns, and the process ends with its threads.
Exit ==
    /\ up = "stopping"
    /\ up' = "exited"
    /\ UNCHANGED <<refreshes, taken, announced, changeVars, busVars, connVars,
                   watchVars>>

-----------------------------------------------------------------------------
Connection(c) ==
    \/ Greet(c) \/ Reply(c) \/ TakeEvent(c) \/ SendEvent(c) \/ DropStale(c)

Watch == WatchStart \/ WatchRecv \/ WatchDrain \/ WatchBuild \/ WatchPublish \/ WatchEnd

Next ==
    \/ \E p \in Publishers : Announce(p) \/ \E k \in Kinds : Apply(p, k)
    \/ \E c \in Conns : \/ Connect(c) \/ Connection(c) \/ Disconnect(c)
                        \/ \E cmd \in Commands : Command(c, cmd)
    \/ Watch \/ Shutdown \/ Exit

Spec == Init /\ [][Next]_vars

(* The server's own threads run and the clients read what they are sent.   *)
Fairness ==
    /\ \A p \in Publishers : WF_vars(Announce(p))
    /\ \A c \in Conns : WF_vars(Connection(c))
    /\ WF_vars(Watch)

FairSpec == Spec /\ Fairness

-----------------------------------------------------------------------------
(* Properties.                                                             *)

\* Where a subscriber is in the stream, for the refinement.
Phase(s) ==
    IF IF s = Watcher THEN watch = "start" ELSE conn[s] = "new" THEN "new"
    ELSE IF up = "exited" \/ ~ Receiving(s) THEN "left"
    ELSE IF s \in subscribers THEN "joined" ELSE "cut"

Stream == INSTANCE EventStream WITH
    Subscribers <- Subs,
    published <- total,
    phase <- [s \in Subs |-> Phase(s)],
    place <- taken,
    end <- cutAt

\* Every subscriber of the bus takes the events published since subscribe(),
\* in order and without a gap, until publish() drops it; what was queued by
\* then it still takes, and nothing after.
ImplementsEventStream == Stream!Spec

CaughtUp(c) ==
    /\ conn[c] = "open" /\ "listening" \in opted[c]
    /\ c \in subscribers /\ queue[c] = <<>>

WatchIdle ==
    watch = "recv" /\ Watcher \in subscribers /\ queue[Watcher] = <<>> /\ shape > 0

\* A client that has start_listening's answer, reads what it is sent and has
\* nothing left to read knows the state of the store that was announced last,
\* or a later one: no event falls between the copy of the node list and the
\* stream.
ListenerIsInformed ==
    \A c \in Conns :
        CaughtUp(c) => view[c].nodes >= announced.any

\* Draining a burst loses nothing: when the watcher has nothing to do, the
\* graph it published last has every change a node event has announced since
\* it started.
GraphFollowsNodes ==
    WatchIdle => shape >= announced.node

\* A connection the bus has dropped is closed, so that its client re-syncs,
\* once the client reads what it is sent and stops sending requests.
StaleIsEnded ==
    \A c \in Conns :
        <>[](conn[c] # "busy") =>
            ((conn[c] \in {"greeting", "open", "sending"} /\ c \notin subscribers)
                ~> (conn[c] = "closed" \/ up = "exited"))

\* "Tell every listening client before the socket goes away": a listening
\* client that has server_shutdown queued and keeps reading is sent it, if the
\* process does not end first.  run() does not wait for that.
ShutdownIsTold ==
    \A c \in Conns :
        <>[](conn[c] # "busy") =>
            ((\E i \in DOMAIN queue[c] : queue[c][i].kind = "shutdown"
                                          /\ "listening" \in opted[c])
                ~> (c \in told \/ conn[c] = "closed" \/ up = "exited"))

-----------------------------------------------------------------------------
(* What the comments of the code say.                                      *)

\* "Publish network_topology_updated whenever the graph actually changes": a
\* node event is followed by a graph that has its change.
GraphIsRepublished ==
    [](announced.node > shape /\ shape > 0 /\ up = "up"
          => <>(shape >= announced.node \/ up # "up"))
=============================================================================
