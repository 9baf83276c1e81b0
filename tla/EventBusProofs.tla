--------------------------- MODULE EventBusProofs ---------------------------
(***************************************************************************)
(* Proofs about the event bus and the graph that its watcher builds, for   *)
(* any set of connections, any publishers, any capacity of the channels    *)
(* and any nodes: type correctness, that the bus implements the gap-free   *)
(* stream, that a listener is informed, that the watcher's graph follows   *)
(* the nodes and that it is what they report.                              *)
(*                                                                         *)
(* The inductive invariant of the stream is Numbered: what a subscriber    *)
(* has taken and what its channel holds are consecutive events that end at *)
(* the last one published or, once the bus has dropped it, at the one it   *)
(* was cut at.  ListenInv says that the last change announced is in a      *)
(* client's channel, in hand or known, GraphInv the same of the watcher.   *)
(*                                                                         *)
(* GraphSound says of a graph that is being built that it has the nodes    *)
(* listed so far, a link for each pair reported so far, and in each of its *)
(* directions what was said last.                                          *)
(***************************************************************************)
EXTENDS EventBus, Topology, Loops, SequenceTheorems, FiniteSetTheorems, WellFoundedInduction,
        TLAPS

HandTypes ==
    Events \cup {None} \cup [kind : {"snapshot"}, ver : Nat, no : {0}]

\* A publication keeps the bus well typed and within its bound.
LEMMA PublishTypes ==
    ASSUME TypeOK, NEW kind \in EventKinds, NEW ver \in Nat, Publish(kind, ver)
    PROVE  /\ queue' \in [Subs -> Seq(Events)]
           /\ \A s \in Subs : Len(queue'[s]) <= Capacity
           /\ subscribers' \subseteq Subs
           /\ total' \in Nat
           /\ cutAt' \in [Subs -> Nat]
           /\ announced' \in [any : Nat, node : Nat]
<1> DEFINE event == [kind |-> kind, ver |-> ver, no |-> total + 1]
<1>1. total \in Nat /\ queue \in [Subs -> Seq(Events)] /\ cutAt \in [Subs -> Nat]
  BY DEF TypeOK
<1>2. event \in Events
  BY <1>1 DEF Events
<1>3. queue' = [s \in Subs |-> IF Keeps(s) THEN Append(queue[s], event) ELSE queue[s]]
  BY DEF Publish
<1>4. \A s \in Subs : Append(queue[s], event) \in Seq(Events)
                      /\ Len(Append(queue[s], event)) = Len(queue[s]) + 1
  <2> HIDE DEF event
  <2> QED BY <1>1, <1>2, AppendProperties
<1>5. queue' \in [Subs -> Seq(Events)]
  <2> HIDE DEF event
  <2> QED BY <1>1, <1>3, <1>4
<1>6. \A s \in Subs : Len(queue'[s]) <= Capacity
  <2> SUFFICES ASSUME NEW s \in Subs PROVE Len(queue'[s]) <= Capacity
    OBVIOUS
  <2>1. Len(queue[s]) \in Nat /\ Len(queue[s]) <= Capacity /\ Capacity \in Nat
    BY <1>1, LenProperties, EventBusAssumption DEF TypeOK
  <2>2. CASE Keeps(s)
    <3> HIDE DEF event
    <3> QED BY <1>3, <1>4, <2>1, <2>2 DEF Keeps
  <2>3. CASE ~ Keeps(s)
    BY <1>3, <2>1, <2>3
  <2> QED BY <2>2, <2>3
<1>7. subscribers' \subseteq Subs /\ total' \in Nat /\ cutAt' \in [Subs -> Nat]
  BY <1>1 DEF TypeOK, Publish
<1>8. announced' \in [any : Nat, node : Nat]
  BY DEF TypeOK, Publish, Announced
<1> QED BY <1>5, <1>6, <1>7, <1>8

\* Taking an event keeps the channels well typed, and the event has a number.
LEMMA RecvTypes ==
    ASSUME TypeOK, NEW s \in Subs, Recv(s)
    PROVE  /\ queue' \in [Subs -> Seq(Events)]
           /\ \A t \in Subs : Len(queue'[t]) <= Capacity
           /\ taken' \in [Subs -> Nat]
           /\ Head(queue[s]) \in Events
<1>1. queue \in [Subs -> Seq(Events)] /\ queue[s] # <<>> /\ taken \in [Subs -> Nat]
  BY DEF TypeOK, Recv
<1>2. Head(queue[s]) \in Events /\ Tail(queue[s]) \in Seq(Events)
      /\ Len(Tail(queue[s])) = Len(queue[s]) - 1
  BY <1>1, HeadTailProperties
<1>3. Head(queue[s]).no \in Nat
  BY <1>2 DEF Events
<1>4. queue' = [queue EXCEPT ![s] = Tail(@)] /\ taken' = [taken EXCEPT ![s] = Head(queue[s]).no]
  BY DEF Recv
<1>5. \A t \in Subs : Len(queue[t]) \in Nat /\ Len(queue[t]) <= Capacity /\ Capacity \in Nat
  BY <1>1, LenProperties, EventBusAssumption DEF TypeOK
<1>6. \A t \in Subs : Len(queue'[t]) <= Capacity
  BY <1>1, <1>2, <1>4, <1>5
<1> QED BY <1>1, <1>2, <1>3, <1>4, <1>6

LEMMA EmptyChannel == <<>> \in Seq(Events) /\ Len(<<>>) = 0
  OBVIOUS

\* Type correctness of the event bus.
THEOREM TypeCorrect == Spec => []TypeOK
<1>1. Init => TypeOK
  BY EventBusAssumption, EmptyChannel
     DEF Init, TypeOK, Subs, None, Nothing, Events, Phases, EventKinds
<1>2. TypeOK /\ [Next]_vars => TypeOK'
  <2> SUFFICES ASSUME TypeOK, [Next]_vars PROVE TypeOK'
    OBVIOUS
  <2> USE EventBusAssumption
  <2>1. ASSUME NEW p \in Publishers, Announce(p) PROVE TypeOK'
    <3>1. out[p].kind \in EventKinds /\ out[p].ver \in Nat
      BY <2>1 DEF TypeOK, Announce, EventKinds
    <3>2. Publish(out[p].kind, out[p].ver)
      BY <2>1 DEF Announce
    <3>3. out' \in [Publishers -> [kind : Kinds, ver : Nat, no : {0}] \cup {None}]
      BY <2>1 DEF TypeOK, Announce
    <3> QED BY <2>1, <3>1, <3>2, <3>3, PublishTypes
            DEF TypeOK, Announce, connVars, watchVars
  <2>2. ASSUME NEW p \in Publishers, NEW k \in Kinds, Apply(p, k) PROVE TypeOK'
    <3>1. nodes' \in Nat /\ info' \in Nat /\ changes' \in Nat
      BY <2>2 DEF TypeOK, Apply
    <3>2. out' \in [Publishers -> [kind : Kinds, ver : Nat, no : {0}] \cup {None}]
      BY <2>2, <3>1 DEF TypeOK, Apply
    <3> QED BY <2>2, <3>1, <3>2 DEF TypeOK, Apply, busVars, connVars, watchVars
  <2>3. ASSUME NEW c \in Conns, Connect(c) PROVE TypeOK'
    <3>1. c \in Subs
      BY DEF Subs
    <3>2. queue' \in [Subs -> Seq(Events)] /\ \A s \in Subs : Len(queue'[s]) <= Capacity
      BY <2>3, <3>1, EmptyChannel DEF TypeOK, Connect, Subscribe
    <3> QED BY <2>3, <3>1, <3>2
            DEF TypeOK, Connect, Subscribe, changeVars, watchVars, Phases
  <2>4. ASSUME NEW c \in Conns, Greet(c) PROVE TypeOK'
    BY ZenonT(60), <2>4 DEF TypeOK, Greet, changeVars, busVars, watchVars, Phases
  <2>5. ASSUME NEW c \in Conns, NEW cmd \in Commands, Command(c, cmd) PROVE TypeOK'
    <3>1. OptsInto(cmd) \in {"listening", "topology", "diagnostics"}
      BY DEF OptsInto
    <3>2. Response(cmd) \in {None} \cup [kind : {"snapshot"}, ver : Nat, no : {0}]
      BY DEF Response, TypeOK
    <3>3. nodes' \in Nat /\ refreshes' \in Nat
      BY <2>5 DEF TypeOK, Command
    <3>4. opted' \in [Conns -> SUBSET {"listening", "topology", "diagnostics"}]
      BY <2>5, <3>1 DEF TypeOK, Command
    <3>5. hand' \in [Conns -> HandTypes]
      BY <2>5, <3>2 DEF TypeOK, Command, HandTypes
    <3> QED BY <2>5, <3>3, <3>4, <3>5
            DEF TypeOK, Command, busVars, watchVars, Phases, HandTypes
  <2>6. ASSUME NEW c \in Conns, Reply(c) PROVE TypeOK'
    <3>1. view' \in [Conns -> [nodes : Nat, info : Nat]]
      <4>1. view[c] \in [nodes : Nat, info : Nat] /\ hand[c].ver \in Nat
        BY DEF TypeOK, Events, None
      <4>2. [view[c] EXCEPT !.nodes = hand[c].ver] \in [nodes : Nat, info : Nat]
        BY <4>1
      <4>3. CASE hand[c].kind = "snapshot"
        <5>1. view' = [view EXCEPT ![c] = [view[c] EXCEPT !.nodes = hand[c].ver]]
          BY <2>6, <4>3 DEF Reply
        <5> QED BY <4>2, <5>1 DEF TypeOK
      <4>4. CASE hand[c].kind # "snapshot"
        BY <2>6, <4>4 DEF TypeOK, Reply
      <4> QED BY <4>3, <4>4
    <3>2. hand' \in [Conns -> HandTypes]
      BY <2>6 DEF TypeOK, Reply, HandTypes
    <3> QED BY <2>6, <3>1, <3>2
            DEF TypeOK, Reply, changeVars, busVars, watchVars, Phases, HandTypes
  <2>7. ASSUME NEW c \in Conns, TakeEvent(c) PROVE TypeOK'
    <3>1. c \in Subs /\ Recv(c)
      BY <2>7 DEF Subs, TakeEvent
    <3>2. /\ queue' \in [Subs -> Seq(Events)] /\ \A s \in Subs : Len(queue'[s]) <= Capacity
          /\ taken' \in [Subs -> Nat] /\ Head(queue[c]) \in Events
      BY <3>1, RecvTypes
    <3>3. hand' \in [Conns -> HandTypes] /\ conn' \in [Conns -> Phases]
      <4>1. hand \in [Conns -> HandTypes] /\ conn \in [Conns -> Phases]
            /\ Head(queue[c]) \in HandTypes /\ "sending" \in Phases
        BY <3>2 DEF TypeOK, HandTypes, Phases
      <4>2. CASE Accepts(c, Head(queue[c]).kind)
        <5>1. hand' = [hand EXCEPT ![c] = Head(queue[c])]
              /\ conn' = [conn EXCEPT ![c] = "sending"]
          BY <2>7, <4>2 DEF TakeEvent
        <5> QED BY <4>1, <5>1
      <4>3. CASE ~ Accepts(c, Head(queue[c]).kind)
        BY <2>7, <4>1, <4>3 DEF TakeEvent
      <4> QED BY <4>2, <4>3
    <3> QED BY <2>7, <3>1, <3>2, <3>3
            DEF TypeOK, TakeEvent, Recv, changeVars, watchVars, HandTypes
  <2>8. ASSUME NEW c \in Conns, SendEvent(c) PROVE TypeOK'
    <3>1. hand[c].ver \in Nat
      BY DEF TypeOK, Events, None
    <3>2. view' \in [Conns -> [nodes : Nat, info : Nat]]
      <4> DEFINE sent == CASE hand[c].kind \in {"node", "attribute"} ->
                                [view[c] EXCEPT !.nodes = hand[c].ver]
                           [] hand[c].kind = "info" -> [view[c] EXCEPT !.info = hand[c].ver]
                           [] OTHER -> view[c]
      <4>1. view[c] \in [nodes : Nat, info : Nat]
        BY DEF TypeOK
      <4>2. [view[c] EXCEPT !.nodes = hand[c].ver] \in [nodes : Nat, info : Nat]
            /\ [view[c] EXCEPT !.info = hand[c].ver] \in [nodes : Nat, info : Nat]
        BY <3>1, <4>1
      <4>3. sent \in [nodes : Nat, info : Nat]
        BY <4>1, <4>2
      <4>4. view' = [view EXCEPT ![c] = sent]
        BY <2>8 DEF SendEvent
      <4> HIDE DEF sent
      <4> QED BY <4>3, <4>4 DEF TypeOK
    <3>3. hand' \in [Conns -> HandTypes]
      BY <2>8 DEF TypeOK, SendEvent, HandTypes
    <3> QED BY <2>8, <3>2, <3>3
            DEF TypeOK, SendEvent, changeVars, busVars, watchVars, Phases, HandTypes
  <2>9. ASSUME NEW c \in Conns, Close(c) PROVE TypeOK'
    <3>1. c \in Subs
      BY DEF Subs
    <3>2. queue' \in [Subs -> Seq(Events)] /\ \A s \in Subs : Len(queue'[s]) <= Capacity
      BY <2>9, <3>1, EmptyChannel DEF TypeOK, Close
    <3>3. hand' \in [Conns -> HandTypes]
      BY <2>9 DEF TypeOK, Close, HandTypes
    <3> QED BY <2>9, <3>2, <3>3
            DEF TypeOK, Close, changeVars, watchVars, Phases, HandTypes, Nothing
  <2>10. CASE WatchStart
    <3>1. queue' \in [Subs -> Seq(Events)] /\ \A s \in Subs : Len(queue'[s]) <= Capacity
      BY <2>10, EmptyChannel DEF TypeOK, WatchStart, Subscribe, Subs
    <3> QED BY <2>10, <3>1 DEF TypeOK, WatchStart, Subscribe, Subs, changeVars, connVars
  <2>11. CASE WatchRecv
    <3>1. Watcher \in Subs /\ Recv(Watcher)
      BY <2>11 DEF Subs, WatchRecv
    <3>2. /\ queue' \in [Subs -> Seq(Events)] /\ \A s \in Subs : Len(queue'[s]) <= Capacity
          /\ taken' \in [Subs -> Nat]
      BY <3>1, RecvTypes
    <3> QED BY <2>11, <3>1, <3>2 DEF TypeOK, WatchRecv, Recv, changeVars, connVars
  <2>12. CASE WatchDrain
    <3>1. Watcher \in Subs
      BY DEF Subs
    <3>2. queue' \in [Subs -> Seq(Events)] /\ \A s \in Subs : Len(queue'[s]) <= Capacity
      BY <2>12, <3>1, EmptyChannel DEF TypeOK, WatchDrain
    <3>3. queue[Watcher] # <<>> => queue[Watcher][Len(queue[Watcher])].no \in Nat
      <4> SUFFICES ASSUME queue[Watcher] # <<>>
                   PROVE queue[Watcher][Len(queue[Watcher])] \in Events
        BY DEF Events
      <4>1. queue[Watcher] \in Seq(Events)
        BY <3>1 DEF TypeOK
      <4>2. Len(queue[Watcher]) \in 1 .. Len(queue[Watcher])
        BY <4>1, LenProperties, EmptySeq
      <4> QED BY <4>1, <4>2, ElementOfSeq
    <3>4. taken' \in [Subs -> Nat]
      BY <2>12, <3>1, <3>3 DEF TypeOK, WatchDrain
    <3> QED BY <2>12, <3>2, <3>4 DEF TypeOK, WatchDrain, changeVars, connVars
  <2>13. CASE WatchBuild
    BY <2>13 DEF TypeOK, WatchBuild, changeVars, busVars, connVars
  <2>14. CASE WatchPublish
    <3>1. "topology" \in EventKinds /\ built \in Nat /\ Publish("topology", built)
      BY <2>14 DEF TypeOK, WatchPublish, EventKinds
    <3> QED BY <2>14, <3>1, PublishTypes DEF TypeOK, WatchPublish, changeVars, connVars
  <2>15. CASE WatchEnd
    BY <2>15 DEF TypeOK, WatchEnd, changeVars, busVars, connVars
  <2>16. CASE Shutdown
    <3>1. "shutdown" \in EventKinds /\ 0 \in Nat /\ Publish("shutdown", 0)
      BY <2>16 DEF Shutdown, EventKinds
    <3> QED BY <2>16, <3>1, PublishTypes DEF TypeOK, Shutdown, changeVars, connVars, watchVars
  <2>17. CASE Exit
    BY <2>17 DEF TypeOK, Exit, changeVars, busVars, connVars, watchVars
  <2>18. CASE UNCHANGED vars
    BY <2>18 DEF TypeOK, vars, changeVars, busVars, connVars, watchVars
  <2> QED BY <2>1, <2>2, <2>3, <2>4, <2>5, <2>6, <2>7, <2>8, <2>9, <2>10, <2>11, <2>12,
             <2>13, <2>14, <2>15, <2>16, <2>17, <2>18
          DEF Next, Connection, Watch, DropStale, Disconnect
<1> QED BY <1>1, <1>2, PTL DEF Spec

-----------------------------------------------------------------------------
Started(s) == IF s = Watcher THEN watch # "start" ELSE conn[s] # "new"

\* The last event a subscriber that takes everything will have taken.
Limit(s) == IF s \in subscribers THEN total ELSE cutAt[s]

\* The numbers of a subscriber's events are consecutive and end at its limit.
Consecutive(s) ==
    /\ taken[s] + Len(queue[s]) = Limit(s)
    /\ \A i \in 1 .. Len(queue[s]) : queue[s][i].no = taken[s] + i

Numbered ==
    \A s \in Subs : /\ ~ Started(s) => s \notin subscribers /\ queue[s] = <<>>
                    /\ Started(s) /\ Receiving(s) => Consecutive(s)

\* Nobody comes or goes.
SameEnds ==
    \A s \in Subs : (Started(s)' <=> Started(s)) /\ (Receiving(s)' <=> Receiving(s))

\* A publication extends the run of numbers of every subscriber it keeps, and
\* fixes the limit of every other one at what it has queued.
LEMMA PublishNumbered ==
    ASSUME TypeOK, Numbered, SameEnds, NEW kind \in EventKinds, NEW ver \in Nat,
           Publish(kind, ver), taken' = taken
    PROVE  Numbered'
<1> DEFINE event == [kind |-> kind, ver |-> ver, no |-> total + 1]
<1>1. total \in Nat /\ queue \in [Subs -> Seq(Events)] /\ taken \in [Subs -> Nat]
      /\ subscribers \subseteq Subs
  BY DEF TypeOK
<1>2. event \in Events /\ event.no = total + 1
  BY <1>1 DEF Events
<1>3. /\ queue' = [s \in Subs |-> IF Keeps(s) THEN Append(queue[s], event) ELSE queue[s]]
      /\ subscribers' = {s \in subscribers : Keeps(s)}
      /\ cutAt' = [s \in Subs |-> IF s \in subscribers /\ Receiving(s) /\ ~ Keeps(s)
                                 THEN total ELSE cutAt[s]]
      /\ total' = total + 1
  BY DEF Publish
<1> HIDE DEF event
<1> SUFFICES ASSUME NEW s \in Subs
             PROVE  /\ ~ Started(s)' => s \notin subscribers' /\ queue'[s] = <<>>
                    /\ Started(s)' /\ Receiving(s)' => Consecutive(s)'
  BY DEF Numbered
<1>4. CASE ~ Started(s)
  <2>1. s \notin subscribers /\ queue[s] = <<>>
    BY <1>4 DEF Numbered
  <2>2. ~ Keeps(s)
    BY <2>1 DEF Keeps
  <2> QED BY <1>3, <1>4, <2>1, <2>2 DEF SameEnds
<1>5. CASE Started(s) /\ ~ Receiving(s)
  BY <1>5 DEF SameEnds
<1>6. CASE Started(s) /\ Receiving(s)
  <2>1. Consecutive(s) /\ Started(s)'
    BY <1>6 DEF Numbered, SameEnds
  <2>2. CASE Keeps(s)
    <3>1. queue'[s] = Append(queue[s], event) /\ s \in subscribers /\ s \in subscribers'
      BY <1>3, <2>2 DEF Keeps
    <3>2. /\ Len(queue'[s]) = Len(queue[s]) + 1 /\ Len(queue[s]) \in Nat
          /\ \A i \in 1 .. Len(queue[s]) : queue'[s][i] = queue[s][i]
          /\ queue'[s][Len(queue[s]) + 1] = event
      BY <1>1, <1>2, <3>1, AppendProperties, LenProperties
    <3>3. taken[s] + Len(queue[s]) = total
      BY <2>1, <3>1 DEF Consecutive, Limit
    <3>4. taken'[s] + Len(queue'[s]) = total'
      BY <1>1, <1>3, <3>2, <3>3
    <3>5. \A i \in 1 .. Len(queue'[s]) : queue'[s][i].no = taken'[s] + i
      <4> SUFFICES ASSUME NEW i \in 1 .. Len(queue[s]) + 1
                   PROVE  queue'[s][i].no = taken[s] + i
        BY <3>2
      <4>1. CASE i \in 1 .. Len(queue[s])
        BY <2>1, <3>2, <4>1 DEF Consecutive
      <4>2. CASE i = Len(queue[s]) + 1
        BY <1>1, <1>2, <3>2, <3>3, <4>2
      <4> QED BY <3>2, <4>1, <4>2
    <3> QED BY <2>1, <3>1, <3>4, <3>5 DEF Consecutive, Limit
  <2>3. CASE ~ Keeps(s)
    <3>1. queue'[s] = queue[s] /\ s \notin subscribers'
      BY <1>3, <2>3
    <3>2. cutAt'[s] = Limit(s)
      BY <1>3, <1>6, <2>3 DEF Limit
    <3> QED BY <2>1, <3>1, <3>2 DEF Consecutive, Limit
  <2> QED BY <2>2, <2>3
<1> QED BY <1>4, <1>5, <1>6

\* The event at the head of a channel is the next in the order of publication,
\* and taking it leaves the rest consecutive.
LEMMA RecvNumbered ==
    ASSUME TypeOK, Numbered, SameEnds, NEW s \in Subs, Started(s), Receiving(s), Recv(s)
    PROVE  /\ Numbered'
           /\ taken' = [taken EXCEPT ![s] = @ + 1]
           /\ taken[s] < Limit(s)
<1>1. queue \in [Subs -> Seq(Events)] /\ taken \in [Subs -> Nat]
  BY DEF TypeOK
<1>2. /\ queue[s] # <<>>
      /\ queue' = [queue EXCEPT ![s] = Tail(@)]
      /\ taken' = [taken EXCEPT ![s] = Head(queue[s]).no]
      /\ subscribers' = subscribers /\ total' = total /\ cutAt' = cutAt
  BY DEF Recv
<1>3. /\ Len(queue[s]) \in Nat \ {0}
      /\ Len(Tail(queue[s])) = Len(queue[s]) - 1
      /\ \A i \in 1 .. Len(Tail(queue[s])) : Tail(queue[s])[i] = queue[s][i + 1]
      /\ Head(queue[s]) = queue[s][1]
  BY <1>1, <1>2, HeadTailProperties, LenProperties, EmptySeq
<1>4. Consecutive(s)
  BY DEF Numbered
<1>5. Head(queue[s]).no = taken[s] + 1
  BY <1>3, <1>4 DEF Consecutive
<1>6. taken' = [taken EXCEPT ![s] = @ + 1]
  BY <1>2, <1>5
<1>7. Consecutive(s)'
  <2>1. queue'[s] = Tail(queue[s]) /\ taken'[s] = taken[s] + 1
    BY <1>1, <1>2, <1>6
  <2>2. taken[s] + Len(queue[s]) = Limit(s) /\ taken[s] \in Nat
    BY <1>1, <1>4 DEF Consecutive
  <2>3. taken'[s] + Len(queue'[s]) = taken[s] + Len(queue[s])
    BY <1>3, <2>1, <2>2
  <2>4. \A i \in 1 .. Len(queue'[s]) : queue'[s][i].no = taken'[s] + i
    <3> SUFFICES ASSUME NEW i \in 1 .. Len(Tail(queue[s]))
                 PROVE  Tail(queue[s])[i].no = taken[s] + 1 + i
      BY <2>1
    <3>1. i + 1 \in 1 .. Len(queue[s])
      BY <1>3
    <3> QED BY <1>3, <1>4, <2>2, <3>1 DEF Consecutive
  <2> QED BY <1>2, <2>2, <2>3, <2>4 DEF Consecutive, Limit
<1>8. taken[s] < Limit(s)
  BY <1>1, <1>3, <1>4 DEF Consecutive
<1>9. \A t \in Subs \ {s} : queue'[t] = queue[t] /\ taken'[t] = taken[t]
  BY <1>1, <1>2
<1>10. Numbered'
  <2> SUFFICES ASSUME NEW t \in Subs
               PROVE  /\ ~ Started(t)' => t \notin subscribers' /\ queue'[t] = <<>>
                      /\ Started(t)' /\ Receiving(t)' => Consecutive(t)'
    BY DEF Numbered
  <2>1. CASE t = s
    BY <1>7, <2>1 DEF SameEnds
  <2>2. CASE t # s
    BY <1>2, <1>9, <2>2 DEF Numbered, SameEnds, Consecutive, Limit
  <2> QED BY <2>1, <2>2
<1> QED BY <1>6, <1>8, <1>10

\* A step that touches neither the channels nor who listens.
LEMMA IdleNumbered ==
    ASSUME Numbered, SameEnds,
           UNCHANGED <<queue, subscribers, taken, total, cutAt>>
    PROVE  Numbered'
  BY DEF Numbered, SameEnds, Consecutive, Limit

\* A subscriber that leaves has no more to do with the others' channels.
LEMMA LeaveNumbered ==
    ASSUME TypeOK, Numbered, NEW c \in Subs,
           Started(c)' , ~ Receiving(c)',
           \A t \in Subs \ {c} : /\ Started(t)' <=> Started(t)
                                 /\ Receiving(t)' <=> Receiving(t)
                                 /\ queue'[t] = queue[t],
           UNCHANGED <<subscribers, taken, total, cutAt>>
    PROVE  Numbered'
<1> SUFFICES ASSUME NEW t \in Subs
             PROVE  /\ ~ Started(t)' => t \notin subscribers' /\ queue'[t] = <<>>
                    /\ Started(t)' /\ Receiving(t)' => Consecutive(t)'
  BY DEF Numbered
<1>1. CASE t = c
  BY <1>1
<1>2. CASE t # c
  BY <1>2 DEF Numbered, Consecutive, Limit
<1> QED BY <1>1, <1>2

\* A new subscriber has taken everything published so far.
LEMMA JoinNumbered ==
    ASSUME TypeOK, Numbered, NEW c \in Subs, Subscribe(c), Started(c)',
           \A t \in Subs \ {c} : /\ Started(t)' <=> Started(t)
                                 /\ Receiving(t)' <=> Receiving(t)
    PROVE  Numbered'
<1>1. /\ queue' = [queue EXCEPT ![c] = <<>>] /\ taken' = [taken EXCEPT ![c] = total]
      /\ subscribers' = subscribers \cup {c} /\ total' = total /\ cutAt' = cutAt
      /\ queue \in [Subs -> Seq(Events)] /\ taken \in [Subs -> Nat] /\ total \in Nat
  BY DEF Subscribe, TypeOK
<1> SUFFICES ASSUME NEW t \in Subs
             PROVE  /\ ~ Started(t)' => t \notin subscribers' /\ queue'[t] = <<>>
                    /\ Started(t)' /\ Receiving(t)' => Consecutive(t)'
  BY DEF Numbered
<1>2. CASE t = c
  <2>1. queue'[c] = <<>> /\ taken'[c] = total /\ Len(<<>>) = 0 /\ c \in subscribers'
    BY <1>1, EmptyChannel
  <2>2. Consecutive(c)'
    BY <1>1, <2>1 DEF Consecutive, Limit
  <2> QED BY <1>2, <2>2
<1>3. CASE t # c
  <2>1. queue'[t] = queue[t] /\ taken'[t] = taken[t]
        /\ (t \in subscribers' <=> t \in subscribers)
    BY <1>1, <1>3
  <2> QED BY <1>1, <1>3, <2>1 DEF Numbered, Consecutive, Limit
<1> QED BY <1>2, <1>3

-----------------------------------------------------------------------------
(* The refinement, action by action.                                       *)

StreamStep == Stream!Next \/ UNCHANGED Stream!vars

\* Who has joined, been cut or left does not change.
LEMMA IdleStep ==
    ASSUME SameEnds, up # "exited", up' # "exited",
           UNCHANGED <<subscribers, taken, total, cutAt>>
    PROVE  StreamStep
<1>1. \A s \in Subs : Phase(s)' = Phase(s)
  BY DEF SameEnds, Phase, Started
<1> QED BY <1>1 DEF StreamStep, Stream!vars

\* publish() cuts exactly the listening subscribers whose channel is full.
LEMMA PublishStep ==
    ASSUME TypeOK, Numbered, SameEnds, up # "exited", up' # "exited",
           NEW kind \in EventKinds, NEW ver \in Nat, Publish(kind, ver), taken' = taken
    PROVE  StreamStep
<1> DEFINE slow == {s \in Subs : /\ Started(s) /\ Receiving(s) /\ s \in subscribers
                                 /\ ~ Keeps(s)}
<1>1. /\ subscribers' = {s \in subscribers : Keeps(s)} /\ total' = total + 1
      /\ cutAt' = [s \in Subs |-> IF s \in subscribers /\ Receiving(s) /\ ~ Keeps(s)
                                 THEN total ELSE cutAt[s]]
  BY DEF Publish
<1>2. \A s \in Subs : s \in subscribers => Started(s)
  BY DEF Numbered
<1>3. \A s \in slow : s \in Subs /\ Phase(s) = "joined"
  BY DEF Phase, Started
<1>4. \A s \in Subs : Phase(s)' = IF s \in slow THEN "cut" ELSE Phase(s)
  <2> SUFFICES ASSUME NEW s \in Subs
               PROVE  Phase(s)' = IF s \in slow THEN "cut" ELSE Phase(s)
    OBVIOUS
  <2>1. Phase(s) = IF ~ Started(s) THEN "new" ELSE IF ~ Receiving(s) THEN "left"
                   ELSE IF s \in subscribers THEN "joined" ELSE "cut"
    BY DEF Phase, Started
  <2>2. Phase(s)' = IF ~ Started(s)' THEN "new" ELSE IF ~ Receiving(s)' THEN "left"
                    ELSE IF s \in subscribers' THEN "joined" ELSE "cut"
    BY DEF Phase, Started
  <2>3. s \in subscribers' <=> s \in subscribers /\ Keeps(s)
    BY <1>1
  <2> QED BY <2>1, <2>2, <2>3 DEF SameEnds
<1>5. cutAt' = [s \in Subs |-> IF s \in slow THEN total ELSE cutAt[s]]
  BY <1>1, <1>2
<1>6. slow \in SUBSET {s \in Subs : [t \in Subs |-> Phase(t)][s] = "joined"}
  BY <1>3
<1>7. [s \in Subs |-> Phase(s)]' =
        [s \in Subs |-> IF s \in slow THEN "cut" ELSE [t \in Subs |-> Phase(t)][s]]
  BY <1>4
<1> HIDE DEF slow
<1>8. Stream!Publish
  BY <1>1, <1>5, <1>6, <1>7 DEF Stream!Publish
<1> QED BY <1>8 DEF StreamStep, Stream!Next

LEMMA PhaseIs ==
    ASSUME NEW s \in Subs, up # "exited"
    PROVE  Phase(s) = IF ~ Started(s) THEN "new" ELSE IF ~ Receiving(s) THEN "left"
                      ELSE IF s \in subscribers THEN "joined" ELSE "cut"
  BY DEF Phase, Started

LEMMA RecvStep ==
    ASSUME TypeOK, Numbered, SameEnds, up # "exited", up' # "exited",
           NEW s \in Subs, Started(s), Receiving(s), Recv(s)
    PROVE  StreamStep
<1>1. taken' = [taken EXCEPT ![s] = @ + 1] /\ taken[s] < Limit(s)
  BY RecvNumbered
<1>2. subscribers' = subscribers /\ total' = total /\ cutAt' = cutAt
  BY DEF Recv
<1>3. \A t \in Subs : Phase(t)' = Phase(t)
  BY <1>2 DEF SameEnds, Phase, Started
<1>4. Phase(s) = IF s \in subscribers THEN "joined" ELSE "cut"
  BY PhaseIs
<1>5. Stream!Take(s)
  BY <1>1, <1>2, <1>3, <1>4 DEF Stream!Take, Limit
<1> QED BY <1>5 DEF StreamStep, Stream!Next

LEMMA JoinStep ==
    ASSUME up # "exited", up' = up, NEW c \in Subs, Subscribe(c), ~ Started(c),
           Started(c)', Receiving(c)',
           \A t \in Subs \ {c} : /\ Started(t)' <=> Started(t)
                                 /\ Receiving(t)' <=> Receiving(t)
    PROVE  StreamStep
<1>1. /\ taken' = [taken EXCEPT ![c] = total] /\ subscribers' = subscribers \cup {c}
      /\ total' = total /\ cutAt' = cutAt
  BY DEF Subscribe
<1>2. Phase(c) = "new" /\ Phase(c)' = "joined"
  BY <1>1 DEF Phase, Started
<1>3. \A t \in Subs \ {c} : Phase(t)' = Phase(t)
  BY <1>1 DEF Phase, Started
<1>4. [t \in Subs |-> Phase(t)]' = [[t \in Subs |-> Phase(t)] EXCEPT ![c] = "joined"]
  BY <1>2, <1>3
<1>5. Stream!Join(c)
  BY <1>1, <1>2, <1>4 DEF Stream!Join
<1> QED BY <1>5 DEF StreamStep, Stream!Next

LEMMA LeaveStep ==
    ASSUME up # "exited", up' = up, NEW c \in Subs, Started(c), Receiving(c),
           Started(c)', ~ Receiving(c)',
           \A t \in Subs \ {c} : /\ Started(t)' <=> Started(t)
                                 /\ Receiving(t)' <=> Receiving(t),
           UNCHANGED <<subscribers, taken, total, cutAt>>
    PROVE  StreamStep
<1>1. Phase(c) \in {"joined", "cut"} /\ Phase(c)' = "left"
  BY DEF Phase, Started
<1>2. \A t \in Subs \ {c} : Phase(t)' = Phase(t)
  BY DEF Phase, Started
<1>3. [t \in Subs |-> Phase(t)]' = [[t \in Subs |-> Phase(t)] EXCEPT ![c] = "left"]
  BY <1>1, <1>2
<1>4. Stream!Leave(c)
  BY <1>1, <1>3 DEF Stream!Leave
<1> QED BY <1>4 DEF StreamStep, Stream!Next

\* try_recv until the channel is empty: everything up to the limit is taken.
LEMMA DrainStep ==
    ASSUME TypeOK, Numbered, WatchDrain
    PROVE  Numbered' /\ StreamStep
<1>1. /\ queue \in [Subs -> Seq(Events)] /\ taken \in [Subs -> Nat] /\ Watcher \in Subs
      /\ watch = "drain" /\ watch' = "build" /\ conn' = conn /\ up' = up /\ up # "exited"
      /\ queue' = [queue EXCEPT ![Watcher] = <<>>]
      /\ subscribers' = subscribers /\ total' = total /\ cutAt' = cutAt
      /\ taken' = [taken EXCEPT ![Watcher] = IF queue[Watcher] = <<>> THEN @
                                             ELSE queue[Watcher][Len(queue[Watcher])].no]
  BY DEF TypeOK, Subs, WatchDrain, connVars
<1>2. SameEnds /\ Started(Watcher) /\ Receiving(Watcher)
  BY <1>1 DEF SameEnds, Started, Receiving
<1>3. Consecutive(Watcher)
  BY <1>1, <1>2 DEF Numbered
<1>4. taken'[Watcher] = Limit(Watcher)
  <2>1. CASE queue[Watcher] = <<>>
    BY <1>1, <1>3, <2>1, EmptyChannel DEF Consecutive
  <2>2. CASE queue[Watcher] # <<>>
    <3>1. Len(queue[Watcher]) \in 1 .. Len(queue[Watcher])
      BY <1>1, <2>2, LenProperties, EmptySeq
    <3>2. queue[Watcher][Len(queue[Watcher])].no = taken[Watcher] + Len(queue[Watcher])
      BY <1>3, <3>1 DEF Consecutive
    <3> QED BY <1>1, <1>3, <2>2, <3>2 DEF Consecutive
  <2> QED BY <2>1, <2>2
<1>5. taken' = [taken EXCEPT ![Watcher] = Limit(Watcher)]
  BY <1>1, <1>4
<1>6. Consecutive(Watcher)'
  <2>1. queue'[Watcher] = <<>> /\ Len(<<>>) = 0 /\ Limit(Watcher)' = Limit(Watcher)
    BY <1>1, EmptyChannel DEF Limit
  <2>2. Limit(Watcher) \in Nat
    BY <1>1 DEF Limit, TypeOK
  <2> QED BY <1>4, <2>1, <2>2 DEF Consecutive
<1>7. \A t \in Subs \ {Watcher} : queue'[t] = queue[t] /\ taken'[t] = taken[t]
  BY <1>1
<1>8. Numbered'
  <2> SUFFICES ASSUME NEW t \in Subs
               PROVE  /\ ~ Started(t)' => t \notin subscribers' /\ queue'[t] = <<>>
                      /\ Started(t)' /\ Receiving(t)' => Consecutive(t)'
    BY DEF Numbered
  <2>1. CASE t = Watcher
    BY <1>2, <1>6, <2>1 DEF SameEnds
  <2>2. CASE t # Watcher
    BY <1>1, <1>2, <1>7, <2>2 DEF Numbered, SameEnds, Consecutive, Limit
  <2> QED BY <2>1, <2>2
<1>9. \A t \in Subs : Phase(t)' = Phase(t)
  BY <1>1, <1>2 DEF SameEnds, Phase, Started
<1>10. Phase(Watcher) = IF Watcher \in subscribers THEN "joined" ELSE "cut"
  BY <1>1, <1>2, PhaseIs
<1>11. Stream!TakeAll(Watcher)
  BY <1>1, <1>5, <1>9, <1>10 DEF Stream!TakeAll, Limit
<1> QED BY <1>1, <1>8, <1>11 DEF StreamStep, Stream!Next

-----------------------------------------------------------------------------
\* Every step keeps the numbering and is a step of the stream.
LEMMA EveryStep ==
    ASSUME TypeOK, Numbered, [Next]_vars
    PROVE  Numbered' /\ StreamStep
<1> USE EventBusAssumption
<1>1. ASSUME NEW p \in Publishers, Announce(p) PROVE Numbered' /\ StreamStep
  <2>1. out[p].kind \in EventKinds /\ out[p].ver \in Nat /\ Publish(out[p].kind, out[p].ver)
    BY <1>1 DEF TypeOK, Announce, EventKinds
  <2>2. taken' = taken /\ up' = up /\ up # "exited" /\ SameEnds
    BY <1>1 DEF Announce, connVars, watchVars, SameEnds, Started, Receiving
  <2> QED BY <2>1, <2>2, PublishNumbered, PublishStep
<1>2. ASSUME NEW p \in Publishers, NEW k \in Kinds, Apply(p, k)
      PROVE  Numbered' /\ StreamStep
  <2>1. SameEnds /\ up' = up /\ up # "exited"
        /\ UNCHANGED <<queue, subscribers, taken, total, cutAt>>
    BY <1>2 DEF Apply, busVars, connVars, watchVars, SameEnds, Started, Receiving
  <2> QED BY <2>1, IdleNumbered, IdleStep
<1>3. ASSUME NEW c \in Conns, Connect(c) PROVE Numbered' /\ StreamStep
  <2>1. /\ c \in Subs /\ Subscribe(c) /\ ~ Started(c) /\ Started(c)' /\ Receiving(c)'
        /\ up' = up /\ up # "exited"
    BY <1>3 DEF Subs, Connect, Started, Receiving, TypeOK
  <2>2. \A t \in Subs \ {c} : /\ Started(t)' <=> Started(t)
                              /\ Receiving(t)' <=> Receiving(t)
    BY <1>3 DEF Subs, Connect, Started, Receiving, TypeOK, watchVars
  <2> QED BY <2>1, <2>2, JoinNumbered, JoinStep
<1>4. ASSUME NEW c \in Conns,
             Greet(c) \/ Reply(c) \/ SendEvent(c) \/ \E cmd \in Commands : Command(c, cmd)
      PROVE  Numbered' /\ StreamStep
  <2>1. /\ conn[c] \in {"greeting", "open", "busy", "sending"}
        /\ \E w \in {"open", "busy"} : conn' = [conn EXCEPT ![c] = w]
        /\ watch' = watch /\ up' = up /\ up # "exited"
        /\ UNCHANGED <<queue, subscribers, taken, total, cutAt>>
    BY <1>4 DEF Greet, Reply, SendEvent, Command, busVars, watchVars
  <2>2. SameEnds
    BY <2>1 DEF SameEnds, Started, Receiving, Subs, TypeOK
  <2> QED BY <2>1, <2>2, IdleNumbered, IdleStep
<1>5. ASSUME NEW c \in Conns, TakeEvent(c) PROVE Numbered' /\ StreamStep
  <2>1. /\ c \in Subs /\ Recv(c) /\ Started(c) /\ Receiving(c)
        /\ up' = up /\ up # "exited" /\ watch' = watch /\ conn[c] = "open"
        /\ conn' = conn \/ conn' = [conn EXCEPT ![c] = "sending"]
    BY <1>5 DEF Subs, TakeEvent, Started, Receiving, watchVars
  <2>2. SameEnds
    BY <2>1 DEF SameEnds, Started, Receiving, Subs, TypeOK
  <2> QED BY <2>1, <2>2, RecvNumbered, RecvStep
<1>6. ASSUME NEW c \in Conns, DropStale(c) \/ Disconnect(c) PROVE Numbered' /\ StreamStep
  <2>1. /\ c \in Subs /\ Started(c) /\ Receiving(c) /\ Started(c)' /\ ~ Receiving(c)'
        /\ up' = up /\ up # "exited"
        /\ UNCHANGED <<subscribers, taken, total, cutAt>>
    BY <1>6 DEF Subs, DropStale, Disconnect, Close, Started, Receiving, TypeOK
  <2>2. \A t \in Subs \ {c} : /\ Started(t)' <=> Started(t)
                              /\ Receiving(t)' <=> Receiving(t)
                              /\ queue'[t] = queue[t]
    BY <1>6 DEF Subs, DropStale, Disconnect, Close, Started, Receiving, TypeOK, watchVars
  <2> QED BY <2>1, <2>2, LeaveNumbered, LeaveStep
<1>7. CASE WatchStart
  <2>1. /\ Watcher \in Subs /\ Subscribe(Watcher) /\ ~ Started(Watcher)
        /\ Started(Watcher)' /\ Receiving(Watcher)' /\ up' = up /\ up # "exited"
    BY <1>7 DEF Subs, WatchStart, Started, Receiving
  <2>2. \A t \in Subs \ {Watcher} : /\ Started(t)' <=> Started(t)
                                    /\ Receiving(t)' <=> Receiving(t)
    BY <1>7 DEF Subs, WatchStart, Started, Receiving, connVars
  <2> QED BY <2>1, <2>2, JoinNumbered, JoinStep
<1>8. CASE WatchRecv
  <2>1. /\ Watcher \in Subs /\ Recv(Watcher) /\ Started(Watcher) /\ Receiving(Watcher)
        /\ up' = up /\ up # "exited" /\ SameEnds
    BY <1>8 DEF Subs, WatchRecv, Started, Receiving, SameEnds, connVars
  <2> QED BY <2>1, RecvNumbered, RecvStep
<1>9. CASE WatchDrain
  BY <1>9, DrainStep
<1>10. CASE WatchBuild
  <2>1. SameEnds /\ up' = up /\ up # "exited"
        /\ UNCHANGED <<queue, subscribers, taken, total, cutAt>>
    BY <1>10 DEF WatchBuild, busVars, connVars, SameEnds, Started, Receiving
  <2> QED BY <2>1, IdleNumbered, IdleStep
<1>11. CASE WatchPublish
  <2>1. "topology" \in EventKinds /\ built \in Nat /\ Publish("topology", built)
    BY <1>11 DEF TypeOK, WatchPublish, EventKinds
  <2>2. taken' = taken /\ up' = up /\ up # "exited" /\ SameEnds
    BY <1>11 DEF WatchPublish, connVars, SameEnds, Started, Receiving
  <2> QED BY <2>1, <2>2, PublishNumbered, PublishStep
<1>12. CASE WatchEnd
  <2>1. /\ Watcher \in Subs /\ Started(Watcher) /\ Receiving(Watcher)
        /\ Started(Watcher)' /\ ~ Receiving(Watcher)' /\ up' = up /\ up # "exited"
        /\ UNCHANGED <<subscribers, taken, total, cutAt>>
    BY <1>12 DEF Subs, WatchEnd, Started, Receiving, busVars
  <2>2. \A t \in Subs \ {Watcher} : /\ Started(t)' <=> Started(t)
                                    /\ Receiving(t)' <=> Receiving(t)
                                    /\ queue'[t] = queue[t]
    BY <1>12 DEF Subs, WatchEnd, Started, Receiving, busVars, connVars
  <2> QED BY <2>1, <2>2, LeaveNumbered, LeaveStep
<1>13. CASE Shutdown
  <2>1. "shutdown" \in EventKinds /\ 0 \in Nat /\ Publish("shutdown", 0)
    BY <1>13 DEF Shutdown, EventKinds
  <2>2. taken' = taken /\ up # "exited" /\ up' # "exited" /\ SameEnds
    BY <1>13 DEF Shutdown, connVars, watchVars, SameEnds, Started, Receiving
  <2> QED BY <2>1, <2>2, PublishNumbered, PublishStep
<1>14. CASE Exit
  <2>1. SameEnds /\ up # "exited" /\ up' = "exited"
        /\ UNCHANGED <<queue, subscribers, taken, total, cutAt>>
    BY <1>14 DEF Exit, busVars, connVars, watchVars, SameEnds, Started, Receiving
  <2>2. \A t \in Subs : Phase(t)' = IF Phase(t) = "new" THEN "new" ELSE "left"
    BY <2>1 DEF SameEnds, Phase, Started
  <2>3. Stream!LeaveAll
    BY <2>1, <2>2 DEF Stream!LeaveAll
  <2> QED BY <2>1, <2>3, IdleNumbered DEF StreamStep, Stream!Next
<1>15. CASE UNCHANGED vars
  <2>1. SameEnds /\ UNCHANGED <<queue, subscribers, taken, total, cutAt>>
    BY <1>15 DEF vars, busVars, connVars, watchVars, SameEnds, Started, Receiving
  <2>2. \A t \in Subs : Phase(t)' = Phase(t)
    BY <1>15 DEF vars, busVars, connVars, watchVars, Phase, Receiving
  <2> QED BY <2>1, <2>2, IdleNumbered DEF StreamStep, Stream!vars
<1> QED BY <1>1, <1>2, <1>3, <1>4, <1>5, <1>6, <1>7, <1>8, <1>9, <1>10, <1>11, <1>12,
           <1>13, <1>14, <1>15
        DEF Next, Connection, Watch

\* The event bus implements the gap-free stream: whatever the connections,
\* publishers and capacity, a subscriber takes the events published since it
\* subscribed, in order and without a gap, until publish() drops it.
THEOREM StreamIsGapFree == Spec => ImplementsEventStream
<1>1. Init => Numbered
  BY EventBusAssumption DEF Init, Numbered, Started, Subs
<1>2. Init => Stream!Init
  BY EventBusAssumption DEF Init, Stream!Init, Phase, Subs
<1>3. TypeOK /\ Numbered /\ [Next]_vars => Numbered' /\ [Stream!Next]_(Stream!vars)
  BY EveryStep DEF StreamStep
<1> QED BY <1>1, <1>2, <1>3, TypeCorrect, PTL DEF Spec, ImplementsEventStream, Stream!Spec

-----------------------------------------------------------------------------
(* What a listening client knows, and what the watcher's graph holds.      *)

\* The kinds that announce a change of the node store.
DataKinds == {"node", "attribute"}

\* A channel holds an event of a kind in K, and the last of them announces v.
Holds(q, K) == \E i \in 1 .. Len(q) : q[i].kind \in K
LastIs(q, K, v) ==
    \A i \in 1 .. Len(q) :
        q[i].kind \in K /\ (\A j \in i + 1 .. Len(q) : q[j].kind \notin K) => q[i].ver = v

\* Nothing is announced that the store does not have yet.
AnnouncedInv ==
    /\ announced.any <= nodes /\ announced.node <= nodes
    /\ \A p \in Publishers : out[p].kind \in DataKinds => out[p].ver <= nodes

\* What each connection may have in hand.
HandInv ==
    \A c \in Conns :
        /\ conn[c] \notin {"busy", "sending"} => hand[c] = None
        /\ conn[c] = "busy" => hand[c].kind \in {"snapshot", "none"}
        /\ conn[c] = "sending" => hand[c].kind # "snapshot"
        /\ conn[c] = "new" => opted[c] = {}

\* What the client will know of the store when what is in hand is sent.
Knows(c) ==
    IF hand[c].kind \in DataKinds \cup {"snapshot"} THEN hand[c].ver ELSE view[c].nodes

\* The last change announced is in the channel, or in hand, or known.
Informed(c) ==
    c \in subscribers =>
        /\ LastIs(queue[c], DataKinds, announced.any)
        /\ "listening" \in opted[c] /\ ~ Holds(queue[c], DataKinds)
              => Knows(c) >= announced.any

ListenInv == HandInv /\ \A c \in Conns : Informed(c)

\* The watcher has a node event to take, is about to read the store, or has a
\* graph with every change announced.
GraphInv ==
    /\ watch = "start" => shape = 0
    /\ watch \in {"recv", "publish"} /\ Watcher \in subscribers /\ shape > 0
          /\ ~ Holds(queue[Watcher], {"node"})
       => shape >= announced.node

\* An event at the end of a channel is the last of its kind.
LEMMA AppendHolds ==
    ASSUME NEW q \in Seq(Events), NEW e \in Events, NEW K
    PROVE  /\ Holds(Append(q, e), K) <=> Holds(q, K) \/ e.kind \in K
           /\ e.kind \in K => LastIs(Append(q, e), K, e.ver)
           /\ e.kind \notin K => \A v : LastIs(q, K, v) => LastIs(Append(q, e), K, v)
<1> DEFINE r == Append(q, e)
           n == Len(q)
<1>1. n \in Nat /\ Len(r) = n + 1 /\ r[n + 1] = e /\ \A i \in 1 .. n : r[i] = q[i]
  BY AppendProperties, LenProperties
<1> HIDE DEF r, n
<1>2. Holds(r, K) <=> Holds(q, K) \/ e.kind \in K
  <2>1. 1 .. n + 1 = 1 .. n \cup {n + 1}
    BY <1>1
  <2> QED BY <1>1, <2>1 DEF Holds, n
<1>3. ASSUME e.kind \in K PROVE LastIs(r, K, e.ver)
  <2> SUFFICES ASSUME NEW i \in 1 .. n + 1, \A j \in i + 1 .. n + 1 : r[j].kind \notin K
               PROVE  r[i].ver = e.ver
    BY <1>1 DEF LastIs
  <2>1. ~ n + 1 \in i + 1 .. n + 1
    BY <1>1, <1>3
  <2>2. i = n + 1
    BY <1>1, <2>1
  <2> QED BY <1>1, <2>2
<1>4. ASSUME e.kind \notin K, NEW v, LastIs(q, K, v) PROVE LastIs(r, K, v)
  <2> SUFFICES ASSUME NEW i \in 1 .. n + 1, r[i].kind \in K,
                      \A j \in i + 1 .. n + 1 : r[j].kind \notin K
               PROVE  r[i].ver = v
    BY <1>1 DEF LastIs
  <2>1. i \in 1 .. n
    BY <1>1, <1>4
  <2>2. \A j \in i + 1 .. n : q[j].kind \notin K
    BY <1>1, <2>1
  <2> QED BY <1>1, <1>4, <2>1, <2>2 DEF LastIs, n
<1> QED BY <1>2, <1>3, <1>4 DEF r

\* Taking the event at the head of a channel leaves its last event where it
\* was, unless that was the one taken.
LEMMA TailHolds ==
    ASSUME NEW q \in Seq(Events), q # <<>>, NEW K
    PROVE  /\ Holds(q, K) <=> Head(q).kind \in K \/ Holds(Tail(q), K)
           /\ \A v : LastIs(q, K, v) =>
                 /\ LastIs(Tail(q), K, v)
                 /\ Head(q).kind \in K /\ ~ Holds(Tail(q), K) => Head(q).ver = v
<1> DEFINE r == Tail(q)
           n == Len(r)
<1>1. /\ n \in Nat /\ Len(q) = n + 1 /\ Head(q) = q[1]
      /\ \A i \in 1 .. n : r[i] = q[i + 1]
  BY HeadTailProperties, LenProperties
<1> HIDE DEF r, n
<1>2. ASSUME NEW i \in 1 .. n PROVE i + 1 \in 1 .. n + 1
  BY <1>1
<1>3. ASSUME NEW i \in 1 .. n + 1, i # 1 PROVE i - 1 \in 1 .. n /\ q[i] = r[i - 1]
  <2>1. i - 1 \in 1 .. n /\ (i - 1) + 1 = i
    BY <1>1, <1>3
  <2> QED BY <1>1, <2>1
<1>4. 1 \in 1 .. n + 1
  BY <1>1
<1>5. Holds(q, K) => Head(q).kind \in K \/ Holds(r, K)
  BY <1>1, <1>3 DEF Holds, n
<1>6. Head(q).kind \in K \/ Holds(r, K) => Holds(q, K)
  BY <1>1, <1>2, <1>4 DEF Holds, n
<1>7. ASSUME NEW v, LastIs(q, K, v) PROVE LastIs(r, K, v)
  <2> SUFFICES ASSUME NEW i \in 1 .. n, r[i].kind \in K,
                      \A j \in i + 1 .. n : r[j].kind \notin K
               PROVE  r[i].ver = v
    BY DEF LastIs, n
  <2>1. ASSUME NEW j \in (i + 1) + 1 .. n + 1 PROVE q[j].kind \notin K
    <3>1. j \in 1 .. n + 1 /\ j # 1 /\ j - 1 \in i + 1 .. n
      BY <1>1, <2>1
    <3> QED BY <1>3, <3>1
  <2> QED BY <1>1, <1>2, <1>7, <2>1 DEF LastIs
<1>8. ASSUME NEW v, LastIs(q, K, v), Head(q).kind \in K, ~ Holds(r, K) PROVE Head(q).ver = v
  <2>1. ASSUME NEW j \in 1 + 1 .. n + 1 PROVE q[j].kind \notin K
    <3>1. j \in 1 .. n + 1 /\ j # 1
      BY <1>1, <2>1
    <3> QED BY <1>3, <1>8, <3>1 DEF Holds, n
  <2> QED BY <1>1, <1>4, <1>8, <2>1 DEF LastIs
<1> QED BY <1>5, <1>6, <1>7, <1>8 DEF r

\* An empty channel holds nothing.
LEMMA EmptyHolds == \A K, v : ~ Holds(<<>>, K) /\ LastIs(<<>>, K, v)
<1>1. 1 .. Len(<<>>) = {}
  BY EmptyChannel
<1> QED BY <1>1 DEF Holds, LastIs

\* A publication is recorded as announced, and reaches every subscriber that
\* stays one.
LEMMA PublishReaches ==
    ASSUME TypeOK, NEW kind \in EventKinds, NEW ver \in Nat, Publish(kind, ver),
           NEW s \in Subs, s \in subscribers'
    PROVE  /\ s \in subscribers
           /\ \E e \in Events : /\ e.kind = kind /\ e.ver = ver
                                /\ queue'[s] = Append(queue[s], e)
           /\ announced'.any = IF kind \in DataKinds THEN ver ELSE announced.any
           /\ announced'.node = IF kind = "node" THEN ver ELSE announced.node
<1> DEFINE event == [kind |-> kind, ver |-> ver, no |-> total + 1]
<1>1. event \in Events /\ event.kind = kind /\ event.ver = ver
  BY DEF Events, TypeOK
<1>2. s \in subscribers /\ Keeps(s)
  BY DEF Publish
<1>3. queue' = [t \in Subs |-> IF Keeps(t) THEN Append(queue[t], event) ELSE queue[t]]
  BY DEF Publish
<1>4. announced' = Announced(kind, ver)
  BY DEF Publish
<1>5. queue'[s] = Append(queue[s], event)
  BY <1>2, <1>3
<1> HIDE DEF event
<1> QED BY <1>1, <1>2, <1>4, <1>5 DEF Announced, DataKinds

\* A connection that a step leaves alone knows what it knew.
LEMMA InformedFrame ==
    ASSUME NEW c \in Conns, Informed(c), c \in subscribers' => c \in subscribers,
           queue'[c] = queue[c], opted'[c] = opted[c], hand'[c] = hand[c],
           view'[c].nodes = view[c].nodes, announced'.any = announced.any
    PROVE  Informed(c)'
BY DEF Informed, Knows

\* A publication leaves every listening client with an event to take, or with
\* what it knew of the store.
LEMMA PublishInformed ==
    ASSUME TypeOK, ListenInv, NEW kind \in EventKinds, NEW ver \in Nat, Publish(kind, ver),
           UNCHANGED connVars
    PROVE  ListenInv'
<1>1. HandInv'
  BY DEF ListenInv, HandInv, connVars
<1> SUFFICES ASSUME NEW c \in Conns, c \in subscribers' PROVE Informed(c)'
  BY <1>1 DEF ListenInv, Informed
<1>2. c \in Subs /\ queue[c] \in Seq(Events)
  BY DEF Subs, TypeOK
<1>3. c \in subscribers /\ Informed(c)
  BY <1>2, PublishReaches DEF ListenInv
<1>4. announced'.any = IF kind \in DataKinds THEN ver ELSE announced.any
  BY <1>2, PublishReaches
<1>5. PICK e \in Events : e.kind = kind /\ e.ver = ver /\ queue'[c] = Append(queue[c], e)
  BY <1>2, PublishReaches
<1>6. CASE kind \in DataKinds
  <2>1. Holds(queue'[c], DataKinds) /\ LastIs(queue'[c], DataKinds, ver)
    BY <1>2, <1>5, <1>6, AppendHolds
  <2> QED BY <1>4, <1>6, <2>1 DEF Informed
<1>7. CASE kind \notin DataKinds
  <2>1. Holds(queue'[c], DataKinds) <=> Holds(queue[c], DataKinds)
    BY <1>2, <1>5, <1>7, AppendHolds
  <2>2. LastIs(queue[c], DataKinds, announced.any)
    BY <1>3 DEF Informed
  <2>3. LastIs(queue'[c], DataKinds, announced.any)
    BY <1>2, <1>5, <1>7, <2>2, AppendHolds
  <2>4. Knows(c)' = Knows(c) /\ opted' = opted
    BY DEF Knows, connVars
  <2> QED BY <1>3, <1>4, <1>7, <2>1, <2>3, <2>4 DEF Informed
<1> QED BY <1>6, <1>7

\* A node event that is published waits for the watcher.
LEMMA PublishGraph ==
    ASSUME TypeOK, GraphInv, NEW kind \in EventKinds, NEW ver \in Nat, Publish(kind, ver),
           \/ UNCHANGED watchVars
           \/ watch = "publish" /\ watch' = "recv" /\ shape' = shape
    PROVE  GraphInv'
<1>1. Watcher \in Subs /\ queue[Watcher] \in Seq(Events)
  BY DEF Subs, TypeOK
<1>2. watch' = "start" => shape' = 0
  BY DEF GraphInv, watchVars
<1> SUFFICES ASSUME watch' \in {"recv", "publish"}, Watcher \in subscribers', shape' > 0,
                    ~ Holds(queue'[Watcher], {"node"})
             PROVE  shape' >= announced'.node
  BY <1>2 DEF GraphInv
<1>3. PICK e \in Events :
          /\ e.kind = kind /\ queue'[Watcher] = Append(queue[Watcher], e)
          /\ Watcher \in subscribers
          /\ announced'.node = IF kind = "node" THEN ver ELSE announced.node
  BY <1>1, PublishReaches
<1>4. kind # "node" /\ ~ Holds(queue[Watcher], {"node"})
  BY <1>1, <1>3, AppendHolds
<1>5. watch \in {"recv", "publish"} /\ shape' = shape
  BY DEF watchVars
<1> QED BY <1>3, <1>4, <1>5 DEF GraphInv

\* A watcher that a step leaves alone has the graph it had.
LEMMA GraphFrame ==
    ASSUME GraphInv, UNCHANGED <<watch, shape, announced>>,
           queue'[Watcher] = queue[Watcher], Watcher \in subscribers' => Watcher \in subscribers
    PROVE  GraphInv'
BY DEF GraphInv

\* Every step but a publication announces nothing and takes no change back.
LEMMA AnnouncedFrame ==
    ASSUME TypeOK, AnnouncedInv, announced' = announced, out' = out,
           nodes' \in Nat, nodes' >= nodes
    PROVE  AnnouncedInv'
<1>1. nodes \in Nat /\ announced.any \in Nat /\ announced.node \in Nat
  BY DEF TypeOK
<1>2. \A p \in Publishers : out[p].kind \in DataKinds => out[p].ver \in Nat
  BY DEF TypeOK, None, DataKinds
<1> QED BY <1>1, <1>2 DEF AnnouncedInv

Informing == AnnouncedInv /\ ListenInv /\ GraphInv

\* Every step of a connection leaves its client informed.
LEMMA ConnectionListens ==
    ASSUME TypeOK, AnnouncedInv, ListenInv, NEW c \in Conns,
           \/ Connect(c) \/ Connection(c) \/ Disconnect(c)
           \/ \E cmd \in Commands : Command(c, cmd)
    PROVE  ListenInv' /\ announced' = announced
<1> USE DEF DataKinds
<1>a. /\ queue \in [Subs -> Seq(Events)] /\ conn \in [Conns -> Phases]
      /\ opted \in [Conns -> SUBSET {"listening", "topology", "diagnostics"}]
      /\ hand \in [Conns -> HandTypes] /\ view \in [Conns -> [nodes : Nat, info : Nat]]
      /\ c \in Subs /\ nodes \in Nat /\ announced.any \in Nat
      /\ None.kind = "none" /\ Conns \subseteq Subs
  BY DEF TypeOK, HandTypes, Subs, None
<1>b. /\ HandInv /\ Informed(c)
  BY DEF ListenInv
\* What the step does to the other connections: nothing.
<1>c. /\ announced' = announced
      /\ \A d \in Conns \ {c} :
            /\ queue'[d] = queue[d] /\ opted'[d] = opted[d] /\ hand'[d] = hand[d]
            /\ view'[d] = view[d] /\ conn'[d] = conn[d]
            /\ d \in subscribers' => d \in subscribers
  <2>1. CASE Connect(c)
    BY <1>a, <2>1 DEF Connect, Subscribe
  <2>2. CASE Greet(c) \/ Reply(c) \/ SendEvent(c) \/ \E cmd \in Commands : Command(c, cmd)
    BY <1>a, <2>2 DEF Greet, Reply, SendEvent, Command, busVars
  <2>3. CASE TakeEvent(c)
    BY <1>a, <2>3 DEF TakeEvent, Recv
  <2>4. CASE DropStale(c) \/ Disconnect(c)
    BY <1>a, <2>4 DEF DropStale, Disconnect, Close
  <2> QED BY <2>1, <2>2, <2>3, <2>4 DEF Connection
<1>d. ASSUME NEW d \in Conns \ {c} PROVE Informed(d)'
  BY <1>c, InformedFrame DEF ListenInv
<1>e. ASSUME /\ conn'[c] \notin {"busy", "sending"} => hand'[c] = None
             /\ conn'[c] = "busy" => hand'[c].kind \in {"snapshot", "none"}
             /\ conn'[c] = "sending" => hand'[c].kind # "snapshot"
             /\ conn'[c] = "new" => opted'[c] = {},
             Informed(c)'
      PROVE  ListenInv'
  <2>1. HandInv'
    BY <1>b, <1>c, <1>e DEF HandInv
  <2> QED BY <1>d, <1>e, <2>1 DEF ListenInv
<1>1. CASE Connect(c)
  <2>1. /\ conn[c] = "new" /\ conn'[c] = "greeting" /\ queue'[c] = <<>>
        /\ opted'[c] = opted[c] /\ hand'[c] = hand[c]
    BY <1>1, <1>a DEF Connect, Subscribe
  <2>2. opted[c] = {} /\ hand[c] = None
    BY <1>b, <2>1 DEF HandInv
  <2>3. Informed(c)'
    BY <2>1, <2>2, EmptyHolds DEF Informed
  <2> QED BY <1>c, <1>e, <2>1, <2>2, <2>3
<1>2. CASE Greet(c)
  <2>1. /\ conn[c] = "greeting" /\ conn'[c] = "open" /\ subscribers' = subscribers
        /\ queue' = queue /\ opted' = opted /\ hand' = hand
        /\ view' = [view EXCEPT ![c].info = info]
    BY <1>2, <1>a DEF Greet, busVars
  <2>2. view'[c].nodes = view[c].nodes
    BY <1>a, <2>1
  <2>3. hand[c] = None
    BY <1>b, <2>1 DEF HandInv
  <2>4. Informed(c)'
    BY <1>b, <1>c, <2>1, <2>2, InformedFrame
  <2> QED BY <1>c, <1>e, <2>1, <2>3, <2>4
<1>3. CASE Reply(c)
  <2>1. /\ conn[c] = "busy" /\ conn'[c] = "open" /\ subscribers' = subscribers
        /\ queue' = queue /\ opted' = opted /\ hand'[c] = None
        /\ view' = IF hand[c].kind = "snapshot"
                   THEN [view EXCEPT ![c].nodes = hand[c].ver] ELSE view
    BY <1>3, <1>a DEF Reply, busVars
  <2>2. hand[c].kind \in {"snapshot", "none"}
    BY <1>b, <2>1 DEF HandInv
  <2>3. view'[c].nodes = Knows(c)
    BY <1>a, <2>1, <2>2 DEF Knows
  <2>4. Knows(c)' = Knows(c)
    BY <1>a, <2>1, <2>3 DEF Knows
  <2>5. Informed(c)'
    BY <1>b, <1>c, <2>1, <2>4 DEF Informed
  <2> QED BY <1>c, <1>e, <2>1, <2>5
<1>4. CASE SendEvent(c)
  <2>1. /\ conn[c] = "sending" /\ conn'[c] = "open" /\ subscribers' = subscribers
        /\ queue' = queue /\ opted' = opted /\ hand'[c] = None
        /\ view' = [view EXCEPT ![c] =
              CASE hand[c].kind \in {"node", "attribute"} -> [@ EXCEPT !.nodes = hand[c].ver]
                [] hand[c].kind = "info" -> [@ EXCEPT !.info = hand[c].ver]
                [] OTHER -> @]
    BY <1>4, <1>a DEF SendEvent, busVars
  <2>2. hand[c].kind # "snapshot"
    BY <1>b, <2>1 DEF HandInv
  <2>3. view'[c].nodes = Knows(c)
    <3>1. CASE hand[c].kind \in {"node", "attribute"}
      BY <1>a, <2>1, <3>1 DEF Knows
    <3>2. CASE hand[c].kind = "info"
      BY <1>a, <2>1, <3>2 DEF Knows
    <3>3. CASE hand[c].kind \notin {"node", "attribute", "info"}
      BY <1>a, <2>1, <2>2, <3>3 DEF Knows
    <3> QED BY <3>1, <3>2, <3>3
  <2>4. Knows(c)' = Knows(c)
    BY <1>a, <2>1, <2>3 DEF Knows
  <2>5. Informed(c)'
    BY <1>b, <1>c, <2>1, <2>4 DEF Informed
  <2> QED BY <1>c, <1>e, <2>1, <2>5
<1>5. ASSUME NEW cmd \in Commands, Command(c, cmd) PROVE ListenInv'
  <2>1. /\ conn[c] = "open" /\ conn'[c] = "busy" /\ subscribers' = subscribers
        /\ queue' = queue /\ view' = view /\ hand'[c] = Response(cmd)
        /\ opted'[c] = opted[c] \cup {OptsInto(cmd)}
    BY <1>5, <1>a DEF Command, busVars
  <2>2. hand[c] = None
    BY <1>b, <2>1 DEF HandInv
  <2>3. CASE cmd = "start_listening"
    <3>1. hand'[c] = [kind |-> "snapshot", ver |-> nodes, no |-> 0]
      BY <2>1, <2>3 DEF Response
    <3>2. Knows(c)' = nodes /\ hand'[c].kind = "snapshot"
      BY <3>1 DEF Knows
    <3>3. Informed(c)'
      BY <1>b, <1>c, <2>1, <3>2 DEF Informed, AnnouncedInv
    <3> QED BY <1>e, <2>1, <3>2, <3>3
  <2>4. CASE cmd # "start_listening"
    <3>1. hand'[c] = hand[c] /\ hand'[c].kind = "none"
      BY <1>a, <2>1, <2>2, <2>4 DEF Response
    <3>2. Knows(c)' = Knows(c)
      BY <2>1, <3>1 DEF Knows
    <3>3. "listening" \in opted'[c] => "listening" \in opted[c]
      BY <2>1, <2>4 DEF OptsInto
    <3>4. Informed(c)'
      BY <1>b, <1>c, <2>1, <3>2, <3>3 DEF Informed
    <3> QED BY <1>e, <2>1, <3>1, <3>4
  <2> QED BY <2>3, <2>4
<1>6. CASE TakeEvent(c)
  <2> DEFINE head == Head(queue[c])
  <2>1. /\ conn[c] = "open" /\ queue[c] # <<>> /\ queue'[c] = Tail(queue[c])
        /\ opted' = opted /\ view' = view /\ subscribers' = subscribers
        /\ IF Accepts(c, head.kind) THEN hand'[c] = head /\ conn'[c] = "sending"
           ELSE hand'[c] = hand[c] /\ conn'[c] = conn[c]
    BY <1>6, <1>a DEF TakeEvent, Recv
  <2>2. queue[c] \in Seq(Events) /\ head \in Events
    BY <1>a, <2>1, HeadTailProperties
  <2>3. head.kind \in EventKinds
    BY <2>2 DEF Events
  <2>4. hand[c] = None
    BY <1>b, <2>1 DEF HandInv
  <2> HIDE DEF head
  <2>5. /\ conn'[c] \notin {"busy", "sending"} => hand'[c] = None
        /\ conn'[c] # "busy" /\ conn'[c] # "new"
        /\ conn'[c] = "sending" => hand'[c].kind # "snapshot"
    BY <2>1, <2>3, <2>4 DEF EventKinds
  <2>6. ASSUME c \in subscribers PROVE LastIs(queue'[c], DataKinds, announced.any)
    <3>1. LastIs(queue[c], DataKinds, announced.any)
      BY <1>b, <2>6 DEF Informed
    <3>2. LastIs(Tail(queue[c]), DataKinds, announced.any)
      <4> HIDE DEF DataKinds
      <4> QED BY <2>1, <2>2, <3>1, TailHolds
    <3> QED BY <2>1, <3>2
  <2>7. ASSUME c \in subscribers, "listening" \in opted[c], ~ Holds(queue'[c], DataKinds)
        PROVE  Knows(c)' >= announced.any
    <3>1. LastIs(queue[c], DataKinds, announced.any)
      BY <1>b, <2>7 DEF Informed
    <3>2. CASE head.kind \in DataKinds
      <4>1. head.ver = announced.any
        BY <2>1, <2>2, <2>7, <3>1, <3>2, TailHolds DEF head
      <4>2. Accepts(c, head.kind)
        BY <2>7, <3>2 DEF Accepts
      <4>3. hand'[c] = head
        BY <2>1, <4>2
      <4>4. Knows(c)' = head.ver
        BY <3>2, <4>3 DEF Knows
      <4> QED BY <1>a, <4>1, <4>4
    <3>3. CASE head.kind \notin DataKinds
      <4>1. ~ Holds(queue[c], DataKinds)
        BY <2>1, <2>2, <2>7, <3>3, TailHolds DEF head
      <4>2. Knows(c) >= announced.any
        BY <1>b, <2>7, <4>1 DEF Informed
      <4>3. hand'[c].kind \notin DataKinds \cup {"snapshot"}
        BY <1>a, <2>1, <2>3, <2>4, <3>3 DEF EventKinds
      <4>4. Knows(c)' = Knows(c)
        BY <1>a, <2>1, <2>4, <4>3 DEF Knows
      <4> QED BY <4>2, <4>4
    <3> QED BY <3>2, <3>3
  <2>8. Informed(c)'
    BY <1>c, <2>1, <2>6, <2>7 DEF Informed
  <2> QED BY <1>c, <1>e, <2>5, <2>8
<1>7. CASE DropStale(c) \/ Disconnect(c)
  <2>1. /\ conn'[c] = "closed" /\ queue'[c] = <<>> /\ opted'[c] = {} /\ hand'[c] = None
    BY <1>7, <1>a DEF DropStale, Disconnect, Close
  <2>2. Informed(c)'
    BY <2>1, EmptyHolds DEF Informed
  <2> QED BY <1>c, <1>e, <2>1, <2>2
<1> QED BY <1>c, <1>1, <1>2, <1>3, <1>4, <1>5, <1>6, <1>7 DEF Connection

\* Every step keeps the clients and the watcher informed.
LEMMA InformingStep ==
    ASSUME TypeOK, Informing, [Next]_vars
    PROVE  Informing'
<1> USE EventBusAssumption
<1>a. /\ AnnouncedInv /\ ListenInv /\ GraphInv
      /\ nodes \in Nat /\ announced.any \in Nat /\ announced.node \in Nat
      /\ queue \in [Subs -> Seq(Events)]
      /\ Watcher \in Subs /\ Watcher \notin Conns /\ Conns \subseteq Subs
  BY DEF Informing, TypeOK, Subs
<1>b. \A p \in Publishers : out[p].kind \in DataKinds => out[p].ver \in Nat
  BY DEF TypeOK, None, DataKinds
\* A step that touches neither the connections nor their channels.
<1>c. ASSUME UNCHANGED connVars, announced' = announced,
             \A c \in Conns : queue'[c] = queue[c] /\ (c \in subscribers' => c \in subscribers)
      PROVE  ListenInv'
  <2>1. HandInv'
    BY <1>a, <1>c DEF ListenInv, HandInv, connVars
  <2>2. ASSUME NEW c \in Conns PROVE Informed(c)'
    BY <1>a, <1>c, InformedFrame DEF ListenInv, connVars
  <2> QED BY <2>1, <2>2 DEF ListenInv
\* A publication of an event that announces no change of the store.
<1>d. ASSUME NEW kind \in EventKinds, kind \notin DataKinds, NEW ver \in Nat,
             Publish(kind, ver), UNCHANGED <<nodes, out>>
      PROVE  AnnouncedInv'
  <2>1. announced'.any = announced.any /\ announced'.node = announced.node
    BY <1>d DEF Publish, Announced, DataKinds
  <2> QED BY <1>a, <1>d, <2>1 DEF AnnouncedInv
<1>1. ASSUME NEW p \in Publishers, Announce(p) PROVE Informing'
  <2>1. /\ out[p].kind \in EventKinds /\ out[p].ver \in Nat
        /\ Publish(out[p].kind, out[p].ver) /\ UNCHANGED <<connVars, watchVars, nodes>>
        /\ out' = [out EXCEPT ![p] = None]
    BY <1>1 DEF TypeOK, Announce, EventKinds
  <2>2. /\ announced'.any = IF out[p].kind \in DataKinds THEN out[p].ver ELSE announced.any
        /\ announced'.node = IF out[p].kind = "node" THEN out[p].ver ELSE announced.node
    BY <2>1 DEF Publish, Announced, DataKinds
  <2>3. announced'.any <= nodes /\ announced'.node <= nodes
    BY <1>a, <2>2 DEF AnnouncedInv, DataKinds
  <2>4. \A q \in Publishers : out'[q].kind \in DataKinds => out'[q].ver <= nodes
    <3>1. \A q \in Publishers : q # p => out'[q] = out[q]
      BY <2>1 DEF TypeOK
    <3>2. out'[p] = None
      BY <2>1 DEF TypeOK
    <3> QED BY <1>a, <3>1, <3>2 DEF AnnouncedInv, None, DataKinds
  <2>5. AnnouncedInv'
    BY <2>1, <2>3, <2>4 DEF AnnouncedInv
  <2> QED BY <1>a, <2>1, <2>5, PublishInformed, PublishGraph DEF Informing
<1>2. ASSUME NEW p \in Publishers, NEW k \in Kinds, Apply(p, k) PROVE Informing'
  <2>1. /\ UNCHANGED <<connVars, watchVars, announced, queue, subscribers>>
        /\ nodes' = IF k \in {"node", "attribute"} THEN nodes + 1 ELSE nodes
        /\ out' = [out EXCEPT ![p] = [kind |-> k, no |-> 0,
                     ver |-> IF k = "info" THEN info' ELSE nodes']]
    BY <1>2 DEF Apply, busVars
  <2>2. \A q \in Publishers : q # p => out'[q] = out[q]
    BY <2>1 DEF TypeOK
  <2>3. out'[p].kind \in DataKinds => out'[p].ver = nodes'
    BY <2>1 DEF TypeOK, DataKinds
  <2>4. nodes' \in Nat /\ nodes' >= nodes
    BY <1>a, <2>1
  <2>5. AnnouncedInv'
    <3>1. announced'.any <= nodes' /\ announced'.node <= nodes'
      BY <1>a, <2>1, <2>4 DEF AnnouncedInv
    <3>2. ASSUME NEW q \in Publishers, out'[q].kind \in DataKinds PROVE out'[q].ver <= nodes'
      <4>1. CASE q = p
        BY <2>3, <2>4, <3>2, <4>1
      <4>2. CASE q # p
        <5>1. out'[q] = out[q]
          BY <2>2, <4>2
        <5> QED BY <1>a, <1>b, <2>4, <3>2, <5>1 DEF AnnouncedInv
      <4> QED BY <4>1, <4>2
    <3> QED BY <3>1, <3>2 DEF AnnouncedInv
  <2>6. ListenInv'
    BY <1>c, <2>1
  <2>7. GraphInv'
    BY <1>a, <2>1, GraphFrame DEF watchVars
  <2> QED BY <2>5, <2>6, <2>7 DEF Informing
<1>3. ASSUME NEW c \in Conns,
             \/ Connect(c) \/ Connection(c) \/ Disconnect(c)
             \/ \E cmd \in Commands : Command(c, cmd)
      PROVE  Informing'
  <2>1. ListenInv' /\ announced' = announced
    BY <1>3, <1>a, ConnectionListens
  <2>2. nodes' \in Nat /\ nodes' >= nodes /\ out' = out
    BY <1>3, <1>a DEF Connect, Connection, Disconnect, Command, Greet, Reply, TakeEvent,
                      SendEvent, DropStale, Close, changeVars
  <2>3. /\ watch' = watch /\ shape' = shape
        /\ queue'[Watcher] = queue[Watcher]
        /\ Watcher \in subscribers' => Watcher \in subscribers
    <3>1. CASE Connect(c)
      BY <1>a, <3>1 DEF Connect, Subscribe, watchVars
    <3>2. CASE Greet(c) \/ Reply(c) \/ SendEvent(c) \/ \E cmd \in Commands : Command(c, cmd)
      BY <1>a, <3>2 DEF Greet, Reply, SendEvent, Command, busVars, watchVars
    <3>3. CASE TakeEvent(c)
      BY <1>a, <3>3 DEF TakeEvent, Recv, watchVars
    <3>4. CASE DropStale(c) \/ Disconnect(c)
      BY <1>a, <3>4 DEF DropStale, Disconnect, Close, watchVars
    <3> QED BY <1>3, <3>1, <3>2, <3>3, <3>4 DEF Connection
  <2>4. AnnouncedInv'
    BY <1>a, <2>1, <2>2, AnnouncedFrame
  <2>5. GraphInv'
    BY <1>a, <2>1, <2>3, GraphFrame
  <2> QED BY <2>1, <2>4, <2>5 DEF Informing
<1>4. ASSUME WatchStart \/ WatchRecv \/ WatchDrain \/ WatchBuild \/ WatchEnd
      PROVE  AnnouncedInv' /\ ListenInv'
  <2>1. UNCHANGED <<connVars, announced, nodes, out>>
    BY <1>4 DEF WatchStart, WatchRecv, WatchDrain, WatchBuild, WatchEnd, changeVars
  <2>2. \A c \in Conns : queue'[c] = queue[c] /\ (c \in subscribers' => c \in subscribers)
    BY <1>4, <1>a DEF WatchStart, WatchRecv, WatchDrain, WatchBuild, WatchEnd, Subscribe,
                      Recv, busVars
  <2> QED BY <1>a, <1>c, <2>1, <2>2, AnnouncedFrame
<1>5. CASE WatchStart
  <2>1. shape = 0 /\ shape' = shape /\ watch' = "recv"
    BY <1>5, <1>a DEF WatchStart, GraphInv
  <2>2. GraphInv'
    BY <2>1 DEF GraphInv
  <2> QED BY <1>4, <1>5, <2>2 DEF Informing
<1>6. CASE WatchRecv
  <2>1. /\ watch = "recv" /\ queue[Watcher] # <<>> /\ queue'[Watcher] = Tail(queue[Watcher])
        /\ watch' = IF Head(queue[Watcher]).kind = "node" THEN "drain" ELSE "recv"
        /\ UNCHANGED <<shape, announced, subscribers>>
    BY <1>6, <1>a DEF WatchRecv, Recv
  <2>2. queue[Watcher] \in Seq(Events)
    BY <1>a
  <2>3. Holds(queue[Watcher], {"node"})
          <=> Head(queue[Watcher]).kind = "node" \/ Holds(Tail(queue[Watcher]), {"node"})
    BY <2>1, <2>2, TailHolds
  <2>4. GraphInv'
    BY <1>a, <2>1, <2>3 DEF GraphInv
  <2> QED BY <1>4, <1>6, <2>4 DEF Informing
<1>7. CASE WatchDrain \/ WatchEnd
  <2>1. watch' \in {"build", "ended"}
    BY <1>7 DEF WatchDrain, WatchEnd
  <2>2. GraphInv'
    BY <2>1 DEF GraphInv
  <2> QED BY <1>4, <1>7, <2>2 DEF Informing
<1>8. CASE WatchBuild
  <2>1. watch' # "start" /\ shape' = nodes /\ announced' = announced
    BY <1>8 DEF WatchBuild
  <2>2. GraphInv'
    BY <1>a, <2>1 DEF GraphInv, AnnouncedInv
  <2> QED BY <1>4, <1>8, <2>2 DEF Informing
<1>9. CASE WatchPublish
  <2>1. /\ "topology" \in EventKinds /\ "topology" \notin DataKinds
        /\ built \in Nat /\ Publish("topology", built)
        /\ watch = "publish" /\ watch' = "recv" /\ UNCHANGED <<shape, connVars, nodes, out>>
    BY <1>9 DEF TypeOK, WatchPublish, EventKinds, DataKinds, changeVars
  <2>2. AnnouncedInv'
    BY <1>d, <2>1
  <2> QED BY <1>a, <2>1, <2>2, PublishInformed, PublishGraph DEF Informing
<1>10. CASE Shutdown
  <2>1. /\ "shutdown" \in EventKinds /\ "shutdown" \notin DataKinds
        /\ 0 \in Nat /\ Publish("shutdown", 0)
        /\ UNCHANGED <<watchVars, connVars, nodes, out>>
    BY <1>10 DEF Shutdown, EventKinds, DataKinds, changeVars
  <2>2. AnnouncedInv'
    BY <1>d, <2>1
  <2> QED BY <1>a, <2>1, <2>2, PublishInformed, PublishGraph DEF Informing
<1>11. CASE Exit \/ UNCHANGED vars
  <2>1. UNCHANGED <<connVars, announced, nodes, out, queue, subscribers, watch, shape>>
    BY <1>11 DEF Exit, vars, changeVars, busVars, watchVars
  <2> QED BY <1>a, <1>c, <2>1, AnnouncedFrame, GraphFrame DEF Informing
<1> QED BY <1>1, <1>2, <1>3, <1>5, <1>6, <1>7, <1>8, <1>9, <1>10, <1>11 DEF Next, Watch

\* Nothing has been announced when the server starts.
LEMMA InformingInit == Init => Informing
<1> SUFFICES ASSUME Init PROVE Informing
  OBVIOUS
<1>1. AnnouncedInv
  BY DEF Init, AnnouncedInv, None, DataKinds
<1>2. HandInv
  BY DEF Init, HandInv
<1>3. \A c \in Conns : Informed(c)
  BY DEF Init, Informed
<1>4. GraphInv
  BY DEF Init, GraphInv
<1> QED BY <1>1, <1>2, <1>3, <1>4 DEF Informing, ListenInv

\* However requests, publications and a full channel interleave, a listening
\* client the bus still serves, with nothing left to read, knows the change of
\* the store that was announced last, or a later one.
THEOREM ListenersAreInformed == Spec => []ListenerIsInformed
<1>1. Informing => ListenerIsInformed
  <2> SUFFICES ASSUME Informing, NEW c \in Conns, CaughtUp(c)
               PROVE  view[c].nodes >= announced.any
    BY DEF ListenerIsInformed
  <2>1. ~ Holds(queue[c], DataKinds)
    BY EmptyHolds DEF CaughtUp
  <2>2. hand[c].kind = "none"
    BY DEF Informing, ListenInv, HandInv, CaughtUp, None
  <2>3. Knows(c) = view[c].nodes
    BY <2>2 DEF Knows, DataKinds
  <2> QED BY <2>1, <2>3 DEF Informing, ListenInv, Informed, CaughtUp
<1> QED BY <1>1, InformingInit, InformingStep, TypeCorrect, PTL DEF Spec

\* Whatever bursts of node events the watcher drains, once it is idle the graph
\* it published last has every change a node event has announced.
THEOREM GraphKeepsUp == Spec => []GraphFollowsNodes
<1>1. Informing => GraphFollowsNodes
  BY EmptyHolds DEF Informing, GraphInv, GraphFollowsNodes, WatchIdle
<1> QED BY <1>1, InformingInit, InformingStep, TypeCorrect, PTL DEF Spec

-----------------------------------------------------------------------------
(* The graph.                                                              *)

Meshed == ToSet(TopoNodes)
Points == Meshed \cup AccessPoints \cup {e.ext : e \in Entries}
Strengths == {"unknown", "none", "weak", "medium", "strong"}
Networks == {"thread", "wifi", "unknown"}
VertexRecords == [id : Points, kind : {"matter", "wifi_ap", "thread_unknown"}, network : Networks]
LinkRecords ==
    [source : Points, target : Points, network : Networks, strength : Strengths,
     out : Strengths, back : Strengths, route : BOOLEAN]
Graphs == [vertices : Seq(VertexRecords), links : Seq(LinkRecords)]

NodeViews(n) ==
    [role : BOOLEAN, ext : {Unread, Bad, ExtAddress[n]},
     neighbours : Seq(EntriesOf(n)), routes : Seq(EntriesOf(n)),
     bssid : AccessPoints \cup {Unread, Bad}, rssi : Signals \cup {NoSignal}]
ViewOK ==
    /\ reading = [n \in Meshed |-> reading[n]]
    /\ \A n \in Meshed : reading[n] \in NodeViews(n)

\* What was said of each direction of each link.
Sayings == [Points -> [Points -> Strengths]]

\* The vertices, where the nodes that are listed so far are.
IdsIn(vertices) == {vertices[i].id : i \in 1 .. Len(vertices)}
VerticesSound(vertices, listed) ==
    /\ vertices \in Seq(VertexRecords)
    /\ IdsIn(vertices) \cap Meshed = listed
    /\ \A i, j \in 1 .. Len(vertices) : vertices[i].id = vertices[j].id => i = j

\* A link with what was said of it so far.
LinkSound(link, said) ==
    IF link.network = "thread"
    THEN /\ link.source \notin AccessPoints /\ link.target \notin AccessPoints
         /\ link.out = said[link.source][link.target]
         /\ link.back = said[link.target][link.source]
         /\ link.out # NoInfo => StrengthRank(link.strength) >= StrengthRank(link.out)
         /\ link.back # NoInfo => StrengthRank(link.strength) >= StrengthRank(link.back)
    ELSE link.target \in AccessPoints

\* The links, one for each pair that was reported so far.
LinksSound(links, ids, pairs, said) ==
    /\ links \in Seq(LinkRecords)
    /\ \A i, j \in 1 .. Len(links) : Ends(links[i]) = Ends(links[j]) => i = j
    /\ \A i \in 1 .. Len(links) : /\ Ends(links[i]) \subseteq ids /\ Ends(links[i]) \in pairs
                                  /\ LinkSound(links[i], said)
    /\ \A p \in pairs : \E i \in 1 .. Len(links) : Ends(links[i]) = p
    /\ \A a, b \in Points : said[a][b] # NoInfo => {a, b} \in pairs

GraphSound(graph, listed, pairs, said) ==
    /\ graph \in Graphs
    /\ VerticesSound(graph.vertices, listed)
    /\ LinksSound(graph.links, IdsIn(graph.vertices), pairs, said)

\* What was said afterwards: of one pair something else, or one thing more.
SaysElse(after, said, pair) ==
    \A a, b \in Points : {a, b} # pair => after[a][b] = said[a][b]
SaysMore(after, said, n, t, s) ==
    /\ after[n][t] = s
    /\ \A a, b \in Points : (a # n \/ b # t) => after[a][b] = said[a][b]

\* The strengths of links and their order.
LEMMA StrengthIs ==
    /\ \A lqi \in Int : ThreadStrength(lqi) \in Strengths
    /\ \A rssi \in Int : WifiStrength(rssi) \in Strengths
    /\ \A s, t \in Strengths :
          /\ StrengthRank(s) \in Nat /\ Strongest(s, t) \in {s, t}
          /\ StrengthRank(Strongest(s, t)) >= StrengthRank(s)
          /\ StrengthRank(Strongest(s, t)) >= StrengthRank(t)
<1>1. \A lqi \in Int : ThreadStrength(lqi) \in Strengths
    BY DEF ThreadStrength, Strengths, NoLqi
<1>2. \A rssi \in Int : WifiStrength(rssi) \in Strengths
    BY DEF WifiStrength, Strengths, NoSignal
<1>3. \A s \in Strengths : StrengthRank(s) \in Nat
    BY DEF StrengthRank, Strengths
<1>4. ASSUME NEW s \in Strengths, NEW t \in Strengths
      PROVE  /\ Strongest(s, t) \in {s, t}
             /\ StrengthRank(Strongest(s, t)) >= StrengthRank(s)
             /\ StrengthRank(Strongest(s, t)) >= StrengthRank(t)
    BY <1>3 DEF Strongest
<1> QED
    BY <1>1, <1>2, <1>3, <1>4

\* A link is between the same two as another one.
LEMMA SamePair ==
    ASSUME NEW a, NEW b, NEW c, NEW d, {a, b} = {c, d}
    PROVE  (a = c /\ b = d) \/ (a = d /\ b = c)
    OBVIOUS

\* A vertex with an id of its own.
LEMMA VertexAppended ==
    ASSUME NEW vertices, NEW listed, VerticesSound(vertices, listed),
           NEW v \in VertexRecords, v.id \notin IdsIn(vertices)
    PROVE  /\ VerticesSound(Append(vertices, v), listed \cup ({v.id} \cap Meshed))
           /\ IdsIn(Append(vertices, v)) = IdsIn(vertices) \cup {v.id}
<1>1. PICK m \in Nat : m = Len(vertices)
    BY DEF VerticesSound
<1>2. PICK new : new = Append(vertices, v)
    OBVIOUS
<1>3. /\ new \in Seq(VertexRecords) /\ Len(new) = m + 1 /\ new[m + 1] = v
      /\ \A i \in 1 .. m : new[i] = vertices[i]
    BY <1>1, <1>2, AppendProperties DEF VerticesSound
<1>4. \A i \in 1 .. m + 1 : i \in 1 .. m \/ i = m + 1
    OBVIOUS
<1>5. \A i \in 1 .. m : i \in 1 .. m + 1
    OBVIOUS
<1>6. IdsIn(new) = IdsIn(vertices) \cup {v.id}
    BY <1>1, <1>3, <1>4, <1>5 DEF IdsIn
<1>7. \A i \in 1 .. m : vertices[i].id # v.id
    BY <1>1 DEF IdsIn
<1>8. \A i, j \in 1 .. m + 1 : new[i].id = new[j].id => i = j
    BY <1>1, <1>3, <1>4, <1>7 DEF VerticesSound
<1> QED
    BY <1>2, <1>3, <1>6, <1>8 DEF VerticesSound

\* A vertex for what is not a node, unless there is one.
LEMMA VertexInvented ==
    ASSUME NEW vertices, NEW listed, VerticesSound(vertices, listed),
           NEW v \in VertexRecords, v.id \notin Meshed
    PROVE  /\ VerticesSound(Invent(vertices, v), listed)
           /\ IdsIn(Invent(vertices, v)) = IdsIn(vertices) \cup {v.id}
<1>1. CASE v.id \in IdsIn(vertices)
  <2>1. Invent(vertices, v) = vertices
    BY <1>1 DEF Invent, IdsIn
  <2> QED
    BY <1>1, <2>1
<1>2. CASE v.id \notin IdsIn(vertices)
  <2>1. Invent(vertices, v) = Append(vertices, v)
    BY <1>2 DEF Invent, IdsIn
  <2>2. {v.id} \cap Meshed = {}
    OBVIOUS
  <2>3. listed \cup ({v.id} \cap Meshed) = listed
    BY <2>2
  <2>4. /\ VerticesSound(Append(vertices, v), listed \cup ({v.id} \cap Meshed))
        /\ IdsIn(Append(vertices, v)) = IdsIn(vertices) \cup {v.id}
    BY <1>2, VertexAppended
  <2>5. VerticesSound(Append(vertices, v), listed)
    BY <2>3, <2>4
  <2> QED
    BY <2>1, <2>4, <2>5
<1> QED
    BY <1>1, <1>2

\* A link for a pair that had none.
LEMMA LinkAppended ==
    ASSUME NEW links, NEW ids, NEW pairs, NEW said, LinksSound(links, ids, pairs, said),
           NEW new \in LinkRecords, Ends(new) \notin pairs, Ends(new) \subseteq ids,
           NEW after, LinkSound(new, after),
           SaysElse(after, said, Ends(new))
    PROVE  LinksSound(Append(links, new), ids, pairs \cup {Ends(new)}, after)
<1>0. \A a, b \in Points : {a, b} # Ends(new) => after[a][b] = said[a][b]
    BY DEF SaysElse
<1>1. PICK m \in Nat : m = Len(links)
    BY DEF LinksSound
<1>2. PICK more : more = Append(links, new)
    OBVIOUS
<1>3. /\ more \in Seq(LinkRecords) /\ Len(more) = m + 1 /\ more[m + 1] = new
      /\ \A i \in 1 .. m : more[i] = links[i]
    BY <1>1, <1>2, AppendProperties DEF LinksSound
<1>4. \A i \in 1 .. m + 1 : i \in 1 .. m \/ i = m + 1
    OBVIOUS
<1>5. \A i \in 1 .. m : i \in 1 .. m + 1
    OBVIOUS
<1>6. \A i \in 1 .. m : links[i] \in LinkRecords /\ Ends(links[i]) # Ends(new)
    BY <1>1 DEF LinksSound
<1>7. \A i, j \in 1 .. m + 1 : Ends(more[i]) = Ends(more[j]) => i = j
    BY <1>1, <1>3, <1>4, <1>6 DEF LinksSound
<1>8. ASSUME NEW i \in 1 .. m PROVE LinkSound(links[i], after)
  <2>1. PICK l \in LinkRecords : l = links[i]
    BY <1>6
  <2>2. LinkSound(l, said) /\ Ends(l) # Ends(new)
    BY <1>1, <1>6, <2>1 DEF LinksSound
  <2>3. l.source \in Points /\ l.target \in Points
    BY <2>1 DEF LinkRecords
  <2>4. {l.source, l.target} = Ends(l) /\ {l.target, l.source} = Ends(l)
    BY DEF Ends
  <2>5. /\ after[l.source][l.target] = said[l.source][l.target]
        /\ after[l.target][l.source] = said[l.target][l.source]
    BY <1>0, <2>2, <2>3, <2>4
  <2> QED
    BY <2>1, <2>2, <2>5 DEF LinkSound
<1>9. ASSUME NEW i \in 1 .. m + 1
      PROVE  /\ Ends(more[i]) \subseteq ids /\ Ends(more[i]) \in pairs \cup {Ends(new)}
             /\ LinkSound(more[i], after)
  <2>1. CASE i = m + 1
    BY <1>3, <2>1
  <2>2. CASE i \in 1 .. m
    BY <1>1, <1>3, <1>8, <2>2 DEF LinksSound
  <2> QED
    BY <1>4, <2>1, <2>2
<1>10. ASSUME NEW p \in pairs \cup {Ends(new)}
       PROVE  \E i \in 1 .. m + 1 : Ends(more[i]) = p
  <2>1. CASE p = Ends(new)
    BY <1>3, <2>1
  <2>2. CASE p \in pairs
    <3>1. PICK i \in 1 .. m : Ends(links[i]) = p
      BY <1>1, <2>2 DEF LinksSound
    <3> QED
      BY <1>3, <1>5, <3>1
  <2> QED
    BY <2>1, <2>2
<1>11. \A a, b \in Points : after[a][b] # NoInfo => {a, b} \in pairs \cup {Ends(new)}
  <2>1. \A a, b \in Points : said[a][b] # NoInfo => {a, b} \in pairs
    BY DEF LinksSound
  <2> QED
    BY <1>0, <2>1
<1> QED
    BY <1>2, <1>3, <1>7, <1>9, <1>10, <1>11 DEF LinksSound

\* A link that is there, with what one of its ends says of it.
LEMMA LinkMerged ==
    ASSUME NEW links, NEW ids, NEW pairs, NEW said, LinksSound(links, ids, pairs, said),
           NEW n \in Points, NEW t \in Points, n # t, n \notin AccessPoints, t \notin AccessPoints,
           NEW s \in Strengths, NEW k \in 1 .. Len(links), Ends(links[k]) = {n, t},
           NEW after, SaysMore(after, said, n, t, s)
    PROVE  LinksSound([links EXCEPT ![k] = Merged(links[k], Link(n, t, "thread", s, s, FALSE))],
                      ids, pairs, after)
<1>0. /\ after[n][t] = s
      /\ \A a, b \in Points : (a # n \/ b # t) => after[a][b] = said[a][b]
    BY DEF SaysMore
<1>1. PICK m \in Nat : m = Len(links)
    BY DEF LinksSound
<1>2. PICK l \in LinkRecords : l = links[k]
    BY DEF LinksSound
<1>3. PICK new : new = Link(n, t, "thread", s, s, FALSE)
    OBVIOUS
<1>4. new.source = n /\ new.out = s /\ new.strength = s
    BY <1>3 DEF Link
<1>5. PICK merged : merged = Merged(l, new)
    OBVIOUS
<1>6. /\ l.source \in Points /\ l.target \in Points /\ l.network \in Networks /\ l.route \in BOOLEAN
      /\ l.strength \in Strengths /\ l.out \in Strengths /\ l.back \in Strengths
      /\ l = [source |-> l.source, target |-> l.target, network |-> l.network,
              strength |-> l.strength, out |-> l.out, back |-> l.back, route |-> l.route]
    BY <1>2 DEF LinkRecords
<1>7. PICK best \in Strengths : best = Strongest(l.strength, s)
    BY <1>6, StrengthIs
<1>8. merged = [source |-> l.source, target |-> l.target, network |-> l.network, strength |-> best,
                out |-> IF l.source = n THEN s ELSE l.out,
                back |-> IF l.source = n THEN l.back ELSE s, route |-> l.route]
    BY <1>4, <1>5, <1>6, <1>7 DEF Merged
<1>9. merged \in LinkRecords /\ Ends(merged) = Ends(l)
    BY <1>6, <1>7, <1>8 DEF LinkRecords, Ends
<1>10. (l.source = n /\ l.target = t) \/ (l.source = t /\ l.target = n)
    BY <1>2, SamePair DEF Ends
<1>11. LinkSound(l, said)
    BY <1>2 DEF LinksSound
<1>12. l.network = "thread"
    BY <1>10, <1>11 DEF LinkSound
<1>13. /\ l.out = said[l.source][l.target] /\ l.back = said[l.target][l.source]
       /\ l.out # NoInfo => StrengthRank(l.strength) >= StrengthRank(l.out)
       /\ l.back # NoInfo => StrengthRank(l.strength) >= StrengthRank(l.back)
    BY <1>11, <1>12 DEF LinkSound
<1>14. /\ StrengthRank(best) >= StrengthRank(l.strength) /\ StrengthRank(best) >= StrengthRank(s)
       /\ \A x \in {best, s, l.strength, l.out, l.back} : StrengthRank(x) \in Nat
    BY <1>6, <1>7, StrengthIs
<1>15. LinkSound(merged, after)
  <2>1. CASE l.source = n /\ l.target = t
    <3>1. /\ merged.out = s /\ merged.back = l.back /\ merged.source = n /\ merged.target = t
          /\ merged.strength = best /\ merged.network = "thread"
      BY <1>8, <1>12, <2>1
    <3>2. after[t][n] = said[t][n]
      BY <1>0
    <3> QED
      BY <1>0, <1>13, <1>14, <2>1, <3>1, <3>2 DEF LinkSound
  <2>2. CASE l.source = t /\ l.target = n
    <3>1. /\ merged.out = l.out /\ merged.back = s /\ merged.source = t /\ merged.target = n
          /\ merged.strength = best /\ merged.network = "thread"
      BY <1>8, <1>12, <2>2
    <3>2. after[t][n] = said[t][n]
      BY <1>0
    <3> QED
      BY <1>0, <1>13, <1>14, <2>2, <3>1, <3>2 DEF LinkSound
  <2> QED
    BY <1>10, <2>1, <2>2
<1>16. PICK more : more = [links EXCEPT ![k] = merged]
    OBVIOUS
<1>17. /\ more \in Seq(LinkRecords) /\ Len(more) = m /\ more[k] = merged
       /\ \A i \in 1 .. m : i # k => more[i] = links[i]
  <2>1. links \in Seq(LinkRecords)
    BY DEF LinksSound
  <2> QED
    BY <1>1, <1>9, <1>16, <2>1
<1>18. \A i \in 1 .. m : Ends(more[i]) = Ends(links[i])
    BY <1>2, <1>9, <1>17
<1>19. ASSUME NEW i \in 1 .. m, i # k PROVE LinkSound(links[i], after)
  <2>1. PICK j \in LinkRecords : j = links[i]
    BY <1>1 DEF LinksSound
  <2>2. LinkSound(j, said) /\ Ends(j) # {n, t}
    BY <1>1, <1>19, <2>1 DEF LinksSound
  <2>3. j.source \in Points /\ j.target \in Points
    BY <2>1 DEF LinkRecords
  <2>4. (j.source # n \/ j.target # t) /\ (j.target # n \/ j.source # t)
    BY <2>2 DEF Ends
  <2>5. /\ after[j.source][j.target] = said[j.source][j.target]
        /\ after[j.target][j.source] = said[j.target][j.source]
    BY <1>0, <2>3, <2>4
  <2> QED
    BY <2>1, <2>2, <2>5 DEF LinkSound
<1>20. ASSUME NEW i \in 1 .. m
       PROVE  /\ Ends(more[i]) \subseteq ids /\ Ends(more[i]) \in pairs /\ LinkSound(more[i], after)
  <2>1. LinkSound(more[i], after)
    BY <1>15, <1>17, <1>19
  <2>2. Ends(links[i]) \subseteq ids /\ Ends(links[i]) \in pairs
    BY <1>1 DEF LinksSound
  <2> QED
    BY <1>18, <2>1, <2>2
<1>21. \A a, b \in Points : after[a][b] # NoInfo => {a, b} \in pairs
  <2>1. {n, t} \in pairs
    <3>1. Ends(links[k]) \in pairs
      BY DEF LinksSound
    <3> QED
      BY <3>1
  <2>2. \A a, b \in Points : said[a][b] # NoInfo => {a, b} \in pairs
    BY DEF LinksSound
  <2> QED
    BY <1>0, <2>1, <2>2
<1>22. LinksSound(more, ids, pairs, after)
    BY <1>1, <1>17, <1>18, <1>20, <1>21 DEF LinksSound
<1> QED
    BY <1>2, <1>3, <1>5, <1>16, <1>22

\* Links stay sound where vertices are added.
LEMMA LinksWithMore ==
    ASSUME NEW links, NEW ids, NEW pairs, NEW said, LinksSound(links, ids, pairs, said),
           NEW more, ids \subseteq more
    PROVE  LinksSound(links, more, pairs, said)
    BY DEF LinksSound

\* What an address in a table of n stands for.
LEMMA TargetIs ==
    ASSUME ViewOK, NEW n \in Meshed, NEW e \in EntriesOf(n), Decoded(e.ext)
    PROVE  /\ ResolveTarget(e.ext) \in Points /\ ResolveTarget(e.ext) # n
           /\ ResolveTarget(e.ext) \notin AccessPoints
           /\ IF Claimants(e.ext) # {} THEN ResolveTarget(e.ext) \in Meshed
              ELSE ResolveTarget(e.ext) = e.ext /\ e.ext \notin Meshed
<1>1. e \in Entries /\ e.ext # ExtAddress[n] /\ e.ext # Unread /\ e.ext # Bad
    BY DEF EntriesOf, Decoded
<1>2. PICK a : a = e.ext
    OBVIOUS
<1>3. a \in Points /\ a \notin Meshed /\ a \notin AccessPoints
    BY <1>1, <1>2, TopologyAssumption DEF Points, Meshed
<1>4. PICK places : places = Claimants(a)
    OBVIOUS
<1>5. CASE places = {}
  <2>1. ResolveTarget(a) = a
    BY <1>4, <1>5 DEF ResolveTarget
  <2> QED
    BY <1>2, <1>3, <1>4, <1>5, <2>1
<1>6. CASE places # {}
  <2>1. Len(TopoNodes) \in Nat
    BY TopologyAssumption
  <2>2. places \in SUBSET Nat
    BY <1>4, <2>1 DEF Claimants
  <2>3. PICK i \in places : i = Min(places)
    BY <1>6, <2>2, MinIsLeast
  <2>4. i \in 1 .. Len(TopoNodes) /\ reading[TopoNodes[i]].ext = a
    BY <1>4, <2>3 DEF Claimants
  <2>5. PICK t : t = TopoNodes[i]
    OBVIOUS
  <2>6. ResolveTarget(a) = t
    BY <1>4, <1>6, <2>3, <2>5 DEF ResolveTarget
  <2>7. t \in Meshed
    BY <2>4, <2>5, TopologyAssumption DEF Meshed
  <2>8. t # n
    <3>1. reading[n] \in NodeViews(n)
      BY DEF ViewOK
    <3>2. reading[n].ext \in {Unread, Bad, ExtAddress[n]}
      BY <3>1 DEF NodeViews
    <3> QED
      BY <1>1, <1>2, <2>4, <2>5, <3>2
  <2>9. t \in Points /\ t \notin AccessPoints
    BY <2>7, TopologyAssumption DEF Points, Meshed
  <2> QED
    BY <1>2, <1>4, <1>6, <2>6, <2>7, <2>8, <2>9
<1> QED
    BY <1>5, <1>6

\* A vertex for what an address in a table of n stands for.
LEMMA TargetAdded ==
    ASSUME ViewOK, NEW n \in Meshed, NEW e \in EntriesOf(n), Decoded(e.ext),
           NEW vertices, VerticesSound(vertices, Meshed)
    PROVE  /\ VerticesSound(WithTarget(vertices, e.ext), Meshed)
           /\ IdsIn(vertices) \cup {ResolveTarget(e.ext)} \subseteq IdsIn(WithTarget(vertices, e.ext))
           /\ Meshed \subseteq IdsIn(vertices)
<1>1. Meshed \subseteq IdsIn(vertices)
    BY DEF VerticesSound
<1>2. CASE Claimants(e.ext) # {}
  <2>1. WithTarget(vertices, e.ext) = vertices
    BY <1>2 DEF WithTarget
  <2>2. ResolveTarget(e.ext) \in Meshed
    BY <1>2, TargetIs
  <2> QED
    BY <1>1, <2>1, <2>2
<1>3. CASE Claimants(e.ext) = {}
  <2>1. PICK a \in Points : a = e.ext /\ a = ResolveTarget(e.ext) /\ a \notin Meshed
    BY <1>3, TargetIs
  <2>2. PICK v : v = Vertex(a, "thread_unknown", "thread")
    OBVIOUS
  <2>3. v \in VertexRecords /\ v.id = a
    BY <2>1, <2>2 DEF Vertex, VertexRecords, Networks
  <2>4. PICK new : new = Invent(vertices, v)
    OBVIOUS
  <2>5. VerticesSound(new, Meshed) /\ IdsIn(new) = IdsIn(vertices) \cup {v.id}
    BY <2>1, <2>3, <2>4, VertexInvented
  <2>6. WithTarget(vertices, e.ext) = new
    BY <1>3, <2>1, <2>2, <2>4 DEF WithTarget
  <2> QED
    BY <1>1, <2>1, <2>3, <2>5, <2>6
<1> QED
    BY <1>2, <1>3

\* An entry of a neighbour table.
LEMMA NeighbourAdded ==
    ASSUME ViewOK, NEW n \in Meshed, NEW e \in EntriesOf(n), Decoded(e.ext),
           NEW graph, NEW pairs, NEW said, GraphSound(graph, Meshed, pairs, said),
           NEW after, SaysMore(after, said, n, ResolveTarget(e.ext), ThreadStrength(e.lqi))
    PROVE  GraphSound(AddNeighbour(graph, n, e), Meshed, pairs \cup {{n, ResolveTarget(e.ext)}}, after)
<1>1. PICK t \in Points : t = ResolveTarget(e.ext) /\ t # n /\ t \notin AccessPoints
    BY TargetIs
<1>2. n \in Points /\ n \notin AccessPoints
    BY TopologyAssumption DEF Points, Meshed
<1>3. PICK s \in Strengths : s = ThreadStrength(e.lqi)
    BY StrengthIs, TopologyAssumption DEF EntriesOf
<1>4. PICK vertices : vertices = WithTarget(graph.vertices, e.ext)
    OBVIOUS
<1>5. PICK ids : ids = IdsIn(vertices)
    OBVIOUS
<1>6. VerticesSound(vertices, Meshed) /\ n \in ids /\ t \in ids /\ IdsIn(graph.vertices) \subseteq ids
    BY <1>1, <1>4, <1>5, TargetAdded DEF GraphSound
<1>7. PICK links : links = graph.links
    OBVIOUS
<1>8. LinksSound(links, ids, pairs, said)
  <2>1. LinksSound(links, IdsIn(graph.vertices), pairs, said)
    BY <1>7 DEF GraphSound
  <2> QED
    BY <1>6, <2>1, LinksWithMore
<1>9. PICK new : new = Link(n, t, "thread", s, s, FALSE)
    OBVIOUS
<1>10. new = [source |-> n, target |-> t, network |-> "thread", strength |-> s, out |-> s,
              back |-> NoInfo, route |-> FALSE]
    BY <1>9 DEF Link
<1>11. new \in LinkRecords /\ Ends(new) = {n, t} /\ new.source = n /\ new.target = t
  <2>1. NoInfo \in Strengths /\ "thread" \in Networks
    BY DEF NoInfo, Strengths, Networks
  <2> QED
    BY <1>1, <1>2, <1>3, <1>10, <2>1 DEF LinkRecords, Ends
<1>12. SaysMore(after, said, n, t, s)
    BY <1>1, <1>3
<1>13. PICK same : same = {i \in 1 .. Len(links) : Ends(links[i]) = {n, t}}
    OBVIOUS
<1>14. same = {i \in 1 .. Len(links) : LinksSamePair(links[i], new.source, new.target)}
    BY <1>11, <1>13 DEF LinksSamePair, Ends
<1>15. PICK drawn : drawn = MergeConnection(links, new)
    OBVIOUS
<1>16. LinksSound(drawn, ids, pairs \cup {{n, t}}, after)
  <2>1. CASE same = {}
    <3>1. drawn = Append(links, new)
      BY <1>14, <1>15, <2>1 DEF MergeConnection
    <3>2. {n, t} \notin pairs
      BY <1>8, <1>13, <2>1 DEF LinksSound
    <3>3. said[t][n] = NoInfo
      <4>1. {t, n} = {n, t}
        OBVIOUS
      <4> QED
        BY <1>1, <1>2, <1>8, <3>2, <4>1 DEF LinksSound
    <3>4. after[t][n] = NoInfo
      BY <1>1, <1>2, <1>12, <3>3 DEF SaysMore
    <3>5. StrengthRank(s) \in Nat
      BY StrengthIs
    <3>6. LinkSound(new, after)
      BY <1>1, <1>2, <1>10, <1>12, <3>4, <3>5 DEF LinkSound, SaysMore
    <3>7. SaysElse(after, said, Ends(new))
      BY <1>11, <1>12 DEF SaysElse, SaysMore
    <3>8. Ends(new) \subseteq ids /\ Ends(new) \notin pairs
      BY <1>6, <1>11, <3>2
    <3>9. LinksSound(Append(links, new), ids, pairs \cup {Ends(new)}, after)
      BY <1>8, <1>11, <3>6, <3>7, <3>8, LinkAppended
    <3> QED
      BY <1>11, <3>1, <3>9
  <2>2. CASE same # {}
    <3>1. same \in SUBSET Nat
      BY <1>13
    <3>2. PICK k \in 1 .. Len(links) : k = Min(same) /\ Ends(links[k]) = {n, t}
      BY <1>13, <2>2, <3>1, MinIsLeast
    <3>3. drawn = [links EXCEPT ![k] = Merged(links[k], new)]
      BY <1>14, <1>15, <2>2, <3>2 DEF MergeConnection
    <3>4. {n, t} \in pairs
      <4>1. Ends(links[k]) \in pairs
        BY <1>8 DEF LinksSound
      <4> QED
        BY <3>2, <4>1
    <3>5. LinksSound([links EXCEPT ![k] = Merged(links[k], Link(n, t, "thread", s, s, FALSE))],
                     ids, pairs, after)
      BY <1>1, <1>2, <1>8, <1>12, <3>2, LinkMerged
    <3>6. pairs \cup {{n, t}} = pairs
      BY <3>4
    <3> QED
      BY <1>9, <3>3, <3>5, <3>6
  <2> QED
    BY <2>1, <2>2
<1>17. AddNeighbour(graph, n, e) = [vertices |-> vertices, links |-> drawn]
    BY <1>1, <1>3, <1>4, <1>7, <1>9, <1>15 DEF AddNeighbour
<1>18. [vertices |-> vertices, links |-> drawn] \in Graphs
  <2>1. vertices \in Seq(VertexRecords) /\ drawn \in Seq(LinkRecords)
    BY <1>6, <1>16 DEF VerticesSound, LinksSound
  <2> QED
    BY <2>1 DEF Graphs
<1> QED
    BY <1>1, <1>5, <1>6, <1>16, <1>17, <1>18 DEF GraphSound

\* An entry of a route table.
LEMMA RouteAdded ==
    ASSUME ViewOK, NEW n \in Meshed, NEW e \in EntriesOf(n), Decoded(e.ext),
           NEW graph, NEW pairs, NEW said, GraphSound(graph, Meshed, pairs, said)
    PROVE  GraphSound(AddRoute(graph, n, e), Meshed, pairs \cup {{n, ResolveTarget(e.ext)}}, said)
<1>1. PICK t \in Points : t = ResolveTarget(e.ext) /\ t # n /\ t \notin AccessPoints
    BY TargetIs
<1>2. n \in Points /\ n \notin AccessPoints
    BY TopologyAssumption DEF Points, Meshed
<1>3. PICK s \in Strengths : s = ThreadStrength(e.lqi)
    BY StrengthIs, TopologyAssumption DEF EntriesOf
<1>4. PICK vertices : vertices = WithTarget(graph.vertices, e.ext)
    OBVIOUS
<1>5. PICK ids : ids = IdsIn(vertices)
    OBVIOUS
<1>6. VerticesSound(vertices, Meshed) /\ n \in ids /\ t \in ids /\ IdsIn(graph.vertices) \subseteq ids
    BY <1>1, <1>4, <1>5, TargetAdded DEF GraphSound
<1>7. PICK links : links = graph.links
    OBVIOUS
<1>8. LinksSound(links, ids, pairs, said)
  <2>1. LinksSound(links, IdsIn(graph.vertices), pairs, said)
    BY <1>7 DEF GraphSound
  <2> QED
    BY <1>6, <2>1, LinksWithMore
<1>9. PICK new : new = Link(n, t, "thread", s, NoInfo, TRUE)
    OBVIOUS
<1>10. new = [source |-> n, target |-> t, network |-> "thread", strength |-> s, out |-> NoInfo,
              back |-> NoInfo, route |-> TRUE]
    BY <1>9 DEF Link
<1>11. new \in LinkRecords /\ Ends(new) = {n, t}
  <2>1. NoInfo \in Strengths /\ "thread" \in Networks
    BY DEF NoInfo, Strengths, Networks
  <2> QED
    BY <1>1, <1>2, <1>3, <1>10, <2>1 DEF LinkRecords, Ends
<1>12. DrawsRoute(links, n, e) <=> \A i \in 1 .. Len(links) : Ends(links[i]) # {n, t}
    BY <1>1 DEF DrawsRoute, LinksSamePair, Ends
<1>13. PICK drawn : drawn = IF DrawsRoute(links, n, e) THEN Append(links, new) ELSE links
    OBVIOUS
<1>14. LinksSound(drawn, ids, pairs \cup {{n, t}}, said)
  <2>1. CASE \A i \in 1 .. Len(links) : Ends(links[i]) # {n, t}
    <3>1. drawn = Append(links, new)
      BY <1>12, <1>13, <2>1
    <3>2. {n, t} \notin pairs
      BY <1>8, <2>1 DEF LinksSound
    <3>3. said[n][t] = NoInfo /\ said[t][n] = NoInfo
      <4>1. {t, n} = {n, t}
        OBVIOUS
      <4> QED
        BY <1>1, <1>2, <1>8, <3>2, <4>1 DEF LinksSound
    <3>4. LinkSound(new, said)
      BY <1>1, <1>2, <1>10, <3>3 DEF LinkSound
    <3>5. Ends(new) \subseteq ids /\ Ends(new) \notin pairs
      BY <1>6, <1>11, <3>2
    <3>6. SaysElse(said, said, Ends(new))
      BY DEF SaysElse
    <3>7. LinksSound(Append(links, new), ids, pairs \cup {Ends(new)}, said)
      BY <1>8, <1>11, <3>4, <3>5, <3>6, LinkAppended
    <3> QED
      BY <1>11, <3>1, <3>7
  <2>2. CASE \E i \in 1 .. Len(links) : Ends(links[i]) = {n, t}
    <3>1. drawn = links
      BY <1>12, <1>13, <2>2
    <3>2. {n, t} \in pairs
      <4>1. PICK i \in 1 .. Len(links) : Ends(links[i]) = {n, t}
        BY <2>2
      <4>2. Ends(links[i]) \in pairs
        BY <1>8 DEF LinksSound
      <4> QED
        BY <4>1, <4>2
    <3>3. pairs \cup {{n, t}} = pairs
      BY <3>2
    <3> QED
      BY <1>8, <3>1, <3>3
  <2> QED
    BY <2>1, <2>2
<1>15. AddRoute(graph, n, e) = [vertices |-> vertices, links |-> drawn]
    BY <1>1, <1>3, <1>4, <1>7, <1>9, <1>13 DEF AddRoute
<1>16. [vertices |-> vertices, links |-> drawn] \in Graphs
  <2>1. vertices \in Seq(VertexRecords) /\ drawn \in Seq(LinkRecords)
    BY <1>6, <1>14 DEF VerticesSound, LinksSound
  <2> QED
    BY <2>1 DEF Graphs
<1> QED
    BY <1>1, <1>5, <1>6, <1>14, <1>15, <1>16 DEF GraphSound

\* What the first entries of a table say.
SeenUpTo(table, i, t) ==
    {j \in 1 .. i : Decoded(table[j].ext) /\ ResolveTarget(table[j].ext) = t}
SaidUpTo(table, i) ==
    [t \in Points |-> LET seen == SeenUpTo(table, i, t)
                      IN  IF seen = {} THEN NoInfo ELSE ThreadStrength(table[Max(seen)].lqi)]
ReportsUpTo(n, table, i) ==
    {{n, ResolveTarget(table[j].ext)} : j \in {k \in 1 .. i : Decoded(table[k].ext)}}

\* What one entry adds to it.
LEMMA EntrySays ==
    ASSUME NEW n, NEW table, NEW i \in Nat, i >= 1
    PROVE  IF Decoded(table[i].ext)
           THEN /\ ReportsUpTo(n, table, i)
                      = ReportsUpTo(n, table, i - 1) \cup {{n, ResolveTarget(table[i].ext)}}
                /\ \A t \in Points : SaidUpTo(table, i)[t] =
                      IF t = ResolveTarget(table[i].ext) THEN ThreadStrength(table[i].lqi)
                      ELSE SaidUpTo(table, i - 1)[t]
           ELSE /\ ReportsUpTo(n, table, i) = ReportsUpTo(n, table, i - 1)
                /\ SaidUpTo(table, i) = SaidUpTo(table, i - 1)
<1>1. \A j \in 1 .. i : j \in 1 .. i - 1 \/ j = i
    OBVIOUS
<1>2. (\A j \in 1 .. i - 1 : j \in 1 .. i) /\ i \in 1 .. i
    OBVIOUS
<1>3. CASE ~ Decoded(table[i].ext)
  <2>1. {k \in 1 .. i : Decoded(table[k].ext)} = {k \in 1 .. i - 1 : Decoded(table[k].ext)}
    BY <1>1, <1>2, <1>3
  <2>2. \A t : SeenUpTo(table, i, t) = SeenUpTo(table, i - 1, t)
    BY <1>1, <1>2, <1>3 DEF SeenUpTo
  <2>3. SaidUpTo(table, i) = SaidUpTo(table, i - 1)
    BY <2>2 DEF SaidUpTo
  <2> QED
    BY <1>3, <2>1, <2>3 DEF ReportsUpTo
<1>4. CASE Decoded(table[i].ext)
  <2>1. PICK t : t = ResolveTarget(table[i].ext)
    OBVIOUS
  <2>2. {k \in 1 .. i : Decoded(table[k].ext)} = {k \in 1 .. i - 1 : Decoded(table[k].ext)} \cup {i}
    BY <1>1, <1>2, <1>4
  <2>3. ReportsUpTo(n, table, i) = ReportsUpTo(n, table, i - 1) \cup {{n, t}}
    BY <2>1, <2>2 DEF ReportsUpTo
  <2>4. ASSUME NEW u \in Points, u = t
        PROVE  SaidUpTo(table, i)[u] = ThreadStrength(table[i].lqi)
    <3>1. PICK seen \in SUBSET (1 .. i) : seen = SeenUpTo(table, i, u)
      BY DEF SeenUpTo
    <3>2. i \in seen
      BY <1>2, <1>4, <2>1, <2>4, <3>1 DEF SeenUpTo
    <3>3. Max(seen) = i
      BY <3>2, MaxIs
    <3> QED
      BY <3>1, <3>2, <3>3 DEF SaidUpTo
  <2>5. ASSUME NEW u \in Points, u # t
        PROVE  SaidUpTo(table, i)[u] = SaidUpTo(table, i - 1)[u]
    <3>1. SeenUpTo(table, i, u) = SeenUpTo(table, i - 1, u)
      BY <1>1, <1>2, <2>1, <2>5 DEF SeenUpTo
    <3> QED
      BY <3>1 DEF SaidUpTo
  <2> QED
    BY <1>4, <2>1, <2>3, <2>4, <2>5
<1> QED
    BY <1>3, <1>4

\* Before the first entry a table has said nothing.
LEMMA NothingSaidYet ==
    ASSUME NEW n, NEW table
    PROVE  ReportsUpTo(n, table, 0) = {} /\ SaidUpTo(table, 0) = [t \in Points |-> NoInfo]
<1>1. \A t : SeenUpTo(table, 0, t) = {}
    BY DEF SeenUpTo
<1> QED
    BY <1>1 DEF ReportsUpTo, SaidUpTo

\* A whole neighbour table.
LEMMA NeighboursAdded ==
    ASSUME ViewOK, NEW n \in Meshed, NEW graph, NEW pairs, NEW said,
           said = [a \in Points |-> said[a]], said[n] = [t \in Points |-> NoInfo],
           GraphSound(graph, Meshed, pairs, said), NEW table, table = reading[n].neighbours
    PROVE  GraphSound(AddNeighbours(graph, n), Meshed, pairs \cup ReportsUpTo(n, table, Len(table)),
                      [said EXCEPT ![n] = SaidUpTo(table, Len(table))])
<1>1. table \in Seq(EntriesOf(n))
    BY DEF ViewOK, NodeViews
<1>2. PICK m \in Nat : m = Len(table)
    BY <1>1
<1>3. n \in Points
    BY DEF Points
<1> DEFINE Heard(i) == [said EXCEPT ![n] = SaidUpTo(table, i)]
           Turn(h, i) == AddNeighbour(h, n, table[i])
           Loop(f) == f = [i \in 0 .. m |-> IF i = 0 THEN graph ELSE AddNeighbour(f[i - 1], n, table[i])]
<1>4. PICK Good : Good = [i \in 0 .. m |->
                             {g \in Graphs : GraphSound(g, Meshed, pairs \cup ReportsUpTo(n, table, i),
                                                        Heard(i))}]
    OBVIOUS
<1>5. ASSUME NEW i \in 0 .. m, NEW g
      PROVE  g \in Good[i] <=> GraphSound(g, Meshed, pairs \cup ReportsUpTo(n, table, i), Heard(i))
  <2> HIDE DEF Heard
  <2>1. GraphSound(g, Meshed, pairs \cup ReportsUpTo(n, table, i), Heard(i)) => g \in Graphs
    BY DEF GraphSound
  <2> QED
    BY <1>4, <2>1
<1>6. graph \in Good[0]
  <2>1. Heard(0) = said /\ pairs \cup ReportsUpTo(n, table, 0) = pairs
    BY <1>3, NothingSaidYet
  <2> HIDE DEF Heard
  <2> QED
    BY <1>5, <2>1
<1>7. ASSUME NEW i \in 1 .. m, NEW h \in Good[i - 1]
      PROVE  Turn(h, i) \in Good[i]
  <2>1. i - 1 \in 0 .. m /\ i \in 0 .. m
    OBVIOUS
  <2>2. PICK e \in EntriesOf(n) : e = table[i]
    BY <1>1, <1>2
  <2>3. PICK before : before = pairs \cup ReportsUpTo(n, table, i - 1)
    OBVIOUS
  <2>4. GraphSound(h, Meshed, before, Heard(i - 1))
    BY <1>5, <2>1, <2>3
  <2>5. GraphSound(AddNeighbour(h, n, e), Meshed, pairs \cup ReportsUpTo(n, table, i), Heard(i))
    <3>1. CASE Decoded(e.ext)
      <4>1. PICK t \in Points : t = ResolveTarget(e.ext)
        BY <3>1, TargetIs
      <4>2. /\ ReportsUpTo(n, table, i) = ReportsUpTo(n, table, i - 1) \cup {{n, t}}
            /\ \A u \in Points : SaidUpTo(table, i)[u] =
                  IF u = t THEN ThreadStrength(e.lqi) ELSE SaidUpTo(table, i - 1)[u]
        <5>1. i \in Nat /\ i >= 1 /\ Decoded(table[i].ext) /\ t = ResolveTarget(table[i].ext)
          BY <2>2, <3>1, <4>1
        <5> QED
          BY <2>2, <5>1, EntrySays
      <4>3. before \cup {{n, t}} = pairs \cup ReportsUpTo(n, table, i)
        BY <2>3, <4>2
      <4>4. SaysMore(Heard(i), Heard(i - 1), n, t, ThreadStrength(e.lqi))
        BY <1>3, <4>1, <4>2 DEF SaysMore
      <4> HIDE DEF Heard
      <4>5. GraphSound(AddNeighbour(h, n, e), Meshed, before \cup {{n, t}}, Heard(i))
        BY <2>4, <3>1, <4>1, <4>4, NeighbourAdded
      <4> QED
        BY <4>3, <4>5
    <3>2. CASE ~ Decoded(e.ext)
      <4>1. AddNeighbour(h, n, e) = h
        BY <3>2 DEF AddNeighbour
      <4>2. /\ ReportsUpTo(n, table, i) = ReportsUpTo(n, table, i - 1)
            /\ SaidUpTo(table, i) = SaidUpTo(table, i - 1)
        <5>1. i \in Nat /\ i >= 1 /\ ~ Decoded(table[i].ext)
          BY <2>2, <3>2
        <5> QED
          BY <5>1, EntrySays
      <4> QED
        BY <2>3, <2>4, <4>1, <4>2
    <3> QED
      BY <3>1, <3>2
  <2> HIDE DEF Heard
  <2> QED
    BY <1>5, <2>1, <2>2, <2>5
<1> HIDE DEF Heard
<1>8. \E f : Loop(f)
  <2>1. PICK op : op = [i \in 1 .. m |-> [h \in Good[i - 1] |-> Turn(h, i)]]
    OBVIOUS
  <2> HIDE DEF Turn
  <2>2. \A i \in 1 .. m : \A h \in Good[i - 1] : op[i][h] = Turn(h, i)
    BY <2>1
  <2>3. LeadsOn(op, Good, m)
    BY <1>7, <2>2 DEF LeadsOn
  <2>4. PICK f : LeadsFrom(f, graph, op, Good, m)
    BY <1>6, <2>3, GuardedLoop
  <2>5. /\ f = [i \in 0 .. m |-> f[i]] /\ f[0] = graph
        /\ \A i \in 0 .. m : f[i] \in Good[i]
        /\ \A i \in 1 .. m : f[i] = op[i][f[i - 1]]
    BY <2>4 DEF LeadsFrom
  <2>6. ASSUME NEW i \in 0 .. m
        PROVE  f[i] = IF i = 0 THEN graph ELSE Turn(f[i - 1], i)
    <3>1. i # 0 => i \in 1 .. m /\ i - 1 \in 0 .. m
      OBVIOUS
    <3> QED
      BY <2>2, <2>5, <3>1
  <2>7. f = [i \in 0 .. m |-> IF i = 0 THEN graph ELSE Turn(f[i - 1], i)]
    BY <2>5, <2>6
  <2> QED
    BY <2>7 DEF Turn
<1>9. PICK f : f = CHOOSE g : Loop(g)
    OBVIOUS
<1>10. Loop(f)
  <2> HIDE DEF Loop
  <2> QED
    BY <1>8, <1>9
<1>11. AddNeighbours(graph, n) = f[m]
    BY <1>2, <1>9 DEF AddNeighbours
<1>12. f[0] = graph /\ \A i \in 1 .. m : f[i] = Turn(f[i - 1], i)
    BY <1>10
<1> HIDE DEF Loop, Turn
<1>13. \A i \in 0 .. m : f[i] \in Good[i]
    BY <1>6, <1>7, <1>12, LoopReaches
<1>14. GraphSound(f[m], Meshed, pairs \cup ReportsUpTo(n, table, m), Heard(m))
  <2>1. m \in 0 .. m
    OBVIOUS
  <2> QED
    BY <1>5, <1>13, <2>1
<1> QED
    BY <1>2, <1>11, <1>14 DEF Heard

\* A whole route table.
LEMMA RoutesAdded ==
    ASSUME ViewOK, NEW n \in Meshed, NEW graph, NEW pairs, NEW said,
           GraphSound(graph, Meshed, pairs, said), NEW table, table = reading[n].routes
    PROVE  GraphSound(AddRoutes(graph, n), Meshed, pairs \cup ReportsUpTo(n, table, Len(table)), said)
<1>1. table \in Seq(EntriesOf(n))
    BY DEF ViewOK, NodeViews
<1>2. PICK m \in Nat : m = Len(table)
    BY <1>1
<1> DEFINE Turn(h, i) == AddRoute(h, n, table[i])
           Loop(f) == f = [i \in 0 .. m |-> IF i = 0 THEN graph ELSE AddRoute(f[i - 1], n, table[i])]
<1>4. PICK Good : Good = [i \in 0 .. m |->
                             {g \in Graphs : GraphSound(g, Meshed, pairs \cup ReportsUpTo(n, table, i),
                                                        said)}]
    OBVIOUS
<1>5. ASSUME NEW i \in 0 .. m, NEW g
      PROVE  g \in Good[i] <=> GraphSound(g, Meshed, pairs \cup ReportsUpTo(n, table, i), said)
  <2>1. GraphSound(g, Meshed, pairs \cup ReportsUpTo(n, table, i), said) => g \in Graphs
    BY DEF GraphSound
  <2> QED
    BY <1>4, <2>1
<1>6. graph \in Good[0]
  <2>1. pairs \cup ReportsUpTo(n, table, 0) = pairs
    BY NothingSaidYet
  <2> QED
    BY <1>5, <2>1
<1>7. ASSUME NEW i \in 1 .. m, NEW h \in Good[i - 1]
      PROVE  Turn(h, i) \in Good[i]
  <2>1. i - 1 \in 0 .. m /\ i \in 0 .. m
    OBVIOUS
  <2>2. PICK e \in EntriesOf(n) : e = table[i]
    BY <1>1, <1>2
  <2>3. PICK before : before = pairs \cup ReportsUpTo(n, table, i - 1)
    OBVIOUS
  <2>4. GraphSound(h, Meshed, before, said)
    BY <1>5, <2>1, <2>3
  <2>5. GraphSound(AddRoute(h, n, e), Meshed, pairs \cup ReportsUpTo(n, table, i), said)
    <3>1. CASE Decoded(e.ext)
      <4>1. PICK t \in Points : t = ResolveTarget(e.ext)
        BY <3>1, TargetIs
      <4>2. /\ ReportsUpTo(n, table, i) = ReportsUpTo(n, table, i - 1) \cup {{n, t}}
            /\ \A u \in Points : SaidUpTo(table, i)[u] =
                  IF u = t THEN ThreadStrength(e.lqi) ELSE SaidUpTo(table, i - 1)[u]
        <5>1. i \in Nat /\ i >= 1 /\ Decoded(table[i].ext) /\ t = ResolveTarget(table[i].ext)
          BY <2>2, <3>1, <4>1
        <5> QED
          BY <2>2, <5>1, EntrySays
      <4>3. before \cup {{n, t}} = pairs \cup ReportsUpTo(n, table, i)
        BY <2>3, <4>2
      <4>5. GraphSound(AddRoute(h, n, e), Meshed, before \cup {{n, t}}, said)
        BY <2>4, <3>1, <4>1, RouteAdded
      <4> QED
        BY <4>3, <4>5
    <3>2. CASE ~ Decoded(e.ext)
      <4>1. AddRoute(h, n, e) = h
        BY <3>2 DEF AddRoute
      <4>2. /\ ReportsUpTo(n, table, i) = ReportsUpTo(n, table, i - 1)
            /\ SaidUpTo(table, i) = SaidUpTo(table, i - 1)
        <5>1. i \in Nat /\ i >= 1 /\ ~ Decoded(table[i].ext)
          BY <2>2, <3>2
        <5> QED
          BY <5>1, EntrySays
      <4> QED
        BY <2>3, <2>4, <4>1, <4>2
    <3> QED
      BY <3>1, <3>2
  <2> QED
    BY <1>5, <2>1, <2>2, <2>5
<1>8. \E f : Loop(f)
  <2>1. PICK op : op = [i \in 1 .. m |-> [h \in Good[i - 1] |-> Turn(h, i)]]
    OBVIOUS
  <2> HIDE DEF Turn
  <2>2. \A i \in 1 .. m : \A h \in Good[i - 1] : op[i][h] = Turn(h, i)
    BY <2>1
  <2>3. LeadsOn(op, Good, m)
    BY <1>7, <2>2 DEF LeadsOn
  <2>4. PICK f : LeadsFrom(f, graph, op, Good, m)
    BY <1>6, <2>3, GuardedLoop
  <2>5. /\ f = [i \in 0 .. m |-> f[i]] /\ f[0] = graph
        /\ \A i \in 0 .. m : f[i] \in Good[i]
        /\ \A i \in 1 .. m : f[i] = op[i][f[i - 1]]
    BY <2>4 DEF LeadsFrom
  <2>6. ASSUME NEW i \in 0 .. m
        PROVE  f[i] = IF i = 0 THEN graph ELSE Turn(f[i - 1], i)
    <3>1. i # 0 => i \in 1 .. m /\ i - 1 \in 0 .. m
      OBVIOUS
    <3> QED
      BY <2>2, <2>5, <3>1
  <2>7. f = [i \in 0 .. m |-> IF i = 0 THEN graph ELSE Turn(f[i - 1], i)]
    BY <2>5, <2>6
  <2> QED
    BY <2>7 DEF Turn
<1>9. PICK f : f = CHOOSE g : Loop(g)
    OBVIOUS
<1>10. Loop(f)
  <2> HIDE DEF Loop
  <2> QED
    BY <1>8, <1>9
<1>11. AddRoutes(graph, n) = f[m]
    BY <1>2, <1>9 DEF AddRoutes
<1>12. f[0] = graph /\ \A i \in 1 .. m : f[i] = Turn(f[i - 1], i)
    BY <1>10
<1> HIDE DEF Loop, Turn
<1>13. \A i \in 0 .. m : f[i] \in Good[i]
    BY <1>6, <1>7, <1>12, LoopReaches
<1>14. GraphSound(f[m], Meshed, pairs \cup ReportsUpTo(n, table, m), said)
  <2>1. m \in 0 .. m
    OBVIOUS
  <2> QED
    BY <1>5, <1>13, <2>1
<1> QED
    BY <1>2, <1>11, <1>14

\* A node of the store and its access point.
Silent == [a \in Points |-> [b \in Points |-> NoInfo]]

\* A node and the link to its access point.
LEMMA MatterNodeAdded ==
    ASSUME ViewOK, NEW listed, NEW n \in Meshed \ listed, NEW graph, NEW pairs,
           GraphSound(graph, listed, pairs, Silent)
    PROVE  GraphSound(AddMatterNode(graph, n), listed \cup {n}, pairs \cup Hung(n), Silent)
<1>1. n \in Points /\ n \notin AccessPoints
    BY TopologyAssumption DEF Points, Meshed
<1>2. PICK v : v = MatterVertex(n)
    OBVIOUS
<1>3. v \in VertexRecords /\ v.id = n
    BY <1>1, <1>2 DEF MatterVertex, VertexRecords, Networks
<1>4. PICK old : old = graph.vertices
    OBVIOUS
<1>5. VerticesSound(old, listed) /\ n \notin IdsIn(old)
    BY <1>4 DEF GraphSound, VerticesSound
<1>6. PICK vertices : vertices = Append(old, v)
    OBVIOUS
<1>7. VerticesSound(vertices, listed \cup {n}) /\ IdsIn(vertices) = IdsIn(old) \cup {n}
  <2>1. {v.id} \cap Meshed = {n}
    BY <1>3
  <2> QED
    BY <1>3, <1>5, <1>6, <2>1, VertexAppended
<1>8. PICK links : links = graph.links
    OBVIOUS
<1>9. LinksSound(links, IdsIn(old), pairs, Silent)
    BY <1>4, <1>8 DEF GraphSound
<1>10. graph = [vertices |-> old, links |-> links]
    BY <1>4, <1>8 DEF GraphSound, Graphs
<1>11. CASE ~ Decoded(reading[n].bssid)
  <2>1. AddMatterNode(graph, n) = [vertices |-> vertices, links |-> links]
    <3>1. [graph EXCEPT !.vertices = vertices] = [vertices |-> vertices, links |-> links]
      BY <1>10
    <3>2. AddMatterNode(graph, n) = [graph EXCEPT !.vertices = vertices]
      BY <1>2, <1>4, <1>6, <1>11 DEF AddMatterNode
    <3> QED
      BY <3>1, <3>2
  <2>2. LinksSound(links, IdsIn(vertices), pairs, Silent)
    BY <1>7, <1>9, LinksWithMore
  <2>3. pairs \cup Hung(n) = pairs
    BY <1>11 DEF Hung
  <2>4. [vertices |-> vertices, links |-> links] \in Graphs
    BY <1>7, <1>9 DEF Graphs, VerticesSound, LinksSound
  <2> QED
    BY <1>7, <2>1, <2>2, <2>3, <2>4 DEF GraphSound
<1>12. CASE Decoded(reading[n].bssid)
  <2>1. PICK b \in AccessPoints : b = reading[n].bssid
    <3>1. reading[n] \in NodeViews(n)
      BY DEF ViewOK
    <3>2. reading[n].bssid \in AccessPoints \cup {Unread, Bad}
      BY <3>1 DEF NodeViews
    <3> QED
      BY <1>12, <3>2 DEF Decoded
  <2>2. b \in Points /\ b \notin Meshed
    BY TopologyAssumption DEF Points, Meshed
  <2>3. PICK s \in Strengths : s = WifiStrength(reading[n].rssi)
    <3>1. reading[n] \in NodeViews(n)
      BY DEF ViewOK
    <3>2. reading[n].rssi \in Int
      <4>1. reading[n].rssi \in Signals \cup {NoSignal}
        BY <3>1 DEF NodeViews
      <4>2. Signals \subseteq Int
        BY TopologyAssumption
      <4>3. NoSignal \in Int
        BY DEF NoSignal
      <4> QED
        BY <4>1, <4>2, <4>3
    <3> QED
      BY <3>2, StrengthIs
  <2>4. PICK ap : ap = Vertex(b, "wifi_ap", "wifi")
    OBVIOUS
  <2>5. ap \in VertexRecords /\ ap.id = b
    BY <2>2, <2>4 DEF Vertex, VertexRecords, Networks
  <2>6. PICK all : all = Invent(vertices, ap)
    OBVIOUS
  <2>7. VerticesSound(all, listed \cup {n}) /\ IdsIn(all) = IdsIn(vertices) \cup {b}
    BY <1>7, <2>2, <2>5, <2>6, VertexInvented
  <2>8. PICK new : new = Link(n, b, "wifi", s, s, FALSE)
    OBVIOUS
  <2>9. new = [source |-> n, target |-> b, network |-> "wifi", strength |-> s, out |-> s,
               back |-> NoInfo, route |-> FALSE]
    BY <2>8 DEF Link
  <2>10. new \in LinkRecords /\ Ends(new) = {n, b}
    <3>1. NoInfo \in Strengths /\ "wifi" \in Networks
      BY DEF NoInfo, Strengths, Networks
    <3> QED
      BY <1>1, <2>2, <2>3, <2>9, <3>1 DEF LinkRecords, Ends
  <2>11. LinkSound(new, Silent)
    BY <2>9 DEF LinkSound
  <2>12. Ends(new) \notin pairs
    <3>1. SUFFICES ASSUME {n, b} \in pairs PROVE FALSE
      BY <2>10
    <3>2. PICK i \in 1 .. Len(links) : Ends(links[i]) = {n, b}
      BY <1>9, <3>1 DEF LinksSound
    <3>3. Ends(links[i]) \subseteq IdsIn(old)
      BY <1>9 DEF LinksSound
    <3> QED
      BY <1>5, <3>2, <3>3
  <2>13. Ends(new) \subseteq IdsIn(all)
    BY <1>7, <2>7, <2>10
  <2>14. LinksSound(links, IdsIn(all), pairs, Silent)
    BY <1>7, <1>9, <2>7, LinksWithMore
  <2>15. SaysElse(Silent, Silent, Ends(new))
    BY DEF SaysElse
  <2>16. LinksSound(Append(links, new), IdsIn(all), pairs \cup {Ends(new)}, Silent)
    BY <2>10, <2>11, <2>12, <2>13, <2>14, <2>15, LinkAppended
  <2>17. pairs \cup {Ends(new)} = pairs \cup Hung(n)
    BY <1>12, <2>1, <2>10 DEF Hung
  <2>18. PICK more : more = Append(links, new)
    OBVIOUS
  <2>19. AddMatterNode(graph, n) = [vertices |-> all, links |-> more]
    BY <1>2, <1>4, <1>6, <1>8, <1>12, <2>1, <2>3, <2>4, <2>6, <2>8, <2>18 DEF AddMatterNode
  <2>20. PICK grown : grown = [vertices |-> all, links |-> more]
    OBVIOUS
  <2>21. grown \in Graphs /\ grown.vertices = all /\ grown.links = more
    <3>1. all \in Seq(VertexRecords) /\ more \in Seq(LinkRecords)
      BY <2>7, <2>16, <2>18 DEF VerticesSound, LinksSound
    <3> QED
      BY <2>20, <3>1 DEF Graphs
  <2>22. LinksSound(more, IdsIn(all), pairs \cup Hung(n), Silent)
    BY <2>16, <2>17, <2>18
  <2>23. GraphSound(grown, listed \cup {n}, pairs \cup Hung(n), Silent)
    BY <2>7, <2>21, <2>22 DEF GraphSound
  <2> QED
    BY <2>19, <2>20, <2>23
<1> QED
    BY <1>11, <1>12

ListedUpTo(i) == {TopoNodes[j] : j \in 1 .. i}
HungUpTo(i) == UNION {Hung(TopoNodes[j]) : j \in 1 .. i}

\* The nodes up to the next one.
LEMMA NextListed ==
    ASSUME NEW i \in 1 .. Len(TopoNodes)
    PROVE  /\ TopoNodes[i] \in Meshed \ ListedUpTo(i - 1)
           /\ ListedUpTo(i) = ListedUpTo(i - 1) \cup {TopoNodes[i]}
           /\ HungUpTo(i) = HungUpTo(i - 1) \cup Hung(TopoNodes[i])
<1>1. Len(TopoNodes) \in Nat
    BY TopologyAssumption
<1>2. \A j \in 1 .. i : j \in 1 .. i - 1 \/ j = i
    BY <1>1
<1>3. (\A j \in 1 .. i - 1 : j \in 1 .. i /\ j \in 1 .. Len(TopoNodes) /\ j # i) /\ i \in 1 .. i
    BY <1>1
<1>4. TopoNodes[i] \in Meshed
    BY TopologyAssumption DEF Meshed
<1>5. TopoNodes[i] \notin ListedUpTo(i - 1)
    BY <1>3, TopologyAssumption DEF ListedUpTo
<1>6. ListedUpTo(i) = ListedUpTo(i - 1) \cup {TopoNodes[i]}
    BY <1>2, <1>3 DEF ListedUpTo
<1>7. HungUpTo(i) = HungUpTo(i - 1) \cup Hung(TopoNodes[i])
  <2>1. ASSUME NEW p \in HungUpTo(i) PROVE p \in HungUpTo(i - 1) \cup Hung(TopoNodes[i])
    <3>1. PICK j \in 1 .. i : p \in Hung(TopoNodes[j])
      BY <2>1 DEF HungUpTo
    <3> QED
      BY <1>2, <3>1 DEF HungUpTo
  <2>2. ASSUME NEW p \in HungUpTo(i - 1) \cup Hung(TopoNodes[i]) PROVE p \in HungUpTo(i)
    <3>1. PICK j \in 1 .. i : p \in Hung(TopoNodes[j])
      BY <1>3, <2>2 DEF HungUpTo
    <3> QED
      BY <3>1 DEF HungUpTo
  <2> QED
    BY <2>1, <2>2
<1> QED
    BY <1>4, <1>5, <1>6, <1>7

\* All of them.
LEMMA MatterNodesSound ==
    ASSUME ViewOK
    PROVE  GraphSound(MatterNodes, Meshed, HungUpTo(Len(TopoNodes)), Silent)
<1>1. PICK m \in Nat : m = Len(TopoNodes)
    BY TopologyAssumption
<1> DEFINE Turn(h, i) == AddMatterNode(h, TopoNodes[i])
           Loop(f) == f = [i \in 0 .. m |-> IF i = 0 THEN NoGraph ELSE AddMatterNode(f[i - 1], TopoNodes[i])]
<1>2. PICK Good : Good = [i \in 0 .. m |->
                             {g \in Graphs : GraphSound(g, ListedUpTo(i), HungUpTo(i), Silent)}]
    OBVIOUS
<1>3. ASSUME NEW i \in 0 .. m, NEW g
      PROVE  g \in Good[i] <=> GraphSound(g, ListedUpTo(i), HungUpTo(i), Silent)
  <2>1. GraphSound(g, ListedUpTo(i), HungUpTo(i), Silent) => g \in Graphs
    BY DEF GraphSound
  <2> QED
    BY <1>2, <2>1
<1>4. NoGraph \in Good[0]
  <2>1. ListedUpTo(0) = {} /\ HungUpTo(0) = {}
    BY DEF ListedUpTo, HungUpTo
  <2>2. PICK none : none = <<>>
    OBVIOUS
  <2>3. none \in Seq(VertexRecords) /\ none \in Seq(LinkRecords) /\ Len(none) = 0
    BY <2>2
  <2>4. NoGraph = [vertices |-> none, links |-> none]
    BY <2>2 DEF NoGraph
  <2>5. NoGraph \in Graphs
    BY <2>3, <2>4 DEF Graphs
  <2>6. IdsIn(none) = {}
    BY <2>3 DEF IdsIn
  <2>7. VerticesSound(none, {})
    BY <2>3, <2>6 DEF VerticesSound
  <2>8. LinksSound(none, {}, {}, Silent)
    BY <2>3 DEF LinksSound, Silent
  <2>9. GraphSound(NoGraph, {}, {}, Silent)
    BY <2>4, <2>5, <2>6, <2>7, <2>8 DEF GraphSound
  <2> QED
    BY <1>3, <2>1, <2>9
<1>5. ASSUME NEW i \in 1 .. m, NEW h \in Good[i - 1]
      PROVE  Turn(h, i) \in Good[i]
  <2>1. i - 1 \in 0 .. m /\ i \in 0 .. m
    OBVIOUS
  <2>2. GraphSound(h, ListedUpTo(i - 1), HungUpTo(i - 1), Silent)
    BY <1>3, <2>1
  <2>3. GraphSound(AddMatterNode(h, TopoNodes[i]), ListedUpTo(i - 1) \cup {TopoNodes[i]},
                   HungUpTo(i - 1) \cup Hung(TopoNodes[i]), Silent)
    BY <1>1, <2>2, NextListed, MatterNodeAdded
  <2>4. GraphSound(AddMatterNode(h, TopoNodes[i]), ListedUpTo(i), HungUpTo(i), Silent)
    BY <1>1, <2>3, NextListed
  <2> QED
    BY <1>3, <2>1, <2>4
<1>6. \E f : Loop(f)
  <2>1. PICK op : op = [i \in 1 .. m |-> [h \in Good[i - 1] |-> Turn(h, i)]]
    OBVIOUS
  <2> HIDE DEF Turn
  <2>2. \A i \in 1 .. m : \A h \in Good[i - 1] : op[i][h] = Turn(h, i)
    BY <2>1
  <2>3. LeadsOn(op, Good, m)
    BY <1>5, <2>2 DEF LeadsOn
  <2>4. PICK f : LeadsFrom(f, NoGraph, op, Good, m)
    BY <1>4, <2>3, GuardedLoop
  <2>5. /\ f = [i \in 0 .. m |-> f[i]] /\ f[0] = NoGraph
        /\ \A i \in 0 .. m : f[i] \in Good[i]
        /\ \A i \in 1 .. m : f[i] = op[i][f[i - 1]]
    BY <2>4 DEF LeadsFrom
  <2>6. ASSUME NEW i \in 0 .. m
        PROVE  f[i] = IF i = 0 THEN NoGraph ELSE Turn(f[i - 1], i)
    <3>1. i # 0 => i \in 1 .. m /\ i - 1 \in 0 .. m
      OBVIOUS
    <3> QED
      BY <2>2, <2>5, <3>1
  <2>7. f = [i \in 0 .. m |-> IF i = 0 THEN NoGraph ELSE Turn(f[i - 1], i)]
    BY <2>5, <2>6
  <2> QED
    BY <2>7 DEF Turn
<1>7. PICK f : f = CHOOSE g : Loop(g)
    OBVIOUS
<1>8. Loop(f)
  <2> HIDE DEF Loop
  <2> QED
    BY <1>6, <1>7
<1>9. MatterNodes = f[m]
    BY <1>1, <1>7 DEF MatterNodes
<1>10. f[0] = NoGraph /\ \A i \in 1 .. m : f[i] = Turn(f[i - 1], i)
    BY <1>8
<1> HIDE DEF Loop, Turn
<1>11. \A i \in 0 .. m : f[i] \in Good[i]
    BY <1>4, <1>5, <1>10, LoopReaches
<1>12. GraphSound(f[m], ListedUpTo(m), HungUpTo(m), Silent)
  <2>1. m \in 0 .. m
    OBVIOUS
  <2> QED
    BY <1>3, <1>11, <2>1
<1>13. ListedUpTo(m) = Meshed
    BY <1>1, TopologyAssumption DEF ListedUpTo, Meshed, ToSet
<1> QED
    BY <1>1, <1>9, <1>12, <1>13

\* What is drawn and was said when the tables of the first nodes were read.
TablesOf(n) == Reports(n, reading[n].neighbours) \cup Reports(n, reading[n].routes)
TablesUpTo(i) == UNION {TablesOf(TopoNodes[j]) : j \in 1 .. i}
SaidBy(i) ==
    [a \in Points |->
        IF a \in ListedUpTo(i) THEN SaidUpTo(reading[a].neighbours, Len(reading[a].neighbours))
        ELSE [t \in Points |-> NoInfo]]
PairsUpTo(i) == HungUpTo(Len(TopoNodes)) \cup TablesUpTo(i)

\* What a table reports is what all of its entries do.
LEMMA ReportsAre ==
    ASSUME NEW n, NEW table
    PROVE  Reports(n, table) = ReportsUpTo(n, table, Len(table))
    BY DEF Reports, ReportsUpTo

\* The tables up to those of the next node.
LEMMA NextTables ==
    ASSUME NEW i \in 1 .. Len(TopoNodes)
    PROVE  PairsUpTo(i) = PairsUpTo(i - 1) \cup TablesOf(TopoNodes[i])
<1>1. Len(TopoNodes) \in Nat
    BY TopologyAssumption
<1>2. \A j \in 1 .. i : j \in 1 .. i - 1 \/ j = i
    BY <1>1
<1>3. (\A j \in 1 .. i - 1 : j \in 1 .. i) /\ i \in 1 .. i
    BY <1>1
<1>4. ASSUME NEW p \in TablesUpTo(i) PROVE p \in TablesUpTo(i - 1) \cup TablesOf(TopoNodes[i])
  <2>1. PICK j \in 1 .. i : p \in TablesOf(TopoNodes[j])
    BY <1>4 DEF TablesUpTo
  <2> QED
    BY <1>2, <2>1 DEF TablesUpTo
<1>5. ASSUME NEW p \in TablesUpTo(i - 1) \cup TablesOf(TopoNodes[i]) PROVE p \in TablesUpTo(i)
  <2>1. PICK j \in 1 .. i : p \in TablesOf(TopoNodes[j])
    BY <1>3, <1>5 DEF TablesUpTo
  <2> QED
    BY <2>1 DEF TablesUpTo
<1>6. TablesUpTo(i) = TablesUpTo(i - 1) \cup TablesOf(TopoNodes[i])
    BY <1>4, <1>5
<1> QED
    BY <1>6 DEF PairsUpTo

\* The tables of one node.
LEMMA TablesAdded ==
    ASSUME ViewOK, NEW i \in 1 .. Len(TopoNodes), NEW graph,
           GraphSound(graph, Meshed, PairsUpTo(i - 1), SaidBy(i - 1))
    PROVE  GraphSound(AddRoutes(AddNeighbours(graph, TopoNodes[i]), TopoNodes[i]), Meshed,
                      PairsUpTo(i), SaidBy(i))
<1>1. PICK n \in Meshed : n = TopoNodes[i]
    BY NextListed
<1>2. n \notin ListedUpTo(i - 1) /\ ListedUpTo(i) = ListedUpTo(i - 1) \cup {n}
    BY <1>1, NextListed
<1>3. n \in Points
    BY DEF Points
<1>4. PICK said : said = SaidBy(i - 1)
    OBVIOUS
<1>5. said = [a \in Points |-> said[a]] /\ said[n] = [t \in Points |-> NoInfo]
    BY <1>2, <1>3, <1>4 DEF SaidBy
<1>6. PICK near : near = reading[n].neighbours
    OBVIOUS
<1>7. PICK far : far = reading[n].routes
    OBVIOUS
<1>8. PICK pairs : pairs = PairsUpTo(i - 1)
    OBVIOUS
<1>9. [said EXCEPT ![n] = SaidUpTo(near, Len(near))] = SaidBy(i)
  <2>1. \A a \in Points : a # n => SaidBy(i)[a] = said[a]
    BY <1>2, <1>4 DEF SaidBy
  <2>2. SaidBy(i)[n] = SaidUpTo(near, Len(near))
    BY <1>2, <1>3, <1>6 DEF SaidBy
  <2>3. SaidBy(i) = [a \in Points |-> SaidBy(i)[a]]
    BY DEF SaidBy
  <2> QED
    BY <1>5, <2>1, <2>2, <2>3
<1>10. PICK heard : heard = AddNeighbours(graph, n)
    OBVIOUS
<1>11. GraphSound(heard, Meshed, pairs \cup ReportsUpTo(n, near, Len(near)), SaidBy(i))
    BY <1>4, <1>5, <1>6, <1>8, <1>9, <1>10, NeighboursAdded
<1>12. GraphSound(AddRoutes(heard, n), Meshed,
                  (pairs \cup ReportsUpTo(n, near, Len(near))) \cup ReportsUpTo(n, far, Len(far)),
                  SaidBy(i))
    BY <1>7, <1>11, RoutesAdded
<1>13. (pairs \cup ReportsUpTo(n, near, Len(near))) \cup ReportsUpTo(n, far, Len(far)) = PairsUpTo(i)
  <2>1. PairsUpTo(i) = pairs \cup TablesOf(n)
    BY <1>1, <1>8, NextTables
  <2>2. TablesOf(n) = ReportsUpTo(n, near, Len(near)) \cup ReportsUpTo(n, far, Len(far))
    BY <1>6, <1>7, ReportsAre DEF TablesOf
  <2> QED
    BY <2>1, <2>2
<1> QED
    BY <1>1, <1>10, <1>12, <1>13

\* The whole graph.
LEMMA GraphIsSound ==
    ASSUME ViewOK
    PROVE  GraphSound(Graph, Meshed, PairsUpTo(Len(TopoNodes)), SaidBy(Len(TopoNodes)))
<1>1. PICK m \in Nat : m = Len(TopoNodes)
    BY TopologyAssumption
<1> DEFINE Turn(h, i) == AddRoutes(AddNeighbours(h, TopoNodes[i]), TopoNodes[i])
           Loop(f) == f = [i \in 0 .. m |->
                              IF i = 0 THEN MatterNodes
                              ELSE AddRoutes(AddNeighbours(f[i - 1], TopoNodes[i]), TopoNodes[i])]
<1>2. PICK Good : Good = [i \in 0 .. m |->
                             {g \in Graphs : GraphSound(g, Meshed, PairsUpTo(i), SaidBy(i))}]
    OBVIOUS
<1>3. ASSUME NEW i \in 0 .. m, NEW g
      PROVE  g \in Good[i] <=> GraphSound(g, Meshed, PairsUpTo(i), SaidBy(i))
  <2>1. GraphSound(g, Meshed, PairsUpTo(i), SaidBy(i)) => g \in Graphs
    BY DEF GraphSound
  <2> QED
    BY <1>2, <2>1
<1>4. MatterNodes \in Good[0]
  <2>1. TablesUpTo(0) = {} /\ ListedUpTo(0) = {}
    BY DEF TablesUpTo, ListedUpTo
  <2>2. PairsUpTo(0) = HungUpTo(m)
    BY <1>1, <2>1 DEF PairsUpTo
  <2>3. SaidBy(0) = Silent
    BY <2>1 DEF SaidBy, Silent
  <2>4. GraphSound(MatterNodes, Meshed, PairsUpTo(0), SaidBy(0))
    BY <1>1, <2>2, <2>3, MatterNodesSound
  <2> QED
    BY <1>3, <2>4
<1>5. ASSUME NEW i \in 1 .. m, NEW h \in Good[i - 1]
      PROVE  Turn(h, i) \in Good[i]
  <2>1. i - 1 \in 0 .. m /\ i \in 0 .. m
    OBVIOUS
  <2>2. GraphSound(h, Meshed, PairsUpTo(i - 1), SaidBy(i - 1))
    BY <1>3, <2>1
  <2>3. GraphSound(Turn(h, i), Meshed, PairsUpTo(i), SaidBy(i))
    BY <1>1, <2>2, TablesAdded
  <2> QED
    BY <1>3, <2>1, <2>3
<1>6. \E f : Loop(f)
  <2>1. PICK op : op = [i \in 1 .. m |-> [h \in Good[i - 1] |-> Turn(h, i)]]
    OBVIOUS
  <2> HIDE DEF Turn
  <2>2. \A i \in 1 .. m : \A h \in Good[i - 1] : op[i][h] = Turn(h, i)
    BY <2>1
  <2>3. LeadsOn(op, Good, m)
    BY <1>5, <2>2 DEF LeadsOn
  <2>4. PICK f : LeadsFrom(f, MatterNodes, op, Good, m)
    BY <1>4, <2>3, GuardedLoop
  <2>5. /\ f = [i \in 0 .. m |-> f[i]] /\ f[0] = MatterNodes
        /\ \A i \in 0 .. m : f[i] \in Good[i]
        /\ \A i \in 1 .. m : f[i] = op[i][f[i - 1]]
    BY <2>4 DEF LeadsFrom
  <2>6. ASSUME NEW i \in 0 .. m
        PROVE  f[i] = IF i = 0 THEN MatterNodes ELSE Turn(f[i - 1], i)
    <3>1. i # 0 => i \in 1 .. m /\ i - 1 \in 0 .. m
      OBVIOUS
    <3> QED
      BY <2>2, <2>5, <3>1
  <2>7. f = [i \in 0 .. m |-> IF i = 0 THEN MatterNodes ELSE Turn(f[i - 1], i)]
    BY <2>5, <2>6
  <2> QED
    BY <2>7 DEF Turn
<1>7. PICK f : f = CHOOSE g : Loop(g)
    OBVIOUS
<1>8. Loop(f)
  <2> HIDE DEF Loop
  <2> QED
    BY <1>6, <1>7
<1>9. Graph = f[m]
    BY <1>1, <1>7 DEF Graph
<1>10. f[0] = MatterNodes /\ \A i \in 1 .. m : f[i] = Turn(f[i - 1], i)
    BY <1>8
<1> HIDE DEF Loop, Turn
<1>11. \A i \in 0 .. m : f[i] \in Good[i]
    BY <1>4, <1>5, <1>10, LoopReaches
<1>12. GraphSound(f[m], Meshed, PairsUpTo(m), SaidBy(m))
  <2>1. m \in 0 .. m
    OBVIOUS
  <2> QED
    BY <1>3, <1>11, <2>1
<1> QED
    BY <1>1, <1>9, <1>12

\* So it is true.
LEMMA GraphTrue ==
    ASSUME ViewOK
    PROVE  GraphIsWellFormed(Graph) /\ EveryLinkIsDrawn(Graph) /\ DirectionsAreTrue(Graph)
<1>1. PICK m \in Nat : m = Len(TopoNodes)
    BY TopologyAssumption
<1>2. PICK g : g = Graph
    OBVIOUS
<1>3. PICK links : links = g.links
    OBVIOUS
<1>4. GraphSound(g, Meshed, PairsUpTo(m), SaidBy(m))
    BY <1>1, <1>2, GraphIsSound
<1>5. ListedUpTo(m) = Meshed
    BY <1>1, TopologyAssumption DEF ListedUpTo, Meshed, ToSet
<1>6. GraphIsWellFormed(g)
    BY <1>4 DEF GraphIsWellFormed, GraphSound, VerticesSound, LinksSound, Ids, IdsIn
<1>7. EveryLinkIsDrawn(g)
  <2>1. {Ends(links[i]) : i \in 1 .. Len(links)} = PairsUpTo(m)
    BY <1>3, <1>4 DEF GraphSound, LinksSound
  <2>2. ASSUME NEW p \in PairsUpTo(m) PROVE \E n \in Meshed : p \in TablesOf(n) \cup Hung(n)
    <3>1. p \in HungUpTo(m) \/ p \in TablesUpTo(m)
      BY <1>1, <2>2 DEF PairsUpTo
    <3>2. PICK j \in 1 .. m : p \in TablesOf(TopoNodes[j]) \cup Hung(TopoNodes[j])
      BY <3>1 DEF HungUpTo, TablesUpTo
    <3>3. TopoNodes[j] \in Meshed
      BY <1>1, TopologyAssumption DEF Meshed
    <3> QED
      BY <3>2, <3>3
  <2>3. ASSUME NEW n \in Meshed, NEW p \in TablesOf(n) \cup Hung(n) PROVE p \in PairsUpTo(m)
    <3>1. PICK j \in 1 .. m : n = TopoNodes[j]
      BY <1>5 DEF ListedUpTo
    <3>2. p \in HungUpTo(m) \/ p \in TablesUpTo(m)
      BY <2>3, <3>1 DEF HungUpTo, TablesUpTo
    <3> QED
      BY <1>1, <3>2 DEF PairsUpTo
  <2>4. PairsUpTo(m) = UNION {TablesOf(n) \cup Hung(n) : n \in Meshed}
    BY <2>2, <2>3
  <2> QED
    BY <1>3, <2>1, <2>4 DEF EveryLinkIsDrawn, TablesOf, Meshed
<1>8. ASSUME NEW a \in Points, NEW b \in Points PROVE SaidBy(m)[a][b] = Reported(a, b)
  <2>1. CASE a \notin Meshed
    BY <1>5, <2>1 DEF SaidBy, Reported, Meshed
  <2>2. CASE a \in Meshed
    <3>1. PICK table : table = reading[a].neighbours
      OBVIOUS
    <3>2. SaidBy(m)[a] = SaidUpTo(table, Len(table))
      BY <1>5, <2>2, <3>1 DEF SaidBy
    <3>3. PICK seen : seen = SeenUpTo(table, Len(table), b)
      OBVIOUS
    <3>4. SaidUpTo(table, Len(table))[b] =
              IF seen = {} THEN NoInfo ELSE ThreadStrength(table[Max(seen)].lqi)
      BY <3>3 DEF SaidUpTo
    <3>5. seen = {i \in 1 .. Len(table) : Decoded(table[i].ext) /\ ResolveTarget(table[i].ext) = b}
      BY <3>3 DEF SeenUpTo
    <3>6. Reported(a, b) = IF seen = {} THEN NoInfo ELSE ThreadStrength(table[Max(seen)].lqi)
      BY <2>2, <3>1, <3>5 DEF Reported, Meshed
    <3> QED
      BY <3>2, <3>4, <3>6
  <2> QED
    BY <2>1, <2>2
<1>9. DirectionsAreTrue(g)
  <2>1. ASSUME NEW i \in 1 .. Len(links), links[i].network = "thread"
        PROVE  /\ links[i].out = Reported(links[i].source, links[i].target)
               /\ links[i].back = Reported(links[i].target, links[i].source)
               /\ \A heard \in {links[i].out, links[i].back} \ {NoInfo} :
                     StrengthRank(links[i].strength) >= StrengthRank(heard)
    <3>1. PICK l \in LinkRecords : l = links[i]
      BY <1>3, <1>4 DEF GraphSound, LinksSound
    <3>2. LinkSound(l, SaidBy(m))
      BY <1>3, <1>4, <3>1 DEF GraphSound, LinksSound
    <3>3. l.source \in Points /\ l.target \in Points
      BY <3>1 DEF LinkRecords
    <3>4. /\ l.out = SaidBy(m)[l.source][l.target] /\ l.back = SaidBy(m)[l.target][l.source]
          /\ l.out # NoInfo => StrengthRank(l.strength) >= StrengthRank(l.out)
          /\ l.back # NoInfo => StrengthRank(l.strength) >= StrengthRank(l.back)
      BY <2>1, <3>1, <3>2 DEF LinkSound
    <3>5. l.out = Reported(l.source, l.target) /\ l.back = Reported(l.target, l.source)
      BY <1>8, <3>3, <3>4
    <3> QED
      BY <3>1, <3>4, <3>5
  <2> QED
    BY <1>3, <2>1 DEF DirectionsAreTrue
<1> QED
    BY <1>2, <1>6, <1>7, <1>9

\* Views as they are read, and the graph of those that were asked about.
TopologyInv == ViewOK /\ GraphIsTrue

\* The graph that was answered stays true as long as nothing is read.
LEMMA ViewsTheSame ==
    ASSUME reading' = reading, NEW graph, EveryLinkIsDrawn(graph), DirectionsAreTrue(graph)
    PROVE  EveryLinkIsDrawn(graph)' /\ DirectionsAreTrue(graph)'
<1>1. \A a : Claimants(a)' = Claimants(a)
    BY DEF Claimants
<1>2. \A a : ResolveTarget(a)' = ResolveTarget(a)
    BY <1>1 DEF ResolveTarget
<1>3. \A n, table : Reports(n, table)' = Reports(n, table)
    BY <1>2 DEF Reports
<1>4. \A n : Hung(n)' = Hung(n)
    BY DEF Hung
<1>5. \A n, t : Reported(n, t)' = Reported(n, t)
    BY <1>2 DEF Reported
<1>6. EveryLinkIsDrawn(graph)'
    BY <1>3, <1>4 DEF EveryLinkIsDrawn
<1>7. DirectionsAreTrue(graph)'
    BY <1>5 DEF DirectionsAreTrue
<1> QED
    BY <1>6, <1>7

\* Nothing was read or asked for at first.
LEMMA TopologyStarts == TopologyInit => TopologyInv
<1> SUFFICES ASSUME TopologyInit PROVE TopologyInv
    OBVIOUS
<1>1. ASSUME NEW n \in Meshed PROVE Blind \in NodeViews(n)
  <2>1. <<>> \in Seq(EntriesOf(n)) /\ FALSE \in BOOLEAN
    OBVIOUS
  <2> QED
    BY <2>1 DEF Blind, NodeViews
<1>2. ViewOK
    BY <1>1 DEF TopologyInit, ViewOK, Meshed
<1>3. GraphIsTrue
    BY DEF TopologyInit, GraphIsTrue, ToSet
<1> QED
    BY <1>2, <1>3 DEF TopologyInv

\* What a node's tables may be read to hold.
LEMMA TablesRead ==
    ASSUME NEW n, NEW table \in Neighbours(n) \cup {<<>>} \cup {<<e>> : e \in EntriesOf(n)}
    PROVE  table \in Seq(EntriesOf(n))
<1>1. CASE table = <<>>
    BY <1>1
<1>2. CASE \E e \in EntriesOf(n) : table = <<e>>
    BY <1>2
<1>3. CASE \E e, f \in EntriesOf(n) : table = <<e, f>>
    BY <1>3
<1>4. \/ table = <<>> \/ (\E e \in EntriesOf(n) : table = <<e>>)
      \/ \E e, f \in EntriesOf(n) : table = <<e, f>>
  <2>1. SUFFICES ASSUME table \in {pair \in {<<e, f>> : e, f \in {g \in EntriesOf(n) : Decoded(g.ext)}} :
                                      pair[1].ext # pair[2].ext}
                 PROVE  \E e, f \in EntriesOf(n) : table = <<e, f>>
    BY DEF Neighbours
  <2>2. table \in {<<e, f>> : e, f \in {g \in EntriesOf(n) : Decoded(g.ext)}}
    BY <2>1
  <2> QED
    BY <2>2
<1> QED
    BY <1>1, <1>2, <1>3, <1>4

\* Every read leaves views, and every graph is of the views it was asked for.
LEMMA TopologyStep == TopologyInv /\ [TopologyNext]_topologyVars => TopologyInv'
<1> SUFFICES ASSUME TopologyInv, [TopologyNext]_topologyVars PROVE TopologyInv'
    OBVIOUS
<1>1. ViewOK /\ GraphIsTrue
    BY DEF TopologyInv
<1>2. ASSUME reading' = reading PROVE ViewOK'
    BY <1>1, <1>2 DEF ViewOK
<1>3. ASSUME answered' = <<>> PROVE GraphIsTrue'
    BY <1>3 DEF GraphIsTrue, ToSet
<1>4. ASSUME NEW n \in Meshed, NEW v \in NodeViews(n), reading' = [reading EXCEPT ![n] = v]
      PROVE  ViewOK'
    BY <1>1, <1>4 DEF ViewOK
<1>5. CASE GetNetworkTopology
  <2>1. reading' = reading /\ answered' = <<Graph>>
    BY <1>5 DEF GetNetworkTopology
  <2>2. PICK g : g = Graph
    OBVIOUS
  <2>3. GraphIsWellFormed(g) /\ EveryLinkIsDrawn(g) /\ DirectionsAreTrue(g)
    BY <1>1, <2>2, GraphTrue
  <2>4. EveryLinkIsDrawn(g)' /\ DirectionsAreTrue(g)'
    BY <2>1, <2>3, ViewsTheSame
  <2>5. GraphIsWellFormed(g)'
    BY <2>3 DEF GraphIsWellFormed, Ids
  <2>6. answered' = <<g>>
    BY <2>1, <2>2
  <2>7. \A h \in ToSet(answered)' : h = g
    BY <2>6 DEF ToSet
  <2>8. GraphIsTrue'
    BY <2>4, <2>5, <2>7 DEF GraphIsTrue
  <2> QED
    BY <1>2, <2>1, <2>8 DEF TopologyInv
<1>6. CASE Refresh
    BY <1>2, <1>3, <1>6 DEF Refresh, TopologyInv
<1>7. ASSUME NEW n \in Meshed, NEW near \in Neighbours(n),
             NEW far \in {<<>>} \cup {<<e>> : e \in EntriesOf(n)}, NEW ext \in {ExtAddress[n], Bad},
             RefreshThread(n, near, far, ext)
      PROVE  TopologyInv'
  <2>1. PICK old \in NodeViews(n) : old = reading[n]
    BY <1>1 DEF ViewOK
  <2>2. PICK v : v = [old EXCEPT !.role = TRUE, !.ext = ext, !.neighbours = near, !.routes = far]
    OBVIOUS
  <2>3. near \in Seq(EntriesOf(n)) /\ far \in Seq(EntriesOf(n))
    BY TablesRead
  <2>4. v \in NodeViews(n)
    BY <2>2, <2>3 DEF NodeViews
  <2>5. reading' = [reading EXCEPT ![n] = v] /\ answered' = <<>>
    BY <1>7, <2>1, <2>2 DEF RefreshThread
  <2> QED
    BY <1>3, <1>4, <2>4, <2>5 DEF TopologyInv
<1>8. ASSUME NEW n \in Meshed, NEW bssid \in AccessPoints \cup {Bad}, NEW rssi \in Signals \cup {NoSignal},
             RefreshWifi(n, bssid, rssi)
      PROVE  TopologyInv'
  <2>1. PICK old \in NodeViews(n) : old = reading[n]
    BY <1>1 DEF ViewOK
  <2>2. PICK v : v = [old EXCEPT !.bssid = bssid, !.rssi = rssi]
    OBVIOUS
  <2>3. v \in NodeViews(n)
    BY <2>2 DEF NodeViews
  <2>4. reading' = [reading EXCEPT ![n] = v] /\ answered' = <<>>
    BY <1>8, <2>1, <2>2 DEF RefreshWifi
  <2> QED
    BY <1>3, <1>4, <2>3, <2>4 DEF TopologyInv
<1>9. CASE RefreshSkips
    BY <1>2, <1>3, <1>9 DEF RefreshSkips, TopologyInv
<1>10. CASE UNCHANGED topologyVars
  <2>1. reading' = reading /\ answered' = answered
    BY <1>10 DEF topologyVars
  <2>2. ASSUME NEW g \in ToSet(answered)
        PROVE  GraphIsWellFormed(g)' /\ EveryLinkIsDrawn(g)' /\ DirectionsAreTrue(g)'
    <3>1. GraphIsWellFormed(g) /\ EveryLinkIsDrawn(g) /\ DirectionsAreTrue(g)
      BY <1>1 DEF GraphIsTrue
    <3>2. GraphIsWellFormed(g)'
      BY <3>1 DEF GraphIsWellFormed, Ids
    <3> QED
      BY <2>1, <3>1, <3>2, ViewsTheSame
  <2>3. ToSet(answered)' = ToSet(answered)
    BY <2>1
  <2>4. GraphIsTrue'
    BY <2>2, <2>3 DEF GraphIsTrue
  <2> QED
    BY <1>2, <2>1, <2>4 DEF TopologyInv
<1> QED
    BY <1>5, <1>6, <1>7, <1>8, <1>9, <1>10 DEF TopologyNext, Meshed

\* The graph that a client or the watcher is given is what the nodes report: every
\* link once, whichever ends and tables name it, with what each end said of it last
\* (api/network.rs, build_topology, merge_connection).
THEOREM GraphAlwaysTrue == TopologySpec => []GraphIsTrue
<1>1. TopologyInit => TopologyInv
    BY TopologyStarts
<1>2. TopologyInv /\ [TopologyNext]_topologyVars => TopologyInv'
    BY TopologyStep
<1>3. TopologyInv => GraphIsTrue
    BY DEF TopologyInv
<1> QED
    BY <1>1, <1>2, <1>3, PTL DEF TopologySpec

=============================================================================
