-------------------------- MODULE MonitoringProofs --------------------------
(***************************************************************************)
(* Proofs about monitoring, for any nodes, intervals and bounds: what is   *)
(* applied is ours, a removed node stays removed, a device that keeps its  *)
(* promise is never taken to be silent, a node under subscription is       *)
(* current, and a listening client comes to have what the store has.       *)
(*                                                                         *)
(* Each property has an inductive invariant of its own (IdInv, SilenceInv, *)
(* CurrentInv, ViewInv), all of them over TypeOK and ThreadInv, which says *)
(* what a thread holds where.                                              *)
(***************************************************************************)
EXTENDS Monitoring, TLAPS

Values == Nat \cup {Unread}
Bodies == [val : Values, version : Nat, avail : BOOLEAN]
Named == Nodes \cup {0}

TypeOK ==
    /\ val \in [Nodes -> Nat] /\ reach \in [Nodes -> BOOLEAN]
    /\ devSub \in [Nodes -> Nat] /\ lastId \in [Nodes -> Nat]
    /\ due \in [Nodes -> 0 .. MaxInterval] /\ unsent \in [Nodes -> BOOLEAN]
    /\ wire \in [Nodes -> [id : Nat, val : Values, age : 0 .. MaxDelay]]
    /\ present \subseteq Nodes /\ store \in [Nodes -> Bodies]
    /\ reg \in [Nodes -> Nat] /\ silence \in [Nodes -> 0 .. 2 * MaxInterval]
    /\ todo \subseteq Nodes
    /\ mon \in [at : {"idle", "subscribing", "confirmed", "priming", "poll",
                      "read", "up", "down"},
                node : Named, first : BOOLEAN, id : Nat, val : Values]
    /\ rep \in [at : {"idle", "accepted"}, node : Named, id : Nat, val : Values]
    /\ req \in [at : {"idle", "removing", "forgetting", "interviewing", "read",
                      "pinging", "answered", "unanswered"},
                node : Named, id : Nat, val : Values]
    /\ out \in [Threads -> [kind : {"nothing", "updated", "removed"},
                            node : Named, body : Bodies]]
    /\ view \in [Nodes -> Bodies]
    /\ mine \in [Nodes -> SUBSET Nat]
    /\ lapsed \in [Nodes -> BOOLEAN] /\ crossed \in [Nodes -> BOOLEAN]
    /\ overtaken \in [Nodes -> BOOLEAN] /\ unannounced \in [Nodes -> BOOLEAN]

(* A thread that is between an await and the store has published all it    *)
(* changed before, and what it holds is of a node.                         *)
ThreadInv ==
    /\ mon.at # "idle" => mon.node \in Nodes
    /\ mon.at \notin {"idle", "up"} => out["Mon"] = Nothing
    /\ rep.at # "idle" => rep.node \in Nodes /\ out["Rep"] = Nothing
    /\ req.at # "idle" => req.node \in Nodes /\ out["Req"] = Nothing
    /\ \A t \in Threads : out[t] # Nothing => out[t].node \in Nodes

(* Ids are issued in order, and the registry's were entered by the monitor. *)
IdInv ==
    /\ \A d \in Nodes :
          /\ reg[d] <= lastId[d] /\ devSub[d] <= lastId[d]
          /\ mon.node = d => mon.id <= lastId[d]
          /\ reg[d] # 0 => reg[d] \in mine[d]
    /\ rep.at = "accepted" => rep.id \in mine[rep.node]
    /\ mon.at = "confirmed" => mon.id # 0

(* While the device has been reachable: a report under way was sent after  *)
(* the device's clock was reset, and what the registry counts as silence is *)
(* covered by that clock, or by a keepalive interval and the report's age.  *)
Audible(d) ==
    ~ lapsed[d] =>
        /\ reach[d]
        /\ wire[d] # NoReport => due[d] <= wire[d].age
        /\ reg[d] # 0 /\ devSub[d] = reg[d] =>
              IF wire[d] # NoReport /\ wire[d].id = devSub[d]
              THEN silence[d] <= MaxInterval + wire[d].age
              ELSE silence[d] <= due[d]

SilenceInv == \A d \in Nodes : Audible(d)

(* The subscription the device holds is in the registry or about to be.    *)
Ours(d) == reg[d] = devSub[d] \/ (MonAt(d, "confirmed") /\ mon.id = devSub[d])

(* The device's value is in the store or on its way there.                 *)
Carried(d) ==
    \/ store[d].val = val[d]
    \/ wire[d].id = devSub[d] /\ wire[d].val = val[d]
    \/ /\ rep.at = "accepted" /\ rep.node = d
       /\ rep.id = devSub[d] /\ rep.val = val[d]
    \/ /\ MonAt(d, "confirmed") \/ MonAt(d, "priming")
       /\ mon.id = devSub[d] /\ mon.val = val[d]

(* Nothing holds a value the device has not had yet.                       *)
NoValueFromNowhere ==
    /\ \A d \in Nodes : /\ store[d].val <= val[d] /\ wire[d].val <= val[d]
                        /\ mon.node = d => mon.val <= val[d]
                        /\ rep.node = d => rep.val <= val[d]
                        /\ req.node = d => req.val <= val[d]
    /\ mon.at \in {"confirmed", "priming", "read"} => mon.val # Unread
    /\ req.at = "read" => req.val # Unread

Accounted(d) ==
    d \in present /\ devSub[d] # 0 /\ Ours(d) /\ ~ unsent[d] /\ ~ crossed[d] => Carried(d)

CurrentInv == NoValueFromNowhere /\ \A d \in Nodes : Accounted(d)

Pending(d) == {t \in Threads : out[t] # Nothing /\ out[t].node = d}

(* A client has what the store has, or the one event it has yet to get     *)
(* says so.                                                                *)
ViewInv ==
    \A d \in Nodes : ~ overtaken[d] /\ ~ unannounced[d] =>
        \/ Pending(d) = {} /\ view[d] = store[d]
        \/ \E t \in Threads : Pending(d) = {t} /\ out[t].body = store[d]

-----------------------------------------------------------------------------
(* What the operators that write the store do to it.                       *)

\* Thread t leaves node d alone, or gives it the body b and will say so.
Announces(t, d, kind, b) ==
    store' = [store EXCEPT ![d] = b] /\ Emit(t, kind, d)

\* Gives node d the body b, which is not saved and so not announced.
Withholds(d, b) ==
    /\ store' = [store EXCEPT ![d] = b]
    /\ unannounced' = [unannounced EXCEPT ![d] = TRUE]
    /\ UNCHANGED <<out, overtaken>>

Writes(t, d) ==
    \/ UNCHANGED <<store, out, overtaken, unannounced>>
    \/ d \in present /\ \E b \in Bodies : Announces(t, d, "updated", b) \/ Withholds(d, b)

\* Only a node that is there is written, and never without an event but for an
\* interview that is not saved.
LEMMA MergeWrites ==
    ASSUME TypeOK, NEW t \in Threads, NEW d \in Nodes, NEW v \in Values, Merge(t, d, v)
    PROVE  Writes(t, d)
<1>1. store[d] \in Bodies
  BY DEF TypeOK
<1>2. [store[d] EXCEPT !.val = v] \in Bodies
  BY <1>1 DEF Bodies
<1>3. CASE d \in present /\ v # Unread /\ store[d].val # v
  <2>1. Announces(t, d, "updated", [store[d] EXCEPT !.val = v])
    BY <1>3 DEF Merge, Announces
  <2> QED BY <1>2, <1>3, <2>1 DEF Writes
<1>4. CASE ~ (d \in present /\ v # Unread /\ store[d].val # v)
  BY <1>4 DEF Merge, Writes
<1> QED BY <1>3, <1>4

LEMMA InterviewWrites ==
    ASSUME TypeOK, NEW t \in Threads, NEW d \in Nodes, NEW v \in Values,
           Interview(t, d, v) \/ InterviewUnsaved(d, v)
    PROVE  Writes(t, d)
<1>1. [val |-> v, version |-> store[d].version + 1, avail |-> TRUE] \in Bodies
  BY DEF TypeOK, Bodies
<1>2. CASE Interview(t, d, v) /\ d \in present
  BY <1>1, <1>2 DEF Interview, Interviewed, Announces, Writes
<1>3. CASE Interview(t, d, v) /\ d \notin present
  BY <1>3 DEF Interview, Writes
<1>4. CASE InterviewUnsaved(d, v)
  <2>1. Withholds(d, [val |-> v, version |-> store[d].version + 1, avail |-> TRUE])
    BY <1>4 DEF InterviewUnsaved, Interviewed, Withhold, Withholds
  <2> QED BY <1>1, <1>4, <2>1 DEF InterviewUnsaved, Writes
<1> QED BY <1>2, <1>3, <1>4

LEMMA MarkWrites ==
    ASSUME TypeOK, NEW t \in Threads, NEW d \in Nodes, NEW a \in BOOLEAN,
           MarkAvailable(t, d, a)
    PROVE  Writes(t, d)
<1>1. store[d] \in Bodies
  BY DEF TypeOK
<1>2. [store[d] EXCEPT !.avail = a] \in Bodies
  BY <1>1 DEF Bodies
<1>3. CASE d \in present /\ store[d].avail # a
  <2>1. Announces(t, d, "updated", [store[d] EXCEPT !.avail = a])
    BY <1>3 DEF MarkAvailable, Announces
  <2> QED BY <1>2, <1>3, <2>1 DEF Writes
<1>4. CASE ~ (d \in present /\ store[d].avail # a)
  BY <1>4 DEF MarkAvailable, Writes
<1> QED BY <1>3, <1>4

\* An event is well typed, and of the node.
LEMMA AnnounceTypes ==
    ASSUME TypeOK, ThreadInv, NEW t \in Threads, NEW d \in Nodes, NEW b \in Bodies,
           NEW kind \in {"updated", "removed"}, Announces(t, d, kind, b)
    PROVE  /\ store' \in [Nodes -> Bodies]
           /\ out' \in [Threads -> [kind : {"nothing", "updated", "removed"},
                                    node : Named, body : Bodies]]
           /\ overtaken' \in [Nodes -> BOOLEAN] /\ unannounced' \in [Nodes -> BOOLEAN]
           /\ out'[t] = [kind |-> kind, node |-> d, body |-> b]
           /\ out'[t] # Nothing
           /\ store'[d] = b
           /\ \A u \in Threads \ {t} : out'[u] = out[u]
           /\ \A u \in Threads : out'[u] # Nothing => out'[u].node \in Nodes
<1>1. store' \in [Nodes -> Bodies] /\ store'[d] = b
  BY DEF TypeOK, Announces
<1>2. out' = [out EXCEPT ![t] = [kind |-> kind, node |-> d, body |-> b]]
  BY <1>1 DEF Announces, Emit
<1>3. [kind |-> kind, node |-> d, body |-> b]
         \in [kind : {"nothing", "updated", "removed"}, node : Named, body : Bodies]
  BY DEF Named
<1>4. /\ out' \in [Threads -> [kind : {"nothing", "updated", "removed"},
                               node : Named, body : Bodies]]
      /\ out'[t] = [kind |-> kind, node |-> d, body |-> b]
      /\ \A u \in Threads \ {t} : out'[u] = out[u]
  BY <1>2, <1>3 DEF TypeOK
<1>5. out'[t] # Nothing
  BY <1>4 DEF Nothing
<1>6. overtaken' \in [Nodes -> BOOLEAN] /\ unannounced' \in [Nodes -> BOOLEAN]
  BY DEF TypeOK, Announces, Emit
<1>7. \A u \in Threads : out'[u] # Nothing => out'[u].node \in Nodes
  BY <1>4 DEF ThreadInv
<1> QED BY <1>1, <1>4, <1>5, <1>6, <1>7

\* A change that is not announced leaves the types and all events as they are.
LEMMA WithholdTypes ==
    ASSUME TypeOK, NEW d \in Nodes, NEW b \in Bodies, Withholds(d, b)
    PROVE  /\ store' \in [Nodes -> Bodies] /\ store'[d] = b
           /\ overtaken' \in [Nodes -> BOOLEAN] /\ unannounced' \in [Nodes -> BOOLEAN]
           /\ out' = out
           /\ out \in [Threads -> [kind : {"nothing", "updated", "removed"},
                                   node : Named, body : Bodies]]
BY DEF TypeOK, Withholds

\* A write leaves the types, and the events of the other threads, as they are.
LEMMA WriteTypes ==
    ASSUME TypeOK, ThreadInv, NEW t \in Threads, NEW d \in Nodes, Writes(t, d)
    PROVE  /\ store' \in [Nodes -> Bodies]
           /\ out' \in [Threads -> [kind : {"nothing", "updated", "removed"},
                                    node : Named, body : Bodies]]
           /\ overtaken' \in [Nodes -> BOOLEAN] /\ unannounced' \in [Nodes -> BOOLEAN]
           /\ \A u \in Threads \ {t} : out'[u] = out[u]
           /\ \A u \in Threads : out'[u] # Nothing => out'[u].node \in Nodes
<1>1. CASE UNCHANGED <<store, out, overtaken, unannounced>>
  BY <1>1 DEF TypeOK, ThreadInv
<1>2. ASSUME NEW b \in Bodies, Announces(t, d, "updated", b)
      PROVE  /\ store' \in [Nodes -> Bodies]
             /\ out' \in [Threads -> [kind : {"nothing", "updated", "removed"},
                                      node : Named, body : Bodies]]
             /\ overtaken' \in [Nodes -> BOOLEAN] /\ unannounced' \in [Nodes -> BOOLEAN]
             /\ \A u \in Threads \ {t} : out'[u] = out[u]
             /\ \A u \in Threads : out'[u] # Nothing => out'[u].node \in Nodes
  BY <1>2, AnnounceTypes
<1>3. ASSUME NEW b \in Bodies, Withholds(d, b)
      PROVE  /\ store' \in [Nodes -> Bodies] /\ out' = out /\ out' \in [Threads ->
                 [kind : {"nothing", "updated", "removed"}, node : Named, body : Bodies]]
             /\ overtaken' \in [Nodes -> BOOLEAN] /\ unannounced' \in [Nodes -> BOOLEAN]
             /\ \A u \in Threads : out[u] # Nothing => out[u].node \in Nodes
  <2>1. \A u \in Threads : out[u] # Nothing => out[u].node \in Nodes
    BY DEF ThreadInv
  <2> QED BY <1>3, <2>1, WithholdTypes
<1> QED BY <1>1, <1>2, <1>3 DEF Writes

-----------------------------------------------------------------------------
(* Types, and what the threads hold.                                       *)

LEMMA InitTypes == Init => TypeOK /\ ThreadInv
<1> SUFFICES ASSUME Init PROVE TypeOK /\ ThreadInv
  OBVIOUS
<1>1. store \in [Nodes -> Bodies] /\ view \in [Nodes -> Bodies]
  BY DEF Init, Bodies, Values, Unread
<1>2. /\ out = [t \in Threads |-> Nothing]
      /\ Nothing \in [kind : {"nothing", "updated", "removed"}, node : Named, body : Bodies]
  BY DEF Init, Nothing, Gone, Named, Bodies, Values, Unread
<1>3. out \in [Threads -> [kind : {"nothing", "updated", "removed"}, node : Named, body : Bodies]]
  BY <1>2
<1>4. NoReport \in [id : Nat, val : Values, age : 0 .. MaxDelay]
  BY MonitoringBounds DEF NoReport, Values, Unread
<1>5. /\ mon \in [at : {"idle", "subscribing", "confirmed", "priming", "poll",
                        "read", "up", "down"},
                  node : Named, first : BOOLEAN, id : Nat, val : Values]
      /\ rep \in [at : {"idle", "accepted"}, node : Named, id : Nat, val : Values]
      /\ req \in [at : {"idle", "removing", "forgetting", "interviewing", "read",
                        "pinging", "answered", "unanswered"},
                  node : Named, id : Nat, val : Values]
      /\ mon.at = "idle" /\ rep.at = "idle" /\ req.at = "idle"
  BY DEF Init, Idle, NoWork, Named, Values, Unread
<1>6. TypeOK
  <2>1. /\ devSub \in [Nodes -> Nat] /\ lastId \in [Nodes -> Nat] /\ val \in [Nodes -> Nat]
        /\ reg \in [Nodes -> Nat] /\ mine \in [Nodes -> SUBSET Nat]
        /\ due \in [Nodes -> 0 .. MaxInterval] /\ silence \in [Nodes -> 0 .. 2 * MaxInterval]
    BY MonitoringBounds DEF Init
  <2>2. wire \in [Nodes -> [id : Nat, val : Values, age : 0 .. MaxDelay]]
    BY <1>4 DEF Init
  <2>3. /\ reach \in [Nodes -> BOOLEAN] /\ unsent \in [Nodes -> BOOLEAN]
        /\ lapsed \in [Nodes -> BOOLEAN] /\ crossed \in [Nodes -> BOOLEAN]
        /\ overtaken \in [Nodes -> BOOLEAN] /\ unannounced \in [Nodes -> BOOLEAN]
        /\ present \subseteq Nodes /\ todo \subseteq Nodes
    BY DEF Init
  <2> QED BY <1>1, <1>3, <1>5, <2>1, <2>2, <2>3 DEF TypeOK
<1>7. ThreadInv
  BY <1>2, <1>5 DEF ThreadInv
<1> QED BY <1>6, <1>7

\* The steps of a device keep the types and touch no thread.
LEMMA DeviceTypes ==
    ASSUME TypeOK, ThreadInv, NEW d \in Nodes, Device(d) PROVE TypeOK' /\ ThreadInv'
<1> USE MonitoringBounds
<1>1. CASE DeviceChange(d)
  BY <1>1 DEF DeviceChange, TypeOK, ThreadInv, storeVars, regVars, monVars, historyVars
<1>2. CASE DeviceReport(d)
  <2>1. [id |-> devSub[d], val |-> IF unsent[d] THEN val[d] ELSE Unread, age |-> 0]
           \in [id : Nat, val : Values, age : 0 .. MaxDelay]
    BY DEF TypeOK, Values
  <2>2. wire' \in [Nodes -> [id : Nat, val : Values, age : 0 .. MaxDelay]]
    BY <1>2, <2>1 DEF DeviceReport, TypeOK
  <2> QED BY <1>2, <2>2 DEF DeviceReport, TypeOK, ThreadInv, storeVars, regVars, monVars, historyVars
<1>3. CASE DeviceDrop(d)
  <2>1. wire' \in [Nodes -> [id : Nat, val : Values, age : 0 .. MaxDelay]]
    BY <1>3 DEF DeviceDrop, TypeOK, NoReport, Values
  <2> QED BY <1>3, <2>1 DEF DeviceDrop, TypeOK, ThreadInv, storeVars, regVars, monVars, historyVars
<1>4. CASE Outage(d)
  BY <1>4 DEF Outage, TypeOK, ThreadInv, storeVars, regVars, monVars
<1>5. CASE Return(d)
  BY <1>5 DEF Return, TypeOK, ThreadInv, storeVars, regVars, monVars, historyVars
<1> QED BY <1>1, <1>2, <1>3, <1>4, <1>5 DEF Device

LEMMA TickTypes == ASSUME TypeOK, ThreadInv, Tick PROVE TypeOK' /\ ThreadInv'
<1> USE MonitoringBounds
<1>1. due' \in [Nodes -> 0 .. MaxInterval]
  BY DEF Tick, TypeOK
<1>2. wire' \in [Nodes -> [id : Nat, val : Values, age : 0 .. MaxDelay]]
  <2> SUFFICES ASSUME NEW d \in Nodes
               PROVE  wire'[d] \in [id : Nat, val : Values, age : 0 .. MaxDelay]
    BY DEF Tick
  <2>1. wire[d] \in [id : Nat, val : Values, age : 0 .. MaxDelay]
    BY DEF TypeOK
  <2>2. CASE wire[d] # NoReport /\ wire[d].age < MaxDelay
    <3>1. wire'[d] = [wire[d] EXCEPT !.age = wire[d].age + 1]
      BY <2>2 DEF Tick
    <3> QED BY <2>1, <2>2, <3>1
  <2>3. CASE ~ (wire[d] # NoReport /\ wire[d].age < MaxDelay)
    <3>1. wire'[d] = wire[d]
      BY <2>3 DEF Tick
    <3> QED BY <2>1, <3>1
  <2> QED BY <2>2, <2>3
<1>3. silence' \in [Nodes -> 0 .. 2 * MaxInterval]
  BY DEF Tick, TypeOK, Silent
<1> QED BY <1>1, <1>2, <1>3 DEF Tick, TypeOK, ThreadInv, storeVars, monVars, historyVars

\* The steps of the monitor between its awaits.
LEMMA MonitorTypes ==
    ASSUME TypeOK, ThreadInv, NEW d \in Nodes, MonSkip(d) \/ MonVisit(d) \/ Maintain(d)
    PROVE  TypeOK' /\ ThreadInv'
<1> USE MonitoringBounds DEF deviceVars, storeVars, regVars, monVars, historyVars
<1>1. CASE MonSkip(d)
  BY <1>1 DEF MonSkip, TypeOK, ThreadInv
<1>2. CASE MonVisit(d)
  <2>1. /\ mon' \in [at : {"idle", "subscribing", "confirmed", "priming", "poll",
                           "read", "up", "down"},
                     node : Named, first : BOOLEAN, id : Nat, val : Values]
        /\ mon'.node = d
    BY <1>2 DEF MonVisit, Named, Values, AwaitingFirst
  <2> QED BY <1>2, <2>1 DEF MonVisit, TypeOK, ThreadInv
<1>3. CASE SubscribeConfirmed(d)
  <2>1. lastId'[d] \in Nat /\ val[d] \in Values
    BY <1>3 DEF SubscribeConfirmed, Accept, TypeOK, Values
  <2>2. mon' \in [at : {"idle", "subscribing", "confirmed", "priming", "poll",
                        "read", "up", "down"},
                  node : Named, first : BOOLEAN, id : Nat, val : Values]
        /\ mon'.at = "confirmed" /\ mon'.node = mon.node
    BY <1>3, <2>1 DEF SubscribeConfirmed, TypeOK
  <2> QED BY <1>3, <2>2 DEF SubscribeConfirmed, Accept, MonAt, TypeOK, ThreadInv
<1>4. CASE SubscribeUnreachable(d)
  BY <1>4 DEF SubscribeUnreachable, MonAt, TypeOK, ThreadInv
<1>5. CASE SubscribeRefused(d)
  BY <1>5 DEF SubscribeRefused, MonAt, AwaitingFirst, TypeOK, ThreadInv
<1>6. CASE SubscribeTimeout(d)
  BY <1>6 DEF SubscribeTimeout, MonAt, AwaitingFirst, TypeOK, ThreadInv
<1>7. CASE MonEstablished(d)
  <2>1. mine' \in [Nodes -> SUBSET Nat] /\ reg' \in [Nodes -> Nat]
        /\ silence' \in [Nodes -> 0 .. 2 * MaxInterval]
    BY <1>7 DEF MonEstablished, TypeOK
  <2>2. mon' \in [at : {"idle", "subscribing", "confirmed", "priming", "poll",
                        "read", "up", "down"},
                  node : Named, first : BOOLEAN, id : Nat, val : Values]
        /\ mon'.at = "priming" /\ mon'.node = d
    BY <1>7 DEF MonEstablished, MonAt, TypeOK
  <2> QED BY <1>7, <2>1, <2>2 DEF MonEstablished, MonAt, TypeOK, ThreadInv
<1>8. CASE MonApply(d)
  <2>1. mon.val \in Values /\ "Mon" \in Threads
    BY DEF TypeOK, Threads
  <2>2. Writes("Mon", d)
    BY <1>8, <2>1, MergeWrites, InterviewWrites DEF MonApply
  <2>3. crossed' \in [Nodes -> BOOLEAN]
    BY <1>8 DEF MonApply, Interview, Merge, Cross, TypeOK
  <2>4. mon' \in [at : {"idle", "subscribing", "confirmed", "priming", "poll",
                        "read", "up", "down"},
                  node : Named, first : BOOLEAN, id : Nat, val : Values]
        /\ mon'.at = "up" /\ mon'.node = d
    BY <1>8 DEF MonApply, MonAt, TypeOK
  <2>5. \A u \in {"Rep", "Req"} : out'[u] = out[u]
    BY <2>1, <2>2, WriteTypes DEF Threads
  <2> QED BY <1>8, <2>1, <2>2, <2>3, <2>4, <2>5, WriteTypes DEF MonApply, TypeOK, ThreadInv
<1>9. CASE MonPollAnswered(d)
  <2>1. mon' \in [at : {"idle", "subscribing", "confirmed", "priming", "poll",
                        "read", "up", "down"},
                  node : Named, first : BOOLEAN, id : Nat, val : Values]
        /\ mon'.at = "read" /\ mon'.node = d
    BY <1>9 DEF MonPollAnswered, MonAt, TypeOK, Values
  <2> QED BY <1>9, <2>1 DEF MonPollAnswered, MonAt, TypeOK, ThreadInv
<1>10. CASE MonPollFailed(d)
  BY <1>10 DEF MonPollFailed, MonAt, TypeOK, ThreadInv
<1>11. CASE MonMark(d)
  <2>1. "Mon" \in Threads /\ (mon.at = "up") \in BOOLEAN
    BY DEF Threads
  <2>2. Writes("Mon", d)
    BY <1>11, <2>1, MarkWrites DEF MonMark
  <2>3. mon' \in [at : {"idle", "subscribing", "confirmed", "priming", "poll",
                        "read", "up", "down"},
                  node : Named, first : BOOLEAN, id : Nat, val : Values]
        /\ mon'.at = "idle"
    BY <1>11 DEF MonMark, Idle, Named, Values
  <2>4. \A u \in {"Rep", "Req"} : out'[u] = out[u]
    BY <2>1, <2>2, WriteTypes DEF Threads
  <2> QED BY <1>11, <2>1, <2>2, <2>3, <2>4, WriteTypes DEF MonMark, TypeOK, ThreadInv
<1> QED BY <1>1, <1>2, <1>3, <1>4, <1>5, <1>6, <1>7, <1>8, <1>9, <1>10, <1>11 DEF Maintain
\* The other steps of the monitor and the steps of the Matter thread.
LEMMA MatterTypes ==
    ASSUME TypeOK, ThreadInv,
           MonPass \/ ReportApplied \/ ReportUndecodable
             \/ \E d \in Nodes : LateSubscribe(d) \/ Report(d)
    PROVE  TypeOK' /\ ThreadInv'
<1> USE MonitoringBounds DEF deviceVars, storeVars, regVars, monVars, historyVars
<1>1. CASE MonPass
  <2>1. reg' \in [Nodes -> Nat] /\ silence' \in [Nodes -> 0 .. 2 * MaxInterval]
    BY <1>1 DEF MonPass, TypeOK
  <2> QED BY <1>1, <2>1 DEF MonPass, TypeOK, ThreadInv
<1>2. ASSUME NEW d \in Nodes, LateSubscribe(d) PROVE TypeOK' /\ ThreadInv'
  BY <1>2 DEF LateSubscribe, Accept, TypeOK, ThreadInv
<1>3. ASSUME NEW d \in Nodes, Report(d) PROVE TypeOK' /\ ThreadInv'
  <2>0. wire' = [wire EXCEPT ![d] = NoReport]
        /\ NoReport \in [id : Nat, val : Values, age : 0 .. MaxDelay]
    BY <1>3 DEF Report, ReportAccepted, ReportDisowned, NoReport, Values
  <2>1. wire' \in [Nodes -> [id : Nat, val : Values, age : 0 .. MaxDelay]]
    BY <2>0 DEF TypeOK
  <2>2. CASE ReportAccepted(d)
    <3>1. wire[d] \in [id : Nat, val : Values, age : 0 .. MaxDelay]
      BY DEF TypeOK
    <3>2. rep' \in [at : {"idle", "accepted"}, node : Named, id : Nat, val : Values]
          /\ rep'.node = d
      BY <2>2, <3>1 DEF ReportAccepted, Named
    <3> QED BY <2>1, <2>2, <3>2 DEF ReportAccepted, TypeOK, ThreadInv
  <2>3. CASE ReportDisowned(d)
    BY <2>1, <2>3 DEF ReportDisowned, TypeOK, ThreadInv
  <2> QED BY <1>3, <2>2, <2>3 DEF Report
<1>4. CASE ReportApplied
  <2>1. rep.val \in Values /\ rep.node \in Nodes /\ "Rep" \in Threads
    BY <1>4 DEF ReportApplied, TypeOK, ThreadInv, Threads
  <2>2. Writes("Rep", rep.node)
    BY <1>4, <2>1, MergeWrites DEF ReportApplied
  <2>3. crossed' \in [Nodes -> BOOLEAN]
    BY <1>4 DEF ReportApplied, Merge, Cross, TypeOK
  <2>4. rep' \in [at : {"idle", "accepted"}, node : Named, id : Nat, val : Values]
        /\ rep'.at = "idle"
    BY <1>4 DEF ReportApplied, NoWork, Named, Values
  <2>5. \A u \in {"Mon", "Req"} : out'[u] = out[u]
    BY <2>1, <2>2, WriteTypes DEF Threads
  <2> QED BY <1>4, <2>1, <2>2, <2>3, <2>4, <2>5, WriteTypes DEF ReportApplied, TypeOK, ThreadInv
<1>5. CASE ReportUndecodable
  <2>1. rep' \in [at : {"idle", "accepted"}, node : Named, id : Nat, val : Values]
        /\ rep'.at = "idle"
    BY <1>5 DEF ReportUndecodable, NoWork, Named, Values
  <2>2. devSub' \in [Nodes -> Nat]
    BY <1>5 DEF ReportUndecodable, TypeOK
  <2> QED BY <1>5, <2>1, <2>2 DEF ReportUndecodable, TypeOK, ThreadInv
<1> QED BY <1>1, <1>2, <1>3, <1>4, <1>5

\* The steps of a client's request.
LEMMA RequestTypes == ASSUME TypeOK, ThreadInv, Requests PROVE TypeOK' /\ ThreadInv'
<1> USE MonitoringBounds DEF deviceVars, storeVars, regVars, monVars, historyVars
<1> DEFINE Work == [at : {"idle", "removing", "forgetting", "interviewing", "read",
                          "pinging", "answered", "unanswered"},
                    node : Named, id : Nat, val : Values]
<1>1. ASSUME NEW d \in Nodes, NEW op \in {"removing", "interviewing", "pinging"}, Request(d, op)
      PROVE  TypeOK' /\ ThreadInv'
  <2>1. req' \in Work /\ req'.node = d
    BY <1>1 DEF Request, Named, Values
  <2> QED BY <1>1, <2>1 DEF Request, TypeOK, ThreadInv
<1>2. CASE RemoveFabric
  <2>1. req.node \in Nodes /\ NoReport \in [id : Nat, val : Values, age : 0 .. MaxDelay]
    BY <1>2 DEF RemoveFabric, ThreadInv, NoReport, Values
  <2>2. /\ wire' \in [Nodes -> [id : Nat, val : Values, age : 0 .. MaxDelay]]
        /\ devSub' \in [Nodes -> Nat] /\ reach' \in [Nodes -> BOOLEAN]
        /\ lapsed' \in [Nodes -> BOOLEAN]
    <3>1. CASE reach[req.node]
      <4>1. /\ wire' = [wire EXCEPT ![req.node] = NoReport]
            /\ devSub' = [devSub EXCEPT ![req.node] = 0]
            /\ reach' = [reach EXCEPT ![req.node] = FALSE]
            /\ lapsed' = [lapsed EXCEPT ![req.node] = TRUE]
        BY <1>2, <3>1 DEF RemoveFabric
      <4>2. wire' \in [Nodes -> [id : Nat, val : Values, age : 0 .. MaxDelay]]
        BY <2>1, <4>1 DEF TypeOK
      <4>3. /\ devSub' \in [Nodes -> Nat] /\ reach' \in [Nodes -> BOOLEAN]
            /\ lapsed' \in [Nodes -> BOOLEAN]
        BY <4>1 DEF TypeOK
      <4> QED BY <4>2, <4>3
    <3>2. CASE ~ reach[req.node]
      BY <1>2, <3>2 DEF RemoveFabric, TypeOK
    <3> QED BY <3>1, <3>2
  <2>3. req' \in Work /\ req'.node = req.node
    BY <1>2 DEF RemoveFabric, TypeOK
  <2> QED BY <1>2, <2>1, <2>2, <2>3 DEF RemoveFabric, TypeOK, ThreadInv
<1>3. CASE RemoveNode
  <2>1. req.node \in Nodes /\ "Req" \in Threads /\ Gone \in Bodies
    BY <1>3 DEF RemoveNode, ThreadInv, Threads, Gone, Bodies, Values
  <2>2. Announces("Req", req.node, "removed", Gone) \/ Withholds(req.node, Gone)
    BY <1>3 DEF RemoveNode, Announces, Withhold, Withholds
  <2>3. req' \in Work /\ req'.at = "idle"
    BY <1>3 DEF RemoveNode, NoWork, Named, Values
  <2>4. /\ store' \in [Nodes -> Bodies]
        /\ out' \in [Threads -> [kind : {"nothing", "updated", "removed"},
                                 node : Named, body : Bodies]]
        /\ overtaken' \in [Nodes -> BOOLEAN] /\ unannounced' \in [Nodes -> BOOLEAN]
        /\ \A u \in Threads \ {"Req"} : out'[u] = out[u]
        /\ \A u \in Threads : out'[u] # Nothing => out'[u].node \in Nodes
    <3>1. CASE Announces("Req", req.node, "removed", Gone)
      BY <2>1, <3>1, AnnounceTypes
    <3>2. CASE Withholds(req.node, Gone)
      <4>1. \A u \in Threads : out[u] # Nothing => out[u].node \in Nodes
        BY DEF ThreadInv
      <4> QED BY <2>1, <3>2, <4>1, WithholdTypes
    <3> QED BY <2>2, <3>1, <3>2
  <2>5. \A u \in {"Mon", "Rep"} : out'[u] = out[u]
    BY <2>4 DEF Threads
  <2>6. present' \subseteq Nodes
    BY <1>3 DEF RemoveNode, TypeOK
  <2> QED BY <1>3, <2>1, <2>3, <2>4, <2>5, <2>6 DEF RemoveNode, TypeOK, ThreadInv
<1>4. CASE InterviewRead
  <2>1. req.node \in Nodes
    BY <1>4 DEF InterviewRead, ThreadInv
  <2>2. val[req.node] \in Values /\ NoWork \in Work /\ NoWork.at = "idle"
    BY <2>1 DEF TypeOK, Values, NoWork, Named
  <2>3. req' \in Work /\ (req'.at # "idle" => req'.node = req.node)
    BY <1>4, <2>2 DEF InterviewRead, TypeOK
  <2> QED BY <1>4, <2>1, <2>3 DEF InterviewRead, TypeOK, ThreadInv
<1>5. CASE InterviewApply
  <2>1. req.val \in Values /\ req.node \in Nodes /\ "Req" \in Threads
    BY <1>5 DEF InterviewApply, TypeOK, ThreadInv, Threads
  <2>2. Writes("Req", req.node)
    BY <1>5, <2>1, InterviewWrites DEF InterviewApply
  <2>3. crossed' \in [Nodes -> BOOLEAN]
    BY <1>5 DEF InterviewApply, Interview, InterviewUnsaved, Cross, TypeOK
  <2>4. req' \in Work /\ req'.at = "idle"
    BY <1>5 DEF InterviewApply, NoWork, Named, Values
  <2>5. \A u \in {"Mon", "Rep"} : out'[u] = out[u]
    BY <2>1, <2>2, WriteTypes DEF Threads
  <2> QED BY <1>5, <2>1, <2>2, <2>3, <2>4, <2>5, WriteTypes DEF InterviewApply, TypeOK, ThreadInv
<1>6. CASE PingNode
  <2>1. req.node \in Nodes /\ "Req" \in Threads
    BY <1>6 DEF PingNode, ThreadInv, Threads
  <2>2. (req.at = "answered") \in BOOLEAN
    OBVIOUS
  <2>3. Writes("Req", req.node)
    BY <1>6, <2>1, <2>2, MarkWrites DEF PingNode
  <2>4. req' \in Work /\ req'.at = "idle"
    BY <1>6 DEF PingNode, NoWork, Named, Values
  <2>5. \A u \in {"Mon", "Rep"} : out'[u] = out[u]
    BY <2>1, <2>3, WriteTypes DEF Threads
  <2> QED BY <1>6, <2>1, <2>3, <2>4, <2>5, WriteTypes DEF PingNode, TypeOK, ThreadInv
<1>7. CASE PingEnds
  <2>1. req' \in Work /\ req'.node = req.node
    BY <1>7 DEF PingEnds, TypeOK
  <2> QED BY <1>7, <2>1 DEF PingEnds, TypeOK, ThreadInv
<1> QED BY <1>1, <1>2, <1>3, <1>4, <1>5, <1>6, <1>7 DEF Requests

LEMMA PublishTypes ==
    ASSUME TypeOK, ThreadInv, NEW t \in Threads, Publish(t) PROVE TypeOK' /\ ThreadInv'
<1> USE DEF deviceVars, storeVars, regVars, monVars, historyVars
<1>1. out[t].node \in Nodes /\ out[t].body \in Bodies
  BY DEF Publish, ThreadInv, TypeOK
<1>2. Nothing \in [kind : {"nothing", "updated", "removed"}, node : Named, body : Bodies]
  BY DEF Nothing, Gone, Named, Bodies, Values
<1>3. view' \in [Nodes -> Bodies]
  BY <1>1 DEF Publish, TypeOK
<1>4. /\ out' \in [Threads -> [kind : {"nothing", "updated", "removed"},
                               node : Named, body : Bodies]]
      /\ \A u \in Threads : out'[u] \in {out[u], Nothing}
  BY <1>2 DEF Publish, TypeOK
<1>5. {"Mon", "Rep", "Req"} \subseteq Threads
  BY DEF Threads
<1> QED BY <1>3, <1>4, <1>5 DEF Publish, TypeOK, ThreadInv

LEMMA StepTypes ==
    ASSUME TypeOK, ThreadInv, [Next]_vars PROVE TypeOK' /\ ThreadInv'
<1>1. CASE UNCHANGED vars
  BY <1>1 DEF vars, deviceVars, storeVars, regVars, monVars, historyVars, TypeOK, ThreadInv
<1> QED BY <1>1, DeviceTypes, TickTypes, MonitorTypes, MatterTypes, RequestTypes, PublishTypes
        DEF Next

\* Type correctness of monitoring, and the discipline of its threads: a thread
\* has published what it changed before it goes on to its next await.
THEOREM TypeCorrect == Spec => [](TypeOK /\ ThreadInv)
<1>1. TypeOK /\ ThreadInv /\ [Next]_vars => (TypeOK /\ ThreadInv)'
  BY StepTypes
<1> QED BY <1>1, InitTypes, PTL DEF Spec

-----------------------------------------------------------------------------
(* Ids: what is applied was subscribed to.                                 *)

\* A step that issues no id, enters none in the registry and accepts no report.
LEMMA IdFrame ==
    ASSUME TypeOK, IdInv, lastId' = lastId, mine' = mine,
           \A d \in Nodes : reg'[d] \in {0, reg[d]} /\ devSub'[d] \in {0, devSub[d]},
           \/ /\ mon'.node = mon.node /\ mon'.id = mon.id
              /\ mon'.at = "confirmed" => mon.at = "confirmed"
           \/ mon'.id = 0 /\ mon'.at # "confirmed",
           rep' = rep \/ rep'.at = "idle"
    PROVE  IdInv'
<1>1. \A d \in Nodes : lastId[d] \in Nat
  BY DEF TypeOK
<1>2. ASSUME NEW d \in Nodes
      PROVE  /\ reg'[d] <= lastId'[d] /\ devSub'[d] <= lastId'[d]
             /\ mon'.node = d => mon'.id <= lastId'[d]
             /\ reg'[d] # 0 => reg'[d] \in mine'[d]
  BY <1>1 DEF IdInv
<1>3. rep'.at = "accepted" => rep'.id \in mine'[rep'.node]
  BY DEF IdInv
<1>4. mon'.at = "confirmed" => mon'.id # 0
  BY DEF IdInv
<1> QED BY <1>2, <1>3, <1>4 DEF IdInv

\* A device that accepts issues an id above all it has issued.
LEMMA AcceptIds ==
    ASSUME TypeOK, IdInv, NEW d \in Nodes, Accept(d)
    PROVE  /\ lastId' = [lastId EXCEPT ![d] = lastId[d] + 1]
           /\ devSub' = [devSub EXCEPT ![d] = lastId[d] + 1]
           /\ lastId'[d] = lastId[d] + 1 /\ devSub'[d] = lastId'[d]
           /\ \A e \in Nodes : reg[e] <= lastId'[e] /\ devSub'[e] <= lastId'[e]
           /\ reg[d] < lastId'[d]
           /\ \A e \in Nodes : mon.node = e => mon.id <= lastId'[e]
           /\ mon.node = d => mon.id < lastId'[d]
<1>1. /\ lastId' = [lastId EXCEPT ![d] = lastId[d] + 1]
      /\ lastId'[d] = lastId[d] + 1
      /\ devSub' = [devSub EXCEPT ![d] = lastId[d] + 1]
  BY DEF Accept, TypeOK
<1>2. \A e \in Nodes : lastId[e] \in Nat /\ devSub[e] \in Nat /\ reg[e] \in Nat
  BY DEF TypeOK
<1>3. mon.id \in Nat
  BY DEF TypeOK
<1> QED BY <1>1, <1>2, <1>3 DEF IdInv, TypeOK

LEMMA StepIds == ASSUME TypeOK, ThreadInv, IdInv, [Next]_vars PROVE IdInv'
<1> USE DEF deviceVars, storeVars, regVars, monVars, historyVars
<1>0. \A d \in Nodes : reg[d] \in Nat /\ devSub[d] \in Nat
  BY DEF TypeOK
<1>1. ASSUME NEW d \in Nodes, Device(d) PROVE IdInv'
  <2>1. /\ \A e \in Nodes : devSub'[e] \in {0, devSub[e]}
        /\ lastId' = lastId /\ mine' = mine /\ reg' = reg /\ mon' = mon /\ rep' = rep
    BY <1>1 DEF Device, DeviceChange, DeviceReport, DeviceDrop, Outage, Return, TypeOK
  <2> QED BY <2>1, IdFrame
<1>2. CASE Tick
  BY <1>2, IdFrame DEF Tick
<1>3. ASSUME NEW d \in Nodes, MonSkip(d) PROVE IdInv'
  BY <1>3, IdFrame DEF MonSkip
<1>4. ASSUME NEW d \in Nodes, MonVisit(d) PROVE IdInv'
  BY <1>4, IdFrame DEF MonVisit
<1>5. ASSUME NEW d \in Nodes, SubscribeConfirmed(d) PROVE IdInv'
  <2>1. mon'.node = d /\ mon'.id = lastId'[d]
    BY <1>5 DEF SubscribeConfirmed, MonAt, TypeOK
  <2>2. lastId'[d] \in Nat \ {0}
    BY <1>5, AcceptIds DEF SubscribeConfirmed, TypeOK
  <2> QED BY <1>5, <2>1, <2>2, AcceptIds DEF SubscribeConfirmed, IdInv
<1>6. ASSUME NEW d \in Nodes, MonEstablished(d) PROVE IdInv'
  <2>1. /\ reg' = [reg EXCEPT ![d] = mon.id] /\ mine' = [mine EXCEPT ![d] = mine[d] \cup {mon.id}]
        /\ mon.node = d /\ mon'.node = mon.node /\ mon'.id = mon.id /\ mon'.at = "priming"
        /\ UNCHANGED <<lastId, devSub, rep>>
    BY <1>6 DEF MonEstablished, MonAt, TypeOK
  <2>2. \A e \in Nodes : mine[e] \subseteq mine'[e]
    BY <2>1 DEF TypeOK
  <2>3. mon.id \in mine'[d] /\ reg'[d] = mon.id
    BY <2>1 DEF TypeOK
  <2>4. ASSUME NEW e \in Nodes
        PROVE  /\ reg'[e] <= lastId'[e] /\ devSub'[e] <= lastId'[e]
               /\ mon'.node = e => mon'.id <= lastId'[e]
               /\ reg'[e] # 0 => reg'[e] \in mine'[e]
    BY <2>1, <2>2, <2>3 DEF IdInv, TypeOK
  <2>5. rep'.at = "accepted" => rep'.id \in mine'[rep'.node]
    BY <2>1, <2>2 DEF IdInv, ThreadInv
  <2> QED BY <2>1, <2>4, <2>5 DEF IdInv
<1>7. ASSUME NEW d \in Nodes, Maintain(d), ~ SubscribeConfirmed(d), ~ MonEstablished(d)
      PROVE  IdInv'
  <2>1. UNCHANGED <<lastId, mine, reg, devSub, rep>>
    BY <1>7 DEF Maintain, SubscribeUnreachable, SubscribeRefused, SubscribeTimeout, MonApply,
                MonPollAnswered, MonPollFailed, MonMark
  <2>2. \/ mon'.node = mon.node /\ mon'.id = mon.id /\ mon'.at # "confirmed"
        \/ mon'.id = 0 /\ mon'.at # "confirmed"
    <3>1. CASE MonMark(d)
      BY <3>1 DEF MonMark, Idle
    <3>2. CASE MonPollAnswered(d)
      BY <3>2 DEF MonPollAnswered, TypeOK
    <3>3. CASE SubscribeRefused(d) \/ SubscribeTimeout(d)
      BY <3>3 DEF SubscribeRefused, SubscribeTimeout, TypeOK
    <3>4. CASE SubscribeUnreachable(d) \/ MonPollFailed(d) \/ MonApply(d)
      BY <3>4 DEF SubscribeUnreachable, MonPollFailed, MonApply, TypeOK
    <3> QED BY <1>7, <3>1, <3>2, <3>3, <3>4 DEF Maintain
  <2> QED BY <2>1, <2>2, IdFrame
<1>8. ASSUME NEW d \in Nodes, LateSubscribe(d) PROVE IdInv'
  BY <1>8, AcceptIds DEF LateSubscribe, IdInv
<1>9. ASSUME NEW d \in Nodes, ReportAccepted(d) PROVE IdInv'
  <2>1. wire[d].id \in mine[d] /\ rep'.id = wire[d].id /\ rep'.node = d
    BY <1>9 DEF ReportAccepted, Accepts, IdInv
  <2> QED BY <1>9, <2>1 DEF ReportAccepted, IdInv
<1>10. ASSUME NEW d \in Nodes, ReportDisowned(d) PROVE IdInv'
  <2>1. \A e \in Nodes : devSub'[e] \in {0, devSub[e]}
    BY <1>10 DEF ReportDisowned, TypeOK
  <2> QED BY <1>10, <2>1, IdFrame DEF ReportDisowned
<1>11. CASE MonPass
  <2>1. \A e \in Nodes : reg'[e] \in {0, reg[e]}
    BY <1>11 DEF MonPass
  <2> QED BY <1>11, <2>1, IdFrame DEF MonPass
<1>12. CASE ReportApplied
  BY <1>12, IdFrame DEF ReportApplied, NoWork
<1>13. CASE ReportUndecodable
  <2>1. \A e \in Nodes : devSub'[e] \in {0, devSub[e]}
    BY <1>13 DEF ReportUndecodable, TypeOK
  <2> QED BY <1>13, <2>1, IdFrame DEF ReportUndecodable, NoWork
<1>14. CASE Requests
  <2>1. /\ \A e \in Nodes : devSub'[e] \in {0, devSub[e]}
        /\ UNCHANGED <<lastId, mine, reg, mon, rep>>
    BY <1>14 DEF Requests, Request, RemoveFabric, RemoveNode, InterviewRead, InterviewApply,
                 PingEnds, PingNode, TypeOK
  <2> QED BY <2>1, IdFrame
<1>15. ASSUME NEW t \in Threads, Publish(t) PROVE IdInv'
  BY <1>15, IdFrame DEF Publish
<1>16. CASE UNCHANGED vars
  BY <1>16, IdFrame DEF vars
<1> QED BY <1>1, <1>2, <1>3, <1>4, <1>5, <1>6, <1>7, <1>8, <1>9, <1>10, <1>11, <1>12, <1>13,
           <1>14, <1>15, <1>16 DEF Next, Report

LEMMA IdsHold == Spec => []IdInv
<1>1. Init => IdInv
  BY DEF Init, IdInv, Idle, NoWork
<1>2. TypeOK /\ ThreadInv /\ IdInv /\ [Next]_vars => IdInv'
  BY StepIds
<1> QED BY <1>1, <1>2, TypeCorrect, PTL DEF Spec

\* Reports are applied only on a subscription that this server entered in its
\* registry for the node: for any nodes, and any number of subscriptions.
THEOREM OnlyOurReports == Spec => []ReportsAreOurs
<1>1. IdInv => ReportsAreOurs
  BY DEF IdInv, ReportsAreOurs
<1> QED BY <1>1, IdsHold, PTL

-----------------------------------------------------------------------------
(* Removal.                                                                *)

LEMMA WriteSpares ==
    ASSUME TypeOK, NEW t \in Threads, NEW d \in Nodes, Writes(t, d)
    PROVE  \A e \in Nodes \ present : store'[e] = store[e]
BY DEF Writes, Announces, Withholds, TypeOK

LEMMA StepGone == ASSUME TypeOK, ThreadInv, GoneStaysGone, [Next]_vars PROVE GoneStaysGone'
<1> USE DEF deviceVars, storeVars, regVars, monVars, historyVars
<1>0. \A t \in {"Mon", "Rep", "Req"} : t \in Threads
  BY DEF Threads
<1>1. ASSUME NEW t \in Threads, NEW d \in Nodes, Writes(t, d), present' = present
      PROVE  GoneStaysGone'
  BY <1>1, WriteSpares DEF GoneStaysGone
<1>2. ASSUME UNCHANGED storeVars PROVE GoneStaysGone'
  BY <1>2 DEF GoneStaysGone
<1>3. ASSUME NEW d \in Nodes, MonApply(d) PROVE GoneStaysGone'
  <2>1. mon.val \in Values
    BY DEF TypeOK
  <2>2. Writes("Mon", d)
    BY <1>0, <1>3, <2>1, MergeWrites, InterviewWrites DEF MonApply
  <2> QED BY <1>0, <1>1, <1>3, <2>2 DEF MonApply
<1>4. ASSUME NEW d \in Nodes, MonMark(d) PROVE GoneStaysGone'
  <2>1. Writes("Mon", d)
    BY <1>0, <1>4, MarkWrites DEF MonMark
  <2> QED BY <1>0, <1>1, <1>4, <2>1 DEF MonMark
<1>5. CASE ReportApplied
  <2>1. rep.val \in Values /\ rep.node \in Nodes
    BY <1>5 DEF ReportApplied, TypeOK, ThreadInv
  <2>2. Writes("Rep", rep.node)
    BY <1>0, <1>5, <2>1, MergeWrites DEF ReportApplied
  <2> QED BY <1>0, <1>1, <1>5, <2>1, <2>2 DEF ReportApplied
<1>6. CASE InterviewApply
  <2>1. req.val \in Values /\ req.node \in Nodes
    BY <1>6 DEF InterviewApply, TypeOK, ThreadInv
  <2>2. Writes("Req", req.node)
    BY <1>0, <1>6, <2>1, InterviewWrites DEF InterviewApply
  <2> QED BY <1>0, <1>1, <1>6, <2>1, <2>2 DEF InterviewApply
<1>7. CASE PingNode
  <2>1. req.node \in Nodes
    BY <1>7 DEF PingNode, ThreadInv
  <2>2. (req.at = "answered") \in BOOLEAN
    OBVIOUS
  <2>3. Writes("Req", req.node)
    BY <1>0, <1>7, <2>1, <2>2, MarkWrites DEF PingNode
  <2> QED BY <1>0, <1>1, <1>7, <2>1, <2>3 DEF PingNode
<1>8. CASE RemoveNode
  <2>1. /\ store' = [store EXCEPT ![req.node] = Gone] /\ present' = present \ {req.node}
        /\ req.node \in Nodes
    BY <1>8 DEF RemoveNode, ThreadInv
  <2> QED BY <2>1 DEF GoneStaysGone, TypeOK
<1>9. ASSUME NEW d \in Nodes, Maintain(d), ~ MonApply(d), ~ MonMark(d) PROVE UNCHANGED storeVars
  BY <1>9 DEF Maintain, SubscribeConfirmed, SubscribeUnreachable, SubscribeRefused,
              SubscribeTimeout, MonEstablished, MonPollAnswered, MonPollFailed
<1>10. ASSUME Requests, ~ RemoveNode, ~ InterviewApply, ~ PingNode PROVE UNCHANGED storeVars
  BY <1>10 DEF Requests, Request, RemoveFabric, InterviewRead, PingEnds
<1>11. ASSUME NEW d \in Nodes,
              Device(d) \/ MonSkip(d) \/ MonVisit(d) \/ LateSubscribe(d) \/ Report(d)
       PROVE  UNCHANGED storeVars
  BY <1>11 DEF Device, DeviceChange, DeviceReport, DeviceDrop, Outage, Return, MonSkip, MonVisit,
               LateSubscribe, Report, ReportAccepted, ReportDisowned
<1>12. ASSUME MonPass \/ ReportUndecodable \/ Tick \/ (\E t \in Threads : Publish(t))
              \/ UNCHANGED vars
       PROVE  UNCHANGED storeVars
  BY <1>12 DEF MonPass, ReportUndecodable, Tick, Publish, vars
<1> QED BY <1>2, <1>3, <1>4, <1>5, <1>6, <1>7, <1>8, <1>9, <1>10, <1>11, <1>12 DEF Next

\* A removed node stays removed: no report, priming report, poll, interview or
\* ping that is still under way writes it, whatever the nodes and bounds.
THEOREM RemovedForGood == Spec => []GoneStaysGone
<1>1. Init => GoneStaysGone
  BY DEF Init, GoneStaysGone
<1>2. TypeOK /\ ThreadInv /\ GoneStaysGone /\ [Next]_vars => GoneStaysGone'
  BY StepGone
<1> QED BY <1>1, <1>2, TypeCorrect, PTL DEF Spec

-----------------------------------------------------------------------------
(* Silence.                                                                *)

\* A step that touches nothing of node d which silence is about.
LEMMA AudibleFrame ==
    ASSUME NEW d \in Nodes, Audible(d),
           /\ lapsed'[d] = lapsed[d] /\ reach'[d] = reach[d] /\ wire'[d] = wire[d]
           /\ due'[d] = due[d] /\ reg'[d] = reg[d] /\ devSub'[d] = devSub[d]
           /\ silence'[d] = silence[d]
    PROVE  Audible(d)'
BY DEF Audible

\* Time passes for a reachable device: its clock, or the report under way,
\* grows at least as fast as the silence.
LEMMA TickAudible ==
    ASSUME TypeOK, NEW d \in Nodes, Audible(d), Tick PROVE Audible(d)'
<1> USE MonitoringBounds
<1>0. /\ due[d] \in 0 .. MaxInterval /\ silence[d] \in 0 .. 2 * MaxInterval
      /\ wire[d] \in [id : Nat, val : Values, age : 0 .. MaxDelay]
      /\ devSub[d] \in Nat /\ reg[d] \in Nat
  BY DEF TypeOK
<1>1. SUFFICES ASSUME ~ lapsed[d] PROVE Audible(d)'
  BY DEF Tick, historyVars, Audible
<1>2. /\ reach'[d] /\ reach[d] /\ lapsed' = lapsed /\ devSub' = devSub /\ reg' = reg
      /\ devSub[d] # 0 /\ wire[d] = NoReport => due[d] < MaxInterval
      /\ wire[d] # NoReport => wire[d].age < MaxDelay
  BY <1>1 DEF Tick, historyVars, Audible
<1>3. /\ due'[d] \in {due[d], due[d] + 1}
      /\ devSub[d] # 0 /\ due[d] < MaxInterval => due'[d] = due[d] + 1
      /\ silence'[d] \in {silence[d], silence[d] + 1}
  BY DEF Tick
<1>4. CASE wire[d] = NoReport
  <2>1. wire'[d] = NoReport
    BY <1>4 DEF Tick
  <2> QED BY <1>0, <1>1, <1>2, <1>3, <1>4, <2>1 DEF Audible
<1>5. CASE wire[d] # NoReport
  <2>1. wire'[d] = [wire[d] EXCEPT !.age = wire[d].age + 1]
    BY <1>2, <1>5 DEF Tick
  <2>2. wire'[d].age = wire[d].age + 1 /\ wire'[d].id = wire[d].id
    BY <1>0, <2>1
  <2>3. wire'[d] # NoReport
    BY <1>0, <2>2 DEF NoReport
  <2>4. due[d] <= wire[d].age
    BY <1>1, <1>5 DEF Audible
  <2>5. devSub[d] # 0 => due'[d] = due[d] + 1
    BY <1>0, <1>2, <1>3, <1>5, <2>4
  <2> QED BY <1>0, <1>1, <1>2, <1>3, <1>5, <2>2, <2>3, <2>4, <2>5 DEF Audible
<1> QED BY <1>4, <1>5

\* A device that has just accepted has not been asked to be heard yet.
LEMMA AcceptAudible ==
    ASSUME TypeOK, IdInv, SilenceInv, NEW d \in Nodes, Accept(d), UNCHANGED regVars
    PROVE  SilenceInv'
<1> SUFFICES ASSUME NEW e \in Nodes PROVE Audible(e)'
  BY DEF SilenceInv
<1>1. CASE e # d
  BY <1>1, AudibleFrame DEF SilenceInv, Accept, regVars, TypeOK
<1>2. CASE e = d
  <2>1. reach'[d] /\ due'[d] = 0 /\ wire'[d].age \in 0 .. MaxDelay
    BY DEF Accept, TypeOK
  <2>2. reg'[d] # devSub'[d]
    BY AcceptIds DEF regVars, TypeOK
  <2> QED BY <1>2, <2>1, <2>2, MonitoringBounds DEF Audible
<1> QED BY <1>1, <1>2

LEMMA StepSilence ==
    ASSUME TypeOK, ThreadInv, IdInv, SilenceInv, [Next]_vars PROVE SilenceInv'
<1> USE MonitoringBounds DEF deviceVars, storeVars, regVars, monVars, historyVars
<1>0. ASSUME NEW e \in Nodes
      PROVE  /\ Audible(e) /\ due[e] \in 0 .. MaxInterval /\ silence[e] \in 0 .. 2 * MaxInterval
             /\ wire[e] \in [id : Nat, val : Values, age : 0 .. MaxDelay]
             /\ devSub[e] \in Nat /\ reg[e] \in Nat /\ lapsed[e] \in BOOLEAN
  BY DEF SilenceInv, TypeOK
<1>1. ASSUME NEW d \in Nodes, Device(d), NEW e \in Nodes PROVE Audible(e)'
  <2>1. CASE e # d
    BY <1>0, <1>1, <2>1, AudibleFrame
       DEF Device, DeviceChange, DeviceReport, DeviceDrop, Outage, Return, TypeOK
  <2>2. CASE e = d /\ DeviceReport(d)
    <3>1. /\ wire'[d].age = 0 /\ wire'[d].id = devSub[d] /\ due'[d] = 0 /\ wire[d] = NoReport
          /\ UNCHANGED <<lapsed, reach, reg, devSub, silence>>
      BY <2>2 DEF DeviceReport, TypeOK
    <3>2. wire'[d] # NoReport
      BY <2>2, <3>1 DEF DeviceReport, NoReport
    <3> QED BY <1>0, <2>2, <3>1, <3>2 DEF Audible
  <2>3. CASE e = d /\ DeviceDrop(d)
    <3>1. wire'[d] = NoReport /\ devSub'[d] = 0 /\ UNCHANGED <<lapsed, reach, reg>>
      BY <2>3 DEF DeviceDrop, TypeOK
    <3> QED BY <1>0, <2>3, <3>1 DEF Audible
  <2>4. CASE e = d /\ Outage(d)
    BY <2>4 DEF Outage, Audible, TypeOK
  <2>5. CASE e = d /\ Return(d)
    <3>1. reach'[d] /\ UNCHANGED <<lapsed, reg, devSub, silence, wire, due>>
      BY <2>5 DEF Return, TypeOK
    <3> QED BY <1>0, <2>5, <3>1 DEF Audible
  <2>6. CASE e = d /\ DeviceChange(d)
    BY <1>0, <2>6, AudibleFrame DEF DeviceChange
  <2> QED BY <1>1, <2>1, <2>2, <2>3, <2>4, <2>5, <2>6 DEF Device
<1>2. CASE Tick
  BY <1>0, <1>2, TickAudible DEF SilenceInv
<1>3. ASSUME NEW d \in Nodes, SubscribeConfirmed(d) \/ LateSubscribe(d) PROVE SilenceInv'
  BY <1>3, AcceptAudible DEF SubscribeConfirmed, LateSubscribe
<1>4. ASSUME NEW d \in Nodes, MonEstablished(d), NEW e \in Nodes PROVE Audible(e)'
  <2>1. /\ UNCHANGED <<lapsed, reach, wire, due, devSub>>
        /\ e # d => reg'[e] = reg[e] /\ silence'[e] = silence[e]
        /\ e = d => silence'[e] = 0
    BY <1>4 DEF MonEstablished, TypeOK
  <2> QED BY <1>0, <2>1 DEF Audible
<1>5. ASSUME NEW d \in Nodes, ReportAccepted(d), NEW e \in Nodes PROVE Audible(e)'
  <2>1. /\ UNCHANGED <<lapsed, reach, reg, due, devSub>>
        /\ e # d => wire'[e] = wire[e] /\ silence'[e] = silence[e]
        /\ e = d => silence'[e] = 0 /\ wire'[e] = NoReport
    BY <1>5 DEF ReportAccepted, TypeOK
  <2> QED BY <1>0, <2>1 DEF Audible
<1>6. ASSUME NEW d \in Nodes, ReportDisowned(d), NEW e \in Nodes PROVE Audible(e)'
  <2>1. /\ UNCHANGED <<lapsed, reach, reg, due, silence>>
        /\ e # d => wire'[e] = wire[e] /\ devSub'[e] = devSub[e]
        /\ e = d => /\ wire'[e] = NoReport /\ wire[e] # NoReport
                    /\ devSub'[e] = IF devSub[e] = wire[e].id THEN 0 ELSE devSub[e]
    BY <1>6 DEF ReportDisowned, TypeOK
  <2> QED BY <1>0, <2>1 DEF Audible
<1>7. ASSUME MonPass, NEW e \in Nodes PROVE Audible(e)'
  <2>1. /\ UNCHANGED <<lapsed, reach, wire, due, devSub>>
        /\ (reg'[e] = 0 \/ (reg'[e] = reg[e] /\ silence'[e] = silence[e]))
    BY <1>7 DEF MonPass
  <2> QED BY <1>0, <2>1 DEF Audible
<1>8. ASSUME ReportUndecodable, NEW e \in Nodes PROVE Audible(e)'
  <2>1. /\ UNCHANGED <<lapsed, reach, wire, due, reg, silence>>
        /\ devSub'[e] \in {0, devSub[e]}
    BY <1>8 DEF ReportUndecodable, TypeOK
  <2> QED BY <1>0, <2>1 DEF Audible
<1>9. ASSUME RemoveFabric, NEW e \in Nodes PROVE Audible(e)'
  <2>1. CASE reach[req.node] /\ e = req.node
    BY <1>9, <2>1 DEF RemoveFabric, Audible, TypeOK
  <2>2. CASE ~ (reach[req.node] /\ e = req.node)
    <3>1. /\ UNCHANGED <<due, reg, silence>>
          /\ lapsed'[e] = lapsed[e] /\ reach'[e] = reach[e] /\ wire'[e] = wire[e]
          /\ devSub'[e] = devSub[e]
      BY <1>9, <2>2 DEF RemoveFabric, TypeOK
    <3> QED BY <1>0, <3>1, AudibleFrame
  <2> QED BY <2>1, <2>2
<1>10. ASSUME UNCHANGED <<lapsed, reach, wire, due, reg, devSub, silence>> PROVE SilenceInv'
  BY <1>0, <1>10, AudibleFrame DEF SilenceInv
<1>11. ASSUME NEW d \in Nodes, Maintain(d), ~ SubscribeConfirmed(d), ~ MonEstablished(d)
       PROVE  UNCHANGED <<lapsed, reach, wire, due, reg, devSub, silence>>
  BY <1>11 DEF Maintain, SubscribeUnreachable, SubscribeRefused, SubscribeTimeout, MonApply,
               MonPollAnswered, MonPollFailed, MonMark
<1>12. ASSUME Requests, ~ RemoveFabric
       PROVE  UNCHANGED <<lapsed, reach, wire, due, reg, devSub, silence>>
  BY <1>12 DEF Requests, Request, RemoveNode, InterviewRead, InterviewApply, PingEnds, PingNode
<1>13. ASSUME \/ \E d \in Nodes : MonSkip(d) \/ MonVisit(d)
              \/ ReportApplied \/ (\E t \in Threads : Publish(t)) \/ UNCHANGED vars
       PROVE  UNCHANGED <<lapsed, reach, wire, due, reg, devSub, silence>>
  BY <1>13 DEF MonSkip, MonVisit, ReportApplied, Publish, vars
<1>14. ASSUME \A e \in Nodes : Audible(e)' PROVE SilenceInv'
  BY <1>14 DEF SilenceInv
<1> QED BY <1>1, <1>2, <1>3, <1>4, <1>5, <1>6, <1>7, <1>8, <1>9, <1>10, <1>11, <1>12, <1>13,
           <1>14 DEF Next, Report

LEMMA SilenceHolds == Spec => []SilenceInv
<1>1. Init => SilenceInv
  BY DEF Init, SilenceInv, Audible
<1>2. TypeOK /\ ThreadInv /\ IdInv /\ SilenceInv /\ [Next]_vars => SilenceInv'
  BY StepSilence
<1> QED BY <1>1, <1>2, TypeCorrect, IdsHold, PTL DEF Spec

\* What forget_silent drops while the device still holds it belongs to a device
\* that was out of reach in between: with a delay below the keepalive interval,
\* two intervals are enough for every device that keeps its promise.
THEOREM SilenceIsReal == Spec => NoFalseSilence
<1> DEFINE Fair == \A d \in Nodes : reg[d] # 0 /\ reg'[d] = 0 /\ devSub[d] = reg[d] => lapsed[d]
<1>1. TypeOK /\ ThreadInv /\ IdInv /\ SilenceInv /\ [Next]_vars => [Fair]_vars
  <2> SUFFICES ASSUME TypeOK, ThreadInv, IdInv, SilenceInv, Next,
                      NEW d \in Nodes, reg[d] # 0, reg'[d] = 0, devSub[d] = reg[d]
               PROVE  lapsed[d]
    OBVIOUS
  <2> USE DEF deviceVars, storeVars, regVars, monVars, historyVars
  <2>0. /\ due[d] \in 0 .. MaxInterval /\ silence[d] \in 0 .. 2 * MaxInterval
        /\ wire[d] \in [id : Nat, val : Values, age : 0 .. MaxDelay]
        /\ lapsed[d] \in BOOLEAN /\ Audible(d)
    BY DEF TypeOK, SilenceInv
  <2>1. CASE MonPass
    <3>1. silence[d] >= 2 * MaxInterval
      BY <2>1 DEF MonPass, Silent
    <3> QED BY <2>0, <3>1, MonitoringBounds DEF Audible
  <2>2. CASE ~ MonPass
    <3>1. \/ reg' = reg
          \/ \E e \in Nodes : MonEstablished(e)
      BY ZenonT(60), <2>2 DEF Next, Device, DeviceChange, DeviceReport, DeviceDrop, Outage, Return, MonSkip,
                  MonVisit, Maintain, SubscribeConfirmed, SubscribeUnreachable, SubscribeRefused,
                  SubscribeTimeout, MonApply, MonPollAnswered, MonPollFailed, MonMark,
                  LateSubscribe, Report, ReportAccepted, ReportDisowned, ReportApplied,
                  ReportUndecodable, Requests, Request, RemoveFabric, RemoveNode, InterviewRead,
                  InterviewApply, PingEnds, PingNode, Tick, Publish
    <3>2. ASSUME NEW e \in Nodes, MonEstablished(e) PROVE reg'[d] # 0
      BY <3>2 DEF MonEstablished, MonAt, IdInv, TypeOK
    <3> QED BY <3>1, <3>2
  <2> QED BY <2>1, <2>2
<1> QED BY <1>1, TypeCorrect, IdsHold, SilenceHolds, PTL DEF Spec, NoFalseSilence

-----------------------------------------------------------------------------
(* Values: what is in the store or on its way there.                       *)

LEMMA UnreadIsLess == Unread \notin Nat /\ Unread \in Int /\ \A n \in Nat : Unread < n
BY DEF Unread

\* A value that is written replaces the one in the store; writing an older one
\* is on record.
LEMMA MergeValue ==
    ASSUME TypeOK, NEW t \in Threads, NEW d \in Nodes, NEW v \in Values,
           Merge(t, d, v) \/ ((Interview(t, d, v) \/ InterviewUnsaved(d, v)) /\ v # Unread)
    PROVE  /\ \A e \in Nodes : e # d => store'[e] = store[e] /\ crossed'[e] = crossed[e]
           /\ store'[d].val \in {store[d].val, v}
           /\ d \in present /\ v # Unread => store'[d].val = v
           /\ v = Unread => store'[d].val = store[d].val
           /\ ~ crossed'[d] => ~ crossed[d] /\ ~ (d \in present /\ v # Unread /\ v < store[d].val)
<1>1. store[d] \in Bodies
  BY DEF TypeOK
<1>2. Cross(d, v)
  BY DEF Merge, Interview, InterviewUnsaved
<1>3. /\ \A e \in Nodes : e # d => crossed'[e] = crossed[e]
      /\ ~ crossed'[d] => ~ crossed[d] /\ ~ (d \in present /\ v # Unread /\ v < store[d].val)
  BY <1>2 DEF Cross, TypeOK
<1>4. CASE Merge(t, d, v) /\ d \in present /\ v # Unread /\ store[d].val # v
  <2>1. store' = [store EXCEPT ![d] = [store[d] EXCEPT !.val = v]]
    BY <1>4 DEF Merge
  <2>2. [store[d] EXCEPT !.val = v].val = v
    BY <1>1 DEF Bodies
  <2> QED BY <1>3, <1>4, <2>1, <2>2 DEF TypeOK
<1>5. CASE Merge(t, d, v) /\ ~ (d \in present /\ v # Unread /\ store[d].val # v)
  BY <1>3, <1>5 DEF Merge
<1>6. CASE (Interview(t, d, v) \/ InterviewUnsaved(d, v)) /\ v # Unread /\ d \in present
  <2>1. store' = [store EXCEPT ![d] = [val |-> v, version |-> store[d].version + 1, avail |-> TRUE]]
    BY <1>6 DEF Interview, InterviewUnsaved, Interviewed
  <2> QED BY <1>3, <1>6, <2>1 DEF TypeOK
<1>7. CASE Interview(t, d, v) /\ v # Unread /\ d \notin present
  BY <1>3, <1>7 DEF Interview
<1>8. InterviewUnsaved(d, v) => d \in present
  BY DEF InterviewUnsaved
<1> QED BY <1>4, <1>5, <1>6, <1>7, <1>8

LEMMA MarkValue ==
    ASSUME TypeOK, NEW t \in Threads, NEW d \in Nodes, NEW a \in BOOLEAN,
           MarkAvailable(t, d, a)
    PROVE  \A e \in Nodes : store'[e].val = store[e].val
<1>1. store[d] \in Bodies
  BY DEF TypeOK
<1>2. CASE d \in present /\ store[d].avail # a
  <2>1. store' = [store EXCEPT ![d] = [store[d] EXCEPT !.avail = a]]
    BY <1>2 DEF MarkAvailable
  <2>2. [store[d] EXCEPT !.avail = a].val = store[d].val
    BY <1>1 DEF Bodies
  <2> QED BY <2>1, <2>2 DEF TypeOK
<1>3. CASE ~ (d \in present /\ store[d].avail # a)
  BY <1>3 DEF MarkAvailable
<1> QED BY <1>2, <1>3

\* Whatever is held of a device was its value once.
LEMMA ValueFrame ==
    ASSUME TypeOK, NoValueFromNowhere,
           \A d \in Nodes : /\ val'[d] \in Nat /\ val[d] <= val'[d]
                            /\ store'[d].val = store[d].val \/ store'[d].val <= val'[d]
                            /\ wire'[d].val \in {Unread, wire[d].val, val[d]},
           mon' = mon \/ mon'.at \notin {"confirmed", "priming", "read"}
             \/ (mon'.val # Unread /\ mon'.val = mon.val),
           \A d \in Nodes : mon'.node = d =>
               mon'.val = Unread \/ (mon.node = d /\ mon'.val = mon.val) \/ mon'.val = val[d],
           \A d \in Nodes : rep'.node = d =>
               rep'.val = Unread \/ (rep.node = d /\ rep'.val = rep.val) \/ rep'.val = wire[d].val,
           \A d \in Nodes : req'.node = d =>
               req'.val = Unread \/ (req.node = d /\ req'.val = req.val) \/ req'.val = val[d],
           req' = req \/ req'.at # "read" \/ req'.val # Unread
    PROVE  NoValueFromNowhere'
<1>1. ASSUME NEW d \in Nodes
      PROVE  /\ store'[d].val <= val'[d] /\ wire'[d].val <= val'[d]
             /\ mon'.node = d => mon'.val <= val'[d]
             /\ rep'.node = d => rep'.val <= val'[d]
             /\ req'.node = d => req'.val <= val'[d]
  <2>1. /\ store[d].val \in Values /\ wire[d].val \in Values /\ mon.val \in Values
        /\ rep.val \in Values /\ req.val \in Values /\ val[d] \in Nat
    BY DEF TypeOK, Bodies
  <2>2. \A v \in Values : v \in Int
    BY UnreadIsLess DEF Values
  <2>3. /\ store[d].val <= val[d] /\ wire[d].val <= val[d]
        /\ mon.node = d => mon.val <= val[d]
        /\ rep.node = d => rep.val <= val[d]
        /\ req.node = d => req.val <= val[d]
    BY DEF NoValueFromNowhere
  <2>4. Unread <= val'[d]
    BY UnreadIsLess
  <2> QED BY <2>1, <2>2, <2>3, <2>4
<1>2. mon'.at \in {"confirmed", "priming", "read"} => mon'.val # Unread
  BY DEF NoValueFromNowhere
<1>3. req'.at = "read" => req'.val # Unread
  BY DEF NoValueFromNowhere
<1> QED BY <1>1, <1>2, <1>3 DEF NoValueFromNowhere

LEMMA StepValues ==
    ASSUME TypeOK, ThreadInv, NoValueFromNowhere, [Next]_vars PROVE NoValueFromNowhere'
<1> USE DEF deviceVars, storeVars, regVars, monVars, historyVars
<1>0. \A d \in Nodes : val[d] \in Nat /\ val[d] <= val[d] /\ Unread # val[d]
  BY UnreadIsLess DEF TypeOK
<1>1. ASSUME NEW d \in Nodes, Device(d) PROVE NoValueFromNowhere'
  <2>0. val' = val \/ val' = [val EXCEPT ![d] = val[d] + 1]
    BY <1>1 DEF Device, DeviceChange, DeviceReport, DeviceDrop, Outage, Return
  <2>1. /\ \A e \in Nodes : val'[e] \in Nat /\ val[e] <= val'[e]
        /\ UNCHANGED <<store, mon, rep, req>>
    <3>1. \A e \in Nodes : val'[e] \in Nat /\ val[e] <= val'[e]
      BY <1>0, <2>0 DEF TypeOK
    <3>2. UNCHANGED <<store, mon, rep, req>>
      BY <1>1 DEF Device, DeviceChange, DeviceReport, DeviceDrop, Outage, Return
    <3> QED BY <3>1, <3>2
  <2>2. \A e \in Nodes : wire'[e].val \in {Unread, wire[e].val, val[e]}
    BY SMTT(30), <1>1 DEF Device, DeviceChange, DeviceReport, DeviceDrop, Outage, Return, TypeOK, NoReport
  <2> QED BY <2>1, <2>2, ValueFrame
<1>2. CASE Tick
  <2>1. ASSUME NEW e \in Nodes PROVE wire'[e].val = wire[e].val
    <3>1. wire[e] \in [id : Nat, val : Values, age : 0 .. MaxDelay]
      BY DEF TypeOK
    <3>2. wire'[e] = [wire[e] EXCEPT !.age = wire[e].age + 1] \/ wire'[e] = wire[e]
      BY <1>2 DEF Tick
    <3> QED BY <3>1, <3>2
  <2>2. UNCHANGED <<val, store, mon, rep, req>>
    BY <1>2 DEF Tick
  <2> QED BY <1>0, <2>1, <2>2, ValueFrame
<1>3. ASSUME NEW d \in Nodes, MonSkip(d) \/ MonVisit(d) \/ LateSubscribe(d)
      PROVE  NoValueFromNowhere'
  <2>1. UNCHANGED <<val, store, wire, rep, req>>
    BY <1>3 DEF MonSkip, MonVisit, LateSubscribe, Accept
  <2>2. mon' = mon \/ (mon'.val = Unread /\ mon'.at = "subscribing")
    BY <1>3 DEF MonSkip, MonVisit, LateSubscribe
  <2> QED BY <1>0, <2>1, <2>2, ValueFrame
<1>4. ASSUME NEW d \in Nodes, Maintain(d), ~ MonApply(d), ~ MonMark(d) PROVE NoValueFromNowhere'
  <2>1. UNCHANGED <<val, store, wire, rep, req>>
    BY <1>4 DEF Maintain, SubscribeConfirmed, SubscribeUnreachable, SubscribeRefused,
                SubscribeTimeout, MonEstablished, MonPollAnswered, MonPollFailed, Accept
  <2>2. CASE SubscribeConfirmed(d) \/ MonPollAnswered(d)
    <3>1. mon'.val = val[d] /\ mon'.node = d
      BY <2>2 DEF SubscribeConfirmed, MonPollAnswered, MonAt, TypeOK
    <3>2. mon'.val # Unread
      BY <1>0, <3>1
    <3>3. NoValueFromNowhere
      OBVIOUS
    <3>4. ASSUME NEW e \in Nodes
          PROVE  /\ store'[e].val <= val'[e] /\ wire'[e].val <= val'[e]
                 /\ mon'.node = e => mon'.val <= val'[e]
                 /\ rep'.node = e => rep'.val <= val'[e]
                 /\ req'.node = e => req'.val <= val'[e]
      BY <1>0, <2>1, <3>1 DEF NoValueFromNowhere
    <3> QED BY <2>1, <3>2, <3>4 DEF NoValueFromNowhere
  <2>3. CASE ~ (SubscribeConfirmed(d) \/ MonPollAnswered(d))
    <3>1. /\ mon'.val = mon.val /\ mon'.node = mon.node
          /\ \/ mon'.at \notin {"confirmed", "priming", "read"}
             \/ mon.at = "confirmed"
      <4>1. CASE MonEstablished(d)
        BY <4>1 DEF MonEstablished, MonAt, TypeOK
      <4>2. CASE SubscribeUnreachable(d) \/ MonPollFailed(d)
        BY <4>2 DEF SubscribeUnreachable, MonPollFailed, TypeOK
      <4>3. CASE SubscribeRefused(d) \/ SubscribeTimeout(d)
        BY <4>3 DEF SubscribeRefused, SubscribeTimeout, TypeOK
      <4> QED BY <1>4, <2>3, <4>1, <4>2, <4>3 DEF Maintain
    <3>2. mon.at = "confirmed" => mon.val # Unread
      BY DEF NoValueFromNowhere
    <3> QED BY <1>0, <2>1, <3>1, <3>2, ValueFrame
  <2> QED BY <2>2, <2>3
<1>5. ASSUME NEW d \in Nodes, MonApply(d) PROVE NoValueFromNowhere'
  <2>1. /\ mon.val \in Values /\ mon.val # Unread /\ mon.val <= val[d] /\ "Mon" \in Threads
        /\ store[d].val <= val[d]
    BY <1>5 DEF MonApply, MonAt, NoValueFromNowhere, TypeOK, Threads
  <2>2. Merge("Mon", d, mon.val) \/ Interview("Mon", d, mon.val)
    BY <1>5 DEF MonApply
  <2>3. \A e \in Nodes : store'[e].val = store[e].val \/ store'[e].val <= val[e]
    BY <2>1, <2>2, MergeValue
  <2>4. UNCHANGED <<val, wire, rep, req>> /\ mon'.at = "up" /\ mon'.node = mon.node
        /\ mon'.val = mon.val
    BY <1>5 DEF MonApply, TypeOK
  <2> QED BY <1>0, <2>3, <2>4, ValueFrame
<1>6. ASSUME NEW d \in Nodes, MonMark(d) PROVE NoValueFromNowhere'
  <2>1. "Mon" \in Threads /\ (mon.at = "up") \in BOOLEAN
    BY DEF Threads
  <2>2. \A e \in Nodes : store'[e].val = store[e].val
    BY <1>6, <2>1, MarkValue DEF MonMark
  <2>3. UNCHANGED <<val, wire, rep, req>> /\ mon'.at = "idle" /\ mon'.val = Unread
    BY <1>6 DEF MonMark, Idle
  <2> QED BY <1>0, <2>2, <2>3, ValueFrame
<1>7. ASSUME NEW d \in Nodes, Report(d) PROVE NoValueFromNowhere'
  <2>1. \A e \in Nodes : wire'[e].val \in {Unread, wire[e].val}
    <3>1. \A e \in Nodes : wire'[e] \in {NoReport, wire[e]}
      BY <1>7 DEF Report, ReportAccepted, ReportDisowned, TypeOK
    <3> QED BY <3>1 DEF NoReport
  <2>2. /\ UNCHANGED <<val, store, mon, req>>
        /\ rep' = rep \/ (rep'.node = d /\ rep'.val = wire[d].val)
    BY <1>7 DEF Report, ReportAccepted, ReportDisowned
  <2> QED BY <1>0, <2>1, <2>2, ValueFrame
<1>8. CASE MonPass \/ ReportUndecodable \/ (\E t \in Threads : Publish(t)) \/ UNCHANGED vars
  <2>1. UNCHANGED <<val, store, wire, mon, req>> /\ (rep' = rep \/ rep'.val = Unread)
    BY <1>8 DEF MonPass, ReportUndecodable, NoWork, Publish, vars
  <2> QED BY <1>0, <2>1, ValueFrame
<1>9. CASE ReportApplied
  <2>1. rep.val \in Values /\ rep.node \in Nodes /\ "Rep" \in Threads
    BY <1>9 DEF ReportApplied, TypeOK, ThreadInv, Threads
  <2>2. rep.val <= val[rep.node] /\ Merge("Rep", rep.node, rep.val)
    BY <1>9, <2>1 DEF ReportApplied, NoValueFromNowhere
  <2>3. \A e \in Nodes : store'[e].val = store[e].val \/ store'[e].val <= val[e]
    BY <2>1, <2>2, MergeValue
  <2>4. UNCHANGED <<val, wire, mon, req>> /\ rep'.val = Unread
    BY <1>9 DEF ReportApplied, NoWork
  <2> QED BY <1>0, <2>3, <2>4, ValueFrame
<1>10. ASSUME NEW d \in Nodes, NEW op \in {"removing", "interviewing", "pinging"}, Request(d, op)
       PROVE  NoValueFromNowhere'
  <2>1. UNCHANGED <<val, store, wire, mon, rep>> /\ req'.val = Unread /\ req'.at # "read"
    BY <1>10 DEF Request
  <2> QED BY <1>0, <2>1, ValueFrame
<1>11. CASE RemoveFabric
  <2>1. \A e \in Nodes : wire'[e].val \in {Unread, wire[e].val}
    <3>1. req.node \in Nodes
      BY <1>11 DEF RemoveFabric, ThreadInv
    <3>2. wire' = [wire EXCEPT ![req.node] = NoReport] \/ wire' = wire
      BY <1>11 DEF RemoveFabric
    <3>3. \A e \in Nodes : wire'[e] \in {NoReport, wire[e]}
      BY <3>1, <3>2 DEF TypeOK
    <3> QED BY <3>3 DEF NoReport
  <2>2. /\ UNCHANGED <<val, store, mon, rep>>
        /\ req'.val = req.val /\ req'.node = req.node /\ req'.at # "read"
    BY <1>11 DEF RemoveFabric, TypeOK
  <2> QED BY <1>0, <2>1, <2>2, ValueFrame
<1>12. CASE RemoveNode
  <2>1. req.node \in Nodes /\ store' = [store EXCEPT ![req.node] = Gone]
    BY <1>12 DEF RemoveNode, ThreadInv
  <2>2. \A e \in Nodes : store'[e].val = store[e].val \/ store'[e].val <= val[e]
    BY <2>1, <1>0, UnreadIsLess DEF Gone, TypeOK
  <2>3. UNCHANGED <<val, wire, mon, rep>> /\ req'.val = Unread /\ req'.at # "read"
    BY <1>12 DEF RemoveNode, NoWork
  <2> QED BY <1>0, <2>2, <2>3, ValueFrame
<1>13. CASE InterviewRead
  <2>1. req.node \in Nodes
    BY <1>13 DEF InterviewRead, ThreadInv
  <2>2. /\ UNCHANGED <<val, store, wire, mon, rep>>
        /\ \/ req'.val = Unread /\ req'.at # "read"
           \/ req'.val = val[req.node] /\ req'.node = req.node
    BY <1>13 DEF InterviewRead, NoWork, TypeOK
  <2> QED BY <1>0, <2>1, <2>2, ValueFrame
<1>14. CASE InterviewApply
  <2>1. req.val \in Values /\ req.node \in Nodes /\ "Req" \in Threads
    BY <1>14 DEF InterviewApply, TypeOK, ThreadInv, Threads
  <2>2. /\ req.val <= val[req.node] /\ req.val # Unread
        /\ Interview("Req", req.node, req.val) \/ InterviewUnsaved(req.node, req.val)
    BY <1>14, <2>1 DEF InterviewApply, NoValueFromNowhere
  <2>3. \A e \in Nodes : store'[e].val = store[e].val \/ store'[e].val <= val[e]
    BY <2>1, <2>2, MergeValue
  <2>4. UNCHANGED <<val, wire, mon, rep>> /\ req'.val = Unread /\ req'.at # "read"
    BY <1>14 DEF InterviewApply, NoWork
  <2> QED BY <1>0, <2>3, <2>4, ValueFrame
<1>15. CASE PingNode
  <2>1. req.node \in Nodes /\ "Req" \in Threads
    BY <1>15 DEF PingNode, ThreadInv, Threads
  <2>2. (req.at = "answered") \in BOOLEAN
    OBVIOUS
  <2>3. \A e \in Nodes : store'[e].val = store[e].val
    BY <1>15, <2>1, <2>2, MarkValue DEF PingNode
  <2>4. UNCHANGED <<val, wire, mon, rep>> /\ req'.val = Unread /\ req'.at # "read"
    BY <1>15 DEF PingNode, NoWork
  <2> QED BY <1>0, <2>3, <2>4, ValueFrame
<1>16. CASE PingEnds
  <2>1. /\ UNCHANGED <<val, store, wire, mon, rep>>
        /\ req'.val = req.val /\ req'.node = req.node /\ req'.at # "read"
    BY <1>16 DEF PingEnds, TypeOK
  <2> QED BY <1>0, <2>1, ValueFrame
<1>17. CASE Requests
  BY Zenon, <1>10, <1>11, <1>12, <1>13, <1>14, <1>15, <1>16, <1>17 DEF Requests
<1> QED BY Zenon, <1>1, <1>2, <1>3, <1>4, <1>5, <1>6, <1>7, <1>8, <1>9, <1>17 DEF Next
\* The monitor has a priming value of node d in hand.
Primes(d) == MonAt(d, "confirmed") \/ MonAt(d, "priming")

\* A step that changes nothing that node d's value depends on.
LEMMA AccountedFrame ==
    ASSUME TypeOK, NEW d \in Nodes, Accounted(d), present' \subseteq present,
           /\ val'[d] = val[d] /\ devSub'[d] = devSub[d] /\ unsent'[d] = unsent[d]
           /\ reg'[d] \in {0, reg[d]} /\ crossed'[d] = crossed[d]
           /\ store'[d].val = store[d].val
           /\ wire'[d].id = wire[d].id /\ wire'[d].val = wire[d].val,
           mon' = mon \/ (~ Primes(d) /\ ~ Primes(d)'),
           rep' = rep \/ ~ (rep.at = "accepted" /\ rep.node = d)
    PROVE  Accounted(d)'
<1> SUFFICES ASSUME d \in present', devSub'[d] # 0, Ours(d)', ~ unsent'[d], ~ crossed'[d]
             PROVE  Carried(d)'
  BY DEF Accounted
<1>1. Ours(d)
  BY DEF Ours, Primes, MonAt
<1>2. Carried(d)
  BY <1>1 DEF Accounted
<1>3. CASE rep' = rep
  BY <1>2, <1>3 DEF Carried, Primes, MonAt
<1>4. CASE ~ (rep.at = "accepted" /\ rep.node = d)
  BY <1>2, <1>4 DEF Carried, Primes, MonAt
<1> QED BY <1>3, <1>4

\* A current value is kept by every write that is not on record as crossed.
LEMMA WriteKeepsCurrent ==
    ASSUME TypeOK, NEW t \in Threads, NEW d \in Nodes, NEW v \in Values, v <= val[d],
           Merge(t, d, v) \/ ((Interview(t, d, v) \/ InterviewUnsaved(d, v)) /\ v # Unread),
           d \in present, ~ crossed'[d]
    PROVE  /\ store[d].val = val[d] => store'[d].val = val[d]
           /\ v = val[d] => store'[d].val = val[d]
<1>1. val[d] \in Nat /\ v \in Int /\ Unread # val[d]
  BY UnreadIsLess DEF TypeOK, Values
<1>2. /\ store'[d].val \in {store[d].val, v}
      /\ v # Unread => store'[d].val = v
      /\ v = Unread => store'[d].val = store[d].val
      /\ ~ (v # Unread /\ v < store[d].val)
  BY MergeValue
<1> QED BY <1>1, <1>2

LEMMA DeviceCurrent ==
    ASSUME TypeOK, NEW d \in Nodes, Device(d), NEW e \in Nodes, Accounted(e)
    PROVE  Accounted(e)'
<1> USE DEF deviceVars, storeVars, regVars, monVars, historyVars
<1>1. CASE e # d
  BY <1>1, AccountedFrame
     DEF Device, DeviceChange, DeviceReport, DeviceDrop, Outage, Return, TypeOK
<1>2. CASE e = d /\ DeviceChange(d)
  BY <1>2 DEF DeviceChange, Accounted, TypeOK
<1>3. CASE e = d /\ DeviceReport(d) /\ unsent[d]
  <2>1. wire'[d].id = devSub'[d] /\ wire'[d].val = val'[d]
    BY <1>3 DEF DeviceReport, TypeOK
  <2> QED BY <1>3, <2>1 DEF Accounted, Carried
<1>4. CASE e = d /\ DeviceReport(d) /\ ~ unsent[d]
  <2>1. wire[d].id # devSub[d]
    BY <1>4 DEF DeviceReport, NoReport
  <2>2. UNCHANGED <<val, devSub, reg, crossed, present, store, mon, rep>>
    BY <1>4 DEF DeviceReport
  <2>3. Ours(d)' <=> Ours(d)
    BY <2>2 DEF Ours, MonAt
  <2> QED BY <1>4, <2>1, <2>2, <2>3 DEF Accounted, Carried, MonAt
<1>5. CASE e = d /\ DeviceDrop(d)
  BY <1>5 DEF DeviceDrop, Accounted, TypeOK
<1>6. CASE e = d /\ (Outage(d) \/ Return(d))
  BY <1>6, AccountedFrame DEF Outage, Return
<1> QED BY <1>1, <1>2, <1>3, <1>4, <1>5, <1>6 DEF Device

LEMMA MonitorCurrent ==
    ASSUME TypeOK, ThreadInv, IdInv, CurrentInv, NEW d \in Nodes,
           MonSkip(d) \/ MonVisit(d) \/ Maintain(d), NEW e \in Nodes
    PROVE  Accounted(e)'
<1> USE DEF deviceVars, storeVars, regVars, monVars, historyVars
<1>0. Accounted(e)
  BY DEF CurrentInv
<1>1. CASE MonSkip(d)
  BY <1>0, <1>1, AccountedFrame DEF MonSkip
<1>2. CASE MonVisit(d)
  <2>1. ~ Primes(e) /\ ~ Primes(e)'
    BY <1>2 DEF MonVisit, Primes, MonAt, Idle
  <2> QED BY <1>0, <1>2, <2>1, AccountedFrame DEF MonVisit
<1>3. CASE SubscribeConfirmed(d)
  <2>1. CASE e = d
    <3>1. /\ mon'.at = "confirmed" /\ mon'.node = d
          /\ mon'.id = devSub'[d] /\ mon'.val = val'[d]
      BY <1>3, AcceptIds DEF SubscribeConfirmed, Accept, MonAt, TypeOK
    <3> QED BY <2>1, <3>1 DEF Accounted, Carried, MonAt
  <2>2. CASE e # d
    <3>1. ~ Primes(e) /\ ~ Primes(e)'
      BY <1>3, <2>2 DEF SubscribeConfirmed, Primes, MonAt, TypeOK
    <3>2. /\ val'[e] = val[e] /\ devSub'[e] = devSub[e] /\ unsent'[e] = unsent[e]
          /\ UNCHANGED <<present, store, reg, wire, crossed, rep>>
      BY <1>3, <2>2 DEF SubscribeConfirmed, Accept, TypeOK
    <3> QED BY <1>0, <3>1, <3>2, AccountedFrame
  <2> QED BY <2>1, <2>2
<1>4. CASE MonEstablished(d)
  <2>1. /\ reg' = [reg EXCEPT ![d] = mon.id] /\ mon.at = "confirmed" /\ mon.node = d
        /\ mon'.at = "priming" /\ mon'.node = d /\ mon'.id = mon.id /\ mon'.val = mon.val
        /\ UNCHANGED <<deviceVars, storeVars, rep, crossed>>
    BY <1>4 DEF MonEstablished, MonAt, TypeOK
  <2>2. CASE e = d
    <3>1. Ours(d)' => Ours(d)
      BY <2>1 DEF Ours, MonAt, TypeOK
    <3>2. Carried(d) => Carried(d)'
      BY <2>1 DEF Carried, MonAt
    <3> QED BY <1>0, <2>1, <2>2, <3>1, <3>2 DEF Accounted
  <2>3. CASE e # d
    <3>1. ~ Primes(e) /\ ~ Primes(e)' /\ reg'[e] = reg[e]
      BY <2>1, <2>3 DEF Primes, MonAt, TypeOK
    <3> QED BY <1>0, <2>1, <3>1, AccountedFrame
  <2> QED BY <2>2, <2>3
<1>5. CASE MonApply(d)
  <2>1. /\ mon.val \in Values /\ mon.val # Unread /\ mon.val <= val[d] /\ "Mon" \in Threads
        /\ mon.node = d /\ mon.at # "confirmed" /\ mon'.at = "up"
    BY <1>5 DEF MonApply, MonAt, CurrentInv, NoValueFromNowhere, TypeOK, Threads
  <2>2. Merge("Mon", d, mon.val) \/ Interview("Mon", d, mon.val)
    BY <1>5 DEF MonApply
  <2>3. UNCHANGED <<deviceVars, present, reg, rep>>
    BY <1>5 DEF MonApply
  <2>4. CASE e = d
    <3> SUFFICES ASSUME d \in present, devSub[d] # 0, Ours(d)', ~ unsent[d], ~ crossed'[d]
                 PROVE  Carried(d)'
      BY <2>3, <2>4 DEF Accounted
    <3>1. Ours(d) /\ ~ crossed[d]
      BY <2>1, <2>2, <2>3, MergeValue DEF Ours, MonAt
    <3>2. Carried(d)
      BY <1>0, <2>4, <3>1 DEF Accounted
    <3>3. /\ store[d].val = val[d] => store'[d].val = val[d]
          /\ mon.val = val[d] => store'[d].val = val[d]
      BY <2>1, <2>2, WriteKeepsCurrent
    <3> QED BY <2>3, <3>2, <3>3 DEF Carried, MonAt
  <2>5. CASE e # d
    <3>1. ~ Primes(e) /\ ~ Primes(e)'
      BY <2>1, <2>5 DEF Primes, MonAt
    <3>2. store'[e] = store[e] /\ crossed'[e] = crossed[e]
      BY <2>1, <2>2, <2>5, MergeValue
    <3> QED BY <1>0, <2>3, <3>1, <3>2, AccountedFrame
  <2> QED BY <2>4, <2>5
<1>6. CASE MonMark(d)
  <2>1. "Mon" \in Threads /\ (mon.at = "up") \in BOOLEAN
    BY DEF Threads
  <2>2. store'[e].val = store[e].val
    BY <1>6, <2>1, MarkValue DEF MonMark
  <2>3. ~ Primes(e) /\ ~ Primes(e)'
    BY <1>6 DEF MonMark, Primes, MonAt, Idle
  <2> QED BY <1>0, <1>6, <2>2, <2>3, AccountedFrame DEF MonMark
<1>7. CASE \/ SubscribeUnreachable(d) \/ SubscribeRefused(d) \/ SubscribeTimeout(d)
           \/ MonPollAnswered(d) \/ MonPollFailed(d)
  <2>1. mon.at \in {"subscribing", "poll"} /\ mon'.at \in {"down", "poll", "read"}
    BY <1>7 DEF SubscribeUnreachable, SubscribeRefused, SubscribeTimeout, MonPollAnswered,
                MonPollFailed, MonAt, TypeOK
  <2>2. UNCHANGED <<deviceVars, storeVars, regVars, crossed, rep>>
    BY <1>7 DEF SubscribeUnreachable, SubscribeRefused, SubscribeTimeout, MonPollAnswered,
                MonPollFailed
  <2> QED BY <1>0, <2>1, <2>2, AccountedFrame DEF Primes, MonAt
<1> QED BY <1>1, <1>2, <1>3, <1>4, <1>5, <1>6, <1>7 DEF Maintain

LEMMA MatterCurrent ==
    ASSUME TypeOK, ThreadInv, IdInv, CurrentInv, NEW e \in Nodes,
           \/ MonPass \/ ReportApplied \/ ReportUndecodable \/ Tick
           \/ \E d \in Nodes : LateSubscribe(d) \/ Report(d)
    PROVE  Accounted(e)'
<1> USE DEF deviceVars, storeVars, regVars, monVars, historyVars
<1>0. Accounted(e)
  BY DEF CurrentInv
<1>1. CASE MonPass
  BY <1>0, <1>1, AccountedFrame DEF MonPass
<1>2. CASE ReportApplied
  <2>1. rep.val \in Values /\ rep.node \in Nodes /\ "Rep" \in Threads /\ rep.val <= val[rep.node]
    BY <1>2 DEF ReportApplied, TypeOK, ThreadInv, Threads, CurrentInv, NoValueFromNowhere
  <2>2. Merge("Rep", rep.node, rep.val)
    BY <1>2 DEF ReportApplied
  <2>3. UNCHANGED <<deviceVars, present, reg, mon>>
    BY <1>2 DEF ReportApplied
  <2>4. CASE e = rep.node
    <3> SUFFICES ASSUME e \in present, devSub[e] # 0, Ours(e), ~ unsent[e], ~ crossed'[e]
                 PROVE  Carried(e)'
      BY <2>3 DEF Accounted, Ours, MonAt
    <3>1. ~ crossed[e]
      BY <2>1, <2>2, <2>4, MergeValue
    <3>2. Carried(e)
      BY <1>0, <3>1 DEF Accounted
    <3>3. /\ store[e].val = val[e] => store'[e].val = val[e]
          /\ rep.val = val[e] => store'[e].val = val[e]
      BY <2>1, <2>2, <2>4, WriteKeepsCurrent
    <3> QED BY <2>3, <3>2, <3>3 DEF Carried, MonAt
  <2>5. CASE e # rep.node
    <3>1. store'[e] = store[e] /\ crossed'[e] = crossed[e]
      BY <2>1, <2>2, <2>5, MergeValue
    <3> QED BY <1>0, <2>3, <2>5, <3>1, AccountedFrame
  <2> QED BY <2>4, <2>5
<1>3. CASE ReportUndecodable
  <2>1. /\ rep.at = "accepted" /\ UNCHANGED <<val, unsent, wire, storeVars, reg, mon, crossed>>
        /\ devSub' = [devSub EXCEPT ![rep.node] = IF devSub[rep.node] = rep.id
                                                  THEN 0 ELSE devSub[rep.node]]
        /\ rep.node \in Nodes
    BY <1>3 DEF ReportUndecodable, ThreadInv
  <2>2. CASE e = rep.node /\ devSub[e] = rep.id
    BY <2>1, <2>2 DEF Accounted, TypeOK
  <2>3. CASE e = rep.node /\ devSub[e] # rep.id
    <3>1. devSub'[e] = devSub[e]
      BY <2>1, <2>3 DEF TypeOK
    <3>2. Ours(e)' => Ours(e)
      BY <2>1, <3>1 DEF Ours, MonAt
    <3>3. Carried(e) => Carried(e)'
      BY <2>1, <2>3, <3>1 DEF Carried, MonAt
    <3> QED BY <1>0, <2>1, <3>1, <3>2, <3>3 DEF Accounted
  <2>4. CASE e # rep.node
    <3>1. devSub'[e] = devSub[e]
      BY <2>1, <2>4 DEF TypeOK
    <3> QED BY <1>0, <2>1, <2>4, <3>1, AccountedFrame
  <2> QED BY <2>2, <2>3, <2>4
<1>4. CASE Tick
  <2>1. wire'[e].val = wire[e].val /\ wire'[e].id = wire[e].id
    <3>1. wire[e] \in [id : Nat, val : Values, age : 0 .. MaxDelay]
      BY DEF TypeOK
    <3>2. wire'[e] = [wire[e] EXCEPT !.age = wire[e].age + 1] \/ wire'[e] = wire[e]
      BY <1>4 DEF Tick
    <3> QED BY <3>1, <3>2
  <2> QED BY <1>0, <1>4, <2>1, AccountedFrame DEF Tick
<1>5. ASSUME NEW d \in Nodes, LateSubscribe(d) PROVE Accounted(e)'
  <2>1. UNCHANGED <<present, store, reg, wire, val, crossed, rep, mon>>
    BY <1>5 DEF LateSubscribe, Accept
  <2>2. CASE e = d
    <3>1. devSub'[d] = lastId'[d] /\ reg[d] < lastId'[d] /\ (mon.node = d => mon.id < lastId'[d])
      BY <1>5, AcceptIds DEF LateSubscribe
    <3>2. lastId'[d] \in Nat /\ reg[d] \in Nat /\ mon.id \in Nat
      BY <1>5, AcceptIds DEF LateSubscribe, TypeOK
    <3>3. ~ Ours(d)'
      BY <2>1, <3>1, <3>2 DEF Ours, MonAt
    <3> QED BY <2>2, <3>3 DEF Accounted
  <2>3. CASE e # d
    <3>1. devSub'[e] = devSub[e] /\ unsent'[e] = unsent[e]
      BY <1>5, <2>3 DEF LateSubscribe, Accept, TypeOK
    <3> QED BY <1>0, <2>1, <3>1, AccountedFrame
  <2> QED BY <2>2, <2>3
<1>6. ASSUME NEW d \in Nodes, ReportAccepted(d) PROVE Accounted(e)'
  <2>1. /\ UNCHANGED <<val, devSub, unsent, storeVars, reg, mon, crossed>> /\ rep.at = "idle"
        /\ rep'.at = "accepted" /\ rep'.node = d /\ rep'.id = wire[d].id /\ rep'.val = wire[d].val
        /\ e # d => wire'[e] = wire[e]
    BY <1>6 DEF ReportAccepted, TypeOK
  <2>2. CASE e = d
    <3>1. Ours(e)' => Ours(e)
      BY <2>1 DEF Ours, MonAt
    <3>2. Carried(e) => Carried(e)'
      BY <2>1, <2>2 DEF Carried, MonAt
    <3> QED BY <1>0, <2>1, <3>1, <3>2 DEF Accounted
  <2>3. CASE e # d
    BY <1>0, <2>1, <2>3, AccountedFrame
  <2> QED BY <2>2, <2>3
<1>7. ASSUME NEW d \in Nodes, ReportDisowned(d) PROVE Accounted(e)'
  <2>1. /\ UNCHANGED <<val, unsent, storeVars, reg, mon, crossed, rep>>
        /\ e # d => wire'[e] = wire[e] /\ devSub'[e] = devSub[e]
        /\ e = d => devSub'[e] = IF devSub[e] = wire[e].id THEN 0 ELSE devSub[e]
    BY <1>7 DEF ReportDisowned, TypeOK
  <2>2. CASE e = d /\ devSub[e] = wire[e].id
    BY <2>1, <2>2 DEF Accounted
  <2>3. CASE e = d /\ devSub[e] # wire[e].id
    <3>1. Ours(e)' => Ours(e)
      BY <2>1, <2>3 DEF Ours, MonAt
    <3>2. Carried(e) => Carried(e)'
      BY <2>1, <2>3 DEF Carried, MonAt
    <3> QED BY <1>0, <2>1, <2>3, <3>1, <3>2 DEF Accounted
  <2>4. CASE e # d
    BY <1>0, <2>1, <2>4, AccountedFrame
  <2> QED BY <2>2, <2>3, <2>4
<1> QED BY <1>1, <1>2, <1>3, <1>4, <1>5, <1>6, <1>7 DEF Report

LEMMA RequestCurrent ==
    ASSUME TypeOK, ThreadInv, CurrentInv, Requests, NEW e \in Nodes
    PROVE  Accounted(e)'
<1> USE DEF deviceVars, storeVars, regVars, monVars, historyVars
<1>0. Accounted(e)
  BY DEF CurrentInv
<1>1. CASE \E d \in Nodes, op \in {"removing", "interviewing", "pinging"} : Request(d, op)
  BY <1>0, <1>1, AccountedFrame DEF Request
<1>2. CASE RemoveFabric
  <2>1. CASE reach[req.node] /\ e = req.node
    BY <1>2, <2>1 DEF RemoveFabric, Accounted, TypeOK
  <2>2. CASE ~ (reach[req.node] /\ e = req.node)
    <3>1. wire'[e] = wire[e] /\ devSub'[e] = devSub[e]
      BY <1>2, <2>2 DEF RemoveFabric, TypeOK
    <3> QED BY <1>0, <1>2, <3>1, AccountedFrame DEF RemoveFabric
  <2> QED BY <2>1, <2>2
<1>3. CASE RemoveNode
  <2>1. CASE e = req.node
    BY <1>3, <2>1 DEF RemoveNode, Accounted
  <2>2. CASE e # req.node
    <3>1. store'[e] = store[e] /\ present' \subseteq present
      BY <1>3, <2>2 DEF RemoveNode, TypeOK
    <3> QED BY <1>0, <1>3, <3>1, AccountedFrame DEF RemoveNode
  <2> QED BY <2>1, <2>2
<1>4. CASE InterviewRead
  BY <1>0, <1>4, AccountedFrame DEF InterviewRead
<1>5. CASE InterviewApply
  <2>1. /\ req.val \in Values /\ req.node \in Nodes /\ "Req" \in Threads
        /\ req.val <= val[req.node] /\ req.val # Unread
    BY <1>5 DEF InterviewApply, TypeOK, ThreadInv, Threads, CurrentInv, NoValueFromNowhere
  <2>2. Interview("Req", req.node, req.val) \/ InterviewUnsaved(req.node, req.val)
    BY <1>5 DEF InterviewApply
  <2>3. UNCHANGED <<deviceVars, present, reg, mon, rep>>
    BY <1>5 DEF InterviewApply
  <2>4. CASE e = req.node
    <3> SUFFICES ASSUME e \in present, devSub[e] # 0, Ours(e), ~ unsent[e], ~ crossed'[e]
                 PROVE  Carried(e)'
      BY <2>3 DEF Accounted, Ours, MonAt
    <3>1. ~ crossed[e]
      BY <2>1, <2>2, <2>4, MergeValue
    <3>2. Carried(e)
      BY <1>0, <3>1 DEF Accounted
    <3>3. store[e].val = val[e] => store'[e].val = val[e]
      BY <2>1, <2>2, <2>4, WriteKeepsCurrent
    <3> QED BY <2>3, <3>2, <3>3 DEF Carried, MonAt
  <2>5. CASE e # req.node
    <3>1. store'[e] = store[e] /\ crossed'[e] = crossed[e]
      BY <2>1, <2>2, <2>5, MergeValue
    <3> QED BY <1>0, <2>3, <3>1, AccountedFrame
  <2> QED BY <2>4, <2>5
<1>6. CASE PingNode
  <2>1. req.node \in Nodes /\ "Req" \in Threads
    BY <1>6 DEF PingNode, ThreadInv, Threads
  <2>2. (req.at = "answered") \in BOOLEAN
    OBVIOUS
  <2>3. store'[e].val = store[e].val
    BY <1>6, <2>1, <2>2, MarkValue DEF PingNode
  <2> QED BY <1>0, <1>6, <2>3, AccountedFrame DEF PingNode
<1>7. CASE PingEnds
  BY <1>0, <1>7, AccountedFrame DEF PingEnds
<1> QED BY <1>1, <1>2, <1>3, <1>4, <1>5, <1>6, <1>7 DEF Requests

LEMMA CurrentHolds == Spec => []CurrentInv
<1>1. Init => CurrentInv
  <2> SUFFICES ASSUME Init PROVE CurrentInv
    OBVIOUS
  <2>1. \A d \in Nodes : Accounted(d)
    BY DEF Init, Accounted, Ours, MonAt, Idle
  <2>2. NoValueFromNowhere
    BY DEF Init, NoValueFromNowhere, NoReport, Idle, NoWork, Unread
  <2> QED BY <2>1, <2>2 DEF CurrentInv
<1>2. TypeOK /\ ThreadInv /\ IdInv /\ CurrentInv /\ [Next]_vars => CurrentInv'
  <2> SUFFICES ASSUME TypeOK, ThreadInv, IdInv, CurrentInv, [Next]_vars PROVE CurrentInv'
    OBVIOUS
  <2>1. NoValueFromNowhere'
    BY StepValues DEF CurrentInv
  <2>2. ASSUME NEW e \in Nodes PROVE Accounted(e)'
    <3>0. Accounted(e)
      BY DEF CurrentInv
    <3>1. CASE (\E t \in Threads : Publish(t)) \/ UNCHANGED vars
      BY <3>0, <3>1, AccountedFrame
         DEF Publish, vars, deviceVars, storeVars, regVars, monVars, historyVars
    <3> QED BY <3>0, <3>1, DeviceCurrent, MonitorCurrent, MatterCurrent, RequestCurrent DEF Next
  <2> QED BY <2>1, <2>2 DEF CurrentInv
<1> QED BY <1>1, <1>2, TypeCorrect, IdsHold, PTL DEF Spec

\* A node under subscription is current whenever nothing about it is under way,
\* unless a value was written over a newer one: for any nodes, any number of
\* subscriptions, time-outs, outages and requests.
THEOREM SubscribedStaysCurrent == Spec => []SubscribedIsCurrent
<1>1. TypeOK /\ CurrentInv => SubscribedIsCurrent
  <2> SUFFICES ASSUME TypeOK, CurrentInv, NEW d \in present, Quiet(d), devSub[d] # 0,
                      reg[d] = devSub[d], ~ crossed[d]
               PROVE  store[d].val = val[d]
    BY DEF SubscribedIsCurrent
  <2>1. d \in Nodes /\ Ours(d) /\ ~ unsent[d]
    BY DEF TypeOK, Ours, Quiet
  <2>2. Carried(d)
    BY <2>1 DEF CurrentInv, Accounted
  <2>3. wire[d].id # devSub[d]
    BY DEF Quiet, NoReport
  <2> QED BY <2>2, <2>3 DEF Carried, Quiet, MonAt
<1> QED BY <1>1, CurrentHolds, TypeCorrect, PTL

-----------------------------------------------------------------------------
(* What a listening client has.                                            *)

\* A change by a thread with nothing left to publish, and its event.
LEMMA AnnounceView ==
    ASSUME TypeOK, ThreadInv, ViewInv, NEW t \in Threads, NEW d \in Nodes, NEW b \in Bodies,
           NEW kind \in {"updated", "removed"}, Announces(t, d, kind, b),
           out[t] = Nothing, view' = view
    PROVE  ViewInv'
<1>1. /\ out'[t] = [kind |-> kind, node |-> d, body |-> b] /\ out'[t] # Nothing
      /\ \A u \in Threads \ {t} : out'[u] = out[u]
      /\ store'[d] = b
  <2>1. store'[d] = b /\ out' = [out EXCEPT ![t] = [kind |-> kind, node |-> d, body |-> store'[d]]]
    BY DEF Announces, Emit, TypeOK
  <2>2. out'[t] = [kind |-> kind, node |-> d, body |-> b]
    BY <2>1 DEF TypeOK
  <2>3. out'[t] # Nothing
    BY <2>2 DEF Nothing
  <2>4. \A u \in Threads \ {t} : out'[u] = out[u]
    BY <2>1 DEF TypeOK
  <2> QED BY <2>1, <2>2, <2>3, <2>4
<1>2. /\ \A e \in Nodes : e # d => /\ store'[e] = store[e] /\ overtaken'[e] = overtaken[e]
                                    /\ unannounced'[e] = unannounced[e]
      /\ ~ overtaken'[d] => ~ overtaken[d] /\ \A u \in Threads \ {t} : out[u].node # d
  BY DEF Announces, Emit, TypeOK
<1> SUFFICES ASSUME NEW e \in Nodes, ~ overtaken'[e], ~ unannounced'[e]
             PROVE  \/ Pending(e)' = {} /\ view'[e] = store'[e]
                    \/ \E u \in Threads : Pending(e)' = {u} /\ out'[u].body = store'[e]
  BY DEF ViewInv
<1>3. CASE e = d
  <2>1. Pending(d)' = {t}
    BY <1>1, <1>2, <1>3 DEF Pending
  <2> QED BY <1>1, <1>3, <2>1
<1>4. CASE e # d
  <2>1. Pending(e)' = Pending(e)
    BY <1>1, <1>4 DEF Pending
  <2>2. ~ overtaken[e] /\ ~ unannounced[e] /\ store'[e] = store[e]
    BY <1>2, <1>4
  <2>3. ASSUME NEW u \in Threads, Pending(e) = {u} PROVE out'[u] = out[u]
    <3>1. u # t
      BY <2>3 DEF Pending
    <3> QED BY <1>1, <3>1
  <2> QED BY <2>1, <2>2, <2>3 DEF ViewInv
<1> QED BY <1>3, <1>4

LEMMA ViewFrame ==
    ASSUME ViewInv, UNCHANGED <<out, store, view, overtaken, unannounced>> PROVE ViewInv'
BY DEF ViewInv, Pending

\* A change without its event excuses the view of its node, and of no other.
LEMMA WithholdView ==
    ASSUME TypeOK, ViewInv, NEW d \in Nodes, NEW b \in Bodies, Withholds(d, b), view' = view
    PROVE  ViewInv'
<1>1. /\ unannounced'[d] = TRUE
      /\ \A e \in Nodes : e # d => store'[e] = store[e] /\ unannounced'[e] = unannounced[e]
      /\ out' = out /\ overtaken' = overtaken
  BY DEF Withholds, TypeOK
<1>2. \A e \in Nodes : Pending(e)' = Pending(e)
  BY <1>1 DEF Pending
<1> QED BY <1>1, <1>2 DEF ViewInv

LEMMA WriteView ==
    ASSUME TypeOK, ThreadInv, ViewInv, NEW t \in Threads, NEW d \in Nodes, Writes(t, d),
           out[t] = Nothing, view' = view
    PROVE  ViewInv'
BY AnnounceView, WithholdView, ViewFrame DEF Writes

\* The event is published: the client has what it says.
LEMMA PublishView ==
    ASSUME TypeOK, ThreadInv, ViewInv, NEW t \in Threads, Publish(t) PROVE ViewInv'
<1>1. /\ out[t] # Nothing /\ out[t].node \in Nodes /\ out'[t] = Nothing
      /\ view' = [view EXCEPT ![out[t].node] = out[t].body]
      /\ \A u \in Threads \ {t} : out'[u] = out[u]
      /\ store' = store /\ overtaken' = overtaken /\ unannounced' = unannounced
  BY DEF Publish, ThreadInv, TypeOK, storeVars, historyVars
<1> SUFFICES ASSUME NEW e \in Nodes, ~ overtaken'[e], ~ unannounced'[e]
             PROVE  \/ Pending(e)' = {} /\ view'[e] = store'[e]
                    \/ \E u \in Threads : Pending(e)' = {u} /\ out'[u].body = store'[e]
  BY DEF ViewInv
<1>2. CASE e = out[t].node
  <2>1. t \in Pending(e)
    BY <1>1, <1>2 DEF Pending
  <2>2. Pending(e) = {t} /\ out[t].body = store[e]
    BY <1>1, <2>1 DEF ViewInv
  <2>3. Pending(e)' = {}
    BY <1>1, <2>2 DEF Pending
  <2>4. view'[e] = out[t].body
    BY <1>1, <1>2 DEF TypeOK
  <2> QED BY <1>1, <2>2, <2>3, <2>4
<1>3. CASE e # out[t].node
  <2>1. Pending(e)' = Pending(e)
    BY <1>1, <1>3 DEF Pending
  <2>2. view'[e] = view[e]
    BY <1>1, <1>3 DEF TypeOK
  <2>3. ASSUME NEW u \in Threads, Pending(e) = {u} PROVE out'[u] = out[u]
    <3>1. u # t
      BY <1>3, <2>3 DEF Pending
    <3> QED BY <1>1, <3>1
  <2> QED BY <1>1, <2>1, <2>2, <2>3 DEF ViewInv
<1> QED BY <1>2, <1>3

LEMMA StepView == ASSUME TypeOK, ThreadInv, ViewInv, [Next]_vars PROVE ViewInv'
<1> USE DEF deviceVars, storeVars, regVars, monVars, historyVars
<1>0. \A t \in {"Mon", "Rep", "Req"} : t \in Threads
  BY DEF Threads
<1>1. ASSUME NEW d \in Nodes, MonApply(d) PROVE ViewInv'
  <2>1. mon.val \in Values /\ out["Mon"] = Nothing
    BY <1>1 DEF MonApply, MonAt, TypeOK, ThreadInv
  <2>2. Writes("Mon", d) /\ view' = view
    BY <1>0, <1>1, <2>1, MergeWrites, InterviewWrites DEF MonApply
  <2> QED BY <1>0, <2>1, <2>2, WriteView
<1>2. ASSUME NEW d \in Nodes, MonMark(d) PROVE ViewInv'
  <2>1. Writes("Mon", d) /\ view' = view /\ out["Mon"] = Nothing
    BY <1>0, <1>2, MarkWrites DEF MonMark
  <2> QED BY <1>0, <2>1, WriteView
<1>3. CASE ReportApplied
  <2>1. rep.val \in Values /\ rep.node \in Nodes /\ out["Rep"] = Nothing
    BY <1>3 DEF ReportApplied, TypeOK, ThreadInv
  <2>2. Writes("Rep", rep.node) /\ view' = view
    BY <1>0, <1>3, <2>1, MergeWrites DEF ReportApplied
  <2> QED BY <1>0, <2>1, <2>2, WriteView
<1>4. CASE InterviewApply
  <2>1. req.val \in Values /\ req.node \in Nodes /\ out["Req"] = Nothing
    BY <1>4 DEF InterviewApply, TypeOK, ThreadInv
  <2>2. Writes("Req", req.node) /\ view' = view
    BY <1>0, <1>4, <2>1, InterviewWrites DEF InterviewApply
  <2> QED BY <1>0, <2>1, <2>2, WriteView
<1>5. CASE PingNode
  <2>1. req.node \in Nodes /\ out["Req"] = Nothing
    BY <1>5 DEF PingNode, ThreadInv
  <2>2. (req.at = "answered") \in BOOLEAN
    OBVIOUS
  <2>3. Writes("Req", req.node) /\ view' = view
    BY <1>0, <1>5, <2>1, <2>2, MarkWrites DEF PingNode
  <2> QED BY <1>0, <2>1, <2>3, WriteView
<1>6. CASE RemoveNode
  <2>1. req.node \in Nodes /\ out["Req"] = Nothing /\ Gone \in Bodies
    BY <1>6 DEF RemoveNode, ThreadInv, Gone, Bodies, Values
  <2>2. /\ Announces("Req", req.node, "removed", Gone) \/ Withholds(req.node, Gone)
        /\ view' = view
    BY <1>6 DEF RemoveNode, Announces, Withhold, Withholds
  <2> QED BY <1>0, <2>1, <2>2, AnnounceView, WithholdView
<1>7. ASSUME NEW d \in Nodes, Maintain(d), ~ MonApply(d), ~ MonMark(d)
      PROVE  UNCHANGED <<out, store, view, overtaken, unannounced>>
  BY <1>7 DEF Maintain, SubscribeConfirmed, SubscribeUnreachable, SubscribeRefused,
              SubscribeTimeout, MonEstablished, MonPollAnswered, MonPollFailed
<1>8. ASSUME Requests, ~ RemoveNode, ~ InterviewApply, ~ PingNode
      PROVE  UNCHANGED <<out, store, view, overtaken, unannounced>>
  BY <1>8 DEF Requests, Request, RemoveFabric, InterviewRead, PingEnds
<1>9. ASSUME NEW d \in Nodes,
             Device(d) \/ MonSkip(d) \/ MonVisit(d) \/ LateSubscribe(d) \/ Report(d)
      PROVE  UNCHANGED <<out, store, view, overtaken, unannounced>>
  BY <1>9 DEF Device, DeviceChange, DeviceReport, DeviceDrop, Outage, Return, MonSkip, MonVisit,
              LateSubscribe, Report, ReportAccepted, ReportDisowned
<1>10. ASSUME MonPass \/ ReportUndecodable \/ Tick \/ UNCHANGED vars
       PROVE  UNCHANGED <<out, store, view, overtaken, unannounced>>
  BY <1>10 DEF MonPass, ReportUndecodable, Tick, vars
<1> QED BY <1>1, <1>2, <1>3, <1>4, <1>5, <1>6, <1>7, <1>8, <1>9, <1>10, ViewFrame, PublishView
        DEF Next

\* A client that has been sent every event has what the store has of each node,
\* but for nodes whose event was overtaken by another thread's change, and those
\* whose last change a request could not save and so did not announce.
THEOREM ViewsConverge == Spec => []ViewConverges
<1>1. Init => ViewInv
  <2> SUFFICES ASSUME Init PROVE ViewInv
    OBVIOUS
  <2>1. view = store /\ \A t \in Threads : out[t] = Nothing
    BY DEF Init
  <2>2. \A d \in Nodes : Pending(d) = {}
    BY <2>1 DEF Pending
  <2> QED BY <2>1, <2>2 DEF ViewInv
<1>2. TypeOK /\ ThreadInv /\ ViewInv /\ [Next]_vars => ViewInv'
  BY StepView
<1>3. TypeOK /\ ViewInv => ViewConverges
  <2> SUFFICES ASSUME TypeOK, ViewInv, \A t \in Threads : out[t] = Nothing, NEW d \in Nodes,
                      ~ overtaken[d], ~ unannounced[d]
               PROVE  view[d] = store[d]
    BY DEF ViewConverges
  <2>1. Pending(d) = {}
    BY DEF Pending
  <2> QED BY <2>1 DEF ViewInv
<1> QED BY <1>1, <1>2, <1>3, TypeCorrect, PTL DEF Spec
=============================================================================
