------------------------ MODULE CommissioningProofs ------------------------
(***************************************************************************)
(* Proofs about Commissioning, for any connections, devices, import and    *)
(* bounds: its types, the ids it issues, the nodes it announces and the    *)
(* devices it knows of.                                                    *)
(*                                                                         *)
(* IdInv puts every id that was issued below the counter on disk, GhostInv *)
(* follows a removal to its announcement, and StrangerInv a device from    *)
(* the operation that brings it onto the fabric to its place in the list   *)
(* and in the file, through kills that keep only the file.                 *)
(***************************************************************************)
EXTENDS Commissioning, TLAPS

USE DEF diskVars, historyVars, runVars

\* The initial state has the right types.
LEMMA TypeInit == Init => TypeOK
<1> SUFFICES ASSUME Init PROVE TypeOK
    OBVIOUS
<1>1. AdoptedIds \subseteq Nat
    BY CommissioningAssumption DEF AdoptedIds
<1>2. dev \in [Devices -> [st : {"factory", "armed", "on"}, id : Nat]]
    BY CommissioningAssumption DEF Init, Factory
<1>3. /\ op \in [Ids -> [at : {"none", "search", "case", "persist", "ok", "err"},
                        dev : Devices \cup {0}]]
      /\ \A i \in Ids : op[i].at # "none" => op[i].dev \in Devices
    BY DEF Init, NoOp
<1>4. /\ req \in [Conns -> [at : Stages, id : Nat, dev : Devices \cup {0}, again : BOOLEAN]]
      /\ \A c \in Conns : req[c].at = "allocate" \/ req[c].again => req[c].dev \in Devices
    BY DEF Init, Idle, Stages
<1> QED
    BY <1>1, <1>2, <1>3, <1>4 DEF Init, TypeOK, Starting

ReqType ==
    /\ req \in [Conns -> [at : Stages, id : Nat, dev : Devices \cup {0}, again : BOOLEAN]]
    /\ \A c \in Conns : req[c].at = "allocate" \/ req[c].again => req[c].dev \in Devices

OpType ==
    /\ op \in [Ids -> [at : {"none", "search", "case", "persist", "ok", "err"},
                       dev : Devices \cup {0}]]
    /\ \A i \in Ids : op[i].at # "none" => op[i].dev \in Devices

UsedType == used \in [kills : Nat, timeouts : Nat, faults : Nat, requests : Nat]

\* An attempt at commissioning keeps the types of its request.
LEMMA TriesStep ==
    ASSUME TypeOK, NEW c \in Conns, req[c].dev \in Devices,
           NEW at \in Stages, NEW i \in Nat, NEW again \in BOOLEAN,
           Tries(c, at, i, again)
    PROVE  ReqType'
BY DEF TypeOK, ReqType, Tries

\* A request that ends, moves on or fails keeps its types.
LEMMA ReqSteps ==
    ASSUME TypeOK, NEW c \in Conns,
           \/ Ends(c)
           \/ Fails(c)
           \/ \E at \in Stages \ {"allocate"} : Goes(c, at)
    PROVE  ReqType'
<1>1. CASE Ends(c)
    BY <1>1 DEF TypeOK, ReqType, Ends, Idle, Stages
<1>2. CASE Fails(c)
    BY <1>1, <1>2, TriesStep DEF TypeOK, Fails, Stages
<1>3. CASE \E at \in Stages \ {"allocate"} : Goes(c, at)
    BY <1>3 DEF TypeOK, ReqType, Goes
<1> QED
    BY <1>1, <1>2, <1>3

\* An operation that moves on keeps its types.
LEMMA OpSteps ==
    ASSUME TypeOK, NEW i \in Ids,
           \/ op' = [op EXCEPT ![i] = NoOp]
           \/ op[i].at # "none" /\ \E at \in {"case", "persist", "ok", "err"} : Op(i, at)
    PROVE  OpType'
BY DEF TypeOK, OpType, Op, NoOp

\* Every step keeps the types.
LEMMA TypeStep == TypeOK /\ [Next]_vars => TypeOK'
<1> SUFFICES ASSUME TypeOK, [Next]_vars PROVE TypeOK'
    OBVIOUS
<1>i. AdoptedIds \subseteq Nat
    BY CommissioningAssumption DEF AdoptedIds
<1>a. ASSUME Starts PROVE TypeOK'
  <2>1. CASE Start \/ InstallFabric \/ PersistKey
    BY <2>1 DEF Start, InstallFabric, PersistKey, TypeOK, Starting
  <2>2. CASE ApplyNodes
    BY <2>2, <1>i DEF ApplyNodes, TypeOK, Starting
  <2>3. CASE ApplyConfig
    <3>1. PICK h \in AdoptedIds \cup {AdoptedNext - 1} : nextDisk' = ReservedAbove(nextDisk, h)
      BY <2>3 DEF ApplyConfig
    <3>2. nextDisk' \in Nat
      BY <3>1, <1>i, CommissioningAssumption DEF ReservedAbove, TypeOK
    <3> QED
      BY <2>3, <3>2 DEF ApplyConfig, TypeOK, Starting
  <2>4. CASE Load
    <3>1. next' \in Nat
      BY <2>4 DEF Load, ReservedAbove, TypeOK
    <3> QED
      BY <2>4, <3>1 DEF Load, TypeOK, Starting
  <2> QED
    BY <1>a, <2>1, <2>2, <2>3, <2>4 DEF Starts
<1>b. ASSUME NEW c \in Conns, Commissions(c) PROVE TypeOK'
  <2>1. CASE \E d \in Devices, again \in BOOLEAN : Commission(c, d, again)
    <3>1. ReqType' /\ UsedType'
      BY <2>1 DEF Commission, Asked, ReqType, UsedType, TypeOK, Stages
    <3> QED
      BY <2>1, <3>1 DEF Commission, ReqType, UsedType, TypeOK
  <2>2. CASE Allocate(c)
    <3>1. NextId \in Nat /\ NextId \in Ids
      BY <2>2 DEF Allocate, NextId, TypeOK
    <3>2. ReqType'
      BY <2>2, <3>1, TriesStep DEF Allocate, TypeOK, Stages
    <3>3. OpType'
      BY <2>2, <3>1 DEF Allocate, OpType, TypeOK
    <3> QED
      BY <2>2, <3>1, <3>2, <3>3 DEF Allocate, ReqType, OpType, TypeOK
  <2>3. CASE AllocateFault(c)
    <3>1. NextId \in Nat
      BY <2>3 DEF NextId, TypeOK
    <3>2. ReqType' /\ UsedType'
      BY <2>3, ReqSteps DEF AllocateFault, Fault, UsedType, TypeOK
    <3> QED
      BY <2>3, <3>1, <3>2 DEF AllocateFault, ReqType, UsedType, TypeOK
  <2>4. CASE Timeout(c)
    <3>1. ReqType' /\ UsedType'
      BY <2>4, ReqSteps DEF Timeout, UsedType, TypeOK
    <3> QED
      BY <2>4, <3>1 DEF Timeout, ReqType, UsedType, TypeOK
  <2>5. CASE \E i \in Ids : Answer(c, i)
    <3>1. PICK i \in Ids : Answer(c, i)
      BY <2>5
    <3>2. ReqType'
      BY <3>1, ReqSteps DEF Answer, Stages
    <3>3. OpType'
      BY <3>1, OpSteps DEF Answer
    <3> QED
      BY <3>1, <3>2, <3>3 DEF Answer, ReqType, OpType, TypeOK
  <2>6. CASE StoreNode(c) \/ SaveNode(c) \/ Interviewed(c) \/ InterviewFailed(c)
             \/ InterviewGone(c) \/ Announce(c)
    <3>1. ReqType'
      BY <2>6, ReqSteps
         DEF StoreNode, SaveNode, Interviewed, InterviewFailed, InterviewGone, Announce, Stages
    <3>2. req[c].id \in Nat
      BY DEF TypeOK
    <3> QED
      BY <2>6, <3>1, <3>2
         DEF StoreNode, SaveNode, Interviewed, InterviewFailed, InterviewGone, Announce,
             ReqType, TypeOK
  <2>7. CASE SaveNodeFault(c) \/ InterviewSaveFault(c)
    <3>1. ReqType' /\ UsedType'
      BY <2>7, ReqSteps DEF SaveNodeFault, InterviewSaveFault, Fault, UsedType, TypeOK
    <3>2. Holders(req[c].id) \subseteq Devices
      BY DEF Holders
    <3> QED
      BY <2>7, <3>1, <3>2 DEF SaveNodeFault, InterviewSaveFault, ReqType, UsedType, TypeOK
  <2> QED
    BY <1>b, <2>1, <2>2, <2>3, <2>4, <2>5, <2>6, <2>7 DEF Commissions
<1>c. ASSUME NEW c \in Conns, Removes(c) PROVE TypeOK'
  <2>h. Holders(req[c].id) \subseteq Devices /\ req[c].id \in Nat
    BY DEF Holders, TypeOK
  <2>1. CASE \E i \in nodes : Remove(c, i)
    <3>1. ReqType' /\ UsedType'
      BY <2>1 DEF Remove, Asked, ReqType, UsedType, TypeOK, Stages
    <3> QED
      BY <2>1, <3>1 DEF Remove, ReqType, UsedType, TypeOK
  <2>2. CASE RemoveFabric(c)
    <3>1. ReqType'
      BY <2>2, ReqSteps DEF RemoveFabric, Stages
    <3>2. dev' \in [Devices -> [st : {"factory", "armed", "on"}, id : Nat]]
      BY <2>2 DEF RemoveFabric, Factory, TypeOK
    <3> QED
      BY <2>2, <2>h, <3>1, <3>2 DEF RemoveFabric, ReqType, TypeOK
  <2>3. CASE RemoveUnreachable(c) \/ RemoveNode(c) \/ SaveRemoval(c) \/ TellRemoved(c)
    <3>1. ReqType'
      BY <2>3, ReqSteps DEF RemoveUnreachable, RemoveNode, SaveRemoval, TellRemoved, Stages
    <3> QED
      BY <2>3, <2>h, <3>1
         DEF RemoveUnreachable, RemoveNode, SaveRemoval, TellRemoved, ReqType, TypeOK
  <2>4. CASE SaveRemovalFault(c)
    <3>1. ReqType' /\ UsedType'
      BY <2>4, ReqSteps DEF SaveRemovalFault, Fault, UsedType, TypeOK
    <3> QED
      BY <2>4, <2>h, <3>1 DEF SaveRemovalFault, ReqType, UsedType, TypeOK
  <2> QED
    BY <1>c, <2>1, <2>2, <2>3, <2>4 DEF Removes
<1>d. ASSUME NEW i \in Ids, Operates(i) PROVE TypeOK'
  <2>n. i \in Nat
    BY DEF Ids
  <2>1. OpType'
    BY <1>d, OpSteps
       DEF Operates, OpAddNoc, OpComplete, OpUnconfirmed, OpFail, OpPersist,
           OpPersistFault, OpUnheard
  <2>2. CASE OpAddNoc(i) \/ OpComplete(i)
    <3>1. dev' \in [Devices -> [st : {"factory", "armed", "on"}, id : Nat]]
      BY <2>2, <2>n DEF OpAddNoc, OpComplete, TypeOK
    <3> QED
      BY <2>1, <2>2, <3>1 DEF OpAddNoc, OpComplete, OpType, TypeOK
  <2>3. CASE OpUnconfirmed(i)
    <3>1. dev' \in [Devices -> [st : {"factory", "armed", "on"}, id : Nat]]
      BY <2>3 DEF OpUnconfirmed, TypeOK
    <3> QED
      BY <2>1, <2>3, <3>1 DEF OpUnconfirmed, OpType, TypeOK
  <2>4. CASE OpFail(i) \/ OpPersist(i) \/ OpUnheard(i)
    BY <2>1, <2>4 DEF OpFail, OpPersist, OpUnheard, OpType, TypeOK
  <2>5. CASE OpPersistFault(i)
    <3>1. UsedType'
      BY <2>5 DEF OpPersistFault, Fault, UsedType, TypeOK
    <3> QED
      BY <2>1, <2>5, <3>1 DEF OpPersistFault, OpType, UsedType, TypeOK
  <2> QED
    BY <1>d, <2>2, <2>3, <2>4, <2>5 DEF Operates
<1>e. ASSUME NEW d \in Devices, FailSafeExpires(d) PROVE TypeOK'
  BY <1>e DEF FailSafeExpires, Factory, TypeOK
<1>f. ASSUME Kill PROVE TypeOK'
  <2>1. ReqType'
    BY <1>f DEF Kill, Idle, ReqType, Stages
  <2>2. OpType'
    BY <1>f DEF Kill, NoOp, OpType
  <2>3. UsedType'
    BY <1>f DEF Kill, UsedType, TypeOK
  <2>4. lost' \subseteq Devices
    BY <1>f, CommissioningAssumption DEF Kill, TypeOK
  <2>5. halfImported' \in BOOLEAN
    BY <1>f DEF Kill
  <2> QED
    BY <1>f, <2>1, <2>2, <2>3, <2>4, <2>5 DEF Kill, ReqType, OpType, UsedType, TypeOK
<1>g. CASE UNCHANGED vars
  BY <1>g DEF vars, TypeOK
<1> QED
  BY <1>a, <1>b, <1>c, <1>d, <1>e, <1>f, <1>g DEF Next

\* Type correctness of commissioning and start.
THEOREM TypeCorrect == Spec => []TypeOK
BY TypeInit, TypeStep, PTL DEF Spec

-----------------------------------------------------------------------------
(* The ids.  An id that was issued is below the counter in config.json; as *)
(* long as the server is starting it may instead be in nodes.json, or in   *)
(* an import that has not been applied, which raise the counter.           *)

NotApplied == ~ key \/ up = "apply"

Running ==
    /\ up \in {"apply", "config", "load", "up"} => key
    /\ \A i \in Ids : op[i].at # "none" => up = "up"
    /\ \A c \in Conns : req[c].at # "idle" => up = "up"

Reserved ==
    \A i \in issued : \/ i < nextDisk
                      \/ up # "up" /\ i \in nodesDisk
                      \/ NotApplied /\ i \in AdoptedIds

Fresh ==
    /\ \A d \in Devices : dev[d].st # "factory" => dev[d].id \in issued
    /\ \A i \in Ids : op[i].at # "none" => i \in issued
    /\ \A i \in Ids, d \in Devices :
          op[i].at = "search" /\ dev[d].st # "factory" => dev[d].id # i

Distinct ==
    \A d, e \in Devices :
        dev[d].st # "factory" /\ dev[e].st # "factory" /\ dev[d].id = dev[e].id => d = e

IdParts ==
    /\ up = "up" => next >= nextDisk
    /\ Reserved /\ Fresh /\ Distinct

IdInv == Running /\ (~ halfImported => IdParts)

\* The imported ids are distinct, and nothing is issued yet.
LEMMA IdInit == Init => IdInv
<1> SUFFICES ASSUME Init PROVE IdInv
    OBVIOUS
<1>1. Running
    BY DEF Init, Running, NoOp, Idle
<1>2. Reserved
    BY DEF Init, Reserved, NotApplied
<1>3. \A d \in Devices : dev[d].st # "factory" => d \in Adopted /\ dev[d].id = AdoptedId[d]
    BY DEF Init, Factory
<1>4. Fresh
    BY <1>3 DEF Init, Fresh, NoOp, AdoptedIds
<1>5. Distinct
    BY <1>3, CommissioningAssumption DEF Distinct
<1> QED
    BY <1>1, <1>2, <1>4, <1>5 DEF Init, IdInv, IdParts

\* A step that issues nothing, gives no device an id and starts no operation.
LEMMA IdKept ==
    ASSUME TypeOK, IdInv, halfImported' = halfImported,
           UNCHANGED <<up, key, nextDisk, issued>>, next' >= next, next' \in Nat,
           up = "up" \/ nodesDisk' = nodesDisk,
           \A i \in Ids : op'[i].at \in {"none", op[i].at} \/ (op[i].at # "none" /\ op'[i].at # "search"),
           \A d \in Devices : dev'[d].st = "factory" \/ (dev[d].st # "factory" /\ dev'[d].id = dev[d].id),
           \A c \in Conns : req'[c].at # "idle" => up = "up"
    PROVE  IdInv'
<1>1. Running'
    BY DEF IdInv, Running
<1>2. ASSUME ~ halfImported PROVE IdParts'
  <2>1. Reserved'
    BY <1>2 DEF IdInv, IdParts, Reserved, NotApplied
  <2>2. Fresh'
    BY <1>2 DEF IdInv, IdParts, Fresh
  <2>3. Distinct'
    BY <1>2 DEF IdInv, IdParts, Distinct
  <2>4. up' = "up" => next' >= nextDisk'
    BY <1>2 DEF IdInv, IdParts, TypeOK
  <2> QED
    BY <2>1, <2>2, <2>3, <2>4 DEF IdParts
<1> QED
    BY <1>1, <1>2 DEF IdInv

\* Requests that are under way run in a server that is up, and go on so.
LEMMA ReqKept ==
    ASSUME TypeOK, IdInv, NEW c \in Conns, req[c].at # "idle",
           \/ Ends(c)
           \/ Fails(c)
           \/ \E at \in Stages : Goes(c, at)
           \/ \E at \in Stages, i \in Nat : Tries(c, at, i, req[c].again)
    PROVE  up = "up" /\ \A e \in Conns : req'[e].at # "idle" => up = "up"
BY DEF IdInv, Running

\* A start raises the counter above every id in use before requests begin.
LEMMA IdStart == TypeOK /\ IdInv /\ Starts => IdInv'
<1> SUFFICES ASSUME TypeOK, IdInv, Starts PROVE IdInv'
    OBVIOUS
<1>n. AdoptedIds \subseteq Nat /\ issued \subseteq Nat /\ nodesDisk \subseteq Nat
    BY CommissioningAssumption DEF AdoptedIds, TypeOK
<1>1. UNCHANGED <<op, req, dev, issued, halfImported>> /\ up # "up"
    BY DEF Starts, Start, InstallFabric, PersistKey, ApplyNodes, ApplyConfig, Load
<1>2. Running'
    BY <1>1 DEF IdInv, Running, Starts, Start, InstallFabric, PersistKey, ApplyNodes,
                ApplyConfig, Load
<1>3. ASSUME ~ halfImported PROVE IdParts'
  <2>1. Fresh' /\ Distinct'
    BY <1>1, <1>3 DEF IdInv, IdParts, Fresh, Distinct
  <2>2. CASE Start \/ InstallFabric
    BY <1>3, <2>1, <2>2
       DEF Start, InstallFabric, IdInv, IdParts, Running, Reserved, NotApplied
  <2>3. CASE PersistKey
    <3>1. Adopted = {} => AdoptedIds = {}
      BY DEF AdoptedIds
    <3> QED
      BY <1>3, <2>1, <2>3, <3>1 DEF PersistKey, IdInv, IdParts, Reserved, NotApplied
  <2>4. CASE ApplyNodes
    BY <1>3, <2>1, <2>4 DEF ApplyNodes, IdInv, IdParts, Running, Reserved, NotApplied
  <2>5. CASE ApplyConfig
    <3>1. nextDisk' >= nextDisk
      BY <2>5, <1>n, CommissioningAssumption DEF ApplyConfig, ReservedAbove, TypeOK
    <3>2. nextDisk' \in Int /\ nextDisk \in Nat
      BY <2>5, <1>n, CommissioningAssumption DEF ApplyConfig, ReservedAbove, TypeOK
    <3>3. key /\ key' /\ up = "config" /\ up' = "load" /\ nodesDisk' = nodesDisk
      BY <2>5 DEF ApplyConfig, IdInv, Running
    <3> QED
      BY <1>1, <1>3, <1>n, <2>1, <3>1, <3>2, <3>3 DEF IdInv, IdParts, Reserved, NotApplied
  <2>6. CASE Load
    <3>1. key /\ up = "load" /\ up' = "up" /\ nextDisk' = next'
      BY <2>6 DEF Load, IdInv, Running
    <3>2. \A i \in issued : i < nextDisk \/ i \in nodesDisk
      BY <1>3, <3>1 DEF IdInv, IdParts, Reserved, NotApplied
    <3>3. next' \in Nat /\ next' >= nextDisk /\ \A i \in nodesDisk : i < next'
      BY <2>6, <1>n DEF Load, Highest, ReservedAbove, TypeOK
    <3>4. \A i \in issued : i < nextDisk'
      BY <1>n, <3>1, <3>2, <3>3 DEF TypeOK
    <3> QED
      BY <1>1, <2>1, <3>1, <3>3, <3>4 DEF IdParts, Reserved
  <2> QED
    BY <2>2, <2>3, <2>4, <2>5, <2>6 DEF Starts
<1> QED
    BY <1>1, <1>2, <1>3 DEF IdInv

\* An id that is handed out was never handed out before.
LEMMA IdIsFresh ==
    ASSUME TypeOK, IdInv, ~ halfImported, NEW c \in Conns, Allocate(c)
    PROVE  /\ up = "up" /\ NextId \in Nat /\ NextId >= nextDisk
           /\ NextId \notin issued
<1>1. up = "up"
    BY DEF IdInv, Running, Allocate
<1>2. NextId \in Nat /\ NextId >= nextDisk
    BY <1>1 DEF NextId, TypeOK, IdInv, IdParts
<1>3. key
    BY <1>1 DEF IdInv, Running
<1>4. \A i \in issued : i < nextDisk
    BY <1>1, <1>3 DEF IdInv, IdParts, Reserved, NotApplied
<1> QED
    BY <1>1, <1>2, <1>4 DEF TypeOK

\* Handing out an id keeps the invariant.
LEMMA IdAllocate ==
    ASSUME TypeOK, IdInv, NEW c \in Conns, Allocate(c)
    PROVE  IdInv'
<1>u. up = "up" /\ UNCHANGED <<up, key, nodesDisk, dev, halfImported>>
    BY DEF IdInv, Running, Allocate
<1>o. /\ NextId \in Ids
      /\ \A i \in Ids : i # NextId => op'[i] = op[i]
      /\ op'[NextId].at = "search"
      /\ issued' = issued \cup {NextId}
    BY DEF Allocate, TypeOK
<1>1. Running'
    BY <1>u DEF IdInv, Running
<1>2. ASSUME ~ halfImported PROVE IdParts'
  <2>1. NextId \in Nat /\ NextId >= nextDisk /\ NextId \notin issued
    BY <1>2, IdIsFresh
  <2>2. next' = NextId + 1 /\ nextDisk' = NextId + 1
    BY DEF Allocate
  <2>3. Reserved'
    <3>1. \A i \in issued : i \in Nat
      BY DEF TypeOK
    <3> QED
      BY <1>2, <1>u, <1>o, <2>1, <2>2, <3>1 DEF IdInv, IdParts, Reserved, NotApplied, TypeOK
  <2>4. Fresh'
    BY <1>2, <1>u, <1>o, <2>1 DEF IdInv, IdParts, Fresh
  <2>5. Distinct'
    BY <1>2, <1>u DEF IdInv, IdParts, Distinct
  <2> QED
    BY <2>1, <2>2, <2>3, <2>4, <2>5 DEF IdParts
<1> QED
    BY <1>1, <1>2, <1>u DEF IdInv

\* So does giving it to a device.
LEMMA IdAddNoc ==
    ASSUME TypeOK, IdInv, NEW i \in Ids, OpAddNoc(i)
    PROVE  IdInv'
<1>u. UNCHANGED <<up, key, next, nextDisk, nodesDisk, issued, req, halfImported>>
    BY DEF OpAddNoc
<1>d. /\ op[i].dev \in Devices /\ op[i].at = "search"
      /\ dev'[op[i].dev] = [st |-> "armed", id |-> i]
      /\ \A d \in Devices : d # op[i].dev => dev'[d] = dev[d]
      /\ op'[i].at = "case"
      /\ \A j \in Ids : j # i => op'[j] = op[j]
    BY DEF OpAddNoc, Op, TypeOK
<1>1. Running'
    BY <1>u, <1>d DEF IdInv, Running
<1>2. ASSUME ~ halfImported PROVE IdParts'
  <2>1. Reserved'
    BY <1>2, <1>u DEF IdInv, IdParts, Reserved, NotApplied
  <2>2. Fresh'
    BY <1>2, <1>u, <1>d DEF IdInv, IdParts, Fresh
  <2>3. Distinct'
    BY <1>2, <1>d DEF IdInv, IdParts, Fresh, Distinct
  <2> QED
    BY <1>2, <1>u, <2>1, <2>2, <2>3 DEF IdInv, IdParts
<1> QED
    BY <1>1, <1>2, <1>u DEF IdInv

\* Every step keeps the invariant.
LEMMA IdStep == TypeOK /\ IdInv /\ [Next]_vars => IdInv'
<1> SUFFICES ASSUME TypeOK, IdInv, [Next]_vars PROVE IdInv'
    OBVIOUS
<1>n. next \in Nat
    BY DEF TypeOK
<1>a. CASE Starts
    BY <1>a, IdStart
<1>b. ASSUME NEW c \in Conns, Commissions(c) PROVE IdInv'
  <2>1. CASE Allocate(c)
    BY <2>1, IdAllocate
  <2>2. CASE \E d \in Devices, again \in BOOLEAN : Commission(c, d, again)
    BY <2>2, <1>n, IdKept DEF Commission
  <2>3. CASE AllocateFault(c)
    <3>1. next' \in Nat /\ next' >= next
      BY <2>3, <1>n DEF AllocateFault, NextId
    <3>2. \A e \in Conns : req'[e].at # "idle" => up = "up"
      BY <2>3, ReqKept DEF AllocateFault
    <3> QED
      BY <2>3, <3>1, <3>2, IdKept DEF AllocateFault
  <2>4. CASE \E i \in Ids : Answer(c, i)
    <3>1. PICK i \in Ids : Answer(c, i)
      BY <2>4
    <3>2. \A e \in Conns : req'[e].at # "idle" => up = "up"
      BY <3>1, ReqKept DEF Answer, Stages
    <3>3. \A j \in Ids : op'[j].at \in {"none", op[j].at}
      BY <3>1 DEF Answer, NoOp, TypeOK
    <3> QED
      BY <1>n, <3>1, <3>2, <3>3, IdKept DEF Answer
  <2>5. CASE Timeout(c) \/ StoreNode(c) \/ SaveNode(c) \/ SaveNodeFault(c)
             \/ Interviewed(c) \/ InterviewSaveFault(c) \/ InterviewFailed(c)
             \/ InterviewGone(c) \/ Announce(c)
    <3>1. up = "up" /\ \A e \in Conns : req'[e].at # "idle" => up = "up"
      BY <2>5, ReqKept
         DEF Timeout, StoreNode, SaveNode, SaveNodeFault, Interviewed, InterviewSaveFault,
             InterviewFailed, InterviewGone, Announce, Stages
    <3>2. UNCHANGED <<up, key, next, nextDisk, issued, halfImported, op, dev>>
      BY <2>5
         DEF Timeout, StoreNode, SaveNode, SaveNodeFault, Interviewed, InterviewSaveFault,
             InterviewFailed, InterviewGone, Announce
    <3> QED
      BY <1>n, <3>1, <3>2, IdKept
  <2> QED
    BY <1>b, <2>1, <2>2, <2>3, <2>4, <2>5 DEF Commissions
<1>c. ASSUME NEW c \in Conns, Removes(c) PROVE IdInv'
  <2>1. CASE \E i \in nodes : Remove(c, i)
    BY <2>1, <1>n, IdKept DEF Remove
  <2>2. CASE ~ \E i \in nodes : Remove(c, i)
    <3>1. up = "up" /\ \A e \in Conns : req'[e].at # "idle" => up = "up"
      BY <1>c, <2>2, ReqKept
         DEF Removes, RemoveFabric, RemoveUnreachable, RemoveNode, SaveRemoval,
             SaveRemovalFault, TellRemoved, Stages
    <3>2. UNCHANGED <<up, key, next, nextDisk, issued, halfImported, op>>
      BY <1>c, <2>2
         DEF Removes, RemoveFabric, RemoveUnreachable, RemoveNode, SaveRemoval,
             SaveRemovalFault, TellRemoved
    <3>3. \A d \in Devices : dev'[d].st = "factory" \/ dev'[d] = dev[d]
      BY <1>c, <2>2
         DEF Removes, RemoveFabric, RemoveUnreachable, RemoveNode, SaveRemoval,
             SaveRemovalFault, TellRemoved, Factory
    <3> QED
      BY <1>n, <3>1, <3>2, <3>3, IdKept
  <2> QED
    BY <2>1, <2>2
<1>d. ASSUME NEW i \in Ids, Operates(i) PROVE IdInv'
  <2>1. CASE OpAddNoc(i)
    BY <2>1, IdAddNoc
  <2>2. CASE ~ OpAddNoc(i)
    <3>1. UNCHANGED <<up, key, next, nextDisk, nodesDisk, issued, halfImported, req>>
      BY <1>d, <2>2
         DEF Operates, OpComplete, OpUnconfirmed, OpFail, OpPersist, OpPersistFault, OpUnheard
    <3>2. \A j \in Ids : \/ op'[j].at \in {"none", op[j].at}
                         \/ op[j].at # "none" /\ op'[j].at # "search"
      BY SMTT(30), <1>d, <2>2
         DEF Operates, OpComplete, OpUnconfirmed, OpFail, OpPersist, OpPersistFault, OpUnheard,
             Op, NoOp, TypeOK
    <3>3. \A d \in Devices : (dev[d].st # "factory" /\ dev'[d].id = dev[d].id) \/ dev'[d] = dev[d]
      BY <1>d, <2>2
         DEF Operates, OpComplete, OpUnconfirmed, OpFail, OpPersist, OpPersistFault, OpUnheard,
             TypeOK
    <3>4. \A c \in Conns : req'[c].at # "idle" => up = "up"
      BY <3>1 DEF IdInv, Running
    <3> QED
      BY <1>n, <3>1, <3>2, <3>3, <3>4, IdKept
  <2> QED
    BY <2>1, <2>2
<1>e. ASSUME NEW d \in Devices, FailSafeExpires(d) PROVE IdInv'
  <2>1. \A e \in Devices : dev'[e].st = "factory" \/ dev'[e] = dev[e]
    BY <1>e DEF FailSafeExpires, Factory, TypeOK
  <2>2. \A c \in Conns : req'[c].at # "idle" => up = "up"
    BY <1>e DEF FailSafeExpires, IdInv, Running
  <2> QED
    BY <1>e, <1>n, <2>1, <2>2, IdKept DEF FailSafeExpires
<1>f. ASSUME Kill PROVE IdInv'
  <2>1. Running'
    BY <1>f DEF Kill, Running, NoOp, Idle
  <2>2. ASSUME ~ halfImported' PROVE IdParts'
    <3>1. ~ halfImported /\ up # "apply"
      BY <1>f, <2>2 DEF Kill, TypeOK
    <3>2. Reserved'
      BY <1>f, <3>1 DEF Kill, IdInv, IdParts, Reserved, NotApplied
    <3>3. Fresh' /\ Distinct'
      BY <1>f, <3>1 DEF Kill, IdInv, IdParts, Fresh, Distinct, NoOp
    <3> QED
      BY <1>f, <3>2, <3>3 DEF Kill, IdParts
  <2> QED
    BY <2>1, <2>2 DEF IdInv
<1>g. CASE UNCHANGED vars
  BY <1>g DEF vars, IdInv, IdParts, Running, Reserved, Fresh, Distinct, NotApplied
<1> QED
  BY <1>a, <1>b, <1>c, <1>d, <1>e, <1>f, <1>g DEF Next

\* No two devices on the fabric have the same id, over every kill and import.
THEOREM UniqueIds == Spec => []IdsAreUnique
<1>1. IdInv => IdsAreUnique
    BY DEF IdInv, IdParts, Distinct, IdsAreUnique
<1> QED
    BY <1>1, TypeInit, TypeStep, IdInit, IdStep, PTL DEF Spec

\* An operation starts only when an id is handed out.
LEMMA OnlyAllocateStarts ==
    ASSUME TypeOK, [Next]_vars, NEW i \in Ids, op[i].at = "none", op'[i].at # "none"
    PROVE  \E c \in Conns : Allocate(c) /\ i = NextId
<1>1. ASSUME NEW c \in Conns, Commissions(c), ~ Allocate(c) PROVE FALSE
    BY <1>1 DEF Commissions, Commission, AllocateFault, Timeout, Answer, StoreNode, SaveNode,
                SaveNodeFault, Interviewed, InterviewSaveFault, InterviewFailed,
                InterviewGone, Announce, NoOp, TypeOK
<1>2. ASSUME NEW c \in Conns, Removes(c) PROVE FALSE
    BY <1>2 DEF Removes, Remove, RemoveFabric, RemoveUnreachable, RemoveNode, SaveRemoval,
                SaveRemovalFault, TellRemoved
<1>3. ASSUME NEW j \in Ids, Operates(j) PROVE FALSE
    BY <1>3 DEF Operates, OpAddNoc, OpComplete, OpUnconfirmed, OpFail, OpPersist,
                OpPersistFault, OpUnheard, Op, NoOp, TypeOK
<1>4. ~ Starts /\ ~ Kill /\ ~ UNCHANGED vars
    BY DEF Starts, Start, InstallFabric, PersistKey, ApplyNodes, ApplyConfig, Load, Kill,
           NoOp, vars
<1>5. ~ \E d \in Devices : FailSafeExpires(d)
    BY DEF FailSafeExpires
<1>6. PICK c \in Conns : Allocate(c)
    BY <1>1, <1>2, <1>3, <1>4, <1>5 DEF Next
<1> QED
    BY <1>6 DEF Allocate, TypeOK

\* A kill at any moment never makes the server issue an id a second time.
THEOREM IdsNeverReissued == Spec => NeverReissued
<1>1. TypeOK /\ IdInv /\ [Next]_vars =>
          [\A i \in Ids : op[i].at = "none" /\ op'[i].at # "none" /\ ~ halfImported
                             => i \notin issued]_vars
    BY OnlyAllocateStarts, IdIsFresh
<1> QED
    BY <1>1, TypeInit, TypeStep, IdInit, IdStep, PTL DEF Spec, NeverReissued

-----------------------------------------------------------------------------
(* The announcements.  A node the clients know and the store does not is   *)
(* one whose removal is about to be told, or in raced.                     *)

GhostInv ==
    /\ \A i \in view : \/ i \in nodes \cup raced
                       \/ \E c \in Conns : /\ req[c].at \in {"saveRemoval", "tell"}
                                           /\ req[c].id = i
    /\ \A c \in Conns : req[c].at = "announce" => req[c].id \in nodes \cup raced

\* A request that is not telling a removal moves on, and no node leaves the store.
LEMMA GhostKept ==
    ASSUME TypeOK, GhostInv, NEW c \in Conns,
           view' = view, nodes \cup raced \subseteq nodes' \cup raced',
           req[c].at \notin {"saveRemoval", "tell"},
           \A e \in Conns : e # c => req'[e] = req[e],
           req'[c].at = "announce" => req'[c].id \in nodes
    PROVE  GhostInv'
BY DEF GhostInv

\* Every step keeps the invariant.
LEMMA GhostStep == TypeOK /\ Running /\ GhostInv /\ [Next]_vars => GhostInv'
<1> SUFFICES ASSUME TypeOK, Running, GhostInv, [Next]_vars PROVE GhostInv'
    OBVIOUS
<1> USE DEF Goes, Ends, Fails, Tries, Idle, Stages
<1>a. CASE Starts
    BY <1>a DEF Starts, Start, InstallFabric, PersistKey, ApplyNodes, ApplyConfig, Load,
                GhostInv, Running
<1>b. ASSUME NEW c \in Conns, Commissions(c) PROVE GhostInv'
  <2>1. CASE Announce(c)
    BY <2>1 DEF Announce, GhostInv, TypeOK
  <2>2. CASE Interviewed(c) \/ InterviewFailed(c)
    <3>1. req'[c].id = req[c].id /\ req[c].id \in nodes
      BY <2>2 DEF Interviewed, InterviewFailed, TypeOK
    <3> QED
      BY <2>2, <3>1, GhostKept DEF Interviewed, InterviewFailed, TypeOK
  <2>3. CASE StoreNode(c) \/ SaveNode(c) \/ SaveNodeFault(c) \/ InterviewSaveFault(c)
             \/ InterviewGone(c) \/ Timeout(c)
    <3>1. req'[c].at # "announce"
      BY <2>3 DEF StoreNode, SaveNode, SaveNodeFault, InterviewSaveFault, InterviewGone,
                  Timeout, TypeOK
    <3> QED
      BY <2>3, <3>1, GhostKept
         DEF StoreNode, SaveNode, SaveNodeFault, InterviewSaveFault, InterviewGone, Timeout,
             TypeOK
  <2>4. CASE \/ \E d \in Devices, again \in BOOLEAN : Commission(c, d, again)
             \/ Allocate(c) \/ AllocateFault(c) \/ \E i \in Ids : Answer(c, i)
    <3>1. req'[c].at # "announce"
      BY <2>4 DEF Commission, Allocate, AllocateFault, Answer, TypeOK
    <3> QED
      BY <2>4, <3>1, GhostKept DEF Commission, Allocate, AllocateFault, Answer, TypeOK
  <2> QED
    BY <1>b, <2>1, <2>2, <2>3, <2>4 DEF Commissions
<1>c. ASSUME NEW c \in Conns, Removes(c) PROVE GhostInv'
  <2>1. CASE (\E i \in nodes : Remove(c, i)) \/ RemoveFabric(c) \/ RemoveUnreachable(c)
    <3>1. req'[c].at # "announce"
      BY <2>1 DEF Remove, RemoveFabric, RemoveUnreachable, TypeOK
    <3> QED
      BY <2>1, <3>1, GhostKept DEF Remove, RemoveFabric, RemoveUnreachable, TypeOK
  <2>2. CASE RemoveNode(c)
    <3>1. /\ req'[c].at = "saveRemoval" /\ req'[c].id = req[c].id
          /\ \A e \in Conns : e # c => req'[e] = req[e]
      BY <2>2 DEF RemoveNode, TypeOK
    <3>2. \A e \in Conns : req'[e].at = "announce" => req'[e].id \in nodes' \cup raced'
      BY <2>2, <3>1 DEF RemoveNode, GhostInv
    <3>3. \A i \in view : \/ i \in nodes' \cup raced'
                          \/ \E e \in Conns : /\ req'[e].at \in {"saveRemoval", "tell"}
                                              /\ req'[e].id = i
      BY <2>2, <3>1 DEF RemoveNode, GhostInv
    <3> QED
      BY <2>2, <3>2, <3>3 DEF RemoveNode, GhostInv
  <2>3. CASE SaveRemoval(c)
    <3>1. /\ req'[c].at = "tell" /\ req'[c].id = req[c].id
          /\ \A e \in Conns : e # c => req'[e] = req[e]
      BY <2>3 DEF SaveRemoval, TypeOK
    <3> QED
      BY <2>3, <3>1 DEF SaveRemoval, GhostInv
  <2>4. CASE SaveRemovalFault(c) \/ TellRemoved(c)
    <3>1. /\ req'[c].at = "idle"
          /\ \A e \in Conns : e # c => req'[e] = req[e]
      BY <2>4 DEF SaveRemovalFault, TellRemoved, TypeOK
    <3> QED
      BY <2>4, <3>1 DEF SaveRemovalFault, TellRemoved, GhostInv
  <2> QED
    BY <1>c, <2>1, <2>2, <2>3, <2>4 DEF Removes
<1>d. CASE \/ \E i \in Ids : Operates(i)
           \/ \E d \in Devices : FailSafeExpires(d)
           \/ UNCHANGED vars
    BY <1>d DEF Operates, OpAddNoc, OpComplete, OpUnconfirmed, OpFail, OpPersist,
                OpPersistFault, OpUnheard, FailSafeExpires, vars, GhostInv
<1>e. CASE Kill
    BY <1>e DEF Kill, GhostInv
<1> QED
    BY <1>a, <1>b, <1>c, <1>d, <1>e DEF Next

\* When all is quiet the clients know of no node that is not in the store,
\* but for the removals raced names.
THEOREM NoGhostNodes == Spec => []NoGhosts
<1>1. Init => GhostInv
    BY DEF Init, GhostInv, Idle
<1>2. GhostInv => NoGhosts
    BY DEF GhostInv, NoGhosts
<1> QED
    BY <1>1, <1>2, TypeInit, TypeStep, IdInit, IdStep, GhostStep, PTL DEF Spec, IdInv

-----------------------------------------------------------------------------
(* The devices on the fabric.                                              *)

\* The key is stored after the fabric, and once.
KeyIsLast ==
    /\ key => fabric /\ up \notin {"install", "key"}
    /\ up = "key" => fabric

\* Until the import is applied the only devices on the fabric are the adopted.
OnlyAdopted ==
    NotApplied => \A d \in Devices :
                      dev[d].st = "on" => d \in Adopted /\ dev[d].id = AdoptedId[d]

\* Every id in use is below the counter.
Below ==
    /\ \A i \in nodes : i < next
    /\ \A i \in Ids : op[i].at # "none" => i < next
    /\ \A c \in Conns : req[c].at \notin {"idle", "allocate"} => req[c].id < next

\* An operation's id is in no list and in no later stage of any request, and
\* on no device but its own, unless that one is lost.
Exclusive ==
    \A i \in Ids : op[i].at # "none" =>
        /\ i \notin nodes
        /\ \A c \in Conns : req[c].at \notin {"idle", "allocate", "call"} => req[c].id # i
        /\ \A d \in Devices : dev[d].st = "on" /\ dev[d].id = i => d = op[i].dev \/ d \in lost

\* A device whose node is about to be forgotten, or was before it was saved,
\* is off the fabric or lost.
Forgotten ==
    \A c \in Conns, d \in Devices :
        /\ dev[d].st = "on" /\ dev[d].id = req[c].id
        /\ req[c].at = "forget" \/ (req[c].at = "save" /\ req[c].id \notin nodes)
        => d \in lost

\* A device on the fabric is listed in memory and on disk, in hand, or lost.
Listed ==
    \A d \in Devices :
        dev[d].st = "on" => \/ dev[d].id \in nodes /\ dev[d].id \in nodesDisk
                            \/ InHand(d) \/ d \in lost

\* While the server is not running, the list on disk is all there is.
ListedOnDisk ==
    \A d \in Devices : dev[d].st = "on" => dev[d].id \in nodesDisk \/ d \in lost

StrangerInv ==
    /\ KeyIsLast /\ OnlyAdopted
    /\ up = "up" => Below /\ Exclusive /\ Forgotten /\ Listed
    /\ up # "up" /\ ~ NotApplied => ListedOnDisk

\* What it is to hold an id, and to be in hand, field by field.
LEMMA HoldersAre ==
    ASSUME TypeOK, NEW i, NEW d \in Devices
    PROVE  d \in Holders(i) <=> dev[d].st = "on" /\ dev[d].id = i
BY DEF Holders, TypeOK

Hand(d) ==
    \/ \E i \in Ids : op[i].at \in {"persist", "ok"} /\ dev[d].id = i
    \/ \E c \in Conns : req[c].at \in {"store", "save"} /\ dev[d].id = req[c].id

LEMMA InHandIs ==
    ASSUME TypeOK, NEW d \in Devices, dev[d].st = "on"
    PROVE  InHand(d) <=> Hand(d)
BY HoldersAre DEF InHand, Hand

\* The invariant of a running server, with Hand for InHand.
UpInv ==
    /\ Below /\ Exclusive /\ Forgotten
    /\ \A d \in Devices :
          dev[d].st = "on" => \/ dev[d].id \in nodes /\ dev[d].id \in nodesDisk
                              \/ Hand(d) \/ d \in lost

LEMMA UpInvIs ==
    ASSUME TypeOK PROVE UpInv <=> Below /\ Exclusive /\ Forgotten /\ Listed
BY InHandIs DEF UpInv, Listed

\* The same of the state after a step.
LEMMA UpInvNext ==
    ASSUME TypeOK', UpInv' PROVE (Below /\ Exclusive /\ Forgotten /\ Listed)'
<1>1. ASSUME NEW d \in Devices, dev'[d].st = "on", Hand(d)' PROVE InHand(d)'
  <2>1. ASSUME NEW i PROVE (d \in Holders(i))' <=> dev'[d].st = "on" /\ dev'[d].id = i
    BY DEF Holders, TypeOK
  <2> QED
    BY <1>1, <2>1 DEF InHand, Hand
<1> QED
    BY <1>1 DEF UpInv, Listed

\* A step of a request that leaves the devices and the operations alone, and
\* has not to do with a node that is about to be stored, saved or forgotten.
LEMMA RequestKept ==
    ASSUME TypeOK, UpInv, NEW c \in Conns,
           UNCHANGED <<dev, op, lost, nodes>>,
           nodesDisk' \in {nodesDisk, nodes}, next' \in Nat, next' >= next,
           \A e \in Conns : e # c => req'[e] = req[e],
           req[c].at \notin {"store", "save"}, req'[c].at \notin {"store", "save", "forget", "call"},
           \/ req'[c].at \in {"idle", "allocate"}
           \/ /\ req[c].at \notin {"idle", "allocate", "call"}
              /\ req'[c].id = req[c].id
           \/ req'[c].id \in nodes
    PROVE  UpInv'
<1>a. /\ next \in Nat /\ nodes \subseteq Nat /\ \A e \in Conns : req[e].id \in Nat
      /\ Ids \subseteq Nat
    BY DEF TypeOK, Ids
<1>1. Below'
  <2>1. \A i \in nodes : i < next'
    BY <1>a DEF UpInv, Below
  <2>2. \A i \in Ids : op[i].at # "none" => i < next'
    BY <1>a DEF UpInv, Below
  <2>3. ASSUME NEW e \in Conns, req'[e].at \notin {"idle", "allocate"}
        PROVE  req'[e].id < next'
    <3>1. \A f \in Conns : req[f].at \notin {"idle", "allocate"} => req[f].id < next
      BY DEF UpInv, Below
    <3>2. CASE e # c
      <4>1. req'[e] = req[e]
        BY <3>2
      <4> QED
        BY <1>a, <2>3, <3>1, <4>1
    <3>3. CASE e = c
      <4>1. \/ req[c].at \notin {"idle", "allocate"} /\ req'[c].id = req[c].id
            \/ req'[c].id \in nodes
        BY <2>3, <3>3
      <4>2. CASE req'[c].id \in nodes
        BY <2>1, <3>3, <4>2
      <4>3. CASE req[c].at \notin {"idle", "allocate"} /\ req'[c].id = req[c].id
        BY <1>a, <3>1, <3>3, <4>3
      <4> QED
        BY <4>1, <4>2, <4>3
    <3> QED
      BY <3>2, <3>3
  <2> QED
    BY <2>1, <2>2, <2>3 DEF Below
<1>2. Exclusive'
    BY DEF UpInv, Exclusive
<1>3. Forgotten'
    BY DEF UpInv, Forgotten
<1>4. ASSUME NEW d \in Devices, dev[d].st = "on"
      PROVE  \/ dev[d].id \in nodes /\ dev[d].id \in nodesDisk'
             \/ Hand(d)' \/ d \in lost
  <2>1. Hand(d) => Hand(d)'
    BY DEF Hand
  <2> QED
    BY <1>4, <2>1 DEF UpInv
<1> QED
    BY <1>1, <1>2, <1>3, <1>4 DEF UpInv

\* The new node is put into the list, and then saved or not.
LEMMA StoreKept ==
    ASSUME TypeOK, UpInv, NEW c \in Conns, StoreNode(c) PROVE UpInv'
<1>1. /\ req[c].at = "store" /\ req'[c].at = "save" /\ req'[c].id = req[c].id
      /\ \A e \in Conns : e # c => req'[e] = req[e]
      /\ nodes' = nodes \cup {req[c].id}
      /\ UNCHANGED <<dev, op, lost, nodesDisk, next>>
    BY DEF StoreNode, Goes, TypeOK
<1>2. Below'
    BY <1>1 DEF UpInv, Below
<1>3. Exclusive'
    BY <1>1 DEF UpInv, Exclusive
<1>4. Forgotten'
    BY <1>1 DEF UpInv, Forgotten
<1>5. ASSUME NEW d \in Devices, dev[d].st = "on"
      PROVE  \/ dev[d].id \in nodes' /\ dev[d].id \in nodesDisk
             \/ Hand(d)' \/ d \in lost
  <2>1. Hand(d) => Hand(d)'
    BY <1>1 DEF Hand
  <2> QED
    BY <1>1, <1>5, <2>1 DEF UpInv
<1> QED
    BY <1>1, <1>2, <1>3, <1>4, <1>5 DEF UpInv

LEMMA SaveKept ==
    ASSUME TypeOK, UpInv, NEW c \in Conns, SaveNode(c) PROVE UpInv'
<1>1. /\ req[c].at = "save" /\ req'[c].at = "interview" /\ req'[c].id = req[c].id
      /\ \A e \in Conns : e # c => req'[e] = req[e]
      /\ nodesDisk' = nodes
      /\ UNCHANGED <<dev, op, lost, nodes, next>>
    BY DEF SaveNode, Goes, TypeOK
<1>2. Below'
    BY <1>1 DEF UpInv, Below
<1>3. Exclusive'
    BY <1>1 DEF UpInv, Exclusive
<1>4. Forgotten'
    BY <1>1 DEF UpInv, Forgotten
<1>5. ASSUME NEW d \in Devices, dev[d].st = "on", d \notin lost, dev[d].id \notin nodes
      PROVE  Hand(d)'
  <2>1. Hand(d)
    BY <1>5 DEF UpInv
  <2>2. dev[d].id # req[c].id
    BY <1>1, <1>5 DEF UpInv, Forgotten
  <2> QED
    BY <1>1, <2>1, <2>2 DEF Hand
<1> QED
    BY <1>1, <1>2, <1>3, <1>4, <1>5 DEF UpInv

LEMMA SaveFaultKept ==
    ASSUME TypeOK, UpInv, NEW c \in Conns, SaveNodeFault(c) PROVE UpInv'
<1>1. /\ req[c].at = "save" /\ req'[c].at \in {"idle", "allocate"}
      /\ \A e \in Conns : e # c => req'[e] = req[e]
      /\ lost' = lost \cup Holders(req[c].id)
      /\ UNCHANGED <<dev, op, nodes, nodesDisk, next>>
    BY DEF SaveNodeFault, Fails, Tries, Ends, Idle, TypeOK
<1>2. Below'
    BY <1>1 DEF UpInv, Below
<1>3. Exclusive'
    BY <1>1 DEF UpInv, Exclusive
<1>4. Forgotten'
    BY <1>1 DEF UpInv, Forgotten
<1>5. ASSUME NEW d \in Devices, dev[d].st = "on", d \notin lost', Hand(d)
      PROVE  Hand(d)'
  <2>1. dev[d].id # req[c].id
    BY <1>1, <1>5, HoldersAre
  <2> QED
    BY <1>1, <1>5, <2>1 DEF Hand
<1> QED
    BY <1>1, <1>2, <1>3, <1>4, <1>5 DEF UpInv

\* Removing a node: its device leaves the fabric or is lost, then the node
\* leaves the list.
LEMMA RemoveKept ==
    ASSUME TypeOK, UpInv, NEW c \in Conns, RemoveFabric(c) \/ RemoveUnreachable(c)
    PROVE  UpInv'
<1>1. /\ req[c].at = "remove" /\ req'[c].at = "forget" /\ req'[c].id = req[c].id
      /\ \A e \in Conns : e # c => req'[e] = req[e]
      /\ UNCHANGED <<op, nodes, nodesDisk, next>>
    BY DEF RemoveFabric, RemoveUnreachable, Goes, TypeOK
<1>2. ASSUME NEW d \in Devices, dev'[d].st = "on"
      PROVE  /\ dev'[d] = dev[d]
             /\ d \in lost => d \in lost'
             /\ dev[d].id = req[c].id => d \in lost'
  <2>1. CASE RemoveFabric(c)
    <3>1. d \notin Holders(req[c].id)
      BY <1>2, <2>1 DEF RemoveFabric, Factory
    <3>2. dev'[d] = dev[d]
      BY <2>1, <3>1 DEF RemoveFabric
    <3> QED
      BY <1>2, <2>1, <3>1, <3>2, HoldersAre DEF RemoveFabric
  <2>2. CASE RemoveUnreachable(c)
    BY <1>2, <2>2, HoldersAre DEF RemoveUnreachable
  <2> QED
    BY <2>1, <2>2
<1>3. Below'
    BY <1>1 DEF UpInv, Below
<1>4. Exclusive'
    BY <1>1, <1>2 DEF UpInv, Exclusive
<1>5. Forgotten'
    BY <1>1, <1>2 DEF UpInv, Forgotten
<1>6. ASSUME NEW d \in Devices, dev'[d].st = "on", Hand(d)
      PROVE  Hand(d)'
    BY <1>1, <1>2, <1>6 DEF Hand
<1> QED
    BY <1>1, <1>2, <1>3, <1>4, <1>5, <1>6 DEF UpInv

LEMMA ForgetKept ==
    ASSUME TypeOK, UpInv, NEW c \in Conns, RemoveNode(c) PROVE UpInv'
<1>1. /\ req[c].at = "forget" /\ req'[c].at = "saveRemoval" /\ req'[c].id = req[c].id
      /\ \A e \in Conns : e # c => req'[e] = req[e]
      /\ nodes' = nodes \ {req[c].id}
      /\ UNCHANGED <<dev, op, lost, nodesDisk, next>>
    BY DEF RemoveNode, Goes, TypeOK
<1>2. \A d \in Devices : dev[d].st = "on" /\ dev[d].id = req[c].id => d \in lost
    BY <1>1 DEF UpInv, Forgotten
<1>3. Below'
    BY <1>1 DEF UpInv, Below
<1>4. Exclusive'
    BY <1>1 DEF UpInv, Exclusive
<1>5. Forgotten'
    BY <1>1, <1>2 DEF UpInv, Forgotten
<1>6. \A d \in Devices : Hand(d) => Hand(d)'
    BY <1>1 DEF Hand
<1> QED
    BY <1>1, <1>2, <1>3, <1>4, <1>5, <1>6 DEF UpInv

\* A fresh id is on no list and on no device but the lost.
LEMMA AllocateKept ==
    ASSUME TypeOK, UpInv, NEW c \in Conns, Allocate(c) PROVE UpInv'
<1> DEFINE n == NextId
<1>1. /\ n \in Ids /\ n \in Nat /\ next <= n /\ next' = n + 1 /\ next \in Nat
      /\ nodes \subseteq Nat /\ Ids \subseteq Nat /\ \A e \in Conns : req[e].id \in Nat
    BY DEF Allocate, NextId, TypeOK, Ids
<1>2. /\ req'[c].at = "call" /\ req'[c].id = n
      /\ \A e \in Conns : e # c => req'[e] = req[e]
      /\ req[c].at = "allocate"
      /\ op'[n].at = "search" /\ op'[n].dev = req[c].dev
      /\ \A i \in Ids : i # n => op'[i] = op[i]
      /\ UNCHANGED <<dev, lost, nodes, nodesDisk>>
    BY <1>1 DEF Allocate, Tries, TypeOK
<1> HIDE DEF n
<1>3. /\ n \notin nodes /\ op[n].at = "none"
      /\ \A e \in Conns : req[e].at \notin {"idle", "allocate"} => req[e].id # n
  <2>1. ~ n < next
    BY <1>1
  <2>2. n \notin nodes
    BY <2>1 DEF UpInv, Below
  <2>3. op[n].at = "none"
    BY <1>1, <2>1 DEF UpInv, Below
  <2>4. \A e \in Conns : req[e].at \notin {"idle", "allocate"} => req[e].id # n
    BY <2>1 DEF UpInv, Below
  <2> QED
    BY <2>2, <2>3, <2>4
<1>4. \A d \in Devices : dev[d].st = "on" /\ dev[d].id = n => d \in lost
    BY <1>1, <1>3 DEF UpInv, Hand
<1>5. Below'
  <2>0. n < next' /\ \A x \in Nat : x < next => x < next'
    BY <1>1
  <2>1. \A i \in nodes : i < next'
    <3>1. \A i \in nodes : i \in Nat /\ i < next
      BY <1>1 DEF UpInv, Below
    <3> QED
      BY <2>0, <3>1
  <2>2. ASSUME NEW i \in Ids, op'[i].at # "none" PROVE i < next'
    <3>1. i \in Nat /\ (i # n => i < next)
      BY <1>1, <1>2, <2>2 DEF UpInv, Below
    <3> QED
      BY <2>0, <3>1
  <2>3. ASSUME NEW e \in Conns, req'[e].at \notin {"idle", "allocate"} PROVE req'[e].id < next'
    <3>1. CASE e = c
      BY <1>2, <2>0, <3>1
    <3>2. CASE e # c
      <4>1. req'[e] = req[e] /\ req[e].id \in Nat
        BY <1>1, <1>2, <3>2
      <4>2. req[e].id < next
        BY <2>3, <4>1 DEF UpInv, Below
      <4> QED
        BY <2>0, <4>1, <4>2
    <3> QED
      BY <3>1, <3>2
  <2> QED
    BY <1>2, <2>1, <2>2, <2>3 DEF Below
<1>6. Exclusive'
    BY <1>2, <1>3, <1>4 DEF UpInv, Exclusive
<1>7. Forgotten'
    BY <1>2 DEF UpInv, Forgotten
<1>8. \A d \in Devices : Hand(d) => Hand(d)'
    BY <1>2, <1>3 DEF Hand
<1> QED
    BY <1>2, <1>5, <1>6, <1>7, <1>8 DEF UpInv

\* The answer takes the device from the operation's hands into the request's.
LEMMA AnswerKept ==
    ASSUME TypeOK, UpInv, NEW c \in Conns, NEW i \in Ids, Answer(c, i) PROVE UpInv'
<1>1. /\ req[c].at = "call" /\ req[c].id = i /\ op[i].at \in {"ok", "err"}
      /\ op'[i].at = "none" /\ \A j \in Ids : j # i => op'[j] = op[j]
      /\ \A e \in Conns : e # c => req'[e] = req[e]
      /\ UNCHANGED <<dev, lost, nodes, nodesDisk, next>>
    BY DEF Answer, Goes, Fails, Tries, Ends, NoOp, TypeOK
<1>2. CASE op[i].at = "ok"
  <2>1. req'[c].at = "store" /\ req'[c].id = i
    BY <1>1, <1>2 DEF Answer, Goes, TypeOK
  <2>2. Below' /\ Exclusive' /\ Forgotten'
    BY <1>1, <2>1 DEF UpInv, Below, Exclusive, Forgotten
  <2>3. \A d \in Devices : Hand(d) => Hand(d)'
    BY <1>1, <2>1 DEF Hand
  <2> QED
    BY <1>1, <2>2, <2>3 DEF UpInv
<1>3. CASE op[i].at = "err"
  <2>1. req'[c].at \in {"idle", "allocate"}
    BY <1>1, <1>3 DEF Answer, Fails, Tries, Ends, Idle, TypeOK
  <2>2. Below' /\ Exclusive' /\ Forgotten'
    BY <1>1, <2>1 DEF UpInv, Below, Exclusive, Forgotten
  <2>3. \A d \in Devices : Hand(d) => Hand(d)'
    BY <1>1, <1>3 DEF Hand
  <2> QED
    BY <1>1, <2>2, <2>3 DEF UpInv
<1> QED
    BY <1>1, <1>2, <1>3

\* A step of an operation: only its own device may come onto the fabric, in
\* its hands or lost, and it lets go of that device only when it is lost.
LEMMA OperationKept ==
    ASSUME TypeOK, UpInv, NEW i \in Ids, op[i].at # "none",
           \A j \in Ids : j # i => op'[j] = op[j],
           op'[i].at = "none" \/ op'[i].dev = op[i].dev,
           UNCHANGED <<req, nodes, nodesDisk, next>>, lost \subseteq lost',
           \A d \in Devices :
               dev'[d].st = "on" =>
                   \/ dev'[d] = dev[d]
                   \/ /\ d = op[i].dev /\ dev'[d].id = i
                      /\ d \in lost' \/ op'[i].at = "persist",
           op[i].at \in {"persist", "ok"} =>
               op'[i].at \in {"persist", "ok"} \/ op[i].dev \in lost'
    PROVE  UpInv'
<1>1. Below'
    BY DEF UpInv, Below
<1>2. Exclusive'
    BY DEF UpInv, Exclusive
<1>3. Forgotten'
  <2> SUFFICES ASSUME NEW c \in Conns, NEW d \in Devices,
                      dev'[d].st = "on", dev'[d].id = req[c].id,
                      req[c].at = "forget" \/ (req[c].at = "save" /\ req[c].id \notin nodes)
               PROVE  d \in lost'
    BY DEF Forgotten
  <2>1. req[c].id # i
    BY DEF UpInv, Exclusive
  <2>2. dev'[d] = dev[d]
    BY <2>1
  <2> QED
    BY <2>2 DEF UpInv, Forgotten
<1>4. ASSUME NEW d \in Devices, dev'[d].st = "on"
      PROVE  \/ dev'[d].id \in nodes /\ dev'[d].id \in nodesDisk
             \/ Hand(d)' \/ d \in lost'
  <2>1. CASE dev'[d] = dev[d]
    <3>1. \/ dev[d].id \in nodes /\ dev[d].id \in nodesDisk
          \/ Hand(d) \/ d \in lost
      BY <1>4, <2>1 DEF UpInv
    <3>2. CASE Hand(d) /\ dev[d].id # i
      BY <2>1, <3>2 DEF Hand
    <3>3. CASE Hand(d) /\ dev[d].id = i
      <4>1. \A c \in Conns : req[c].at \in {"store", "save"} => req[c].id # i
        BY DEF UpInv, Exclusive
      <4>2. op[i].at \in {"persist", "ok"}
        BY <3>3, <4>1 DEF Hand
      <4>3. d = op[i].dev \/ d \in lost
        BY <1>4, <2>1, <3>3 DEF UpInv, Exclusive
      <4> QED
        BY <2>1, <3>3, <4>2, <4>3 DEF Hand
    <3> QED
      BY <2>1, <3>1, <3>2, <3>3
  <2>2. CASE dev'[d] # dev[d]
    BY <1>4, <2>2 DEF Hand
  <2> QED
    BY <2>1, <2>2
<1> QED
    BY <1>1, <1>2, <1>3, <1>4 DEF UpInv

LEMMA OperatesKept ==
    ASSUME TypeOK, UpInv, NEW i \in Ids, Operates(i) PROVE UpInv'
<1>1. op[i].at # "none" /\ op[i].dev \in Devices
    BY DEF Operates, OpAddNoc, OpComplete, OpUnconfirmed, OpFail, OpPersist, OpPersistFault,
           OpUnheard, TypeOK
<1>2. /\ UNCHANGED <<req, nodes, nodesDisk, next>>
      /\ lost \subseteq lost'
    BY DEF Operates, OpAddNoc, OpComplete, OpUnconfirmed, OpFail, OpPersist, OpPersistFault,
           OpUnheard
<1>3. CASE OpAddNoc(i)
  <2>1. /\ \A j \in Ids : j # i => op'[j] = op[j]
        /\ op'[i].dev = op[i].dev /\ op[i].at = "search"
    BY <1>3 DEF OpAddNoc, Op, TypeOK
  <2>2. \A d \in Devices : dev'[d].st = "on" => dev'[d] = dev[d]
    BY <1>3 DEF OpAddNoc, TypeOK
  <2> QED
    BY <1>1, <1>2, <2>1, <2>2, OperationKept
<1>4. CASE OpComplete(i)
  <2>1. /\ \A j \in Ids : j # i => op'[j] = op[j]
        /\ op'[i].dev = op[i].dev /\ op[i].at = "case" /\ op'[i].at = "persist"
    BY <1>4 DEF OpComplete, Op, TypeOK
  <2>2. \A d \in Devices : dev'[d] = dev[d] \/ (d = op[i].dev /\ dev'[d].id = i)
    BY <1>4 DEF OpComplete, TypeOK
  <2> QED
    BY <1>1, <1>2, <2>1, <2>2, OperationKept
<1>5. CASE OpUnconfirmed(i)
  <2>1. /\ \A j \in Ids : j # i => op'[j] = op[j]
        /\ op'[i].dev = op[i].dev /\ op[i].at = "case"
    BY <1>5 DEF OpUnconfirmed, Op, TypeOK
  <2>2. \A d \in Devices : \/ dev'[d] = dev[d]
                           \/ d = op[i].dev /\ dev'[d].id = i /\ d \in lost'
    BY <1>5 DEF OpUnconfirmed, TypeOK
  <2> QED
    BY <1>1, <1>2, <2>1, <2>2, OperationKept
<1>6. CASE OpFail(i) \/ OpPersist(i) \/ OpPersistFault(i)
  <2>1. /\ \A j \in Ids : j # i => op'[j] = op[j]
        /\ op'[i].dev = op[i].dev /\ dev' = dev
        /\ op[i].at \in {"persist", "ok"} =>
               op'[i].at \in {"persist", "ok"} \/ op[i].dev \in lost'
    BY <1>6 DEF OpFail, OpPersist, OpPersistFault, Op, TypeOK
  <2> QED
    BY <1>1, <1>2, <2>1, OperationKept
<1>7. CASE OpUnheard(i)
  <2>1. /\ \A j \in Ids : j # i => op'[j] = op[j]
        /\ op'[i].at = "none" /\ dev' = dev
        /\ op[i].at \in {"persist", "ok"} => op[i].dev \in lost'
    BY <1>7 DEF OpUnheard, NoOp, TypeOK
  <2> QED
    BY <1>1, <1>2, <2>1, OperationKept
<1> QED
    BY <1>3, <1>4, <1>5, <1>6, <1>7 DEF Operates

\* A step of a request keeps the invariant of the running server.
LEMMA RequestsKept ==
    ASSUME TypeOK, UpInv, NEW c \in Conns, Commissions(c) \/ Removes(c) PROVE UpInv'
<1>t. next \in Nat
    BY DEF TypeOK
<1>1. CASE \/ Allocate(c) \/ (\E i \in Ids : Answer(c, i)) \/ StoreNode(c) \/ SaveNode(c)
           \/ SaveNodeFault(c) \/ RemoveFabric(c) \/ RemoveUnreachable(c) \/ RemoveNode(c)
    BY <1>1, AllocateKept, AnswerKept, StoreKept, SaveKept, SaveFaultKept, RemoveKept,
       ForgetKept
<1>2. CASE \E d \in Devices, again \in BOOLEAN : Commission(c, d, again)
  <2>1. /\ UNCHANGED <<dev, op, lost, nodes, nodesDisk, next>>
        /\ \A e \in Conns : e # c => req'[e] = req[e]
        /\ req[c].at = "idle" /\ req'[c].at = "allocate"
    BY <1>2 DEF Commission, TypeOK
  <2> QED
    BY <1>t, <2>1, RequestKept
<1>3. CASE AllocateFault(c) \/ Timeout(c) \/ InterviewSaveFault(c) \/ InterviewGone(c)
  <2>1. /\ UNCHANGED <<dev, op, lost, nodes, nodesDisk>>
        /\ req[c].at \notin {"store", "save"} /\ Fails(c)
    BY <1>3 DEF AllocateFault, Timeout, InterviewSaveFault, InterviewGone
  <2>2. /\ \A e \in Conns : e # c => req'[e] = req[e]
        /\ req'[c].at \in {"idle", "allocate"}
    BY <2>1 DEF Fails, Tries, Ends, Idle, TypeOK
  <2>3. next' \in Nat /\ next' >= next
    BY <1>3, <1>t DEF AllocateFault, NextId, Timeout, InterviewSaveFault, InterviewGone
  <2> QED
    BY <2>1, <2>2, <2>3, RequestKept
<1>4. CASE Interviewed(c) \/ InterviewFailed(c) \/ SaveRemoval(c)
  <2>1. /\ UNCHANGED <<dev, op, lost, nodes, next>> /\ nodesDisk' \in {nodesDisk, nodes}
        /\ req[c].at \in {"interview", "saveRemoval"}
        /\ \A e \in Conns : e # c => req'[e] = req[e]
        /\ req'[c].at \in {"announce", "tell"} /\ req'[c].id = req[c].id
    BY <1>4 DEF Interviewed, InterviewFailed, SaveRemoval, Goes, TypeOK
  <2> QED
    BY <1>t, <2>1, RequestKept
<1>5. CASE Announce(c) \/ SaveRemovalFault(c) \/ TellRemoved(c)
  <2>1. /\ UNCHANGED <<dev, op, lost, nodes, nodesDisk, next>>
        /\ req[c].at \in {"announce", "saveRemoval", "tell"}
        /\ \A e \in Conns : e # c => req'[e] = req[e]
        /\ req'[c].at = "idle"
    BY <1>5 DEF Announce, SaveRemovalFault, TellRemoved, Ends, Idle, TypeOK
  <2> QED
    BY <1>t, <2>1, RequestKept
<1>6. CASE \E i \in nodes : Remove(c, i)
  <2>1. /\ UNCHANGED <<dev, op, lost, nodes, nodesDisk, next>>
        /\ req[c].at = "idle"
        /\ \A e \in Conns : e # c => req'[e] = req[e]
        /\ req'[c].at = "remove" /\ req'[c].id \in nodes
    BY <1>6 DEF Remove, TypeOK
  <2> QED
    BY <1>t, <2>1, RequestKept
<1> QED
    BY <1>1, <1>2, <1>3, <1>4, <1>5, <1>6 DEF Commissions, Removes

\* Every step keeps the invariant.
LEMMA StrangerStep ==
    ASSUME TypeOK, TypeOK', Running, StrangerInv, [Next]_vars PROVE StrangerInv'
<1>1. CASE Starts
  <2>1. UNCHANGED <<op, req, dev, lost>> /\ up # "up"
    BY <1>1 DEF Starts, Start, InstallFabric, PersistKey, ApplyNodes, ApplyConfig, Load
  <2>2. CASE Start
    BY <2>1, <2>2 DEF Start, StrangerInv, KeyIsLast, OnlyAdopted, ListedOnDisk, NotApplied
  <2>3. CASE InstallFabric
    BY <2>1, <2>3 DEF InstallFabric, StrangerInv, KeyIsLast, OnlyAdopted, ListedOnDisk, NotApplied
  <2>4. CASE PersistKey
    <3>1. /\ key' /\ up' \in {"load", "apply"} /\ (up' = "load" => Adopted = {})
          /\ nodesDisk' = nodesDisk
      BY <2>4 DEF PersistKey
    <3>2. ~ key /\ fabric' = fabric /\ fabric
      BY <2>4 DEF PersistKey, StrangerInv, KeyIsLast
    <3> QED
      BY <2>1, <3>1, <3>2 DEF StrangerInv, KeyIsLast, OnlyAdopted, ListedOnDisk, NotApplied
  <2>5. CASE ApplyNodes
    <3>1. /\ up = "apply" /\ up' = "config" /\ key /\ key' = key /\ fabric' = fabric
          /\ nodesDisk' = nodesDisk \cup AdoptedIds
      BY <2>5 DEF ApplyNodes, Running
    <3>2. \A d \in Devices : dev[d].st = "on" => dev[d].id \in AdoptedIds
      BY <3>1 DEF StrangerInv, KeyIsLast, OnlyAdopted, NotApplied, AdoptedIds
    <3> QED
      BY <2>1, <3>1, <3>2 DEF StrangerInv, KeyIsLast, OnlyAdopted, ListedOnDisk, NotApplied
  <2>6. CASE ApplyConfig
    BY <2>1, <2>6 DEF ApplyConfig, StrangerInv, KeyIsLast, OnlyAdopted, ListedOnDisk, NotApplied
  <2>7. CASE Load
    <3>1. /\ up = "load" /\ up' = "up" /\ key /\ key' = key /\ fabric' = fabric
          /\ nodes' = nodesDisk /\ nodesDisk' = nodesDisk
      BY <2>7 DEF Load, Running
    <3>2. \A i \in nodesDisk : i < next'
      BY <2>7 DEF Load, Highest, ReservedAbove, TypeOK
    <3>3. (\A i \in Ids : op[i].at = "none") /\ (\A c \in Conns : req[c].at = "idle")
      BY <2>1 DEF Running
    <3>4. Below' /\ Exclusive' /\ Forgotten'
      BY <2>1, <3>1, <3>2, <3>3 DEF Below, Exclusive, Forgotten
    <3>5. Listed'
      BY <2>1, <3>1 DEF StrangerInv, ListedOnDisk, Listed, NotApplied
    <3> QED
      BY <3>1, <3>4, <3>5 DEF StrangerInv, KeyIsLast, OnlyAdopted, NotApplied
  <2> QED
    BY <1>1, <2>2, <2>3, <2>4, <2>5, <2>6, <2>7 DEF Starts
<1>2. CASE Kill
  <2>1. /\ up' = "down" /\ UNCHANGED <<key, fabric, nodesDisk, dev>>
        /\ lost' = lost \cup {d \in Devices : InHand(d)}
                        \cup (IF up = "apply" THEN Adopted ELSE {})
    BY <1>2 DEF Kill, diskVars
  <2>2. OnlyAdopted'
    BY <2>1 DEF StrangerInv, KeyIsLast, OnlyAdopted, NotApplied
  <2>3. ASSUME key PROVE ListedOnDisk'
    <3>1. CASE up = "apply"
      BY <2>1, <3>1 DEF StrangerInv, KeyIsLast, OnlyAdopted, NotApplied, ListedOnDisk
    <3>2. CASE up = "up"
      BY <2>1, <3>2 DEF StrangerInv, Listed, ListedOnDisk
    <3>3. CASE up \notin {"apply", "up"}
      BY <2>1, <2>3, <3>3 DEF StrangerInv, NotApplied, ListedOnDisk
    <3> QED
      BY <3>1, <3>2, <3>3
  <2> QED
    BY <2>1, <2>2, <2>3 DEF StrangerInv, KeyIsLast, NotApplied
<1>3. ASSUME up = "up", UNCHANGED <<up, key, fabric>>, UpInv' PROVE StrangerInv'
  <2>1. key
    BY <1>3 DEF Running
  <2> QED
    BY <1>3, <2>1, UpInvNext DEF StrangerInv, KeyIsLast, OnlyAdopted, NotApplied
<1>4. up = "up" => UpInv
    BY UpInvIs DEF StrangerInv
<1>5. ASSUME NEW c \in Conns, Commissions(c) \/ Removes(c) PROVE StrangerInv'
  <2>1. up = "up"
    BY <1>5 DEF Running, Commissions, Removes, Commission, Allocate, AllocateFault, Timeout,
                Answer, StoreNode, SaveNode, SaveNodeFault, Interviewed, InterviewSaveFault,
                InterviewFailed, InterviewGone, Announce, Remove, RemoveFabric,
                RemoveUnreachable, RemoveNode, SaveRemoval, SaveRemovalFault, TellRemoved
  <2>2. UNCHANGED <<up, key, fabric>>
    BY <1>5 DEF Commissions, Removes, Commission, Allocate, AllocateFault, Timeout,
                Answer, StoreNode, SaveNode, SaveNodeFault, Interviewed, InterviewSaveFault,
                InterviewFailed, InterviewGone, Announce, Remove, RemoveFabric,
                RemoveUnreachable, RemoveNode, SaveRemoval, SaveRemovalFault, TellRemoved
  <2> QED
    BY <1>3, <1>4, <1>5, <2>1, <2>2, RequestsKept
<1>6. ASSUME NEW i \in Ids, Operates(i) PROVE StrangerInv'
  <2>1. op[i].at # "none"
    BY <1>6 DEF Operates, OpAddNoc, OpComplete, OpUnconfirmed, OpFail, OpPersist,
                OpPersistFault, OpUnheard
  <2>2. up = "up" /\ UNCHANGED <<up, key, fabric>>
    BY <1>6, <2>1 DEF Running, Operates, OpAddNoc, OpComplete, OpUnconfirmed, OpFail,
                      OpPersist, OpPersistFault, OpUnheard
  <2> QED
    BY <1>3, <1>4, <1>6, <2>2, OperatesKept
<1>7. ASSUME NEW x \in Devices, FailSafeExpires(x) PROVE StrangerInv'
  <2>1. /\ \A d \in Devices : dev'[d].st = "on" => dev'[d] = dev[d]
        /\ UNCHANGED <<up, key, fabric, next, nodes, nodesDisk, op, req, lost>>
    BY <1>7 DEF FailSafeExpires, Factory, TypeOK
  <2>2. OnlyAdopted'
    BY <2>1 DEF StrangerInv, KeyIsLast, OnlyAdopted, NotApplied
  <2>3. up # "up" /\ ~ NotApplied => ListedOnDisk'
    BY <2>1 DEF StrangerInv, ListedOnDisk
  <2>4. ASSUME UpInv PROVE UpInv'
    <3>1. \A d \in Devices : dev'[d].st = "on" /\ Hand(d) => Hand(d)'
      BY <2>1 DEF Hand
    <3>2. Below' /\ Exclusive' /\ Forgotten'
      BY <2>1, <2>4 DEF UpInv, Below, Exclusive, Forgotten
    <3> QED
      BY <2>1, <2>4, <3>1, <3>2 DEF UpInv
  <2> QED
    BY <1>4, <2>1, <2>2, <2>3, <2>4, UpInvNext DEF StrangerInv, KeyIsLast, NotApplied
<1>8. CASE UNCHANGED vars
    BY <1>8 DEF vars, StrangerInv, KeyIsLast, OnlyAdopted, NotApplied, Below, Exclusive, Forgotten,
                Listed, ListedOnDisk, InHand, Holders
<1> QED
    BY <1>1, <1>2, <1>5, <1>6, <1>7, <1>8 DEF Next

\* Wherever the server is killed or a save fails, a device on the fabric is in
\* the node list, in memory or on disk, or in the hands of an operation or a
\* request that has yet to save it, or was left in one of the ways lost names.
THEOREM NoStrangers == Spec => []NoStranger
<1>1. Init => StrangerInv
    BY DEF Init, StrangerInv, KeyIsLast, OnlyAdopted, NotApplied, Factory
<1>2. TypeOK /\ StrangerInv => NoStranger
    BY DEF StrangerInv, NotApplied, Listed, ListedOnDisk, NoStranger
<1>3. TypeOK /\ TypeOK' /\ IdInv /\ StrangerInv /\ [Next]_vars => StrangerInv'
    BY StrangerStep DEF IdInv
<1> QED
    BY <1>1, <1>2, <1>3, TypeInit, TypeStep, IdInit, IdStep, PTL DEF Spec
=============================================================================
