---------------------------- MODULE StartProofs ----------------------------
(***************************************************************************)
(* Proofs about the start of the server, what it imports and the Matter    *)
(* thread that runs from then on: that the fabric is kept whatever a       *)
(* sequence of starts is asked to import and wherever one of them is       *)
(* killed or fails to write, that what the actor tells a caller of its     *)
(* request is so, and that an import takes over all that was committed,    *)
(* for every number of starts, callers, calls, chunks and lines.           *)
(*                                                                         *)
(* FabricIsKept is not inductive.  What holds at each stage of a start is  *)
(* added (StageInv): until the fabric is persisted there is none in        *)
(* storage and storage is as the start found it, and from then on it is    *)
(* the one the process holds; so is what a key in storage means            *)
(* (KeyIsOwn).                                                             *)
(*                                                                         *)
(* AnswersAreTrue is about the end of a call and says nothing of its way   *)
(* there.  The invariant adds what is true of a call at each of its steps  *)
(* (CallInv), and that a call is in one place only, with one sender, in    *)
(* the channel or taken (QueueInv): a call that could be taken twice could *)
(* be reported as unheard after it was heard.                              *)
(*                                                                         *)
(* That a log reads back is about all of its lines at once.  The invariant *)
(* says of each cell that the last line to touch it has its value (LastInv)*)
(* and that the snapshot has it where no line past the snapshot touches it *)
(* (BaseInv).                                                              *)
(***************************************************************************)
EXTENDS FirstStart, Actor, Import, Loops, SequenceTheorems, FiniteSetTheorems,
        WellFoundedInduction, TLAPS

-----------------------------------------------------------------------------
(* The fabric.                                                             *)

Fabrics == [number : Nat, identity : FabricIdentities \cup {NoIdentity}]
StartStages == {"down", "startup", "persist", "key", "up", "failed", "unwritten"}

\* Types.
StartTypeOK ==
    /\ storage \in [fabric : Fabrics, key : Int]
    /\ before \in [fabric : Fabrics, key : Int]
    /\ running \in [at : StartStages, fabric : Fabrics, key : Int, attempts : Nat]
    /\ source \in ImportSources
    /\ starts \in Nat /\ killed \in Nat

\* A whole key in storage is that of the fabric in storage.
KeyIsOwn ==
    storage.key \in {NoIssuerKey, CutKey} \/ storage.key = storage.fabric.number

\* What each stage of a start knows of storage and of what it holds.
StageInv ==
    /\ running.at # "down" => starts > 0
    /\ running.at \in {"startup", "failed", "persist"} => storage = before
    /\ running.at \in {"persist", "key"} =>
          /\ before.fabric = NoFabricYet
          /\ running.fabric.number = starts /\ running.key = starts
    /\ running.at = "persist" => storage.key \in {NoIssuerKey, CutKey}
    /\ running.at = "key" => storage.fabric = running.fabric

StartInv == StartTypeOK /\ KeyIsOwn /\ StageInv /\ FabricIsKept

\* The empty values, and their types.
LEMMA EmptyTypes ==
    /\ NoFabricYet \in Fabrics /\ NoFabricYet.number = 0
    /\ EmptyStorage \in [fabric : Fabrics, key : Int]
    /\ EmptyStorage.fabric = NoFabricYet /\ EmptyStorage.key = NoIssuerKey
    /\ NotRunningYet \in [at : StartStages, fabric : Fabrics, key : Int, attempts : Nat]
    /\ NotRunningYet.at = "down"
    /\ NoSource \in ImportSources
BY DEF NoFabricYet, Fabrics, EmptyStorage, NotRunningYet, NoSource, ImportSources, StartStages,
       NoIssuerKey

LEMMA StartInit == FirstStartInit => StartInv
<1> SUFFICES ASSUME FirstStartInit PROVE StartInv
    OBVIOUS
<1>1. StartTypeOK
    BY EmptyTypes DEF FirstStartInit, StartTypeOK
<1>2. running.at = "down" /\ storage = before /\ storage.key = NoIssuerKey
    BY EmptyTypes DEF FirstStartInit
<1> QED
    BY <1>1, <1>2 DEF StartInv, KeyIsOwn, StageInv, FabricIsKept, KeyGoesWithFabric,
                      FailedStartLeavesNothing, AdoptedIsTheSources, FabricStays

\* An asked source has the fields of one.
LEMMA SourceFields ==
    ASSUME StartTypeOK PROVE
    /\ source.asked \in BOOLEAN
    /\ source.certified \in FabricIdentities \cup {NoIdentity}
<1>1. CASE source = NoSource
    BY <1>1 DEF NoSource
<1>2. CASE source # NoSource
  <2>1. source \in [asked : {TRUE}, readable : BOOLEAN, usable : BOOLEAN,
                    certified : FabricIdentities, recorded : FabricIdentities,
                    compressed : FabricIdentities \cup {NoIdentity}]
    BY <1>2 DEF StartTypeOK, ImportSources
  <2> QED
    BY <2>1
<1> QED
    BY <1>1, <1>2

\* A process that is not running, or has just read its source, holds nothing:
\* the invariant is then about storage only.
LEMMA NothingHeld ==
    ASSUME StartInv, StartTypeOK', running'.at \in {"down", "unwritten"}, starts' > 0,
           KeyIsOwn', FabricStays'
    PROVE  StartInv'
BY DEF StartInv, StageInv, FabricIsKept, KeyGoesWithFabric, FailedStartLeavesNothing,
       AdoptedIsTheSources

\* Every step keeps the invariant.
LEMMA StartStep == StartInv /\ [FirstStartNext]_firstStartVars => StartInv'
<1> SUFFICES ASSUME StartInv, [FirstStartNext]_firstStartVars PROVE StartInv'
    OBVIOUS
<1>t. StartTypeOK /\ KeyIsOwn /\ StageInv /\ FabricIsKept
    BY DEF StartInv
<1>1. ASSUME NEW s \in ImportSources, BeginStart(s) PROVE StartInv'
  <2>1. /\ running'.at \in {"failed", "startup"} /\ storage' = storage /\ before' = storage
        /\ running' \in [at : StartStages, fabric : Fabrics, key : Int, attempts : Nat]
        /\ starts' = starts + 1 /\ source' = s /\ killed' = killed
    BY <1>1, EmptyTypes DEF BeginStart, StartStages
  <2>2. StartTypeOK' /\ starts' > 0
    BY <1>t, <1>1, <2>1 DEF StartTypeOK
  <2> QED
    BY <1>t, <2>1, <2>2 DEF StartInv, KeyIsOwn, StageInv, FabricIsKept, KeyGoesWithFabric,
                            FailedStartLeavesNothing, AdoptedIsTheSources, FabricStays
<1>2. CASE LoadExisting
  <2>1. UNCHANGED <<storage, source, starts, killed, before>> /\ running.at = "startup"
    BY <1>2 DEF LoadExisting
  <2>2. CASE LoadIssuerPrivateKey.found
    <3>1. /\ running'.at = "up" /\ running'.fabric = storage.fabric /\ running'.key = storage.key
          /\ running'.attempts = running.attempts
          /\ running' \in [at : StartStages, fabric : Fabrics, key : Int, attempts : Nat]
      BY <1>t, <1>2, <2>2 DEF LoadExisting, LoadIssuerPrivateKey, StartTypeOK, StartStages
    <3>2. storage.key = storage.fabric.number
      BY <1>t, <2>2 DEF LoadIssuerPrivateKey, KeyIsOwn
    <3>3. storage = [fabric |-> storage.fabric, key |-> storage.key]
      BY <1>t DEF StartTypeOK
    <3>4. StartTypeOK' /\ KeyIsOwn'
      BY <1>t, <2>1, <3>1 DEF StartTypeOK, KeyIsOwn
    <3> QED
      BY <1>t, <2>1, <3>1, <3>2, <3>3, <3>4
         DEF StartInv, StageInv, FabricIsKept, KeyGoesWithFabric, FailedStartLeavesNothing,
             AdoptedIsTheSources, FabricStays
  <2>3. CASE ~ LoadIssuerPrivateKey.found
    <3>1. /\ running'.at = "failed"
          /\ running' \in [at : StartStages, fabric : Fabrics, key : Int, attempts : Nat]
      BY <1>t, <1>2, <2>3 DEF LoadExisting, StartTypeOK, StartStages
    <3> QED
      BY <1>t, <2>1, <3>1
         DEF StartInv, StartTypeOK, KeyIsOwn, StageInv, FabricIsKept, KeyGoesWithFabric,
             FailedStartLeavesNothing, AdoptedIsTheSources, FabricStays
  <2> QED
    BY <2>2, <2>3
<1>3. CASE InstallImported
  <2>1. /\ UNCHANGED <<storage, source, starts, killed, before>> /\ running.at = "startup"
        /\ storage.fabric = NoFabricYet /\ running' = Installed
    BY <1>3 DEF InstallImported
  <2>2. CASE source.usable /\ IsSameFabric(source)
    <3>1. /\ running'.at = "persist" /\ running'.key = starts
          /\ running'.fabric = Adopted
          /\ running' \in [at : StartStages, fabric : Fabrics, key : Int, attempts : Nat]
      <4>1. Adopted \in Fabrics /\ starts \in Int
        BY <1>t, SourceFields DEF Adopted, StartTypeOK, Fabrics
      <4>2. running' = [running EXCEPT !.at = "persist", !.key = starts, !.fabric = Adopted]
        BY <2>1, <2>2 DEF Installed
      <4> QED
        BY <1>t, <4>1, <4>2 DEF StartTypeOK, StartStages
    <3>2. running'.fabric.number = starts /\ running'.fabric.identity = source.certified
      BY <3>1 DEF Adopted
    <3>3. storage.key \in {NoIssuerKey, CutKey}
      BY <1>t, <2>1, EmptyTypes DEF KeyIsOwn, NoIssuerKey
    <3>4. AdoptedIsTheSources'
      BY <2>1, <2>2, <3>2 DEF AdoptedIsTheSources, IsSameFabric
    <3> QED
      BY <1>t, <2>1, <3>1, <3>2, <3>3, <3>4
         DEF StartInv, StartTypeOK, KeyIsOwn, StageInv, FabricIsKept, KeyGoesWithFabric,
             FailedStartLeavesNothing, FabricStays
  <2>3. CASE ~ (source.usable /\ IsSameFabric(source))
    <3>1. /\ running'.at = "failed"
          /\ running' \in [at : StartStages, fabric : Fabrics, key : Int, attempts : Nat]
      BY <1>t, <2>1, <2>3 DEF Installed, StartTypeOK, StartStages
    <3> QED
      BY <1>t, <2>1, <3>1
         DEF StartInv, StartTypeOK, KeyIsOwn, StageInv, FabricIsKept, KeyGoesWithFabric,
             FailedStartLeavesNothing, AdoptedIsTheSources, FabricStays
  <2> QED
    BY <2>2, <2>3
<1>4. CASE CreateFails
  <2>1. /\ UNCHANGED <<storage, source, starts, killed, before>> /\ running.at = "startup"
        /\ running'.at \in {"startup", "failed"}
        /\ running' \in [at : StartStages, fabric : Fabrics, key : Int, attempts : Nat]
    <3>1. /\ UNCHANGED <<storage, source, starts, killed, before>> /\ running.at = "startup"
          /\ \E at \in {"startup", "failed"} :
                running' = [running EXCEPT !.attempts = running.attempts + 1, !.at = at]
      <4>1. CASE running.attempts + 1 = FabricCreationAttempts
        BY <1>4, <4>1 DEF CreateFails
      <4>2. CASE running.attempts + 1 # FabricCreationAttempts
        BY <1>4, <4>2 DEF CreateFails
      <4> QED
        BY <4>1, <4>2
    <3>2. PICK at \in {"startup", "failed"} :
             running' = [running EXCEPT !.attempts = running.attempts + 1, !.at = at]
      BY <3>1
    <3>3. running.attempts + 1 \in Nat /\ at \in StartStages
      BY <1>t DEF StartTypeOK, StartStages
    <3> QED
      BY <1>t, <3>1, <3>2, <3>3 DEF StartTypeOK
  <2> QED
    BY <1>t, <2>1
       DEF StartInv, StartTypeOK, KeyIsOwn, StageInv, FabricIsKept, KeyGoesWithFabric,
           FailedStartLeavesNothing, AdoptedIsTheSources, FabricStays
<1>5. CASE CreateFabric
  <2>1. /\ UNCHANGED <<storage, source, starts, killed, before>> /\ running.at = "startup"
        /\ storage.fabric = NoFabricYet /\ ~ source.asked
        /\ running'.at = "persist" /\ running'.key = starts
        /\ running'.fabric = [number |-> starts, identity |-> NoIdentity]
        /\ running' \in [at : StartStages, fabric : Fabrics, key : Int, attempts : Nat]
    <3>1. starts \in Int /\ [number |-> starts, identity |-> NoIdentity] \in Fabrics
      BY <1>t DEF StartTypeOK, Fabrics
    <3> QED
      BY <1>t, <1>5, <3>1 DEF CreateFabric, StartTypeOK, StartStages
  <2>2. storage.key \in {NoIssuerKey, CutKey}
    BY <1>t, <2>1, EmptyTypes DEF KeyIsOwn, NoIssuerKey
  <2> QED
    BY <1>t, <2>1, <2>2
       DEF StartInv, StartTypeOK, KeyIsOwn, StageInv, FabricIsKept, KeyGoesWithFabric,
           FailedStartLeavesNothing, AdoptedIsTheSources, FabricStays
<1>6. CASE PersistFabric
  <2>1. /\ UNCHANGED <<source, starts, killed, before>> /\ running.at = "persist"
        /\ running'.at = "key" /\ running'.fabric = running.fabric /\ running'.key = running.key
        /\ running' \in [at : StartStages, fabric : Fabrics, key : Int, attempts : Nat]
        /\ storage'.fabric = running.fabric /\ storage'.key = storage.key
        /\ storage' \in [fabric : Fabrics, key : Int]
    BY <1>t, <1>6 DEF PersistFabric, Reaches, StartTypeOK, StartStages
  <2> QED
    BY <1>t, <2>1
       DEF StartInv, StartTypeOK, KeyIsOwn, StageInv, FabricIsKept, KeyGoesWithFabric,
           FailedStartLeavesNothing, AdoptedIsTheSources, FabricStays
<1>7. ASSUME NEW cut \in BOOLEAN, PersistIssuerPrivateKey(cut) PROVE StartInv'
  <2>1. /\ UNCHANGED <<source, starts, before>> /\ running.at = "key"
        /\ storage'.fabric = storage.fabric
        /\ storage'.key = IF cut THEN CutKey ELSE running.key
        /\ storage' \in [fabric : Fabrics, key : Int]
        /\ killed' \in Nat
    BY <1>t, <1>7 DEF PersistIssuerPrivateKey, StartTypeOK, CutKey
  <2>2. FabricStays'
    BY <1>t, <2>1 DEF FabricIsKept, FabricStays
  <2>3. CASE cut
    <3>1. running'.at = "down" /\ StartTypeOK' /\ KeyIsOwn'
      BY <1>t, <1>7, <2>1, <2>3, EmptyTypes DEF PersistIssuerPrivateKey, StartTypeOK, KeyIsOwn
    <3>2. starts' > 0
      BY <1>t, <2>1 DEF StageInv
    <3> QED
      BY <2>2, <3>1, <3>2, NothingHeld
  <2>4. CASE ~ cut
    <3>1. /\ running'.at = "up" /\ running'.fabric = running.fabric
          /\ running'.key = running.key
          /\ running' \in [at : StartStages, fabric : Fabrics, key : Int, attempts : Nat]
      BY <1>t, <1>7, <2>4 DEF PersistIssuerPrivateKey, StartTypeOK, StartStages
    <3>2. /\ storage'.fabric = running'.fabric /\ storage'.key = running'.key
          /\ running'.key = running'.fabric.number
      BY <1>t, <2>1, <2>4, <3>1 DEF StageInv
    <3>3. StartTypeOK'
      BY <1>t, <2>1, <3>1 DEF StartTypeOK
    <3>4. storage' = [fabric |-> running'.fabric, key |-> running'.key]
      BY <2>1, <3>2
    <3> QED
      BY <1>t, <2>1, <2>2, <3>1, <3>2, <3>3, <3>4
         DEF StartInv, KeyIsOwn, StageInv, FabricIsKept, KeyGoesWithFabric,
             FailedStartLeavesNothing, AdoptedIsTheSources
  <2> QED
    BY <2>3, <2>4
<1>8. ASSUME NEW cut \in BOOLEAN, WriteFails(cut) PROVE StartInv'
  <2>1. /\ UNCHANGED <<source, starts, killed, before>> /\ running.at \in {"persist", "key"}
        /\ running'.at = "unwritten"
        /\ running' \in [at : StartStages, fabric : Fabrics, key : Int, attempts : Nat]
        /\ storage'.fabric = storage.fabric /\ storage'.key \in {storage.key, CutKey}
        /\ storage' \in [fabric : Fabrics, key : Int]
    BY <1>t, <1>8 DEF WriteFails, Reaches, StartTypeOK, StartStages, CutKey
  <2>2. StartTypeOK' /\ KeyIsOwn' /\ FabricStays' /\ starts' > 0
    BY <1>t, <2>1 DEF StartTypeOK, KeyIsOwn, FabricIsKept, FabricStays, StageInv
  <2> QED
    BY <2>1, <2>2, NothingHeld
<1>9. CASE KillStart \/ StartEnded
  <2>1. /\ UNCHANGED <<storage, source, starts, before>> /\ running.at # "down"
        /\ running' = NotRunningYet /\ killed' \in {killed, killed + 1}
    BY <1>9 DEF KillStart, StartEnded
  <2>2. StartTypeOK' /\ KeyIsOwn' /\ FabricStays' /\ starts' > 0
    BY <1>t, <2>1, EmptyTypes DEF StartTypeOK, KeyIsOwn, FabricIsKept, FabricStays, StageInv
  <2> QED
    BY <2>1, <2>2, EmptyTypes, NothingHeld
<1>10. CASE UNCHANGED firstStartVars
    BY <1>t, <1>10
       DEF firstStartVars, StartInv, StartTypeOK, KeyIsOwn, StageInv, FabricIsKept,
           KeyGoesWithFabric, FailedStartLeavesNothing, AdoptedIsTheSources, FabricStays
<1> QED
    BY <1>1, <1>2, <1>3, <1>4, <1>5, <1>6, <1>7, <1>8, <1>9, <1>10 DEF FirstStartNext

\* Across any starts, imports, kills and failed writes the server runs the
\* fabric it made or adopted, with its own key (init_controller_with_import).
THEOREM FabricKept == FirstStartSpec => []FabricIsKept
<1>1. StartInv => FabricIsKept
    BY DEF StartInv
<1> QED
    BY <1>1, StartInit, StartStep, PTL DEF FirstStartSpec

-----------------------------------------------------------------------------
(* The answers.                                                            *)

CallRecords ==
    [op : OpKinds, step : {"queued", "taken", "open", "replied"},
     request : {"unsent", "sent", "acted"}, data : BOOLEAN, status : BOOLEAN,
     heard : BOOLEAN, chunks : Nat,
     result : {"none", "ok", "refused", "not_resolving", "not_ready", "sdk_error"}]

\* Types.
ActorTypeOK ==
    /\ caller \in [Callers -> [at : {"free", "sending", "waiting"}, call : Nat]]
    /\ calls \in Seq(CallRecords)
    /\ channel \in Seq(Nat)
    /\ taken \subseteq Nat
    /\ actorUp \in BOOLEAN
    /\ effects \subseteq Nat

\* What is so of the i-th call, a record v, when the device has acted on E.
CallInv(v, i, E) ==
    /\ v.step # "replied" => v.result = "none"
    /\ v.step \in {"queued", "taken"} => ~ v.heard
    /\ v.op \in Changing /\ v.request = "acted" /\ ~ v.status => i \in E
    /\ v.op \in Changing /\ v.result = "ok" => i \in E
    /\ v.op = "read" /\ v.result = "refused" => ~ v.data
    /\ v.heard => v.result # "not_resolving"

AnswerInv == \A i \in DOMAIN calls : CallInv(calls[i], i, effects)

\* A call that has not been taken is with its sender or once in the channel.
QueueInv ==
    /\ taken \subseteq DOMAIN calls
    /\ \A k \in DOMAIN channel :
          channel[k] \in DOMAIN calls /\ calls[channel[k]].step = "queued"
    /\ \A k, l \in DOMAIN channel : channel[k] = channel[l] => k = l
    /\ \A c \in Callers : caller[c].at = "sending" =>
          /\ caller[c].call \in DOMAIN calls /\ calls[caller[c].call].step = "queued"
          /\ \A k \in DOMAIN channel : channel[k] # caller[c].call
          /\ \A d \in Callers : caller[d].at = "sending" /\ caller[d].call = caller[c].call => d = c

ActorInv == ActorTypeOK /\ QueueInv /\ AnswerInv

LEMMA ActorBegins == ActorInit => ActorInv
<1> SUFFICES ASSUME ActorInit PROVE ActorInv
    OBVIOUS
<1>1. ActorTypeOK
    BY DEF ActorInit, ActorTypeOK, Free
<1>2. DOMAIN calls = {} /\ DOMAIN channel = {} /\ \A c \in Callers : caller[c].at = "free"
    BY DEF ActorInit, Free
<1> QED
    BY <1>1, <1>2 DEF ActorInit, ActorInv, QueueInv, AnswerInv

\* One call changes that is not queued, or it keeps its step: every call
\* stays where it is, and the rest of the calls as they are.
LEMMA CallChanges ==
    ASSUME ActorInv, NEW i \in DOMAIN calls, NEW v \in CallRecords,
           calls' = [calls EXCEPT ![i] = v],
           calls[i].step # "queued" \/ v.step = calls[i].step,
           taken' \in {taken, taken \ {i}}, UNCHANGED <<caller, channel, actorUp>>,
           effects' \in {effects, effects \cup {i}},
           CallInv(v, i, effects')
    PROVE  ActorInv'
<1>1. /\ DOMAIN calls' = DOMAIN calls /\ calls' \in Seq(CallRecords)
      /\ calls'[i] = v /\ \A j \in DOMAIN calls : j # i => calls'[j] = calls[j]
      /\ i \in Nat
    BY DEF ActorInv, ActorTypeOK
<1>2. ActorTypeOK'
    BY <1>1 DEF ActorInv, ActorTypeOK
<1>3. \A j \in DOMAIN calls : calls[j].step = "queued" => calls'[j].step = "queued"
    BY <1>1
<1>4. QueueInv'
    BY <1>1, <1>3 DEF ActorInv, QueueInv
<1>5. AnswerInv'
    BY <1>1 DEF ActorInv, AnswerInv, CallInv
<1> QED
    BY <1>2, <1>4, <1>5 DEF ActorInv

\* A caller that does not start to send holds no call back.
LEMMA CallerRests ==
    ASSUME ActorInv, NEW c \in Callers, NEW b \in [at : {"free", "waiting"}, call : Nat],
           caller' = [caller EXCEPT ![c] = b], UNCHANGED <<calls, channel, taken, actorUp, effects>>
    PROVE  ActorInv'
<1>1. /\ caller'[c] = b /\ b.at # "sending"
      /\ \A d \in Callers : d # c => caller'[d] = caller[d]
      /\ ActorTypeOK'
    BY DEF ActorInv, ActorTypeOK
<1>2. QueueInv'
    BY <1>1 DEF ActorInv, QueueInv
<1> QED
    BY <1>1, <1>2 DEF ActorInv, AnswerInv

\* A call that is made is new.
LEMMA CallKept ==
    ASSUME ActorInv, NEW c \in Callers, NEW op \in Ops, Call(c, op) PROVE ActorInv'
<1> DEFINE new == [op |-> op, step |-> "queued", request |-> "unsent", data |-> FALSE,
                   status |-> FALSE, heard |-> FALSE, chunks |-> 0, result |-> "none"]
<1>1. /\ calls' = Append(calls, new)
      /\ caller' = [caller EXCEPT ![c] = [at |-> "sending", call |-> Len(calls) + 1]]
      /\ UNCHANGED <<channel, taken, actorUp, effects>>
    BY DEF Call
<1>2. new \in CallRecords
    BY ActorAssumption DEF CallRecords
<1>3. calls \in Seq(CallRecords) /\ Len(calls) \in Nat /\ DOMAIN calls = 1 .. Len(calls)
    BY DEF ActorInv, ActorTypeOK
<1>4. /\ calls' \in Seq(CallRecords) /\ DOMAIN calls' = 1 .. Len(calls) + 1
      /\ calls'[Len(calls) + 1] = new
      /\ \A j \in DOMAIN calls : calls'[j] = calls[j]
    BY <1>1, <1>2, <1>3
<1>5. /\ DOMAIN calls' = DOMAIN calls \cup {Len(calls) + 1} /\ Len(calls) + 1 \notin DOMAIN calls
    BY <1>3, <1>4
<1> HIDE DEF new
<1>6. /\ caller'[c].at = "sending" /\ caller'[c].call = Len(calls) + 1
      /\ \A d \in Callers : d # c => caller'[d] = caller[d]
    BY <1>1 DEF ActorInv, ActorTypeOK
<1>7. ActorTypeOK'
    BY <1>1, <1>3, <1>4 DEF ActorInv, ActorTypeOK
<1>8. new.step = "queued"
    BY DEF new
<1>9. QueueInv'
    BY <1>1, <1>4, <1>5, <1>6, <1>8 DEF ActorInv, QueueInv
<1>10. CallInv(new, Len(calls) + 1, effects)
    BY DEF new, CallInv
<1>11. AnswerInv'
    BY <1>1, <1>4, <1>5, <1>10 DEF ActorInv, AnswerInv
<1> QED
    BY <1>7, <1>9, <1>11 DEF ActorInv

\* A request goes from its sender to the end of the channel.
LEMMA SendKept ==
    ASSUME ActorInv, NEW c \in Callers, Send(c) PROVE ActorInv'
<1>1. /\ channel' = Append(channel, caller[c].call) /\ caller[c].at = "sending"
      /\ caller' = [caller EXCEPT ![c].at = "waiting"]
      /\ UNCHANGED <<calls, taken, actorUp, effects>>
    BY DEF Send
<1>2. /\ channel \in Seq(Nat) /\ Len(channel) \in Nat /\ DOMAIN channel = 1 .. Len(channel)
      /\ caller[c].call \in Nat
    BY DEF ActorInv, ActorTypeOK
<1>3. /\ channel' \in Seq(Nat) /\ DOMAIN channel' = 1 .. Len(channel) + 1
      /\ channel'[Len(channel) + 1] = caller[c].call
      /\ \A k \in DOMAIN channel : channel'[k] = channel[k]
    BY <1>1, <1>2
<1>4. DOMAIN channel' = DOMAIN channel \cup {Len(channel) + 1}
    BY <1>2, <1>3
<1>5. /\ caller'[c].at = "waiting"
      /\ \A d \in Callers : d # c => caller'[d] = caller[d]
    BY <1>1 DEF ActorInv, ActorTypeOK
<1>6. ActorTypeOK'
    BY <1>1, <1>3 DEF ActorInv, ActorTypeOK
<1>7. QueueInv'
  <2>1. \A k, l \in DOMAIN channel' : channel'[k] = channel'[l] => k = l
    BY <1>1, <1>3, <1>4 DEF ActorInv, QueueInv
  <2> QED
    BY <1>1, <1>3, <1>4, <1>5, <2>1 DEF ActorInv, QueueInv
<1> QED
    BY <1>1, <1>6, <1>7 DEF ActorInv, AnswerInv

\* The first request in the channel is taken.
LEMMA TakeKept ==
    ASSUME ActorInv, Take PROVE ActorInv'
<1> DEFINE h == Head(channel)
<1>1. /\ channel # <<>> /\ taken' = taken \cup {h} /\ channel' = Tail(channel)
      /\ calls' = [calls EXCEPT ![h].step = "taken"]
      /\ UNCHANGED <<caller, actorUp, effects>>
    BY DEF Take, MayTake
<1>2. channel \in Seq(Nat) /\ Len(channel) \in Nat \ {0} /\ DOMAIN channel = 1 .. Len(channel)
    BY <1>1 DEF ActorInv, ActorTypeOK
<1>3. /\ 1 \in DOMAIN channel /\ h = channel[1]
      /\ channel' \in Seq(Nat) /\ DOMAIN channel' = 1 .. Len(channel) - 1
      /\ \A k \in DOMAIN channel' : k + 1 \in DOMAIN channel /\ channel'[k] = channel[k + 1]
    BY <1>1, <1>2
<1>4. h \in DOMAIN calls /\ calls[h].step = "queued" /\ h \in Nat
    BY <1>2, <1>3 DEF ActorInv, QueueInv
<1> HIDE DEF h
<1>5. calls \in Seq(CallRecords) /\ calls[h] \in CallRecords
    BY <1>4 DEF ActorInv, ActorTypeOK
<1>6. /\ DOMAIN calls' = DOMAIN calls
      /\ calls'[h] = [calls[h] EXCEPT !.step = "taken"]
      /\ \A j \in DOMAIN calls : j # h => calls'[j] = calls[j]
    BY <1>1, <1>4, <1>5
<1>7. /\ calls'[h] \in CallRecords
      /\ calls'[h].op = calls[h].op /\ calls'[h].step = "taken"
      /\ calls'[h].request = calls[h].request /\ calls'[h].data = calls[h].data
      /\ calls'[h].status = calls[h].status /\ calls'[h].heard = calls[h].heard
      /\ calls'[h].result = calls[h].result
    BY <1>5, <1>6 DEF CallRecords
<1>8. calls' \in Seq(CallRecords)
    BY <1>1, <1>4, <1>5, <1>6, <1>7
<1>9. ActorTypeOK'
    BY <1>1, <1>3, <1>4, <1>8 DEF ActorInv, ActorTypeOK
<1>10. \A k \in DOMAIN channel' : channel'[k] # h
  <2> SUFFICES ASSUME NEW k \in DOMAIN channel' PROVE channel'[k] # h
    OBVIOUS
  <2>1. k + 1 # 1 /\ k + 1 \in DOMAIN channel
    BY <1>2, <1>3
  <2> QED
    BY <1>3, <2>1 DEF ActorInv, QueueInv
<1>11. \A k, l \in DOMAIN channel' : channel'[k] = channel'[l] => k = l
  <2> SUFFICES ASSUME NEW k \in DOMAIN channel', NEW l \in DOMAIN channel',
                      channel'[k] = channel'[l]
               PROVE  k = l
    OBVIOUS
  <2>1. k + 1 = l + 1
    BY <1>3 DEF ActorInv, QueueInv
  <2> QED
    BY <1>3, <2>1
<1>12. \A c \in Callers : caller[c].at = "sending" => caller[c].call # h
    BY <1>3 DEF ActorInv, QueueInv
<1>13. QueueInv'
    BY <1>1, <1>3, <1>4, <1>6, <1>10, <1>11, <1>12 DEF ActorInv, QueueInv
<1>14. CallInv(calls'[h], h, effects)
    BY <1>4, <1>7 DEF ActorInv, AnswerInv, CallInv
<1>15. AnswerInv'
    BY <1>1, <1>6, <1>14 DEF ActorInv, AnswerInv
<1> QED
    BY <1>9, <1>13, <1>15 DEF ActorInv

\* A call that is taken.
LEMMA TakenCall ==
    ASSUME ActorInv, NEW i \in taken
    PROVE  i \in DOMAIN calls /\ calls[i] \in CallRecords /\ CallInv(calls[i], i, effects)
<1>1. i \in DOMAIN calls
    BY DEF ActorInv, QueueInv
<1> QED
    BY <1>1 DEF ActorInv, ActorTypeOK, AnswerInv

\* A reply that is given for a call under way, and does not say more than is so.
LEMMA ReplyKept ==
    ASSUME ActorInv, NEW i \in taken, NEW v \in CallRecords, Reply(i, v), UNCHANGED effects,
           calls[i].step # "queued",
           CallInv([v EXCEPT !.step = "replied"], i, effects)
    PROVE  ActorInv'
<1> DEFINE w == [v EXCEPT !.step = "replied"]
<1>1. w \in CallRecords
    BY DEF CallRecords
<1>2. i \in DOMAIN calls
    BY DEF ActorInv, QueueInv
<1>3. /\ calls' = [calls EXCEPT ![i] = w] /\ taken' = taken \ {i}
      /\ UNCHANGED <<caller, channel, actorUp>>
    BY DEF Reply
<1> HIDE DEF w
<1>4. CallInv(w, i, effects')
    BY DEF w
<1> QED
    BY <1>1, <1>2, <1>3, <1>4, CallChanges

\* The same of a reply that only gives the result.
LEMMA ResultKept ==
    ASSUME ActorInv, NEW i \in taken,
           NEW r \in {"ok", "not_resolving", "not_ready", "sdk_error"}, Replies(i, r),
           calls[i].step \in {"taken", "open"},
           calls[i].op \in Changing => r # "ok", calls[i].heard => r # "not_resolving"
    PROVE  ActorInv'
<1>1. i \in DOMAIN calls /\ calls[i] \in CallRecords /\ CallInv(calls[i], i, effects)
    BY TakenCall
<1> DEFINE v == [calls[i] EXCEPT !.result = r]
<1>2. /\ v \in CallRecords
      /\ v.op = calls[i].op /\ v.request = calls[i].request /\ v.status = calls[i].status
      /\ v.heard = calls[i].heard /\ v.result = r
    BY <1>1 DEF CallRecords
<1>3. Reply(i, v) /\ UNCHANGED effects
    BY DEF Replies
<1> HIDE DEF v
<1> DEFINE w == [v EXCEPT !.step = "replied"]
<1>4. /\ w.op = v.op /\ w.request = v.request /\ w.status = v.status
      /\ w.heard = v.heard /\ w.result = v.result /\ w.step = "replied"
    BY <1>2 DEF CallRecords
<1> HIDE DEF w
<1>5. CallInv(w, i, effects)
    BY <1>1, <1>2, <1>4 DEF CallInv
<1> QED
    BY <1>2, <1>3, <1>5, ReplyKept DEF w

\* Opening an exchange, or failing to.
LEMMA OpenKept ==
    ASSUME ActorInv, NEW i \in taken, RunLocal(i) \/ OpenExchange(i) \/ OpenFails(i) \/ ExchangeFails(i)
    PROVE  ActorInv'
<1>1. i \in DOMAIN calls /\ calls[i] \in CallRecords /\ CallInv(calls[i], i, effects)
    BY TakenCall
<1>2. CASE RunLocal(i)
  <2>1. PICK r \in {"ok", "sdk_error"} : Replies(i, r)
    BY <1>2 DEF RunLocal
  <2>2. calls[i].step = "taken" /\ calls[i].op = "local"
    BY <1>2 DEF RunLocal
  <2> QED
    BY <2>1, <2>2, ResultKept DEF Changing
<1>3. CASE OpenExchange(i)
  <2> DEFINE v == [calls[i] EXCEPT !.step = "open", !.request = "sent"]
  <2>1. /\ v \in CallRecords
        /\ v.op = calls[i].op /\ v.step = "open" /\ v.request = "sent"
        /\ v.data = calls[i].data /\ v.heard = calls[i].heard /\ v.result = calls[i].result
    BY <1>1 DEF CallRecords
  <2>2. /\ calls' = [calls EXCEPT ![i] = v] /\ calls[i].step = "taken"
        /\ UNCHANGED <<caller, channel, taken, actorUp, effects>>
    BY <1>3 DEF OpenExchange, Continues
  <2> HIDE DEF v
  <2>3. CallInv(v, i, effects)
    BY <1>1, <2>1, <2>2 DEF CallInv
  <2> QED
    BY <1>1, <2>1, <2>2, <2>3, CallChanges
<1>4. CASE OpenFails(i)
  <2>1. PICK why \in {"not_resolving", "not_ready", "sdk_error"} : Replies(i, why)
    BY <1>4 DEF OpenFails
  <2>2. calls[i].step = "taken" /\ ~ calls[i].heard
    BY <1>1, <1>4 DEF OpenFails, CallInv
  <2> QED
    BY <2>1, <2>2, ResultKept
<1>5. CASE ExchangeFails(i)
  <2>1. PICK why \in FailureOf(i) : Replies(i, why)
    BY <1>5 DEF ExchangeFails
  <2>2. /\ why \in {"not_resolving", "not_ready", "sdk_error"}
        /\ calls[i].heard => why # "not_resolving"
    BY <1>1 DEF FailureOf
  <2>3. calls[i].step = "open"
    BY <1>5 DEF ExchangeFails
  <2> QED
    BY <2>1, <2>2, <2>3, ResultKept
<1> QED
    BY <1>2, <1>3, <1>4, <1>5

\* The device acts, whether anybody waits or not.
LEMMA ActsKept ==
    ASSUME ActorInv, NEW i \in DOMAIN calls, DeviceActs(i) PROVE ActorInv'
<1>1. calls[i] \in CallRecords /\ CallInv(calls[i], i, effects)
    BY DEF ActorInv, ActorTypeOK, AnswerInv
<1>2. PICK refuses \in BOOLEAN :
          /\ Continues(i, [calls[i] EXCEPT !.request = "acted", !.status = refuses])
          /\ effects' = IF calls[i].op \in Changing /\ ~ refuses THEN effects \cup {i}
                        ELSE effects
    BY DEF DeviceActs
<1> DEFINE v == [calls[i] EXCEPT !.request = "acted", !.status = refuses]
<1>3. /\ v \in CallRecords
      /\ v.op = calls[i].op /\ v.step = calls[i].step /\ v.status = refuses
      /\ v.data = calls[i].data /\ v.heard = calls[i].heard /\ v.result = calls[i].result
    BY <1>1 DEF CallRecords
<1>4. /\ calls' = [calls EXCEPT ![i] = v]
      /\ UNCHANGED <<caller, channel, taken, actorUp>>
    BY <1>2 DEF Continues
<1> HIDE DEF v
<1>5. CallInv(v, i, effects')
    BY <1>1, <1>2, <1>3 DEF CallInv
<1> QED
    BY <1>2, <1>3, <1>4, <1>5, CallChanges

\* A chunk of an answer, and the result of the last one.
LEMMA ChunkKept ==
    ASSUME ActorInv, NEW i \in taken, NEW data \in BOOLEAN, NEW status \in BOOLEAN,
           NEW more \in BOOLEAN, Chunk(i, data, status, more)
    PROVE  ActorInv'
<1>1. i \in DOMAIN calls /\ calls[i] \in CallRecords /\ CallInv(calls[i], i, effects)
    BY TakenCall
<1> DEFINE v == [calls[i] EXCEPT !.heard = TRUE, !.chunks = @ + 1,
                                 !.data = @ \/ data, !.status = @ \/ status]
<1>2. calls[i].chunks + 1 \in Nat
    BY <1>1 DEF CallRecords
<1>3. /\ v \in CallRecords
      /\ v.op = calls[i].op /\ v.step = calls[i].step /\ v.request = calls[i].request
      /\ v.data = (calls[i].data \/ data) /\ v.status = (calls[i].status \/ status)
      /\ v.heard = TRUE /\ v.result = calls[i].result
  <2> DEFINE D == calls[i].data \/ data
             S == calls[i].status \/ status
  <2>1. D \in BOOLEAN /\ S \in BOOLEAN
    OBVIOUS
  <2>2. v = [calls[i] EXCEPT !.heard = TRUE, !.chunks = calls[i].chunks + 1, !.data = D,
                             !.status = S]
    OBVIOUS
  <2>3. D = (calls[i].data \/ data) /\ S = (calls[i].status \/ status)
    OBVIOUS
  <2> HIDE DEF v, D, S
  <2>4. /\ v \in CallRecords
        /\ v.op = calls[i].op /\ v.step = calls[i].step /\ v.request = calls[i].request
        /\ v.data = D /\ v.status = S /\ v.heard = TRUE /\ v.result = calls[i].result
    BY <1>1, <1>2, <2>1, <2>2 DEF CallRecords
  <2> QED
    BY <2>3, <2>4, Zenon
<1>4. /\ calls[i].step = "open" /\ calls[i].request = "acted" /\ UNCHANGED effects
      /\ calls[i].op \in Changing => ~ data /\ ~ status
      /\ IF more THEN Continues(i, v) ELSE Reply(i, [v EXCEPT !.result = Outcome(v)])
    BY DEF Chunk, HasAnswer
<1> HIDE DEF v
<1>5. CallInv(v, i, effects)
    BY <1>1, <1>3, <1>4 DEF CallInv
<1>6. CASE more
  <2>1. /\ calls' = [calls EXCEPT ![i] = v] /\ UNCHANGED <<caller, channel, taken, actorUp>>
    BY <1>4, <1>6 DEF Continues
  <2> QED
    BY <1>1, <1>3, <1>4, <1>5, <2>1, CallChanges
<1>7. CASE ~ more
  <2> DEFINE u == [v EXCEPT !.result = Outcome(v)]
  <2>1. Outcome(v) \in {"refused", "ok"}
    BY DEF Outcome
  <2>2. /\ u \in CallRecords /\ u.op = v.op /\ u.request = v.request /\ u.data = v.data
        /\ u.status = v.status /\ u.heard = v.heard /\ u.result = Outcome(v)
    BY <1>3, <2>1 DEF CallRecords
  <2>3. Reply(i, u)
    BY <1>4, <1>7
  <2> HIDE DEF u
  <2> DEFINE w == [u EXCEPT !.step = "replied"]
  <2>4. /\ w.op = v.op /\ w.request = v.request /\ w.data = v.data
        /\ w.status = v.status /\ w.heard = v.heard /\ w.result = Outcome(v)
        /\ w.step = "replied"
    BY <2>2 DEF CallRecords
  <2> HIDE DEF w
  <2>5. /\ v.op \in Changing /\ Outcome(v) = "ok" => ~ v.status
        /\ v.op = "read" /\ Outcome(v) = "refused" => ~ v.data
    BY DEF Outcome, ReadFailed, Changing
  <2>6. CallInv(w, i, effects)
    BY <1>3, <1>4, <1>5, <2>1, <2>4, <2>5 DEF CallInv
  <2> QED
    BY <1>4, <2>2, <2>3, <2>6, ReplyKept DEF w
<1> QED
    BY <1>6, <1>7

\* Every step keeps the invariant.
LEMMA ActorStep == ActorInv /\ [ActorNext]_actorVars => ActorInv'
<1> SUFFICES ASSUME ActorInv, [ActorNext]_actorVars PROVE ActorInv'
    OBVIOUS
<1>1. ASSUME NEW c \in Callers, SendFails(c) \/ Receive(c) \/ Expire(c) PROVE ActorInv'
    BY <1>1, CallerRests DEF SendFails, Receive, Expire, Free
<1>2. CASE ActorStops
  <2>1. UNCHANGED <<caller, calls, effects>> /\ channel' = <<>> /\ taken' = {} /\ actorUp' = FALSE
    BY <1>2 DEF ActorStops
  <2>2. channel' \in Seq(Nat) /\ DOMAIN channel' = {}
    BY <2>1
  <2>3. ActorTypeOK'
    BY <2>1, <2>2 DEF ActorInv, ActorTypeOK
  <2> QED
    BY <2>1, <2>2, <2>3 DEF ActorInv, QueueInv, AnswerInv
<1>3. CASE UNCHANGED actorVars
    BY <1>3 DEF actorVars, ActorInv, ActorTypeOK, QueueInv, AnswerInv
<1>4. CASE ActorRuns
    BY <1>4, TakeKept, OpenKept, ChunkKept DEF ActorRuns
<1>5. ASSUME NEW c \in Callers, (\E op \in Ops : Call(c, op)) \/ CallProceeds(c) PROVE ActorInv'
    BY <1>1, <1>5, CallKept, SendKept DEF CallProceeds
<1> QED
    BY <1>2, <1>3, <1>4, <1>5, ActsKept DEF ActorNext

\* A change that is reported as done was done, a path that cannot be read
\* hides no other, and a node that was heard is not reported as silent,
\* however requests, time-outs and chunks interleave.
THEOREM AnswersTrue == ActorSpec => []AnswersAreTrue
<1>1. ActorInv => AnswersAreTrue
    BY DEF ActorInv, AnswerInv, CallInv, AnswersAreTrue, SuccessMeansDone, PartialReadsSucceed,
           HeardNodesResolve
<1> QED
    BY <1>1, ActorBegins, ActorStep, PTL DEF ActorSpec

-----------------------------------------------------------------------------
(* Reading an installation of the other server.                            *)

LogLines == CommitLines \cup NoLines
Contents == [Cells -> Nat]

ImportTypeOK ==
    /\ wal \in Seq(Seq(LogLines)) /\ kept \in 1 .. Len(wal)
    /\ copies \in Seq(Stages) /\ Len(copies) = Len(wal)
    /\ snapshot \in [there : BOOLEAN, holds : Contents, upTo : Nat \X Nat]
    /\ truth \in Contents
    /\ install \in Installs

\* What a line does to a cell.
Touches(line, c) ==
    \/ line.op \in {"upd", "del_key"} /\ c = <<line.path, line.key>>
    \/ line.op = "del_tree" /\ IsPrefix(line.path, c[1])
Sets(line) == IF line.op = "upd" THEN line.value ELSE 0

\* The last line in the log that changes a cell.
TouchedLast(c, n, i) ==
    /\ Touches(wal[n][i], c)
    /\ \A j \in i + 1 .. Len(wal[n]) : ~ Touches(wal[n][j], c)
    /\ \A k \in n + 1 .. Len(wal) : \A j \in 1 .. Len(wal[k]) : ~ Touches(wal[k][j], c)

\* What was committed to a cell is what the last line there, covered or not,
\* has made of it; a replay on what a snapshot holds of a later time, as of one
\* that does not say what it covers, does not change it back.
LastInv ==
    \A c \in Cells : \A n \in kept .. Len(wal) : \A i \in 1 .. Len(wal[n]) :
        TouchedLast(c, n, i) => Sets(wal[n][i]) = truth[c]

\* What no line past the snapshot changes is in the snapshot.
BaseInv ==
    \A c \in Cells :
        (\A n \in kept .. Len(wal) : \A i \in 1 .. Len(wal[n]) :
            Covered(n, i) \/ ~ Touches(wal[n][i], c)) => snapshot.holds[c] = truth[c]

\* A snapshot covers no line that is still to be written.
UpToInv ==
    \/ snapshot.upTo = NoCommit
    \/ snapshot.upTo[1] \in 1 .. Len(wal) /\ snapshot.upTo[2] <= Len(wal[snapshot.upTo[1]])

ImportInv == ImportTypeOK /\ LastInv /\ BaseInv /\ UpToInv

LEMMA LineFields ==
    ASSUME NEW line \in LogLines
    PROVE  /\ line.op \in {"upd", "del_key", "del_tree", "blank", "torn", "cut_inside"}
           /\ Sets(line) \in Nat
           /\ line \in NoLines => \A c : ~ Touches(line, c)
<1>1. /\ line \in CommitLines =>
            /\ line.op \in {"upd", "del_key", "del_tree"} /\ line.value \in {0, 1, 2}
            /\ line.op = "upd" => line.value \in {1, 2}
  <2>1. line \in [op : {"upd"}, path : ContextPaths, key : ContextKeys, value : {1, 2}] =>
            line.op = "upd" /\ line.value \in {1, 2}
    OBVIOUS
  <2>2. line \in [op : {"del_key"}, path : ContextPaths, key : ContextKeys, value : {0}] =>
            line.op = "del_key" /\ line.value = 0
    OBVIOUS
  <2>3. line \in [op : {"del_tree"}, path : ContextPaths \cup {<<>>}, key : {""}, value : {0}] =>
            line.op = "del_tree" /\ line.value = 0
    OBVIOUS
  <2> QED
    BY <2>1, <2>2, <2>3 DEF CommitLines
<1>2. Blank.op = "blank" /\ Torn.op = "torn" /\ CutInside.op = "cut_inside"
    BY DEF Blank, Torn, CutInside, NoLine
<1>3. line.op \in {"upd", "del_key", "del_tree", "blank", "torn", "cut_inside"} /\ Sets(line) \in Nat
    BY <1>1, <1>2 DEF LogLines, NoLines, Sets
<1>4. ASSUME line \in NoLines, NEW c PROVE ~ Touches(line, c)
  <2>1. line.op \in {"blank", "torn", "cut_inside"}
    BY <1>2, <1>4 DEF NoLines
  <2> QED
    BY <2>1 DEF Touches
<1> QED
    BY <1>3, <1>4

\* A line that is read changes what it touches.
LEMMA ApplyIs ==
    ASSUME NEW holds \in Contents, NEW line \in LogLines
    PROVE  /\ ApplyCommit(holds, line) \in Contents
           /\ \A c \in Cells :
                 ApplyCommit(holds, line)[c] = IF Touches(line, c) THEN Sets(line) ELSE holds[c]
<1>1. PICK h : h = ApplyCommit(holds, line)
    OBVIOUS
<1>2. /\ DOMAIN h = Cells
      /\ h = [c \in Cells |-> h[c]]
      /\ \A c \in Cells : h[c] = IF line.op = "upd" /\ c = <<line.path, line.key>> THEN line.value
                         ELSE IF \/ line.op = "del_key" /\ c = <<line.path, line.key>>
                                 \/ line.op = "del_tree" /\ IsPrefix(line.path, c[1])
                              THEN 0 ELSE holds[c]
    BY <1>1 DEF ApplyCommit
<1>3. ASSUME NEW c \in Cells
      PROVE  h[c] = IF Touches(line, c) THEN Sets(line) ELSE holds[c]
  <2>1. line.op \in {"upd", "del_key", "del_tree", "blank", "torn", "cut_inside"}
    BY LineFields
  <2> QED
    BY <1>2, <2>1 DEF Touches, Sets
<1>4. \A c \in Cells : h[c] \in Nat
    BY <1>3, LineFields DEF Contents
<1>5. h \in Contents
    BY <1>2, <1>4 DEF Contents
<1> QED
    BY <1>1, <1>3, <1>5

LEMMA UpToIs ==
    ASSUME ImportTypeOK
    PROVE  \E a, b \in Nat : snapshot.upTo = <<a, b>>
<1>1. snapshot.upTo \in Nat \X Nat
    BY DEF ImportTypeOK
<1> QED
    BY <1>1

\* The lines that a snapshot covers are the first ones.
LEMMA CoveredFirst ==
    ASSUME ImportTypeOK, NEW n \in Nat, NEW i \in Nat, ~ Covered(n, i)
    PROVE  /\ \A j \in Nat : j > i => ~ Covered(n, j)
           /\ \A k \in Nat : \A j \in Nat : k > n => ~ Covered(k, j)
<1>1. PICK a \in Nat, b \in Nat : snapshot.upTo = <<a, b>>
    BY UpToIs
<1>2. \A k, j \in Nat : Covered(k, j) <=> k < a \/ (k = a /\ j <= b)
    BY <1>1 DEF Covered, AtOrBefore, Place
<1> QED
    BY <1>2

\* What a segment makes of a cell.
SegmentMakes(c, n, i, was, is) ==
    \/ /\ is = was
       /\ \A j \in 1 .. i : Covered(n, j) \/ ~ Touches(wal[n][j], c)
    \/ \E j \in 1 .. i : /\ ~ Covered(n, j) /\ Touches(wal[n][j], c) /\ is = Sets(wal[n][j])
                         /\ \A k \in j + 1 .. i : ~ Touches(wal[n][k], c)

LEMMA SegmentIsReplayed ==
    ASSUME ImportTypeOK, NEW n \in 1 .. Len(wal), NEW holds \in Contents,
           Emptied(n) => Covered(n, Len(wal[n]))
    PROVE  /\ ReplaySegment(holds, n) \in Contents
           /\ \A c \in Cells :
                 SegmentMakes(c, n, Len(wal[n]), holds[c], ReplaySegment(holds, n)[c])
<1>1. PICK m \in Nat : m = Len(wal[n])
    BY DEF ImportTypeOK
<1>2. \A i \in 1 .. m : wal[n][i] \in LogLines
    BY <1>1 DEF ImportTypeOK
<1> DEFINE Turn(h, i) == IF Covered(n, i) THEN h ELSE ApplyCommit(h, wal[n][i])
           Loop(f) == f = [i \in 0 .. m |-> IF i = 0 THEN holds ELSE Turn(f[i - 1], i)]
<1>3. \A h \in Contents : \A i \in 1 .. m : Turn(h, i) \in Contents
    BY <1>2, ApplyIs
<1>4. PICK op : op = [i \in 1 .. m |-> [h \in Contents |-> Turn(h, i)]]
    OBVIOUS
<1>5. op \in [1 .. m -> [Contents -> Contents]]
  <2> HIDE DEF Turn
  <2> QED
    BY <1>3, <1>4
<1>6. \E f : Computes(f, Contents, holds, op, m)
    BY <1>5, LoopIsThere
<1>7. ASSUME NEW f, Computes(f, Contents, holds, op, m) PROVE Loop(f)
  <2> HIDE DEF Turn
  <2>1. f \in [0 .. m -> Contents] /\ f[0] = holds /\ \A i \in 1 .. m : f[i] = op[i][f[i - 1]]
    BY <1>7 DEF Computes
  <2>2. ASSUME NEW i \in 0 .. m PROVE f[i] = IF i = 0 THEN holds ELSE Turn(f[i - 1], i)
    <3>1. CASE i = 0
      BY <2>1, <3>1
    <3>2. CASE i # 0
      <4>1. i \in 1 .. m /\ i - 1 \in 0 .. m
        BY <3>2
      <4>2. f[i - 1] \in Contents
        BY <2>1, <4>1
      <4> QED
        BY <1>4, <2>1, <3>2, <4>1, <4>2
    <3> QED
      BY <3>1, <3>2
  <2> QED
    BY <2>1, <2>2
<1>8. PICK f : f = CHOOSE g : Loop(g)
    OBVIOUS
<1>9. Loop(f)
  <2> HIDE DEF Loop
  <2> QED
    BY <1>6, <1>7, <1>8
<1>10. ~ Emptied(n) => ReplaySegment(holds, n) = f[m]
    BY <1>1, <1>8 DEF ReplaySegment
<1>11. f[0] = holds /\ \A i \in 1 .. m : f[i] = Turn(f[i - 1], i)
  <2> HIDE DEF Turn
  <2>1. \A i \in 0 .. m : f[i] = IF i = 0 THEN holds ELSE Turn(f[i - 1], i)
    BY <1>9
  <2> QED
    BY <2>1
<1> HIDE DEF Loop
<1> DEFINE Good(i) == f[i] \in Contents /\ \A c \in Cells : SegmentMakes(c, n, i, holds[c], f[i][c])
           Bad == {i \in 0 .. m : ~ Good(i)}
<1>12. Good(0)
    BY <1>11 DEF SegmentMakes
<1>13. ASSUME NEW i \in 1 .. m, Good(i - 1) PROVE Good(i)
  <2>1. PICK h \in Contents : h = f[i - 1] /\ \A c \in Cells : SegmentMakes(c, n, i - 1, holds[c], h[c])
    BY <1>13
  <2>2. f[i] = Turn(h, i)
    BY <1>11, <2>1
  <2>3. f[i] \in Contents
    BY <1>3, <2>2
  <2>4. ASSUME NEW c \in Cells PROVE SegmentMakes(c, n, i, holds[c], f[i][c])
    <3>1. SegmentMakes(c, n, i - 1, holds[c], h[c])
      BY <2>1
    <3>2. CASE Covered(n, i)
      <4>1. \A j \in 1 .. i - 1 : Covered(n, j)
        <5>1. n \in Nat
          BY DEF ImportTypeOK
        <5>2. ASSUME NEW j \in 1 .. i - 1, ~ Covered(n, j) PROVE FALSE
          BY <3>2, <5>1, <5>2, CoveredFirst
        <5> QED
          BY <5>2
      <4>2. h[c] = holds[c]
        BY <3>1, <4>1 DEF SegmentMakes
      <4>3. \A j \in 1 .. i : Covered(n, j)
        BY <3>2, <4>1
      <4> QED
        BY <2>2, <3>2, <4>2, <4>3 DEF SegmentMakes
    <3>3. CASE ~ Covered(n, i)
      <4>1. f[i][c] = IF Touches(wal[n][i], c) THEN Sets(wal[n][i]) ELSE h[c]
        BY <1>2, <2>2, <3>3, ApplyIs
      <4>2. CASE Touches(wal[n][i], c)
        <5>1. i \in 1 .. i /\ \A k \in i + 1 .. i : ~ Touches(wal[n][k], c)
          OBVIOUS
        <5> QED
          BY <3>3, <4>1, <4>2, <5>1 DEF SegmentMakes
      <4>3. CASE ~ Touches(wal[n][i], c)
        <5>1. CASE \A j \in 1 .. i - 1 : Covered(n, j) \/ ~ Touches(wal[n][j], c)
          <6>1. h[c] = holds[c]
            BY <3>1, <5>1 DEF SegmentMakes
          <6>2. \A j \in 1 .. i : Covered(n, j) \/ ~ Touches(wal[n][j], c)
            BY <4>3, <5>1
          <6> QED
            BY <4>1, <4>3, <6>1, <6>2 DEF SegmentMakes
        <5>2. CASE ~ \A j \in 1 .. i - 1 : Covered(n, j) \/ ~ Touches(wal[n][j], c)
          <6>1. PICK j \in 1 .. i - 1 :
                    /\ ~ Covered(n, j) /\ Touches(wal[n][j], c) /\ h[c] = Sets(wal[n][j])
                    /\ \A k \in j + 1 .. i - 1 : ~ Touches(wal[n][k], c)
            BY <3>1, <5>2 DEF SegmentMakes
          <6>2. j \in 1 .. i /\ \A k \in j + 1 .. i : ~ Touches(wal[n][k], c)
            BY <4>3, <6>1
          <6> QED
            BY <4>1, <4>3, <6>1, <6>2 DEF SegmentMakes
        <5> QED
          BY <5>1, <5>2
      <4> QED
        BY <4>2, <4>3
    <3> QED
      BY <3>2, <3>3
  <2> QED
    BY <2>3, <2>4
<1>14. Bad = {}
  <2> HIDE DEF Good
  <2>1. SUFFICES ASSUME Bad # {} PROVE FALSE
    OBVIOUS
  <2>2. PICK i \in Bad : \A k \in Bad : i <= k
    <3>1. Bad \in SUBSET Nat
      OBVIOUS
    <3> HIDE DEF Bad
    <3> QED
      BY <2>1, <3>1, HasLeast
  <2>3. i \in 0 .. m /\ ~ Good(i) /\ i # 0
    BY <1>12
  <2>4. i \in 1 .. m /\ i - 1 \in 0 .. m /\ ~ (i <= i - 1)
    BY <2>3
  <2>5. Good(i - 1)
    BY <2>2, <2>4
  <2> QED
    BY <1>13, <2>3, <2>4, <2>5
<1>15. Good(m)
  <2> HIDE DEF Good
  <2>1. m \in 0 .. m
    OBVIOUS
  <2> QED
    BY <1>14, <2>1
<1>16. CASE Emptied(n)
  <2>1. n \in Nat /\ Covered(n, m)
    BY <1>1, <1>16 DEF ImportTypeOK
  <2>2. ASSUME NEW i \in 1 .. m, ~ Covered(n, i) PROVE FALSE
    <3>1. i \in Nat /\ (m > i \/ m = i)
      BY <2>2
    <3> QED
      BY <2>1, <2>2, <3>1, CoveredFirst
  <2>3. ReplaySegment(holds, n) = holds
    BY <1>16 DEF ReplaySegment
  <2>4. \A c \in Cells : SegmentMakes(c, n, m, holds[c], holds[c])
    BY <2>2 DEF SegmentMakes
  <2> QED
    BY <1>1, <2>3, <2>4
<1> QED
    BY <1>1, <1>10, <1>15, <1>16

\* What the segments up to one make of a cell.
LogMakes(c, n, was, is) ==
    \/ /\ is = was
       /\ \A k \in kept .. n : \A j \in 1 .. Len(wal[k]) : Covered(k, j) \/ ~ Touches(wal[k][j], c)
    \/ \E k \in kept .. n : \E j \in 1 .. Len(wal[k]) :
          /\ ~ Covered(k, j) /\ Touches(wal[k][j], c) /\ is = Sets(wal[k][j])
          /\ \A i \in j + 1 .. Len(wal[k]) : ~ Touches(wal[k][i], c)
          /\ \A l \in k + 1 .. n : \A i \in 1 .. Len(wal[l]) : ~ Touches(wal[l][i], c)

\* One segment more.
LEMMA LogGoesOn ==
    ASSUME ImportTypeOK, NEW c \in Cells, NEW n \in kept .. Len(wal), NEW was, NEW mid, NEW is,
           LogMakes(c, n - 1, was, mid), SegmentMakes(c, n, Len(wal[n]), mid, is)
    PROVE  LogMakes(c, n, was, is)
<1>1. kept \in Nat /\ n \in Nat /\ n \in kept .. n /\ \A k \in 1 .. Len(wal) : Len(wal[k]) \in Nat
    BY DEF ImportTypeOK
<1>2. kept \in 1 .. Len(wal)
    BY DEF ImportTypeOK
<1>3. CASE \E j \in 1 .. Len(wal[n]) :
              /\ ~ Covered(n, j) /\ Touches(wal[n][j], c) /\ is = Sets(wal[n][j])
              /\ \A k \in j + 1 .. Len(wal[n]) : ~ Touches(wal[n][k], c)
  <2>1. \A l \in n + 1 .. n : FALSE
    BY <1>1
  <2> QED
    BY <1>1, <1>3, <2>1 DEF LogMakes
<1>4. CASE /\ is = mid
           /\ \A j \in 1 .. Len(wal[n]) : Covered(n, j) \/ ~ Touches(wal[n][j], c)
  <2>1. CASE /\ mid = was
             /\ \A k \in kept .. n - 1 : \A j \in 1 .. Len(wal[k]) :
                    Covered(k, j) \/ ~ Touches(wal[k][j], c)
    <3>1. \A k \in kept .. n : k \in kept .. n - 1 \/ k = n
      BY <1>1
    <3> QED
      BY <1>4, <2>1, <3>1 DEF LogMakes
  <2>2. ASSUME NEW k \in kept .. n - 1, NEW j \in 1 .. Len(wal[k]),
               ~ Covered(k, j), Touches(wal[k][j], c), mid = Sets(wal[k][j]),
               \A i \in j + 1 .. Len(wal[k]) : ~ Touches(wal[k][i], c),
               \A l \in k + 1 .. n - 1 : \A i \in 1 .. Len(wal[l]) : ~ Touches(wal[l][i], c)
        PROVE  LogMakes(c, n, was, is)
    <3>1. k \in Nat /\ k \in kept .. n /\ j \in Nat /\ n > k
      BY <1>1, <1>2
    <3>2. ASSUME NEW i \in 1 .. Len(wal[n]) PROVE ~ Touches(wal[n][i], c)
      <4>1. ~ Covered(n, i)
        BY <1>1, <2>2, <3>1, CoveredFirst
      <4> QED
        BY <1>4, <4>1
    <3>3. \A l \in k + 1 .. n : l \in k + 1 .. n - 1 \/ l = n
      BY <1>1
    <3>4. \A l \in k + 1 .. n : \A i \in 1 .. Len(wal[l]) : ~ Touches(wal[l][i], c)
      BY <2>2, <3>2, <3>3
    <3> QED
      BY <1>4, <2>2, <3>1, <3>4 DEF LogMakes
  <2> QED
    BY <2>1, <2>2 DEF LogMakes
<1> QED
    BY <1>3, <1>4 DEF SegmentMakes

LEMMA LogIsReplayed ==
    ASSUME ImportTypeOK, ~ HiddenSegment
    PROVE  /\ ReadWal \in Contents
           /\ \A c \in Cells : LogMakes(c, Len(wal), snapshot.holds[c], ReadWal[c])
<1>1. PICK m \in Nat : m = Len(wal)
    BY DEF ImportTypeOK
<1>2. PICK holds \in Contents : holds = snapshot.holds
    BY DEF ImportTypeOK
<1>3. kept \in 1 .. m
    BY <1>1 DEF ImportTypeOK
<1>0. ASSUME NEW n \in 1 .. m, ~ (n < kept), Emptied(n) PROVE Covered(n, Len(wal[n]))
  <2>1. n \in kept .. Len(wal)
    BY <1>0, <1>1, <1>3
  <2> QED
    BY <1>0, <2>1 DEF HiddenSegment
<1> DEFINE Turn(h, n) == IF n < kept THEN h ELSE ReplaySegment(h, n)
           Loop(f) == f = [n \in 0 .. m |-> IF n = 0 THEN holds
                                            ELSE IF n < kept THEN f[n - 1]
                                            ELSE ReplaySegment(f[n - 1], n)]
<1>4. ASSUME NEW h \in Contents, NEW n \in 1 .. m PROVE Turn(h, n) \in Contents
  <2>1. CASE n < kept
    BY <2>1
  <2>2. CASE ~ (n < kept)
    <3>1. ReplaySegment(h, n) \in Contents
      BY <1>0, <1>1, <2>2, SegmentIsReplayed
    <3> QED
      BY <2>2, <3>1
  <2> QED
    BY <2>1, <2>2
<1>5. PICK op : op = [n \in 1 .. m |-> [h \in Contents |-> Turn(h, n)]]
    OBVIOUS
<1>6. op \in [1 .. m -> [Contents -> Contents]]
  <2> HIDE DEF Turn
  <2> QED
    BY <1>4, <1>5
<1>7. \E f : Computes(f, Contents, holds, op, m)
    BY <1>6, LoopIsThere
<1>8. ASSUME NEW f, Computes(f, Contents, holds, op, m) PROVE Loop(f)
  <2> DEFINE Step(n) == IF n = 0 THEN holds ELSE Turn(f[n - 1], n)
  <2> HIDE DEF Turn, Step
  <2>1. f \in [0 .. m -> Contents] /\ f[0] = holds /\ \A n \in 1 .. m : f[n] = op[n][f[n - 1]]
    BY <1>8 DEF Computes
  <2>2. ASSUME NEW n \in 0 .. m PROVE f[n] = Step(n)
    <3>1. CASE n = 0
      BY <2>1, <3>1 DEF Step
    <3>2. CASE n # 0
      <4>1. n \in 1 .. m /\ n - 1 \in 0 .. m
        BY <3>2
      <4>2. f[n - 1] \in Contents
        BY <2>1, <4>1
      <4> QED
        BY <1>5, <2>1, <3>2, <4>1, <4>2 DEF Step
    <3> QED
      BY <3>1, <3>2
  <2>3. f = [n \in 0 .. m |-> Step(n)]
    BY <2>1, <2>2
  <2> QED
    BY <2>3 DEF Step, Turn
<1>9. PICK f : f = CHOOSE g : Loop(g)
    OBVIOUS
<1>10. Loop(f)
  <2> HIDE DEF Loop
  <2> QED
    BY <1>7, <1>8, <1>9
<1>11. ReadWal = f[m]
    BY <1>1, <1>2, <1>9 DEF ReadWal
<1>12. f[0] = holds /\ \A n \in 1 .. m : f[n] = IF n < kept THEN f[n - 1] ELSE ReplaySegment(f[n - 1], n)
    BY <1>10
<1> HIDE DEF Loop, Turn
<1> DEFINE Good(n) == f[n] \in Contents /\ \A c \in Cells : LogMakes(c, n, holds[c], f[n][c])
           Bad == {n \in 0 .. m : ~ Good(n)}
<1>13. ASSUME NEW n \in 0 .. kept - 1, NEW c, NEW x PROVE LogMakes(c, n, x, x)
  <2>1. kept .. n = {}
    BY <1>3
  <2> QED
    BY <2>1 DEF LogMakes
<1>14. Good(0)
    BY <1>3, <1>12, <1>13
<1>15. ASSUME NEW n \in 1 .. m, Good(n - 1) PROVE Good(n)
  <2>1. PICK h \in Contents : h = f[n - 1] /\ \A c \in Cells : LogMakes(c, n - 1, holds[c], h[c])
    BY <1>15
  <2>2. CASE n < kept
    <3>1. kept .. n - 1 = {} /\ n \in 0 .. kept - 1 /\ f[n] = h
      BY <1>3, <1>12, <2>1, <2>2
    <3>2. \A c \in Cells : h[c] = holds[c]
      BY <2>1, <3>1 DEF LogMakes
    <3> QED
      BY <1>13, <3>1, <3>2
  <2>3. CASE ~ (n < kept)
    <3>1. n \in kept .. Len(wal) /\ n \in 1 .. Len(wal) /\ f[n] = ReplaySegment(h, n)
      BY <1>1, <1>3, <1>12, <2>1, <2>3
    <3>2. PICK g : g = ReplaySegment(h, n)
      OBVIOUS
    <3>3. g \in Contents /\ \A c \in Cells : SegmentMakes(c, n, Len(wal[n]), h[c], g[c])
      BY <1>0, <2>3, <3>1, <3>2, SegmentIsReplayed
    <3>4. \A c \in Cells : LogMakes(c, n, holds[c], g[c])
      BY <2>1, <3>1, <3>3, LogGoesOn
    <3> QED
      BY <3>1, <3>2, <3>3, <3>4
  <2> QED
    BY <2>2, <2>3
<1>16. Bad = {}
  <2> HIDE DEF Good
  <2>1. SUFFICES ASSUME Bad # {} PROVE FALSE
    OBVIOUS
  <2>2. PICK n \in Bad : \A k \in Bad : n <= k
    <3>1. Bad \in SUBSET Nat
      OBVIOUS
    <3> HIDE DEF Bad
    <3> QED
      BY <2>1, <3>1, HasLeast
  <2>3. n \in 0 .. m /\ ~ Good(n) /\ n # 0
    BY <1>14
  <2>4. n \in 1 .. m /\ n - 1 \in 0 .. m /\ ~ (n <= n - 1)
    BY <2>3
  <2>5. Good(n - 1)
    BY <2>2, <2>4
  <2> QED
    BY <1>15, <2>3, <2>4, <2>5
<1>17. Good(m)
  <2> HIDE DEF Good
  <2>1. m \in 0 .. m
    OBVIOUS
  <2> QED
    BY <1>16, <2>1
<1> QED
    BY <1>1, <1>2, <1>11, <1>17

\* What is read is what was committed.
LEMMA ReadsBack ==
    ASSUME ImportInv, ~ HiddenSegment
    PROVE  ReadWal = truth
<1>1. ImportTypeOK
    BY DEF ImportInv
<1>2. PICK r : r = ReadWal
    OBVIOUS
<1>3. r \in Contents /\ \A c \in Cells : LogMakes(c, Len(wal), snapshot.holds[c], r[c])
    BY <1>1, <1>2, LogIsReplayed
<1>4. ASSUME NEW c \in Cells PROVE r[c] = truth[c]
  <2>1. LogMakes(c, Len(wal), snapshot.holds[c], r[c])
    BY <1>3
  <2>2. CASE /\ r[c] = snapshot.holds[c]
             /\ \A k \in kept .. Len(wal) : \A j \in 1 .. Len(wal[k]) :
                    Covered(k, j) \/ ~ Touches(wal[k][j], c)
    BY <2>2 DEF ImportInv, BaseInv
  <2>3. ASSUME NEW k \in kept .. Len(wal), NEW j \in 1 .. Len(wal[k]),
               Touches(wal[k][j], c), r[c] = Sets(wal[k][j]),
               \A i \in j + 1 .. Len(wal[k]) : ~ Touches(wal[k][i], c),
               \A l \in k + 1 .. Len(wal) : \A i \in 1 .. Len(wal[l]) : ~ Touches(wal[l][i], c)
        PROVE  r[c] = truth[c]
    <3>1. TouchedLast(c, k, j)
      BY <2>3 DEF TouchedLast
    <3> QED
      BY <2>3, <3>1 DEF ImportInv, LastInv
  <2> QED
    BY <2>1, <2>2, <2>3 DEF LogMakes
<1>5. r = truth
    BY <1>1, <1>3, <1>4 DEF ImportTypeOK, Contents
<1> QED
    BY <1>2, <1>5

\* Only a log that a kill has cut short is refused.
LEMMA RefusedWhenCut ==
    ASSUME ImportInv
    PROVE  LogReadsBack
<1>1. ASSUME NothingCutShort, LogUnreadable PROVE FALSE
  <2>1. PICK n \in kept .. Len(wal) : SegmentFails(n)
    BY <1>1 DEF LogUnreadable
  <2>2. copies[n] \notin {"begun", "part"} /\ \A i \in 1 .. Len(wal[n]) : wal[n][i] \notin {Torn, CutInside}
    BY <1>1 DEF NothingCutShort
  <2> QED
    BY <2>1, <2>2 DEF SegmentFails
<1> QED
    BY <1>1, ReadsBack DEF LogReadsBack

LEMMA LogStarts ==
    ASSUME ImportInit
    PROVE  ImportInv
<1>1. PICK e : e = <<>>
    OBVIOUS
<1>2. e \in Seq(LogLines) /\ Len(e) = 0
    BY <1>1
<1>3. wal = <<e>> /\ copies = <<"plain">> /\ kept = 1 /\ snapshot = NoSnapshot /\ truth = Empty /\ install \in Installs
    BY <1>1 DEF ImportInit
<1>4. wal \in Seq(Seq(LogLines)) /\ Len(wal) = 1 /\ wal[1] = e
    BY <1>2, <1>3
<1>8. copies \in Seq(Stages) /\ Len(copies) = 1
    BY <1>3 DEF Stages
<1>5. Empty \in Contents
    BY DEF Empty, Contents
<1>6. /\ snapshot.there = FALSE /\ snapshot.holds = Empty /\ snapshot.upTo = NoCommit
      /\ snapshot \in [there : BOOLEAN, holds : Contents, upTo : Nat \X Nat]
  <2>1. NoCommit \in Nat \X Nat
    BY DEF NoCommit
  <2> QED
    BY <1>3, <1>5, <2>1 DEF NoSnapshot
<1>7. \A n \in kept .. Len(wal) : \A i \in 1 .. Len(wal[n]) : FALSE
    BY <1>2, <1>3, <1>4
<1> QED
    BY <1>3, <1>4, <1>5, <1>6, <1>7, <1>8 DEF ImportInv, ImportTypeOK, LastInv, BaseInv, UpToInv

\* The log with a line more.
LEMMA LineIsWritten ==
    ASSUME ImportTypeOK, NEW line \in LogLines, Writes(line)
    PROVE  /\ wal' \in Seq(Seq(LogLines)) /\ Len(wal') = Len(wal)
           /\ \A k \in 1 .. Len(wal) - 1 : wal'[k] = wal[k]
           /\ Len(wal'[Len(wal)]) = Len(wal[Len(wal)]) + 1
           /\ wal'[Len(wal)][Len(wal[Len(wal)]) + 1] = line
           /\ \A i \in 1 .. Len(wal[Len(wal)]) : wal'[Len(wal)][i] = wal[Len(wal)][i]
<1>1. PICK m \in Nat : m = Len(wal) /\ m >= 1
    BY DEF ImportTypeOK
<1>2. PICK s \in Seq(LogLines) : s = wal[m]
    BY <1>1 DEF ImportTypeOK
<1>3. PICK t : t = Append(s, line)
    OBVIOUS
<1>4. /\ t \in Seq(LogLines) /\ Len(t) = Len(s) + 1 /\ t[Len(s) + 1] = line
      /\ \A i \in 1 .. Len(s) : t[i] = s[i]
    BY <1>3
<1>5. wal' = [wal EXCEPT ![m] = t]
    BY <1>1, <1>2, <1>3 DEF Writes, LastSegment
<1>6. wal' \in Seq(Seq(LogLines)) /\ Len(wal') = m /\ wal'[m] = t /\ \A k \in 1 .. m - 1 : wal'[k] = wal[k]
    BY <1>1, <1>4, <1>5 DEF ImportTypeOK
<1> QED
    BY <1>1, <1>2, <1>4, <1>6

\* A line at the end of the log, which changes what was committed or nothing.
LEMMA WriteKeeps ==
    ASSUME ImportInv, NEW line \in LogLines, Writes(line), UNCHANGED <<copies, kept, snapshot, install>>,
           truth' \in Contents,
           \A c \in Cells : truth'[c] = IF Touches(line, c) THEN Sets(line) ELSE truth[c]
    PROVE  ImportInv'
<1>1. ImportTypeOK
    BY DEF ImportInv
<1>2. PICK m \in Nat : m = Len(wal) /\ m >= 1
    BY <1>1 DEF ImportTypeOK
<1>3. PICK s \in Seq(LogLines) : s = wal[m]
    BY <1>1, <1>2 DEF ImportTypeOK
<1>4. PICK l \in Nat : l = Len(s)
    OBVIOUS
<1>5. PICK t : t = wal'[m]
    OBVIOUS
<1>6. /\ wal' \in Seq(Seq(LogLines)) /\ Len(wal') = m
      /\ \A k \in 1 .. m - 1 : wal'[k] = wal[k]
      /\ Len(t) = l + 1 /\ t[l + 1] = line
      /\ \A i \in 1 .. l : t[i] = s[i]
    BY <1>1, <1>2, <1>3, <1>4, <1>5, LineIsWritten
<1>7. ImportTypeOK'
    BY <1>1, <1>2, <1>6 DEF ImportTypeOK
<1>8. kept \in 1 .. m
    BY <1>1, <1>2 DEF ImportTypeOK
<1>9. \A k, j : Covered(k, j)' <=> Covered(k, j)
    BY DEF Covered, Place
<1>10. LastInv'
  <2>1. SUFFICES ASSUME NEW c \in Cells, NEW n \in kept .. m, NEW i \in 1 .. Len(wal'[n]),
                        TouchedLast(c, n, i)'
                 PROVE  Sets(wal'[n][i]) = truth'[c]
    BY <1>6 DEF LastInv
  <2>2. /\ Touches(wal'[n][i], c)
        /\ \A j \in i + 1 .. Len(wal'[n]) : ~ Touches(wal'[n][j], c)
        /\ \A k \in n + 1 .. m : \A j \in 1 .. Len(wal'[k]) : ~ Touches(wal'[k][j], c)
    BY <1>6, <2>1 DEF TouchedLast
  <2>3. CASE n = m /\ i = l + 1
    BY <1>5, <1>6, <2>2, <2>3
  <2>4. CASE n = m /\ i # l + 1
    <3>1. i \in 1 .. l /\ l + 1 \in i + 1 .. Len(t)
      BY <1>5, <1>6, <2>4
    <3>2. ~ Touches(line, c)
      BY <1>5, <1>6, <2>2, <2>4, <3>1
    <3>3. Touches(s[i], c) /\ \A j \in i + 1 .. l : ~ Touches(s[j], c)
      <4>1. \A j \in i + 1 .. l : j \in i + 1 .. Len(t) /\ j \in 1 .. l
        BY <1>6, <3>1
      <4> QED
        BY <1>5, <1>6, <2>2, <2>4, <3>1, <4>1
    <3>4. \A k \in m + 1 .. m : FALSE
      OBVIOUS
    <3>5. TouchedLast(c, m, i)
      BY <1>2, <1>3, <1>4, <3>3, <3>4 DEF TouchedLast
    <3>6. Sets(s[i]) = truth[c]
      BY <1>2, <1>3, <1>4, <1>8, <3>1, <3>5 DEF ImportInv, LastInv
    <3> QED
      BY <1>5, <1>6, <2>4, <3>1, <3>2, <3>6
  <2>5. CASE n # m
    <3>1. n \in 1 .. m - 1 /\ m \in n + 1 .. m /\ wal'[n] = wal[n]
      BY <1>6, <1>8, <2>5
    <3>2. \A j \in 1 .. l + 1 : ~ Touches(t[j], c)
      BY <1>5, <1>6, <2>2, <3>1
    <3>3. ~ Touches(line, c) /\ \A j \in 1 .. l : ~ Touches(s[j], c)
      BY <1>6, <3>2
    <3>4. ASSUME NEW k \in n + 1 .. m, NEW j \in 1 .. Len(wal[k]) PROVE ~ Touches(wal[k][j], c)
      <4>1. CASE k = m
        BY <1>3, <1>4, <3>3, <3>4, <4>1
      <4>2. CASE k # m
        <5>1. k \in 1 .. m - 1 /\ wal'[k] = wal[k]
          BY <1>6, <3>1, <4>2
        <5> QED
          BY <2>2, <3>4, <5>1
      <4> QED
        BY <4>1, <4>2
    <3>5. TouchedLast(c, n, i)
      BY <1>2, <2>2, <3>1, <3>4 DEF TouchedLast
    <3>6. Sets(wal[n][i]) = truth[c]
      BY <1>2, <3>1, <3>5 DEF ImportInv, LastInv
    <3> QED
      BY <3>1, <3>3, <3>6
  <2> QED
    BY <2>3, <2>4, <2>5
<1>11. BaseInv'
  <2>1. SUFFICES ASSUME NEW c \in Cells,
                        \A n \in kept .. m : \A i \in 1 .. Len(wal'[n]) :
                            Covered(n, i) \/ ~ Touches(wal'[n][i], c)
                 PROVE  snapshot.holds[c] = truth'[c]
    BY <1>6, <1>9 DEF BaseInv
  <2>2. ~ Covered(m, l + 1)
    <3>1. PICK a \in Nat, b \in Nat : snapshot.upTo = <<a, b>>
      BY <1>1, UpToIs
    <3>2. Covered(m, l + 1) <=> m < a \/ (m = a /\ l + 1 <= b)
      BY <3>1 DEF Covered, AtOrBefore, Place
    <3>3. (a = 0 /\ b = 0) \/ (a \in 1 .. m /\ b <= Len(wal[a]))
      BY <1>2, <3>1 DEF ImportInv, UpToInv, NoCommit
    <3> QED
      BY <1>2, <1>3, <1>4, <3>2, <3>3
  <2>3. m \in kept .. m /\ l + 1 \in 1 .. Len(wal'[m])
    BY <1>5, <1>6, <1>8
  <2>4. ~ Touches(line, c)
    BY <1>5, <1>6, <2>1, <2>2, <2>3
  <2>5. ASSUME NEW n \in kept .. m, NEW i \in 1 .. Len(wal[n])
        PROVE  Covered(n, i) \/ ~ Touches(wal[n][i], c)
    <3>1. CASE n = m
      <4>1. wal[n] = s /\ i \in 1 .. l
        BY <1>3, <1>4, <2>5, <3>1
      <4>2. i \in 1 .. Len(wal'[n]) /\ wal'[n][i] = s[i]
        BY <1>5, <1>6, <3>1, <4>1
      <4> QED
        BY <2>1, <2>5, <4>1, <4>2
    <3>2. CASE n # m
      <4>1. n \in 1 .. m - 1 /\ wal'[n] = wal[n]
        BY <1>6, <1>8, <3>2
      <4> QED
        BY <2>1, <2>5, <4>1
    <3> QED
      BY <3>1, <3>2
  <2>6. snapshot.holds[c] = truth[c]
    BY <1>2, <2>5 DEF ImportInv, BaseInv
  <2> QED
    BY <2>4, <2>6
<1>12. UpToInv'
  <2>1. PICK a \in Nat, b \in Nat : snapshot.upTo = <<a, b>>
    BY <1>1, UpToIs
  <2>2. snapshot.upTo = NoCommit \/ (a \in 1 .. m /\ b <= Len(wal[a]))
    BY <1>2, <2>1 DEF ImportInv, UpToInv
  <2>3. a \in 1 .. m /\ b <= Len(wal[a]) => b <= Len(wal'[a])
    <3>1. CASE a = m
      BY <1>3, <1>4, <1>5, <1>6, <3>1
    <3>2. CASE a # m
      BY <1>6, <3>2
    <3> QED
      BY <3>1, <3>2
  <2> QED
    BY <1>6, <2>1, <2>2, <2>3 DEF UpToInv
<1> QED
    BY <1>7, <1>10, <1>11, <1>12 DEF ImportInv

\* matter.js begins a new segment.
LEMMA RotateKeeps ==
    ASSUME ImportInv, MjRotate
    PROVE  ImportInv'
<1>1. ImportTypeOK
    BY DEF ImportInv
<1>2. PICK m \in Nat : m = Len(wal) /\ m >= 1 /\ kept \in 1 .. m
    BY <1>1 DEF ImportTypeOK
<1>0. PICK e : e = <<>>
    OBVIOUS
<1>3. e = <<>> /\ e \in Seq(LogLines) /\ Len(e) = 0
    BY <1>0
<1>4. wal' = Append(wal, e) /\ copies' = Append(copies, "plain") /\ UNCHANGED <<kept, snapshot, truth, install>>
    BY <1>3 DEF MjRotate
<1>5. /\ wal' \in Seq(Seq(LogLines)) /\ Len(wal') = m + 1 /\ wal'[m + 1] = e
      /\ \A k \in 1 .. m : wal'[k] = wal[k]
  <2>1. wal \in Seq(Seq(LogLines)) /\ e \in Seq(LogLines)
    BY <1>1, <1>3 DEF ImportTypeOK
  <2> QED
    BY <1>2, <1>4, <2>1, AppendProperties
<1>11. copies' \in Seq(Stages) /\ Len(copies') = m + 1
    BY <1>1, <1>2, <1>4 DEF ImportTypeOK, Stages
<1>6. ImportTypeOK'
    BY <1>1, <1>2, <1>4, <1>5, <1>11 DEF ImportTypeOK
<1>7. \A k, j : Covered(k, j)' <=> Covered(k, j)
    BY <1>4 DEF Covered, Place
<1>8. LastInv'
  <2>1. SUFFICES ASSUME NEW c \in Cells, NEW n \in kept .. m + 1, NEW i \in 1 .. Len(wal'[n]),
                        TouchedLast(c, n, i)'
                 PROVE  Sets(wal'[n][i]) = truth[c]
    BY <1>4, <1>5 DEF LastInv
  <2>0. n # m + 1
    <3>1. SUFFICES ASSUME n = m + 1 PROVE FALSE
      OBVIOUS
    <3>2. wal'[n] = e
      BY <1>5, <3>1
    <3> QED
      BY <1>3, <2>1, <3>2
  <2>2. n \in 1 .. m /\ n \in kept .. m /\ wal'[n] = wal[n]
    BY <1>2, <1>5, <2>0
  <2>3. ASSUME NEW k \in n + 1 .. m PROVE k \in n + 1 .. m + 1 /\ wal'[k] = wal[k]
    BY <1>5, <2>2
  <2>4. TouchedLast(c, n, i)
    BY <1>2, <1>5, <2>1, <2>2, <2>3 DEF TouchedLast
  <2> QED
    BY <1>2, <2>2, <2>4 DEF ImportInv, LastInv
<1>9. BaseInv'
  <2>1. ASSUME NEW n \in kept .. m PROVE n \in kept .. m + 1 /\ wal'[n] = wal[n]
    <3>1. n \in 1 .. m /\ n \in kept .. m + 1
      BY <1>2
    <3> QED
      BY <1>5, <3>1
  <2>2. SUFFICES ASSUME NEW c \in Cells,
                        \A n \in kept .. m + 1 : \A i \in 1 .. Len(wal'[n]) :
                            Covered(n, i)' \/ ~ Touches(wal'[n][i], c)
                 PROVE  snapshot.holds[c] = truth[c]
    BY <1>4, <1>5 DEF BaseInv
  <2>3. ASSUME NEW n \in kept .. m, NEW i \in 1 .. Len(wal[n])
        PROVE  Covered(n, i) \/ ~ Touches(wal[n][i], c)
    <3>1. n \in kept .. m + 1 /\ wal'[n] = wal[n] /\ i \in 1 .. Len(wal'[n])
      BY <2>1
    <3> QED
      BY <1>7, <2>2, <3>1
  <2> QED
    BY <1>2, <2>3 DEF ImportInv, BaseInv
<1>10. UpToInv'
  <2>1. CASE snapshot.upTo = NoCommit
    BY <1>4, <2>1 DEF UpToInv
  <2>2. CASE snapshot.upTo # NoCommit
    <3>1. PICK a : a = snapshot.upTo[1]
      OBVIOUS
    <3>2. a \in 1 .. m /\ snapshot.upTo[2] <= Len(wal[a])
      BY <1>2, <2>2, <3>1 DEF ImportInv, UpToInv
    <3>3. a \in 1 .. m + 1 /\ wal'[a] = wal[a]
      <4>1. a \in 1 .. m + 1
        BY <3>2
      <4> QED
        BY <1>5, <3>2, <4>1
    <3> QED
      BY <1>4, <1>5, <3>1, <3>2, <3>3 DEF UpToInv
  <2> QED
    BY <2>1, <2>2
<1> QED
    BY <1>6, <1>8, <1>9, <1>10 DEF ImportInv

\* What a snapshot covers, or all of it, has been committed to what it holds.
LEMMA SnapshotKeeps ==
    ASSUME ImportInv, NEW numbered \in BOOLEAN, MjSnapshot(numbered)
    PROVE  ImportInv'
<1>1. ImportTypeOK
    BY DEF ImportInv
<1>2. PICK m \in Nat : m = Len(wal) /\ m >= 1 /\ Len(wal[m]) \in Nat
  <2>1. PICK m \in Nat : m = Len(wal) /\ m >= 1
    BY <1>1 DEF ImportTypeOK
  <2>2. wal[m] \in Seq(LogLines)
    BY <1>1, <2>1 DEF ImportTypeOK
  <2> QED
    BY <2>1, <2>2
<1>3. PICK upTo : upTo = IF numbered THEN <<LastSegment, LastLine>> ELSE NoCommit
    OBVIOUS
<1>4. /\ snapshot' = [there |-> TRUE, holds |-> truth, upTo |-> upTo]
      /\ UNCHANGED <<wal, copies, kept, truth, install>>
    BY <1>3 DEF MjSnapshot
<1>5. upTo = NoCommit \/ upTo = <<m, Len(wal[m])>>
    BY <1>2, <1>3 DEF LastSegment, LastLine
<1>6. upTo \in Nat \X Nat
    BY <1>2, <1>5 DEF NoCommit
<1>7. snapshot'.holds = truth /\ snapshot'.upTo = upTo
    BY <1>4
<1>8. ImportTypeOK'
    BY <1>1, <1>4, <1>6 DEF ImportTypeOK
<1>9. LastInv' /\ BaseInv'
    BY <1>4, <1>7 DEF ImportInv, LastInv, BaseInv, TouchedLast
<1>10. UpToInv'
  <2>1. CASE upTo = NoCommit
    BY <1>7, <2>1 DEF UpToInv
  <2>2. CASE upTo = <<m, Len(wal[m])>>
    BY <1>2, <1>4, <1>7, <2>2 DEF UpToInv
  <2> QED
    BY <1>5, <2>1, <2>2
<1> QED
    BY <1>8, <1>9, <1>10 DEF ImportInv

\* A segment that is deleted was covered.
LEMMA DropKeeps ==
    ASSUME ImportInv, MjDrop
    PROVE  ImportInv'
<1>1. ImportTypeOK
    BY DEF ImportInv
<1>2. PICK m \in Nat : m = Len(wal) /\ kept \in 1 .. m
    BY <1>1 DEF ImportTypeOK
<1>3. PICK a \in Nat, b \in Nat : snapshot.upTo = <<a, b>>
    BY <1>1, UpToIs
<1>4. /\ kept < m /\ kept < a /\ kept' = kept + 1
      /\ UNCHANGED <<wal, copies, snapshot, truth, install>>
    BY <1>2, <1>3 DEF MjDrop, LastSegment
<1>5. ImportTypeOK'
    BY <1>1, <1>2, <1>4 DEF ImportTypeOK
<1>6. \A n \in kept' .. m : n \in kept .. m
    BY <1>2, <1>4
<1>7. LastInv'
  <2>1. \A c, n, i : TouchedLast(c, n, i)' <=> TouchedLast(c, n, i)
    BY <1>4 DEF TouchedLast
  <2> QED
    BY <1>2, <1>4, <1>6, <2>1 DEF ImportInv, LastInv
<1>8. \A i : Covered(kept, i)
    BY <1>3, <1>4 DEF Covered, AtOrBefore, Place
<1>9. BaseInv'
  <2>1. SUFFICES ASSUME NEW c \in Cells,
                        \A n \in kept' .. m : \A i \in 1 .. Len(wal[n]) :
                            Covered(n, i) \/ ~ Touches(wal[n][i], c)
                 PROVE  snapshot.holds[c] = truth[c]
    BY <1>2, <1>4 DEF BaseInv, Covered, Place
  <2>2. \A n \in kept .. m : n = kept \/ n \in kept' .. m
    BY <1>2, <1>4
  <2>3. \A n \in kept .. m : \A i \in 1 .. Len(wal[n]) :
            Covered(n, i) \/ ~ Touches(wal[n][i], c)
    BY <1>8, <2>1, <2>2
  <2> QED
    BY <1>2, <2>3 DEF ImportInv, BaseInv
<1>10. UpToInv'
    BY <1>4 DEF ImportInv, UpToInv
<1> QED
    BY <1>5, <1>7, <1>9, <1>10 DEF ImportInv

\* The invariant says nothing of how far a segment is compressed.
LEMMA CompressKeeps ==
    ASSUME ImportInv, NEW n \in 1 .. Len(wal), MjCompress(n)
    PROVE  ImportInv'
<1>1. /\ copies' = [copies EXCEPT ![n] = StageAfter[copies[n]]] /\ copies[n] \in DOMAIN StageAfter
      /\ UNCHANGED <<wal, kept, snapshot, truth, install>>
    BY DEF MjCompress
<1>2. StageAfter[copies[n]] \in Stages
    BY <1>1 DEF StageAfter, Stages
<1>3. PICK m \in Nat : m = Len(wal) /\ copies \in [1 .. m -> Stages] /\ Len(copies) = m
    BY DEF ImportInv, ImportTypeOK
<1>4. copies' \in [1 .. m -> Stages]
    BY <1>1, <1>2, <1>3
<1>5. copies' \in Seq(Stages) /\ Len(copies') = m
    BY <1>4
<1>6. ImportTypeOK'
    BY <1>1, <1>3, <1>5 DEF ImportInv, ImportTypeOK
<1>7. LastInv'
  <2>1. LastInv' <=> LastInv
    BY <1>1 DEF LastInv, TouchedLast
  <2> QED
    BY <2>1 DEF ImportInv
<1>9. UpToInv'
  <2>1. UpToInv' <=> UpToInv
    BY <1>1 DEF UpToInv
  <2> QED
    BY <2>1 DEF ImportInv
<1>8. BaseInv'
    BY <1>1 DEF ImportInv, BaseInv, Covered, Place
<1> QED
    BY <1>6, <1>7, <1>8, <1>9 DEF ImportInv

LEMMA LogStep ==
    ASSUME ImportInv, [ImportNext]_importVars
    PROVE  ImportInv'
<1>1. CASE UNCHANGED importVars
  <2>1. UNCHANGED <<wal, copies, kept, snapshot, truth, install>>
    BY <1>1 DEF importVars
  <2>2. ImportTypeOK' <=> ImportTypeOK
    BY <2>1 DEF ImportTypeOK
  <2>3. LastInv' <=> LastInv
    BY <2>1 DEF LastInv, TouchedLast
  <2>4. BaseInv' <=> BaseInv
    BY <2>1 DEF BaseInv, Covered, Place
  <2>5. UpToInv' <=> UpToInv
    BY <2>1 DEF UpToInv
  <2> QED
    BY <2>2, <2>3, <2>4, <2>5 DEF ImportInv
<1>2. ASSUME NEW line \in CommitLines, MjCommit(line) PROVE ImportInv'
  <2>1. line \in LogLines
    BY DEF LogLines
  <2>2. truth \in Contents
    BY DEF ImportInv, ImportTypeOK
  <2>3. /\ Writes(line) /\ truth' = ApplyCommit(truth, line)
        /\ UNCHANGED <<copies, kept, snapshot, install>>
    BY <1>2 DEF MjCommit
  <2>4. /\ truth' \in Contents
        /\ \A c \in Cells : truth'[c] = IF Touches(line, c) THEN Sets(line) ELSE truth[c]
    BY <2>1, <2>2, <2>3, ApplyIs
  <2> QED
    BY <2>1, <2>3, <2>4, WriteKeeps
<1>3. ASSUME NEW line \in NoLines, MjKilled(line) PROVE ImportInv'
  <2>1. line \in LogLines /\ \A c : ~ Touches(line, c)
    <3>1. line \in LogLines
      BY DEF LogLines
    <3> QED
      BY <3>1, LineFields
  <2>2. Writes(line) /\ UNCHANGED <<copies, kept, snapshot, truth, install>>
    BY <1>3 DEF MjKilled
  <2>3. truth' \in Contents
    BY <2>2 DEF ImportInv, ImportTypeOK
  <2>4. \A c \in Cells : truth'[c] = IF Touches(line, c) THEN Sets(line) ELSE truth[c]
    BY <2>1, <2>2
  <2> QED
    BY <2>1, <2>2, <2>3, <2>4, WriteKeeps
<1> QED
    BY <1>1, <1>2, <1>3, CompressKeeps, RotateKeeps, SnapshotKeeps, DropKeeps DEF ImportNext

\* What an installation may be like.
LEMMA InstallIs ==
    ASSUME install \in Installs
    PROVE  /\ install.by # "none" =>
                  \E d \in Drivers \cup {"blob"}, t \in BOOLEAN, u \in BOOLEAN :
                      /\ install.files = Written(d, t, u) /\ install.by = d
                      /\ install.kind = IF t THEN d ELSE "none"
           /\ install.listed \subseteq ImportIds /\ install.older \subseteq ImportIds
           /\ install.peers \in [ToSet(Peers) -> ImportIds \cup {0}]
<1>1. PICK none : none = [p \in ToSet(Peers) |-> 0]
    OBVIOUS
<1>2. none \in [ToSet(Peers) -> ImportIds \cup {0}]
    BY <1>1
<1>3. PICK bare : bare = [n \in {"server"} |-> NoFabric]
    OBVIOUS
<1>4. PlainInstall = [files |-> {}, kind |-> "none", by |-> "none", namespaces |-> bare,
                      listed |-> {}, peers |-> none, older |-> {}]
    BY <1>1, <1>3 DEF PlainInstall
<1>6. ASSUME NEW d \in Drivers \cup {"blob"}, NEW t \in BOOLEAN, NEW u \in BOOLEAN, install = DirectoryOf(d, t, u)
      PROVE  /\ install.files = Written(d, t, u) /\ install.by = d
             /\ install.kind = IF t THEN d ELSE "none"
             /\ install.listed = {} /\ install.older = {} /\ install.peers = none
    BY <1>4, <1>6 DEF DirectoryOf
<1>7. ASSUME NEW s, install = FabricsIn(s)
      PROVE  /\ install.by = "none" /\ install.listed = {} /\ install.older = {}
             /\ install.peers = none
    BY <1>4, <1>7 DEF FabricsIn
<1>8. ASSUME NEW l \in SUBSET ImportIds, NEW o \in SUBSET ImportIds,
             NEW p \in [ToSet(Peers) -> ImportIds \cup {0}], install = NodesIn(l, p, o)
      PROVE  install.by = "none" /\ install.listed = l /\ install.older = o /\ install.peers = p
    BY <1>4, <1>8 DEF NodesIn
<1>9. \/ install = PlainInstall
      \/ \E d \in Drivers \cup {"blob"}, t \in BOOLEAN, u \in BOOLEAN : install = DirectoryOf(d, t, u)
      \/ \E s : install = FabricsIn(s)
      \/ \E l \in SUBSET ImportIds, o \in SUBSET ImportIds, p \in [ToSet(Peers) -> ImportIds \cup {0}] :
             install = NodesIn(l, p, o)
  <2>1. install = PlainInstall \/ install \in DirectoryInstalls \/ install \in FabricInstalls
            \/ install \in NodeInstalls
    BY DEF Installs
  <2>2. ASSUME install \in DirectoryInstalls
        PROVE  \E d \in Drivers \cup {"blob"}, t \in BOOLEAN, u \in BOOLEAN : install = DirectoryOf(d, t, u)
    BY <2>2 DEF DirectoryInstalls
  <2>3. ASSUME install \in FabricInstalls PROVE \E s : install = FabricsIn(s)
    BY <2>3 DEF FabricInstalls
  <2>4. ASSUME install \in NodeInstalls
        PROVE  \E l \in SUBSET ImportIds, o \in SUBSET ImportIds,
                  p \in [ToSet(Peers) -> ImportIds \cup {0}] : install = NodesIn(l, p, o)
    BY <2>4 DEF NodeInstalls
  <2> QED
    BY <2>1, <2>2, <2>3, <2>4
<1>10. CASE install = PlainInstall
    BY <1>2, <1>4, <1>10
<1>11. CASE \E d \in Drivers \cup {"blob"}, t \in BOOLEAN, u \in BOOLEAN : install = DirectoryOf(d, t, u)
  <2>1. PICK d \in Drivers \cup {"blob"}, t \in BOOLEAN, u \in BOOLEAN : install = DirectoryOf(d, t, u)
    BY <1>11
  <2> QED
    BY <1>2, <1>6, <2>1
<1>12. CASE \E s : install = FabricsIn(s)
    BY <1>2, <1>7, <1>12
<1>13. CASE \E l \in SUBSET ImportIds, o \in SUBSET ImportIds, p \in [ToSet(Peers) -> ImportIds \cup {0}] :
               install = NodesIn(l, p, o)
    BY <1>8, <1>13
<1> QED
    BY <1>9, <1>10, <1>11, <1>12, <1>13

LEMMA DriverRecognised ==
    ASSUME install \in Installs
    PROVE  DriverIsRecognised
<1>1. SUFFICES ASSUME install.by # "none"
               PROVE  LET found == OpenDirectory(install.files, install.kind)
                      IN  IF install.by = "blob"
                          THEN /\ found \in {"unsupported", "not_storage", "refused"}
                               /\ found = "refused" => install.files = {"image"}
                          ELSE found = install.by
    BY DEF DriverIsRecognised
<1>2. PICK d \in Drivers \cup {"blob"}, t \in BOOLEAN, u \in BOOLEAN :
          /\ install.files = Written(d, t, u) /\ install.by = d
          /\ install.kind = IF t THEN d ELSE "none"
    BY <1>1, InstallIs
<1>3. d \in {"wal", "file", "json", "blob"}
    BY <1>2 DEF Drivers
<1>4. PICK files : files = Written(d, t, u)
    OBVIOUS
<1>5. CASE t = TRUE
  <2>1. "driver.json" \in files
    BY <1>4, <1>5 DEF Written
  <2>2. DetectDriver(files, d) = IF d \in {"wal", "file", "json"} THEN d ELSE "unsupported"
    BY <2>1 DEF DetectDriver, Drivers
  <2>3. "image" \in files => d = "blob"
    BY <1>3, <1>4 DEF Written
  <2>4. OpenDirectory(files, d) = IF d \in {"wal", "file", "json"} THEN d ELSE "unsupported"
    BY <1>3, <2>2, <2>3 DEF OpenDirectory
  <2> QED
    BY <1>2, <1>3, <1>4, <1>5, <2>4
<1>6. CASE t = FALSE
  <2>1. /\ d = "wal" => files = {"snapshot"}
        /\ d = "json" => files = {"storage.json"}
        /\ d = "file" => files = {"file"}
        /\ d = "blob" => files = IF u THEN {"image"} ELSE {}
    BY <1>4, <1>6 DEF Written
  <2>2. d # "blob" => DetectDriver(files, "none") = d /\ "image" \notin files
    BY <1>3, <2>1 DEF DetectDriver
  <2>3. d = "blob" => \/ DetectDriver(files, "none") = "not_storage" /\ files = {}
                      \/ DetectDriver(files, "none") = "file" /\ files = {"image"}
    BY <1>3, <2>1 DEF DetectDriver
  <2>4. CASE d # "blob"
    <3>1. OpenDirectory(files, "none") = d
      BY <2>2, <2>4 DEF OpenDirectory
    <3> QED
      BY <1>2, <1>4, <1>6, <2>4, <3>1
  <2>5. CASE d = "blob"
    <3>1. OpenDirectory(files, "none") = IF files = {} THEN "not_storage" ELSE "refused"
      BY <2>3, <2>5 DEF OpenDirectory
    <3> QED
      BY <1>2, <1>4, <1>6, <2>3, <2>5, <3>1
  <2> QED
    BY <2>4, <2>5
<1> QED
    BY <1>5, <1>6

LEMMA IssuerMatches ==
    IssuerMatchesChain
<1>1. ASSUME NEW requested \in {"none"} \cup DOMAIN install.namespaces, Importable(requested)
      PROVE  LET ns == install.namespaces[FindControllerNamespace(requested)]
             IN  /\ HoldsFabric(ns)
                 /\ \/ ns.icac = "unreadable" \/ ns.signedBy # AuthorityOf(ns)
                    \/ IssuerKey(ns) = <<ns.signedBy, IF HasIntermediate(ns) THEN "icac" ELSE "root">>
  <2>1. PICK holding : holding = {n \in DOMAIN install.namespaces : HoldsFabric(install.namespaces[n])}
    OBVIOUS
  <2>2. PICK name : name = FindControllerNamespace(requested)
    OBVIOUS
  <2>3. PICK ns : ns = install.namespaces[name]
    OBVIOUS
  <2>4. name # "none" /\ IssuerKey(ns) # NoIssuer
    BY <1>1, <2>2, <2>3 DEF Importable
  <2>5. name \in holding
    <3>1. Cardinality(holding) = 1 => (CHOOSE n \in holding : TRUE) \in holding
      <4>1. Cardinality({}) = 0
        BY FS_EmptySet
      <4> QED
        BY <4>1
    <3>2. name = IF requested # "none" THEN IF requested \in holding THEN requested ELSE "none"
                 ELSE IF "server" \in holding THEN "server"
                 ELSE IF Cardinality(holding) = 1 THEN CHOOSE n \in holding : TRUE
                 ELSE "none"
      BY <2>1, <2>2 DEF FindControllerNamespace
    <3> QED
      BY <2>4, <3>1, <3>2
  <2>6. HoldsFabric(ns)
    BY <2>1, <2>3, <2>5
  <2>7. ASSUME ns.icac # "unreadable", ns.signedBy = AuthorityOf(ns)
        PROVE  IssuerKey(ns) = <<ns.signedBy, IF HasIntermediate(ns) THEN "icac" ELSE "root">>
    BY <2>4, <2>7 DEF IssuerKey, HasIntermediate
  <2> QED
    BY <2>2, <2>3, <2>6, <2>7
<1> QED
    BY <1>1 DEF IssuerMatchesChain

\* What a peer does to the list of nodes.
Mentioned(i) == {id \in ImportIds : \E j \in 1 .. i : install.peers[Peers[j]] = id}

PeersRead(nodes, i) ==
    /\ DOMAIN nodes = install.listed \cup Mentioned(i)
    /\ \A id \in DOMAIN nodes :
          \/ nodes[id] = BareNode /\ \A j \in 1 .. i : install.peers[Peers[j]] # id
          \/ \E j \in 1 .. i : install.peers[Peers[j]] = id /\ nodes[id] = Peers[j]

NodeMaps == UNION {[S -> {BareNode} \cup ToSet(Peers)] : S \in SUBSET ImportIds}

LEMMA PeerRecorded ==
    ASSUME install \in Installs, NEW nodes \in NodeMaps, NEW i \in 1 .. Len(Peers)
    PROVE  /\ RecordPeer(nodes, Peers[i]) \in NodeMaps
           /\ PeersRead(nodes, i - 1) => PeersRead(RecordPeer(nodes, Peers[i]), i)
<1>1. Len(Peers) \in Nat /\ Peers[i] \in ToSet(Peers)
    BY ImportAssumption DEF ToSet
<1>2. PICK p : p = Peers[i]
    OBVIOUS
<1>3. PICK id \in ImportIds \cup {0} : id = install.peers[p]
    BY <1>1, <1>2, InstallIs
<1>4. PICK S \in SUBSET ImportIds : nodes \in [S -> {BareNode} \cup ToSet(Peers)]
    BY DEF NodeMaps
<1>5. PICK new : new = RecordPeer(nodes, p)
    OBVIOUS
<1>6. \A j \in 1 .. i : j \in 1 .. i - 1 \/ j = i
    BY <1>1
<1>7. CASE id = 0
  <2>1. new = nodes
    BY <1>3, <1>5, <1>7 DEF RecordPeer
  <2>2. Mentioned(i) = Mentioned(i - 1)
    <3>1. 0 \notin ImportIds /\ \A j \in 1 .. i - 1 : j \in 1 .. i
      BY <1>1, ImportAssumption
    <3>2. ASSUME NEW n \in ImportIds, NEW j \in 1 .. i, install.peers[Peers[j]] = n
          PROVE  j \in 1 .. i - 1
      BY <1>2, <1>3, <1>6, <1>7, <3>1, <3>2
    <3>3. \A n \in ImportIds : (\E j \in 1 .. i : install.peers[Peers[j]] = n)
                                   <=> \E j \in 1 .. i - 1 : install.peers[Peers[j]] = n
      BY <3>1, <3>2
    <3> QED
      BY <3>3 DEF Mentioned
  <2>3. ASSUME PeersRead(nodes, i - 1) PROVE PeersRead(nodes, i)
    <3>1. ASSUME NEW n \in DOMAIN nodes
          PROVE  \/ nodes[n] = BareNode /\ \A j \in 1 .. i : install.peers[Peers[j]] # n
                 \/ \E j \in 1 .. i : install.peers[Peers[j]] = n /\ nodes[n] = Peers[j]
      <4>1. n # id
        BY <1>4, <1>7, ImportAssumption
      <4> QED
        BY <1>1, <1>2, <1>3, <1>6, <2>3, <4>1 DEF PeersRead
    <3> QED
      BY <2>2, <2>3, <3>1 DEF PeersRead
  <2> QED
    BY <1>2, <1>5, <2>1, <2>3
<1>8. CASE id # 0
  <2>1. PICK with : with = Record(nodes, {id})
    OBVIOUS
  <2>2. /\ with = [n \in S \cup {id} |-> IF n \in S THEN nodes[n] ELSE BareNode]
        /\ new = [with EXCEPT ![id] = p]
    BY <1>3, <1>4, <1>5, <1>8, <2>1 DEF RecordPeer, Record
  <2>3. new = [n \in S \cup {id} |-> IF n = id THEN p ELSE nodes[n]]
    BY <2>2
  <2>4. new \in [S \cup {id} -> {BareNode} \cup ToSet(Peers)] /\ S \cup {id} \in SUBSET ImportIds
    BY <1>1, <1>2, <1>3, <1>4, <1>8, <2>3
  <2>5. new \in NodeMaps
    BY <2>4 DEF NodeMaps
  <2>6. Mentioned(i) = Mentioned(i - 1) \cup {id}
    BY <1>1, <1>2, <1>3, <1>6, <1>8 DEF Mentioned
  <2>7. ASSUME PeersRead(nodes, i - 1) PROVE PeersRead(new, i)
    <3>1. DOMAIN new = install.listed \cup Mentioned(i)
      BY <1>4, <2>3, <2>6, <2>7 DEF PeersRead
    <3>2. ASSUME NEW n \in DOMAIN new
          PROVE  \/ new[n] = BareNode /\ \A j \in 1 .. i : install.peers[Peers[j]] # n
                 \/ \E j \in 1 .. i : install.peers[Peers[j]] = n /\ new[n] = Peers[j]
      <4>1. CASE n = id
        <5>1. i \in 1 .. i /\ new[n] = p
          BY <1>1, <2>3, <3>2, <4>1
        <5> QED
          BY <1>2, <1>3, <4>1, <5>1
      <4>2. CASE n # id
        <5>1. n \in DOMAIN nodes /\ new[n] = nodes[n]
          BY <1>4, <2>3, <3>2, <4>2
        <5>2. \A j \in 1 .. i - 1 : j \in 1 .. i
          BY <1>1
        <5> QED
          BY <1>2, <1>3, <1>6, <2>7, <4>2, <5>1, <5>2 DEF PeersRead
      <4> QED
        BY <4>1, <4>2
    <3> QED
      BY <3>1, <3>2 DEF PeersRead
  <2> QED
    BY <1>2, <1>5, <2>5, <2>7
<1> QED
    BY <1>7, <1>8

LEMMA NodesAreRead ==
    ASSUME install \in Installs
    PROVE  \E nodes : /\ PeersRead(nodes, Len(Peers)) /\ nodes \in NodeMaps
                      /\ ReadNodes = Record(nodes, install.older)
<1>1. PICK m \in Nat : m = Len(Peers)
    BY ImportAssumption
<1>2. PICK listed : listed = Record([n \in {} |-> BareNode], install.listed)
    OBVIOUS
<1>3. listed = [n \in install.listed |-> BareNode]
    BY <1>2 DEF Record
<1>4. listed \in NodeMaps
  <2>1. install.listed \in SUBSET ImportIds
    BY InstallIs
  <2>2. listed \in [install.listed -> {BareNode} \cup ToSet(Peers)]
    BY <1>3
  <2> QED
    BY <2>1, <2>2 DEF NodeMaps
<1> DEFINE Turn(h, i) == RecordPeer(h, Peers[i])
           Loop(f) == f = [i \in 0 .. m |-> IF i = 0 THEN listed ELSE RecordPeer(f[i - 1], Peers[i])]
<1>5. \A h \in NodeMaps : \A i \in 1 .. m : Turn(h, i) \in NodeMaps
    BY <1>1, PeerRecorded
<1>6. PICK op : op = [i \in 1 .. m |-> [h \in NodeMaps |-> Turn(h, i)]]
    OBVIOUS
<1>7. op \in [1 .. m -> [NodeMaps -> NodeMaps]]
  <2> HIDE DEF Turn
  <2> QED
    BY <1>5, <1>6
<1>8. \E f : Computes(f, NodeMaps, listed, op, m)
    BY <1>4, <1>7, LoopIsThere
<1>9. ASSUME NEW f, Computes(f, NodeMaps, listed, op, m) PROVE Loop(f)
  <2> DEFINE Step(i) == IF i = 0 THEN listed ELSE Turn(f[i - 1], i)
  <2> HIDE DEF Turn, Step
  <2>1. f \in [0 .. m -> NodeMaps] /\ f[0] = listed /\ \A i \in 1 .. m : f[i] = op[i][f[i - 1]]
    BY <1>9 DEF Computes
  <2>2. ASSUME NEW i \in 0 .. m PROVE f[i] = Step(i)
    <3>1. CASE i = 0
      BY <2>1, <3>1 DEF Step
    <3>2. CASE i # 0
      <4>1. i \in 1 .. m /\ i - 1 \in 0 .. m
        BY <3>2
      <4>2. f[i - 1] \in NodeMaps
        BY <2>1, <4>1
      <4> QED
        BY <1>6, <2>1, <3>2, <4>1, <4>2 DEF Step
    <3> QED
      BY <3>1, <3>2
  <2>3. f = [i \in 0 .. m |-> Step(i)]
    BY <2>1, <2>2
  <2> QED
    BY <2>3 DEF Step, Turn
<1>10. PICK f : f = CHOOSE g : Loop(g)
    OBVIOUS
<1>11. Loop(f)
  <2> HIDE DEF Loop
  <2> QED
    BY <1>8, <1>9, <1>10
<1>12. ReadNodes = Record(f[m], install.older)
    BY <1>1, <1>2, <1>10 DEF ReadNodes
<1>13. f[0] = listed /\ \A i \in 1 .. m : f[i] = RecordPeer(f[i - 1], Peers[i])
    BY <1>11
<1> HIDE DEF Loop, Turn
<1> DEFINE Good(i) == f[i] \in NodeMaps /\ PeersRead(f[i], i)
           Bad == {i \in 0 .. m : ~ Good(i)}
<1>14. Good(0)
  <2>1. Mentioned(0) = {}
    BY DEF Mentioned
  <2> QED
    BY <1>3, <1>4, <1>13, <2>1 DEF PeersRead
<1>15. ASSUME NEW i \in 1 .. m, Good(i - 1) PROVE Good(i)
    BY <1>1, <1>13, <1>15, PeerRecorded
<1>16. Bad = {}
  <2> HIDE DEF Good
  <2>1. SUFFICES ASSUME Bad # {} PROVE FALSE
    OBVIOUS
  <2>2. PICK i \in Bad : \A k \in Bad : i <= k
    <3>1. Bad \in SUBSET Nat
      OBVIOUS
    <3> HIDE DEF Bad
    <3> QED
      BY <2>1, <3>1, HasLeast
  <2>3. i \in 0 .. m /\ ~ Good(i) /\ i # 0
    BY <1>14
  <2>4. i \in 1 .. m /\ i - 1 \in 0 .. m /\ ~ (i <= i - 1)
    BY <2>3
  <2>5. Good(i - 1)
    BY <2>2, <2>4
  <2> QED
    BY <1>15, <2>3, <2>4, <2>5
<1>17. Good(m)
  <2> HIDE DEF Good
  <2>1. m \in 0 .. m
    OBVIOUS
  <2> QED
    BY <1>16, <2>1
<1> QED
    BY <1>1, <1>12, <1>17

LEMMA NodesImported ==
    ASSUME install \in Installs
    PROVE  EveryNodeIsImported
<1>1. PICK m \in Nat : m = Len(Peers)
    BY ImportAssumption
<1>2. PICK nodes : /\ PeersRead(nodes, m) /\ ReadNodes = Record(nodes, install.older)
    BY <1>1, NodesAreRead
<1>3. PICK all : all = ReadNodes
    OBVIOUS
<1>4. all = [n \in DOMAIN nodes \cup install.older |->
                IF n \in DOMAIN nodes THEN nodes[n] ELSE BareNode]
    BY <1>2, <1>3 DEF Record
<1> DEFINE peersOf(id) == {p \in ToSet(Peers) : install.peers[p] = id}
<1>5. \A id : (peersOf(id) # {}) <=> \E j \in 1 .. m : install.peers[Peers[j]] = id
    BY <1>1, ImportAssumption DEF ToSet
<1>6. \A j \in 1 .. m : Peers[j] \in peersOf(install.peers[Peers[j]])
    BY <1>1, ImportAssumption DEF ToSet
<1>7. Mentioned(m) = {id \in ImportIds : peersOf(id) # {}}
  <2> HIDE DEF peersOf
  <2> QED
    BY <1>5 DEF Mentioned
<1> HIDE DEF peersOf
<1>8. DOMAIN all = install.listed \cup install.older \cup {id \in ImportIds : peersOf(id) # {}}
    BY <1>2, <1>4, <1>7 DEF PeersRead
<1>9. ASSUME NEW id \in DOMAIN all
      PROVE  IF peersOf(id) = {} THEN all[id] = BareNode ELSE all[id] \in peersOf(id)
  <2>1. CASE id \in DOMAIN nodes
    <3>1. all[id] = nodes[id]
      BY <1>4, <1>9, <2>1
    <3>2. \/ nodes[id] = BareNode /\ \A j \in 1 .. m : install.peers[Peers[j]] # id
          \/ \E j \in 1 .. m : install.peers[Peers[j]] = id /\ nodes[id] = Peers[j]
      BY <1>2, <2>1 DEF PeersRead
    <3> QED
      BY <1>5, <1>6, <3>1, <3>2
  <2>2. CASE id \notin DOMAIN nodes
    <3>1. all[id] = BareNode /\ id \in install.older
      BY <1>4, <1>9, <2>2
    <3>2. id \in ImportIds
      BY <3>1, InstallIs
    <3>3. peersOf(id) = {}
      BY <1>2, <1>7, <2>2, <3>2 DEF PeersRead
    <3> QED
      BY <3>1, <3>3
  <2> QED
    BY <2>1, <2>2
<1> QED
    BY <1>3, <1>8, <1>9 DEF EveryNodeIsImported, peersOf

\* An import that is not refused takes over what the other server had, and it
\* is refused only after a kill: the log and the snapshot read back as they were
\* committed, but for a segment behind a compressed copy without a byte; a
\* directory is read with the driver that wrote it and uploaded images never
\* are, though an older directory of them stops the import; the fabric comes
\* with the key that its devices accept, but for an intermediate certificate
\* that does not read and for an authority that is not the first; and every
\* node in any of the lists comes with the addresses of its peer
\* (migrate/store.rs, open, read_wal; migrate/model.rs, read_issuer_key,
\* read_nodes).
THEOREM ImportFaithful == ImportSpec => []ImportIsFaithful
<1>1. ImportInit => ImportInv
    BY LogStarts
<1>2. ImportInv /\ [ImportNext]_importVars => ImportInv'
    BY LogStep
<1>3. ImportInv => ImportIsFaithful
  <2>1. ImportInv => install \in Installs
    BY DEF ImportInv, ImportTypeOK
  <2> QED
    BY <2>1, RefusedWhenCut, DriverRecognised, IssuerMatches, NodesImported DEF ImportIsFaithful
<1> QED
    BY <1>1, <1>2, <1>3, PTL DEF ImportSpec
=============================================================================
