----------------------------- MODULE FirstStart -----------------------------
(***************************************************************************)
(* Where the fabric comes from: init_controller_with_import                *)
(* (server/src/matter/controller.rs), called by serve (server/src/main.rs) *)
(* once the source of an import, if one is asked for, has been read.       *)
(*                                                                         *)
(* Starts follow each other, with and without an import and of any source: *)
(* the operator changes the flags, and the process may be killed at any    *)
(* step.  A fabric is known by a number, the attempt that made it; an      *)
(* identity (node, fabric and compressed fabric id) is one value, derived  *)
(* from the certificates or recorded beside them.                          *)
(***************************************************************************)
EXTENDS Integers

CONSTANTS
    FabricIdentities,        \* identities
    FabricCreationAttempts,  \* FABRIC_CREATION_ATTEMPTS
    MaxStarts,               \* bound: starts
    MaxKilledStarts          \* bound: starts that are killed

ASSUME FirstStartAssumption ==
    {FabricCreationAttempts, MaxStarts, MaxKilledStarts} \subseteq Nat

VARIABLES
    storage,    \* the fabric and the issuing key in the storage directory
    running,    \* the process: its stage, its fabric and key, its attempts
    source,     \* what this start is asked to import
    starts, killed,
    before      \* history: storage when this start began

firstStartVars == <<storage, running, source, starts, killed, before>>

NoIdentity == "unknown"
NoFabricYet == [number |-> 0, identity |-> NoIdentity]
NoIssuerKey == 0
CutKey == -1
EmptyStorage == [fabric |-> NoFabricYet, key |-> NoIssuerKey]
NotRunningYet == [at |-> "down", fabric |-> NoFabricYet, key |-> NoIssuerKey, attempts |-> 0]
NoSource == [asked |-> FALSE, readable |-> TRUE, usable |-> TRUE, certified |-> NoIdentity,
             recorded |-> NoIdentity, compressed |-> NoIdentity]
ImportSources ==
    {NoSource} \cup [asked : {TRUE}, readable : BOOLEAN, usable : BOOLEAN,
                     certified : FabricIdentities, recorded : FabricIdentities,
                     compressed : FabricIdentities \cup {NoIdentity}]

FirstStartInit ==
    /\ storage = EmptyStorage /\ before = EmptyStorage
    /\ running = NotRunningYet /\ source = NoSource
    /\ starts = 0 /\ killed = 0

Reaches(at) == running' = [running EXCEPT !.at = at]

\* serve reads the source first; storage is looked at only then.
BeginStart(s) ==
    /\ running.at = "down" /\ starts < MaxStarts
    /\ starts' = starts + 1 /\ source' = s /\ before' = storage
    /\ running' = [NotRunningYet EXCEPT !.at = IF s.asked /\ ~ s.readable THEN "failed" ELSE "startup"]
    /\ UNCHANGED <<storage, killed>>

\* Mutant: a key that is not there is made.
LoadOrMakeKey == IF storage.key = NoIssuerKey THEN [found |-> TRUE, key |-> -2]
                 ELSE [found |-> storage.key # CutKey, key |-> storage.key]

\* load_issuer_private_key.
LoadIssuerPrivateKey == [found |-> storage.key \notin {NoIssuerKey, CutKey}, key |-> storage.key]

\* Matter::startup has restored a fabric: an import is ignored.
LoadExisting ==
    /\ running.at = "startup" /\ storage.fabric # NoFabricYet
    /\ running' = IF LoadIssuerPrivateKey.found
                  THEN [running EXCEPT !.at = "up", !.fabric = storage.fabric,
                                       !.key = LoadIssuerPrivateKey.key]
                  ELSE [running EXCEPT !.at = "failed"]
    /\ UNCHANGED <<storage, source, starts, killed, before>>

\* Mutant: a compressed id that was recorded is not compared.
MatchesRecord(s) == s.certified = s.recorded

\* install_fabric compares what the certificates say with what was recorded.
IsSameFabric(s) ==
    /\ s.compressed # NoIdentity => s.compressed = s.certified
    /\ s.certified = s.recorded

\* What install_fabric makes of the source: its keys must be usable, too.
Adopted == [number |-> starts, identity |-> source.certified]
Installed ==
    IF source.usable /\ IsSameFabric(source)
    THEN [running EXCEPT !.at = "persist", !.key = starts, !.fabric = Adopted]
    ELSE [running EXCEPT !.at = "failed"]

\* Mutant: the import is not ignored when there is a fabric.
InstallOver ==
    /\ running.at = "startup" /\ source.asked /\ running' = Installed
    /\ UNCHANGED <<storage, source, starts, killed, before>>

\* Mutant: the fabric is stored as soon as it is installed.
InstallStored ==
    /\ running.at = "startup" /\ storage.fabric = NoFabricYet /\ source.asked
    /\ running' = Installed /\ storage' = [storage EXCEPT !.fabric = Adopted]
    /\ UNCHANGED <<source, starts, killed, before>>

InstallImported ==
    /\ running.at = "startup" /\ storage.fabric = NoFabricYet /\ source.asked
    /\ running' = Installed
    /\ UNCHANGED <<storage, source, starts, killed, before>>

\* create_fabric_once: some keys make certificates that cannot be encoded.
CreateFails ==
    /\ running.at = "startup" /\ storage.fabric = NoFabricYet /\ ~ source.asked
    /\ running' = [running EXCEPT !.attempts = @ + 1,
                      !.at = IF running.attempts + 1 = FabricCreationAttempts THEN "failed" ELSE @]
    /\ UNCHANGED <<storage, source, starts, killed, before>>

CreateFabric ==
    /\ running.at = "startup" /\ storage.fabric = NoFabricYet /\ ~ source.asked
    /\ running' = [running EXCEPT !.at = "persist", !.key = starts,
                                  !.fabric = [number |-> starts, identity |-> NoIdentity]]
    /\ UNCHANGED <<storage, source, starts, killed, before>>

\* persist_fabric.
PersistFabric ==
    /\ running.at = "persist" /\ Reaches("key")
    /\ storage' = [storage EXCEPT !.fabric = running.fabric]
    /\ UNCHANGED <<source, starts, killed, before>>

\* persist_issuer_private_key writes the file in place: a kill may cut it.
PersistIssuerPrivateKey(cut) ==
    /\ running.at = "key"
    /\ storage' = [storage EXCEPT !.key = IF cut THEN CutKey ELSE running.key]
    /\ running' = IF cut THEN NotRunningYet ELSE [running EXCEPT !.at = "up"]
    /\ killed' = IF cut THEN killed + 1 ELSE killed
    /\ killed' <= MaxKilledStarts
    /\ UNCHANGED <<source, starts, before>>

\* Either file cannot be written; the second may be cut short.
WriteFails(cut) ==
    /\ running.at \in {"persist", "key"} /\ Reaches("unwritten")
    /\ cut => running.at = "key"
    /\ storage' = IF cut THEN [storage EXCEPT !.key = CutKey] ELSE storage
    /\ UNCHANGED <<source, starts, killed, before>>

KillStart ==
    /\ running.at \notin {"down", "failed", "unwritten"} /\ killed < MaxKilledStarts
    /\ running' = NotRunningYet /\ killed' = killed + 1
    /\ UNCHANGED <<storage, source, starts, before>>

\* A process that has failed is started again, or one that ran has ended.
StartEnded ==
    /\ running.at \in {"failed", "unwritten", "up"}
    /\ running' = NotRunningYet
    /\ UNCHANGED <<storage, source, starts, killed, before>>

FirstStartNext ==
    \/ \E s \in ImportSources : BeginStart(s)
    \/ LoadExisting \/ InstallImported \/ CreateFails \/ CreateFabric \/ PersistFabric
    \/ \E cut \in BOOLEAN : PersistIssuerPrivateKey(cut) \/ WriteFails(cut)
    \/ KillStart \/ StartEnded

FirstStartSpec == FirstStartInit /\ [][FirstStartNext]_firstStartVars

-----------------------------------------------------------------------------
(* Properties.                                                             *)

\* The server never runs with another issuing key than the one its fabric was
\* made or imported with: across any starts, kills between the two files and
\* a key that was cut short, it refuses to start instead (controller.rs:103).
KeyGoesWithFabric ==
    running.at = "up" =>
        running.key = running.fabric.number /\ storage = [fabric |-> running.fabric, key |-> running.key]

\* A start that fails for its source, for want of a fabric or of the key leaves
\* storage as it was: nothing stands in the way of importing from a source
\* that has been mended (main.rs:263, controller.rs:354).
FailedStartLeavesNothing == running.at = "failed" => storage = before

\* A fabric is adopted only as what the other server used: the devices on it
\* look for that identity (controller.rs:251).
AdoptedIsTheSources ==
    running.at \in {"persist", "key"} /\ source.asked =>
        /\ running.fabric.identity = source.recorded
        /\ source.compressed \in {running.fabric.identity, NoIdentity}

\* Once a fabric is there, no start puts another in its place, whatever it is
\* asked to import (controller.rs:154).
FabricStays == before.fabric # NoFabricYet => storage.fabric = before.fabric

\* A fabric, once made or adopted, is the one the server runs, with its own key.
FabricIsKept ==
    KeyGoesWithFabric /\ FailedStartLeavesNothing /\ AdoptedIsTheSources /\ FabricStays
=============================================================================
