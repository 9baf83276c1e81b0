------------------------------- MODULE Import -------------------------------
(***************************************************************************)
(* Reading a matterjs-server installation (server/src/migrate/store.rs,    *)
(* model.rs): which driver wrote a directory, the write-ahead log with its *)
(* snapshot, and what is made of the fabric, the certificate authority and *)
(* the node list found there.                                              *)
(*                                                                         *)
(* matter.js is external: it writes the log and is killed at any moment,   *)
(* and the import may read what it finds then: a line cut short, between   *)
(* two characters or inside one, and a compressed copy of a segment that   *)
(* was just begun.  A snapshot is taken to be whole.  A context path is a  *)
(* sequence of names; a value is a number, 0 for none.  The files of the   *)
(* installation are chosen once, in Init.                                  *)
(***************************************************************************)
EXTENDS Integers, Sequences, SequencesExt, FiniteSets

CONSTANTS
    ContextPaths,  \* the contexts that are written
    ContextKeys,   \* the keys in a context
    ImportIds,     \* node ids
    Peers,         \* the names of per-peer contexts, in order
    MaxLines,      \* bound: lines of the log
    MaxSegments    \* bound: segments of the log

ASSUME ImportAssumption ==
    /\ \A p \in ContextPaths : p \in Seq(STRING)
    /\ ImportIds \subseteq Nat \ {0} /\ Peers \in Seq(STRING)
    /\ {MaxLines, MaxSegments} \subseteq Nat

VARIABLES
    wal,       \* the segments of the log, each a sequence of lines
    copies,    \* how far each segment is compressed
    kept,      \* the first segment that was not deleted
    snapshot,  \* the snapshot: what it holds and the last line it covers
    truth,     \* what matter.js has committed
    install    \* the rest of the installation

importVars == <<wal, copies, kept, snapshot, truth, install>>

Cells == ContextPaths \X ContextKeys
Empty == [c \in Cells |-> 0]
NoCommit == <<0, 0>>
NoSnapshot == [there |-> FALSE, holds |-> Empty, upTo |-> NoCommit]

\* A line of the log: a commit of one operation, or nothing that can be read:
\* blank, cut short between two characters, or inside one.
NoLine(op) == [op |-> op, path |-> <<>>, key |-> "", value |-> 0]
Blank == NoLine("blank")
Torn == NoLine("torn")
CutInside == NoLine("cut_inside")
NoLines == {Blank, Torn, CutInside}
CommitLines ==
    [op : {"upd"}, path : ContextPaths, key : ContextKeys, value : {1, 2}]
        \cup [op : {"del_key"}, path : ContextPaths, key : ContextKeys, value : {0}]
        \cup [op : {"del_tree"}, path : ContextPaths \cup {<<>>}, key : {""}, value : {0}]

-----------------------------------------------------------------------------
(* Which driver, and which namespace.                                      *)

Drivers == {"wal", "file", "json"}

\* What a driver leaves in its directory, with a descriptor or, in an older
\* installation, without.  A blob directory holds the images uploaded so far.
Written(driver, described, uploads) ==
    (IF described THEN {"driver.json"} ELSE {})
        \cup (CASE driver = "wal" -> {"snapshot"} [] driver = "json" -> {"storage.json"}
                [] driver = "file" -> {"file"} [] OTHER -> IF uploads THEN {"image"} ELSE {})

\* Mutant: any file makes it the driver of files.
DetectFilesFirst(files, kind) ==
    IF "driver.json" \in files THEN IF kind \in Drivers THEN kind ELSE "unsupported"
    ELSE IF files # {} THEN "file" ELSE "not_storage"

\* detect_driver.
DetectDriver(files, kind) ==
    IF "driver.json" \in files THEN IF kind \in Drivers THEN kind ELSE "unsupported"
    ELSE IF "snapshot" \in files THEN "wal"
    ELSE IF "storage.json" \in files THEN "json"
    ELSE IF files # {} THEN "file" ELSE "not_storage"

\* MatterJsStorage::open, for one directory.  The driver of files reads every
\* file as text, which an image is not.
OpenDirectory(files, kind) ==
    LET driver == DetectDriver(files, kind)
    IN  IF driver = "file" /\ "image" \in files THEN "refused" ELSE driver

FabricContexts == <<"credentials", "MatterController", "certificates", "fabrics">>
CaContexts == <<"credentials", "certificates", "RootCertificateManager">>

\* The first context of a list, newest first, that has something.
FirstIn(contexts, S) ==
    LET holding == {i \in 1 .. Len(contexts) : contexts[i] \in S}
    IN  IF holding = {} THEN "none" ELSE contexts[Min(holding)]

\* fabric_config.
HoldsFabric(ns) == FirstIn(FabricContexts, ns.fabricIn) # "none"

\* find_controller_namespace: the one asked for, the default one, or the only
\* one, as long as it holds a fabric.
FindControllerNamespace(requested) ==
    LET holding == {n \in DOMAIN install.namespaces : HoldsFabric(install.namespaces[n])}
    IN  IF requested # "none" THEN IF requested \in holding THEN requested ELSE "none"
        ELSE IF "server" \in holding THEN "server"
        ELSE IF Cardinality(holding) = 1 THEN CHOOSE n \in holding : TRUE
        ELSE "none"

\* The certificate authority that the fabric is taken to be issued by: the
\* first there is.
AuthorityOf(ns) == FirstIn(CaContexts, ns.rootIn)
NoIssuer == <<"none", "none">>

\* Mutant: without the intermediate's key, the root's is used.
IssuerKeyAny(ns) ==
    LET ca == AuthorityOf(ns)
    IN  IF ca = "none" THEN NoIssuer
        ELSE IF ns.icac = "held" /\ ca \in ns.icacKeyIn THEN <<ca, "icac">>
        ELSE IF ca \in ns.rootKeyIn THEN <<ca, "root">> ELSE NoIssuer

\* read_issuer_key: the key that certificates of new devices are signed with.
\* An intermediate certificate that does not read as bytes is taken for none.
IssuerKey(ns) ==
    LET ca == AuthorityOf(ns)
    IN  IF ca = "none" THEN NoIssuer
        ELSE IF ns.icac = "held" THEN IF ca \in ns.icacKeyIn THEN <<ca, "icac">> ELSE NoIssuer
        ELSE IF ca \in ns.rootKeyIn THEN <<ca, "root">> ELSE NoIssuer

\* read_fabric: every part must be there.
Importable(requested) ==
    /\ FindControllerNamespace(requested) # "none"
    /\ LET ns == install.namespaces[FindControllerNamespace(requested)]
       IN  ns.operationalKey /\ IssuerKey(ns) # NoIssuer

-----------------------------------------------------------------------------
(* The node list.                                                          *)

BareNode == "no address"

\* Mutant: a later mention of a node starts its entry afresh.
RecordAfresh(nodes, ids) ==
    [n \in DOMAIN nodes \cup ids |-> IF n \in ids THEN BareNode ELSE nodes[n]]

\* record: the entry of each node, bare if this is its first mention.
Record(nodes, ids) ==
    [n \in DOMAIN nodes \cup ids |-> IF n \in DOMAIN nodes THEN nodes[n] ELSE BareNode]

\* A peer whose state names no node is skipped (id 0).
RecordPeer(nodes, peer) ==
    LET id == install.peers[peer]
    IN  IF id = 0 THEN nodes ELSE [Record(nodes, {id}) EXCEPT ![id] = peer]

\* read_nodes: the list, then each peer's own state, then the older layout.
ReadNodes ==
    LET listed == Record([n \in {} |-> BareNode], install.listed)
        after[i \in 0 .. Len(Peers)] ==
            IF i = 0 THEN listed ELSE RecordPeer(after[i - 1], Peers[i])
    IN  Record(after[Len(Peers)], install.older)

-----------------------------------------------------------------------------
(* The write-ahead log.                                                    *)

\* apply_commit: an update, a key or a context with everything beneath it.  A
\* line that cannot be read is skipped.
ApplyCommit(holds, line) ==
    [c \in Cells |->
        IF line.op = "upd" /\ c = <<line.path, line.key>> THEN line.value
        ELSE IF \/ line.op = "del_key" /\ c = <<line.path, line.key>>
                \/ line.op = "del_tree" /\ IsPrefix(line.path, c[1])
             THEN 0
        ELSE holds[c]]

\* Mutant: blank lines are not counted.
PlaceUncounted(segment, offset) ==
    <<segment, Cardinality({i \in 1 .. offset : wal[segment][i] # Blank})>>

\* Where a line is: its segment, and its number in it, blank lines included.
Place(segment, offset) == <<segment, offset>>

AtOrBefore(x, y) == x[1] < y[1] \/ (x[1] = y[1] /\ x[2] <= y[2])

\* Whether the snapshot covers a line.
Covered(segment, offset) == AtOrBefore(Place(segment, offset), snapshot.upTo)

\* wal_segments prefers the compressed copy: one that has no byte yet is a
\* segment without lines.
Emptied(n) == copies[n] = "begun"

\* The lines of a segment, in order, past the one the snapshot covers.
ReplaySegment(holds, n) ==
    IF Emptied(n) THEN holds ELSE
    LET after[i \in 0 .. Len(wal[n])] ==
            IF i = 0 THEN holds
            ELSE IF Covered(n, i) THEN after[i - 1] ELSE ApplyCommit(after[i - 1], wal[n][i])
    IN  after[Len(wal[n])]

\* read_wal: the snapshot, and then the segments that are there, in order.
ReadWal ==
    LET read[n \in 0 .. Len(wal)] ==
            IF n = 0 THEN snapshot.holds
            ELSE IF n < kept THEN read[n - 1] ELSE ReplaySegment(read[n - 1], n)
    IN  read[Len(wal)]

\* read_maybe_gzipped: a copy that ends early, or a segment that ends inside a
\* character, refuses the whole import, covered by the snapshot or not.
SegmentFails(n) ==
    \/ copies[n] = "part"
    \/ ~ Emptied(n) /\ \E i \in 1 .. Len(wal[n]) : wal[n][i] = CutInside
LogUnreadable == \E n \in kept .. Len(wal) : SegmentFails(n)

-----------------------------------------------------------------------------
(* What matter.js does (external).                                         *)

Lines == FoldLeft(LAMBDA n, s : n + Len(s), 0, wal)
LastSegment == Len(wal)
LastLine == Len(wal[LastSegment])
Writes(line) ==
    /\ Lines < MaxLines
    /\ wal' = [wal EXCEPT ![LastSegment] = Append(@, line)]
EndsTorn == LastLine > 0 /\ wal[LastSegment][LastLine] \in {Torn, CutInside}

MjCommit(line) ==
    /\ ~ EndsTorn /\ Writes(line)
    /\ truth' = ApplyCommit(truth, line)
    /\ UNCHANGED <<copies, kept, snapshot, install>>

\* A line that a kill has cut short was never committed.
MjKilled(line) ==
    /\ line \in NoLines /\ ~ EndsTorn /\ Writes(line)
    /\ UNCHANGED <<copies, kept, snapshot, truth, install>>

MjRotate ==
    /\ LastSegment < MaxSegments /\ LastLine > 0
    /\ wal' = Append(wal, <<>>) /\ copies' = Append(copies, "plain")
    /\ UNCHANGED <<kept, snapshot, truth, install>>

\* A segment that is complete is compressed beside itself and then deleted; a
\* kill leaves it at any of these.
Stages == {"plain", "begun", "part", "both", "packed"}
StageAfter == [plain |-> "begun", begun |-> "part", part |-> "both", both |-> "packed"]
MjCompress(n) ==
    /\ n \in kept .. LastSegment - 1 /\ copies[n] \in DOMAIN StageAfter
    /\ copies' = [copies EXCEPT ![n] = StageAfter[@]]
    /\ UNCHANGED <<wal, kept, snapshot, truth, install>>

\* A snapshot says which line it covers; some do not.
MjSnapshot(numbered) ==
    /\ LastLine > 0
    /\ snapshot' = [there |-> TRUE, holds |-> truth,
                    upTo |-> IF numbered THEN <<LastSegment, LastLine>> ELSE NoCommit]
    /\ snapshot' # snapshot
    /\ UNCHANGED <<wal, copies, kept, truth, install>>

\* A segment that the snapshot covers is deleted.
MjDrop ==
    /\ kept < LastSegment /\ kept < snapshot.upTo[1]
    /\ kept' = kept + 1
    /\ UNCHANGED <<wal, copies, snapshot, truth, install>>

-----------------------------------------------------------------------------

\* A fabric's intermediate certificate is none, held, or held and not readable;
\* signedBy is the authority that issued it.
NoFabric == [fabricIn |-> {}, icac |-> "none", operationalKey |-> FALSE, rootIn |-> {},
             signedBy |-> "none", icacKeyIn |-> {}, rootKeyIn |-> {}]
SomeFabrics ==
    [fabricIn : {{"credentials"}, {"MatterController"}, {"fabrics"}},
     icac : {"none", "held", "unreadable"}, operationalKey : BOOLEAN,
     rootIn : {{"certificates"}, {"certificates", "RootCertificateManager"}},
     signedBy : {"certificates", "RootCertificateManager"},
     icacKeyIn : {{}, {"certificates"}}, rootKeyIn : {{}, {"RootCertificateManager", "certificates"}}]
PlainInstall ==
    [files |-> {}, kind |-> "none", by |-> "none", namespaces |-> [n \in {"server"} |-> NoFabric],
     listed |-> {}, peers |-> [p \in ToSet(Peers) |-> 0], older |-> {}]

\* An interesting directory, certificate authority or node list.
DirectoryOf(driver, described, uploads) ==
    [PlainInstall EXCEPT !.files = Written(driver, described, uploads), !.by = driver,
                         !.kind = IF described THEN driver ELSE "none"]
FabricsIn(namespaces) == [PlainInstall EXCEPT !.namespaces = namespaces]
NodesIn(listed, peers, older) ==
    [PlainInstall EXCEPT !.listed = listed, !.peers = peers, !.older = older]

DirectoryInstalls ==
    {DirectoryOf(d, t, u) : d \in Drivers \cup {"blob"}, t \in BOOLEAN, u \in BOOLEAN}
SomeNamespaces ==
    {[server |-> f, other |-> g] : f \in SomeFabrics \cup {NoFabric},
                                   g \in {NoFabric, [NoFabric EXCEPT !.fabricIn = {"fabrics"}]}}
        \cup {[other |-> f] : f \in SomeFabrics}
FabricInstalls == {FabricsIn(namespaces) : namespaces \in SomeNamespaces}
NodeInstalls == {NodesIn(l, p, o) : l \in SUBSET ImportIds, o \in SUBSET ImportIds,
                                    p \in [ToSet(Peers) -> ImportIds \cup {0}]}
Installs == {PlainInstall} \cup DirectoryInstalls \cup FabricInstalls \cup NodeInstalls

ImportInit ==
    /\ wal = <<<<>>>> /\ copies = <<"plain">> /\ kept = 1
    /\ snapshot = NoSnapshot /\ truth = Empty
    /\ install \in Installs

ImportNext ==
    /\ install = PlainInstall
    /\ \/ \E line \in CommitLines : MjCommit(line)
       \/ \E line \in NoLines : MjKilled(line)
       \/ \E n \in 1 .. Len(wal) : MjCompress(n)
       \/ MjRotate \/ (\E numbered \in BOOLEAN : MjSnapshot(numbered)) \/ MjDrop

ImportSpec == ImportInit /\ [][ImportNext]_importVars

-----------------------------------------------------------------------------
(* Properties.                                                             *)

\* Nothing that a kill has cut short is left.
NothingCutShort ==
    \A n \in kept .. Len(wal) :
        /\ copies[n] \notin {"begun", "part"}
        /\ \A i \in 1 .. Len(wal[n]) : wal[n][i] \notin {Torn, CutInside}

\* A segment with lines past the snapshot, behind a copy without a byte.
HiddenSegment ==
    \E n \in kept .. Len(wal) : Emptied(n) /\ ~ Covered(n, Len(wal[n]))

\* The log and the snapshot read back as exactly what matter.js has committed
\* (migrate/store.rs:354): no commit is replayed on a snapshot that a later one
\* has changed, none is skipped and none comes from a line cut short; or the
\* import is refused, which it is only after a kill.  A kill between the
\* creation of a compressed copy and its first byte hides the segment's
\* commits, and the import does not notice.
LogReadsBack ==
    /\ NothingCutShort => ~ LogUnreadable
    /\ LogUnreadable \/ HiddenSegment \/ ReadWal = truth

\* A directory is read with the driver that wrote it, described or not, and
\* uploaded images are never taken for storage: their directory is skipped,
\* unless it is an older one without a descriptor and holds an image, which
\* stops the whole import (migrate/store.rs:236).
DriverIsRecognised ==
    install.by # "none" =>
        LET found == OpenDirectory(install.files, install.kind)
        IN  IF install.by = "blob"
            THEN /\ found \in {"unsupported", "not_storage", "refused"}
                 /\ found = "refused" => install.files = {"image"}
            ELSE found = install.by

\* The fabric's own certificates run through an intermediate authority.
HasIntermediate(ns) == ns.icac \in {"held", "unreadable"}

\* A fabric that is taken over can go on issuing: with the key of the
\* authority its own certificates run through, never with another
\* (migrate/model.rs:287).  Two cases the code does not tell apart: an
\* intermediate certificate that is there and not readable, and a fabric that
\* another than the first authority has issued.
IssuerMatchesChain ==
    \A requested \in {"none"} \cup DOMAIN install.namespaces : Importable(requested) =>
        LET ns == install.namespaces[FindControllerNamespace(requested)]
        IN  /\ HoldsFabric(ns)
            /\ \/ ns.icac = "unreadable" \/ ns.signedBy # AuthorityOf(ns)
               \/ IssuerKey(ns) = <<ns.signedBy, IF HasIntermediate(ns) THEN "icac" ELSE "root">>

\* Every node that any layout mentions is imported, with the addresses of the
\* peer that is it (migrate/model.rs:374).
EveryNodeIsImported ==
    LET peersOf(id) == {p \in ToSet(Peers) : install.peers[p] = id}
    IN  /\ DOMAIN ReadNodes =
              install.listed \cup install.older
                  \cup {id \in ImportIds : peersOf(id) # {}}
        /\ \A id \in DOMAIN ReadNodes :
              IF peersOf(id) = {} THEN ReadNodes[id] = BareNode
              ELSE ReadNodes[id] \in peersOf(id)

\* An import that is not refused takes over what the other server had: all of
\* it, as it was last committed, and with a key that its devices accept, but
\* for the cases named above (migrate/mod.rs:56).
ImportIsFaithful == LogReadsBack /\ DriverIsRecognised /\ IssuerMatchesChain /\ EveryNodeIsImported
=============================================================================
