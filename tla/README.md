# Formal model of the Matter server

TLA+ specifications of the server under `src/server/src` (a Matter controller
with a websocket API), TLC configurations that check them on small instances,
and TLAPS proofs of what holds on every instance. Paths below are relative to
`src/server/src` unless they begin with `docs/`.

## 1. The system

One process. The *server thread* accepts sockets and runs the shutdown
(`main.rs`, `ws/mod.rs`). Each connection has a thread of its own, which
handles one request at a time (`ws/connection.rs`). The *Matter
thread* runs the controller actor, the transport and the report handler
(`matter/`). The *monitor thread* keeps nodes current (`monitor.rs`). The
*topology watcher* and the *node-store writer* are threads of their own. They
share the stores (`storage/`), the event bus (`api/mod.rs`) and the
subscription registry (`matter/subscriptions.rs`).

| Component | State | Operations | Talks to |
|---|---|---|---|
| Node store (`storage/nodes.rs`) | node map, `WriterState` (dirty, running, last_write), `nodes.json` | upsert, remove, update, apply_interview, merge_attributes, save, save_soon, flush, load | everything; file system |
| Private files (`storage/mod.rs`) | `*.tmp`, the file, the directory | write_private | node store, configuration |
| Configuration (`storage/config.rs`) | label, next id, credentials, ICD registrations | mutate and its callers | API, check-in |
| Registry (`matter/subscriptions.rs`) | node → subscription id, last report | established, accepts, note_report, is_live, forget_silent | monitor, reports |
| Monitor (`monitor.rs`) | `last_polled`, the pass | maintain_node, poll_node, mark_available | actor, registry, store, bus |
| Reports (`matter/reports.rs`) | none of its own | handle_report, verdict | registry, store, bus |
| Actor (`matter/actor.rs`) | a queue of 8, futures in flight | one operation per request, interleaved; callers time out | devices |
| Commissioning (`api/commissioning.rs`, `matter/commissioning.rs`) | requests and actor operations under way | commission_with_code, commission_on_network, commission | configuration, actor, node store, bus |
| Start (`main.rs`, `matter/controller.rs`, `migrate/`) | fabric and key files, imported state | init_controller_with_import, apply_state, load, reserve | stores |
| Event bus (`api/mod.rs`) | subscribers, a channel of 256 each | subscribe, publish | all publishers and listeners |
| Connections (`ws/connection.rs`, `protocol/events.rs`) | opt-ins, the frame in hand | greet, handle a command, send an event, drop a stale client | bus, API |
| Topology watcher (`api/network.rs`) | last graph | watch: recv, drain, build, publish | bus, store |
| Fabric label (`api/server_info.rs`, `api/fabrics.rs`, `api/mod.rs`) | owner, label in three places | claim, set, release | actor, configuration, nodes |
| OTA (`api/ota.rs`, `matter/ota_provider.rs`) | reservations (4), images | reserve, redeem, store, best_match, read_image | connections, devices |
| Check-in (`matter/checkin.rs`, `api/icd.rs`) | last counter per registration | identify, note_icd_counter | configuration |
| Thread diagnostics (`api/thread_diagnostics.rs`, `matter/otbr_rest.rs`) | collections in flight, cached capability, the router's queue and items | collection, execute, collect, query_node | border routers, bus |
| Ledger client (`matter/dcl.rs`) | answers cached for an hour | check_update, published_image, download_image | ledger, OTA |
| Discovery (`matter/mdns_browser.rs`, `ws/mod.rs`) | instances heard in one window | browse, collect_answers, select_interface | links, API |
| Windows and codes (`api/commissioning.rs`) | none of its own | open_commissioning_window, discover | actor, devices |
| Network graph (`api/network.rs`) | none of its own; diagnostics in the node store | build_topology, refresh_diagnostics | node store, watcher |
| Request heads (`ws/http.rs`) | bytes read so far | read_head, parse_head, Prefixed | connections |
| Import (`migrate/`) | none of its own | detect_driver, read_wal, read_fabric, read_nodes | the other server's files, start |

What makes it hard: state is read, then an await of up to minutes, then it is
used; the store is changed under a lock and the event published after it; a
caller gives up and the actor does not; files are replaced by several system
calls, and a kill may fall between any two; channels are bounded and a slow
listener is cut off. The hazards are listed one by one, at their lines, in
`PROJECT.json`.

What makes each part correct:

* node store: a kill leaves a file that loads; what was acknowledged stays;
  what was promised is written; exactly one writer, paced, that stands down;
* monitor, registry, reports: reports are applied only on a subscription of
  ours; a silent device is noticed and a slow one is not; a removed node stays
  removed; store and clients converge to the device;
* bus, connections, watcher: a stream without gaps until it is cut; a cut
  listener is disconnected, so that it re-syncs; a listener is informed; the
  graph follows the nodes;
* commissioning and start: an id is issued once, over kills and imports; a
  device on the fabric is known to the server; a fabric is never replaced, and
  never runs with a key that is not its own;
* Matter thread: every call returns, and success means that the device has done
  it;
* label, credentials, check-ins: the copies of one fact agree whenever nobody is
  changing it; a secret stays with what it was given for; a message counts once;
* firmware: an upload id is good for one upload, an image from the ledger is the
  one it vouches for, and a device reads one image;
* Thread diagnostics: one sweep at a time, which ends, and whose batch has each
  node once and nothing older than itself;
* discovery, graph, items, windows, heads, import: what was heard, reported,
  sent or written by the other side comes out whole, in whatever pieces, order
  and spelling it arrived.

## 2. Modules

| Module | Models | Kind |
|---|---|---|
| `NodeStore` | node store and write_private | detailed |
| `DurableMap` | what a saved map promises | abstract; `NodeStore` implements it |
| `NodeStoreProofs` | | theorems |
| `Monitoring` | monitor, registry, reports, node requests, devices | composed |
| `MonitoringProofs` | | theorems |
| `EventBus` | bus, connections, opt-ins, watcher, shutdown | composed |
| `EventStream` | the stream a subscriber is promised | abstract; `EventBus` implements it |
| `EventBusProofs` | about `EventBus` and `Topology` | theorems |
| `Commissioning` | start, import, ids, commissioning, removal | composed |
| `CommissioningProofs` | | theorems |
| `Actor` | the Matter thread, its channel and callers, exchanges | detailed |
| `FabricLabel` | the label's owner, its places and the devices | composed |
| `Credentials` | both lists of network credentials | detailed |
| `CheckIn` | ICD registrations, devices and their check-ins | composed |
| `Firmware` | uploads, image store, ledger client, provider, a device | composed |
| `ThreadDiagnostics` | callers, collections, the border router | composed |
| `BorderRouterItem` | the reading of one item, in both spellings | algorithm against a reference |
| `Topology` | the graph and the refreshes it is built from | algorithm against a reference |
| `Browser` | the mDNS browse, the responder's interface, names | detailed |
| `Pairing` | commissioning windows, codes, discovery filters | composed |
| `RequestHead` | the head of a connection, read in pieces | detailed |
| `Import` | layouts, log, issuing key and node list of an import | algorithms against references |
| `FirstStart` | the fabric and its key, over starts, imports and kills | detailed |
| `StartProofs` | about `FirstStart`, `Actor` and `Import` | theorems |
| `ServicesProofs` | about `FabricLabel`, `Firmware`, `ThreadDiagnostics` and `CheckIn` | theorems |
| `ClientProofs` | about `Credentials`, `Pairing`, `RequestHead` and `Browser` | theorems |
| `Loops` | facts about numbers and loops, for the proofs | lemmas |
| `MC*` | constants for TLC, and the parts put side by side | instances |

### NodeStore

The map is a version number; every change makes a new one. `save()` is one
step per lock region and per system call: `SaveClear` (dirty off, last_write),
`SaveSnapshot`, `OpenTmp` (create or truncate `nodes.tmp`), `WriteTmp`,
`SyncTmp`, `Rename`; `SaveFault` is a system call that fails. A file is an
inode with a content (a version, `Empty`, `Torn`) that may or may not have
reached the disk, and `nodes.json` is a directory entry, in memory (`path`)
and on disk (`stable`). A kill loses the process, a power loss also what was
not synced. The writer thread is its loop: check, wait with a time-out, sleep
until due, save. Time is a tick; `Interval` is WRITE_INTERVAL.

`overlap` records that two saves were under way at once. The promises about
the *file* are stated until then, because the code takes no lock across
snapshot and rename; `node_store_overwrite` shows what happens then. The
promises about the *writer thread* hold without that proviso. Two savers may
have the same inode open; a write leaves it `Torn` only while it puts other
bytes over those that are there. `owed` is the newest version that was promised
when flush() looked: what is promised later is nobody's loss.

### Monitoring

A device has a value (a counter), may hold a subscription, reports changes and
keepalives one at a time, loses subscriptions, becomes unreachable and
returns. Server steps end where the code awaits or releases a lock:
`MonVisit` issues the subscribe, `SubscribeConfirmed/Refused/Unreachable/
Timeout` are its outcomes, `LateSubscribe` is the actor finishing for a caller
that left, `MonEstablished` enters the registry, `MonApply` merges the priming
value (first interview or change), `MonPoll*` is the fall-back to polling,
`MonMark` the availability. `ReportAccepted/Disowned/Applied/Undecodable` are
the report handler; `RemoveFabric/RemoveNode`, `InterviewRead/InterviewApply`
and `PingEnds`, `PingNode` the requests. Each change hands its event to `Publish`
as a second step of the same thread, unless a request's save() fails
(`Withhold`, `InterviewUnsaved`): then the change stays in memory and nothing is
published. `crossed`, `overtaken` and `unannounced` record that a value
was written over a newer one, that another thread changed a node whose
event was still to be published, and that a node's last change was kept back by
a failing save.

### EventBus

Channels are bounded sequences; `Publish` drops a subscriber whose channel is
full, as `retain` does. A connection subscribes, sends the greeting, then
alternates between commands and events (`conn`); `start_listening` opts in,
reads the node list in the same handler, and the answer is sent after an
await. The watcher receives, drains what is queued, builds the graph from the
store and publishes if it changed. `announced` is the newest store version any
event (and any event that names a node) has announced.

### Commissioning

See the module comment. A start is `Start` (is there a fabric?),
`InstallFabric`, `PersistKey`, `ApplyNodes`, `ApplyConfig`, `Load`; a kill may
fall between any two. A commissioning request is `Allocate`, the actor's
operation (`OpAddNoc`, `OpComplete`, `OpPersist`, or a failure), `StoreNode`,
`SaveNode`, the interview and `Announce`; every error returns to
`commission_with_code`, which tries again over Bluetooth. A caller may time out
(`Timeout`) while its operation goes on. Saves are one step here: what happens
inside one is `NodeStore`'s subject.

### The parts beside the core

Each module's opening comment says what its state stands for; the actions carry
the names of the functions they model.

* `Actor`: a call is sent to a bounded channel (`HasRoom`), taken by the run
  loop, and moves from "taken" to "open" to its reply in chunks; the loop polls
  what is in flight only when nothing waits in the channel (`MayTake`,
  `Polls`). An operation that concerns no device fails like any other, also for
  want of a fabric. A caller may leave (`Expire`), its request goes on. The thread may
  end at any time, which drops what is queued.
* `FabricLabel`: `SetLabel` claims and normalises; then, one step each, the
  fabric (in the Matter thread, which may be slower than the caller's time-out),
  the configuration, the cache, and one push per node of a snapshot. Beside it
  commissionings store a node, read the label and tell it. `split`, `missed` and
  `overtaken` record a set that failed halfway, a node that could not be told
  and one that was told an older label last.
* `Credentials`: an id is a name and how it is written; every set, removal and
  restart, with saves that fail after memory has changed.
* `CheckIn`: registration is a request to the device and then a save;
  unregistering drops the key first, from memory also when it cannot be dropped
  from the file; messages
  in flight may arrive late or twice; the counter has a small range and wraps.
* `Firmware`: reservations, uploads and their headers; the ledger publishes and
  revokes while answers are cached; `update_node` from the check to the
  announcement, step by step, with the version that the stored attributes have
  of the device, which may be an older one; the device queries and reads block by block.
* `ThreadDiagnostics`: callers join or start a collection; a collection probes,
  clears, discovers, runs workers over its jobs with attempts, makes a final
  pass, leaves the list and stores. The router keeps items and finishes tasks
  that were given up.
* `Pairing`: a request names the window's passcode, discriminator and time or
  leaves them to chance; the device keeps the last window opened; discovery
  filters by what an announcement may or may not say of itself (both
  discriminators, vendor, product, kind). When the server cannot browse by
  itself, `discover` leaves browse and filter to rs-matter, which is external.
* `Import`: the log is written by matter.js, which may be killed in the middle of
  a line, of a character, or of compressing a segment (`copies`). A directory is
  what a driver or the uploads leave in it (`Written`), and `OpenDirectory` says
  how it is read.
* `Topology`, `BorderRouterItem`, `Import`, `Pairing`'s filters: the code's
  algorithm as loops over sequences, compared with a definition that says what
  the result should be without saying how it is found.
* `Browser`: the query per link, each of which may fail; the responder's socket,
  which may not be had; any sequence of answers, a record and its SRV in one or
  apart;
  the walk of a compressed name over every message of a few cells.
* `RequestHead`: the network cuts a request into any pieces.
* `FirstStart`: a start asked to import or not, from sources that agree with
  themselves or not; storage is two files and the second is written in place.

## 3. Runs

Every bound is a CONSTANT named in the module. Instances are small because the
properties are about one node, one file, one listener and the threads around
it: a second node shares no state with the first but the threads, which a
request or a pass occupies either way.

| Run | Instance | Shows |
|---|---|---|
| `node_store` | one handler, one reporter, 2 changes, 2 crashes, 1 exit, 1 fault, 5 inodes | writer, pacing, file, DurableMap: a crash in each of two consecutive saves, and one during recovery of the other |
| `threads` | writer: 3 changes, Interval 2, no crash; Matter thread: two callers, a channel of 1, 2 calls | liveness of the writer beside a saving handler, and of callers of the Matter thread |
| `node_store_flush` | reporter and exit | **violation**: a clean exit while the writer is inside save(), with the change promised before |
| `node_store_overwrite` | two handlers | **violation**: an older snapshot written last, over the newer one |
| `monitoring` | one node, interval 2, delay 1, one each of change, outage, time-out, request, failing save; 2 subscription ids | registry, reports, removal, client view |
| `monitoring_recovery` | 3 subscription ids, no requests | recovery after every loss; unreachable nodes are marked |
| `monitoring_priming` | 2 changes, nothing fails | **violation**: a report overtaken by the priming value |
| `event_bus` | two publishers, a connection, the watcher, channels of 2, 3 changes | gap-free stream, informed listener, drained watcher |
| `event_bus_stale` | the other events and commands, channel of 1 | a stale connection is ended, shutdown is told |
| `event_bus_watcher` | 5 changes, channel of 2 | **violation**: the watcher is dropped and never returns |
| `commissioning` | two connections, three devices (one imported), 2 requests, 4 ids, 2 kills, 1 time-out, 1 fault | ids, knowledge of devices, announcements |
| `services` | one part per behaviour, see below | everything in the table of the next section |

Deadlock is not checked: every bound, once used up, ends the behaviour, and
the server may be idle or exited.

The violations are disagreements between the code and its own comments;
`PROJECT.json` quotes both. Their causes are among the provisos of the passing
runs: `overlap`, `crossed`, `overtaken`; `unannounced` is one more (section 5).

`node_store_flush`: a reporter's change is promised (`SaveSoon`), the writer
thread comes to it and clears dirty (`SaveClear`), `Flush` finds nothing to do,
and `Exit` ends the process with the write unfinished. `node_store_overwrite`:
both handlers have opened the one `nodes.tmp`; the newer snapshot is written to it
and then the older one over it; the handler with the newer one renames the file
and is acknowledged, and the rename of the other fails. A save that opens the
file after the other's rename may as well be the last to rename with the older
snapshot.

`commissioning` is large enough for every way an id or a device can be lost:
the imported device has id 1, the first the counter would issue; two requests
with a second attempt each want four ids; one kill can fall into the import and
another into the commissioning that follows it; two connections make a removal
meet a commissioning of the same node.

### The parts of `services`

`MCServices` puts the modules side by side: the variable `part` says which of
them a behaviour is about, and only that one moves. They share no variable, so
the product of their states would show nothing more. What couples them with the
core is in the core's modules (the label's nodes are `Commissioning`'s, the
images' connections are `EventBus`'s), at the level the property needs.

Each part has one invariant, the conjunction of the named promises beside it;
every conjunct is broken by a mutant of its own in `PROJECT.json`.

| Part | Bounds, and why they are enough | Properties |
|---|---|---|
| label | 2 connections, 2 nodes, one of them commissioned meanwhile, 3 requests, 1 fault, labels cut at 2: a set, a second one by another connection and a commissioning in any order | `OneLabel`: `OneSetterAtATime`, `PlacesAgree`, `DevicesFollow` |
| credentials | a reserved, an empty and an ordinary name in two spellings, 2 networks, 4 operations: set, replace, remove, set again | `CredentialsAreKept`: `SecretsStayWithTheirNetwork`, `EveryListedIdLeadsBack` |
| icd | 2 connections, 2 devices, 2 keys, 2 messages, counters of 2 values: a replay, a wrap and a re-registration | `CheckInsAreHeardOnce`: `NoReplay`, `KeysAgree`, `NextIsFresh` |
| firmware | 1 slot, 1 ticket, 2 versions above the device's, 2 blocks, 1 update: a limit, an expiry, a newer version between two blocks | `ImagesAreGenuine`: `TicketsAreSingleUse`, `LedgerVouchesForImages`, `DownloadsAreWhole` |
| diagnostics | 2 mesh nodes, 2 workers, 2 attempts, 2 sweeps, 1 fault: a late result, a second sweep while the first is storing | `SweepsAreSound`: `OneSweepAtATime`, `WokenStartAnew`, `LostRouterIsProbed`, `EveryNodeHasAnEntry`, `SweepReadsItsOwn`; and `SweepsAdvance` |
| actor | 2 callers, a channel of 1, 2 calls, 2 chunks | `AnswersAreTrue`: `SuccessMeansDone`, `PartialReadsSucceed`, `HeardNodesResolve` |
| import | 3 log lines in 2 segments, cut short between or inside characters, compressed copies, snapshots; every directory, described or not, uploads included; every layout of 2 nodes, 2 peers and the issuing keys | `ImportIsFaithful`: `LogReadsBack`, `DriverIsRecognised`, `IssuerMatchesChain`, `EveryNodeIsImported` |
| topology | 2 nodes, strangers and an access point, one refresh of each: one reaches every combination of views, the skipped and the malformed included | `GraphIsTrue`: `GraphIsWellFormed`, `EveryLinkIsDrawn`, `DirectionsAreTrue` |
| browser | 3 answers out of those that differ in what matters (order, repetition, case, foreign records, records split over answers, a host with two SRVs); interfaces listed apart | `BrowseIsWhole`: `OneFamilyIsEnough`, `ResponderHasItsLink`, `HeardIsReported`, `EachAddressOnce` |
| names | every message of 3 cells, 2 jumps (16 in the code) | `BrowseIsWhole`: `NameWalkEnds`, `NameEndsWhereWritten` |
| item | every set of up to 4 malformed fields, both builds | `ItemsAreReadAlike`: `SpellingsAgree`, `SpoiltFieldsStayAlone` |
| pairing | 2 clients, 1 device, 2 windows, discriminators of 2 x 2 values (16 x 256 in the code) | `CodesWork`: `CodesOpenTheWindow`, `CodesFindTheDevice` |
| head | reads of up to 3 bytes, a limit of 8: the 4 bytes that end a head are always cut by some read | `HeadEndsWhereItEnds`: `HandshakeReadsAll`, `BodyIsCutOff`, `HeadIsBounded` |
| start | 3 starts, 2 kills, 2 identities: an import, a kill in the middle, a start after it | `FabricIsKept`: `KeyGoesWithFabric`, `FailedStartLeavesNothing`, `AdoptedIsTheSources`, `FabricStays` |

### Fairness

Only `threads`, `monitoring_recovery`, `event_bus_stale` and
`event_bus_watcher` assume any. Weak fairness is given to
steps of a thread that is running and blocked on nothing (the scheduler runs
it) and to time. Nothing is assumed of clients, devices that change, become
unreachable or return, faults or kills; a reachable device that holds a
subscription does send its reports (the protocol obliges it). `MonVisit` has
strong fairness because a pass looks at every node in turn, though between
visits the node may be live and not need one. The Matter thread is fair as a whole: it runs on, or it
ends; nothing is assumed of any one exchange, which a caller's timer bounds.
`SweepsAdvance` needs no fairness: it says that each step brings the end nearer;
nor does `NameWalkEnds`, which bounds the walk. A connection that is `busy` in a
request for ever starves its events, so `StaleIsEnded` and `ShutdownIsTold`
are conditional on it not being.

## 4. Proofs

The type invariants are proved and left out of the runs. Assumptions are the
named ASSUMEs of the modules, which TLC evaluates in every run: threads are
distinct, bounds and intervals are numbers, capacities positive, imported ids
distinct; a request is a sequence of bytes; the versions of a firmware are
finitely many; the cells of a message with names are labels, ends and pointers,
and a pointer is to a place in a message; the names of peers and the nodes of
the graph are sequences; a vertex made up for an address or an access point has
the id of no node and of no other (`unknown_`, `ap_`); the answers to a browse
and the lists of interfaces are sequences too, and the index of an interface is
positive, as the system numbers them; the default label has no blank at either end (it is a constant
of `storage/config.rs`); "nobody", which stands for no owner of the label, is
no connection. Spans of bits are numbers (`HighSpan`, `LowSpan` of
`Pairing`), so that nothing depends on what a power of two is.

* `NodeStoreProofs`. `TypeCorrect` needs `FdOpen` (a saver between open and
  rename has a file). `WriterInv` adds where each thread may be, and `PaceInv`:
  the age of the last write never exceeds the age of the last *coalesced*
  write, and a sleeping writer has enough left to sleep; it gives
  `WriterOwnsDirty`, `NoLostWakeup` and `CoalescedWritesPaced` with saves
  overlapping as they like. `FileInv` (until `overlap`): at most one thread is
  in save(), `nodes.tmp` is the file it has open and is neither the current nor
  the stable `nodes.json`, both of which are complete and synced, and versions
  on disk never exceed those made. It gives `IntactFile`, `AckedOnDisk` and
  `NothingForgotten`. `StoreIsDurable`: every step of the store is one of
  `DurableMap` or a stutter. What is new there is `DiskLags`: the directory on
  the disk never has a later version than the one in memory, so that a power
  loss goes back and never forward.
* `MonitoringProofs`. `ThreadInv` says what a thread holds where, and four
  invariants rest on it. `IdInv`: what the registry has was entered by the
  monitor and ids grow, which gives `ReportsAreOurs`; removal drops all a
  node has, and every step that could bring it back looks again
  (`GoneStaysGone`). `SilenceInv` bounds what the registry counts as silence by
  the device's own clock and the age of a report under way (`NoFalseSilence`).
  `CurrentInv`: the value of a subscribed device is in the store or carried by
  something that will put it there (`SubscribedIsCurrent`), and nothing carries
  a value the device has not had. `ViewInv`: a client has what the store has, or
  there is exactly one event left to publish and it says so (`ViewConverges`),
  or the node is `overtaken` or `unannounced`.
* `EventBusProofs`. `Numbered`: the numbers queued for a subscriber that still
  receives are consecutive, begin after the last it took and end with the last
  event published, or with the one at which it was cut. With it every step of
  the bus is a step of `EventStream` or a stutter: `StreamIsGapFree`.
  `ListenInv`: the last change announced is in the channel, in the hand of the
  connection, or known; it needs what a connection may hold in each state
  (`HandInv`), since a snapshot read before the answer is sent stands for all the
  events queued before it. `GraphInv` is the same of the watcher, for which
  draining a channel that holds no node event must leave a graph that is
  current. `GraphAlwaysTrue` is about the graph itself. Its invariant follows
  the building of it (`GraphSound`): the vertices so far, each once and all
  listed nodes among them; a link for each pair that was reported so far, and
  for no other; and on each link what was said last of either direction
  (`LinkSound`), nothing where its end has said nothing. Each entry of a table
  leads from one such graph to the next, for the pairs and the sayings up to it
  (`NeighbourAdded`, `RouteAdded`), so that the graph after the last one is what
  all tables report.
* `CommissioningProofs`. `IdInv`: every id that was ever issued, to an
  operation or by the server imported from, is below the counter *on disk* when
  the server is up; while it is starting it may instead be in the imported list
  or in `nodes.json`, from which the counter is raised before the first request.
  It gives `NeverReissued` and `IdsAreUnique`, unless a kill fell between the
  adopted fabric and its node list. `GhostInv`: a node the clients know and the
  store does not is one whose removal is about to be told, or in `raced`; it
  gives `NoGhosts`. `StrangerInv`: while the server is up a device on the fabric
  is listed in memory *and* on disk, in the hands of an operation or request, or
  lost; while it is down the list on disk is all there is. A step of one
  request must not take a device out of another's hands, which needs ids to be
  held by one (`Exclusive`). It gives `NoStranger`.
* `StartProofs`. `StageInv`: until the fabric is persisted storage is as the
  start found it and has no fabric; from then on it has the one the process
  holds; `KeyIsOwn`: a whole key is that of the fabric beside it. They give
  `FabricIsKept`. `CallInv` says what is so of a call at each of its steps and
  `QueueInv` that a call is in one place only, with one sender, in the channel
  or taken; they give `AnswersAreTrue`. `ImportInv` gives `ImportIsFaithful`: the
  last line to touch a cell, covered by the snapshot or not, has what was last
  committed to it (`LastInv`), so that replaying commits which a snapshot already
  has does no harm; a cell that no line past the snapshot touches is in the
  snapshot as committed (`BaseInv`); and a snapshot covers no line that is still to
  be written (`UpToInv`), which holds because blank lines are counted. An import
  that is refused owes nothing of that, but is only refused when a kill has cut
  something short (`NothingCutShort`); the one loss that goes unnoticed is
  `HiddenSegment`. Which driver, which key and which nodes are found is checked
  on `Installs`, for any node ids and peers.
* `ServicesProofs`. `LabelInv`: where the label of a set has come to in each of
  its steps (`PlaceInv`), and why a node may call the fabric something else
  (`Excused`). Because normalising twice may cut another blank, the invariant
  tells a label that begins well from one that also ends well. It gives
  `OneLabel`. `FirmwareInv` gives `ImagesAreGenuine`: an id is of one
  reservation and none once accepted (`TicketInv`); what the store has from the
  ledger is what the ledger published, carried there by a request that
  remembers what was revoked when it began (`VouchInv`); what a device has read
  is of the image that is there, or the image was replaced (`WholeInv`).
  `DiagInv` gives `SweepsAreSound`. Of each collection it says what its batch
  covers and from when everything is that it has read or will read (`SweepOK`),
  relative to the items and the clock of the border router: another collection
  or a late task may change both, and `RouterOn` is all it needs to know of that.
  The one that is listed is the one that has not ended (`ListedInv`).
  With it, and because a worker that asks has an attempt left (`AsksInv`), every
  step of a collection takes it to a later stage or one of its jobs nearer to its
  end (`SweepsAdvance`, as `SweepsGetOn`); no other actor's step takes it back.
  Of check-ins: a key is generated once, for one node (`OwnerInv`), and one
  that is still to be stored has read nothing (`PendingInv`); so what is in the
  air is no newer than its sender (`FreshInv`), what was accepted is covered by
  the counter even when it is noted under a later key than the one that read it
  (`OnceInv`), and a request under way explains every disagreement of device and
  store (`AgreeInv`). They give `CheckInsAreHeardOnce`. Its proviso `forgot` is
  about what was *accepted* under the key that the file has, and so survives a
  counter that is noted under another.
* `ClientProofs`. `PairingInv` gives `CodesWork`. `HeadInv` gives
  `HeadEndsWhereItEnds`: what was read is the places 1, 2, ... of the request;
  while the head is read there is no end of it in them; a body is what follows
  the first end; the handshake has read up to its position in them, or all.
  `CredInv` gives `CredentialsAreKept`: in memory and in the file a name is
  listed once and no reserved one is, and a password was sent for its network.
  `WalkInv` and `BrowserInv` give `BrowseIsWhole`, as `BrowseWhole`. Of a name:
  between two pointers a walk goes forward, so that the labels read are bounded
  by the cells of the message and the jumps made (`BoundInv`), and up to its
  first pointer a name is read as it is written (`WrittenInv`). Of a browse: the
  links still to be asked are distinct and none of those asked (`LinksInv`); what
  the map has of an instance is what the answers told of it, and its addresses
  are those that came with its SRV and those that came without one while it was
  alone (`HeardInv`), because the first pass over an answer changes no address
  (`AnswerEstablished`) and the second nothing else (`AnswerAttached`); and
  sorting keeps the set of addresses and puts them in order, after which what
  repeats the one before it is all that is there twice (`SortedIs`, `DedupIs`).

Some of these need an induction over data: that a head which ends has a first
end (`HasLeast`), that a finite set of versions has a greatest one, that
`retain` keeps some of the entries, each once (`RetainedKeepsSome`), that the
items of a router, handed over one after another, leave every node at its one
place in the batch (`AddItemsGrows`), and that the loops of the import, the graph
and the browser, written as recursive functions, have a value after each turn
(`LoopIsThere`) and keep what each turn leads on to (`LoopReaches`,
`GuardedLoop`). `Loops` has the lemmas that several of them share. The
library's induction theorems take an operator, which no installed prover
instantiates; the proofs take the least counterexample instead, which exists
because < is well founded on the numbers (`WFMin`).

Only model-checked: liveness, all of it, which is beyond the prover, and so the
runs `threads`, `monitoring_recovery` and `event_bus_stale`; and
`ItemsAreReadAlike`, which compares recursive operators, the reading of nested
items, with a reference.

## 5. What the models know and no run singles out

* a failed write leaves `dirty` clear: nothing retries it until the next change;
* a second save truncates the `nodes.tmp` a first one is writing;
* `forget` of the registry has no caller: a removed node's entry stays until it
  is silent;
* `first_read` is decided before the await it is used after;
* a `server_info` event between greeting and `start_listening` is not sent;
* `server_shutdown` is queued, and the process may exit before it is sent;
* a failing save in `remove_node` or `apply_interview` returns before any event is
  published: until the node changes again a listening client keeps a removed
  node, or the values and the availability from before the interview
  (`unannounced`);
* a kill between `persist_fabric` and `persist_issuer_private_key` leaves a
  storage that no start accepts (`up` is "broken"), and one between the adopted
  fabric and its node list leaves an import that is never resumed
  (`halfImported`), though `docs/ARCHITECTURE.md:57` says there is "no
  half-migrated server";
* every error of a first commissioning attempt, a removal by another client
  included, leads to a second attempt over Bluetooth;
* `node_removed` may be published before the `node_added` of the same node
  (`raced`).

About nodes and the Matter thread:

* a failed ping marks a node unavailable while its subscription is live; the
  reports that follow never mark it available and the monitor skips it, though
  `matter/reports.rs:101` says "The report proves the node is alive whatever it
  contains";
* `write_attribute` caches and announces the value after the await, without
  `save_soon` and not through `publish_attribute_changes`;
* a reply that a stopped actor dropped is reported as a time-out, sending has no
  time-out, the request of a caller that left runs on, and operations in flight
  are not polled while requests wait;
* `open_commissioning_window`: a lost answer, or a node removed meanwhile,
  leaves a window whose codes nobody has.

About label, firmware and connections:

* `normalize_fabric_label` is not idempotent: the cut can leave a trailing
  blank. A pinned label is what `get_fabric_label` answers and not what a
  commissioning pushes;
* the slot of an upload is freed when its id is redeemed, before the body is
  read, so that `MAX_IN_FLIGHT_UPLOADS` does not bound uploads under way; a
  truncated upload with an intact header is stored, and a body may be longer
  than its Content-Length when more arrives in the same read;
* `update_node` with an older requested version answers that version, but the
  device's query gets the newest; an upload of the same version during a
  transfer tears it; a grant that could not be saved is not saved by the next
  request either.

About Thread, discovery and start:

* a router that refuses DELETE keeps old items, which the final pass puts over
  fresh ones; late results of attempts that were given up do the same;
* a thread preempted between `finish_in_flight` and `store` can overwrite a
  newer batch; a run that panicked would leave its network listed for ever;
* a link drawn for a route stays marked so when a later neighbour table reports
  it: the mark depends on the order of the nodes;
* of two instances on one host in one message the later SRV takes all the
  addresses (`matter/mdns_browser.rs:418`); an address in another packet than its
  SRV goes to the instance that is the only one named so far, which may be another
  device's, and is lost once there are two (lines 461-471), though the comment on
  `browse` (line 91) speaks of records split across packets. `HeardIsReported`
  says exactly which addresses a device is reported with; names that differ in
  case make two entries;
* `select_interface` falls back to index 0 when `if_nametoindex` fails;
* a kill, or a failing write, between `persist_fabric` and
  `persist_issuer_private_key` makes every later start fail.

About an import:

* `migrate/store.rs:124` says that directories such as `ota-uploads` "are skipped
  silently". One with a descriptor is, and so is an empty one; one without a
  descriptor that holds an image is taken for the driver of files (line 236), and
  the image, which is no text, refuses the whole import (line 309);
* `migrate/store.rs:470` skips the line that a hard kill truncates, but only when
  the cut falls between two characters: one inside a character makes the segment
  no UTF-8 (line 567), and a compressed copy that breaks off cannot be
  decompressed (line 561). Both refuse the whole import, also when the snapshot
  covers the segment or its plain copy is still there;
* a kill between the creation of a compressed copy and its first byte hides the
  segment: the copy is preferred (line 458), is no gzip, and reads as no lines;
* an intermediate certificate that does not read as bytes is taken for none
  (`migrate/model.rs:213`), and the fabric is taken to be issued by the first
  authority that is found (line 293).

## 6. Not modelled

* Wire formats and stateless conversions (`protocol/message.rs`,
  `protocol/paths.rs`, `matter/tlv_json.rs`, `matter/clusters.rs`,
  `matter/wire_naming.rs`, `migrate/value.rs`, `storage/thread_dataset.rs`,
  the record data of `mdns_browser.rs`): data without control. A model would
  repeat their tables.
* The unit tests at the end of most source files.
* Cryptography and radio: certificates, `matter/spake2p_verifier.rs`,
  `matter/ble.rs`. They appear as keys that fit or do not.
* WebRTC (`api/webrtc.rs`, `matter/webrtc.rs`) and the responder
  (`matter/responder.rs`): they relay or wire, and keep no state of their own.
* Command-line flags, logging, the HTTP requests themselves.
* rs-matter is external: its commissioner, exchanges and fabric state appear as
  the outcomes the code distinguishes.
* Power loss is modelled for `nodes.json` only; `config.json` goes through the
  same `write_private`.

## 7. Plan

Done: the modules above. Left:

1. Proofs: the reading of items in `BorderRouterItem`.
2. Modules: attribute difference and coverage of an interview, path matching and
   event timestamps as algorithms against references; the steps of the device
   protocol within `matter/commissioning.rs`.
