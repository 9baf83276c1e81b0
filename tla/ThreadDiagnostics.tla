------------------------- MODULE ThreadDiagnostics -------------------------
(***************************************************************************)
(* Thread diagnostics of one network: the cache and the collections that   *)
(* callers share (server/src/api/thread_diagnostics.rs), the requests that *)
(* start them (server/src/api/network.rs), and a sweep over the REST API   *)
(* of a border router (server/src/matter/otbr_rest.rs).                    *)
(*                                                                         *)
(* A collection runs on a thread of its own and asks the nodes of the mesh *)
(* from a few worker threads.  All maps of the cache are keyed by network, *)
(* so one network is modelled.  What a node reports is the number of the   *)
(* measurement (its stamp); the hour a batch is good for and the minutes a *)
(* fruitless probe is remembered are flags that Ages sets.                 *)
(***************************************************************************)
EXTENDS Integers, Sequences, FiniteSets, FiniteSetsExt, SequencesExt

CONSTANTS
    MeshNodes,       \* the nodes of the mesh
    Anonymous,       \* those whose item names an RLOC16 and no address
    MaxConcurrent,   \* MAX_CONCURRENT
    AttemptsPerNode, \* ATTEMPTS_PER_NODE
    ProbeAnswers,    \* what the addresses of the border routers answer, in turn
    MaxSweeps,       \* bound: collections
    MaxStamps,       \* bound: measurements
    MaxDiagFaults    \* bound: failing requests

\* A path answers 2xx, with another status, or not at all.
Answered == {"ok", "status", "silent"}

NoMac == "none"

ASSUME DiagAssumption ==
    /\ IsFiniteSet(MeshNodes) /\ Anonymous \subseteq MeshNodes /\ NoMac \notin MeshNodes
    /\ {MaxConcurrent, AttemptsPerNode} \subseteq Nat \ {0}
    /\ \A answers \in ProbeAnswers : answers \in
          Seq([local : BOOLEAN, node : BOOLEAN, collection : Answered, legacy : Answered])
    /\ {MaxSweeps, MaxStamps, MaxDiagFaults} \subseteq Nat

VARIABLES
    browsing,    \* a request found no fresh batch and looks the network up
    sweeps,      \* the collections, in the order they began
    inFlight,    \* Inner.in_flight: the number of the one that is listed, or 0
    batch,       \* Inner.batches: why the batch is partial; its nodes are the sweep's
    capability,  \* Inner.capabilities
    router,      \* the border router: its items, in the order they came, the tasks
                 \* given up on, its clock
    diagFaults

diagVars == <<browsing, sweeps, inFlight, batch, capability, router, diagFaults>>

NoBatch == [reason |-> "absent", old |-> FALSE]
NotProbed == [api |-> "unknown", old |-> FALSE, lost |-> FALSE]
NoJob == [at |-> "absent", left |-> 0, stamp |-> 0, tries |-> 0]

DiagInit ==
    /\ browsing = FALSE
    /\ sweeps = <<>> /\ inFlight = 0
    /\ batch = NoBatch
    /\ capability = NotProbed
    /\ router = [items |-> <<>>, pending |-> {}, stamp |-> 0]
    /\ diagFaults = 0

-----------------------------------------------------------------------------
(* Asking.                                                                 *)

\* ThreadDiagnosticsCache::fresh: only a complete batch is a hit.
IsFresh == batch.reason = "complete" /\ ~ batch.old

\* get_thread_diagnostics for a network: a fresh batch is the answer;
\* otherwise the network is looked up first, which takes seconds.
AskDiagnostics ==
    /\ ~ IsFresh /\ browsing' = TRUE
    /\ UNCHANGED <<sweeps, inFlight, batch, capability, router, diagFaults>>

NewSweep(force) ==
    [at |-> "probe", force |-> force, source |-> "none", reason |-> "in_progress",
     nodes |-> <<>>, jobs |-> [n \in MeshNodes |-> NoJob], produced |-> {}, since |-> 0,
     cleared |-> FALSE, reused |-> FALSE]

\* Mutant: a forced request starts a collection of its own.
JoinsUnforced(force) == inFlight # 0 /\ ~ force

\* ThreadDiagnosticsCache::collection: what is in flight is joined, forced or
\* not.
Joins(force) == inFlight # 0
Started(force) ==
    IF Joins(force) THEN UNCHANGED <<sweeps, inFlight>>
    ELSE /\ Len(sweeps) < MaxSweeps
         /\ inFlight' = Len(sweeps) + 1
         /\ sweeps' = Append(sweeps, [NewSweep(force) EXCEPT !.since = router.stamp])

\* Collection::first_batch then waits for its end or for the timer, and reads
\* what there is.  A forced request has not looked at the cache.
StartOrJoin(force) ==
    /\ force \/ browsing
    /\ Started(force)
    /\ browsing' = (browsing /\ force)
    /\ UNCHANGED <<batch, capability, router, diagFaults>>

\* Nothing discovered claims the network.
NetworkUnknown ==
    /\ browsing /\ browsing' = FALSE
    /\ UNCHANGED <<sweeps, inFlight, batch, capability, router, diagFaults>>

\* collect_all looks at the cache once it knows the network, and nobody waits.
CollectAll ==
    /\ ~ IsFresh /\ Started(FALSE)
    /\ UNCHANGED <<browsing, batch, capability, router, diagFaults>>

-----------------------------------------------------------------------------
(* Storing and ending.                                                     *)

SweepTo(c, sweep) == sweeps' = [sweeps EXCEPT ![c] = sweep]
Goes(c, at) == SweepTo(c, [sweeps[c] EXCEPT !.at = at])

\* Collection::snapshot of one that is not finished.
Snapshot(sweep) ==
    [reason |-> IF sweep.nodes = <<>> /\ sweep.source = "otbr_rest"
                THEN "rest_no_responses_yet" ELSE "in_progress",
     old |-> FALSE]

\* RestError::partial_reason.
PartialReason(why) == IF why = "unreachable" THEN "rest_unreachable" ELSE "rest_protocol"

\* Run::finish, whose steps follow.  The batch is complete or says why not.
Finished(sweep, reason) ==
    [sweep EXCEPT !.at = "unlist", !.force = FALSE, !.reason = reason,
                  !.jobs = [n \in MeshNodes |-> NoJob]]
DiagFails(c, why) ==
    /\ diagFaults < MaxDiagFaults /\ diagFaults' = diagFaults + 1
    /\ SweepTo(c, Finished(sweeps[c], PartialReason(why)))

\* Mutant: the caller is woken while the collection is still listed.
UnlistNothing(c) == inFlight

\* finish_in_flight, by the name of the network.
FinishInFlight(c) == 0

Unlist(c) ==
    /\ sweeps[c].at = "unlist"
    /\ inFlight' = FinishInFlight(c)
    /\ Goes(c, "store")
    /\ UNCHANGED <<browsing, batch, capability, router, diagFaults>>

\* Run::publish: stored and announced, then whoever waits is woken.
StoreBatch(c) ==
    /\ sweeps[c].at = "store"
    /\ batch' = [reason |-> sweeps[c].reason, old |-> FALSE]
    /\ SweepTo(c, [NewSweep(FALSE) EXCEPT !.at = "done"])
    /\ UNCHANGED <<browsing, inFlight, capability, router, diagFaults>>

-----------------------------------------------------------------------------
(* Run::execute: which border router.                                      *)

\* Client::probe of one address: does /node describe a network, and which of
\* the two diagnostics paths answers?  Any other status is a plain no.
Collecting == {"legacy", "collection"}
ProbeClient(x) ==
    IF ~ x.node \/ x.collection = "silent" THEN "error"
    ELSE IF x.collection = "ok" THEN "collection"
    ELSE CASE x.legacy = "ok" -> "legacy"
           [] x.legacy = "status" -> "no_diagnostics"
           [] x.legacy = "silent" -> "error"

\* probe_border_routers: the first that can collect, or the first that at
\* least speaks REST.  A link-local address is not asked.
ProbeBorderRouters(answers) ==
    LET asked == {i \in 1 .. Len(answers) : ~ answers[i].local}
        able == {i \in asked : ProbeClient(answers[i]) \in Collecting}
    IN  IF able # {} THEN ProbeClient(answers[Min(able)])
        ELSE IF \E i \in asked : ProbeClient(answers[i]) = "no_diagnostics" THEN "no_diagnostics"
        ELSE "none"

\* rest_capability: remembered, or probed now.
Remembers(force) ==
    /\ ~ force /\ capability.api # "unknown"
    /\ capability.api = "none" => ~ capability.old
ProbedAs(c, answers) ==
    IF Remembers(sweeps[c].force) THEN capability.api ELSE ProbeBorderRouters(answers)

Probe(c, answers) ==
    /\ sweeps[c].at = "probe"
    /\ LET api == ProbedAs(c, answers)
           reused == Remembers(sweeps[c].force)
       IN  /\ capability' = IF reused THEN capability ELSE [NotProbed EXCEPT !.api = api]
           /\ SweepTo(c, IF api = "none" THEN Finished(sweeps[c], "no_credentials")
                         ELSE [sweeps[c] EXCEPT !.at = api, !.force = FALSE, !.source = "otbr_rest",
                                                !.reused = reused /\ capability.lost])
    /\ UNCHANGED <<browsing, inFlight, batch, router, diagFaults>>

\* Mutant: the router is forgotten when it answers strangely.
ForgottenIfStrange(why) == why = "protocol"

\* forget_capability: only when nothing answered.
Forgotten(why) == why = "unreachable"

\* A request that fails and ends the collection.
RequestFails(c, why) ==
    /\ sweeps[c].at \in {"legacy", "discover", "final"}
    /\ DiagFails(c, why)
    /\ capability' = IF Forgotten(why) THEN NotProbed
                     ELSE [capability EXCEPT !.lost = @ \/ why = "unreachable"]
    /\ UNCHANGED <<browsing, inFlight, batch, router>>

\* REST without diagnostics.
CannotCollect(c) ==
    /\ sweeps[c].at = "no_diagnostics"
    /\ SweepTo(c, Finished(sweeps[c], "rest_protocol"))
    /\ UNCHANGED <<browsing, inFlight, batch, capability, router, diagFaults>>

-----------------------------------------------------------------------------
(* The sweep.                                                              *)

Item(n, stamp) == [mac |-> IF n \in Anonymous THEN NoMac ELSE n, rloc |-> n, stamp |-> stamp]

\* Mutant: two nodes without an address are the same one.
SameAddress(x, y) == x.mac = y.mac \/ (x.mac = NoMac /\ x.rloc = y.rloc)

\* Run::add_node: is y an earlier view of x?
SameNode(x, y) ==
    \/ x.mac # NoMac /\ y.mac = x.mac
    \/ x.mac = NoMac /\ y.rloc = x.rloc

AddNode(nodes, x) ==
    LET same == {i \in 1 .. Len(nodes) : SameNode(x, nodes[i])}
    IN  IF same = {} THEN Append(nodes, x)
        ELSE [nodes EXCEPT ![Min(same)] = x]

\* Items are handed over one after another, but for those in skipped.
AddItems(nodes, items, skipped) ==
    LET after[i \in 0 .. Len(items)] ==
            IF i = 0 THEN nodes
            ELSE IF items[i] \in skipped THEN after[i - 1]
            ELSE AddNode(after[i - 1], items[i])
    IN  after

\* What on_node leaves in the cache: the sweep so far, once a second.
Publishes(sweep) == batch' \in {batch, Snapshot(sweep)}

\* legacy_diagnostics: every node at once.
CollectLegacy(c) ==
    /\ sweeps[c].at = "legacy"
    /\ router' = [router EXCEPT !.stamp = @ + 1]
    /\ LET items == SetToSeq({Item(n, router'.stamp) : n \in MeshNodes})
           swept == [sweeps[c] EXCEPT !.nodes = AddItems(@, items, {})[Len(items)], !.cleared = TRUE]
       IN  /\ SweepTo(c, Finished(swept, "complete"))
           /\ Publishes(swept)
    /\ UNCHANGED <<browsing, inFlight, capability, diagFaults>>

\* Mutant: what was collected before is left there.
ClearedNothing(items) == items

\* clear_diagnostics.
ClearedItems(items) == <<>>

ClearDiagnostics(c) ==
    /\ sweeps[c].at = "collection"
    /\ router' = [router EXCEPT !.items = ClearedItems(@)]
    /\ SweepTo(c, [sweeps[c] EXCEPT !.at = "discover", !.cleared = TRUE])
    /\ UNCHANGED <<browsing, inFlight, batch, capability, diagFaults>>

\* Best effort: a router that refuses is swept all the same.
ClearRefused(c) ==
    /\ sweeps[c].at = "collection"
    /\ diagFaults < MaxDiagFaults /\ diagFaults' = diagFaults + 1
    /\ Goes(c, "discover")
    /\ UNCHANGED <<browsing, inFlight, batch, capability, router>>

\* The directory is refreshed and read: one job for every device it lists.
Discover(c, listed) ==
    /\ sweeps[c].at = "discover"
    /\ SweepTo(c, [sweeps[c] EXCEPT !.at = "query",
                      !.jobs = [n \in MeshNodes |->
                          IF n \in listed THEN [NoJob EXCEPT !.at = "queued"] ELSE NoJob]])
    /\ UNCHANGED <<browsing, inFlight, batch, capability, router, diagFaults>>

JobTo(c, n, job) == SweepTo(c, [sweeps[c] EXCEPT !.jobs[n] = job])

\* A worker takes the next destination.
AtWork(c) == {n \in MeshNodes : sweeps[c].jobs[n].at \in {"asking", "reading"}}
TakeJob(c, n) ==
    /\ sweeps[c].at = "query" /\ sweeps[c].jobs[n].at = "queued"
    /\ Cardinality(AtWork(c)) < MaxConcurrent
    /\ JobTo(c, n, [NoJob EXCEPT !.at = "asking", !.left = AttemptsPerNode])
    /\ UNCHANGED <<browsing, inFlight, batch, capability, router, diagFaults>>

\* query_node: the task completes with an item.  The router runs one task at a
\* time, in order.
TaskCompletes(c, n) ==
    /\ sweeps[c].jobs[n].at = "asking"
    /\ router.pending = {} /\ router.stamp < MaxStamps
    /\ router' = [router EXCEPT !.stamp = @ + 1, !.items = Append(@, Item(n, router.stamp + 1))]
    /\ JobTo(c, n, [sweeps[c].jobs[n] EXCEPT !.at = "reading", !.stamp = router'.stamp])
    /\ UNCHANGED <<browsing, inFlight, batch, capability, diagFaults>>

\* Mutant: a silent node is asked for ever.
AttemptsSame(left) == left

\* The next attempt of ATTEMPTS_PER_NODE.
AttemptsLeft(left) == left - 1

\* It ends otherwise, or is given up on and completes later (late).
TaskEnds(c, n, late) ==
    /\ sweeps[c].jobs[n].at = "asking"
    /\ LET job == sweeps[c].jobs[n]
           left == AttemptsLeft(job.left)
       IN  JobTo(c, n, IF left = 0 THEN [NoJob EXCEPT !.at = "done"]
                            ELSE [job EXCEPT !.left = left, !.tries = @ + 1])
    /\ router' = IF late THEN [router EXCEPT !.pending = @ \cup {n}] ELSE router
    /\ UNCHANGED <<browsing, inFlight, batch, capability, diagFaults>>

\* It completes without a result: the node is skipped.
TaskEmpty(c, n) ==
    /\ sweeps[c].jobs[n].at = "asking"
    /\ JobTo(c, n, [NoJob EXCEPT !.at = "done"])
    /\ UNCHANGED <<browsing, inFlight, batch, capability, router, diagFaults>>

\* The task given up on ends on the router, with or without an item.
LateTask(n) ==
    /\ n \in router.pending
    /\ router' \in {[router EXCEPT !.pending = @ \ {n}],
                    [router EXCEPT !.pending = @ \ {n}, !.stamp = @ + 1,
                                   !.items = Append(@, Item(n, router.stamp + 1))]}
    /\ router.stamp < MaxStamps
    /\ UNCHANGED <<browsing, sweeps, inFlight, batch, capability, diagFaults>>

ReadItem(c, n) ==
    /\ sweeps[c].jobs[n].at = "reading"
    /\ LET x == Item(n, sweeps[c].jobs[n].stamp)
       IN  /\ SweepTo(c, [sweeps[c] EXCEPT !.jobs[n].at = "done", !.produced = @ \cup {x},
                                           !.nodes = AddNode(@, x)])
           /\ Publishes(sweeps'[c])
    /\ UNCHANGED <<browsing, inFlight, capability, router, diagFaults>>

ReadFails(c, n) ==
    /\ sweeps[c].jobs[n].at = "reading"
    /\ diagFaults < MaxDiagFaults /\ diagFaults' = diagFaults + 1
    /\ JobTo(c, n, [NoJob EXCEPT !.at = "done"])
    /\ UNCHANGED <<browsing, inFlight, batch, capability, router>>

\* thread::scope joins the workers.
Join(c) ==
    /\ sweeps[c].at = "query"
    /\ \A n \in MeshNodes : sweeps[c].jobs[n].at \in {"absent", "done"}
    /\ Goes(c, "final")
    /\ UNCHANGED <<browsing, inFlight, batch, capability, router, diagFaults>>

\* The final pass over what no task of ours produced, in the router's order.
Missed(c) == Range(router.items) \ sweeps[c].produced
FinalPass(c) ==
    /\ sweeps[c].at = "final"
    /\ LET swept == [sweeps[c] EXCEPT !.nodes =
                        AddItems(@, router.items, sweeps[c].produced)[Len(router.items)]]
       IN  /\ SweepTo(c, Finished(swept, "complete"))
           /\ IF Missed(c) = {} THEN UNCHANGED batch ELSE Publishes(swept)
    /\ UNCHANGED <<browsing, inFlight, capability, router, diagFaults>>

\* The hour of the batch, and the minutes of a fruitless probe, pass.
Ages ==
    /\ \/ /\ batch.reason = "complete" /\ batch' = [batch EXCEPT !.old = TRUE]
          /\ UNCHANGED capability
       \/ /\ capability.api = "none" /\ capability' = [capability EXCEPT !.old = TRUE]
          /\ UNCHANGED batch
    /\ UNCHANGED <<browsing, sweeps, inFlight, router, diagFaults>>

\* What a collection's threads do.
Job(c, n) ==
    \/ TakeJob(c, n) \/ TaskCompletes(c, n) \/ TaskEmpty(c, n)
    \/ \E late \in BOOLEAN : TaskEnds(c, n, late)
    \/ ReadItem(c, n) \/ ReadFails(c, n)
Sweep(c) ==
    \/ \E answers \in ProbeAnswers : Probe(c, answers)
    \/ \E why \in {"unreachable", "protocol"} : RequestFails(c, why)
    \/ CannotCollect(c)
    \/ CollectLegacy(c)
    \/ ClearDiagnostics(c) \/ ClearRefused(c)
    \/ \E listed \in SUBSET MeshNodes : Discover(c, listed)
    \/ \E n \in MeshNodes : Job(c, n)
    \/ Join(c) \/ FinalPass(c)
    \/ Unlist(c) \/ StoreBatch(c)

DiagNext ==
    \/ AskDiagnostics \/ NetworkUnknown \/ CollectAll
    \/ \E force \in BOOLEAN : StartOrJoin(force)
    \/ \E c \in 1 .. Len(sweeps) : Sweep(c)
    \/ \E n \in MeshNodes : LateTask(n)
    \/ Ages

DiagSpec == DiagInit /\ [][DiagNext]_diagVars

-----------------------------------------------------------------------------
(* Properties.                                                             *)

\* Two collections never ask the same border router at once, whose queue of
\* tasks is global, although the thread of one may still be storing when the
\* next begins (api/thread_diagnostics.rs:144).
OneSweepAtATime ==
    \A c, d \in 1 .. Len(sweeps) :
        c # d => {sweeps[c].at, sweeps[d].at} \cap {"unlist", "store", "done"} # {}

\* A caller that asks again once it was woken by the end of a collection never
\* joins that collection (api/thread_diagnostics.rs:432).
WokenStartAnew ==
    \A c \in 1 .. Len(sweeps) : sweeps[c].at = "done" => inFlight # c

\* A border router that stopped answering is not asked again by a later
\* collection before it has been probed (api/thread_diagnostics.rs:221).
LostRouterIsProbed ==
    \A c \in 1 .. Len(sweeps) : ~ sweeps[c].reused

\* Every node whose diagnostics a sweep has read is in its batch under an
\* entry of its own, whatever a late task or the final pass adds.
EveryNodeHasAnEntry ==
    \A c \in 1 .. Len(sweeps) : \A x \in sweeps[c].produced :
        \E i \in 1 .. Len(sweeps[c].nodes) :
            /\ sweeps[c].nodes[i].rloc = x.rloc
            /\ \A j \in 1 .. Len(sweeps[c].nodes) :
                  sweeps[c].nodes[j].rloc = x.rloc => j = i

\* Once the router has dropped its earlier results, nothing in the batch is
\* older than the collection (matter/otbr_rest.rs:329).  A router that refuses
\* leaves older items, and the final pass then puts them over newer ones.
SweepReadsItsOwn ==
    \A c \in 1 .. Len(sweeps) : sweeps[c].cleared =>
        \A i \in 1 .. Len(sweeps[c].nodes) : sweeps[c].nodes[i].stamp > sweeps[c].since

\* A collection asks its border router alone, one that was known to answer, and
\* its batch is of the mesh as it found it (api/thread_diagnostics.rs:142).
SweepsAreSound ==
    /\ OneSweepAtATime /\ WokenStartAnew /\ LostRouterIsProbed
    /\ EveryNodeHasAnEntry /\ SweepReadsItsOwn

\* What a collection has left to do: its stages, and the attempts of its jobs
\* within one.
Stage(at) ==
    CASE at = "probe" -> 7 [] at \in {"no_diagnostics", "legacy", "collection"} -> 6
      [] at = "discover" -> 5 [] at = "query" -> 4 [] at = "final" -> 3
      [] at = "unlist" -> 2 [] at = "store" -> 1 [] at = "done" -> 0
JobWork(job) ==
    CASE job.at = "queued" -> AttemptsPerNode + 2 [] job.at = "asking" -> job.left + 1
      [] job.at = "reading" -> 1 [] OTHER -> 0
Nearer(next, sweep) ==
    \/ Stage(next.at) < Stage(sweep.at)
    \/ /\ next.at = sweep.at
       /\ \A n \in MeshNodes : JobWork(next.jobs[n]) \in 0 .. JobWork(sweep.jobs[n])
       /\ \E n \in MeshNodes : JobWork(next.jobs[n]) # JobWork(sweep.jobs[n])

\* Every step of a collection brings it nearer to its end, so that it ends
\* however many nodes stay silent and requests fail (matter/otbr_rest.rs:61).
SweepsAdvance ==
    [][\A c \in DOMAIN sweeps :
         sweeps'[c] # sweeps[c] => Nearer(sweeps'[c], sweeps[c])]_diagVars
=============================================================================
