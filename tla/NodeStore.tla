----------------------------- MODULE NodeStore -----------------------------
(***************************************************************************)
(* The commissioned-node store (server/src/storage/nodes.rs) and the file  *)
(* it is written through (write_private, server/src/storage/mod.rs).       *)
(*                                                                         *)
(* The node map is abstracted to a version: every change of the map makes  *)
(* a new one.  A snapshot is the version it copied, a file the version it  *)
(* holds.  Threads are the request handlers that change a node and call    *)
(* save(), the reporters that change one and call save_soon(), the writer  *)
(* thread save_soon() spawns, and the server thread that calls flush().    *)
(* save() is one step per lock region and per system call, because its     *)
(* callers run it concurrently.                                            *)
(***************************************************************************)
EXTENDS Integers

CONSTANTS
    Handlers,      \* threads that change a node and call save()
    Reporters,     \* threads that change a node and call save_soon()
    Writer,        \* the "node-store-writer" thread
    Server,        \* the thread of ws::serve, which calls flush() on its way out
    Interval,      \* WRITE_INTERVAL, in ticks
    NumInodes,     \* how many files the file system can tell apart
    MaxChanges,    \* bound: changes made to the node map
    MaxExits,      \* bound: clean shutdowns
    MaxCrashes,    \* bound: kills and power losses
    MaxFaults      \* bound: system calls of write_private that fail

ASSUME ThreadsAssumption ==
    /\ Writer \notin Handlers \cup Reporters
    /\ Server \notin Handlers \cup Reporters \cup {Writer}
    /\ \A h \in Handlers : h \notin Reporters

ASSUME BoundsAssumption ==
    /\ Interval \in Nat \ {0}
    /\ NumInodes \in Nat \ {0}
    /\ MaxChanges \in Nat /\ MaxExits \in Nat
    /\ MaxCrashes \in Nat /\ MaxFaults \in Nat

Savers == Handlers \cup {Writer, Server}
Threads == Savers \cup Reporters
Inodes == 1 .. NumInodes

\* No directory entry, no open file.
NoFile == 0
\* What a file may hold besides a complete snapshot (a version, in Nat).
Empty == -1
Torn == -2

VARIABLES
    mem,       \* NodeStore.nodes: the version of the map in memory
    changes,   \* how many versions were ever made; the next one is fresh
    dirty,     \* WriterState.dirty
    running,   \* WriterState.running
    age,       \* ticks since WriterState.last_write, up to Interval
    pc,        \* where each thread is
    made,      \* the version each thread's last change made
    snap,      \* the snapshot each saver is writing
    fd,        \* the file each saver has open
    left,      \* ticks the writer still sleeps before its write is due
    notified,  \* a notify_one the waiting writer has not seen yet
    tmp,       \* the file nodes.tmp names
    path,      \* the file nodes.json names
    stable,    \* the file nodes.json names in the directory on the disk
    content,   \* what each file holds
    synced,    \* the files whose content has reached the disk
    up,        \* the process: "up", "stopped" (clean), "down", "broken"
    exits, crashes, faults,  \* how much of the bounds is used
    \* History, for the properties:
    acked,     \* the newest change whose save() returned Ok
    promised,  \* the newest change whose save_soon() returned
    owed,      \* promised, when flush() looked
    overlap,   \* two save() calls have been in progress at once
    coalesced  \* ticks since the writer last began a write, up to Interval

memVars == <<mem, changes, made>>
writerVars == <<dirty, running, age, left, notified>>
fileVars == <<tmp, path, stable, content, synced>>
historyVars == <<acked, promised, owed, overlap, coalesced>>
procVars == <<up, exits, crashes, faults>>
vars == <<memVars, writerVars, fileVars, historyVars, procVars, pc, snap, fd>>

\* The stages of save() from the moment it has cleared dirty.
InSave == {"snapshot", "open", "write", "sync", "rename"}
Saving(t) == pc[t] \in InSave

\* Where a thread is when it has nothing to do in this module.
Rest(t) == IF t = Writer THEN "off" ELSE "idle"

\* save() returns to its caller, and its snapshot is dropped.
Returns(t) ==
    /\ pc' = [pc EXCEPT ![t] = IF t = Writer THEN "check"
                               ELSE IF t = Server THEN "exit" ELSE "idle"]
    /\ snap' = [snap EXCEPT ![t] = 0]

Readable(i) == i = NoFile \/ content[i] >= 0

\* The version load() would find.
OnDisk == IF path = NoFile THEN 0 ELSE content[path]

TypeOK ==
    /\ mem \in Nat /\ changes \in Nat
    /\ made \in [Threads -> Nat]
    /\ dirty \in BOOLEAN /\ running \in BOOLEAN /\ notified \in BOOLEAN
    /\ age \in 0 .. Interval /\ left \in 0 .. Interval
    /\ pc \in [Threads -> InSave \cup {"idle", "off", "soon", "clear",
                                       "check", "wait", "sleep", "exit"}]
    /\ snap \in [Savers -> Nat]
    /\ fd \in [Savers -> Inodes \cup {NoFile}]
    /\ tmp \in Inodes \cup {NoFile}
    /\ path \in Inodes \cup {NoFile} /\ stable \in Inodes \cup {NoFile}
    /\ content \in [Inodes -> Nat \cup {Empty, Torn}]
    /\ synced \subseteq Inodes
    /\ up \in {"up", "stopped", "down", "broken"}
    /\ exits \in Nat /\ crashes \in Nat /\ faults \in Nat
    /\ acked \in Nat /\ promised \in Nat /\ owed \in Nat
    /\ overlap \in BOOLEAN
    /\ coalesced \in 0 .. Interval

-----------------------------------------------------------------------------
(* load() of a store that was never written: no file, an empty map.        *)

Init ==
    /\ mem = 0 /\ changes = 0 /\ made = [t \in Threads |-> 0]
    /\ dirty = FALSE /\ running = FALSE /\ notified = FALSE
    /\ age = 0 /\ left = 0
    /\ pc = [t \in Threads |-> Rest(t)]
    /\ snap = [t \in Savers |-> 0]
    /\ fd = [t \in Savers |-> NoFile]
    /\ tmp = NoFile /\ path = NoFile /\ stable = NoFile
    /\ content = [i \in Inodes |-> Empty]
    /\ synced = {}
    /\ up = "up" /\ exits = 0 /\ crashes = 0 /\ faults = 0
    /\ acked = 0 /\ promised = 0 /\ owed = 0
    /\ overlap = FALSE /\ coalesced = Interval

-----------------------------------------------------------------------------
(* Changing the map: upsert, remove, update, apply_interview,              *)
(* merge_attributes and set_attribute each take the lock on the map once.  *)

Change(t) ==
    /\ up = "up" /\ pc[t] = "idle"
    /\ changes < MaxChanges
    /\ changes' = changes + 1
    /\ mem' = changes'
    /\ made' = [made EXCEPT ![t] = changes']

HandlerChange(h) ==
    /\ Change(h)
    /\ pc' = [pc EXCEPT ![h] = "clear"]
    /\ UNCHANGED <<writerVars, fileVars, historyVars, procVars, snap, fd>>

ReporterChange(r) ==
    /\ Change(r)
    /\ pc' = [pc EXCEPT ![r] = "soon"]
    /\ UNCHANGED <<writerVars, fileVars, historyVars, procVars, snap, fd>>

\* Mutant: save_soon() forgets notify_one.
SaveSoonSilent(r) ==
    /\ up = "up" /\ pc[r] = "soon"
    /\ dirty' = TRUE
    /\ running' = TRUE
    /\ pc' = [pc EXCEPT ![r] = "idle",
                        ![Writer] = IF running THEN @ ELSE "check"]
    /\ promised' = IF made[r] > promised THEN made[r] ELSE promised
    /\ UNCHANGED <<memVars, age, left, notified, fileVars, acked, owed,
                   overlap, coalesced, procVars, snap, fd>>

\* Mutant: save_soon() relies on a writer thread being there.
SaveSoonNoSpawn(r) ==
    /\ up = "up" /\ pc[r] = "soon"
    /\ dirty' = TRUE
    /\ pc' = [pc EXCEPT ![r] = "idle"]
    /\ notified' = (notified \/ pc[Writer] = "wait")
    /\ promised' = IF made[r] > promised THEN made[r] ELSE promised
    /\ UNCHANGED <<memVars, running, age, left, fileVars, acked, owed,
                   overlap, coalesced, procVars, snap, fd>>

(* save_soon(): one region of the writer lock, notify_one included.        *)
SaveSoon(r) ==
    /\ up = "up" /\ pc[r] = "soon"
    /\ dirty' = TRUE
    /\ running' = TRUE
    /\ pc' = [pc EXCEPT ![r] = "idle",
                        ![Writer] = IF running THEN @ ELSE "check"]
    /\ notified' = (notified \/ pc[Writer] = "wait")
    /\ promised' = IF made[r] > promised THEN made[r] ELSE promised
    /\ UNCHANGED <<memVars, age, left, fileVars, acked, owed, overlap,
                   coalesced, procVars, snap, fd>>

-----------------------------------------------------------------------------
(* save() and write_private(), one step at a time, for any saver t.        *)

\* The writer lock: dirty is cleared and last_write moved before the copy.
SaveClear(t) ==
    /\ up = "up" /\ pc[t] = "clear"
    /\ dirty' = FALSE
    /\ age' = 0
    /\ pc' = [pc EXCEPT ![t] = "snapshot"]
    /\ overlap' = (overlap \/ \E u \in Savers \ {t} : Saving(u))
    /\ coalesced' = IF t = Writer THEN 0 ELSE coalesced
    /\ UNCHANGED <<memVars, running, left, notified, fileVars, acked, promised,
                   owed, procVars, snap, fd>>

\* The lock on the map: copy it.
SaveSnapshot(t) ==
    /\ up = "up" /\ pc[t] = "snapshot"
    /\ snap' = [snap EXCEPT ![t] = mem]
    /\ pc' = [pc EXCEPT ![t] = "open"]
    /\ UNCHANGED <<memVars, writerVars, fileVars, historyVars, procVars, fd>>

\* A file no name and no open descriptor refers to; the lowest such number.
Fresh(i) ==
    i \notin {tmp, path, stable} \cup {fd[t] : t \in Savers}

\* open(nodes.tmp, O_CREAT | O_TRUNC): an existing nodes.tmp is truncated
\* in place, whoever else is writing it.
OpenTmp(t) ==
    /\ up = "up" /\ pc[t] = "open"
    /\ \E i \in Inodes :
          /\ IF tmp = NoFile
             THEN Fresh(i) /\ \A j \in 1 .. i - 1 : ~ Fresh(j)
             ELSE i = tmp
          /\ tmp' = i
          /\ fd' = [fd EXCEPT ![t] = i]
          /\ content' = [content EXCEPT ![i] = Empty]
          /\ synced' = synced \ {i}
    /\ pc' = [pc EXCEPT ![t] = "write"]
    /\ UNCHANGED <<memVars, writerVars, path, stable, historyVars, procVars,
                   snap>>

\* write_all from offset 0.  Over another snapshot written since the
\* truncation, the longer of the two leaves its tail; the bytes of the same
\* snapshot are the same.
WriteTmp(t) ==
    /\ up = "up" /\ pc[t] = "write"
    /\ \E c \in {snap[t], Torn} :
          /\ c = Torn => content[fd[t]] \notin {Empty, snap[t]}
          /\ content' = [content EXCEPT ![fd[t]] = c]
    /\ synced' = synced \ {fd[t]}
    /\ pc' = [pc EXCEPT ![t] = "sync"]
    /\ UNCHANGED <<memVars, writerVars, tmp, path, stable, historyVars,
                   procVars, snap, fd>>

\* Mutant: no sync_all before the rename.
SyncTmpSkipped(t) ==
    /\ up = "up" /\ pc[t] = "sync"
    /\ fd' = [fd EXCEPT ![t] = NoFile]
    /\ pc' = [pc EXCEPT ![t] = "rename"]
    /\ UNCHANGED <<memVars, writerVars, fileVars, historyVars, procVars, snap>>

\* sync_all, then the file is closed.
SyncTmp(t) ==
    /\ up = "up" /\ pc[t] = "sync"
    /\ synced' = synced \cup {fd[t]}
    /\ fd' = [fd EXCEPT ![t] = NoFile]
    /\ pc' = [pc EXCEPT ![t] = "rename"]
    /\ UNCHANGED <<memVars, writerVars, tmp, path, stable, content,
                   historyVars, procVars, snap>>

\* Mutant: dirty is cleared when the write is done instead of before the copy.
RenameThenClear(t) ==
    /\ up = "up" /\ pc[t] = "rename" /\ tmp # NoFile
    /\ path' = tmp
    /\ tmp' = NoFile
    /\ Returns(t)
    /\ dirty' = FALSE
    /\ acked' = IF t \in Handlers /\ made[t] > acked THEN made[t] ELSE acked
    /\ UNCHANGED <<memVars, running, age, left, notified, stable, content,
                   synced, promised, owed, overlap, coalesced, procVars, fd>>

\* set_permissions and rename: whatever nodes.tmp names becomes nodes.json.
\* save() returns Ok; a handler then answers its client.
Rename(t) ==
    /\ up = "up" /\ pc[t] = "rename" /\ tmp # NoFile
    /\ path' = tmp
    /\ tmp' = NoFile
    /\ Returns(t)
    /\ acked' = IF t \in Handlers /\ made[t] > acked THEN made[t] ELSE acked
    /\ UNCHANGED <<memVars, writerVars, stable, content, synced, promised,
                   owed, overlap, coalesced, procVars, fd>>

\* Another saver renamed nodes.tmp away: set_permissions fails, save() is Err.
RenameMissing(t) ==
    /\ up = "up" /\ pc[t] = "rename" /\ tmp = NoFile
    /\ Returns(t)
    /\ UNCHANGED <<memVars, writerVars, fileVars, historyVars, procVars, fd>>

\* Mutant: the handler answers success whatever save() returned.
SaveFaultIgnored(t) ==
    /\ up = "up" /\ pc[t] \in {"open", "write", "sync", "rename"}
    /\ faults < MaxFaults
    /\ faults' = faults + 1
    /\ fd' = [fd EXCEPT ![t] = NoFile]
    /\ Returns(t)
    /\ acked' = IF t \in Handlers /\ made[t] > acked THEN made[t] ELSE acked
    /\ UNCHANGED <<memVars, writerVars, fileVars, promised, owed,
                   overlap, coalesced, up, exits, crashes>>

\* A system call of write_private fails and save() returns the error: the
\* handler answers with it, the writer and the server log it.  A failing
\* write_all may have written part of the file.
SaveFault(t) ==
    /\ up = "up" /\ pc[t] \in {"open", "write", "sync", "rename"}
    /\ faults < MaxFaults
    /\ faults' = faults + 1
    /\ IF pc[t] = "write"
       THEN content' = [content EXCEPT ![fd[t]] = Torn] /\ synced' = synced \ {fd[t]}
       ELSE UNCHANGED <<content, synced>>
    /\ fd' = [fd EXCEPT ![t] = NoFile]
    /\ Returns(t)
    /\ UNCHANGED <<memVars, writerVars, tmp, path, stable, historyVars, up,
                   exits, crashes>>

Save(t) ==
    \/ SaveClear(t) \/ SaveSnapshot(t) \/ OpenTmp(t) \/ WriteTmp(t)
    \/ SyncTmp(t) \/ Rename(t) \/ RenameMissing(t)

-----------------------------------------------------------------------------
(* writer_loop.                                                            *)

\* Under the lock: nothing to do, so wait on the condition variable.
WriterWait ==
    /\ up = "up" /\ pc[Writer] = "check" /\ ~ dirty
    /\ pc' = [pc EXCEPT ![Writer] = "wait"]
    /\ UNCHANGED <<memVars, writerVars, fileVars, historyVars, procVars, snap,
                   fd>>

\* A notification, or a timeout that finds dirty set: `while !writer.dirty` runs again.
WriterWake ==
    /\ up = "up" /\ pc[Writer] = "wait" /\ (notified \/ dirty)
    /\ notified' = FALSE
    /\ pc' = [pc EXCEPT ![Writer] = "check"]
    /\ UNCHANGED <<memVars, dirty, running, age, left, fileVars, historyVars,
                   procVars, snap, fd>>

\* Mutant: the timeout is trusted without another look at dirty.
WriterIdleUnchecked ==
    /\ up = "up" /\ pc[Writer] = "wait"
    /\ running' = FALSE
    /\ notified' = FALSE
    /\ pc' = [pc EXCEPT ![Writer] = "off"]
    /\ UNCHANGED <<memVars, dirty, age, left, fileVars, historyVars, procVars,
                   snap, fd>>

\* Mutant: the writer never stands down.
WriterIdleForever ==
    /\ up = "up" /\ pc[Writer] = "wait" /\ ~ dirty
    /\ notified' = FALSE
    /\ pc' = [pc EXCEPT ![Writer] = "check"]
    /\ UNCHANGED <<memVars, dirty, running, age, left, fileVars, historyVars,
                   procVars, snap, fd>>

\* WRITER_IDLE passed without a notification and nothing is dirty: stand down.
WriterIdle ==
    /\ up = "up" /\ pc[Writer] = "wait" /\ ~ dirty
    /\ running' = FALSE
    /\ notified' = FALSE
    /\ pc' = [pc EXCEPT ![Writer] = "off"]
    /\ UNCHANGED <<memVars, dirty, age, left, fileVars, historyVars, procVars,
                   snap, fd>>

\* Mutant: the write is due at once.
WriterDueNow ==
    /\ up = "up" /\ pc[Writer] = "check" /\ dirty
    /\ left' = 0
    /\ pc' = [pc EXCEPT ![Writer] = "sleep"]
    /\ UNCHANGED <<memVars, dirty, running, age, notified, fileVars,
                   historyVars, procVars, snap, fd>>

\* Dirty: the write is due Interval after last_write, as it stands now.
WriterDue ==
    /\ up = "up" /\ pc[Writer] = "check" /\ dirty
    /\ left' = Interval - age
    /\ pc' = [pc EXCEPT ![Writer] = "sleep"]
    /\ UNCHANGED <<memVars, dirty, running, age, notified, fileVars,
                   historyVars, procVars, snap, fd>>

\* The sleep is over: call save().
WriterSave ==
    /\ up = "up" /\ pc[Writer] = "sleep" /\ left = 0
    /\ pc' = [pc EXCEPT ![Writer] = "clear"]
    /\ UNCHANGED <<memVars, writerVars, fileVars, historyVars, procVars, snap,
                   fd>>

WriterLoop ==
    WriterWait \/ WriterWake \/ WriterIdle \/ WriterDue \/ WriterSave

\* Time passes.
Tick ==
    /\ up = "up"
    /\ age < Interval \/ left > 0 \/ coalesced < Interval
    /\ age' = IF age < Interval THEN age + 1 ELSE age
    /\ left' = IF left > 0 THEN left - 1 ELSE left
    /\ coalesced' = IF coalesced < Interval THEN coalesced + 1 ELSE coalesced
    /\ UNCHANGED <<memVars, dirty, running, notified, fileVars, acked,
                   promised, owed, overlap, procVars, pc, snap, fd>>

-----------------------------------------------------------------------------
(* Shutdown, crashes and restarts.                                         *)

\* serve() reaches its end and calls flush(), which looks at dirty once.
Flush ==
    /\ up = "up" /\ pc[Server] = "idle"
    /\ exits < MaxExits
    /\ exits' = exits + 1
    /\ pc' = [pc EXCEPT ![Server] = IF dirty THEN "clear" ELSE "exit"]
    /\ owed' = promised
    /\ UNCHANGED <<memVars, writerVars, fileVars, acked, promised, overlap,
                   coalesced, up, crashes, faults, snap, fd>>

\* Every thread of the process is gone; what it made of the files stays.
ThreadsGone ==
    /\ pc' = [t \in Threads |-> Rest(t)]
    /\ fd' = [t \in Savers |-> NoFile]
    /\ snap' = [t \in Savers |-> 0]
    /\ made' = [t \in Threads |-> 0]
    /\ dirty' = FALSE /\ running' = FALSE /\ notified' = FALSE
    /\ left' = 0 /\ age' = 0 /\ coalesced' = Interval

\* main returns after serve(): the detached threads die with the process,
\* wherever they are.
Exit ==
    /\ up = "up" /\ pc[Server] = "exit"
    /\ ThreadsGone
    /\ up' = "stopped"
    /\ UNCHANGED <<mem, changes, fileVars, acked, promised, owed, overlap,
                   exits, crashes, faults>>

\* The process is killed (no signal is handled, so SIGTERM is this step).
\* Changes only promised by save_soon are lost with it.
Crash ==
    /\ up = "up" /\ crashes < MaxCrashes
    /\ crashes' = crashes + 1
    /\ ThreadsGone
    /\ up' = "down"
    /\ promised' = 0 /\ owed' = 0
    /\ UNCHANGED <<mem, changes, fileVars, acked, overlap, exits, faults>>

\* The machine loses power: the directory is as last committed, and a file
\* that was not synced may hold anything.
PowerLoss ==
    /\ up = "up" /\ crashes < MaxCrashes
    /\ crashes' = crashes + 1
    /\ ThreadsGone
    /\ up' = "down"
    /\ path' = stable /\ tmp' = NoFile
    /\ content' = [i \in Inodes |-> IF i \in synced THEN content[i] ELSE Torn]
    /\ promised' = 0 /\ owed' = 0 /\ acked' = 0
    /\ UNCHANGED <<mem, changes, stable, synced, overlap, exits, faults>>

\* The file system commits its directory in its own time.
CommitDirectory ==
    /\ stable # path
    /\ stable' = path
    /\ UNCHANGED <<memVars, writerVars, tmp, path, content, synced,
                   historyVars, procVars, pc, snap, fd>>

\* Mutant: the file is not read back.
LoadEmpty ==
    /\ up \in {"stopped", "down"}
    /\ up' = "up"
    /\ mem' = 0
    /\ promised' = 0 /\ owed' = 0
    /\ UNCHANGED <<changes, made, writerVars, fileVars, acked, overlap,
                   coalesced, exits, crashes, faults, pc, snap, fd>>

\* load(): a missing file is an empty store, one that does not parse is an
\* error that ends the start.
Load ==
    /\ up \in {"stopped", "down"}
    /\ IF Readable(path)
       THEN /\ up' = "up"
            /\ mem' = OnDisk
            /\ promised' = 0 /\ owed' = 0
       ELSE up' = "broken" /\ UNCHANGED <<mem, promised, owed>>
    /\ UNCHANGED <<changes, made, writerVars, fileVars, acked, overlap,
                   coalesced, exits, crashes, faults, pc, snap, fd>>

-----------------------------------------------------------------------------
Next ==
    \/ \E h \in Handlers : HandlerChange(h)
    \/ \E r \in Reporters : ReporterChange(r) \/ SaveSoon(r)
    \/ \E t \in Savers : Save(t) \/ SaveFault(t)
    \/ WriterLoop \/ Tick
    \/ Flush \/ Exit \/ Crash \/ PowerLoss \/ CommitDirectory \/ Load

Spec == Init /\ [][Next]_vars

(* Threads are scheduled fairly and time passes.  Nothing makes a crash, a *)
(* fault, a shutdown or a change happen.                                   *)
Fairness ==
    /\ \A r \in Reporters : WF_vars(SaveSoon(r))
    /\ \A t \in Savers : WF_vars(Save(t))
    /\ WF_vars(WriterLoop)
    /\ WF_vars(Tick)
    /\ WF_vars(Exit)

FairSpec == Spec /\ Fairness

-----------------------------------------------------------------------------
(* What the writer thread promises.                                        *)

\* Changes marked dirty have a writer thread to take them, and running says
\* exactly whether that one thread is alive: save_soon never sets dirty for
\* a writer that has just decided to stand down, and never spawns a second.
WriterOwnsDirty ==
    /\ dirty => running
    /\ running <=> pc[Writer] # "off"

\* The writer never sleeps out WRITER_IDLE on changes it was not woken for:
\* if it is in wait_timeout while the store is dirty, a notify_one is pending.
NoLostWakeup ==
    pc[Writer] = "wait" /\ dirty => notified

\* Two writes of the writer thread begin at least WRITE_INTERVAL apart,
\* whoever else saved in between and however often save_soon is called.
CoalescedWritesPaced ==
    [][pc[Writer] = "clear" /\ pc'[Writer] = "snapshot"
          => coalesced = Interval]_vars

-----------------------------------------------------------------------------
(* What the file promises, as long as no two saves have overlapped.        *)

\* A kill or a power loss at any step of save() leaves a file load() reads.
IntactFile ==
    ~ overlap => up # "broken" /\ Readable(path) /\ path \in synced \cup {NoFile}

\* What a handler told its client is saved (commission, remove_node) is in
\* the file, at every later step and after every kill.
AckedOnDisk ==
    ~ overlap => acked <= OnDisk

\* No change handed to save_soon is forgotten: until the file holds it, the
\* store is dirty or a save that includes it is under way.
NothingForgotten ==
    ~ overlap /\ faults = 0 /\ up = "up" /\ promised > OnDisk =>
        \/ dirty
        \/ \E t \in Savers : /\ Saving(t)
                             /\ pc[t] = "snapshot" \/ snap[t] >= promised

\* Every change handed to save_soon reaches the file, unless the process
\* ends, a system call fails or two saves overlap first.
PromiseKept ==
    \A v \in 1 .. MaxChanges :
        promised = v ~> OnDisk >= v \/ up # "up" \/ overlap \/ faults > 0

\* A quiet store does not keep a writer thread for ever.
StandsDown == <>[](~ running)

-----------------------------------------------------------------------------
(* One save at a time implements a map whose saved version only advances.  *)

DM == INSTANCE DurableMap WITH
          current <- mem, saved <- OnDisk, newest <- changes,
          alive <- up = "up", contended <- overlap

\* Until two saves overlap, memory and file together implement DurableMap
\* through every kill, power loss and failing call: the file steps from one
\* complete version to a later one.
ImplementsDurableMap == DM!Spec

-----------------------------------------------------------------------------
(* What the comments of the code say without those provisos.               *)

\* "the store is flushed on the way out so nothing pending is lost to a
\* clean shutdown" (the module comment): what save_soon() had taken when
\* flush() looked is in the file once the process has ended.
FlushLosesNothing ==
    up = "stopped" => owed <= OnDisk

\* "for the changes that are rare and must not be lost": once save() has
\* returned Ok and no save is running, a file that reads has the change.
SavedIsNotLost ==
    (\A t \in Savers : ~ Saving(t)) /\ Readable(path) => acked <= OnDisk
=============================================================================
