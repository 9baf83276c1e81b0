-------------------------- MODULE NodeStoreProofs --------------------------
(***************************************************************************)
(* Proofs about the node store, for any number of handlers and reporters,  *)
(* any write interval and any bounds.                                      *)
(*                                                                         *)
(* Three inductive invariants.  WriterInv says where each thread may be    *)
(* and ties the writer thread to the flags of WriterState; it holds with   *)
(* saves overlapping.  FileInv describes the one save in progress, its     *)
(* temporary file and the versions on disk; it holds until two saves       *)
(* overlap.  For the refinement of DurableMap, DiskLags adds that the      *)
(* directory on the disk never has a later version than the one in memory. *)
(***************************************************************************)
EXTENDS NodeStore, TLAPS

\* Where each kind of thread may be.
PcOK ==
    /\ \A h \in Handlers : pc[h] \in InSave \cup {"idle", "clear"}
    /\ \A r \in Reporters : pc[r] \in {"idle", "soon"}
    /\ pc[Writer] \in InSave \cup {"off", "check", "wait", "sleep", "clear"}
    /\ pc[Server] \in InSave \cup {"idle", "clear", "exit"}
    /\ up # "up" => \A t \in Threads : pc[t] = Rest(t) /\ made[t] = 0

\* The sleep of the writer covers what is left of the interval since its own
\* last write, because last_write is never older than that.
PaceInv ==
    /\ age <= coalesced
    /\ pc[Writer] = "sleep" => left + coalesced >= Interval
    /\ pc[Writer] = "clear" => coalesced = Interval

WriterInv == PcOK /\ WriterOwnsDirty /\ NoLostWakeup /\ PaceInv

\* One save at a time, and what it has done to nodes.tmp so far.
OneSave ==
    /\ \A t, u \in Savers : Saving(t) /\ Saving(u) => t = u
    /\ \A t \in Savers :
          /\ pc[t] \in {"write", "sync"} => fd[t] = tmp
          /\ pc[t] \notin {"write", "sync"} => fd[t] = NoFile
          /\ pc[t] \in {"write", "sync", "rename"} => tmp # NoFile
          /\ pc[t] = "write" => content[tmp] = Empty
          /\ pc[t] \in {"sync", "rename"} => content[tmp] = snap[t]
          /\ pc[t] = "rename" => tmp \in synced

\* nodes.json, in memory and on the disk, is a complete synced file that is
\* not the one being written.
Files ==
    /\ tmp # NoFile => tmp # path /\ tmp # stable
    /\ Readable(path) /\ Readable(stable)
    /\ {path, stable} \subseteq synced \cup {NoFile}
    /\ up # "broken"

\* The order of the versions: acknowledged, on disk, being written, in memory.
Versions ==
    /\ mem <= changes
    /\ OnDisk <= changes
    /\ stable # NoFile => content[stable] <= changes
    /\ acked <= OnDisk
    /\ up = "up" =>
          /\ OnDisk <= mem /\ promised <= mem
          /\ \A t \in Threads : made[t] <= mem
          /\ \A t \in Savers :
                pc[t] \in {"open", "write", "sync", "rename"} =>
                    OnDisk <= snap[t] /\ snap[t] <= mem /\ made[t] <= snap[t]

FileParts == OneSave /\ Files /\ Versions
FileInv == ~ overlap => FileParts

-----------------------------------------------------------------------------
USE DEF memVars, writerVars, fileVars, historyVars, procVars

\* The kinds of threads: which set each belongs to.
LEMMA ThreadFacts ==
    /\ Savers \subseteq Threads /\ Reporters \subseteq Threads
    /\ Handlers \subseteq Savers /\ Writer \in Savers /\ Server \in Savers
    /\ Writer # Server /\ Writer \notin Handlers /\ Server \notin Handlers
    /\ \A r \in Reporters : r \notin Savers
    /\ \A t \in Savers : t = Writer \/ t = Server \/ t \in Handlers
BY ThreadsAssumption DEF Savers, Threads

\* TypeOK alone is not inductive: sync_all marks the saver's open file, so a
\* saver between open and close must have one.
FdOpen == \A t \in Savers : pc[t] \in {"write", "sync"} => fd[t] \in Inodes

\* The initial state, an empty store without a file, has the right types.
LEMMA TypeInit == Init => TypeOK /\ FdOpen
<1> SUFFICES ASSUME Init PROVE TypeOK /\ FdOpen
    OBVIOUS
<1> USE ThreadFacts, BoundsAssumption DEF Init, Rest, NoFile, Empty, Torn, InSave
<1>1. pc \in [Threads -> {"idle", "off"}]
    OBVIOUS
<1>2. FdOpen
    BY <1>1 DEF FdOpen
<1>3. content \in [Inodes -> Nat \cup {Empty, Torn}]
    OBVIOUS
<1>4. made \in [Threads -> Nat] /\ snap \in [Savers -> Nat]
    OBVIOUS
<1>5. fd \in [Savers -> Inodes \cup {NoFile}]
    OBVIOUS
<1>6. age \in 0 .. Interval /\ left \in 0 .. Interval /\ coalesced \in 0 .. Interval
    OBVIOUS
<1>7. pc \in [Threads -> InSave \cup {"idle", "off", "soon", "clear", "check",
                                    "wait", "sleep", "exit"}]
    BY <1>1
<1> QED
    BY <1>2, <1>3, <1>4, <1>5, <1>6, <1>7 DEF TypeOK

\* After the process ended, every thread is gone.
LEMMA GoneFacts ==
    ASSUME ThreadsGone
    PROVE  /\ pc' \in [Threads -> {"idle", "off"}]
           /\ pc'[Writer] = "off"
           /\ pc' = [t \in Threads |-> Rest(t)]
           /\ \A t \in Savers : fd'[t] = NoFile /\ snap'[t] = 0
           /\ fd' \in [Savers -> {NoFile}] /\ snap' \in [Savers -> {0}]
           /\ made' \in [Threads -> {0}] /\ \A t \in Threads : made'[t] = 0
           /\ dirty' = FALSE /\ running' = FALSE /\ notified' = FALSE
           /\ left' = 0 /\ age' = 0 /\ coalesced' = Interval
BY ThreadFacts DEF ThreadsGone, Rest

\* Every step of every thread, of the file system and of the process keeps
\* every variable in its type.
LEMMA TypeStep == TypeOK /\ FdOpen /\ [Next]_vars => TypeOK' /\ FdOpen'
<1> SUFFICES ASSUME TypeOK, FdOpen, [Next]_vars PROVE TypeOK' /\ FdOpen'
    OBVIOUS
<1> USE ThreadFacts, BoundsAssumption
    DEF TypeOK, FdOpen, InSave, NoFile, Empty, Torn
<1>1. ASSUME NEW h \in Handlers, HandlerChange(h) PROVE TypeOK' /\ FdOpen'
    BY <1>1 DEF HandlerChange, Change
<1>2. ASSUME NEW r \in Reporters, ReporterChange(r) PROVE TypeOK' /\ FdOpen'
    BY <1>2 DEF ReporterChange, Change
<1>3. ASSUME NEW r \in Reporters, SaveSoon(r) PROVE TypeOK' /\ FdOpen'
    BY <1>3 DEF SaveSoon
<1>4. ASSUME NEW t \in Savers, SaveClear(t) PROVE TypeOK' /\ FdOpen'
    <2>1. overlap' \in BOOLEAN
        BY <1>4 DEF SaveClear
    <2>2. coalesced' \in 0 .. Interval /\ age' \in 0 .. Interval
        BY <1>4 DEF SaveClear
    <2>3. UNCHANGED <<memVars, running, left, notified, fileVars, acked,
                      promised, owed, procVars, snap, fd>>
        BY <1>4 DEF SaveClear
    <2>4. pc' = [pc EXCEPT ![t] = "snapshot"] /\ dirty' = FALSE
        BY <1>4 DEF SaveClear
    <2> QED
        BY <2>1, <2>2, <2>3, <2>4
<1>5. ASSUME NEW t \in Savers, SaveSnapshot(t) PROVE TypeOK' /\ FdOpen'
    BY <1>5 DEF SaveSnapshot
<1>6. ASSUME NEW t \in Savers, OpenTmp(t) PROVE TypeOK' /\ FdOpen'
    BY <1>6 DEF OpenTmp
<1>7. ASSUME NEW t \in Savers, WriteTmp(t) PROVE TypeOK' /\ FdOpen'
    <2>1. content' \in [Inodes -> Nat \cup {Empty, Torn}]
        BY <1>7 DEF WriteTmp
    <2> QED
        BY <1>7, <2>1 DEF WriteTmp
<1>8. ASSUME NEW t \in Savers, SyncTmp(t) PROVE TypeOK' /\ FdOpen'
    BY <1>8 DEF SyncTmp
<1>9. ASSUME NEW t \in Savers, Rename(t) PROVE TypeOK' /\ FdOpen'
    BY <1>9 DEF Rename, Returns
<1>10. ASSUME NEW t \in Savers, RenameMissing(t) PROVE TypeOK' /\ FdOpen'
    BY <1>10 DEF RenameMissing, Returns
<1>11. ASSUME NEW t \in Savers, SaveFault(t) PROVE TypeOK' /\ FdOpen'
    BY <1>11 DEF SaveFault, Returns
<1>12. ASSUME WriterWait \/ WriterWake \/ WriterIdle PROVE TypeOK' /\ FdOpen'
    BY <1>12 DEF WriterWait, WriterWake, WriterIdle
<1>13. ASSUME WriterDue \/ WriterSave PROVE TypeOK' /\ FdOpen'
    BY <1>13 DEF WriterDue, WriterSave
<1>14. ASSUME Tick PROVE TypeOK' /\ FdOpen'
    BY <1>14 DEF Tick
<1>15. ASSUME Flush PROVE TypeOK' /\ FdOpen'
    BY <1>15 DEF Flush
<1>16. ASSUME Exit PROVE TypeOK' /\ FdOpen'
    BY <1>16, GoneFacts DEF Exit
<1>17. ASSUME Crash PROVE TypeOK' /\ FdOpen'
    BY <1>17, GoneFacts DEF Crash
<1>18. ASSUME PowerLoss PROVE TypeOK' /\ FdOpen'
    <2>1. content' \in [Inodes -> Nat \cup {Empty, Torn}]
        BY <1>18 DEF PowerLoss
    <2> QED
        BY <1>18, <2>1, GoneFacts DEF PowerLoss
<1>19. ASSUME CommitDirectory PROVE TypeOK' /\ FdOpen'
    BY <1>19 DEF CommitDirectory
<1>20. ASSUME Load PROVE TypeOK' /\ FdOpen'
    BY <1>20 DEF Load, Readable, OnDisk
<1>21. ASSUME UNCHANGED vars PROVE TypeOK' /\ FdOpen'
    BY <1>21 DEF vars
<1> QED
    BY <1>1, <1>2, <1>3, <1>4, <1>5, <1>6, <1>7, <1>8, <1>9, <1>10, <1>11,
       <1>12, <1>13, <1>14, <1>15, <1>16, <1>17, <1>18, <1>19, <1>20, <1>21
    DEF Next, Save, WriterLoop

\* Every variable of the store, its writer thread and its files keeps its
\* type in every behaviour.
THEOREM TypeCorrect == Spec => []TypeOK
BY TypeInit, TypeStep, PTL DEF Spec

-----------------------------------------------------------------------------
\* The writer thread's invariant holds when nothing has run yet.
LEMMA WriterInit == Init => WriterInv
<1> SUFFICES ASSUME Init PROVE WriterInv
    OBVIOUS
<1>1. \A t \in Threads : pc[t] = Rest(t) /\ made[t] = 0
    BY DEF Init
<1>2. pc[Writer] = "off" /\ pc[Server] = "idle"
    BY <1>1, ThreadFacts DEF Rest
<1>3. PcOK
    BY <1>1, <1>2, ThreadFacts DEF PcOK, Rest, InSave
<1> QED
    BY <1>2, <1>3, BoundsAssumption
    DEF Init, WriterInv, WriterOwnsDirty, NoLostWakeup, PaceInv

\* A thread that is not the writer, in a step that touches neither the
\* writer's position nor WriterState, keeps the writer's part.
LEMMA WriterKept ==
    ASSUME TypeOK, WriterInv, pc'[Writer] = pc[Writer],
           UNCHANGED <<dirty, running, notified, age, left, coalesced>>
    PROVE  WriterOwnsDirty' /\ NoLostWakeup' /\ PaceInv'
BY DEF WriterInv, WriterOwnsDirty, NoLostWakeup, PaceInv

\* Every step keeps the writer thread's invariant.
LEMMA WriterStep ==
    TypeOK /\ WriterInv /\ [Next]_vars => WriterInv'
<1> SUFFICES ASSUME TypeOK, WriterInv, [Next]_vars PROVE WriterInv'
    OBVIOUS
<1> USE ThreadFacts, BoundsAssumption DEF InSave
<1>a. pc \in [Threads -> InSave \cup {"idle", "off", "soon", "clear", "check",
                                      "wait", "sleep", "exit"}]
    BY DEF TypeOK
<1>b. /\ age \in 0 .. Interval /\ left \in 0 .. Interval
      /\ coalesced \in 0 .. Interval
    BY DEF TypeOK
<1>1. ASSUME NEW h \in Handlers, HandlerChange(h) PROVE WriterInv'
    <2>1. PcOK'
        BY <1>1, <1>a DEF WriterInv, PcOK, HandlerChange, Change
    <2> QED
        BY <1>1, <1>a, <2>1, WriterKept DEF WriterInv, HandlerChange
<1>2. ASSUME NEW r \in Reporters, ReporterChange(r) PROVE WriterInv'
    <2>1. PcOK'
        BY <1>2, <1>a DEF WriterInv, PcOK, ReporterChange, Change
    <2> QED
        BY <1>2, <1>a, <2>1, WriterKept DEF WriterInv, ReporterChange
<1>3. ASSUME NEW r \in Reporters, SaveSoon(r) PROVE WriterInv'
    <2>1. PcOK'
        BY <1>3, <1>a DEF WriterInv, PcOK, SaveSoon
    <2>2. WriterOwnsDirty' /\ NoLostWakeup'
        BY <1>3, <1>a DEF WriterInv, WriterOwnsDirty, NoLostWakeup, SaveSoon
    <2>3. PaceInv'
        BY <1>3, <1>a, <1>b DEF WriterInv, PaceInv, SaveSoon
    <2> QED
        BY <2>1, <2>2, <2>3 DEF WriterInv
<1>4. ASSUME NEW t \in Savers, SaveClear(t) PROVE WriterInv'
    <2>1. PcOK'
        BY <1>4, <1>a DEF WriterInv, PcOK, SaveClear
    <2>2. WriterOwnsDirty' /\ NoLostWakeup'
        BY <1>4, <1>a DEF WriterInv, WriterOwnsDirty, NoLostWakeup, SaveClear
    <2>3. PaceInv'
        BY <1>4, <1>a, <1>b DEF WriterInv, PaceInv, SaveClear
    <2> QED
        BY <2>1, <2>2, <2>3 DEF WriterInv
<1>5. ASSUME NEW t \in Savers, pc[t] \in InSave, pc' = [pc EXCEPT ![t] = pc'[t]],
             \/ pc'[t] \in InSave
             \/ t = Writer /\ pc'[t] = "check"
             \/ t = Server /\ pc'[t] = "exit"
             \/ t \in Handlers /\ pc'[t] = "idle",
             UNCHANGED <<up, made, writerVars, coalesced>>, up = "up"
      PROVE  WriterInv'
    <2>1. PcOK'
        BY <1>5, <1>a DEF WriterInv, PcOK
    <2>2. WriterOwnsDirty' /\ NoLostWakeup'
        BY <1>5, <1>a DEF WriterInv, WriterOwnsDirty, NoLostWakeup
    <2>3. PaceInv'
        BY <1>5, <1>a, <1>b DEF WriterInv, PaceInv
    <2> QED
        BY <2>1, <2>2, <2>3 DEF WriterInv
<1>6. ASSUME NEW t \in Savers,
             SaveSnapshot(t) \/ OpenTmp(t) \/ WriteTmp(t) \/ SyncTmp(t)
      PROVE  WriterInv'
    BY <1>5, <1>6, <1>a DEF SaveSnapshot, OpenTmp, WriteTmp, SyncTmp
<1>7. ASSUME NEW t \in Savers, Rename(t) \/ RenameMissing(t) \/ SaveFault(t)
      PROVE  WriterInv'
    BY <1>5, <1>7, <1>a DEF Rename, RenameMissing, SaveFault, Returns
<1>8. ASSUME WriterLoop PROVE WriterInv'
    <2> USE DEF WriterLoop, WriterWait, WriterWake, WriterIdle, WriterDue, WriterSave
    <2>1. PcOK'
        BY <1>8, <1>a DEF WriterInv, PcOK
    <2>2. WriterOwnsDirty' /\ NoLostWakeup'
        BY <1>8, <1>a DEF WriterInv, WriterOwnsDirty, NoLostWakeup
    <2>3. PaceInv'
        BY <1>8, <1>a, <1>b DEF WriterInv, PaceInv
    <2> QED
        BY <2>1, <2>2, <2>3 DEF WriterInv
<1>9. ASSUME Tick PROVE WriterInv'
    <2>1. PcOK' /\ WriterOwnsDirty' /\ NoLostWakeup'
        BY <1>9 DEF Tick, WriterInv, PcOK, WriterOwnsDirty, NoLostWakeup, Rest
    <2>2. PaceInv'
        BY <1>9, <1>b DEF Tick, WriterInv, PaceInv
    <2> QED
        BY <2>1, <2>2 DEF WriterInv
<1>10. ASSUME Flush PROVE WriterInv'
    <2>1. PcOK'
        BY <1>10, <1>a DEF WriterInv, PcOK, Flush
    <2> QED
        BY <1>10, <1>a, <2>1, WriterKept DEF WriterInv, Flush
<1>11. ASSUME ThreadsGone, up' # "up" PROVE WriterInv'
    <2>1. \A t \in Threads : pc'[t] = Rest(t) /\ made'[t] = 0
        BY <1>11, GoneFacts
    <2>2. PcOK'
        BY <2>1 DEF PcOK, Rest
    <2> QED
        BY <1>11, <2>2, GoneFacts
        DEF WriterInv, WriterOwnsDirty, NoLostWakeup, PaceInv
<1>12. ASSUME Exit \/ Crash \/ PowerLoss PROVE WriterInv'
    BY <1>11, <1>12 DEF Exit, Crash, PowerLoss
<1>13. ASSUME CommitDirectory \/ Load PROVE WriterInv'
    <2>1. PcOK'
        BY <1>13 DEF WriterInv, PcOK, CommitDirectory, Load, Rest
    <2> QED
        BY <1>13, <2>1, WriterKept DEF WriterInv, CommitDirectory, Load
<1>14. ASSUME UNCHANGED vars PROVE WriterInv'
    <2>1. PcOK'
        BY <1>14 DEF WriterInv, PcOK, vars, Rest
    <2> QED
        BY <1>14, <2>1, WriterKept DEF WriterInv, vars
<1> QED
    BY <1>1, <1>2, <1>3, <1>4, <1>6, <1>7, <1>8, <1>9, <1>10, <1>12, <1>13, <1>14
    DEF Next, Save

\* However handlers, reporters, shutdowns and crashes interleave, a dirty
\* store has its writer thread and there is never a second one.
THEOREM DirtyHasWriter == Spec => []WriterOwnsDirty
BY TypeInit, TypeStep, WriterInit, WriterStep, PTL DEF Spec, WriterInv

\* No call of save_soon leaves the writer asleep on work.
THEOREM WakeupsArrive == Spec => []NoLostWakeup
BY TypeInit, TypeStep, WriterInit, WriterStep, PTL DEF Spec, WriterInv

\* Two coalesced writes are at least WRITE_INTERVAL apart.
THEOREM WritesArePaced == Spec => CoalescedWritesPaced
<1>1. TypeOK /\ WriterInv /\ [Next]_vars =>
          [pc[Writer] = "clear" /\ pc'[Writer] = "snapshot"
              => coalesced = Interval]_vars
    BY DEF WriterInv, PaceInv
<1> QED
    BY <1>1, TypeInit, TypeStep, WriterInit, WriterStep, PTL
    DEF Spec, CoalescedWritesPaced

-----------------------------------------------------------------------------
\* Once two saves have overlapped, that stays on record.
LEMMA OverlapStays == [Next]_vars /\ overlap => overlap'
BY DEF Next, HandlerChange, ReporterChange, SaveSoon, Save, SaveClear,
       SaveSnapshot, OpenTmp, WriteTmp, SyncTmp, Rename, RenameMissing,
       SaveFault, WriterLoop, WriterWait, WriterWake, WriterIdle,
       WriterDue, WriterSave, Tick, Flush, Exit, Crash, PowerLoss,
       CommitDirectory, Load, vars

\* The failed system calls are counted one at a time.
LEMMA FaultsCounted == [Next]_vars => faults' = faults \/ faults' = faults + 1
BY DEF Next, HandlerChange, ReporterChange, SaveSoon, Save, SaveClear,
       SaveSnapshot, OpenTmp, WriteTmp, SyncTmp, Rename, RenameMissing,
       SaveFault, WriterLoop, WriterWait, WriterWake, WriterIdle,
       WriterDue, WriterSave, Tick, Flush, Exit, Crash, PowerLoss,
       CommitDirectory, Load, vars

\* No save is running, nothing is on disk and every version is 0.
LEMMA FileInit == Init => FileInv
<1> SUFFICES ASSUME Init PROVE OneSave /\ Files /\ Versions
    BY DEF FileInv, FileParts
<1>1. \A t \in Savers : pc[t] \in {"idle", "off"} /\ fd[t] = NoFile
    BY ThreadFacts DEF Init, Rest
<1>2. \A t \in Threads : made[t] = 0
    BY DEF Init
<1> QED
    BY <1>1, <1>2
    DEF Init, OneSave, Files, Versions, Saving, InSave, NoFile, Readable, OnDisk

\* A step that leaves the files and the savers alone keeps what is said of them.
LEMMA FilesKept ==
    ASSUME FileParts, UNCHANGED <<fileVars, snap, fd>>, up' = up \/ up' # "broken",
           \A t \in Savers : \/ pc'[t] = pc[t]
                             \/ pc[t] \notin InSave /\ pc'[t] \notin InSave
    PROVE  OneSave' /\ Files'
<1>1. OneSave'
    BY DEF FileParts, OneSave, Saving, InSave
<1>2. Files'
    BY DEF FileParts, Files, Readable
<1> QED
    BY <1>1, <1>2

\* Every step keeps the description of the one save in progress, of the files
\* and of the versions, until a second save begins beside the first.
LEMMA FileStep ==
    TypeOK /\ FdOpen /\ WriterInv /\ FileInv /\ [Next]_vars => FileInv'
<1> SUFFICES ASSUME TypeOK, FdOpen, WriterInv, FileInv, [Next]_vars, ~ overlap'
             PROVE  FileParts'
    BY DEF FileInv
<1> USE ThreadFacts, BoundsAssumption DEF InSave, NoFile, Empty, Torn
<1>a. /\ pc \in [Threads -> InSave \cup {"idle", "off", "soon", "clear", "check",
                                         "wait", "sleep", "exit"}]
      /\ mem \in Nat /\ changes \in Nat /\ acked \in Nat /\ promised \in Nat
      /\ made \in [Threads -> Nat] /\ snap \in [Savers -> Nat]
      /\ fd \in [Savers -> Inodes \cup {NoFile}]
      /\ tmp \in Inodes \cup {NoFile}
      /\ path \in Inodes \cup {NoFile} /\ stable \in Inodes \cup {NoFile}
      /\ content \in [Inodes -> Nat \cup {Empty, Torn}]
      /\ synced \subseteq Inodes
    BY DEF TypeOK
<1>o. ~ overlap
    BY OverlapStays
<1>f. FileParts
    BY <1>o DEF FileInv
<1>i. 0 \notin Inodes
    BY DEF Inodes
<1>p. PcOK
    BY DEF WriterInv
<1>1. ASSUME NEW t \in Threads, Change(t), pc'[t] \in {"clear", "soon"},
             pc' = [pc EXCEPT ![t] = pc'[t]],
             UNCHANGED <<fileVars, up, snap, fd, acked, promised>>
      PROVE  FileParts'
    <2>1. OneSave' /\ Files'
        BY <1>1, <1>a, <1>f, FilesKept DEF Change
    <2>2. Versions'
        BY <1>1, <1>a, <1>f DEF Change, FileParts, Versions, OnDisk
    <2> QED
        BY <2>1, <2>2 DEF FileParts
<1>2. ASSUME NEW h \in Handlers, HandlerChange(h) PROVE FileParts'
    BY <1>1, <1>2, <1>a DEF HandlerChange
<1>3. ASSUME NEW r \in Reporters, ReporterChange(r) PROVE FileParts'
    BY <1>1, <1>3, <1>a DEF ReporterChange
<1>4. ASSUME NEW r \in Reporters, SaveSoon(r) PROVE FileParts'
    <2>1. \A t \in Savers : \/ pc'[t] = pc[t]
                            \/ pc[t] \notin InSave /\ pc'[t] \notin InSave
        BY <1>4, <1>a DEF SaveSoon, WriterInv, WriterOwnsDirty, PcOK
    <2>2. OneSave' /\ Files'
        BY <1>4, <1>f, <2>1, FilesKept DEF SaveSoon
    <2>3. Versions'
        BY <1>4, <1>a, <1>f DEF SaveSoon, FileParts, Versions, OnDisk
    <2> QED
        BY <2>2, <2>3 DEF FileParts
<1>5. ASSUME NEW t \in Savers, SaveClear(t) PROVE FileParts'
    <2>1. \A u \in Savers \ {t} : ~ Saving(u)
        BY <1>5 DEF SaveClear
    <2>2. OneSave'
        BY <1>5, <1>a, <1>f, <2>1 DEF SaveClear, FileParts, OneSave, Saving
    <2>3. Files'
        BY <1>5, <1>f DEF SaveClear, FileParts, Files, Readable
    <2>4. Versions'
        BY <1>5, <1>a, <1>f DEF SaveClear, FileParts, Versions, OnDisk
    <2> QED
        BY <2>2, <2>3, <2>4 DEF FileParts
<1>6. ASSUME NEW t \in Savers, SaveSnapshot(t) PROVE FileParts'
    <2>1. OneSave'
        BY <1>6, <1>a, <1>f DEF SaveSnapshot, FileParts, OneSave, Saving
    <2>2. Files'
        BY <1>6, <1>f DEF SaveSnapshot, FileParts, Files, Readable
    <2>3. Versions'
        BY <1>6, <1>a, <1>f DEF SaveSnapshot, FileParts, Versions, OnDisk
    <2> QED
        BY <2>1, <2>2, <2>3 DEF FileParts
<1>7. ASSUME NEW t \in Savers, OpenTmp(t) PROVE FileParts'
    <2>1. PICK i \in Inodes :
              /\ i # path /\ i # stable
              /\ tmp' = i /\ fd' = [fd EXCEPT ![t] = i]
              /\ content' = [content EXCEPT ![i] = Empty]
              /\ synced' = synced \ {i}
        BY <1>7, <1>f, <1>i DEF OpenTmp, Fresh, FileParts, Files
    <2>2. /\ pc' = [pc EXCEPT ![t] = "write"] /\ pc[t] = "open"
          /\ UNCHANGED <<memVars, path, stable, snap, up, acked, promised>>
        BY <1>7 DEF OpenTmp
    <2>3. OneSave'
        BY <2>1, <2>2, <1>a, <1>f, <1>i DEF FileParts, OneSave, Saving
    <2>4. Files'
        BY <2>1, <2>2, <1>a, <1>f, <1>i DEF FileParts, Files, Readable
    <2>5. Versions'
        BY <2>1, <2>2, <1>a, <1>f, <1>i DEF FileParts, Versions, OnDisk
    <2> QED
        BY <2>3, <2>4, <2>5 DEF FileParts
<1>8. ASSUME NEW t \in Savers, WriteTmp(t) PROVE FileParts'
    <2>1. /\ pc[t] = "write" /\ fd[t] = tmp /\ tmp # NoFile
          /\ content[tmp] = Empty /\ tmp # path /\ tmp # stable
        BY <1>8, <1>f DEF WriteTmp, FileParts, OneSave, Files
    <2>2. /\ content' = [content EXCEPT ![tmp] = snap[t]]
          /\ synced' = synced \ {tmp}
          /\ pc' = [pc EXCEPT ![t] = "sync"]
          /\ UNCHANGED <<memVars, tmp, path, stable, snap, fd, up, acked, promised>>
        BY <1>8, <2>1 DEF WriteTmp
    <2>3. OneSave'
        BY <2>1, <2>2, <1>a, <1>f, <1>i DEF FileParts, OneSave, Saving
    <2>4. Files'
        BY <2>1, <2>2, <1>a, <1>f, <1>i DEF FileParts, Files, Readable
    <2>5. Versions'
        BY <2>1, <2>2, <1>a, <1>f, <1>i DEF FileParts, Versions, OnDisk
    <2> QED
        BY <2>3, <2>4, <2>5 DEF FileParts
<1>9. ASSUME NEW t \in Savers, SyncTmp(t) PROVE FileParts'
    <2>1. OneSave'
        BY <1>9, <1>a, <1>f, <1>i DEF SyncTmp, FileParts, OneSave, Saving
    <2>2. Files'
        BY <1>9, <1>a, <1>f DEF SyncTmp, FileParts, Files, Readable
    <2>3. Versions'
        BY <1>9, <1>a, <1>f DEF SyncTmp, FileParts, Versions, OnDisk
    <2> QED
        BY <2>1, <2>2, <2>3 DEF FileParts
<1>10. ASSUME NEW t \in Savers, Rename(t) PROVE FileParts'
    <2>1. /\ tmp \in Inodes /\ tmp \in synced /\ content[tmp] = snap[t]
          /\ snap[t] \in Nat
        BY <1>10, <1>a, <1>f DEF Rename, FileParts, OneSave
    <2>2. /\ path' = tmp /\ tmp' = NoFile /\ pc[t] = "rename"
          /\ pc' = [pc EXCEPT ![t] = pc'[t]]
          /\ pc'[t] \in {"check", "exit", "idle"}
          /\ snap' = [snap EXCEPT ![t] = 0]
          /\ acked' = acked \/ acked' = made[t]
          /\ UNCHANGED <<memVars, stable, content, synced, promised, up, fd>>
          /\ up = "up"
        BY <1>10, <1>a DEF Rename, Returns
    <2>3. OneSave'
        BY <2>1, <2>2, <1>a, <1>f, <1>i DEF FileParts, OneSave, Saving
    <2>4. Files'
        BY <2>1, <2>2, <1>a, <1>f, <1>i DEF FileParts, Files, Readable
    <2>5. OnDisk <= snap[t] /\ snap[t] <= mem /\ made[t] <= snap[t] /\ OnDisk' = snap[t]
        BY <2>1, <2>2, <1>i, <1>f DEF FileParts, Versions, OnDisk
    <2>6. \A u \in Savers : pc'[u] \notin InSave
        BY <2>2, <1>a, <1>f DEF FileParts, OneSave, Saving
    <2>7. OnDisk \in Nat
        BY <1>a, <1>f DEF FileParts, Files, Readable, OnDisk
    <2>8. Versions'
        BY <2>1, <2>2, <2>5, <2>6, <2>7, <1>a, <1>f DEF FileParts, Versions
    <2> QED
        BY <2>3, <2>4, <2>8 DEF FileParts
<1>11. ASSUME NEW t \in Savers, RenameMissing(t) PROVE FileParts'
    BY <1>11, <1>f DEF RenameMissing, FileParts, OneSave
<1>12. ASSUME NEW t \in Savers, SaveFault(t) PROVE FileParts'
    <2>1. /\ pc[t] \in InSave
          /\ pc' = [pc EXCEPT ![t] = pc'[t]]
          /\ pc'[t] \in {"check", "exit", "idle"}
          /\ snap' = [snap EXCEPT ![t] = 0]
          /\ fd' = [fd EXCEPT ![t] = NoFile]
          /\ UNCHANGED <<memVars, tmp, path, stable, acked, promised, up>>
          /\ up = "up"
        BY <1>12, <1>a DEF SaveFault, Returns
    <2>2. \A i \in Inodes \ {tmp} : content'[i] = content[i] /\ (i \in synced' <=> i \in synced)
        BY <1>12, <1>a, <1>f DEF SaveFault, FileParts, OneSave
    <2>3. \A u \in Savers : pc'[u] \notin InSave
        BY <2>1, <1>a, <1>f DEF FileParts, OneSave, Saving
    <2>4. OneSave'
        BY <2>1, <2>3, <1>a, <1>f DEF FileParts, OneSave, Saving
    <2>5. Files'
        BY <2>1, <2>2, <1>a, <1>f, <1>i DEF FileParts, Files, Readable
    <2>6. OnDisk' = OnDisk /\ (stable # NoFile => content'[stable] = content[stable])
        BY <2>1, <2>2, <1>a, <1>f DEF FileParts, Files, OnDisk
    <2>7. Versions'
        BY <2>1, <2>3, <2>6, <1>a, <1>f DEF FileParts, Versions
    <2> QED
        BY <2>4, <2>5, <2>7 DEF FileParts
<1>13. ASSUME WriterLoop PROVE FileParts'
    <2> USE DEF WriterLoop, WriterWait, WriterWake, WriterIdle, WriterDue, WriterSave
    <2>1. OneSave' /\ Files'
        BY <1>13, <1>a, <1>f, FilesKept
    <2>2. Versions'
        BY <1>13, <1>a, <1>f DEF FileParts, Versions, OnDisk
    <2> QED
        BY <2>1, <2>2 DEF FileParts
<1>14. ASSUME Flush PROVE FileParts'
    <2>1. OneSave' /\ Files'
        BY <1>14, <1>a, <1>f, FilesKept DEF Flush
    <2>2. Versions'
        BY <1>14, <1>a, <1>f DEF Flush, FileParts, Versions, OnDisk
    <2> QED
        BY <2>1, <2>2 DEF FileParts
<1>15. ASSUME Exit \/ Crash, Files PROVE FileParts'
    <2>1. \A t \in Savers : pc'[t] \in {"idle", "off"} /\ fd'[t] = NoFile
        BY <1>15, GoneFacts DEF Exit, Crash
    <2>2. OneSave'
        BY <2>1 DEF OneSave, Saving
    <2>3. Files' /\ Versions'
        BY <1>15, <1>f DEF Exit, Crash, FileParts, Files, Versions, Readable, OnDisk
    <2> QED
        BY <2>2, <2>3 DEF FileParts
<1>16. ASSUME PowerLoss PROVE FileParts'
    <2>1. \A t \in Savers : pc'[t] \in {"idle", "off"} /\ fd'[t] = NoFile
        BY <1>16, GoneFacts DEF PowerLoss
    <2>2. OneSave'
        BY <2>1 DEF OneSave, Saving
    <2>3. stable # NoFile => content'[stable] = content[stable] /\ content[stable] >= 0
        BY <1>16, <1>a, <1>f DEF PowerLoss, FileParts, Files, Readable
    <2>4. /\ path' = stable /\ tmp' = NoFile /\ up' = "down" /\ acked' = 0
          /\ UNCHANGED <<mem, changes, stable, synced>>
        BY <1>16 DEF PowerLoss
    <2>5. Files'
        BY <2>3, <2>4, <1>f DEF FileParts, Files, Readable
    <2>6. Versions'
        BY <2>3, <2>4, <1>a, <1>f DEF FileParts, Versions, OnDisk
    <2> QED
        BY <2>2, <2>5, <2>6 DEF FileParts
<1>17. ASSUME CommitDirectory PROVE FileParts'
    <2>1. OneSave'
        BY <1>17, <1>f DEF CommitDirectory, FileParts, OneSave, Saving
    <2>2. Files'
        BY <1>17, <1>f DEF CommitDirectory, FileParts, Files, Readable
    <2>3. Versions'
        BY <1>17, <1>f DEF CommitDirectory, FileParts, Versions, OnDisk
    <2> QED
        BY <2>1, <2>2, <2>3 DEF FileParts
<1>18. ASSUME Load PROVE FileParts'
    <2>1. /\ up' = "up" /\ mem' = OnDisk /\ promised' = 0 /\ up # "up"
          /\ UNCHANGED <<changes, made, fileVars, acked, pc, snap, fd>>
        BY <1>18, <1>f DEF Load, FileParts, Files
    <2>2. OneSave' /\ Files'
        BY <2>1, <1>f, FilesKept
    <2>3. OnDisk \in Nat /\ OnDisk' = OnDisk
        BY <2>1, <1>a, <1>f DEF FileParts, Files, Readable, OnDisk
    <2>4. \A t \in Savers : pc[t] \notin InSave
        BY <2>1, <1>p DEF PcOK, Rest
    <2>5. Versions'
        BY <2>1, <2>3, <2>4, <1>a, <1>f, <1>p DEF FileParts, Versions, PcOK
    <2> QED
        BY <2>2, <2>5 DEF FileParts
<1>19. ASSUME Tick \/ UNCHANGED vars PROVE FileParts'
    BY <1>19, <1>f
    DEF Tick, vars, FileParts, OneSave, Files, Versions, Saving, Readable, OnDisk
<1> QED
    BY <1>2, <1>3, <1>4, <1>5, <1>6, <1>7, <1>8, <1>9, <1>10, <1>11, <1>12, <1>13,
       <1>14, <1>15, <1>16, <1>17, <1>18, <1>19, <1>f
    DEF Next, Save, FileParts

\* A kill or a power loss at any point of any save leaves a file that load()
\* reads, as long as no two saves have overlapped.
THEOREM FileIsIntact == Spec => []IntactFile
<1>1. FileInv => IntactFile
    BY DEF FileInv, FileParts, Files, IntactFile
<1> QED
    BY <1>1, TypeInit, TypeStep, WriterInit, WriterStep, FileInit, FileStep, PTL
    DEF Spec

\* What save() has acknowledged is in the file from then on, through kills
\* and failing system calls, as long as no two saves have overlapped.
THEOREM AckedIsDurable == Spec => []AckedOnDisk
<1>1. FileInv => AckedOnDisk
    BY DEF FileInv, FileParts, Versions, AckedOnDisk
<1> QED
    BY <1>1, TypeInit, TypeStep, WriterInit, WriterStep, FileInit, FileStep, PTL
    DEF Spec

-----------------------------------------------------------------------------
\* Every step keeps track of the changes promised by save_soon: what clears
\* dirty is a save whose snapshot is still to come, and what ends a save puts
\* its snapshot in the file.
LEMMA ForgottenStep ==
    TypeOK /\ FdOpen /\ WriterInv /\ FileInv /\ NothingForgotten /\ [Next]_vars
        => NothingForgotten'
<1> DEFINE Covered == dirty \/ \E t \in Savers :
                 Saving(t) /\ (pc[t] = "snapshot" \/ snap[t] >= promised)
<1> SUFFICES ASSUME TypeOK, FdOpen, WriterInv, FileInv, NothingForgotten,
                    [Next]_vars, ~ overlap', faults' = 0, up' = "up",
                    promised' > OnDisk'
             PROVE  Covered'
    BY DEF NothingForgotten
<1> USE ThreadFacts DEF InSave, NoFile
<1>a. /\ pc \in [Threads -> InSave \cup {"idle", "off", "soon", "clear", "check",
                                         "wait", "sleep", "exit"}]
      /\ mem \in Nat /\ promised \in Nat /\ faults \in Nat
      /\ snap \in [Savers -> Nat] /\ tmp \in Inodes \cup {NoFile}
      /\ path \in Inodes \cup {NoFile}
      /\ content \in [Inodes -> Nat \cup {Empty, Torn}]
    BY DEF TypeOK
<1>b. ~ overlap /\ faults = 0
    BY <1>a, OverlapStays, FaultsCounted
<1>f. FileParts
    BY <1>b DEF FileInv
<1>d. OnDisk \in Nat
    BY <1>a, <1>f DEF FileParts, Files, Readable, OnDisk, Empty, Torn
<1>c. up = "up" /\ promised > OnDisk => Covered
    BY <1>b DEF NothingForgotten
<1> HIDE DEF Covered
<1>1. ASSUME UNCHANGED <<dirty, promised, path, content, snap, up>>,
             \A t \in Savers : pc[t] \in InSave => pc'[t] = pc[t]
      PROVE  Covered'
    <2>1. Covered
        BY <1>1, <1>c DEF OnDisk
    <2> QED
        BY <1>1, <2>1 DEF Covered, Saving
<1>2. ASSUME NEW h \in Handlers, HandlerChange(h) PROVE Covered'
    BY <1>1, <1>2, <1>a DEF HandlerChange, Change
<1>3. ASSUME NEW r \in Reporters, ReporterChange(r) PROVE Covered'
    BY <1>1, <1>3, <1>a DEF ReporterChange, Change
<1>4. ASSUME NEW r \in Reporters, SaveSoon(r) PROVE Covered'
    BY <1>4 DEF SaveSoon, Covered
<1>5. ASSUME NEW t \in Savers, SaveClear(t) PROVE Covered'
    BY <1>5, <1>a DEF SaveClear, Covered, Saving
<1>6. ASSUME NEW t \in Savers, SaveSnapshot(t) PROVE Covered'
    <2>1. promised <= mem
        BY <1>6, <1>f DEF SaveSnapshot, FileParts, Versions
    <2>2. pc'[t] = "open" /\ snap'[t] = mem /\ promised' = promised
        BY <1>6, <1>a DEF SaveSnapshot
    <2> QED
        BY <2>1, <2>2, <1>a DEF Covered, Saving
<1>7. ASSUME NEW t \in Savers, OpenTmp(t) \/ WriteTmp(t) \/ SyncTmp(t)
      PROVE  Covered'
    <2>1. /\ UNCHANGED <<dirty, promised, path, snap, up>> /\ up = "up"
          /\ pc[t] \in InSave \ {"snapshot"} /\ pc'[t] \in InSave
          /\ pc' = [pc EXCEPT ![t] = pc'[t]]
        BY <1>7, <1>a DEF OpenTmp, WriteTmp, SyncTmp
    <2>2. path # NoFile => content'[path] = content[path]
        BY <1>7, <1>a, <1>f
        DEF OpenTmp, WriteTmp, SyncTmp, Fresh, FileParts, Files, OneSave
    <2>3. Covered
        BY <2>1, <2>2, <1>c DEF OnDisk
    <2> QED
        BY <2>1, <2>3, <1>a DEF Covered, Saving
<1>8. ASSUME NEW t \in Savers, Rename(t) PROVE Covered'
    <2>1. /\ pc[t] = "rename" /\ up = "up" /\ path' = tmp /\ tmp \in Inodes
          /\ UNCHANGED <<dirty, promised, content>>
        BY <1>8, <1>a DEF Rename
    <2>2. OnDisk' = snap[t] /\ OnDisk <= snap[t]
        BY <2>1, <1>f DEF FileParts, OneSave, Versions, OnDisk, Inodes
    <2>3. Covered
        BY <2>1, <2>2, <1>a, <1>c, <1>d
    <2>4. dirty
        BY <2>1, <2>2, <2>3, <1>a, <1>f DEF Covered, FileParts, OneSave, Saving
    <2> QED
        BY <2>1, <2>4 DEF Covered
<1>9. ASSUME NEW t \in Savers, RenameMissing(t) PROVE FALSE
    BY <1>9, <1>f DEF RenameMissing, FileParts, OneSave
<1>10. ASSUME NEW t \in Savers, SaveFault(t) PROVE FALSE
    BY <1>10, <1>a DEF SaveFault
<1>11. ASSUME WriterLoop PROVE Covered'
    BY <1>1, <1>11, <1>a
    DEF WriterLoop, WriterWait, WriterWake, WriterIdle, WriterDue, WriterSave
<1>12. ASSUME Tick \/ Flush \/ CommitDirectory \/ UNCHANGED vars PROVE Covered'
    BY <1>1, <1>12, <1>a DEF Tick, Flush, CommitDirectory, vars
<1>13. ASSUME Exit \/ Crash \/ PowerLoss PROVE FALSE
    BY <1>13 DEF Exit, Crash, PowerLoss
<1>14. ASSUME Load PROVE FALSE
    BY <1>14, <1>d, <1>f DEF Load, FileParts, Files, OnDisk
<1> QED
    BY <1>2, <1>3, <1>4, <1>5, <1>6, <1>7, <1>8, <1>9, <1>10, <1>11, <1>12,
       <1>13, <1>14
    DEF Next, Save

\* Until the file holds a change that save_soon promised to write, the store
\* is dirty or a save that includes it is under way.
THEOREM NothingIsForgotten == Spec => []NothingForgotten
<1>1. Init => NothingForgotten
    BY DEF Init, NothingForgotten, OnDisk, NoFile
<1> QED
    BY <1>1, TypeInit, TypeStep, WriterInit, WriterStep, FileInit, FileStep,
       ForgottenStep, PTL
    DEF Spec

-----------------------------------------------------------------------------
(* The refinement of DurableMap.                                           *)

\* A power loss goes back to an earlier version, never to a later one: the
\* directory on the disk lags behind the one in memory.
DiskLags == ~ overlap /\ stable # NoFile => content[stable] <= OnDisk

\* A step that leaves the map and nodes.json alone is a stutter of DurableMap.
LEMMA FileUntouched ==
    ASSUME DiskLags, UNCHANGED <<mem, changes, up, path, stable>>,
           ~ overlap, ~ overlap', overlap' = overlap,
           path # NoFile => content'[path] = content[path],
           stable # NoFile => content'[stable] = content[stable]
    PROVE  DiskLags' /\ UNCHANGED DM!vars
<1>1. OnDisk' = OnDisk
    BY DEF OnDisk
<1> QED
    BY <1>1 DEF DiskLags, DM!vars

\* Every step of the store is a step of DurableMap, or leaves it as it is.
LEMMA DurableStep ==
    ASSUME TypeOK, FdOpen, WriterInv, FileInv, DiskLags, [Next]_vars
    PROVE  DiskLags' /\ [DM!Next]_(DM!vars)
<1>1. CASE overlap'
    BY <1>1 DEF DiskLags, DM!Next
<1> SUFFICES ASSUME ~ overlap' PROVE DiskLags' /\ [DM!Next]_(DM!vars)
    BY <1>1
<1> USE ThreadFacts DEF InSave, NoFile, Empty, Torn
<1>a. /\ pc \in [Threads -> InSave \cup {"idle", "off", "soon", "clear", "check",
                                         "wait", "sleep", "exit"}]
      /\ mem \in Nat /\ changes \in Nat /\ snap \in [Savers -> Nat]
      /\ fd \in [Savers -> Inodes \cup {NoFile}]
      /\ tmp \in Inodes \cup {NoFile}
      /\ path \in Inodes \cup {NoFile} /\ stable \in Inodes \cup {NoFile}
      /\ content \in [Inodes -> Nat \cup {Empty, Torn}]
      /\ synced \subseteq Inodes /\ overlap \in BOOLEAN
    BY DEF TypeOK
<1>o. ~ overlap /\ overlap = FALSE
    BY <1>a, OverlapStays
<1>f. FileParts
    BY <1>o DEF FileInv
<1>d. /\ OnDisk \in Nat
      /\ path # NoFile => content[path] \in Nat /\ path \in synced
      /\ stable # NoFile => content[stable] \in Nat /\ stable \in synced
      /\ tmp # NoFile => tmp # path /\ tmp # stable
    BY <1>a, <1>f DEF FileParts, Files, Readable, OnDisk
<1>2. ASSUME NEW t \in Threads, Change(t), UNCHANGED <<fileVars, up, overlap>>
      PROVE  DiskLags' /\ DM!Change
    <2>1. OnDisk' = OnDisk
        BY <1>2 DEF OnDisk
    <2> QED
        BY <1>2, <2>1 DEF DiskLags, Change, DM!Change
<1>3. ASSUME NEW t \in Threads, HandlerChange(t) \/ ReporterChange(t)
      PROVE  DiskLags' /\ [DM!Next]_(DM!vars)
    BY <1>2, <1>3 DEF HandlerChange, ReporterChange, DM!Next
<1>4. ASSUME NEW r \in Reporters, SaveSoon(r) PROVE DiskLags' /\ UNCHANGED DM!vars
    BY <1>4, <1>o, FileUntouched DEF SaveSoon
<1>5. ASSUME NEW t \in Savers, SaveClear(t) PROVE DiskLags' /\ UNCHANGED DM!vars
    <2>1. overlap' = FALSE
        BY <1>5 DEF SaveClear
    <2> QED
        BY <1>5, <1>o, <2>1, FileUntouched DEF SaveClear
<1>6. ASSUME NEW t \in Savers, SaveSnapshot(t) \/ SyncTmp(t) \/ RenameMissing(t)
      PROVE  DiskLags' /\ UNCHANGED DM!vars
    BY <1>6, <1>o, FileUntouched DEF SaveSnapshot, SyncTmp, RenameMissing
<1>7. ASSUME NEW t \in Savers, OpenTmp(t) \/ WriteTmp(t) \/ SaveFault(t)
      PROVE  DiskLags' /\ UNCHANGED DM!vars
    <2>1. UNCHANGED <<mem, changes, up, path, stable, overlap>>
        BY <1>7 DEF OpenTmp, WriteTmp, SaveFault
    <2>2. pc[t] = "write" => fd[t] = tmp /\ tmp # NoFile
        BY <1>f DEF FileParts, OneSave
    <2>3. /\ path # NoFile => content'[path] = content[path]
          /\ stable # NoFile => content'[stable] = content[stable]
        BY <1>7, <2>2, <1>a, <1>d DEF OpenTmp, WriteTmp, SaveFault, Fresh
    <2> QED
        BY <1>o, <2>1, <2>3, FileUntouched
<1>8. ASSUME NEW t \in Savers, Rename(t) PROVE DiskLags' /\ [DM!Next]_(DM!vars)
    <2>1. /\ path' = tmp /\ tmp \in Inodes /\ tmp # NoFile /\ up = "up"
          /\ pc[t] = "rename"
          /\ UNCHANGED <<mem, changes, up, stable, content, overlap>>
        BY <1>8, <1>a DEF Rename
    <2>2. OnDisk' = snap[t] /\ OnDisk <= snap[t] /\ snap[t] <= mem /\ snap[t] \in Nat
        BY <2>1, <1>a, <1>f DEF FileParts, OneSave, Versions, OnDisk
    <2>3. DiskLags'
        BY <2>1, <2>2, <1>a, <1>d, <1>o DEF DiskLags
    <2>4. CASE OnDisk' = OnDisk
        BY <2>1, <2>3, <2>4 DEF DM!vars
    <2>5. CASE OnDisk' # OnDisk
        <3>1. DM!Persist
            BY <2>1, <2>2, <2>5, <1>a, <1>d DEF DM!Persist
        <3> QED
            BY <3>1, <2>3 DEF DM!Next
    <2> QED
        BY <2>4, <2>5
<1>9. ASSUME WriterLoop \/ Tick \/ Flush \/ UNCHANGED vars
      PROVE  DiskLags' /\ UNCHANGED DM!vars
    <2>1. UNCHANGED <<mem, changes, up, path, stable, overlap, content>>
        BY <1>9 DEF WriterLoop, WriterWait, WriterWake, WriterIdle, WriterDue,
                    WriterSave, Tick, Flush, vars
    <2> QED
        BY <1>o, <2>1, FileUntouched
<1>10. ASSUME Exit \/ Crash PROVE DiskLags' /\ [DM!Next]_(DM!vars)
    <2>1. /\ UNCHANGED <<mem, changes, path, stable, content, overlap>>
          /\ up = "up" /\ up' # "up"
        BY <1>10 DEF Exit, Crash
    <2>2. OnDisk' = OnDisk
        BY <2>1 DEF OnDisk
    <2>3. DM!Stop
        BY <2>1, <2>2 DEF DM!Stop
    <2> QED
        BY <2>1, <2>2, <2>3 DEF DiskLags, DM!Next
<1>11. ASSUME PowerLoss PROVE DiskLags' /\ [DM!Next]_(DM!vars)
    <2>1. /\ path' = stable /\ up = "up" /\ up' # "up"
          /\ UNCHANGED <<mem, changes, stable, overlap>>
          /\ content' = [i \in Inodes |-> IF i \in synced THEN content[i] ELSE Torn]
        BY <1>11 DEF PowerLoss
    <2>2. stable # NoFile => content'[stable] = content[stable]
        BY <2>1, <1>a, <1>d
    <2>3. OnDisk' \in Nat /\ OnDisk' <= OnDisk
        BY <2>1, <2>2, <1>d, <1>o DEF DiskLags, OnDisk
    <2>4. DiskLags'
        BY <2>1, <2>3 DEF DiskLags, OnDisk
    <2>5. DM!PowerCut
        BY <2>1, <2>3 DEF DM!PowerCut
    <2> QED
        BY <2>4, <2>5 DEF DM!Next
<1>12. ASSUME CommitDirectory PROVE DiskLags' /\ UNCHANGED DM!vars
    <2>1. UNCHANGED <<mem, changes, up, path, overlap, content>> /\ stable' = path
        BY <1>12 DEF CommitDirectory
    <2>2. OnDisk' = OnDisk
        BY <2>1 DEF OnDisk
    <2> QED
        BY <2>1, <2>2, <1>d DEF DiskLags, OnDisk, DM!vars
<1>13. ASSUME Load PROVE DiskLags' /\ [DM!Next]_(DM!vars)
    <2>1. /\ UNCHANGED <<changes, path, stable, content, overlap>>
          /\ up # "up" /\ up' = "up" /\ mem' = OnDisk
        BY <1>13, <1>f DEF Load, FileParts, Files
    <2>2. OnDisk' = OnDisk
        BY <2>1 DEF OnDisk
    <2>3. DM!Restart
        BY <2>1, <2>2 DEF DM!Restart
    <2> QED
        BY <2>1, <2>2, <2>3 DEF DiskLags, DM!Next
<1> QED
    BY <1>3, <1>4, <1>5, <1>6, <1>7, <1>8, <1>9, <1>10, <1>11, <1>12, <1>13
    DEF Next, Save

\* As long as no two saves overlap, memory and file implement DurableMap: the
\* file steps from one complete version to a later one, a restart continues
\* from it, and only a power loss goes back, to an earlier complete version.
THEOREM StoreIsDurable == Spec => ImplementsDurableMap
<1>1. Init => DM!Init /\ DiskLags
    BY DEF Init, DM!Init, OnDisk, DiskLags
<1> QED
    BY <1>1, TypeInit, TypeStep, WriterInit, WriterStep, FileInit, FileStep,
       DurableStep, PTL
    DEF Spec, ImplementsDurableMap, DM!Spec
=============================================================================
