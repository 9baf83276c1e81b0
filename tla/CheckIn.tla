------------------------------ MODULE CheckIn ------------------------------
(***************************************************************************)
(* Intermittently connected devices: the registration of this controller   *)
(* on a device and the key both keep for it (server/src/api/icd.rs,        *)
(* server/src/storage/config.rs), and the check-ins that arrive under that *)
(* key (server/src/matter/checkin.rs).                                     *)
(*                                                                         *)
(* Requests run on the threads of their connections and check-ins on the   *)
(* Matter thread.  A check-in is sent once, unreliably: it may be lost,    *)
(* delayed past later ones, or arrive again.                               *)
(***************************************************************************)
EXTENDS Integers

CONSTANTS
    IcdConns,
    IcdNodes,
    Vendors,        \* the vendors of the administrators of each device
    OurVendor,
    CounterRange,   \* a counter has this many values, 2^32 in the code
    MaxKeys,        \* bound: keys that are generated
    MaxCheckIns,    \* bound: check-ins that are sent
    MaxIcdFaults    \* bound: calls and saves that fail, kills

ASSUME IcdAssumption ==
    /\ CounterRange \in Nat \ {0}
    /\ {MaxKeys, MaxCheckIns, MaxIcdFaults} \subseteq Nat

VARIABLES
    reg,        \* ConfigData.icd_registrations in memory
    regDisk,    \* and in config.json
    icd,        \* each device: its key for this controller, its counter
    air,        \* the check-ins that may still arrive, or arrive again
    receipt,    \* the check-in the Matter thread has identified
    icdReq,     \* the request each connection is handling
    icdUsed,    \* how much of each bound is used
    \* History, for the properties.
    accepted,   \* the check-ins that were accepted
    replayed,   \* one was accepted twice
    forgot,     \* the counter of an accepted check-in was lost with a kill
    strayed     \* nodes whose key may differ from ours, for a reason below

icdHistory == <<accepted, replayed, forgot, strayed>>
icdVars == <<reg, regDisk, icd, air, receipt, icdReq, icdUsed, icdHistory>>

NoKey == 0
NoCounter == -1
Unregistered == [key |-> NoKey, counter |-> NoCounter]
NoReceipt == [node |-> "none", key |-> NoKey, counter |-> NoCounter]
IcdIdle == [at |-> "idle", node |-> "none", key |-> NoKey]
Busy(n) == {c \in IcdConns : icdReq[c].at # "idle" /\ icdReq[c].node = n}

IcdInit ==
    /\ reg = [n \in IcdNodes |-> Unregistered] /\ regDisk = reg
    /\ icd = [n \in IcdNodes |-> [key |-> NoKey, counter |-> 0, wrapped |-> FALSE]]
    /\ air = {}
    /\ receipt = NoReceipt
    /\ icdReq = [c \in IcdConns |-> IcdIdle]
    /\ icdUsed = [keys |-> 0, checkins |-> 0, faults |-> 0]
    /\ accepted = {} /\ replayed = FALSE /\ forgot = FALSE /\ strayed = {}

IcdFault ==
    /\ icdUsed.faults < MaxIcdFaults
    /\ icdUsed' = [icdUsed EXCEPT !.faults = @ + 1]

IcdGoes(c, at) == icdReq' = [icdReq EXCEPT ![c].at = at]
IcdEnds(c) == icdReq' = [icdReq EXCEPT ![c] = IcdIdle]

\* A second request for a node while one is under way.
Overlaps(n) == strayed' = IF Busy(n) # {} THEN strayed \cup {n} ELSE strayed

-----------------------------------------------------------------------------
(* register_icd.                                                           *)

\* other_vendor_admins.
OtherAdmins(n, ignored) == Vendors[n] \ ({OurVendor} \cup ignored)

\* A registration that may disturb another administrator is refused unless
\* the caller allows it.  Otherwise a fresh key is sent to the device.
Register(c, n, allow, ignored) ==
    /\ icdReq[c].at = "idle" /\ icdUsed.keys < MaxKeys
    /\ allow \/ OtherAdmins(n, ignored) = {}
    /\ icdUsed' = [icdUsed EXCEPT !.keys = @ + 1]
    /\ icdReq' = [icdReq EXCEPT ![c] = [at |-> "register", node |-> n, key |-> icdUsed.keys + 1]]
    /\ Overlaps(n)
    /\ UNCHANGED <<reg, regDisk, icd, air, receipt, accepted, replayed, forgot>>

HoldsKey(n, key) == icd' = [icd EXCEPT ![n].key = key]

\* Mutant: the key is stored before the device has accepted it.
RegisterRefusedStored(c) ==
    /\ icdReq[c].at = "register" /\ IcdFault /\ IcdEnds(c)
    /\ reg' = [reg EXCEPT ![icdReq[c].node] = [key |-> icdReq[c].key, counter |-> NoCounter]]
    /\ UNCHANGED <<regDisk, icd, air, receipt, icdHistory>>

\* The device refuses, or is not reached,
RegisterRefused(c) ==
    /\ icdReq[c].at = "register" /\ IcdFault /\ IcdEnds(c)
    /\ UNCHANGED <<reg, regDisk, icd, air, receipt, icdHistory>>

\* or accepts,
RegisterAccepted(c) ==
    /\ icdReq[c].at = "register" /\ IcdGoes(c, "store")
    /\ HoldsKey(icdReq[c].node, icdReq[c].key)
    /\ UNCHANGED <<reg, regDisk, air, receipt, icdUsed, icdHistory>>

\* or accepts and the answer does not arrive in time.
RegisterUnanswered(c) ==
    /\ icdReq[c].at = "register" /\ IcdFault /\ IcdEnds(c)
    /\ HoldsKey(icdReq[c].node, icdReq[c].key)
    /\ strayed' = strayed \cup {icdReq[c].node}
    /\ UNCHANGED <<reg, regDisk, air, receipt, accepted, replayed, forgot>>

\* set_icd_registration: in place of any earlier one, its counter unknown.
StoreKey(c) ==
    /\ icdReq[c].at = "store" /\ IcdEnds(c)
    /\ reg' = [reg EXCEPT ![icdReq[c].node] = [key |-> icdReq[c].key, counter |-> NoCounter]]
    /\ regDisk' = reg'
    /\ strayed' = IF Busy(icdReq[c].node) = {c} /\ icd[icdReq[c].node].key = icdReq[c].key
                  THEN strayed \ {icdReq[c].node} ELSE strayed
    /\ UNCHANGED <<icd, air, receipt, icdUsed, accepted, replayed, forgot>>

\* Its save fails: only memory has the key.
StoreKeyUnsaved(c) ==
    /\ icdReq[c].at = "store" /\ IcdFault /\ IcdEnds(c)
    /\ reg' = [reg EXCEPT ![icdReq[c].node] = [key |-> icdReq[c].key, counter |-> NoCounter]]
    /\ UNCHANGED <<regDisk, icd, air, receipt, icdHistory>>

-----------------------------------------------------------------------------
(* unregister_icd and resync_icd.                                          *)

\* remove_icd_registration.  A save that fails is logged, and then only memory
\* is without the key.
ForgetKey(n) ==
    /\ reg' = [reg EXCEPT ![n] = Unregistered]
    /\ \/ regDisk' = reg' /\ UNCHANGED icdUsed
       \/ UNCHANGED regDisk /\ IcdFault

\* The key goes first, if there is one; a forced request ends there, and the
\* device may go on checking in under a key nobody has.
Unregister(c, n, force) ==
    /\ icdReq[c].at = "idle"
    /\ ForgetKey(n)
    /\ IF force THEN UNCHANGED icdReq
       ELSE icdReq' = [icdReq EXCEPT ![c] = [at |-> "drop", node |-> n, key |-> NoKey]]
    /\ IF force THEN strayed' = strayed \cup {n} ELSE Overlaps(n)
    /\ UNCHANGED <<icd, air, receipt, accepted, replayed, forgot>>

\* resync_icd keeps the key on this side.
Resync(c, n) ==
    /\ icdReq[c].at = "idle"
    /\ icdReq' = [icdReq EXCEPT ![c] = [at |-> "drop", node |-> n, key |-> NoKey]]
    /\ Overlaps(n)
    /\ UNCHANGED <<reg, regDisk, icd, air, receipt, icdUsed, accepted, replayed, forgot>>

\* UnregisterClient reaches the device,
DropAnswered(c) ==
    /\ icdReq[c].at = "drop" /\ IcdEnds(c)
    /\ HoldsKey(icdReq[c].node, NoKey)
    /\ UNCHANGED <<reg, regDisk, air, receipt, icdUsed, icdHistory>>

\* or not.
DropFailed(c) ==
    /\ icdReq[c].at = "drop" /\ IcdFault /\ IcdEnds(c)
    /\ strayed' = strayed \cup {icdReq[c].node}
    /\ UNCHANGED <<reg, regDisk, icd, air, receipt, accepted, replayed, forgot>>

-----------------------------------------------------------------------------
(* Check-ins.                                                              *)

\* The device wakes and sends its next counter under the key it holds.
SendCheckIn(n) ==
    /\ icd[n].key # NoKey /\ icdUsed.checkins < MaxCheckIns
    /\ icdUsed' = [icdUsed EXCEPT !.checkins = @ + 1]
    /\ LET next == (icd[n].counter + 1) % CounterRange
       IN  /\ icd' = [icd EXCEPT ![n] = [key |-> @.key, counter |-> next,
                                         wrapped |-> @.wrapped \/ next = 0]]
           /\ air' = air \cup {[key |-> icd[n].key, counter |-> next]}
    /\ UNCHANGED <<reg, regDisk, receipt, icdReq, icdHistory>>

\* Mutant: a check-in with the counter of the last one is accepted.
AdvancesOrRepeats(m, n) == reg[n].counter <= m.counter

Advances(m, n) == reg[n].counter = NoCounter \/ reg[n].counter < m.counter

\* CheckInReceiver::identify: the key that reads a check-in is its sender's.
\* One that no key reads, or that does not advance, is dropped.
Identify(m) ==
    /\ receipt = NoReceipt
    /\ \E n \in IcdNodes :
          /\ reg[n].key = m.key /\ Advances(m, n)
          /\ receipt' = [node |-> n, key |-> m.key, counter |-> m.counter]
    /\ UNCHANGED <<reg, regDisk, icd, air, icdReq, icdUsed, icdHistory>>

\* Mutant: the counter is noted for every registration.
NotedForAll(n, counter) ==
    [i \in IcdNodes |-> IF reg[i].key = NoKey THEN reg[i] ELSE [reg[i] EXCEPT !.counter = counter]]

\* note_icd_counter: the registration of the node, if it still has one, though
\* it may be under another key by now.
Noted(n, counter) ==
    IF reg[n].key = NoKey THEN reg ELSE [reg EXCEPT ![n].counter = counter]

Accepted ==
    /\ accepted' = accepted \cup {[key |-> receipt.key, counter |-> receipt.counter]}
    /\ replayed' = (replayed \/ [key |-> receipt.key, counter |-> receipt.counter] \in accepted)

\* note_icd_counter and note_check_in.
NoteCounter ==
    /\ receipt # NoReceipt /\ receipt' = NoReceipt
    /\ reg' = Noted(receipt.node, receipt.counter)
    /\ regDisk' = reg'
    /\ Accepted
    /\ UNCHANGED <<icd, air, icdReq, icdUsed, forgot, strayed>>

NoteCounterUnsaved ==
    /\ receipt # NoReceipt /\ receipt' = NoReceipt /\ IcdFault
    /\ reg' = Noted(receipt.node, receipt.counter)
    /\ Accepted
    /\ UNCHANGED <<regDisk, icd, air, icdReq, forgot, strayed>>

\* The file does not have the counter of a check-in that was accepted under
\* the key it has.
Outdated ==
    \E n \in IcdNodes, m \in accepted : m.key = regDisk[n].key /\ m.counter > regDisk[n].counter

IcdKill ==
    /\ IcdFault
    /\ reg' = regDisk
    /\ receipt' = NoReceipt
    /\ icdReq' = [c \in IcdConns |-> IcdIdle]
    /\ forgot' = (forgot \/ Outdated)
    /\ strayed' = {n \in IcdNodes : n \in strayed \/ Busy(n) # {} \/ reg[n].key # regDisk[n].key}
    /\ UNCHANGED <<regDisk, icd, air, accepted, replayed>>

IcdNext ==
    \/ \E c \in IcdConns :
          \/ \E n \in IcdNodes :
                \/ \E allow \in BOOLEAN, ignored \in SUBSET Vendors[n] : Register(c, n, allow, ignored)
                \/ \E force \in BOOLEAN : Unregister(c, n, force)
                \/ Resync(c, n)
          \/ RegisterRefused(c) \/ RegisterAccepted(c) \/ RegisterUnanswered(c)
          \/ StoreKey(c) \/ StoreKeyUnsaved(c)
          \/ DropAnswered(c) \/ DropFailed(c)
    \/ \E n \in IcdNodes : SendCheckIn(n)
    \/ \E m \in air : Identify(m)
    \/ NoteCounter \/ NoteCounterUnsaved
    \/ IcdKill

IcdSpec == IcdInit /\ [][IcdNext]_icdVars

-----------------------------------------------------------------------------
(* Properties.                                                             *)

\* A check-in counts once, however often it arrives and whatever is registered
\* or dropped meanwhile, unless a kill lost a counter that could not be saved.
NoReplay == replayed => forgot

\* When no request about a device is under way, the key it holds is the one
\* that is stored, so that its check-ins can be read: unless a request was
\* left unanswered, overlapped another one, was forced, or a kill came between
\* the device and the file.
KeysAgree ==
    \A n \in IcdNodes \ strayed :
        Busy(n) = {} /\ icd[n].key # NoKey => reg[n].key = icd[n].key

\* The stored counter never runs ahead of the device it belongs to, though a
\* check-in under an old key may be noted for a new registration: so the next
\* check-in of a device is never taken for a replay, until its counter wraps.
NextIsFresh ==
    \A n \in IcdNodes :
        ~ icd[n].wrapped => reg[n].counter <= icd[n].counter

\* A device that checks in is heard, and heard once (matter/checkin.rs:77).
CheckInsAreHeardOnce == NoReplay /\ KeysAgree /\ NextIsFresh
=============================================================================
