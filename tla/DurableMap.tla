----------------------------- MODULE DurableMap -----------------------------
(***************************************************************************)
(* What a file-backed map promises its users (the comments of              *)
(* server/src/storage/nodes.rs): the map changes in memory, a complete     *)
(* version of it replaces the saved one, a process that ends and starts    *)
(* again continues from the saved version, and a power loss may go back to *)
(* an earlier saved version, never to anything else.  The promise is void  *)
(* once two saves contend for the file.                                    *)
(***************************************************************************)
EXTENDS Integers

VARIABLES
    current,  \* the version in memory
    saved,    \* the version a restart finds
    newest,   \* the newest version ever made
    alive,    \* the process is running
    contended \* two saves have been under way at once

vars == <<current, saved, newest, alive, contended>>

Init ==
    /\ current = 0 /\ saved = 0 /\ newest = 0
    /\ alive = TRUE /\ contended = FALSE

Change ==
    /\ alive
    /\ newest' = newest + 1 /\ current' = newest'
    /\ UNCHANGED <<saved, alive>>

Persist ==
    /\ alive
    /\ saved' > saved /\ saved' <= current
    /\ UNCHANGED <<current, newest, alive>>

Stop ==
    /\ alive /\ alive' = FALSE
    /\ UNCHANGED <<current, saved, newest>>

PowerCut ==
    /\ alive /\ alive' = FALSE
    /\ saved' >= 0 /\ saved' <= saved
    /\ UNCHANGED <<current, newest>>

Restart ==
    /\ ~ alive /\ alive' = TRUE
    /\ current' = saved
    /\ UNCHANGED <<saved, newest>>

Next ==
    \/ contended'
    \/ /\ ~ contended'
       /\ Change \/ Persist \/ Stop \/ PowerCut \/ Restart

Spec == Init /\ [][Next]_vars
=============================================================================
