----------------------------- MODULE MCThreads -----------------------------
(* The two threads that others wait for, the writer thread and the Matter  *)
(* thread, for TLC.  They share no state: a behaviour moves one of them.   *)
EXTENDS NodeStore, Actor

CONSTANTS h1, r1, w, s

OneHandler == {h1}
OneReporter == {r1}

VARIABLE part

Of(p, A) == part = p /\ A

ThreadsInit == part \in {"store", "actor"} /\ Init /\ ActorInit

ThreadsNext ==
    \/ Of("store", Next) /\ UNCHANGED <<actorVars, part>>
    \/ Of("actor", ActorNext) /\ UNCHANGED <<vars, part>>

ThreadsFairness ==
    /\ \A r \in Reporters : WF_vars(Of("store", SaveSoon(r)))
    /\ \A t \in Savers : WF_vars(Of("store", Save(t)))
    /\ WF_vars(Of("store", WriterLoop))
    /\ WF_vars(Of("store", Tick))
    /\ WF_actorVars(Of("actor", ActorRuns))
    /\ \A c \in Callers : WF_actorVars(Of("actor", CallProceeds(c)))

ThreadsSpec == ThreadsInit /\ [][ThreadsNext]_<<vars, actorVars, part>> /\ ThreadsFairness
=============================================================================
