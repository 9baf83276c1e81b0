---------------------------- MODULE MCNodeStore ----------------------------
(* Small instances of NodeStore for TLC.                                   *)
EXTENDS NodeStore

CONSTANTS h1, h2, r1, w, s

NoThreads == {}
OneHandler == {h1}
TwoHandlers == {h1, h2}
OneReporter == {r1}
=============================================================================
