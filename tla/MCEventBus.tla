----------------------------- MODULE MCEventBus -----------------------------
(* Small instances of EventBus for TLC.                                    *)
EXTENDS EventBus

CONSTANTS c1, w, p1, p2

NoConns == {}
OneConn == {c1}
OnePublisher == {p1}
TwoPublishers == {p1, p2}
NodeChanges == {"node"}
OtherChanges == {"attribute", "info", "diagnostics"}
Listen == {"start_listening"}
Requests == {"start_listening", "refresh", "get_thread_diagnostics"}
=============================================================================
