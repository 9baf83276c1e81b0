---------------------------- MODULE MCMonitoring ----------------------------
(* A small instance of Monitoring for TLC.                                 *)
EXTENDS Monitoring

CONSTANT n1

OneNode == {n1}
=============================================================================
