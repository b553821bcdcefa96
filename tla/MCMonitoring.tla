---------------------------- MODULE MCMonitoring ----------------------------
(* Instances of Monitoring for TLC. *)
EXTENDS Monitoring

SomeRules == <<"high-error-rate", "database-disconnected">>
=============================================================================
