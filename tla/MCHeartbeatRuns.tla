-------------------------- MODULE MCHeartbeatRuns --------------------------
(* An instance of HeartbeatRuns for TLC.                                     *)
EXTENDS HeartbeatRuns, TLC
=============================================================================
