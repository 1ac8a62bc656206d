---------------------------- MODULE MCGovernance ----------------------------
(* The model of an agent's governance for TLC.  Requests are interchangeable. *)
EXTENDS Governance, TLC

EitherThread == Permutations(Threads)
=============================================================================
