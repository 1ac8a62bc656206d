----------------------------- MODULE MCRoutines -----------------------------
(* The routine's model for TLC.  Two callers are interchangeable. *)
EXTENDS Routines, TLC

EitherCaller == Permutations(Callers)
=============================================================================
