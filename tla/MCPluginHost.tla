---------------------------- MODULE MCPluginHost ----------------------------
(* Two lifecycle requests at a time, in either place. *)
EXTENDS PluginHost, TLC

EitherSlot == Permutations(Slots)
=============================================================================
