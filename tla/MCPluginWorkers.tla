--------------------------- MODULE MCPluginWorkers ---------------------------
(* Instances of PluginWorkers for TLC.  The requests that only start the    *)
(* worker are interchangeable.                                              *)
EXTENDS PluginWorkers, TLC

Symmetry == Permutations(Starters)
=============================================================================
