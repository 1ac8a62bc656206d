--------------------------- MODULE MCJoinRequests ---------------------------
(* Instances of JoinRequests for TLC.  Invites, handlers, agents and keys are *)
(* alike.                                                                    *)
EXTENDS JoinRequests, TLC

Alike == Permutations(Invites) \cup Permutations(Handlers)
         \cup Permutations(Agents) \cup Permutations(KeyIds)
=============================================================================
