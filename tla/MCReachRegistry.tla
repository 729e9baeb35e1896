--------------------------- MODULE MCReachRegistry ---------------------------
(* Three files for two slots, so that lookups evict. *)
EXTENDS ReachRegistry

Alike == Permutations(Member) \cup Permutations(Worker)
=============================================================================
