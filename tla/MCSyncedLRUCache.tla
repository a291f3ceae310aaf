--------------------------- MODULE MCSyncedLRUCache ---------------------------
(***************************************************************************)
(* SyncedLRUCache on a small instance.                                     *)
(***************************************************************************)
EXTENDS SyncedLRUCache

Symmetry == Permutations(Thread) \cup Permutations(Key)
=============================================================================
