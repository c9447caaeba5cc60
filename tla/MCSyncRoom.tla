----------------------------- MODULE MCSyncRoom -----------------------------
(* Small instances of SyncRoom. *)
EXTENDS SyncRoom, TLC

Symmetric == Permutations(Ids \ Replacements) \cup Permutations(Clients)
=============================================================================
