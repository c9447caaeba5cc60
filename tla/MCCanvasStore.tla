--------------------------- MODULE MCCanvasStore ---------------------------
(* Small instances of CanvasStore. *)
EXTENDS CanvasStore, TLC

Symmetric == Permutations(Objects) \cup Permutations(Agents)
=============================================================================
