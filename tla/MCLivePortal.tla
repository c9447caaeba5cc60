---------------------------- MODULE MCLivePortal ----------------------------
(* Small instances of LivePortal. Nothing distinguishes portals, resources,  *)
(* principals or callers from others of their kind.                          *)
EXTENDS LivePortal

Symmetry == Permutations(Portals) \cup Permutations(Resources) \cup Permutations(Principals)
=============================================================================
