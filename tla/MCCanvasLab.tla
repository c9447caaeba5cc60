---------------------------- MODULE MCCanvasLab ----------------------------
(* A small instance of CanvasLab. *)
EXTENDS CanvasLab, TLC

Gesture(kind, from, to) == [kind |-> kind, object |-> None, from |-> from, to |-> to]

MCBodies == {Gesture("move", 0, 1), Gesture("delete", 1, 1), Gesture("text", 0, 0),
             Gesture("view", 1, 0)}


ActionSymmetry == Permutations(ActionIds)
=============================================================================
