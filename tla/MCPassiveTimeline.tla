------------------------- MODULE MCPassiveTimeline -------------------------
(* A small instance of PassiveTimeline. *)
EXTENDS PassiveTimeline, TLC

MCScenes == {<<0, 0, 0, 0>>, <<3, 0, 0, 0>>, <<0, 3, 0, 0>>, <<0, 0, 0, 3>>,
             <<3, 0, 0, 3>>, <<2, 0, 0, 0>>, <<3, 3, 3, 0>>, <<0, 0, 0>>}
=============================================================================
