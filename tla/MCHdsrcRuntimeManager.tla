----------------------- MODULE MCHdsrcRuntimeManager -----------------------
(* Small instances of HdsrcRuntimeManager: the configurations name the calls. *)
EXTENDS HdsrcRuntimeManager
=============================================================================
