----------------------------- MODULE MCNvclRun -----------------------------
(* A small instance of NvclRun. *)
EXTENDS NvclRun
=============================================================================
