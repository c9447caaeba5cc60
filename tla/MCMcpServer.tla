---------------------------- MODULE MCMcpServer ----------------------------
(* A small instance of McpServer: a root canvas, a child and a grandchild. *)
EXTENDS McpServer, TLC

CONSTANTS root, child, grandchild

MCCanvases == {root, child, grandchild}
MCParent == (child :> root) @@ (grandchild :> child)
=============================================================================
