----------------------------- MODULE MCAgentRun -----------------------------
(* A small instance of AgentRun. *)
EXTENDS AgentRun, TLC

MCScenes == {<<0, 0, 0, 0>>, <<1, 0, 0, 0>>, <<2, 0, 0, 0>>, <<0, 0, 0, 2>>}
MCBenchmark == <<0, 0, 0, 0>>
MCSolved == {<<0, 0, 0, 2>>}

Episode(mode, iterations, budget, reset) ==
  [mode |-> mode, iterations |-> iterations, budget |-> budget, reset |-> reset]

MCRequests == {Episode("governed", 4, 3, TRUE), Episode("governed", 3, Unlimited, FALSE),
               Episode("full", 3, 2, FALSE), Episode("crop", 2, Unlimited, TRUE)}
=============================================================================
