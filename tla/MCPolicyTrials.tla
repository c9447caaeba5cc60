--------------------------- MODULE MCPolicyTrials ---------------------------
(* Small instances of PolicyTrials: pictures of four blocks of four levels. *)
EXTENDS PolicyTrials, TLC

\* A step of three levels is noticed, one of two is a changed block that the governor takes
\* for noise, one of one level changes no block.  The transient of the first trace is one
\* block, of the second two of which one is faint, of the third a faint one alone.
MCTraces ==
  {<<<<0,0,0,0>>, <<3,0,0,0>>, <<3,3,0,0>>, <<3,3,0,3>>, <<3,0,0,3>>, <<3,0,3,3>>, <<0,0,3,3>>,
     <<1,0,3,3>>, <<1,3,3,3>>, <<1,0,3,3>>, <<1,0,3,0>>, <<0,3,3,0>>, <<0,3,3,0>>, <<0,3,3,0>>>>,
   <<<<0,0,0,0>>, <<0,3,0,0>>, <<0,3,0,2>>, <<0,0,0,2>>, <<0,0,0,2>>, <<0,0,3,2>>, <<3,0,3,2>>,
     <<3,1,3,2>>, <<0,3,3,2>>, <<3,1,3,2>>, <<3,1,3,2>>, <<3,1,0,0>>, <<3,1,0,0>>, <<3,1,0,0>>>>,
   <<<<0,0,0,0>>, <<0,0,0,3>>, <<0,2,0,3>>, <<0,2,3,3>>, <<2,2,3,3>>, <<2,2,3,0>>, <<2,2,0,0>>,
     <<2,2,0,0>>, <<0,2,0,0>>, <<2,2,0,0>>, <<2,2,0,3>>, <<3,2,2,3>>, <<3,2,2,3>>, <<3,2,2,3>>>>}

MCProviderTrace == <<<<0,0,0,0>>, <<0,0,0,0>>, <<0,3,0,0>>, <<0,0,0,0>>, <<0,0,0,0>>>>

MCBudgets == {[calls |-> 8, tokens |-> 20], [calls |-> 7, tokens |-> 20], [calls |-> 8, tokens |-> 6]}

\* Turns that begin before the reply or after it, that fail, and that list their messages.
MCTurns ==
  {<<"reply", "other", "draft", "answer", "usage", "completed">>,
   <<"draft", "usage", "reply", "answer", "completed">>,
   <<"answer", "completed", "reply">>,
   <<"reply", "draft", "failed">>, <<"reply", "error">>,
   <<"reply", "draft", "answer", "summarised", "usage">>}

MCScenes == UNION {{t[i] : i \in DOMAIN t} : t \in MCTraces \cup {MCProviderTrace}}
=============================================================================
