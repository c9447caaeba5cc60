------------------------------ MODULE AgentRun ------------------------------
(***************************************************************************)
(* MultimodalAgentRuntime.run: a provider is shown frames of the canvas    *)
(* and answers with gestures until the task is solved, it stops, or a      *)
(* budget is spent.                                                        *)
(*                                                                         *)
(* From an answer to the next question nothing waits for I/O, so that is   *)
(* one step, the loop over skipped observations included: the canvas can   *)
(* only change under the runtime while the provider thinks.                *)
(***************************************************************************)
EXTENDS ObservationGovernor

CONSTANTS Scenes,       \* what the canvas may look like
          Benchmark,    \* the scene a benchmark reset leaves
          Solved,       \* the scenes the verifier passes
          Requests,     \* the episodes that are asked for
          StaticCrop,   \* request.crop
          Usages,       \* totalTokens of an answer; 0 when it reports none
          Unlimited,    \* no maxTotalTokens
          MaxForeign,   \* bound: canvas changes by others
          MaxRuns       \* bound: episodes

\* With a governor, with a crop of the request, or neither.
Modes == {"governed", "crop", "full"}

\* iterations is clamped to 1 .. 50 and a budget to at least 1.
Request == [mode : Modes, iterations : 1 .. 50, budget : (Nat \ {0}) \cup {Unlimited},
            reset : BOOLEAN]

ASSUME AgentConstants ==
  /\ Scenes # {} /\ Benchmark \in Scenes /\ Solved \subseteq Scenes
  /\ \A w \in Scenes : w \in Seq(Nat) /\ Len(w) = Len(Benchmark)
  /\ StaticCrop \subseteq 1 .. Len(Benchmark)
  /\ Usages \subseteq Nat /\ Usages # {}
  /\ Unlimited \notin Nat
  /\ Requests # {} /\ Requests \subseteq Request

VARIABLES canvas,     \* its scene, and a version for revision, state hash and viewport
          frame,      \* the canvas in the current observation
          leased,     \* the laboratory has the frame and its lease runs
          phase,      \* "idle", or "asking" the provider
          request, iteration, tokens,
          shown,      \* what of the frame the provider is asked about
          outcome,    \* how the last episode ended
          gov,        \* the governor: #previous, #sequence, #lastKeyframeSequence, #forced
          known,      \* history: what the provider was shown, pasted together, and the
                      \* blocks whose changes the thresholds left out since
          rejected,   \* history: the last answer came too late
          foreign, runs

vars == <<canvas, frame, leased, phase, request, iteration, tokens, shown, outcome, gov,
          known, rejected, foreign, runs>>

NewGovernor == [previous |-> <<>>, sequence |-> 0, last |-> 0, forced |-> FALSE]
Nothing == [seen |-> <<>>, drift |-> {}]

----------------------------------------------------------------------------
(* The next question.                                                      *)

\* What is delivered of a scene: the whole or the static crop without a governor.
Decided(g, scene, mode) ==
  CASE mode = "governed" -> Decide(g.previous, scene, g.sequence + 1, g.last, g.forced)
    [] mode = "crop"     -> Decision("roi", StaticCrop)
    [] mode = "full"     -> Decision("full_frame", DOMAIN scene)

\* A skipped observation is repeated at once on the same canvas, so it is skipped again
\* until a keyframe is due, and each time an iteration is gone.
Repeats(g, d) == IF d.disposition = "skip" THEN g.last + KeyframeInterval - g.sequence - 1
                 ELSE 0
Delivered(d, scene) ==
  IF d.disposition = "skip" THEN Decision("keyframe", DOMAIN scene) ELSE d

\* The governor after n observations of a scene, the last of them delivered as d.
Observed(g, scene, n, d, mode) ==
  IF mode # "governed" \/ n = 0 THEN g
  ELSE [previous |-> scene, sequence |-> g.sequence + n, forced |-> FALSE,
        last |-> IF d.disposition = "keyframe" THEN g.sequence + n ELSE g.last]

\* The changes between two pictures that a delivery leaves out.
LeftOut(p, q, region) ==
  IF Len(p) # Len(q) THEN {} ELSE {x \in DOMAIN q : p[x] # q[x] /\ x \notin region}

\* The provider pastes what it is shown over what it knew.
Pasted(k, g, scene, region) ==
  [seen  |-> [x \in region \cup DOMAIN k.seen |->
                IF x \in region THEN scene[x] ELSE k.seen[x]],
   drift |-> IF region = DOMAIN scene THEN {}
             ELSE k.drift \cup LeftOut(g.previous, scene, region)]

\* Mutant of Spent: the call that reaches the budget is not the last.
SpentBeyond(used, budget) == budget # Unlimited /\ used > budget

Spent(used, budget) == budget # Unlimited /\ used >= budget

Ends(how) ==
  /\ phase' = "idle" /\ outcome' = how
  /\ UNCHANGED <<iteration, shown, known, rejected>>

\* The loop from iteration i on canvas c: governor g and a provider that knows k.
Proceeds(i, c, r, g, k, late, used) ==
  LET decided == Decided(g, c.scene, r.mode)
      repeats == Repeats(g, decided)
      d       == Delivered(decided, c.scene)
      out     == i + repeats > r.iterations
  IN /\ canvas' = c /\ frame' = c /\ leased' = TRUE /\ tokens' = used
     /\ gov' = IF out THEN Observed(g, c.scene, r.iterations + 1 - i, decided, r.mode)
               ELSE Observed(g, c.scene, repeats + 1, d, r.mode)
     /\ IF out THEN Ends("failed")
        ELSE IF Spent(used, r.budget) THEN Ends("stopped")
        ELSE /\ phase' = "asking" /\ outcome' = "none"
             /\ iteration' = i + repeats
             /\ shown' = d.region
             /\ known' = Pasted(k, g, c.scene, d.region)
             /\ rejected' = late

\* Mutant of Governing: the governor still compares with what another provider saw.
GoverningOn(r) == gov

Governing(r) == IF r.mode = "governed" THEN NewGovernor ELSE gov

\* A new episode observes and, unless told not to, resets the benchmark.
Start(r) ==
  /\ phase = "idle" /\ runs < MaxRuns
  /\ runs' = runs + 1
  /\ request' = r
  /\ LET c == IF r.reset THEN [scene |-> Benchmark, version |-> canvas.version + 1]
              ELSE canvas
     IN Proceeds(1, c, r, Governing(r), Nothing, FALSE, 0)
  /\ UNCHANGED foreign

----------------------------------------------------------------------------
(* The provider answers.                                                   *)

Fresh == leased /\ frame = canvas

Stops(success) ==
  /\ phase = "asking"
  /\ \E u \in Usages : tokens' = tokens + u
  /\ Ends(IF success THEN "completed" ELSE "stopped")
  /\ UNCHANGED <<canvas, frame, leased, request, gov, foreign, runs>>

\* A gesture on a fresh frame is carried out and verified; the new frame comes with it.
Gesture(scene) ==
  /\ phase = "asking" /\ Fresh
  /\ LET c == [scene |-> scene, version |-> canvas.version + 1]
     IN \E u \in Usages :
          IF scene \in Solved
          THEN /\ canvas' = c /\ tokens' = tokens + u
               /\ Ends("completed")
               /\ UNCHANGED <<frame, leased, gov>>
          ELSE Proceeds(iteration + 1, c, request, gov, known, FALSE, tokens + u)
  /\ UNCHANGED <<request, foreign, runs>>

\* Mutant of Recovering: no keyframe is forced.
RecoveringByDifference(g) == g

Recovering(g) == [g EXCEPT !.forced = TRUE]

\* Mutant of Rejected: a rejected gesture costs no iteration.
RejectedFreely ==
  /\ phase = "asking" /\ ~Fresh
  /\ \E u \in Usages :
       Proceeds(iteration, canvas, request, Recovering(gov), known, TRUE, tokens + u)
  /\ UNCHANGED <<request, foreign, runs>>

\* A gesture on a frame that was overtaken: nothing is carried out, and the next
\* question is about a new frame.
Rejected ==
  /\ phase = "asking" /\ ~Fresh
  /\ \E u \in Usages :
       Proceeds(iteration + 1, canvas, request, Recovering(gov), known, TRUE, tokens + u)
  /\ UNCHANGED <<request, foreign, runs>>

\* The provider fails, its answer does not validate, or the laboratory refuses the
\* gesture for another reason: run throws.  It also throws after a gesture that was
\* carried out, when the verifier does not find its objects any more.
Throws ==
  /\ phase = "asking"
  /\ \/ canvas' = canvas
     \/ Fresh /\ \E scene \in Scenes :
                  canvas' = [scene |-> scene, version |-> canvas.version + 1]
  /\ Ends("thrown")
  /\ UNCHANGED <<frame, leased, request, tokens, gov, foreign, runs>>

Answer ==
  \/ \E success \in BOOLEAN : Stops(success)
  \/ \E scene \in Scenes : Gesture(scene)
  \/ Rejected \/ Throws

----------------------------------------------------------------------------
(* Others change the canvas or the viewport, or observe; leases run out.    *)

ForeignEdit ==
  /\ foreign < MaxForeign
  /\ foreign' = foreign + 1
  /\ \E scene \in Scenes : canvas' = [scene |-> scene, version |-> canvas.version + 1]
  /\ UNCHANGED <<frame, leased, phase, request, iteration, tokens, shown, outcome, gov,
                 known, rejected, runs>>

FrameLost ==
  /\ leased /\ leased' = FALSE
  /\ UNCHANGED <<canvas, frame, phase, request, iteration, tokens, shown, outcome, gov,
                 known, rejected, foreign, runs>>

Init ==
  /\ \E scene \in Scenes : canvas = [scene |-> scene, version |-> 0]
  /\ frame = canvas /\ leased = FALSE
  /\ phase = "idle" /\ outcome = "none"
  /\ request = (CHOOSE r \in Requests : TRUE) /\ iteration = 0 /\ tokens = 0 /\ shown = {}
  /\ gov = NewGovernor /\ known = Nothing /\ rejected = FALSE
  /\ foreign = 0 /\ runs = 0

Next ==
  \/ \E r \in Requests : Start(r)
  \/ Answer \/ ForeignEdit \/ FrameLost

\* A provider answers or fails; nothing else has to happen.
Spec == Init /\ [][Next]_vars /\ WF_vars(Answer)

----------------------------------------------------------------------------
(* Properties.                                                             *)

\* A provider that remembers what it was shown knows the frame it is asked about, but
\* for changes below the thresholds since the last whole frame: crops, skips, rejected
\* answers and the episodes of other providers leave no hole in it (the governor
\* compares with its own last observation, not with what was delivered).
KnowsTheFrame ==
  phase = "asking" /\ request.mode # "crop" =>
    \A x \in DOMAIN frame.scene :
      x \in DOMAIN known.seen /\ (known.seen[x] = frame.scene[x] \/ x \in known.drift)

\* After an answer that came too late the next question shows the whole new frame
\* (docs/ADR-009_ADAPTIVE_OBSERVATION_GOVERNOR.md, "Freshness and recovery").
RecoversWithKeyframe ==
  phase = "asking" /\ rejected /\ request.mode # "crop" => shown = DOMAIN frame.scene

\* The budget is passed by one answer at most: it is checked before each question
\* against what the answers so far have reported.
BudgetOverrun ==
  request.budget # Unlimited => tokens < request.budget + Greatest(Usages)

\* An episode ends whatever others do to the canvas meanwhile: a rejected answer and a
\* skipped observation cost an iteration like any other.
EpisodesEnd == (phase = "asking") ~> (phase = "idle")
=============================================================================
