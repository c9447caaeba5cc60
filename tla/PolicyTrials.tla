---------------------------- MODULE PolicyTrials ----------------------------
(***************************************************************************)
(* Trials of observation policies.  An arm of a trial replays a trace of   *)
(* gestures in a laboratory of its own and delivers what its policy lets   *)
(* through.  The benchmark of policy-benchmark.ts runs five arms, measures *)
(* them and ranks them; the A/B of provider-ab.ts runs two and asks a real *)
(* provider about every delivery, within a budget for both: the provider   *)
(* is the Codex account, by an inference of CodexInference.                *)
(*                                                                         *)
(* The two arms that coalesce are the scheduler of PassiveTimeline, the    *)
(* governed one is ObservationGovernor.  Between samples nothing happens   *)
(* but time; only a provider's call is a wait.                             *)
(***************************************************************************)
EXTENDS PassiveTimeline, CodexInference

CONSTANTS Traces,          \* what the samples of the benchmark's plan may look like
          ProviderTrace,   \* what those of the provider's plan look like
          StaticCrop,      \* the blocks of the fixed crop
          Budgets,         \* [calls, tokens]: maxProviderCalls and maxTotalTokens
          Costs            \* tokens of a call

\* The gestures of the plan.  A trace is a sample, one after each of them and two more.
Plan == <<"persistent_drag", "persistent_restyle", "resize_zone", "edit_title", "draw_path",
          "delete_distractor", "tiny_motion", "transient_on", "transient_restore",
          "viewport_pan", "viewport_zoom">>

\* The provider's plan; its trace has a second sample before and one after.
ActionPlan == <<"transient_on", "transient_restore">>

\* The renderings of a trial are Scenes, all of the size of its viewport.
Rendered(t, plan) ==
  /\ t \in Seq(Scenes) /\ Len(t) = Len(plan) + 3
  /\ \A i \in DOMAIN t : Len(t[i]) = Len(t[1])

ASSUME TrialConstants ==
  /\ \A t \in Traces : Rendered(t, Plan)
  /\ Rendered(ProviderTrace, ActionPlan)
  /\ IsFiniteSet(StaticCrop)
  /\ Budgets # {} /\ \A b \in Budgets : b.calls \in Nat \ {0} /\ b.tokens \in Nat \ {0}
  /\ Costs \subseteq Nat

VARIABLES kind,        \* "benchmark" or "provider"
          trace,       \* the samples every arm takes
          budget,      \* the budget of the provider's runner
          arms,        \* the policies to run; the first one runs
          at,          \* samples taken by it
          stage,       \* "idle" between arms, "sampling", "asking", "done" or "failed"
          open,        \* laboratories that are open
          deliveries,  \* #deliveryTrace of the arm
          calls, tokens,   \* #totalCalls and #totalUsage
          cards,       \* what was measured of each finished arm
          recommended  \* the first of the ranked policies, or "none"

scheduler == <<preserving, pending, late, signatures, held, history>>
provider  == <<calls, tokens>>
fixed     == <<kind, trace, budget>>
vars == <<fixed, arms, at, stage, open, deliveries, provider, cards, recommended,
          governor, scheduler, inferenceVars>>

Benchmarked == <<"always_full", "static_crop", "governor_roi", "passive_timeline",
                 "hybrid_transient">>
Compared == <<"always_full", "governor_roi">>

Policy == Head(arms)
Coalesces == Policy \in {"passive_timeline", "hybrid_transient"}

----------------------------------------------------------------------------
(* What a policy delivers of a sample.                                     *)

\* A raster is the picture of a crop, and names the rendering it was taken from.
Raster(scene, region) == [crop |-> region, source |-> scene]

Delivery(from, to, raster) ==
  [from |-> from, to |-> to, region |-> raster.crop, scene |-> raster.source]

Event(p) ==
  Delivery(p[1].index, Latest(p).index, Raster(Latest(p).scene, Shown(p)))

\* The events the scheduler emits with a sample.
Emitted(scene) ==
  (IF FlushesFirst(scene) THEN <<Event(pending)>> ELSE <<>>)
    \o (IF FlushesAfter(scene) THEN <<Event(Joined(scene))>> ELSE <<>>)

\* The policies without a scheduler: a sample leaves by itself or not at all.
Region(scene) ==
  CASE Policy = "always_full"  -> DOMAIN scene
    [] Policy = "static_crop"  -> StaticCrop
    [] Policy = "governor_roi" -> Decided(scene).region

Delivered(scene) ==
  IF Region(scene) = {} THEN <<>>
  ELSE <<Delivery(at + 1, at + 1, Raster(scene, Region(scene)))>>

\* One sample after the next gesture of the plan, or without one.
Samples(scene) ==
  IF Coalesces
    THEN /\ deliveries' = deliveries \o Emitted(scene)
         /\ Sample(scene)
    ELSE /\ deliveries' = deliveries \o Delivered(scene)
         /\ IF Policy = "governor_roi" THEN GovernorSteps(scene) ELSE UNCHANGED governor
         /\ UNCHANGED scheduler

----------------------------------------------------------------------------
(* An arm.                                                                 *)

\* Mutant of Preserves: the hybrid policy coalesces over a pulse like the passive one.
PreservesNothing == FALSE

\* The boundary mode of the arm's scheduler.
Preserves == Policy = "hybrid_transient"

Begins ==
  /\ stage = "idle" /\ arms # <<>>
  /\ stage' = "sampling" /\ open' = open + 1
  /\ at' = 0 /\ deliveries' = <<>>
  /\ preserving' = Preserves
  /\ previous' = <<>> /\ sequence' = 0 /\ lastKeyframe' = 0 /\ forced' = FALSE
  /\ samples' = 0 /\ pending' = <<>> /\ late' = FALSE /\ signatures' = <<<<>>, <<>>>>
  /\ held' = FALSE /\ picture' = <<>> /\ shownAt' = 0
  /\ drift' = {} /\ lost' = {}
  /\ UNCHANGED <<fixed, arms, provider, cards, recommended, failures>>

\* Mutant of Affordable: each arm has the budget to itself.
AffordableByArm == Len(deliveries) < budget.calls /\ tokens < budget.tokens * (3 - Len(arms))

\* The budgets are checked before a call, with what earlier calls used.
Affordable == calls < budget.calls /\ tokens < budget.tokens

TakesSample ==
  /\ stage = "sampling" /\ at < Len(trace)
  /\ at' = at + 1
  /\ Samples(trace[at + 1])
  /\ IF kind = "provider" /\ deliveries' # deliveries
       THEN IF Affordable THEN stage' = "asking" /\ open' = open
            ELSE stage' = "failed" /\ open' = open - 1
       ELSE UNCHANGED <<stage, open>>
  /\ UNCHANGED <<fixed, arms, provider, cards, recommended>>

\* actionSpacingMs and settleMs run past the window of a burst.
Elapses ==
  /\ stage = "sampling" /\ Coalesces /\ Wait
  /\ UNCHANGED <<fixed, arms, at, stage, open, deliveries, provider, cards, recommended>>

Inferring ==
  /\ stage = "asking" /\ InferenceNext
  /\ UNCHANGED <<fixed, arms, at, stage, open, deliveries, provider, cards, recommended,
                 governor, scheduler>>

\* The call returns, and with it go its variables; the server and the image stay.
Returns ==
  /\ step' = "idle" /\ turn' = <<>> /\ sent' = 0 /\ granted' = FALSE
  /\ queue' = <<>> /\ waiter' = "none" /\ said' = "none" /\ usage' = FALSE /\ completed' = FALSE
  /\ UNCHANGED <<server, image>>

\* The provider's answer.  Without its tokens it is counted and refused.
Answers(cost) ==
  /\ stage = "asking" /\ step = "answered" /\ Returns
  /\ calls' = calls + 1
  /\ IF usage THEN stage' = "sampling" /\ open' = open /\ tokens' = tokens + cost
     ELSE stage' = "failed" /\ open' = open - 1 /\ tokens' = tokens
  /\ UNCHANGED <<fixed, arms, at, deliveries, cards, recommended, governor, scheduler>>

\* Mutant of Breaks: a laboratory is closed at the end of an arm only.
BreaksOpen ==
  /\ stage = "sampling" \/ (stage = "asking" /\ step \in {"failed", "answered"})
  /\ Returns
  /\ stage' = "failed" /\ open' = open
  /\ UNCHANGED <<fixed, arms, at, deliveries, provider, cards, recommended, governor, scheduler>>

\* A gesture is refused, a listener throws, the inference fails, or its answer is not
\* valid.
Breaks ==
  /\ stage = "sampling" \/ (stage = "asking" /\ step \in {"failed", "answered"})
  /\ Returns
  /\ stage' = "failed" /\ open' = open - 1
  /\ UNCHANGED <<fixed, arms, at, deliveries, provider, cards, recommended, governor, scheduler>>

----------------------------------------------------------------------------
(* What is measured.  The audit compares each sample with the one before,  *)
(* as the governor does.                                                   *)

Changed(i) ==
  IF i = 1 \/ Len(trace[i - 1]) # Len(trace[i]) THEN DOMAIN trace[i]
  ELSE Blocks(trace[i - 1], trace[i])

\* The samples after the gestures.
Acts == {i + 1 : i \in DOMAIN Plan}

TransientAt == 1 + CHOOSE i \in DOMAIN Plan : Plan[i] = "transient_on"

Perceptual == {i \in Acts : Changed(i) # {}}

\* The first delivery whose range has the sample, and whose crop has some of its change.
DeliveredBy(i, ds) ==
  LET ranges == {k \in DOMAIN ds : ds[k].from =< i /\ i =< ds[k].to}
  IN {k \in ranges : k = Least(ranges) /\ ds[k].region \cap Changed(i) # {}}

\* The gestures that are in the crop of a delivery.
StepsSeen(ds) == {i \in Perceptual : DeliveredBy(i, ds) # {}}

Exact(i, ds) == \E k \in DeliveredBy(i, ds) : ds[k].scene = trace[i]

Blocked(ds) == Total([k \in DOMAIN ds |-> Cardinality(ds[k].region)])
FullBytes == Total([i \in DOMAIN trace |-> Len(trace[i])])

\* The result of an arm: its steps, and what they come to.
Card(ds) ==
  [steps     |-> StepsSeen(ds),
   guards    |-> Cardinality({i \in Acts : trace[i] # trace[i - 1]}),
   seen      |-> Cardinality(StepsSeen(ds)),
   exact     |-> Cardinality({i \in Acts : Exact(i, ds)}),
   transient |-> IF Exact(TransientAt, ds) THEN 1 ELSE 0,
   saved     |-> Greatest({0, FullBytes - Blocked(ds)})]

\* Mutant of Flushed: what is still pending at the end is left.
Unflushed == deliveries

\* The scheduler's flush delivers what is still pending.
Flushed == IF pending = <<>> THEN deliveries ELSE Append(deliveries, Event(pending))

FinishesArm ==
  /\ stage = "sampling" /\ at = Len(trace)
  /\ stage' = "idle" /\ open' = open - 1
  /\ arms' = Tail(arms)
  /\ deliveries' = Flushed
  /\ cards' = IF kind = "provider" THEN cards
              ELSE [p \in DOMAIN cards \cup {Policy} |->
                      IF p = Policy THEN Card(Flushed) ELSE cards[p]]
  /\ IF Coalesces /\ pending # <<>> THEN Flush
     ELSE UNCHANGED <<governor, scheduler>>
  /\ UNCHANGED <<fixed, at, provider, recommended>>

----------------------------------------------------------------------------
(* The ranking.  The cards of a trial have the same denominators.          *)

\* Mutant of CardScore: the bytes count for nothing.
CardScoreBytesLost(c) ==
  LET n == Cardinality(Acts)
      p == Greatest({1, Cardinality(Perceptual)})
  IN FullBytes * (5 * c.seen * n + 5 * c.exact * p + 2 * c.transient * p * n + 3 * c.guards * p)

\* Twenty times the score of a card, over one denominator.
CardScore(c) ==
  LET n == Cardinality(Acts)
      p == Greatest({1, Cardinality(Perceptual)})
  IN 5 * c.saved * p * n
     + FullBytes * (5 * c.seen * n + 5 * c.exact * p + 2 * c.transient * p * n + 3 * c.guards * p)

Criteria == {"guards", "seen", "exact", "transient", "saved"}

\* d is as good as c in everything and better in something: c is not Pareto optimal.
Dominated(c, d) ==
  /\ \A m \in Criteria : d[m] >= c[m]
  /\ \E m \in Criteria : d[m] > c[m]

ByName == <<"always_full", "governor_roi", "hybrid_transient", "passive_timeline", "static_crop">>
Place(p) == CHOOSE i \in DOMAIN ByName : ByName[i] = p

Before(p, q) ==
  \/ CardScore(cards[p]) > CardScore(cards[q])
  \/ CardScore(cards[p]) = CardScore(cards[q]) /\ Place(p) < Place(q)

\* The first of the ranked cards.  The A/B ranks nothing.
Finishes ==
  /\ stage = "idle" /\ arms = <<>>
  /\ stage' = "done"
  /\ recommended' = IF kind = "provider" THEN recommended
                    ELSE CHOOSE p \in DOMAIN cards : \A q \in DOMAIN cards \ {p} : Before(p, q)
  /\ UNCHANGED <<fixed, arms, at, open, deliveries, provider, cards, governor, scheduler>>

----------------------------------------------------------------------------
Init ==
  /\ kind \in {"benchmark", "provider"}
  /\ budget \in IF kind = "provider" THEN Budgets ELSE {CHOOSE b \in Budgets : TRUE}
  /\ trace \in IF kind = "provider" THEN {ProviderTrace} ELSE Traces
  /\ arms = IF kind = "provider" THEN Compared ELSE Benchmarked
  /\ stage = "idle" /\ at = 0 /\ open = 0 /\ deliveries = <<>>
  /\ calls = 0 /\ tokens = 0 /\ cards = <<>> /\ recommended = "none"
  /\ TimelineInit /\ ~preserving /\ InferenceInit

Next ==
  \/ Breaks \/ Inferring \/ \E cost \in Costs : Answers(cost)
  \/ /\ Begins \/ TakesSample \/ Elapses \/ FinishesArm \/ Finishes
     /\ UNCHANGED inferenceVars

\* A trial runs on; the timers of a provider that does not answer run out.
Fairness == WF_vars(Next)

Spec == Init /\ [][Next]_vars /\ Fairness

----------------------------------------------------------------------------
(* Properties.                                                             *)

\* The provider is never called over the budget: not more than maxProviderCalls times in
\* both arms together, and not again once they have used maxTotalTokens (ADR-012: "an
\* eight-call cap and a measured Token continuation threshold").
BudgetHeld ==
  /\ calls =< budget.calls
  /\ stage = "asking" => calls < budget.calls /\ tokens < budget.tokens

\* A trial ends with every laboratory closed, however it ends, and leaves neither a Codex
\* App Server nor an image behind, unless the image could not be written.
TrialEnds ==
  <>[](stage \in {"done", "failed"} /\ open = 0 /\ server # "running" /\ ~image)

\* Gestures whose change the governor does not skip: the blocks the audit sees change are
\* also enough of the whole picture.  (A fainter gesture is delivered when a keyframe or
\* the crop of another happens to show it, and lost otherwise.)
Noticed == {i \in Perceptual : ~(Score(trace[i - 1], trace[i]) < ScoreThreshold)}

\* What policy p may not leave out.
Owed(p) == CASE p = "always_full" -> Perceptual
             [] p = "static_crop" -> {}
             [] OTHER -> Noticed

\* No policy but the fixed crop loses a change it has noticed: every such gesture is in the
\* crop of a delivery, whether it left by itself, in a burst or with the flush at the end.
\* The policy that observes everything loses none that the audit can see.
EveryChangeDelivered == \A p \in DOMAIN cards : Owed(p) \subseteq cards[p].steps

\* The hybrid policy delivers the state between a change and its reversal as it was,
\* wherever keyframes and windows fall, unless the governor takes the change for noise
\* (ADR-012: "Hybrid preserves the tested transient").
TransientKept ==
  "hybrid_transient" \in DOMAIN cards /\ TransientAt \in Noticed
    /\ trace[TransientAt + 1] = trace[TransientAt - 1]
  => cards["hybrid_transient"].transient = 1

\* The policy that is recommended is Pareto optimal.
RecommendedIsPareto ==
  recommended # "none" => \A p \in DOMAIN cards : ~Dominated(cards[recommended], cards[p])
=============================================================================
