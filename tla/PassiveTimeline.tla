-------------------------- MODULE PassiveTimeline --------------------------
(***************************************************************************)
(* PassiveObservationScheduler: samples of the canvas go through the       *)
(* governor, bursts of small changes wait in #pending and leave as one     *)
(* event.  A sample runs to completion; between two of them the scene      *)
(* changes, time passes and the laboratory prunes frames.                  *)
(*                                                                         *)
(* `picture' is what a reader of the events has before it: each event's    *)
(* raster is pasted over what the earlier ones showed.                     *)
(***************************************************************************)
EXTENDS ObservationGovernor

CONSTANTS Scenes,             \* what the canvas may look like
          MaxCoalesced,       \* maxCoalescedSamples
          MaxCoalescedRoi,    \* maxCoalescedRoiFraction, in blocks
          MaxSamples,         \* bound: samples
          MaxFailures         \* bound: flushes that fail

ASSUME TimelineConstants ==
  /\ \A w \in Scenes : w \in Seq(Nat) /\ w # <<>>
  /\ MaxCoalesced \in Nat \ {0} /\ MaxCoalescedRoi \in Nat

VARIABLES preserving,   \* boundaryMode is transient_preserving
          previous,     \* the governor's #previous, <<>> before the first sample
          sequence, lastKeyframe, forced,   \* the governor's counters
          samples,      \* #samples
          pending,      \* #pending
          late,         \* the first pending sample is coalesceWindowMs old
          signatures,   \* #penultimateSignature and #previousSignature
          held,         \* the laboratory still has the frame of the last pending sample
          picture,      \* history: what the events have shown
          shownAt,      \* history: the last sample that was shown whole
          drift,        \* history: blocks whose changes were not to be delivered
          lost,         \* history: blocks whose changes went with a failed flush
          failures      \* history: flushes that failed

governor == <<previous, sequence, lastKeyframe, forced, samples>>
history  == <<picture, shownAt, drift, lost, failures>>

timelineVars == <<preserving, governor, pending, late, signatures, held, history>>

\* A pending sample, with the picture that was sampled before it.
Item(scene, d) == [index |-> samples + 1, disposition |-> d.disposition, region |-> d.region,
            scene |-> scene, before |-> previous]

Regions(p) == UNION {p[i].region : i \in DOMAIN p}
Latest(p) == p[Len(p)]

----------------------------------------------------------------------------
(* Delivery.                                                               *)

\* An event shows the whole frame of the last sample, or the region around the crops.
ShowsWhole(p) ==
  \/ \E i \in DOMAIN p : p[i].disposition # "roi"
  \/ Greatest(Regions(p)) - Least(Regions(p)) + 1 > MaxCoalescedRoi

\* Mutant of Shown: the crop of the last sample instead of the union of the crops.
ShownLast(p) == IF ShowsWhole(p) THEN DOMAIN Latest(p).scene ELSE Latest(p).region

\* unionCrops is the rectangle around the crops.
Shown(p) == IF ShowsWhole(p) THEN DOMAIN Latest(p).scene
            ELSE Least(Regions(p)) .. Greatest(Regions(p))

\* The last sample's own raster is used when it fits; anything else is rasterized now,
\* from a frame the laboratory may have pruned.
NeedsFrame(p) ==
  IF \E i \in DOMAIN p : p[i].disposition # "roi" THEN Latest(p).disposition = "roi"
  ELSE ShowsWhole(p) \/ Len(p) > 1

\* The picture of a reader who pastes the event of p over picture q.
Pasted(q, p) ==
  [x \in (Shown(p) \cup DOMAIN q) \cap DOMAIN Latest(p).scene |->
     IF x \in Shown(p) THEN Latest(p).scene[x] ELSE q[x]]

\* After an event the reader is up to date to its last sample.
Whole(p) == Shown(p) = DOMAIN Latest(p).scene

----------------------------------------------------------------------------
(* Sampling.                                                               *)

Visible(p, q) == DOMAIN p = DOMAIN q /\ p # q

\* The scene is again what it was before the last sample (isTransientReversal; the
\* thresholds for "is" and "was not" are reduced to equality).
Reversal(scene) ==
  preserving /\ signatures[1] = scene /\ Visible(signatures[2], signatures[1])

Decided(scene) == Decide(previous, scene, sequence + 1, lastKeyframe, forced)

\* What was pending leaves before this sample joins: a pulse that is over, or a burst
\* whose window has passed.
FlushesFirst(scene) ==
  /\ pending # <<>>
  /\ Reversal(scene) \/ (late /\ Decided(scene).disposition # "keyframe")

Joined(scene) == LET rest == IF FlushesFirst(scene) THEN <<>> ELSE pending
          IN IF Decided(scene).disposition = "skip" THEN rest ELSE Append(rest, Item(scene, Decided(scene)))

FlushesAfter(scene) ==
  /\ Decided(scene).disposition # "skip"
  /\ Decided(scene).disposition = "keyframe" \/ Len(Joined(scene)) >= MaxCoalesced

\* The governor compares with every sample, delivered or not.
GovernorSteps(scene) ==
  /\ previous' = scene
  /\ sequence' = sequence + 1
  /\ lastKeyframe' = IF Decided(scene).disposition = "keyframe" THEN sequence + 1 ELSE lastKeyframe
  /\ forced' = (forced /\ Decided(scene).disposition # "keyframe")
  /\ samples' = samples + 1

\* Blocks that changed outside of what this sample delivers.
Unseen(scene) == IF previous = <<>> \/ Len(previous) # Len(scene) THEN {}
          ELSE {x \in DOMAIN scene : previous[x] # scene[x] /\ x \notin Decided(scene).region}

Sample(scene) ==
  /\ samples < MaxSamples
  /\ FlushesFirst(scene) => (NeedsFrame(pending) => held)
  /\ GovernorSteps(scene)
  /\ LET seen  == IF FlushesFirst(scene) THEN Pasted(picture, pending) ELSE picture
         whole == FlushesAfter(scene) /\ Whole(Joined(scene))
         told  == IF FlushesFirst(scene) THEN lost \ Shown(pending) ELSE lost
     IN /\ pending' = IF FlushesAfter(scene) THEN <<>> ELSE Joined(scene)
        /\ picture' = IF FlushesAfter(scene) THEN Pasted(seen, Joined(scene)) ELSE seen
        /\ drift' = IF whole THEN {} ELSE drift \cup Unseen(scene)
        /\ lost' = IF FlushesAfter(scene) THEN told \ Shown(Joined(scene)) ELSE told
        /\ shownAt' = IF whole THEN samples + 1 ELSE shownAt
  /\ late' = (late /\ pending' # <<>> /\ ~FlushesFirst(scene))
  /\ signatures' = IF preserving THEN <<signatures[2], scene>> ELSE signatures
  /\ held' = (held \/ Decided(scene).disposition # "skip")
  /\ UNCHANGED <<preserving, failures>>

\* The flush that comes first throws: the pending samples are gone, spliced off before
\* their raster was asked for, and this one with them, while the governor has moved on.
SampleFails(scene) ==
  /\ samples < MaxSamples /\ failures < MaxFailures
  /\ FlushesFirst(scene) /\ NeedsFrame(pending) /\ ~held
  /\ GovernorSteps(scene)
  /\ pending' = <<>> /\ late' = FALSE
  /\ drift' = drift \cup Unseen(scene)
  /\ lost' = lost \cup Regions(pending) \cup Decided(scene).region
  /\ failures' = failures + 1
  /\ UNCHANGED <<preserving, signatures, held, picture, shownAt>>

\* flush, and the end of run.
Flush ==
  /\ pending # <<>>
  /\ NeedsFrame(pending) => held
  /\ picture' = Pasted(picture, pending)
  /\ lost' = lost \ Shown(pending)
  /\ pending' = <<>> /\ late' = FALSE
  /\ UNCHANGED <<preserving, governor, signatures, held, shownAt, drift, failures>>

FlushFails ==
  /\ pending # <<>> /\ failures < MaxFailures
  /\ NeedsFrame(pending) /\ ~held
  /\ pending' = <<>> /\ late' = FALSE
  /\ lost' = lost \cup Regions(pending)
  /\ failures' = failures + 1
  /\ UNCHANGED <<preserving, governor, signatures, held, picture, shownAt, drift>>

ForceKeyframe ==
  /\ ~forced /\ forced' = TRUE
  /\ UNCHANGED <<preserving, previous, sequence, lastKeyframe, samples, pending, late,
                 signatures, held, history>>

\* reset forgets the timeline: a reader starts again with it.
Reset ==
  /\ samples > 0
  /\ previous' = <<>> /\ sequence' = 0 /\ lastKeyframe' = 0 /\ forced' = FALSE
  /\ samples' = 0 /\ pending' = <<>> /\ late' = FALSE
  /\ signatures' = <<<<>>, <<>>>>
  /\ picture' = <<>> /\ shownAt' = 0 /\ drift' = {} /\ lost' = {}
  /\ UNCHANGED <<preserving, held, failures>>

----------------------------------------------------------------------------
(* The world outside.                                                      *)

\* coalesceWindowMs passes.
Wait ==
  /\ pending # <<>> /\ ~late
  /\ late' = TRUE
  /\ UNCHANGED <<preserving, governor, pending, signatures, held, history>>

\* Others observe until the frame of the last pending sample leaves #frames.
FramePruned ==
  /\ pending # <<>> /\ held
  /\ held' = FALSE
  /\ UNCHANGED <<preserving, governor, pending, late, signatures, history>>

TimelineInit ==
  /\ preserving \in BOOLEAN
  /\ previous = <<>> /\ sequence = 0 /\ lastKeyframe = 0 /\ forced = FALSE
  /\ samples = 0 /\ pending = <<>> /\ late = FALSE
  /\ signatures = <<<<>>, <<>>>>
  /\ held = FALSE
  /\ picture = <<>> /\ shownAt = 0 /\ drift = {} /\ lost = {} /\ failures = 0

TimelineNext ==
  \/ \E scene \in Scenes : Sample(scene) \/ SampleFails(scene)
  \/ Flush \/ FlushFails \/ ForceKeyframe \/ Reset
  \/ Wait \/ FramePruned

TimelineSpec == TimelineInit /\ [][TimelineNext]_timelineVars

----------------------------------------------------------------------------
(* Properties.                                                             *)

\* The reader of the events knows the scene as it was sampled last, but for what is
\* still pending, for what the thresholds leave out until the next whole frame, and for
\* the blocks a failed flush took with it, until an event shows them again
\* (flushPending takes the batch off #pending before the rasterize that may throw, so
\* changes above every threshold are lost there and nothing sends them again).  For all
\* other blocks deliveryRaster's one frame for several coalesced samples must cover the
\* change of each of them.
NothingLost ==
  previous # <<>> =>
    \A x \in DOMAIN previous :
      \/ x \in DOMAIN picture /\ picture[x] = previous[x]
      \/ x \in Regions(pending) \/ x \in drift \/ x \in lost

\* However long changes stay under the thresholds, the reader is shown the whole scene
\* every KeyframeInterval samples, unless a flush failed.
DriftBounded ==
  samples > 0 /\ failures = 0 => samples - shownAt < KeyframeInterval

=============================================================================
