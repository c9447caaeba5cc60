------------------------ MODULE ObservationGovernor ------------------------
(***************************************************************************)
(* ObservationGovernor of packages/multimodal-agent-runtime: what of a     *)
(* frame is delivered, decided by comparing it with the frame before.      *)
(*                                                                         *)
(* A perceptual signature is the picture itself: a row of blocks, each a   *)
(* grey level.  Both axes of a crop are computed alike; there is one here. *)
(***************************************************************************)
EXTENDS Integers, Sequences, FiniteSets

CONSTANTS BlockThreshold,    \* blockDifferenceThreshold, in grey levels
          ScoreThreshold,    \* differenceThreshold, as a sum over the blocks
          KeyframeInterval,  \* keyframeInterval
          MaxRoi,            \* maxRoiFraction, in blocks
          Padding, MinRoi    \* roiPaddingPx and minimumRoiSize, in blocks

ASSUME GovernorConstants ==
  /\ BlockThreshold \in Nat \ {0} /\ ScoreThreshold \in Nat \ {0}
  /\ KeyframeInterval \in Nat \ {0} /\ MaxRoi \in Nat
  /\ Padding \in Nat /\ MinRoi \in Nat \ {0}

Least(S) == CHOOSE x \in S : \A y \in S : x =< y
Greatest(S) == CHOOSE x \in S : \A y \in S : x >= y

\* The sum of the natural numbers f[x], as the size of a disjoint union (TLAPS cannot
\* reason about a fold).
Total(f) == Cardinality(UNION {{x} \X (1 .. f[x]) : x \in DOMAIN f})

Distance(p, q, x) == IF p[x] >= q[x] THEN p[x] - q[x] ELSE q[x] - p[x]

Blocks(p, q) == {x \in DOMAIN q : Distance(p, q, x) >= BlockThreshold}

Score(p, q) == Total([x \in DOMAIN q |-> Distance(p, q, x)])

\* The blocks from the first to the last changed one and Padding around them; a smaller
\* region than MinRoi grows to both sides, and to the other at an edge of the picture.
Crop(changed, width) ==
  LET left  == Greatest({1, Least(changed) - Padding})
      right == Least({width, Greatest(changed) + Padding})
      grown == Greatest({1, left - (MinRoi - (right - left + 1) + 1) \div 2})
      edge  == Least({width, grown + MinRoi - 1})
  IN IF right - left + 1 >= MinRoi THEN left .. right
     ELSE Greatest({1, edge - MinRoi + 1}) .. edge

Decision(disposition, region) == [disposition |-> disposition, region |-> region]

\* Mutant of Due: one observation too late.
DueLate(sequence, lastKeyframe) == sequence - lastKeyframe > KeyframeInterval

Due(sequence, lastKeyframe) == sequence - lastKeyframe >= KeyframeInterval

\* The decision on picture q after picture p, the observation's number and the number of
\* the last keyframe; p is empty at first.
Decide(p, q, sequence, lastKeyframe, forced) ==
  LET whole   == DOMAIN q
      changed == Blocks(p, q)
  IN IF \/ p = <<>> \/ Len(p) # Len(q) \/ forced
        \/ Due(sequence, lastKeyframe)
       THEN Decision("keyframe", whole)
     ELSE IF Score(p, q) < ScoreThreshold \/ changed = {} THEN Decision("skip", {})
     ELSE IF Cardinality(Crop(changed, Len(q))) > MaxRoi THEN Decision("full_frame", whole)
     ELSE Decision("roi", Crop(changed, Len(q)))
=============================================================================
