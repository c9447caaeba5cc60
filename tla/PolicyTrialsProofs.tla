------------------------- MODULE PolicyTrialsProofs -------------------------
(***************************************************************************)
(* Theorems about what is delivered of an observed canvas and about the    *)
(* trials of the policies that deliver it, for any pictures, thresholds    *)
(* and bounds: PassiveTimeline, CodexInference and PolicyTrials.           *)
(***************************************************************************)
EXTENDS PolicyTrials, FiniteSetTheorems, SequenceTheorems, WellFoundedInduction, TLAPS

----------------------------------------------------------------------------
(* The governor: extremes, crops and decisions.                            *)

\* A nonempty set of naturals has a least member, and Least is it.
LEMMA LeastOfNaturals ==
  ASSUME NEW S \in SUBSET Nat, S # {}
  PROVE  Least(S) \in S /\ \A y \in S : Least(S) =< y
  <1>1. PICK x \in S : \A y \in S : ~(<<y, x>> \in OpToRel(<, Nat))
    BY NatLessThanWellFounded, WFMin, Zenon
  <1>2. \A y \in S : x =< y
    <2> SUFFICES ASSUME NEW y \in S, y < x  PROVE FALSE
      OBVIOUS
    <2>1. <<y, x>> \in Nat \X Nat /\ <<y, x>>[1] < <<y, x>>[2]
      OBVIOUS
    <2>2. <<y, x>> \in OpToRel(<, Nat)
      BY <2>1, Zenon DEF OpToRel
    <2>. QED
      BY <1>1, <2>2
  <1>. QED
    BY <1>1, <1>2, Zenon DEF Least

\* A nonempty set of numbers up to n has a greatest member, and Greatest is it.
LEMMA GreatestOfInterval ==
  ASSUME NEW n \in Nat, NEW S \in SUBSET (0..n), S # {}
  PROVE  Greatest(S) \in S /\ \A y \in S : Greatest(S) >= y
  <1> DEFINE D == {n - x : x \in S}
  <1>1. D \in SUBSET Nat
    OBVIOUS
  <1>0. D # {}
    OBVIOUS
  <1>2. Least(D) \in D /\ \A y \in D : Least(D) =< y
    BY <1>1, <1>0, LeastOfNaturals, Zenon
  <1>3. PICK x \in S : Least(D) = n - x
    BY <1>2
  <1>4. \A y \in S : x >= y
    <2> TAKE y \in S
    <2>1. n - y \in D
      OBVIOUS
    <2>2. Least(D) =< n - y
      BY <1>2, <2>1
    <2> HIDE DEF D
    <2>. QED
      BY <1>3, <2>2
  <1>. QED
    BY <1>4, Zenon DEF Greatest

\* Of two numbers.
LEMMA ExtremesOfPair ==
  ASSUME NEW a \in Int, NEW b \in Int
  PROVE  /\ Least({a, b}) = IF a =< b THEN a ELSE b
         /\ Greatest({a, b}) = IF a >= b THEN a ELSE b
  <1> DEFINE l == IF a =< b THEN a ELSE b
             g == IF a >= b THEN a ELSE b
  <1>1. l \in {a, b} /\ \A y \in {a, b} : l =< y
    OBVIOUS
  <1>2. g \in {a, b} /\ \A y \in {a, b} : g >= y
    OBVIOUS
  <1>3. Least({a, b}) \in {a, b} /\ \A y \in {a, b} : Least({a, b}) =< y
    <2> HIDE DEF l
    <2>. QED  BY <1>1, Zenon DEF Least
  <1>4. Greatest({a, b}) \in {a, b} /\ \A y \in {a, b} : Greatest({a, b}) >= y
    <2> HIDE DEF g
    <2>. QED  BY <1>2, Zenon DEF Greatest
  <1>. QED
    BY <1>3, <1>4

\* A crop has the changed blocks and no block outside the picture.
LEMMA CropCovers ==
  ASSUME NEW w \in Nat, NEW changed \in SUBSET (1..w), changed # {}
  PROVE  changed \subseteq Crop(changed, w) /\ Crop(changed, w) \subseteq 1..w
  <1> DEFINE least == Least(changed)
             greatest == Greatest(changed)
             left  == Greatest({1, least - Padding})
             right == Least({w, greatest + Padding})
             grown == Greatest({1, left - (MinRoi - (right - left + 1) + 1) \div 2})
             edge  == Least({w, grown + MinRoi - 1})
             start == Greatest({1, edge - MinRoi + 1})
  <1>1. least \in changed /\ \A y \in changed : least =< y
    BY LeastOfNaturals
  <1>2. greatest \in changed /\ \A y \in changed : greatest >= y
    BY GreatestOfInterval
  <1> HIDE DEF least, greatest
  <1>3. 1 =< least /\ least =< greatest /\ greatest =< w /\ least \in Int /\ greatest \in Int
    BY <1>1, <1>2
  <1>4. Padding \in Nat /\ MinRoi \in Nat \ {0}
    BY GovernorConstants
  <1>5. left \in Int /\ 1 =< left /\ left =< least
    <2>1. 1 \in Int /\ least - Padding \in Int
      BY <1>3, <1>4
    <2>2. left = IF 1 >= least - Padding THEN 1 ELSE least - Padding
      BY <2>1, ExtremesOfPair, Zenon
    <2>. QED
      BY <2>2, <1>3, <1>4
  <1>6. right \in Int /\ greatest =< right /\ right =< w
    <2>1. w \in Int /\ greatest + Padding \in Int
      BY <1>3, <1>4
    <2>2. right = IF w =< greatest + Padding THEN w ELSE greatest + Padding
      BY <2>1, ExtremesOfPair, Zenon
    <2>. QED
      BY <2>2, <1>3, <1>4
  <1>7. changed \subseteq left..right
    BY <1>1, <1>2, <1>3, <1>5, <1>6
  <1> HIDE DEF left, right
  <1>8. CASE right - left + 1 >= MinRoi
    <2>1. Crop(changed, w) = left..right
      BY <1>8 DEF Crop, left, right, least, greatest
    <2>. QED
      BY <2>1, <1>5, <1>6, <1>7, <1>3
  <1>9. CASE right - left + 1 < MinRoi
    <2> DEFINE half == (MinRoi - (right - left + 1) + 1) \div 2
    <2>1. half \in Int /\ 0 =< half /\ half =< MinRoi - (right - left + 1)
      BY <1>9, <1>4, <1>5, <1>6
    <2> HIDE DEF half
    <2>2. grown \in Int /\ 1 =< grown /\ grown =< left /\ grown >= left - half
      <3>1. 1 \in Int /\ left - half \in Int
        BY <2>1, <1>5
      <3>2. grown = IF 1 >= left - half THEN 1 ELSE left - half
        BY <3>1, ExtremesOfPair, Zenon DEF half
      <3>. QED
        BY <3>2, <2>1, <1>5
    <2> HIDE DEF grown
    <2>3. edge \in Int /\ edge =< w /\ edge =< grown + MinRoi - 1
             /\ (edge = w \/ edge = grown + MinRoi - 1)
      <3>1. w \in Int /\ grown + MinRoi - 1 \in Int
        BY <2>2, <1>4
      <3>2. edge = IF w =< grown + MinRoi - 1 THEN w ELSE grown + MinRoi - 1
        BY <3>1, ExtremesOfPair, Zenon
      <3>. QED
        BY <3>2, <2>2, <1>4
    <2>4. right =< edge
      BY <2>1, <2>2, <2>3, <1>4, <1>5, <1>6
    <2> HIDE DEF edge
    <2>5. start \in Int /\ 1 =< start /\ start =< left
      <3>1. 1 \in Int /\ edge - MinRoi + 1 \in Int
        BY <2>3, <1>4
      <3>2. start = IF 1 >= edge - MinRoi + 1 THEN 1 ELSE edge - MinRoi + 1
        BY <3>1, ExtremesOfPair, Zenon
      <3>. QED
        BY <3>2, <2>2, <2>3, <1>4, <1>5
    <2> HIDE DEF start
    <2>6. changed \subseteq start..edge /\ start..edge \subseteq 1..w
      BY <2>3, <2>4, <2>5, <1>5, <1>6, <1>7
    <2>7. Crop(changed, w) = start..edge
      <3>1. ~(right - left + 1 >= MinRoi)
        BY <1>9, <1>5, <1>6, <1>4
      <3>. QED
        BY <3>1, Zenon DEF Crop, start, edge, grown, left, right, least, greatest
    <2>. QED
      BY <2>6, <2>7
  <1>. QED
    BY <1>8, <1>9, <1>4, <1>5, <1>6

\* What a decision d on picture q after picture p promises; on `keyframe' one is due or
\* forced.
Sound(d, p, q, keyframe) ==
  /\ d.disposition \in {"keyframe", "full_frame", "roi", "skip"}
  /\ p = <<>> \/ Len(p) # Len(q) \/ keyframe => d.disposition = "keyframe"
  /\ d.region \subseteq 1..Len(q)
  /\ d.disposition \in {"keyframe", "full_frame"} => d.region = 1..Len(q)
  /\ d.disposition # "skip" => d.region # {} /\ Blocks(p, q) \subseteq d.region
  /\ d.disposition = "skip" => d.region = {} /\ (Score(p, q) < ScoreThreshold \/ Blocks(p, q) = {})

LEMMA DecideIsSound ==
  ASSUME NEW p, NEW q \in Seq(Nat), q # <<>>, NEW s, NEW k, NEW f
  PROVE  Sound(Decide(p, q, s, k, f), p, q, f \/ Due(s, k))
  <1> DEFINE d == Decide(p, q, s, k, f)
             changed == Blocks(p, q)
             key == p = <<>> \/ Len(p) # Len(q) \/ f \/ Due(s, k)
             low == Score(p, q) < ScoreThreshold \/ changed = {}
  <1>1. DOMAIN q = 1..Len(q) /\ Len(q) \in Nat \ {0} /\ 1 \in 1..Len(q)
    BY EmptySeq
  <1>2. changed \in SUBSET (1..Len(q))
    BY <1>1 DEF Blocks
  <1>3. CASE key
    <2>1. d = Decision("keyframe", DOMAIN q)
      BY <1>3, Zenon DEF Decide
    <2>. QED
      BY <2>1, <1>1, <1>2 DEF Sound, Decision
  <1>4. CASE ~key /\ low
    <2>1. d = Decision("skip", {})
      BY <1>4, Zenon DEF Decide
    <2>. QED
      BY <2>1, <1>1, <1>4 DEF Sound, Decision
  <1>5. CASE ~key /\ ~low
    <2>1. changed \subseteq Crop(changed, Len(q)) /\ Crop(changed, Len(q)) \subseteq 1..Len(q)
      BY <1>5, <1>1, <1>2, CropCovers
    <2>2. CASE Cardinality(Crop(changed, Len(q))) > MaxRoi
      <3>1. d = Decision("full_frame", DOMAIN q)
        BY <1>5, <2>2, Zenon DEF Decide
      <3>. QED
        BY <3>1, <1>1, <1>2, <1>5 DEF Sound, Decision
    <2>3. CASE ~(Cardinality(Crop(changed, Len(q))) > MaxRoi)
      <3>1. d = Decision("roi", Crop(changed, Len(q)))
        BY <1>5, <2>3, Zenon DEF Decide
      <3>. QED
        BY <3>1, <2>1, <1>1, <1>2, <1>5 DEF Sound, Decision
    <2>. QED
      BY <2>2, <2>3
  <1>. QED
    BY <1>3, <1>4, <1>5

----------------------------------------------------------------------------
(* The timeline of events.                                                 *)

PassiveItems ==
  [index : Nat, disposition : {"keyframe", "full_frame", "roi"}, region : SUBSET Nat,
   scene : Seq(Nat), before : Seq(Nat)]

\* Pending samples of pictures of w blocks.
PendingOK(p, w) ==
  /\ p \in Seq(PassiveItems)
  /\ \A i \in 1..Len(p) :
       p[i].region # {} /\ p[i].region \subseteq 1..w /\ Len(p[i].scene) = w

\* An event shows at least the crops of its samples.
LEMMA ShownCovers ==
  ASSUME NEW w \in Nat, NEW p, PendingOK(p, w), p # <<>>
  PROVE  /\ Regions(p) \subseteq Shown(p) /\ Shown(p) \subseteq 1..w
         /\ Latest(p) = p[Len(p)] /\ DOMAIN p[Len(p)].scene = 1..w
         /\ (\E i \in 1..Len(p) : p[i].disposition # "roi") => Shown(p) = 1..w
  <1> DEFINE R == Regions(p)
  <1>1. Len(p) \in 1..Len(p) /\ DOMAIN p = 1..Len(p)
    BY DEF PendingOK
  <1>2. Latest(p) = p[Len(p)] /\ DOMAIN p[Len(p)].scene = 1..w
    BY <1>1 DEF PendingOK, PassiveItems, Latest
  <1>3. R \in SUBSET (1..w)
    BY <1>1 DEF PendingOK, Regions
  <1>4. R # {}
    BY <1>1 DEF PendingOK, Regions
  <1>5. CASE ShowsWhole(p)
    BY <1>2, <1>3, <1>5 DEF Shown
  <1>6. CASE ~ShowsWhole(p)
    <2>1. Shown(p) = Least(R)..Greatest(R)
      BY <1>6, Zenon DEF Shown
    <2>2. ~(\E i \in 1..Len(p) : p[i].disposition # "roi")
      BY <1>1, <1>6 DEF ShowsWhole
    <2>3. Least(R) \in R /\ \A y \in R : Least(R) =< y
      BY <1>3, <1>4, LeastOfNaturals
    <2>4. Greatest(R) \in R /\ \A y \in R : Greatest(R) >= y
      <3>1. R \in SUBSET (0..w)
        BY <1>3
      <3>. QED
        BY <3>1, <1>4, GreatestOfInterval
    <2>5. R \subseteq Least(R)..Greatest(R) /\ Least(R)..Greatest(R) \subseteq 1..w
      BY <1>3, <2>3, <2>4
    <2>. QED
      BY <1>2, <2>1, <2>2, <2>5
  <1>. QED
    BY <1>5, <1>6

\* A reader who pastes an event has the last sample where the event shows it.
LEMMA PastedShows ==
  ASSUME NEW w \in Nat, NEW p, PendingOK(p, w), p # <<>>, NEW q, NEW x \in 1..w
  PROVE  /\ x \in Shown(p) => /\ x \in DOMAIN Pasted(q, p)
                                     /\ Pasted(q, p)[x] = p[Len(p)].scene[x]
         /\ x \notin Shown(p) /\ x \in DOMAIN q =>
              x \in DOMAIN Pasted(q, p) /\ Pasted(q, p)[x] = q[x]
  <1>1. Shown(p) \subseteq 1..w /\ Latest(p) = p[Len(p)]
        /\ DOMAIN p[Len(p)].scene = 1..w
    BY ShownCovers
  <1>. QED
    BY <1>1, Zenon DEF Pasted

\* One more pending sample.
LEMMA PendingJoined ==
  ASSUME NEW w \in Nat, NEW p, PendingOK(p, w), NEW i \in PassiveItems,
         i.region # {}, i.region \subseteq 1..w, Len(i.scene) = w
  PROVE  /\ PendingOK(Append(p, i), w) /\ Append(p, i) # <<>>
         /\ Len(Append(p, i)) = Len(p) + 1 /\ Append(p, i)[Len(Append(p, i))] = i
         /\ Regions(Append(p, i)) = Regions(p) \cup i.region
  <1> DEFINE t == Append(p, i)
  <1>1. p \in Seq(PassiveItems) /\ t \in Seq(PassiveItems) /\ Len(t) = Len(p) + 1
        /\ t[Len(t)] = i /\ \A j \in 1..Len(p) : t[j] = p[j]
    BY DEF PendingOK
  <1> HIDE DEF t
  <1>2. \A j \in 1..Len(t) : (j \in 1..Len(p) /\ t[j] = p[j]) \/ (j = Len(t) /\ t[j] = i)
    BY <1>1
  <1>3. PendingOK(t, w)
    BY <1>1, <1>2 DEF PendingOK
  <1>4. Regions(t) = Regions(p) \cup i.region
    BY <1>1, <1>2 DEF Regions
  <1>. QED
    BY <1>1, <1>3, <1>4 DEF t

\* A reader of the events with picture pic, samples p pending, drift d and l lost knows
\* picture prev; the last pending sample is prev, but for the drift.
Reader(prev, pic, p, d, l) ==
  \A x \in 1..Len(prev) :
    /\ \/ x \in DOMAIN pic /\ pic[x] = prev[x]
       \/ x \in Regions(p) \/ x \in d \/ x \in l
    /\ p # <<>> => p[Len(p)].scene[x] = prev[x] \/ x \in d

\* He still does after the event of p, which shows again what it covers.
LEMMA ReaderPastes ==
  ASSUME NEW prev \in Seq(Nat), NEW pic, NEW p, NEW d, NEW l, PendingOK(p, Len(prev)),
         p # <<>>, Reader(prev, pic, p, d, l)
  PROVE  Reader(prev, Pasted(pic, p), <<>>, d, l \ Shown(p))
  <1> SUFFICES ASSUME NEW x \in 1..Len(prev)
               PROVE  \/ x \in DOMAIN Pasted(pic, p) /\ Pasted(pic, p)[x] = prev[x]
                      \/ x \in d \/ x \in l \ Shown(p)
    BY DEF Reader
  <1>1. Len(prev) \in Nat
    OBVIOUS
  <1>2. CASE x \in Shown(p)
    BY <1>1, <1>2, PastedShows DEF Reader
  <1>3. CASE x \notin Shown(p)
    <2>1. x \notin Regions(p)
      BY <1>1, <1>3, ShownCovers
    <2>. QED
      BY <1>1, <1>3, <2>1, PastedShows DEF Reader
  <1>. QED
    BY <1>2, <1>3

\* The inductive invariant: the counters agree, no keyframe is overdue, and the reader
\* knows the picture.
PassiveInv ==
  /\ previous \in Seq(Nat) /\ sequence \in Nat /\ samples = sequence
  /\ lastKeyframe \in Nat /\ lastKeyframe =< sequence
  /\ sequence - lastKeyframe < KeyframeInterval
  /\ shownAt \in Nat /\ failures \in Nat
  /\ failures = 0 => lastKeyframe =< shownAt
  /\ PendingOK(pending, Len(previous))
  /\ previous = <<>> => pending = <<>>
  /\ Reader(previous, picture, pending, drift, lost)

LEMMA PassiveInit ==
  ASSUME TimelineInit
  PROVE  PassiveInv
  <1>1. <<>> \in Seq(Nat) /\ <<>> \in Seq(PassiveItems) /\ Len(<<>>) = 0
    BY EmptySeq
  <1>2. PendingOK(<<>>, 0)
    BY <1>1 DEF PendingOK
  <1>3. Reader(<<>>, <<>>, <<>>, {}, {})
    BY <1>1 DEF Reader
  <1>. QED
    BY <1>1, <1>2, <1>3, GovernorConstants DEF TimelineInit, PassiveInv

\* The decision of a sample.
LEMMA SampleDecides ==
  ASSUME PassiveInv, NEW scene \in Scenes
  PROVE  /\ scene \in Seq(Nat) /\ scene # <<>> /\ DOMAIN scene = 1..Len(scene) /\ Len(scene) \in Nat
         /\ Sound(Decided(scene), previous, scene, forced \/ Due(sequence + 1, lastKeyframe))
         /\ Decided(scene).disposition # "skip" =>
              /\ Item(scene, Decided(scene)) \in PassiveItems
              /\ Item(scene, Decided(scene)).scene = scene
              /\ Item(scene, Decided(scene)).region = Decided(scene).region
              /\ Item(scene, Decided(scene)).disposition = Decided(scene).disposition
  <1> DEFINE d == Decided(scene)
  <1>1. scene \in Seq(Nat) /\ scene # <<>>
    BY TimelineConstants
  <1>2. DOMAIN scene = 1..Len(scene) /\ Len(scene) \in Nat
    BY <1>1
  <1>3. d = Decide(previous, scene, sequence + 1, lastKeyframe, forced)
    BY Zenon DEF Decided
  <1>4. Sound(d, previous, scene, forced \/ Due(sequence + 1, lastKeyframe))
    BY <1>1, <1>3, DecideIsSound
  <1> HIDE DEF d
  <1>5. ASSUME d.disposition # "skip"
        PROVE  /\ Item(scene, d) \in PassiveItems
               /\ Item(scene, d).scene = scene /\ Item(scene, d).region = d.region
               /\ Item(scene, d).disposition = d.disposition
    <2>1. d.disposition \in {"keyframe", "full_frame", "roi"} /\ d.region \in SUBSET Nat
      BY <1>4, <1>5, <1>2 DEF Sound
    <2>2. samples + 1 \in Nat /\ previous \in Seq(Nat)
      BY DEF PassiveInv
    <2>. QED
      BY <1>1, <2>1, <2>2 DEF Item, PassiveItems
  <1>. QED
    BY <1>1, <1>2, <1>4, <1>5 DEF d

\* The counters after a sample, whether it could be delivered or not.
LEMMA SampleCounts ==
  ASSUME PassiveInv, NEW scene \in Scenes, GovernorSteps(scene)
  PROVE  /\ previous' = scene /\ previous' \in Seq(Nat) /\ previous' # <<>>
         /\ sequence' \in Nat /\ samples' = sequence' /\ sequence' = sequence + 1
         /\ lastKeyframe' \in Nat /\ lastKeyframe' =< sequence'
         /\ sequence' - lastKeyframe' < KeyframeInterval
         /\ lastKeyframe' = IF Decided(scene).disposition = "keyframe" THEN sequence + 1
                            ELSE lastKeyframe
  <1>1. Sound(Decided(scene), previous, scene, forced \/ Due(sequence + 1, lastKeyframe))
        /\ scene \in Seq(Nat) /\ scene # <<>>
    BY SampleDecides
  <1>2. Due(sequence + 1, lastKeyframe) => Decided(scene).disposition = "keyframe"
    BY <1>1 DEF Sound
  <1>. QED
    BY <1>1, <1>2, GovernorConstants DEF PassiveInv, GovernorSteps, Due

LEMMA PassiveSample ==
  ASSUME PassiveInv, NEW scene \in Scenes, Sample(scene)
  PROVE  PassiveInv'
  <1> DEFINE d == Decided(scene)
             item == Item(scene, d)
             first == FlushesFirst(scene)
             after == FlushesAfter(scene)
             rest == IF first THEN <<>> ELSE pending
             seen == IF first THEN Pasted(picture, pending) ELSE picture
             told == IF first THEN lost \ Shown(pending) ELSE lost
             joined == Joined(scene)
             w == Len(scene)
             whole == after /\ Whole(joined)
  <1>1. /\ scene \in Seq(Nat) /\ scene # <<>> /\ DOMAIN scene = 1..w /\ w \in Nat
        /\ Sound(d, previous, scene, forced \/ Due(sequence + 1, lastKeyframe))
        /\ d.disposition # "skip" => /\ item \in PassiveItems /\ item.scene = scene
                                     /\ item.region = d.region /\ item.disposition = d.disposition
    BY SampleDecides
  <1>2. GovernorSteps(scene)
    BY DEF Sample
  <1>3. /\ pending' = IF after THEN <<>> ELSE joined
        /\ picture' = IF after THEN Pasted(seen, joined) ELSE seen
        /\ drift' = IF whole THEN {} ELSE drift \cup Unseen(scene)
        /\ lost' = IF after THEN told \ Shown(joined) ELSE told
        /\ shownAt' = IF whole THEN samples + 1 ELSE shownAt
        /\ failures' = failures
    BY DEF Sample
  <1>4. joined = IF d.disposition = "skip" THEN rest ELSE Append(rest, item)
    BY Zenon DEF Joined
  <1>5. after <=> d.disposition # "skip"
                  /\ (d.disposition = "keyframe" \/ Len(joined) >= MaxCoalesced)
    BY Zenon DEF FlushesAfter
  <1>6. previous \in Seq(Nat) /\ PendingOK(pending, Len(previous)) /\ (previous = <<>> => pending = <<>>)
        /\ Reader(previous, picture, pending, drift, lost)
    BY DEF PassiveInv
  <1>7. PendingOK(<<>>, 0) /\ PendingOK(<<>>, w) /\ PendingOK(<<>>, Len(previous))
    BY <1>1, EmptySeq DEF PendingOK
  <1>8. PendingOK(rest, Len(previous)) /\ Reader(previous, seen, rest, drift, told)
    <2>1. CASE first
      <3>1. pending # <<>>
        BY <2>1 DEF FlushesFirst
      <3>. QED
        BY <2>1, <3>1, <1>6, <1>7, ReaderPastes
    <2>2. CASE ~first
      BY <2>2, <1>6
    <2>. QED
      BY <2>1, <2>2
  <1> HIDE DEF d, item, first, after, rest, seen, told, joined, w, whole
  <1>9. CASE d.disposition = "keyframe"
    <2>1. after /\ joined = Append(rest, item)
      BY <1>4, <1>5, <1>9
    <2>2. joined \in Seq(PassiveItems) /\ Len(joined) \in DOMAIN joined /\ joined[Len(joined)] = item
      <3>1. rest \in Seq(PassiveItems) /\ item \in PassiveItems
        BY <1>1, <1>8, <1>9 DEF PendingOK
      <3>. QED
        BY <2>1, <3>1
    <2>3. Latest(joined).scene = scene /\ Shown(joined) = 1..w
      BY <1>1, <1>9, <2>2 DEF Latest, Shown, ShowsWhole
    <2>4. whole
      BY <1>1, <2>1, <2>3 DEF whole, Whole
    <2>5. \A x \in 1..w : x \in DOMAIN picture' /\ picture'[x] = scene[x]
      <3>1. picture' = Pasted(seen, joined)
        BY <1>3, <2>1
      <3>. QED
        BY <1>1, <2>3, <3>1, Zenon DEF Pasted
    <2>6. Reader(scene, picture', <<>>, {}, lost')
      BY <2>5 DEF Reader, w
    <2>7. pending' = <<>> /\ drift' = {} /\ shownAt' = samples + 1
      BY <1>3, <2>1, <2>4
    <2>. QED
      BY <1>2, <1>3, <1>9, <1>7, <2>6, <2>7, SampleCounts DEF PassiveInv, d, w
  <1>10. CASE d.disposition # "keyframe"
    <2>1. previous # <<>> /\ Len(previous) = w
      BY <1>1, <1>10 DEF Sound, w
    <2>2. \A x \in 1..w : previous[x] = scene[x] \/ x \in Unseen(scene) \/ x \in d.region
      BY <1>1, <2>1 DEF Unseen, w, d
    <2>3. ~after => Reader(scene, seen, joined, drift \cup Unseen(scene), told)
                    /\ PendingOK(joined, w)
      <3>1. CASE d.disposition = "skip"
        <4>1. joined = rest /\ d.region = {}
          BY <1>1, <1>4, <3>1 DEF Sound
        <4>. QED
          BY <1>8, <2>1, <2>2, <4>1 DEF Reader, w
      <3>2. CASE d.disposition # "skip"
        <4>1. joined = Append(rest, item)
          BY <1>4, <3>2
        <4>2. item.region # {} /\ item.region \subseteq 1..w /\ Len(item.scene) = w
          BY <1>1, <3>2 DEF Sound, w
        <4>3. /\ PendingOK(joined, w) /\ joined # <<>> /\ joined[Len(joined)] = item
              /\ Regions(joined) = Regions(rest) \cup d.region
          <5>1. item \in PassiveItems /\ item.region = d.region /\ w \in Nat
            BY <1>1, <3>2, Zenon
          <5>2. PendingOK(rest, w)
            BY <1>8, <2>1, Zenon
          <5>3. /\ PendingOK(Append(rest, item), w) /\ Append(rest, item) # <<>>
                /\ Append(rest, item)[Len(Append(rest, item))] = item
                /\ Regions(Append(rest, item)) = Regions(rest) \cup item.region
            BY <4>2, <5>1, <5>2, PendingJoined
          <5>. QED
            BY <4>1, <5>1, <5>3
        <4> SUFFICES ASSUME NEW x \in 1..w
                     PROVE  \/ x \in DOMAIN seen /\ seen[x] = scene[x]
                            \/ x \in Regions(joined) \/ x \in drift \cup Unseen(scene)
                            \/ x \in told
          BY <1>1, <3>2, <4>3 DEF Reader, w
        <4>4. \/ x \in DOMAIN seen /\ seen[x] = previous[x]
              \/ x \in Regions(rest) \/ x \in drift \/ x \in told
          BY <1>8, <2>1 DEF Reader
        <4>5. previous[x] = scene[x] \/ x \in Unseen(scene) \/ x \in d.region
          BY <2>2
        <4>. QED
          BY <4>3, <4>4, <4>5
      <3>. QED
        BY <3>1, <3>2
    <2>4. after => Reader(scene, Pasted(seen, joined), <<>>, drift', lost')
      <3> SUFFICES ASSUME after
                   PROVE  Reader(scene, Pasted(seen, joined), <<>>, drift', lost')
        OBVIOUS
      <3>1. d.disposition # "skip" /\ joined = Append(rest, item)
        BY <1>4, <1>5
      <3>2. item.region # {} /\ item.region \subseteq 1..w /\ Len(item.scene) = w
        BY <1>1, <3>1 DEF Sound, w
      <3>3. /\ PendingOK(joined, w) /\ joined # <<>> /\ joined[Len(joined)] = item
            /\ Regions(joined) = Regions(rest) \cup d.region
        BY <1>1, <1>8, <2>1, <3>1, <3>2, PendingJoined
      <3>4. /\ Regions(joined) \subseteq Shown(joined)
            /\ Latest(joined) = item
        BY <1>1, <3>3, ShownCovers
      <3>5. SUFFICES ASSUME NEW x \in 1..w
                     PROVE  \/ /\ x \in DOMAIN Pasted(seen, joined)
                               /\ Pasted(seen, joined)[x] = scene[x]
                            \/ x \in drift' \/ x \in lost'
        BY DEF Reader, w
      <3>6. CASE x \in Shown(joined)
        <4>1. joined[Len(joined)].scene = scene
          BY <1>1, <3>1, <3>3
        <4>. QED
          BY <1>1, <3>3, <3>6, <4>1, PastedShows
      <3>7. CASE x \notin Shown(joined)
        <4>1. ~whole
          BY <1>1, <3>1, <3>4, <3>7 DEF whole, Whole
        <4>2. drift' = drift \cup Unseen(scene)
          BY <1>3, <4>1
        <4>3. x \notin d.region /\ x \notin Regions(rest)
          BY <3>3, <3>4, <3>7
        <4>4. CASE x \in drift \/ x \in Unseen(scene)
          BY <4>2, <4>4
        <4>5. CASE x \in told
          BY <1>3, <3>7, <4>5
        <4>6. CASE x \notin drift /\ x \notin Unseen(scene) /\ x \notin told
          <5>1. x \in DOMAIN seen /\ seen[x] = previous[x] /\ previous[x] = scene[x]
            BY <1>8, <2>1, <2>2, <4>3, <4>6 DEF Reader
          <5>. QED
            BY <1>1, <3>3, <3>7, <5>1, PastedShows
        <4>. QED
          BY <4>4, <4>5, <4>6
      <3>. QED
        BY <3>6, <3>7
    <2>5. Reader(scene, picture', pending', drift', lost') /\ PendingOK(pending', w)
      <3>1. CASE after
        BY <1>3, <1>7, <2>4, <3>1
      <3>2. CASE ~after
        <4>1. drift' = drift \cup Unseen(scene) /\ lost' = told
          BY <1>3, <3>2 DEF whole
        <4>. QED
          BY <1>3, <2>3, <3>2, <4>1
      <3>. QED
        BY <3>1, <3>2
    <2>6. shownAt' \in Nat /\ failures' \in Nat /\ (failures' = 0 => lastKeyframe' =< shownAt')
      BY <1>2, <1>3, <1>10, SampleCounts DEF PassiveInv, d
    <2>. QED
      BY <1>2, <1>10, <2>5, <2>6, SampleCounts DEF PassiveInv, w
  <1>. QED
    BY <1>9, <1>10

\* A flush that fails takes its changes with it, and those of the sample it fails in.
LEMMA PassiveFails ==
  ASSUME PassiveInv,
         FlushFails \/ \E scene \in Scenes : SampleFails(scene)
  PROVE  PassiveInv'
  <1>1. \A w : PendingOK(<<>>, w)
    BY EmptySeq DEF PendingOK
  <1>2. CASE FlushFails
    <2>1. Reader(previous, picture, <<>>, drift, lost \cup Regions(pending))
      BY DEF PassiveInv, Reader
    <2>. QED
      BY <1>1, <1>2, <2>1 DEF PassiveInv, FlushFails, governor
  <1>3. ASSUME NEW scene \in Scenes, SampleFails(scene)
        PROVE  PassiveInv'
    <2>1. GovernorSteps(scene) /\ failures' = failures + 1
          /\ pending' = <<>> /\ shownAt' = shownAt /\ picture' = picture
          /\ drift' = drift \cup Unseen(scene)
          /\ lost' = lost \cup Regions(pending) \cup Decided(scene).region
      BY <1>3 DEF SampleFails
    <2>2. /\ scene \in Seq(Nat) /\ DOMAIN scene = 1..Len(scene) /\ Len(scene) \in Nat
          /\ Sound(Decided(scene), previous, scene, forced \/ Due(sequence + 1, lastKeyframe))
      BY SampleDecides
    <2>3. Reader(scene, picture', <<>>, drift', lost')
      <3>1. CASE Decided(scene).disposition = "keyframe"
        <4>1. Decided(scene).region = 1..Len(scene)
          BY <2>2, <3>1 DEF Sound
        <4>. QED
          BY <2>1, <4>1 DEF Reader
      <3>2. CASE Decided(scene).disposition # "keyframe"
        <4>1. previous # <<>> /\ Len(previous) = Len(scene)
          BY <2>2, <3>2 DEF Sound
        <4>2. \A x \in 1..Len(scene) : \/ previous[x] = scene[x] \/ x \in Unseen(scene)
                                       \/ x \in Decided(scene).region
          BY <2>2, <4>1 DEF Unseen
        <4>. QED
          BY <2>1, <4>1, <4>2 DEF PassiveInv, Reader
      <3>. QED
        BY <3>1, <3>2
    <2>. QED
      BY <1>1, <2>1, <2>3, SampleCounts DEF PassiveInv
  <1>. QED
    BY <1>2, <1>3

LEMMA PassiveFlushes ==
  ASSUME PassiveInv, Flush
  PROVE  PassiveInv'
  <1>1. PendingOK(<<>>, Len(previous))
    BY EmptySeq DEF PendingOK
  <1>2. Reader(previous, Pasted(picture, pending), <<>>, drift, lost \ Shown(pending))
    BY ReaderPastes DEF PassiveInv, Flush
  <1>. QED
    BY <1>1, <1>2 DEF PassiveInv, Flush, governor

LEMMA PassiveNext ==
  ASSUME PassiveInv, [TimelineNext]_timelineVars
  PROVE  PassiveInv'
  <1>1. CASE \E scene \in Scenes : Sample(scene)
    BY <1>1, PassiveSample
  <1>2. CASE FlushFails \/ \E scene \in Scenes : SampleFails(scene)
    BY <1>2, PassiveFails
  <1>3. CASE Flush
    BY <1>3, PassiveFlushes
  <1>4. CASE Reset
    <2>1. PassiveInv' <=> /\ failures' \in Nat
                          /\ PendingOK(<<>>, 0) /\ Reader(<<>>, <<>>, <<>>, {}, {})
      BY <1>4, GovernorConstants, EmptySeq DEF Reset, PassiveInv
    <2>. QED
      BY <1>4, <2>1, EmptySeq DEF Reset, PassiveInv, PendingOK, Reader
  <1>5. CASE ForceKeyframe \/ Wait \/ FramePruned \/ UNCHANGED timelineVars
    BY <1>5 DEF PassiveInv, ForceKeyframe, Wait, FramePruned,
                timelineVars, governor, history
  <1>. QED
    BY <1>1, <1>2, <1>3, <1>4, <1>5 DEF TimelineNext

\* However long changes stay under the thresholds, a reader of the events is shown the
\* whole scene every KeyframeInterval samples, for any pictures, thresholds and bounds: a
\* keyframe is due by then, and no window or burst keeps it back.
THEOREM PassiveDriftBounded ==
  TimelineSpec => []DriftBounded
  <1>1. TimelineInit => PassiveInv
    BY PassiveInit
  <1>2. PassiveInv /\ [TimelineNext]_timelineVars => PassiveInv'
    BY PassiveNext
  <1>3. PassiveInv => DriftBounded
    BY GovernorConstants DEF PassiveInv, DriftBounded
  <1>. QED
    BY <1>1, <1>2, <1>3, PTL DEF TimelineSpec

\* A reader who pastes the events knows the scene as it was sampled last, but for what is
\* pending, for what the thresholds left out since the last whole frame and for the
\* blocks a failed flush took with it, until an event shows them again, for any pictures:
\* the rectangle an event shows covers the change of every sample in it.
THEOREM PassiveNothingLost ==
  TimelineSpec => []NothingLost
  <1>1. TimelineInit => PassiveInv
    BY PassiveInit
  <1>2. PassiveInv /\ [TimelineNext]_timelineVars => PassiveInv'
    BY PassiveNext
  <1>3. ASSUME PassiveInv
        PROVE  NothingLost
    <2>1. DOMAIN previous = 1..Len(previous) /\ Reader(previous, picture, pending, drift, lost)
      BY <1>3 DEF PassiveInv
    <2>. QED
      BY <2>1, Zenon DEF Reader, NothingLost
  <1>. QED
    BY <1>1, <1>2, <1>3, PTL DEF TimelineSpec

----------------------------------------------------------------------------
(* The budget.                                                             *)

BudgetInv ==
  /\ budget \in Budgets /\ calls \in Nat /\ tokens \in Nat
  /\ BudgetHeld

\* A step that leaves the provider's counters keeps the budget, unless it asks.
LEMMA CountersKept ==
  ASSUME BudgetInv, budget' = budget, calls' = calls, tokens' = tokens,
         stage' = "asking" => stage = "asking" \/ Affordable
  PROVE  BudgetInv'
  BY DEF BudgetInv, BudgetHeld, Affordable

LEMMA BudgetInit == Init => BudgetInv
  <1> SUFFICES ASSUME Init PROVE BudgetInv
    OBVIOUS
  <1>1. budget \in Budgets
    BY TrialConstants DEF Init
  <1>2. budget.calls \in Nat \ {0}
    BY <1>1, TrialConstants
  <1>. QED
    BY <1>1, <1>2 DEF Init, BudgetInv, BudgetHeld

LEMMA BudgetNext ==
  ASSUME BudgetInv, [Next]_vars
  PROVE  BudgetInv'
  <1>1. CASE Breaks \/ Begins \/ Elapses \/ FinishesArm \/ Finishes
    BY <1>1, CountersKept DEF Breaks, Begins, Elapses, FinishesArm, Finishes, fixed, provider
  <1>2. CASE Inferring
    BY <1>2, CountersKept DEF Inferring, fixed, provider
  <1>3. CASE TakesSample
    BY <1>3, CountersKept DEF TakesSample, fixed, provider
  <1>4. ASSUME NEW cost \in Costs, Answers(cost)
        PROVE  BudgetInv'
    <2>1. stage = "asking" /\ calls' = calls + 1 /\ budget' = budget
      BY <1>4 DEF Answers, fixed
    <2>2. stage' # "asking" /\ tokens' \in {tokens, tokens + cost}
      BY <1>4 DEF Answers
    <2>3. cost \in Nat /\ budget.calls \in Nat
      BY TrialConstants DEF BudgetInv
    <2>. QED
      BY <2>1, <2>2, <2>3 DEF BudgetInv, BudgetHeld
  <1>5. CASE UNCHANGED vars
    BY <1>5, CountersKept DEF vars, fixed, provider
  <1>. QED
    BY <1>1, <1>2, <1>3, <1>4, <1>5 DEF Next

\* Both arms together never ask over the budget, for any budget and any cost of a call:
\* the counters are the runner's and not the arm's, and they are read after the last
\* answer was counted.
THEOREM TrialsHoldTheBudget == Spec => []BudgetHeld
  <1>1. BudgetInv => BudgetHeld
    BY DEF BudgetInv
  <1>. QED
    BY <1>1, BudgetInit, BudgetNext, PTL DEF Spec

----------------------------------------------------------------------------
(* The answer of an inference.                                             *)

\* The lines that are still to be looked at, after the waiter's: those that are kept,
\* and those the server has yet to write.
Rest(q, t, n) ==
  [k \in 1 .. Len(q) + Len(t) - n |-> IF k =< Len(q) THEN q[k] ELSE t[n + k - Len(q)]]

Draftless(s) == \A k \in DOMAIN s : s[k] # "draft"

\* A turn that ends here has an answer first.
AnswerFirst(s) == \A k \in DOMAIN s : s[k] = "completed" => \E j \in 1 .. k - 1 : s[j] = "answer"

\* With message m in hand, line l under the hand, and lines s to come: every draft has an
\* answer after it when the turn is complete.
Stream(m, l, c, s) ==
  /\ Ordered(s)
  /\ l = "draft" => AnswerFirst(s)
  /\ m = "draft" /\ l # "answer" => AnswerFirst(s) /\ l # "completed"
  /\ l = "completed" => Draftless(s)
  /\ c => Draftless(s) /\ l # "draft" /\ m # "draft"

\* t is s without its line p.
Drops(s, p, t) ==
  \E n \in Nat : /\ DOMAIN s = 1 .. n + 1 /\ DOMAIN t = 1 .. n /\ p \in 1 .. n + 1
                 /\ \A k \in 1 .. n : t[k] = IF k < p THEN s[k] ELSE s[k + 1]

LEMMA OrderedDrops ==
  ASSUME NEW s, NEW t, NEW p, Drops(s, p, t), s[p] # "answer" \/ p = 1
  PROVE  /\ Ordered(s) => Ordered(t)
         /\ Draftless(s) => Draftless(t)
         /\ AnswerFirst(s) /\ s[p] # "answer" => AnswerFirst(t)
  <1>1. PICK n \in Nat : /\ DOMAIN s = 1 .. n + 1 /\ DOMAIN t = 1 .. n /\ p \in 1 .. n + 1
                         /\ \A k \in 1 .. n : t[k] = IF k < p THEN s[k] ELSE s[k + 1]
    BY DEF Drops
  <1> DEFINE Old(k) == IF k < p THEN k ELSE k + 1
  <1>2. \A k \in 1 .. n : Old(k) \in 1 .. n + 1 /\ t[k] = s[Old(k)]
    BY <1>1
  <1>3. \A j \in 1 .. n + 1 : j # p => \E k \in 1 .. n : Old(k) = j
    <2> TAKE j \in 1 .. n + 1
    <2> HAVE j # p
    <2>1. CASE j < p
      BY <2>1, <1>1
    <2>2. CASE j > p
      <3>1. j - 1 \in 1 .. n /\ Old(j - 1) = j
        BY <2>2, <1>1
      <3>. QED
        BY <3>1
    <2>. QED
      BY <2>1, <2>2, <1>1
  <1>4. \A i, k \in 1 .. n : (Old(i) < Old(k) <=> i < k)
    BY <1>1
  <1>5. Draftless(s) => Draftless(t)
    BY <1>1, <1>2 DEF Draftless
  <1>6. Ordered(s) => Ordered(t)
    <2> SUFFICES ASSUME Ordered(s), NEW i \in 1 .. n, NEW k \in 1 .. n,
                        t[i] = "draft", t[k] = "completed"
                 PROVE  \E j \in i + 1 .. k - 1 : t[j] = "answer"
      BY <1>1 DEF Ordered
    <2>1. PICK j \in Old(i) + 1 .. Old(k) - 1 : s[j] = "answer"
      BY <1>1, <1>2 DEF Ordered
    <2>2. j \in 1 .. n + 1 /\ j # p
      BY <1>1, <1>2, <2>1
    <2>3. PICK x \in 1 .. n : Old(x) = j
      BY <1>3, <2>2
    <2>4. i < x /\ x < k
      <3>1. Old(i) < Old(x) /\ Old(x) < Old(k)
        BY <1>2, <2>1, <2>3
      <3>. QED
        BY <3>1, <1>4
    <2>5. t[x] = "answer"
      BY <1>2, <2>1, <2>3
    <2>. QED
      BY <2>4, <2>5
  <1>7. AnswerFirst(s) /\ s[p] # "answer" => AnswerFirst(t)
    <2> SUFFICES ASSUME AnswerFirst(s), s[p] # "answer", NEW k \in 1 .. n, t[k] = "completed"
                 PROVE  \E j \in 1 .. k - 1 : t[j] = "answer"
      BY <1>1 DEF AnswerFirst
    <2>1. PICK j \in 1 .. Old(k) - 1 : s[j] = "answer"
      BY <1>1, <1>2 DEF AnswerFirst
    <2>2. j \in 1 .. n + 1 /\ j # p
      BY <1>1, <1>2, <2>1
    <2>3. PICK x \in 1 .. n : Old(x) = j
      BY <1>3, <2>2
    <2>4. x < k
      <3>1. Old(x) < Old(k)
        BY <1>2, <2>1, <2>3
      <3>. QED
        BY <3>1, <1>4
    <2>5. t[x] = "answer"
      BY <1>2, <2>1, <2>3
    <2>. QED
      BY <2>4, <2>5
  <1>. QED
    BY <1>5, <1>6, <1>7

\* A reply is no line of the stream.
LEMMA StreamDrops ==
  ASSUME NEW m, NEW l, NEW c, NEW s, NEW t, NEW p, Stream(m, l, c, s), Drops(s, p, t), s[p] = "reply"
  PROVE  Stream(m, l, c, t)
  BY OrderedDrops DEF Stream

\* The next line comes under the hand.
LEMMA StreamMoves ==
  ASSUME NEW m, NEW l \in {"none", "waiting"}, NEW c, NEW s, NEW t, Stream(m, l, c, s), Drops(s, 1, t)
  PROVE  Stream(m, s[1], c, t)
  <1>1. PICK n \in Nat : /\ DOMAIN s = 1 .. n + 1 /\ DOMAIN t = 1 .. n
                         /\ \A k \in 1 .. n : t[k] = s[k + 1]
    BY DEF Drops
  <1>2. Ordered(t) /\ (Draftless(s) => Draftless(t)) /\ (AnswerFirst(s) /\ s[1] # "answer" => AnswerFirst(t))
    BY OrderedDrops DEF Stream
  <1>3. 1 \in DOMAIN s
    BY <1>1
  <1>4. s[1] = "draft" => AnswerFirst(t)
    <2> SUFFICES ASSUME s[1] = "draft", NEW k \in 1 .. n, t[k] = "completed"
                 PROVE  \E j \in 1 .. k - 1 : t[j] = "answer"
      BY <1>1 DEF AnswerFirst
    <2>1. k + 1 \in DOMAIN s /\ s[k + 1] = "completed"
      BY <1>1
    <2>2. PICK j \in 2 .. k : s[j] = "answer"
      BY <1>3, <2>1 DEF Stream, Ordered
    <2>3. j - 1 \in 1 .. k - 1 /\ t[j - 1] = s[j]
      BY <1>1, <2>2
    <2>. QED
      BY <2>2, <2>3
  <1>5. s[1] = "completed" => Draftless(t)
    <2> SUFFICES ASSUME s[1] = "completed", NEW k \in 1 .. n, t[k] = "draft"
                 PROVE  FALSE
      BY <1>1 DEF Draftless
    <2>1. k + 1 \in DOMAIN s /\ s[k + 1] = "draft"
      BY <1>1
    <2>2. \E j \in k + 2 .. 0 : s[j] = "answer"
      BY <1>3, <2>1 DEF Stream, Ordered
    <2>. QED
      BY <2>2
  <1>6. AnswerFirst(s) => s[1] # "completed"
    BY <1>3 DEF AnswerFirst
  <1>7. Draftless(s) => s[1] # "draft"
    BY <1>3 DEF Draftless
  <1>. QED
    BY <1>2, <1>4, <1>5, <1>6, <1>7 DEF Stream

\* The line under the hand is taken.
LEMMA StreamTakes ==
  ASSUME NEW m, NEW l, NEW c \in BOOLEAN, NEW s, Stream(m, l, c, s), l # "summarised",
         NEW n \in {"none", "waiting"}
  PROVE  LET after == IF l \in {"draft", "answer"} THEN l ELSE m
         IN Stream(after, n, c \/ l = "completed", s)
  BY DEF Stream

\* How the lines to come change: kept, kept and taken at once, taken from those kept, or
\* found to be the reply.
LEMMA RestChanges ==
  ASSUME NEW q \in Seq(Lines), NEW t \in Seq(Lines), NEW n \in 0 .. Len(t)
  PROVE  /\ n < Len(t) => /\ Rest(Append(q, t[n + 1]), t, n + 1) = Rest(q, t, n)
                          /\ Drops(Rest(q, t, n), Len(q) + 1, Rest(q, t, n + 1))
                          /\ Rest(q, t, n)[Len(q) + 1] = t[n + 1]
         /\ q # <<>> => /\ Drops(Rest(q, t, n), 1, Rest(Tail(q), t, n))
                        /\ Rest(q, t, n)[1] = Head(q)
  <1>1. Len(q) \in Nat /\ Len(t) \in Nat /\ Len(q) + Len(t) - n \in Nat
    OBVIOUS
  <1>2. ASSUME n < Len(t)
        PROVE  /\ Rest(Append(q, t[n + 1]), t, n + 1) = Rest(q, t, n)
               /\ Drops(Rest(q, t, n), Len(q) + 1, Rest(q, t, n + 1))
               /\ Rest(q, t, n)[Len(q) + 1] = t[n + 1]
    <2> DEFINE longer == Append(q, t[n + 1])
               N == Len(q) + Len(t) - n - 1
    <2>1. /\ Len(longer) = Len(q) + 1 /\ longer[Len(q) + 1] = t[n + 1]
          /\ \A k \in 1 .. Len(q) : longer[k] = q[k]
      BY <1>2
    <2>2. N \in Nat /\ Len(q) + Len(t) - n = N + 1 /\ Len(q) + Len(t) - (n + 1) = N
      BY <1>1, <1>2
    <2> HIDE DEF longer, N
    <2>3. Rest(longer, t, n + 1) = Rest(q, t, n)
      <3>1. \A k \in 1 .. N + 1 :
              (IF k =< Len(longer) THEN longer[k] ELSE t[(n + 1) + k - Len(longer)])
                = (IF k =< Len(q) THEN q[k] ELSE t[n + k - Len(q)])
        <4> TAKE k \in 1 .. N + 1
        <4>1. CASE k =< Len(q)
          BY <4>1, <2>1, <1>1
        <4>2. CASE k = Len(q) + 1
          <5>1. n + k - Len(q) = n + 1 /\ ~(k =< Len(q)) /\ k =< Len(longer)
            BY <4>2, <2>1, <1>1
          <5>. QED
            BY <5>1, <4>2, <2>1
        <4>3. CASE k > Len(q) + 1
          <5>1. (n + 1) + k - Len(longer) = n + k - Len(q) /\ ~(k =< Len(q)) /\ ~(k =< Len(longer))
            BY <4>3, <2>1, <1>1
          <5>. QED
            BY <5>1
        <4>. QED
          BY <4>1, <4>2, <4>3, <1>1
      <3>2. Len(longer) + Len(t) - (n + 1) = N + 1
        BY <2>1, <2>2, <1>1
      <3>. QED
        BY <3>1, <3>2, <2>2 DEF Rest
    <2>4. Drops(Rest(q, t, n), Len(q) + 1, Rest(q, t, n + 1))
      <3>1. DOMAIN Rest(q, t, n) = 1 .. N + 1 /\ DOMAIN Rest(q, t, n + 1) = 1 .. N
        BY <2>2 DEF Rest
      <3>2. Len(q) + 1 \in 1 .. N + 1
        BY <2>2, <1>1, <1>2
      <3>3. ASSUME NEW k \in 1 .. N
            PROVE  Rest(q, t, n + 1)[k] = IF k < Len(q) + 1 THEN Rest(q, t, n)[k] ELSE Rest(q, t, n)[k + 1]
        BY <2>2, <1>1, <1>2 DEF Rest
      <3>. QED
        BY <3>1, <3>2, <3>3, <2>2 DEF Drops
    <2>5. Rest(q, t, n)[Len(q) + 1] = t[n + 1]
      <3>1. /\ Len(q) + 1 \in 1 .. Len(q) + Len(t) - n /\ ~(Len(q) + 1 =< Len(q))
            /\ n + (Len(q) + 1) - Len(q) = n + 1
        BY <2>2, <1>1, <1>2
      <3>. QED
        BY <3>1, Zenon DEF Rest
    <2>. QED
      BY <2>3, <2>4, <2>5 DEF longer
  <1>3. ASSUME q # <<>>
        PROVE  /\ Drops(Rest(q, t, n), 1, Rest(Tail(q), t, n))
               /\ Rest(q, t, n)[1] = Head(q)
    <2> DEFINE tail == Tail(q)
               N == Len(q) + Len(t) - n - 1
    <2>1. /\ Len(q) > 0 /\ Head(q) = q[1] /\ Len(tail) = Len(q) - 1
          /\ \A k \in 1 .. Len(q) - 1 : tail[k] = q[k + 1]
      BY <1>3, EmptySeq, HeadTailProperties
    <2>2. N \in Nat /\ Len(q) + Len(t) - n = N + 1
      BY <1>1, <2>1
    <2> HIDE DEF tail, N
    <2>3. DOMAIN Rest(q, t, n) = 1 .. N + 1 /\ DOMAIN Rest(tail, t, n) = 1 .. N
      <3>1. Len(tail) + Len(t) - n = N
        BY <2>1, <2>2, <1>1
      <3>. QED
        BY <2>2, <3>1 DEF Rest
    <2>4. ASSUME NEW k \in 1 .. N
          PROVE  Rest(tail, t, n)[k] = Rest(q, t, n)[k + 1]
      BY <2>1, <2>2, <1>1 DEF Rest
    <2>5. Rest(q, t, n)[1] = Head(q)
      BY <2>1, <2>2, <1>1 DEF Rest
    <2>6. Drops(Rest(q, t, n), 1, Rest(tail, t, n))
      BY <2>2, <2>3, <2>4 DEF Drops
    <2>. QED
      BY <2>5, <2>6 DEF tail
  <1>. QED
    BY <1>2, <1>3

Written == {turn[i] : i \in 1 .. sent}

\* Of an inference: what is kept was written, who waits has nothing kept, and unless the
\* turn listed its messages the stream is in order until the end, and then the message is
\* no draft if the turn was complete.
InferenceInv ==
  /\ turn \in Seq(Lines) /\ Ordered(turn) /\ sent \in 0 .. Len(turn)
  /\ queue \in Seq(Lines) /\ \A k \in 1 .. Len(queue) : queue[k] \in Written
  /\ waiter \in {"none", "waiting"} \cup Written
  /\ waiter = "waiting" => queue = <<>>
  /\ completed \in BOOLEAN
  /\ step \in {"idle"} \cup Asking => waiter = "none" /\ said = "none" /\ completed = FALSE
  /\ step = "idle" => queue = <<>> /\ sent = 0
  /\ \/ "summarised" \in Written
     \/ /\ said \in {"none", "draft", "answer"}
        /\ completed => said # "draft"
        /\ step = "answered" => said # "none"
        /\ step \notin {"answered", "failed"} => Stream(said, waiter, completed, Rest(queue, turn, sent))

LEMMA Steps ==
  /\ Asking = {"initialize", "model/list", "thread/start", "turn/start"}
  /\ \A i \in 1 .. Len(Requests) : Requests[i] \in Asking
  /\ Len(Requests) = 4 /\ Requests[1] = "initialize"
  <1>1. Len(Requests) = 4 /\ DOMAIN Requests = 1 .. 4
    BY DEF Requests
  <1>2. /\ Requests[1] = "initialize" /\ Requests[2] = "model/list"
        /\ Requests[3] = "thread/start" /\ Requests[4] = "turn/start"
    BY DEF Requests
  <1>. QED
    BY <1>1, <1>2 DEF Asking

LEMMA NothingHeard ==
  ASSUME NEW t \in Seq(Lines), Ordered(t)
  PROVE  Stream("none", "none", FALSE, Rest(<<>>, t, 0))
  <1>1. Len(<<>>) = 0 /\ Len(t) \in Nat /\ DOMAIN t = 1 .. Len(t)
    BY EmptySeq
  <1>2. DOMAIN Rest(<<>>, t, 0) = 1 .. Len(t) /\ \A k \in 1 .. Len(t) : Rest(<<>>, t, 0)[k] = t[k]
    BY <1>1 DEF Rest
  <1>3. Ordered(Rest(<<>>, t, 0))
    BY <1>1, <1>2 DEF Ordered
  <1>. QED
    BY <1>3 DEF Stream

\* An inference that has not begun.
Unheard ==
  /\ step = "idle" /\ turn = <<>> /\ sent = 0
  /\ queue = <<>> /\ waiter = "none" /\ said = "none" /\ completed = FALSE

LEMMA UnheardInv ==
  Unheard => InferenceInv
  <1> SUFFICES ASSUME Unheard PROVE InferenceInv
    OBVIOUS
  <1>1. <<>> \in Seq(Lines) /\ Ordered(<<>>) /\ Len(<<>>) = 0 /\ 0 \in 0 .. 0
    BY EmptySeq DEF Ordered
  <1>2. Stream("none", "none", FALSE, Rest(<<>>, <<>>, 0))
    BY <1>1, NothingHeard
  <1>. QED
    BY <1>1, <1>2, Steps, Zenon DEF Unheard, InferenceInv, Written

\* What InferenceInv says of the lines alone.
LinesOK(w, q) ==
  /\ q \in Seq(Lines) /\ \A k \in 1 .. Len(q) : q[k] \in Written
  /\ w \in {"none", "waiting"} \cup Written
  /\ w = "waiting" => q = <<>>

LEMMA NextHeard ==
  ASSUME InferenceInv, NextNotification
  PROVE  /\ LinesOK(waiter', queue')
         /\ \A m, c : Stream(m, "none", c, Rest(queue, turn, sent)) =>
                      Stream(m, waiter', c, Rest(queue', turn, sent))
  <1>1. queue \in Seq(Lines) /\ turn \in Seq(Lines) /\ sent \in 0 .. Len(turn)
        /\ \A k \in 1 .. Len(queue) : queue[k] \in Written
    BY DEF InferenceInv
  <1>2. CASE queue = <<>>
    <2>1. waiter' = "waiting" /\ queue' = queue
      BY <1>2 DEF NextNotification
    <2>2. LinesOK(waiter', queue')
      BY <1>1, <1>2, <2>1 DEF LinesOK
    <2>3. \A m, c : Stream(m, "none", c, Rest(queue, turn, sent)) =>
                   Stream(m, waiter', c, Rest(queue', turn, sent))
      BY <2>1 DEF Stream
    <2>. QED
      BY <2>2, <2>3
  <1>3. CASE queue # <<>>
    <2>1. waiter' = Head(queue) /\ queue' = Tail(queue)
      BY <1>3 DEF NextNotification
    <2>2. /\ Len(queue) > 0 /\ Head(queue) = queue[1] /\ Tail(queue) \in Seq(Lines)
          /\ Len(Tail(queue)) = Len(queue) - 1
          /\ \A k \in 1 .. Len(queue) - 1 : Tail(queue)[k] = queue[k + 1]
      BY <1>1, <1>3, EmptySeq, HeadTailProperties
    <2>3. Head(queue) \in Written /\ \A k \in 1 .. Len(Tail(queue)) : Tail(queue)[k] \in Written
      BY <1>1, <2>2
    <2>4. "waiting" \notin Written
      <3>1. \A i \in 1 .. sent : turn[i] \in Lines
        BY <1>1
      <3>2. "waiting" \notin Lines
        BY DEF Lines
      <3>. QED
        BY <3>1, <3>2 DEF Written
    <2>5. LinesOK(waiter', queue')
      <3>1. waiter' \in Written /\ waiter' # "waiting"
        BY <2>1, <2>3, <2>4
      <3>. QED
        BY <2>1, <2>2, <2>3, <3>1, Zenon DEF LinesOK
    <2>6. /\ Drops(Rest(queue, turn, sent), 1, Rest(Tail(queue), turn, sent))
          /\ Rest(queue, turn, sent)[1] = Head(queue)
      BY <1>1, <1>3, RestChanges
    <2>7. ASSUME NEW m, NEW c, Stream(m, "none", c, Rest(queue, turn, sent))
          PROVE  Stream(m, waiter', c, Rest(queue', turn, sent))
      <3>1. Stream(m, Head(queue), c, Rest(Tail(queue), turn, sent))
        <4> HIDE DEF Stream, Drops, Rest
        <4>1. Stream(m, Rest(queue, turn, sent)[1], c, Rest(Tail(queue), turn, sent))
          BY <2>6, <2>7, StreamMoves
        <4>. QED
          BY <4>1, <2>6
      <3>. QED
        BY <2>1, <3>1
    <2>. QED
      BY <2>5, <2>7
  <1>. QED
    BY <1>2, <1>3

LEMMA InfersStep ==
  ASSUME InferenceInv, Infers
  PROVE  InferenceInv'
  <1>1. /\ step' = "initialize" /\ turn' \in Turns /\ sent' = 0 /\ queue' = <<>> /\ waiter' = "none"
        /\ said' = "none" /\ completed' = FALSE
    BY Steps DEF Infers, InferenceInv, heard
  <1>2. turn' \in Seq(Lines) /\ Ordered(turn')
    BY <1>1, InferenceConstants
  <1>3. Stream("none", "none", FALSE, Rest(<<>>, turn', 0))
    BY <1>2, NothingHeard
  <1>4. <<>> \in Seq(Lines) /\ Len(<<>>) = 0 /\ 0 \in 0 .. Len(turn') /\ step' \in Asking
    BY <1>1, <1>2, Steps, EmptySeq
  <1>5. 1 .. Len(<<>>) = {}
    BY <1>4
  <1>. QED
    BY <1>1, <1>2, <1>3, <1>4, <1>5, Zenon DEF InferenceInv

\* A step that hears nothing: to another request, or to the end.
LEMMA HeardKept ==
  ASSUME InferenceInv, UNCHANGED <<turn, sent, heard>>,
         \/ step' = step
         \/ step \in Asking /\ step' \in Asking
         \/ step' = "failed"
         \/ step = "listening" /\ step' = "answered" /\ said # "none"
  PROVE  InferenceInv'
  <1>1. /\ turn' = turn /\ sent' = sent /\ queue' = queue /\ waiter' = waiter
        /\ said' = said /\ completed' = completed /\ Written' = Written
    BY DEF heard, Written
  <1>2. CASE step' = step
    BY <1>1, <1>2 DEF InferenceInv
  <1>3. CASE step \in Asking /\ step' \in Asking
    <2>1. step # "idle" /\ step' # "idle" /\ step \notin {"answered", "failed"}
          /\ step' \notin {"answered", "failed"}
      BY <1>3, Steps
    <2>. QED
      BY <1>1, <1>3, <2>1, Zenon DEF InferenceInv
  <1>4. CASE step' = "failed"
    <2>1. step' \notin {"idle"} \cup Asking /\ step' # "answered"
      BY <1>4, Steps
    <2>. QED
      BY <1>1, <1>4, <2>1 DEF InferenceInv
  <1>5. CASE step = "listening" /\ step' = "answered" /\ said # "none"
    <2>1. step' \notin {"idle"} \cup Asking
      BY <1>5, Steps
    <2>. QED
      BY <1>1, <1>5, <2>1 DEF InferenceInv
  <1>. QED
    BY <1>2, <1>3, <1>4, <1>5

LEMMA RequestSteps ==
  ASSUME InferenceInv, DoesNotStart \/ Responds \/ SelectsNone \/ Refused \/ Expires \/ Exits
  PROVE  InferenceInv'
  <1>1. CASE DoesNotStart
    BY <1>1, HeardKept DEF DoesNotStart
  <1>2. CASE Responds
    <2>1. PICK i \in 1 .. Len(Requests) - 1 : step = Requests[i] /\ step' = Requests[i + 1]
      BY <1>2 DEF Responds
    <2>2. step \in Asking /\ step' \in Asking
      BY <2>1, Steps
    <2>. QED
      BY <1>2, <2>2, HeardKept DEF Responds
  <1>3. CASE SelectsNone \/ Refused
    BY <1>3, HeardKept DEF SelectsNone, Refused, Ends
  <1>4. CASE Expires
    BY <1>4, HeardKept DEF Expires, GivesUp, Ends
  <1>5. CASE Exits
    <2>1. UNCHANGED <<turn, sent, heard>>
      BY <1>5 DEF Exits
    <2>2. CASE step \in Asking /\ ~granted
      <3>1. step # "listening"
        BY <2>2, Steps
      <3>2. step' = "failed"
        BY <1>5, <2>2, <3>1 DEF Exits, Ends
      <3>. QED
        BY <2>1, <3>2, HeardKept
    <2>3. CASE step = "listening" /\ waiter = "waiting"
      <3>1. step \notin Asking
        BY <2>3, Steps
      <3>2. GivesUp
        BY <1>5, <2>3, <3>1 DEF Exits
      <3>. QED
        BY <2>1, <2>3, <3>2, HeardKept DEF GivesUp, Ends
    <2>4. CASE ~(step \in Asking /\ ~granted) /\ ~(step = "listening" /\ waiter = "waiting")
      <3>1. step' = step
        BY <1>5, <2>4, Zenon DEF Exits
      <3>. QED
        BY <2>1, <3>1 DEF heard, Written, InferenceInv
    <2>. QED
      BY <2>2, <2>3, <2>4
  <1>. QED
    BY <1>1, <1>2, <1>3, <1>4, <1>5

LEMMA ListensStep ==
  ASSUME InferenceInv, Listens
  PROVE  InferenceInv'
  <1>1. /\ step = "turn/start" /\ step' = "listening" /\ NextNotification
        /\ turn' = turn /\ sent' = sent /\ said' = said /\ completed' = completed
        /\ Written' = Written
    BY DEF Listens, Written
  <1>2. step \in Asking /\ step' \notin {"idle"} \cup Asking
    BY <1>1, Steps
  <1>3. waiter = "none" /\ said = "none" /\ completed = FALSE
    BY <1>2 DEF InferenceInv
  <1>4. LinesOK(waiter', queue')
    BY <1>1, NextHeard
  <1>5. Stream(said, "none", completed, Rest(queue, turn, sent)) =>
          Stream(said, waiter', completed, Rest(queue', turn, sent))
    BY <1>1, NextHeard
  <1>6. step \notin {"answered", "failed"} /\ step' \notin {"answered", "failed"}
    BY <1>1
  <1>7. \/ "summarised" \in Written
        \/ Stream(said, waiter', completed, Rest(queue', turn, sent))
    BY <1>3, <1>5, <1>6, Zenon DEF InferenceInv
  <1>8. said \in {"none", "draft", "answer"} /\ (completed => said # "draft") /\ completed \in BOOLEAN
    BY <1>3
  <1>9. /\ turn \in Seq(Lines) /\ Ordered(turn) /\ sent \in 0 .. Len(turn)
    BY DEF InferenceInv
  <1> DEFINE w == waiter'
             q == queue'
  <1>10. /\ q \in Seq(Lines) /\ \A k \in 1 .. Len(q) : q[k] \in Written
         /\ w \in {"none", "waiting"} \cup Written
         /\ w = "waiting" => q = <<>>
    BY <1>4 DEF LinesOK
  <1>. QED
    BY <1>1, <1>2, <1>6, <1>7, <1>8, <1>9, <1>10 DEF InferenceInv

LEMMA WritesStep ==
  ASSUME InferenceInv, Writes
  PROVE  InferenceInv'
  <1> DEFINE line == turn[sent + 1]
             old == Rest(queue, turn, sent)
             new == Rest(queue', turn, sent')
  <1>1. /\ step \in {"turn/start", "listening"} /\ sent < Len(turn) /\ sent' = sent + 1
        /\ step' = step /\ turn' = turn /\ said' = said /\ completed' = completed
    BY DEF Writes
  <1>2. /\ turn \in Seq(Lines) /\ Ordered(turn) /\ sent \in 0 .. Len(turn) /\ queue \in Seq(Lines)
        /\ waiter = "waiting" => queue = <<>>
    BY DEF InferenceInv
  <1>3. line \in Lines /\ sent' \in 0 .. Len(turn')
    BY <1>1, <1>2
  <1>4. Written' = Written \cup {line}
    BY <1>1, <1>2 DEF Written
  <1>5. "waiting" \notin Lines /\ "none" \notin Lines
    BY DEF Lines
  <1>6. /\ Rest(Append(queue, line), turn, sent + 1) = old
        /\ Drops(old, Len(queue) + 1, Rest(queue, turn, sent + 1))
        /\ old[Len(queue) + 1] = line
    BY <1>1, <1>2, RestChanges
  <1>7. \/ waiter' = waiter /\ queue' = queue /\ line = "reply"
        \/ waiter = "waiting" /\ waiter' = line /\ queue' = queue
        \/ waiter # "waiting" /\ waiter' = waiter /\ queue' = Append(queue, line)
    BY DEF Writes, Hears
  <1> HIDE DEF line
  <1>8. LinesOK(waiter, queue)'
    <2>1. CASE queue' = queue
      <3>1. waiter' \in {"none", "waiting"} \cup Written'
        BY <1>4, <1>7 DEF InferenceInv
      <3>2. waiter' = "waiting" => queue' = <<>>
        BY <1>2, <1>3, <1>5, <1>7, <2>1
      <3>. QED
        BY <1>4, <2>1, <3>1, <3>2 DEF InferenceInv, LinesOK
    <2>2. CASE queue' = Append(queue, line) /\ waiter # "waiting" /\ waiter' = waiter
      <3>1. /\ queue' \in Seq(Lines)
            /\ \A k \in 1 .. Len(queue') :
                 queue'[k] = line \/ (k \in 1 .. Len(queue) /\ queue'[k] = queue[k])
        <4> DEFINE t == Append(queue, line)
        <4>1. /\ t \in Seq(Lines) /\ Len(t) = Len(queue) + 1
              /\ t[Len(queue) + 1] = line /\ \A k \in 1 .. Len(queue) : t[k] = queue[k]
          BY <1>2, <1>3
        <4> HIDE DEF t
        <4>2. \A k \in 1 .. Len(t) : t[k] = line \/ (k \in 1 .. Len(queue) /\ t[k] = queue[k])
          BY <4>1, <1>2
        <4>. QED
          BY <4>1, <4>2, <2>2 DEF t
      <3>2. \A k \in 1 .. Len(queue') : queue'[k] \in Written'
        BY <1>4, <3>1 DEF InferenceInv
      <3>3. waiter' \in {"none", "waiting"} \cup Written'
        BY <1>4, <1>7 DEF InferenceInv
      <3>. QED
        BY <2>2, <3>1, <3>2, <3>3 DEF LinesOK
    <2>. QED
      BY <1>7, <2>1, <2>2
  <1>9. ASSUME Stream(said, waiter, completed, old)
        PROVE  Stream(said, waiter', completed, new)
    <2>1. CASE waiter' = waiter /\ queue' = queue /\ line = "reply"
      <3>1. Stream(said, waiter, completed, Rest(queue, turn, sent + 1))
        <4> HIDE DEF old
        <4>. QED
          BY <1>6, <1>9, <2>1, StreamDrops
      <3>. QED
        BY <1>1, <2>1, <3>1
    <2>2. CASE waiter = "waiting" /\ waiter' = line /\ queue' = queue
      <3>1. Len(queue) + 1 = 1
        BY <1>2, <2>2, EmptySeq
      <3>2. Drops(old, 1, Rest(queue, turn, sent + 1)) /\ old[1] = line
        BY <1>6, <3>1
      <3>3. Stream(said, line, completed, Rest(queue, turn, sent + 1))
        <4> HIDE DEF old
        <4>1. Stream(said, old[1], completed, Rest(queue, turn, sent + 1))
          BY <1>9, <2>2, <3>2, StreamMoves
        <4>. QED
          BY <3>2, <4>1
      <3>. QED
        BY <1>1, <2>2, <3>3
    <2>3. CASE waiter' = waiter /\ queue' = Append(queue, line)
      BY <1>1, <1>6, <1>9, <2>3
    <2>. QED
      BY <1>7, <2>1, <2>2, <2>3
  <1>10. step \in {"idle"} \cup Asking => waiter' = "none" /\ said = "none" /\ completed = FALSE
    <2> SUFFICES ASSUME step \in {"idle"} \cup Asking
                 PROVE  waiter' = "none" /\ said = "none" /\ completed = FALSE
      OBVIOUS
    <2>1. waiter = "none" /\ said = "none" /\ completed = FALSE
      BY DEF InferenceInv
    <2>. QED
      BY <1>7, <2>1
  <1>11. step # "idle" /\ step \notin {"answered", "failed"}
    BY <1>1
  <1>12. \/ "summarised" \in Written'
         \/ /\ said \in {"none", "draft", "answer"} /\ (completed => said # "draft")
            /\ Stream(said, waiter', completed, new)
    BY <1>4, <1>9, <1>11, Zenon DEF InferenceInv
  <1>13. completed \in BOOLEAN
    BY DEF InferenceInv
  <1> HIDE DEF new
  <1>. QED
    BY <1>1, <1>2, <1>3, <1>8, <1>10, <1>11, <1>12, <1>13 DEF InferenceInv, LinesOK, new

LEMMA TakesStep ==
  ASSUME InferenceInv, Takes
  PROVE  InferenceInv'
  <1> DEFINE rest == Rest(queue, turn, sent)
             after == IF waiter \in {"draft", "answer"} THEN waiter ELSE said
  <1>1. /\ step = "listening" /\ waiter \notin {"none", "waiting"}
        /\ turn' = turn /\ sent' = sent /\ Written' = Written
    BY DEF Takes, Written
  <1>2. waiter \in Written
    BY <1>1 DEF InferenceInv
  <1>3. completed' = (completed \/ waiter \in {"completed", "summarised"}) /\ completed' \in BOOLEAN
    BY DEF Takes
  <1>4. \/ step' = "failed" /\ UNCHANGED <<queue, waiter>>
        \/ step' = "answered" /\ said' # "none" /\ UNCHANGED <<queue, waiter>>
        \/ step' = step /\ NextNotification
    BY DEF Takes, Ends
  <1>5. waiter # "summarised" => said' = after
    BY DEF Takes
  <1>6. LinesOK(waiter', queue')
    <2>1. CASE UNCHANGED <<queue, waiter>>
      BY <2>1 DEF InferenceInv, LinesOK
    <2>2. CASE NextNotification
      BY <2>2, NextHeard
    <2>. QED
      BY <1>4, <2>1, <2>2
  <1>7. step # "idle" /\ step' \notin {"idle"} \cup Asking
    BY <1>1, <1>4, Steps
  <1>8. ASSUME "summarised" \notin Written
        PROVE  /\ said' \in {"none", "draft", "answer"}
               /\ completed' => said' # "draft"
               /\ step' = "answered" => said' # "none"
               /\ step' \notin {"answered", "failed"} =>
                    Stream(said', waiter', completed', Rest(queue', turn', sent'))
    <2>1. waiter # "summarised" /\ step \notin {"answered", "failed"}
      BY <1>1, <1>2, <1>8
    <2>2. /\ Stream(said, waiter, completed, rest) /\ completed \in BOOLEAN
          /\ said \in {"none", "draft", "answer"}
      BY <1>8, <2>1, Zenon DEF InferenceInv
    <2>3. said' = after /\ completed' = (completed \/ waiter = "completed")
      BY <1>3, <1>5, <2>1
    <2>4. Stream(said', "none", completed', rest)
      <3>1. Stream(after, "none", completed \/ waiter = "completed", rest)
        <4> HIDE DEF rest
        <4>. QED
          BY <2>1, <2>2, StreamTakes
      <3>. QED
        BY <2>3, <3>1
    <2>5. said' \in {"none", "draft", "answer"}
      BY <2>2, <2>3
    <2>6. completed' => said' # "draft"
      BY <2>4 DEF Stream
    <2>7. step' = "answered" => said' # "none"
      BY <1>1, <1>4
    <2>8. ASSUME step' \notin {"answered", "failed"}
          PROVE  Stream(said', waiter', completed', Rest(queue', turn', sent'))
      <3>1. NextNotification
        BY <1>4, <2>8
      <3>. QED
        BY <1>1, <2>4, <3>1, NextHeard
    <2>. QED
      BY <2>5, <2>6, <2>7, <2>8
  <1>9. /\ turn \in Seq(Lines) /\ Ordered(turn) /\ sent \in 0 .. Len(turn)
    BY DEF InferenceInv
  <1>. QED
    BY <1>1, <1>3, <1>6, <1>7, <1>8, <1>9 DEF InferenceInv, LinesOK

LEMMA InferenceStep ==
  ASSUME InferenceInv, InferenceNext
  PROVE  InferenceInv'
  BY InfersStep, RequestSteps, WritesStep, ListensStep, TakesStep DEF InferenceNext

\* A trial changes an inference by its steps, or puts it away.
LEMMA InferenceOfTrial ==
  ASSUME InferenceInv, [Next]_vars
  PROVE  InferenceInv'
  <1>1. CASE UNCHANGED inferenceVars
    BY <1>1 DEF inferenceVars, heard, InferenceInv, Written
  <1>2. CASE Inferring
    BY <1>2, InferenceStep DEF Inferring
  <1>3. CASE Returns
    <2>1. Unheard'
      BY <1>3 DEF Returns, Unheard
    <2>2. Unheard' => InferenceInv'
      BY UnheardInv, PTL
    <2>. QED
      BY <2>1, <2>2
  <1>4. UNCHANGED inferenceVars \/ Inferring \/ Returns
    BY DEF Next, vars, Answers, Breaks
  <1>. QED
    BY <1>1, <1>2, <1>3, <1>4

\* The answer of a completed turn is its last agent message, for any turns in which every
\* draft is followed by the answer before the turn's end (Ordered, assumed of the server)
\* and whose end does not list the messages (then the code takes the first of the list):
\* nothing that is kept while nobody waits, or taken at once, changes the order of what is
\* looked at.
THEOREM InferenceAnswerIsFinal == Spec => []AnswerIsFinal
  <1>1. Init => InferenceInv
    BY UnheardInv DEF Init, InferenceInit, Unheard
  <1>2. InferenceInv => AnswerIsFinal
    <2> SUFFICES ASSUME InferenceInv, step = "answered", completed,
                        \A i \in 1 .. sent : turn[i] # "summarised"
                 PROVE  said = "answer"
      BY DEF AnswerIsFinal
    <2>1. "summarised" \notin Written
      BY DEF Written
    <2>. QED
      BY <2>1 DEF InferenceInv
  <1>. QED
    BY <1>1, <1>2, InferenceOfTrial, PTL DEF Spec

----------------------------------------------------------------------------
(* Sums.                                                                   *)

\* A sum is no less than any of its terms.
LEMMA TotalBounds ==
  ASSUME NEW f, IsFiniteSet(DOMAIN f), \A x \in DOMAIN f : f[x] \in Nat
  PROVE  Total(f) \in Nat /\ \A x \in DOMAIN f : f[x] =< Total(f)
  <1> DEFINE Part(x) == {x} \X (1 .. f[x])
             Parts == {Part(x) : x \in DOMAIN f}
             g == [x \in DOMAIN f |-> Part(x)]
  <1>1. \A x \in DOMAIN f : IsFiniteSet(Part(x)) /\ Cardinality(Part(x)) = f[x]
    <2> TAKE x \in DOMAIN f
    <2>1. f[x] \in Nat
      OBVIOUS
    <2>2. IsFiniteSet({x}) /\ Cardinality({x}) = 1
      BY FS_Singleton
    <2>3. IsFiniteSet(1 .. f[x]) /\ Cardinality(1 .. f[x]) = f[x]
      BY <2>1, FS_Interval
    <2>4. IsFiniteSet(Part(x)) /\ Cardinality(Part(x)) = Cardinality({x}) * Cardinality(1 .. f[x])
      BY <2>2, <2>3, FS_Product
    <2>. QED
      BY <2>1, <2>2, <2>3, <2>4
  <1>2. IsFiniteSet(Parts)
    <2>1. g \in Surjection(DOMAIN f, Parts)
      BY DEF Surjection
    <2>. QED
      BY <2>1, FS_Surjection
  <1>3. IsFiniteSet(UNION Parts)
    <2>1. \A P \in Parts : IsFiniteSet(P)
      BY <1>1
    <2> HIDE DEF Parts
    <2>. QED
      BY <1>2, <2>1, FS_UNION
  <1>4. Total(f) = Cardinality(UNION Parts)
    BY Zenon DEF Total
  <1>5. ASSUME NEW x \in DOMAIN f
        PROVE  f[x] =< Total(f)
    <2>1. Part(x) \in SUBSET UNION Parts
      OBVIOUS
    <2> HIDE DEF Part, Parts
    <2>2. Cardinality(Part(x)) =< Cardinality(UNION Parts)
      BY <1>3, <2>1, FS_Subset
    <2>. QED
      BY <1>1, <1>4, <2>2
  <1>6. Total(f) \in Nat
    BY <1>3, <1>4, FS_CardinalityType
  <1>. QED
    BY <1>5, <1>6

----------------------------------------------------------------------------
(* A trial.                                                                *)

Policies == {"always_full", "static_crop", "governor_roi", "passive_timeline", "hybrid_transient"}

LEMMA Plans ==
  /\ Len(Plan) = 11 /\ DOMAIN Plan = 1 .. 11 /\ Acts = 2 .. 12 /\ TransientAt = 9
  /\ Len(ActionPlan) = 2
  /\ Benchmarked \in Seq(Policies) /\ Compared \in Seq(Policies)
  <1>1. Len(Plan) = 11 /\ DOMAIN Plan = 1 .. 11 /\ Len(ActionPlan) = 2
    BY DEF Plan, ActionPlan
  <1>2. Acts = 2 .. 12
    <2>1. \A i \in 2 .. 12 : i - 1 \in 1 .. 11 /\ i = (i - 1) + 1
      OBVIOUS
    <2>. QED
      BY <1>1, <2>1 DEF Acts
  <1>3. Plan[8] = "transient_on" /\ \A i \in 1 .. 11 : Plan[i] = "transient_on" => i = 8
    BY DEF Plan
  <1>4. TransientAt = 9
    <2>1. 8 \in 1 .. 11
      OBVIOUS
    <2>2. (CHOOSE i \in 1 .. 11 : Plan[i] = "transient_on") = 8
      BY <1>3, <2>1, Zenon
    <2>3. TransientAt = 1 + 8
      BY <1>1, <2>2, Zenon DEF TransientAt
    <2>. QED
      BY <2>3
  <1>5. Benchmarked \in Seq(Policies) /\ Compared \in Seq(Policies)
    BY DEF Benchmarked, Compared, Policies
  <1>. QED
    BY <1>1, <1>2, <1>4, <1>5

Width == Len(trace[1])
Seen(n) == IF n < 1 THEN <<>> ELSE trace[n]

TraceOK ==
  /\ trace \in Seq(Scenes) /\ Len(trace) > 1
  /\ \A i \in 1 .. Len(trace) : Len(trace[i]) = Width
  /\ kind = "benchmark" => trace \in Traces /\ Len(trace) = Len(Plan) + 3

DeliveryRecords ==
  [from : Nat, to : Nat, region : SUBSET (StaticCrop \cup Nat), scene : Seq(Nat)]

\* After n samples, some pending in p and the others delivered in ds or left out: nothing
\* leaves twice or out of order, and each names the sample it was taken from.
InOrder(ds, p, n) ==
  /\ ds \in Seq(DeliveryRecords)
  /\ \A k \in 1 .. Len(ds) :
       /\ 1 =< ds[k].from /\ ds[k].from =< ds[k].to /\ ds[k].to =< n
       /\ ds[k].scene = trace[ds[k].to] /\ IsFiniteSet(ds[k].region)
  /\ \A j, k \in 1 .. Len(ds) : j < k => ds[j].to < ds[k].from
  /\ PendingOK(p, Width)
  /\ \A j \in 1 .. Len(p) :
       1 =< p[j].index /\ p[j].index =< n /\ p[j].scene = trace[p[j].index]
  /\ \A j, k \in 1 .. Len(p) : j < k => p[j].index < p[k].index
  /\ \A k \in 1 .. Len(ds), j \in 1 .. Len(p) : ds[k].to < p[j].index

\* Every change of o among the n samples is delivered or pending.
Covered(ds, p, n, o) ==
  \A i \in o : i =< n =>
    \/ \E k \in 1 .. Len(ds) : /\ ds[k].from =< i /\ i =< ds[k].to
                               /\ Changed(i) \subseteq ds[k].region
    \/ \E j \in 1 .. Len(p) : p[j].index = i /\ Changed(i) \subseteq p[j].region

\* The transient of the plan is a change and its reversal.
Pulse ==
  /\ kind = "benchmark" /\ TransientAt \in Noticed
  /\ trace[TransientAt + 1] = trace[TransientAt - 1]

\* Once it is over, nothing is pending from before its end or was delivered across it.
Parted(ds, p, n) ==
  n > TransientAt =>
    /\ \A k \in 1 .. Len(ds) : ~(ds[k].from =< TransientAt /\ TransientAt < ds[k].to)
    /\ \A j \in 1 .. Len(p) : p[j].index > TransientAt

\* Of the arm that runs.
ArmInv ==
  /\ arms # <<>> /\ at \in 0 .. Len(trace)
  /\ InOrder(deliveries, pending, at)
  /\ Covered(deliveries, pending, at, Owed(Policy))
  /\ Policy = "hybrid_transient" /\ Pulse => Parted(deliveries, pending, at)
  /\ ~Coalesces => pending = <<>>
  /\ Coalesces => samples = at
  /\ Coalesces \/ Policy = "governor_roi" => previous = Seen(at)
  /\ preserving \in BOOLEAN /\ preserving = (Policy = "hybrid_transient")
  /\ preserving => signatures = <<Seen(at - 1), Seen(at)>>

CardRecords == [steps : SUBSET Nat, guards : Nat, seen : Nat, exact : Nat, transient : Nat, saved : Nat]

CardsInv ==
  /\ DOMAIN cards \subseteq Policies /\ \A p \in DOMAIN cards : cards[p] \in CardRecords
  /\ kind = "provider" => DOMAIN cards = {}
  /\ kind = "benchmark" /\ DOMAIN cards = {} => arms = Benchmarked
  /\ EveryChangeDelivered /\ TransientKept

TrialInv ==
  /\ kind \in {"benchmark", "provider"} /\ TraceOK /\ arms \in Seq(Policies)
  /\ stage \in {"sampling", "asking"} => ArmInv
  /\ CardsInv
  /\ recommended # "none" => stage = "done" /\ RecommendedIsPareto

LEMMA TraceScenes ==
  ASSUME TraceOK, NEW i \in 1 .. Len(trace)
  PROVE  /\ trace[i] \in Scenes /\ trace[i] \in Seq(Nat) /\ trace[i] # <<>>
         /\ Len(trace[i]) = Width /\ DOMAIN trace[i] = 1 .. Width /\ Width \in Nat \ {0}
  <1>1. trace[i] \in Scenes /\ Len(trace[i]) = Width
    BY DEF TraceOK
  <1>2. trace[i] \in Seq(Nat) /\ trace[i] # <<>>
    BY <1>1, TimelineConstants
  <1>3. Width \in Nat \ {0} /\ DOMAIN trace[i] = 1 .. Width
    BY <1>1, <1>2, EmptySeq
  <1>. QED
    BY <1>1, <1>2, <1>3

\* What the audit calls changed of a sample: all of the first one, and what the governor
\* finds in another.
LEMMA ChangedBlocks ==
  ASSUME TraceOK, NEW i \in 1 .. Len(trace)
  PROVE  /\ Changed(i) \subseteq 1 .. Width
         /\ i = 1 => Changed(i) = 1 .. Width
         /\ i > 1 => Changed(i) = Blocks(trace[i - 1], trace[i])
  <1>1. CASE i = 1
    BY <1>1, TraceScenes DEF Changed
  <1>2. CASE i > 1
    <2>1. i - 1 \in 1 .. Len(trace)
      BY <1>2 DEF TraceOK
    <2>2. Len(trace[i - 1]) = Len(trace[i]) /\ DOMAIN trace[i] = 1 .. Width
      BY <2>1, TraceScenes
    <2>. QED
      BY <1>2, <2>2 DEF Changed, Blocks
  <1>3. i = 1 \/ i > 1
    BY DEF TraceOK
  <1>. QED
    BY <1>1, <1>2, <1>3

\* What a policy owes are changes after the first sample.
LEMMA OwedAreSeen ==
  ASSUME NEW p
  PROVE  /\ Owed(p) \subseteq Perceptual /\ Owed(p) \subseteq 2 .. 12
         /\ p # "static_crop" => Noticed \subseteq Owed(p)
  <1>1. Noticed \subseteq Perceptual /\ Perceptual \subseteq 2 .. 12
    BY Plans DEF Noticed, Perceptual
  <1>. QED
    BY <1>1 DEF Owed

----------------------------------------------------------------------------
(* What an arm has delivered and what is pending.                          *)

LEMMA Appended ==
  ASSUME NEW S, NEW s \in Seq(S), NEW x \in S, NEW t, t = Append(s, x)
  PROVE  /\ t \in Seq(S) /\ Len(t) = Len(s) + 1 /\ Len(t) \in Nat /\ Len(s) \in Nat
         /\ t[Len(t)] = x /\ t # <<>>
         /\ \A k \in 1 .. Len(s) : k \in 1 .. Len(t) /\ t[k] = s[k]
         /\ \A k \in 1 .. Len(t) : (k \in 1 .. Len(s) /\ t[k] = s[k]) \/ (k = Len(t) /\ t[k] = x)
  <1>1. t \in Seq(S) /\ Len(t) = Len(s) + 1 /\ t[Len(s) + 1] = x
        /\ \A k \in 1 .. Len(s) : t[k] = s[k]
    OBVIOUS
  <1>2. t # <<>>
    BY <1>1, EmptySeq
  <1>. QED
    BY <1>1, <1>2

\* What is ordered, by its numbers.
LEMMA Indexes ==
  ASSUME NEW ds, NEW p, NEW n \in Nat, InOrder(ds, p, n)
  PROVE  /\ ds \in Seq(DeliveryRecords) /\ Len(ds) \in Nat
         /\ p \in Seq(PassiveItems) /\ Len(p) \in Nat /\ PendingOK(p, Width)
         /\ \A k \in 1 .. Len(ds) : ds[k].from \in Nat /\ ds[k].to \in Nat
                                   /\ ds[k].region \in SUBSET (StaticCrop \cup Nat)
         /\ \A k \in 1 .. Len(ds) : 1 =< ds[k].from /\ ds[k].from =< ds[k].to /\ ds[k].to =< n
         /\ \A j \in 1 .. Len(p) : p[j].index \in Nat /\ 1 =< p[j].index /\ p[j].index =< n
  <1>1. /\ ds \in Seq(DeliveryRecords) /\ p \in Seq(PassiveItems) /\ PendingOK(p, Width)
    BY DEF InOrder, PendingOK
  <1>2. Len(ds) \in Nat /\ Len(p) \in Nat
    BY <1>1
  <1>3. ASSUME NEW k \in 1 .. Len(ds)
        PROVE  ds[k].from \in Nat /\ ds[k].to \in Nat /\ ds[k].region \in SUBSET (StaticCrop \cup Nat)
    <2>1. ds[k] \in DeliveryRecords
      BY <1>1
    <2>. QED
      BY <2>1 DEF DeliveryRecords
  <1>4. ASSUME NEW j \in 1 .. Len(p)
        PROVE  p[j].index \in Nat
    <2>1. p[j] \in PassiveItems
      BY <1>1
    <2>. QED
      BY <2>1 DEF PassiveItems
  <1>5. /\ \A k \in 1 .. Len(ds) : 1 =< ds[k].from /\ ds[k].from =< ds[k].to /\ ds[k].to =< n
        /\ \A j \in 1 .. Len(p) : 1 =< p[j].index /\ p[j].index =< n
    BY DEF InOrder
  <1>. QED
    BY <1>1, <1>2, <1>3, <1>4, <1>5

\* One more delivery, of samples up to n.
LEMMA DeliveryKeepsOrder ==
  ASSUME NEW ds, NEW p, NEW n \in Nat, InOrder(ds, p, n),
         NEW d \in DeliveryRecords, 1 =< d.from, d.from =< d.to, d.to =< n,
         d.scene = trace[d.to], IsFiniteSet(d.region),
         \A k \in 1 .. Len(ds) : ds[k].to < d.from
  PROVE  InOrder(Append(ds, d), <<>>, n)
  <1> DEFINE t == Append(ds, d)
  <1>0. ds \in Seq(DeliveryRecords)
    BY DEF InOrder
  <1>1. /\ t \in Seq(DeliveryRecords) /\ Len(t) = Len(ds) + 1 /\ Len(t) \in Nat
        /\ \A k \in 1 .. Len(t) : (k \in 1 .. Len(ds) /\ t[k] = ds[k]) \/ (k = Len(t) /\ t[k] = d)
    BY <1>0, Appended
  <1> HIDE DEF t
  <1>2. \A k \in 1 .. Len(t) :
          /\ 1 =< t[k].from /\ t[k].from =< t[k].to /\ t[k].to =< n
          /\ t[k].scene = trace[t[k].to] /\ IsFiniteSet(t[k].region)
    BY <1>1 DEF InOrder
  <1>3. ASSUME NEW j \in 1 .. Len(t), NEW k \in 1 .. Len(t), j < k
        PROVE  t[j].to < t[k].from
    <2>1. j \in 1 .. Len(ds) /\ t[j] = ds[j]
      BY <1>1, <1>3
    <2>. QED
      BY <1>1, <1>3, <2>1 DEF InOrder
  <1>4. PendingOK(<<>>, Width) /\ Len(<<>>) = 0
    BY EmptySeq DEF PendingOK
  <1>. QED
    BY <1>1, <1>2, <1>3, <1>4 DEF InOrder, t

LEMMA EventDelivers ==
  ASSUME TraceOK, NEW ds, NEW p, NEW n \in Nat, n =< Len(trace), InOrder(ds, p, n), p # <<>>
  PROVE  LET e == Event(p)
         IN /\ e \in DeliveryRecords /\ e.from = p[1].index /\ e.to = p[Len(p)].index
            /\ 1 =< e.from /\ e.from =< e.to /\ e.to =< n
            /\ e.scene = trace[e.to] /\ e.region = Shown(p) /\ IsFiniteSet(e.region)
            /\ Regions(p) \subseteq e.region
            /\ \A k \in 1 .. Len(ds) : ds[k].to < e.from
  <1> DEFINE e == Event(p)
  <1>1. PendingOK(p, Width) /\ p \in Seq(PassiveItems)
    BY DEF InOrder, PendingOK
  <1>2. 1 \in 1 .. Len(p) /\ Len(p) \in 1 .. Len(p)
    BY <1>1, EmptySeq
  <1>3. Width \in Nat
    <2>1. 1 \in 1 .. Len(trace)
      BY DEF TraceOK
    <2>. QED
      BY <2>1, TraceScenes
  <1>4. /\ Regions(p) \subseteq Shown(p) /\ Shown(p) \subseteq 1 .. Width
        /\ Latest(p) = p[Len(p)]
    BY <1>1, <1>3, ShownCovers
  <1>5. /\ p[1] \in PassiveItems /\ p[Len(p)] \in PassiveItems
        /\ p[1].index \in Nat /\ p[Len(p)].index \in Nat /\ p[Len(p)].scene \in Seq(Nat)
    <2>1. p[1] \in PassiveItems /\ p[Len(p)] \in PassiveItems
      BY <1>1, <1>2
    <2>. QED
      BY <2>1 DEF PassiveItems
  <1>6. /\ e.from = p[1].index /\ e.to = p[Len(p)].index /\ e.region = Shown(p)
        /\ e.scene = p[Len(p)].scene
    BY <1>4 DEF Event, Delivery, Raster
  <1>7. e \in DeliveryRecords
    <2>1. Shown(p) \in SUBSET (StaticCrop \cup Nat)
      BY <1>3, <1>4
    <2>. QED
      BY <1>4, <1>5, <2>1 DEF Event, Delivery, Raster, DeliveryRecords
  <1>8. IsFiniteSet(Shown(p))
    <2>1. IsFiniteSet(1 .. Width)
      BY <1>3, FS_Interval
    <2>. QED
      BY <1>4, <2>1, FS_Subset
  <1> HIDE DEF e
  <1>9. 1 =< e.from /\ e.to =< n /\ e.scene = trace[e.to]
    BY <1>2, <1>6 DEF InOrder
  <1>10. e.from =< e.to
    BY <1>2, <1>5, <1>6 DEF InOrder
  <1>11. \A k \in 1 .. Len(ds) : ds[k].to < e.from
    BY <1>2, <1>6 DEF InOrder
  <1>. QED
    BY <1>4, <1>6, <1>7, <1>8, <1>9, <1>10, <1>11 DEF e

\* What was covered stays so when more is delivered.
LEMMA CoverageGrows ==
  ASSUME NEW ds \in Seq(DeliveryRecords), NEW p, NEW n \in Nat, NEW d \in DeliveryRecords, NEW i,
         \E k \in 1 .. Len(ds) : /\ ds[k].from =< i /\ i =< ds[k].to
                                /\ Changed(i) \subseteq ds[k].region
  PROVE  \E k \in 1 .. Len(Append(ds, d)) :
            /\ Append(ds, d)[k].from =< i /\ i =< Append(ds, d)[k].to
            /\ Changed(i) \subseteq Append(ds, d)[k].region
  <1> DEFINE t == Append(ds, d)
  <1>1. \A k \in 1 .. Len(ds) : k \in 1 .. Len(t) /\ t[k] = ds[k]
    BY Appended
  <1> HIDE DEF t
  <1>2. \E k \in 1 .. Len(t) : /\ t[k].from =< i /\ i =< t[k].to
                               /\ Changed(i) \subseteq t[k].region
    BY <1>1
  <1>. QED
    BY <1>2 DEF t

\* The event of what is pending delivers it, in order and all of it, and not across a
\* pulse.
LEMMA EventFlushes ==
  ASSUME TraceOK, NEW ds, NEW p, NEW n \in Nat, n =< Len(trace), InOrder(ds, p, n), p # <<>>
  PROVE  /\ InOrder(Append(ds, Event(p)), <<>>, n)
         /\ \A o : Covered(ds, p, n, o) => Covered(Append(ds, Event(p)), <<>>, n, o)
         /\ Parted(ds, p, n) => Parted(Append(ds, Event(p)), <<>>, n)
  <1> DEFINE e == Event(p)
             t == Append(ds, e)
  <1>1. /\ e \in DeliveryRecords /\ e.from = p[1].index /\ e.to = p[Len(p)].index
        /\ 1 =< e.from /\ e.from =< e.to /\ e.to =< n
        /\ e.scene = trace[e.to] /\ IsFiniteSet(e.region) /\ Regions(p) \subseteq e.region
        /\ \A k \in 1 .. Len(ds) : ds[k].to < e.from
    BY EventDelivers
  <1>2. ds \in Seq(DeliveryRecords) /\ p \in Seq(PassiveItems)
    BY DEF InOrder, PendingOK
  <1> HIDE DEF e
  <1>3. InOrder(t, <<>>, n)
    BY <1>1, DeliveryKeepsOrder
  <1>4. /\ t \in Seq(DeliveryRecords) /\ Len(t) \in Nat /\ t[Len(t)] = e /\ Len(t) = Len(ds) + 1
        /\ \A k \in 1 .. Len(t) : (k \in 1 .. Len(ds) /\ t[k] = ds[k]) \/ (k = Len(t) /\ t[k] = e)
        /\ Len(ds) \in Nat
    BY <1>1, <1>2, Appended
  <1>5. ASSUME NEW o, Covered(ds, p, n, o)
        PROVE  Covered(t, <<>>, n, o)
    <2> SUFFICES ASSUME NEW i \in o, i =< n
                 PROVE  \E k \in 1 .. Len(t) : /\ t[k].from =< i /\ i =< t[k].to
                                              /\ Changed(i) \subseteq t[k].region
      BY DEF Covered
    <2>1. CASE \E k \in 1 .. Len(ds) : /\ ds[k].from =< i /\ i =< ds[k].to
                                      /\ Changed(i) \subseteq ds[k].region
      BY <1>1, <1>2, <2>1, CoverageGrows
    <2>2. CASE \E j \in 1 .. Len(p) : p[j].index = i /\ Changed(i) \subseteq p[j].region
      <3>1. PICK j \in 1 .. Len(p) : p[j].index = i /\ Changed(i) \subseteq p[j].region
        BY <2>2
      <3>2. p[j].region \subseteq Regions(p)
        BY <1>2 DEF Regions
      <3>3. Len(p) \in Nat /\ 1 =< j /\ j =< Len(p)
        BY <1>2
      <3>4. e.from =< i /\ i =< e.to
        <4>1. 1 \in 1 .. Len(p) /\ Len(p) \in 1 .. Len(p)
          BY <3>3
        <4>2. /\ p[1].index \in Nat /\ p[j].index \in Nat /\ p[Len(p)].index \in Nat
          BY <4>1, Indexes
        <4>3. j = 1 \/ p[1].index < p[j].index
          BY <3>3, <4>1 DEF InOrder
        <4>4. j = Len(p) \/ p[j].index < p[Len(p)].index
          BY <3>3, <4>1 DEF InOrder
        <4>. QED
          BY <1>1, <3>1, <4>2, <4>3, <4>4
      <3>5. Len(t) \in 1 .. Len(t)
        BY <1>4
      <3> HIDE DEF t
      <3>. QED
        BY <1>1, <1>4, <3>1, <3>2, <3>4, <3>5
    <2>. QED
      BY <1>5, <2>1, <2>2 DEF Covered
  <1>6. ASSUME Parted(ds, p, n), n > TransientAt
        PROVE  \A k \in 1 .. Len(t) : ~(t[k].from =< TransientAt /\ TransientAt < t[k].to)
    <2> TAKE k \in 1 .. Len(t)
    <2>1. CASE k \in 1 .. Len(ds) /\ t[k] = ds[k]
      BY <1>6, <2>1 DEF Parted
    <2>2. CASE t[k] = e
      <3>1. 1 \in 1 .. Len(p)
        BY <1>2, EmptySeq
      <3>2. p[1].index > TransientAt
        BY <1>6, <3>1 DEF Parted
      <3>3. e.from > TransientAt /\ e.from \in Nat /\ TransientAt = 9
        BY <1>1, <3>2, Plans DEF DeliveryRecords
      <3>. QED
        BY <2>2, <3>3
    <2>. QED
      BY <1>4, <2>1, <2>2
  <1>7. Parted(ds, p, n) => Parted(t, <<>>, n)
    <2>1. Len(<<>>) = 0
      BY EmptySeq
    <2> HIDE DEF t
    <2>. QED
      BY <1>6, <2>1 DEF Parted
  <1>. QED
    BY <1>3, <1>5, <1>7 DEF e, t

\* Sample n + 1 becomes pending; the pulse's end finds nothing pending.
LEMMA SampleJoins ==
  ASSUME TraceOK, NEW ds, NEW p, NEW n \in Nat, n + 1 =< Len(trace), InOrder(ds, p, n),
         NEW i \in PassiveItems, i.index = n + 1, i.scene = trace[n + 1],
         i.region # {}, i.region \subseteq 1 .. Width, NEW o \in SUBSET Nat
  PROVE  /\ InOrder(ds, Append(p, i), n + 1)
         /\ Covered(ds, p, n, o) /\ Changed(n + 1) \subseteq i.region =>
              Covered(ds, Append(p, i), n + 1, o)
         /\ Parted(ds, p, n) /\ (n = TransientAt => p = <<>>) => Parted(ds, Append(p, i), n + 1)
  <1> DEFINE q == Append(p, i)
  <1>1. n + 1 \in 1 .. Len(trace) /\ Len(trace) \in Nat
    BY DEF TraceOK
  <1>2. Width \in Nat /\ Len(i.scene) = Width
    BY <1>1, TraceScenes
  <1>3. p \in Seq(PassiveItems) /\ PendingOK(p, Width) /\ ds \in Seq(DeliveryRecords)
    BY DEF InOrder, PendingOK
  <1>4. PendingOK(q, Width)
    BY <1>2, <1>3, PendingJoined
  <1>5. /\ q \in Seq(PassiveItems) /\ Len(q) = Len(p) + 1 /\ Len(q) \in Nat /\ Len(p) \in Nat
        /\ q[Len(q)] = i
        /\ \A k \in 1 .. Len(p) : k \in 1 .. Len(q) /\ q[k] = p[k]
        /\ \A k \in 1 .. Len(q) : (k \in 1 .. Len(p) /\ q[k] = p[k]) \/ (k = Len(q) /\ q[k] = i)
    BY <1>3, Appended
  <1> HIDE DEF q
  <1>6. \A k \in 1 .. Len(ds) :
          /\ ds[k].from \in Nat /\ ds[k].to \in Nat
          /\ 1 =< ds[k].from /\ ds[k].from =< ds[k].to /\ ds[k].to =< n
          /\ ds[k].scene = trace[ds[k].to] /\ IsFiniteSet(ds[k].region)
    BY Indexes DEF InOrder
  <1>7. \A j \in 1 .. Len(p) : 1 =< p[j].index /\ p[j].index =< n /\ p[j].scene = trace[p[j].index]
                              /\ p[j].index \in Nat
    BY Indexes DEF InOrder
  <1>8. InOrder(ds, q, n + 1)
    <2>1. \A k \in 1 .. Len(ds) : ds[k].to =< n + 1
      BY <1>6
    <2>2. \A j \in 1 .. Len(q) : 1 =< q[j].index /\ q[j].index =< n + 1 /\ q[j].scene = trace[q[j].index]
      BY <1>5, <1>7
    <2>3. ASSUME NEW j \in 1 .. Len(q), NEW k \in 1 .. Len(q), j < k
          PROVE  q[j].index < q[k].index
      <3>1. j \in 1 .. Len(p) /\ q[j] = p[j]
        BY <1>5, <2>3
      <3>2. CASE k \in 1 .. Len(p) /\ q[k] = p[k]
        BY <2>3, <3>1, <3>2 DEF InOrder
      <3>3. CASE q[k] = i
        <4>1. p[j].index \in Nat /\ p[j].index =< n
          BY <1>7, <3>1
        <4>. QED
          BY <3>1, <3>3, <4>1
      <3>. QED
        BY <1>5, <3>2, <3>3
    <2>4. ASSUME NEW k \in 1 .. Len(ds), NEW j \in 1 .. Len(q)
          PROVE  ds[k].to < q[j].index
      <3>1. CASE j \in 1 .. Len(p) /\ q[j] = p[j]
        BY <3>1 DEF InOrder
      <3>2. CASE q[j] = i
        BY <1>6, <3>2
      <3>. QED
        BY <1>5, <3>1, <3>2
    <2>. QED
      BY <1>3, <1>4, <1>6, <2>1, <2>2, <2>3, <2>4 DEF InOrder
  <1>9. ASSUME Covered(ds, p, n, o), Changed(n + 1) \subseteq i.region
        PROVE  Covered(ds, q, n + 1, o)
    <2> SUFFICES ASSUME NEW x \in o, x =< n + 1
                 PROVE  \/ \E k \in 1 .. Len(ds) : /\ ds[k].from =< x /\ x =< ds[k].to
                                                   /\ Changed(x) \subseteq ds[k].region
                        \/ \E j \in 1 .. Len(q) : q[j].index = x /\ Changed(x) \subseteq q[j].region
      BY DEF Covered
    <2>1. CASE x = n + 1
      <3>1. Len(q) \in 1 .. Len(q)
        BY <1>5
      <3>. QED
        BY <1>5, <1>9, <2>1, <3>1
    <2>2. CASE x =< n
      <3>1. CASE \E k \in 1 .. Len(ds) : /\ ds[k].from =< x /\ x =< ds[k].to
                                        /\ Changed(x) \subseteq ds[k].region
        BY <3>1
      <3>2. CASE \E j \in 1 .. Len(p) : p[j].index = x /\ Changed(x) \subseteq p[j].region
        <4>1. PICK j \in 1 .. Len(p) : p[j].index = x /\ Changed(x) \subseteq p[j].region
          BY <3>2
        <4>2. j \in 1 .. Len(q) /\ q[j] = p[j]
          BY <1>5
        <4>. QED
          BY <4>1, <4>2
      <3>. QED
        BY <1>9, <2>2, <3>1, <3>2 DEF Covered
    <2>. QED
      BY <2>1, <2>2
  <1>10. ASSUME Parted(ds, p, n), n = TransientAt => p = <<>>
         PROVE  Parted(ds, q, n + 1)
    <2>1. TransientAt = 9
      BY Plans
    <2>2. CASE n = 9
      <3>1. Len(p) = 0
        BY <1>10, <2>1, <2>2, EmptySeq
      <3>2. \A k \in 1 .. Len(ds) : ds[k].to =< 9
        BY <1>6, <2>2
      <3>. QED
        BY <1>5, <1>6, <2>1, <2>2, <3>1, <3>2 DEF Parted
    <2>3. CASE n > 9
      <3>1. /\ \A k \in 1 .. Len(ds) : ~(ds[k].from =< 9 /\ 9 < ds[k].to)
            /\ \A j \in 1 .. Len(p) : p[j].index > 9
        BY <1>10, <2>1, <2>3 DEF Parted
      <3>2. \A j \in 1 .. Len(q) : q[j].index > 9
        BY <1>5, <2>3, <3>1
      <3>. QED
        BY <2>1, <3>1, <3>2 DEF Parted
    <2>4. CASE n < 9
      BY <2>1, <2>4 DEF Parted
    <2>. QED
      BY <2>2, <2>3, <2>4
  <1>. QED
    BY <1>8, <1>9, <1>10 DEF q

\* Sample n + 1 is left out.
LEMMA SampleSkips ==
  ASSUME TraceOK, NEW ds, NEW p, NEW n \in Nat, n + 1 =< Len(trace), InOrder(ds, p, n),
         NEW o \in SUBSET Nat
  PROVE  /\ InOrder(ds, p, n + 1)
         /\ Covered(ds, p, n, o) /\ n + 1 \notin o => Covered(ds, p, n + 1, o)
         /\ Parted(ds, p, n) /\ (n = TransientAt => p = <<>>) => Parted(ds, p, n + 1)
  <1>2. \A k \in 1 .. Len(ds) : ds[k].to \in Nat /\ ds[k].to =< n
    BY Indexes
  <1>3. \A j \in 1 .. Len(p) : p[j].index \in Nat /\ p[j].index =< n
    BY Indexes
  <1>4. /\ \A k \in 1 .. Len(ds) : ds[k].to =< n + 1
        /\ \A j \in 1 .. Len(p) : p[j].index =< n + 1
    BY <1>2, <1>3
  <1>5. InOrder(ds, p, n + 1)
    BY <1>4 DEF InOrder
  <1>6. Covered(ds, p, n, o) /\ n + 1 \notin o => Covered(ds, p, n + 1, o)
    <2>1. \A i \in o : i =< n + 1 => i =< n \/ i = n + 1
      OBVIOUS
    <2>. QED
      BY <2>1 DEF Covered
  <1>7. ASSUME Parted(ds, p, n), n = TransientAt => p = <<>>
        PROVE  Parted(ds, p, n + 1)
    <2>1. TransientAt = 9
      BY Plans
    <2>2. CASE n = 9
      <3>1. Len(p) = 0
        BY <1>7, <2>1, <2>2, EmptySeq
      <3>. QED
        BY <1>2, <2>1, <2>2, <3>1 DEF Parted
    <2>3. CASE n > 9
      BY <1>7, <2>1, <2>3 DEF Parted
    <2>4. CASE n < 9
      BY <2>1, <2>4 DEF Parted
    <2>. QED
      BY <2>2, <2>3, <2>4
  <1>. QED
    BY <1>5, <1>6, <1>7

\* Sample n + 1 is delivered at once.
LEMMA SampleDelivered ==
  ASSUME TraceOK, NEW ds, NEW n \in Nat, n + 1 =< Len(trace), InOrder(ds, <<>>, n),
         NEW region \in SUBSET (StaticCrop \cup Nat), IsFiniteSet(region), NEW o \in SUBSET Nat
  PROVE  LET d == Delivery(n + 1, n + 1, Raster(trace[n + 1], region))
         IN /\ InOrder(Append(ds, d), <<>>, n + 1)
            /\ Covered(ds, <<>>, n, o) /\ Changed(n + 1) \subseteq region =>
                 Covered(Append(ds, d), <<>>, n + 1, o)
  <1> DEFINE d == Delivery(n + 1, n + 1, Raster(trace[n + 1], region))
             t == Append(ds, d)
  <1>1. n + 1 \in 1 .. Len(trace) /\ Len(trace) \in Nat
    BY DEF TraceOK
  <1>2. trace[n + 1] \in Seq(Nat)
    BY <1>1, TraceScenes
  <1>3. /\ d \in DeliveryRecords /\ d.from = n + 1 /\ d.to = n + 1 /\ d.region = region
        /\ d.scene = trace[n + 1]
    BY <1>2 DEF Delivery, Raster, DeliveryRecords
  <1> HIDE DEF d
  <1>4. ds \in Seq(DeliveryRecords)
    BY DEF InOrder
  <1>5. \A k \in 1 .. Len(ds) : ds[k].to < n + 1
    <2>1. \A k \in 1 .. Len(ds) : ds[k].to \in Nat /\ ds[k].to =< n
      BY Indexes
    <2>. QED
      BY <2>1
  <1>6. InOrder(ds, <<>>, n + 1)
    BY SampleSkips
  <1>7. InOrder(t, <<>>, n + 1)
    <2>1. n + 1 \in Nat /\ 1 =< n + 1
      OBVIOUS
    <2>. QED
      BY <1>3, <1>5, <1>6, <2>1, DeliveryKeepsOrder
  <1>8. /\ Len(t) \in Nat /\ t[Len(t)] = d /\ Len(t) = Len(ds) + 1 /\ Len(ds) \in Nat
    BY <1>3, <1>4, Appended
  <1>9. ASSUME Covered(ds, <<>>, n, o), Changed(n + 1) \subseteq region
        PROVE  Covered(t, <<>>, n + 1, o)
    <2> SUFFICES ASSUME NEW x \in o, x =< n + 1
                 PROVE  \E k \in 1 .. Len(t) : /\ t[k].from =< x /\ x =< t[k].to
                                              /\ Changed(x) \subseteq t[k].region
      BY DEF Covered
    <2>1. CASE x = n + 1
      <3>1. Len(t) \in 1 .. Len(t)
        BY <1>8
      <3> HIDE DEF t
      <3>. QED
        BY <1>3, <1>8, <1>9, <2>1, <3>1
    <2>2. CASE x =< n
      <3>1. Len(<<>>) = 0
        BY EmptySeq
      <3>2. \E k \in 1 .. Len(ds) : /\ ds[k].from =< x /\ x =< ds[k].to
                                   /\ Changed(x) \subseteq ds[k].region
        BY <1>9, <2>2, <3>1 DEF Covered
      <3>. QED
        BY <1>3, <1>4, <3>2, CoverageGrows
    <2>. QED
      BY <2>1, <2>2
  <1>. QED
    BY <1>7, <1>9 DEF d, t

----------------------------------------------------------------------------
(* A sample of an arm.                                                     *)

\* What is concatenated to the deliveries is appended to them.
LEMMA Concats ==
  ASSUME NEW S, NEW s \in Seq(S)
  PROVE  /\ s \o (<<>> \o <<>>) = s
         /\ s \o <<>> = s
         /\ \A e \in S : s \o (<<e>> \o <<>>) = Append(s, e)
         /\ \A e \in S : s \o (<<>> \o <<e>>) = Append(s, e)
         /\ \A e \in S : s \o <<e>> = Append(s, e)
         /\ \A e, f \in S : s \o (<<e>> \o <<f>>) = Append(Append(s, e), f)
  <1>1. s \o <<>> = s /\ <<>> \o <<>> = <<>>
    BY EmptySeq, ConcatEmptySeq
  <1>2. ASSUME NEW e \in S
        PROVE  /\ <<e>> \o <<>> = <<e>> /\ <<>> \o <<e>> = <<e>> /\ s \o <<e>> = Append(s, e)
    <2>1. <<e>> \in Seq(S)
      OBVIOUS
    <2>. QED
      BY <2>1, ConcatEmptySeq, AppendIsConcat
  <1>3. ASSUME NEW e \in S, NEW f \in S
        PROVE  s \o (<<e>> \o <<f>>) = Append(Append(s, e), f)
    <2>1. <<e>> \in Seq(S) /\ <<f>> \in Seq(S)
      OBVIOUS
    <2>2. s \o (<<e>> \o <<f>>) = (s \o <<e>>) \o <<f>>
      BY <2>1, ConcatAssociative
    <2>3. s \o <<e>> = Append(s, e) /\ Append(s, e) \in Seq(S)
      BY AppendIsConcat, AppendProperties
    <2>4. Append(s, e) \o <<f>> = Append(Append(s, e), f)
      BY <2>3, AppendIsConcat
    <2>. QED
      BY <2>2, <2>3, <2>4, Zenon
  <1>4. s \o (<<>> \o <<>>) = s
    BY <1>1, Zenon
  <1>5. /\ \A e \in S : s \o (<<e>> \o <<>>) = Append(s, e)
        /\ \A e \in S : s \o (<<>> \o <<e>>) = Append(s, e)
        /\ \A e \in S : s \o <<e>> = Append(s, e)
    BY <1>2, Zenon
  <1>. QED
    BY <1>1, <1>3, <1>4, <1>5, Zenon

\* The governor delivers what the audit calls changed, or skips what is not noticed.
LEMMA DecidesChange ==
  ASSUME TraceOK, NEW n \in Nat, n + 1 =< Len(trace), previous = Seen(n)
  PROVE  LET d == Decided(trace[n + 1])
         IN /\ d.disposition \in {"keyframe", "full_frame", "roi", "skip"}
            /\ d.region \subseteq 1 .. Width
            /\ d.disposition # "skip" => d.region # {} /\ Changed(n + 1) \subseteq d.region
            /\ d.disposition = "skip" => d.region = {} /\ n + 1 \notin Noticed
  <1> DEFINE scene == trace[n + 1]
             d == Decided(scene)
  <1>1. n + 1 \in 1 .. Len(trace) /\ Len(trace) \in Nat
    BY DEF TraceOK
  <1>2. scene \in Seq(Nat) /\ scene # <<>> /\ Len(scene) = Width
    BY <1>1, TraceScenes
  <1>3. Sound(d, previous, scene, forced \/ Due(sequence + 1, lastKeyframe))
    BY <1>2, DecideIsSound DEF Decided
  <1> HIDE DEF d
  <1>4. /\ d.disposition \in {"keyframe", "full_frame", "roi", "skip"}
        /\ d.region \subseteq 1 .. Width
        /\ d.disposition # "skip" => d.region # {}
        /\ d.disposition = "skip" => d.region = {}
    BY <1>2, <1>3 DEF Sound
  <1>5. CASE n = 0
    <2>1. previous = <<>> /\ n + 1 = 1
      BY <1>5 DEF Seen
    <2>2. d.disposition = "keyframe" /\ d.region = 1 .. Width
      BY <1>2, <1>3, <2>1 DEF Sound
    <2>3. Changed(n + 1) \subseteq 1 .. Width
      BY <1>1, ChangedBlocks
    <2>. QED
      BY <1>4, <2>2, <2>3 DEF d
  <1>6. CASE n > 0
    <2>1. n \in 1 .. Len(trace)
      BY <1>1, <1>6
    <2>2. previous = trace[n] /\ previous \in Seq(Nat) /\ Len(previous) = Width /\ previous # <<>>
      BY <1>6, <2>1, TraceScenes DEF Seen
    <2>3. Changed(n + 1) = Blocks(previous, scene)
      <3>1. Changed(n + 1) = Blocks(trace[n + 1 - 1], scene) /\ n + 1 - 1 = n
        BY <1>1, <1>6, ChangedBlocks
      <3>. QED
        BY <2>2, <3>1
    <2>4. d.disposition # "skip" => Changed(n + 1) \subseteq d.region
      BY <1>3, <2>3 DEF Sound
    <2>5. d.disposition = "skip" => n + 1 \notin Noticed
      <3>1. d.disposition = "skip" => Score(previous, scene) < ScoreThreshold \/ Blocks(previous, scene) = {}
        BY <1>3 DEF Sound
      <3>2. n + 1 - 1 = n
        BY <1>1
      <3>3. n + 1 \in Noticed => /\ Changed(n + 1) # {}
                               /\ ~(Score(trace[n], scene) < ScoreThreshold)
        BY <3>2 DEF Noticed, Perceptual
      <3>. QED
        BY <2>2, <2>3, <3>1, <3>3
    <2>. QED
      BY <1>4, <2>4, <2>5 DEF d
  <1>. QED
    BY <1>5, <1>6

\* A picture of which a block changed is another one.
LEMMA ChangeIsVisible ==
  ASSUME NEW p \in Seq(Nat), Blocks(p, p) # {}
  PROVE  FALSE
  <1>1. PICK x \in DOMAIN p : Distance(p, p, x) >= BlockThreshold
    BY DEF Blocks
  <1>2. p[x] \in Nat
    BY <1>1
  <1>3. Distance(p, p, x) = 0
    BY <1>2 DEF Distance
  <1>. QED
    BY <1>1, <1>3, GovernorConstants

\* The sample after the transient is its reversal.
LEMMA PulseIsReversal ==
  ASSUME TraceOK, Pulse, preserving, signatures = <<Seen(TransientAt - 1), Seen(TransientAt)>>
  PROVE  Reversal(trace[TransientAt + 1])
  <1>1. Len(trace) = 14 /\ TransientAt = 9
    BY Plans DEF Pulse, TraceOK
  <1>2. 9 \in 1 .. Len(trace) /\ 8 \in 1 .. Len(trace)
    BY <1>1
  <1>3. signatures[1] = trace[8] /\ signatures[2] = trace[9]
    BY <1>1 DEF Seen
  <1>4. trace[TransientAt + 1] = trace[8]
    BY <1>1 DEF Pulse
  <1>5. Changed(9) # {} /\ Changed(9) = Blocks(trace[8], trace[9])
    <2>1. Changed(9) # {}
      BY <1>1 DEF Pulse, Noticed, Perceptual
    <2>2. Changed(9) = Blocks(trace[9 - 1], trace[9])
      BY <1>2, ChangedBlocks
    <2>. QED
      BY <2>1, <2>2
  <1>6. /\ trace[8] \in Seq(Nat) /\ trace[9] \in Seq(Nat)
        /\ DOMAIN trace[8] = DOMAIN trace[9]
    BY <1>2, TraceScenes
  <1>7. trace[8] # trace[9]
    BY <1>5, <1>6, ChangeIsVisible
  <1>. QED
    BY <1>3, <1>4, <1>6, <1>7 DEF Reversal, Visible

\* The same of the state after a step that keeps the trace.
LEMMA TraceKept ==
  ASSUME trace' = trace, kind' = kind
  PROVE  /\ TraceOK => TraceOK'
         /\ InOrder(deliveries', pending', at') => InOrder(deliveries, pending, at)'
         /\ arms' = arms /\ Covered(deliveries', pending', at', Owed(Policy)) =>
              Covered(deliveries, pending, at, Owed(Policy))'
         /\ Parted(deliveries', pending', at') => Parted(deliveries, pending, at)'
         /\ Pulse' = Pulse /\ Perceptual' = Perceptual /\ Noticed' = Noticed
  <1>1. Width' = Width
    BY DEF Width
  <1>2. TraceOK => TraceOK'
    BY <1>1 DEF TraceOK
  <1>3. InOrder(deliveries', pending', at') => InOrder(deliveries, pending, at)'
    BY <1>1 DEF InOrder, PendingOK, PassiveItems, DeliveryRecords
  <1>4. \A i : Changed(i)' = Changed(i)
    BY DEF Changed
  <1>8. Perceptual' = Perceptual /\ Noticed' = Noticed
    BY DEF Noticed, Perceptual, Changed
  <1>5. arms' = arms /\ Covered(deliveries', pending', at', Owed(Policy)) =>
          Covered(deliveries, pending, at, Owed(Policy))'
    <2>1. arms' = arms => Owed(Policy)' = Owed(Policy)
      BY <1>8 DEF Owed, Policy
    <2>. QED
      BY <1>4, <2>1 DEF Covered
  <1>6. Pulse' = Pulse
    BY <1>8 DEF Pulse
  <1>7. Parted(deliveries', pending', at') => Parted(deliveries, pending, at)'
    BY DEF Parted
  <1>. QED
    BY <1>2, <1>3, <1>5, <1>6, <1>7, <1>8

\* The scheduler's sample: what was pending may leave first, the sample joins what is
\* left or is skipped, and all of it may leave.
LEMMA CoalescedSample ==
  ASSUME TraceOK, ArmInv, Coalesces, at < Len(trace), Sample(trace[at + 1]),
         deliveries' = deliveries \o Emitted(trace[at + 1])
  PROVE  /\ InOrder(deliveries', pending', at + 1)
         /\ Covered(deliveries', pending', at + 1, Owed(Policy))
         /\ Policy = "hybrid_transient" /\ Pulse => Parted(deliveries', pending', at + 1)
  <1> DEFINE scene == trace[at + 1]
             d == Decided(scene)
             i == Item(scene, d)
             first == FlushesFirst(scene)
             after == FlushesAfter(scene)
             joined == Joined(scene)
             hybrid == Policy = "hybrid_transient" /\ Pulse
             ds1 == IF first THEN Append(deliveries, Event(pending)) ELSE deliveries
             p1 == IF first THEN <<>> ELSE pending
             o == Owed(Policy)
  <1>1. /\ at \in Nat /\ at + 1 \in 1 .. Len(trace) /\ at + 1 =< Len(trace) /\ at =< Len(trace)
    BY DEF ArmInv, TraceOK
  <1>2. /\ InOrder(deliveries, pending, at) /\ Covered(deliveries, pending, at, o)
        /\ hybrid => Parted(deliveries, pending, at)
        /\ samples = at /\ previous = Seen(at)
    BY DEF ArmInv, Coalesces
  <1>3. /\ d.disposition \in {"keyframe", "full_frame", "roi", "skip"}
        /\ d.region \subseteq 1 .. Width
        /\ d.disposition # "skip" => d.region # {} /\ Changed(at + 1) \subseteq d.region
        /\ d.disposition = "skip" => at + 1 \notin Noticed
    BY <1>1, <1>2, DecidesChange
  <1>13. o = Noticed /\ o \in SUBSET Nat
    <2>1. o = Noticed
      BY DEF Owed, Coalesces
    <2>2. o \subseteq 2 .. 12 /\ 2 .. 12 \subseteq Nat
      BY OwedAreSeen
    <2>. QED
      BY <2>1, <2>2
  <1>4. /\ first => pending # <<>>
        /\ joined = IF d.disposition = "skip" THEN p1 ELSE Append(p1, i)
        /\ after => d.disposition # "skip"
        /\ pending' = IF after THEN <<>> ELSE joined
        /\ deliveries' = deliveries \o ((IF first THEN <<Event(pending)>> ELSE <<>>)
                                         \o (IF after THEN <<Event(joined)>> ELSE <<>>))
    BY Zenon DEF FlushesFirst, Joined, FlushesAfter, Sample, Emitted
  <1>5. d.disposition # "skip" => /\ i \in PassiveItems /\ i.index = at + 1 /\ i.scene = scene
                                  /\ i.region = d.region
    <2>1. scene \in Seq(Nat) /\ Width \in Nat
      BY <1>1, TraceScenes
    <2>2. previous \in Seq(Nat)
      <3>1. CASE at = 0
        BY <1>2, <3>1, EmptySeq DEF Seen
      <3>2. CASE at > 0
        <4>1. at \in 1 .. Len(trace)
          BY <1>1, <3>2, TraceOK DEF TraceOK
        <4>. QED
          BY <1>2, <3>2, <4>1, TraceScenes DEF Seen
      <3>. QED
        BY <1>1, <3>1, <3>2
    <2>3. d.region \in SUBSET Nat
      BY <1>3, <2>1
    <2>4. i = [index |-> at + 1, disposition |-> d.disposition, region |-> d.region,
               scene |-> scene, before |-> previous]
      BY <1>2, Zenon DEF Item
    <2>5. at + 1 \in Nat
      BY <1>1
    <2> HIDE DEF d, i, scene
    <2>. QED
      BY <1>3, <2>1, <2>2, <2>3, <2>4, <2>5 DEF PassiveItems
  <1>6. hybrid /\ at = TransientAt => p1 = <<>>
    <2>1. hybrid => preserving /\ signatures = <<Seen(at - 1), Seen(at)>>
      BY DEF ArmInv
    <2>2. hybrid /\ at = TransientAt => Reversal(scene)
      BY <2>1, PulseIsReversal
    <2>. QED
      BY <2>2 DEF FlushesFirst
  <1> HIDE DEF d, i, first, after, joined, hybrid, scene, o
  <1>7. /\ InOrder(ds1, p1, at) /\ Covered(ds1, p1, at, o)
        /\ hybrid => Parted(ds1, p1, at)
    <2>1. CASE first
      BY <1>1, <1>2, <1>4, <2>1, EventFlushes
    <2>2. CASE ~first
      BY <1>2, <2>2
    <2>. QED
      BY <2>1, <2>2
  <1>8. ds1 \in Seq(DeliveryRecords)
    BY <1>7 DEF InOrder
  <1>9. /\ InOrder(ds1, joined, at + 1) /\ Covered(ds1, joined, at + 1, o)
        /\ hybrid => Parted(ds1, joined, at + 1)
        /\ d.disposition # "skip" => joined # <<>>
    <2> HIDE DEF ds1, p1
    <2>1. CASE d.disposition = "skip"
      <3>1. joined = p1
        BY <1>4, <2>1
      <3>2. /\ InOrder(ds1, p1, at + 1)
            /\ Covered(ds1, p1, at, o) /\ at + 1 \notin o => Covered(ds1, p1, at + 1, o)
            /\ Parted(ds1, p1, at) /\ (at = TransientAt => p1 = <<>>) => Parted(ds1, p1, at + 1)
        BY <1>1, <1>7, <1>13, SampleSkips
      <3>. QED
        BY <1>3, <1>6, <1>7, <1>13, <2>1, <3>1, <3>2
    <2>2. CASE d.disposition # "skip"
      <3>1. joined = Append(p1, i)
        BY <1>4, <2>2
      <3>2. /\ i \in PassiveItems /\ i.index = at + 1 /\ i.scene = trace[at + 1]
            /\ i.region # {} /\ i.region \subseteq 1 .. Width /\ Changed(at + 1) \subseteq i.region
        BY <1>3, <1>5, <2>2 DEF scene
      <3>3. /\ InOrder(ds1, Append(p1, i), at + 1)
            /\ Covered(ds1, p1, at, o) /\ Changed(at + 1) \subseteq i.region =>
                 Covered(ds1, Append(p1, i), at + 1, o)
            /\ Parted(ds1, p1, at) /\ (at = TransientAt => p1 = <<>>) =>
                 Parted(ds1, Append(p1, i), at + 1)
        BY <1>1, <1>7, <1>13, <3>2, SampleJoins
      <3>4. p1 \in Seq(PassiveItems)
        BY <1>7 DEF InOrder, PendingOK
      <3>5. Append(p1, i) # <<>>
        BY <3>2, <3>4, AppendProperties
      <3>. QED
        BY <1>6, <1>7, <3>1, <3>2, <3>3, <3>5
    <2>. QED
      BY <2>1, <2>2
  <1> DEFINE ds2 == IF after THEN Append(ds1, Event(joined)) ELSE ds1
             p2 == IF after THEN <<>> ELSE joined
  <1>10. deliveries' = ds2
    <2>1. deliveries \in Seq(DeliveryRecords)
      BY <1>2 DEF InOrder
    <2>2. first => Event(pending) \in DeliveryRecords
      BY <1>1, <1>2, <1>4, EventDelivers
    <2>3. ASSUME after
          PROVE  Event(joined) \in DeliveryRecords
      <3>1. at + 1 \in Nat /\ joined # <<>> /\ InOrder(ds1, joined, at + 1)
        BY <1>1, <1>4, <1>9, <2>3
      <3> HIDE DEF ds1, p1
      <3>. QED
        BY <1>1, <3>1, EventDelivers
    <2>4. CASE first /\ after
      BY <1>4, <2>1, <2>2, <2>3, <2>4, Concats
    <2>5. CASE first /\ ~after
      BY <1>4, <2>1, <2>2, <2>5, Concats
    <2>6. CASE ~first /\ after
      BY <1>4, <2>1, <2>3, <2>6, Concats
    <2>7. CASE ~first /\ ~after
      BY <1>4, <2>1, <2>7, Concats
    <2>. QED
      BY <2>4, <2>5, <2>6, <2>7
  <1>11. /\ InOrder(ds2, p2, at + 1) /\ Covered(ds2, p2, at + 1, o)
         /\ hybrid => Parted(ds2, p2, at + 1)
    <2> HIDE DEF ds1, p1
    <2>1. CASE after
      <3>1. at + 1 \in Nat /\ joined # <<>>
        BY <1>1, <1>4, <1>9, <2>1
      <3>. QED
        BY <1>1, <1>9, <2>1, <3>1, EventFlushes
    <2>2. CASE ~after
      BY <1>9, <2>2
    <2>. QED
      BY <2>1, <2>2
  <1>12. pending' = p2
    BY <1>4
  <1> HIDE DEF ds2, p2
  <1>. QED
    BY <1>10, <1>11, <1>12 DEF hybrid, o

\* The sample of a policy without a scheduler leaves at once or not at all.
LEMMA DirectSample ==
  ASSUME TraceOK, arms \in Seq(Policies), ArmInv, ~Coalesces, at < Len(trace),
         deliveries' = deliveries \o Delivered(trace[at + 1])
  PROVE  /\ InOrder(deliveries', <<>>, at + 1)
         /\ Covered(deliveries', <<>>, at + 1, Owed(Policy))
  <1> DEFINE scene == trace[at + 1]
             region == Region(scene)
             e == Delivery(at + 1, at + 1, Raster(scene, region))
             o == Owed(Policy)
  <1>1. /\ at \in Nat /\ at + 1 \in 1 .. Len(trace) /\ at + 1 =< Len(trace) /\ at =< Len(trace)
    BY DEF ArmInv, TraceOK
  <1>2. /\ InOrder(deliveries, <<>>, at) /\ deliveries \in Seq(DeliveryRecords)
        /\ Covered(deliveries, <<>>, at, o)
    BY DEF ArmInv, InOrder
  <1>3. Policy \in {"always_full", "static_crop", "governor_roi"}
    <2>1. Policy \in Policies
      BY DEF ArmInv, Policy
    <2>. QED
      BY <2>1 DEF Policies, Coalesces
  <1>4. Width \in Nat /\ DOMAIN scene = 1 .. Width /\ Changed(at + 1) \subseteq 1 .. Width
    BY <1>1, TraceScenes, ChangedBlocks
  <1>5. /\ region \subseteq 1 .. Width \/ region = StaticCrop
        /\ region # {} => Changed(at + 1) \subseteq region \/ o = {}
        /\ region = {} => at + 1 \notin o
    <2>1. CASE Policy = "always_full"
      <3>1. at + 1 \in Perceptual => Changed(at + 1) # {}
        BY DEF Perceptual
      <3>. QED
        BY <1>4, <2>1, <3>1 DEF Region, Owed
    <2>2. CASE Policy = "static_crop"
      BY <2>2 DEF Region, Owed
    <2>3. CASE Policy = "governor_roi"
      <3>1. previous = Seen(at)
        BY <2>3 DEF ArmInv
      <3>2. region = Decided(scene).region
        BY <2>3 DEF Region
      <3>3. o = Noticed
        BY <2>3 DEF Owed
      <3> HIDE DEF o
      <3>. QED
        BY <1>1, <3>1, <3>2, <3>3, DecidesChange
    <2>. QED
      BY <1>3, <2>1, <2>2, <2>3
  <1>6. region \in SUBSET (StaticCrop \cup Nat) /\ IsFiniteSet(region)
    <2>1. IsFiniteSet(1 .. Width)
      BY <1>4, FS_Interval
    <2>2. 1 .. Width \subseteq Nat
      BY <1>4
    <2> HIDE DEF region
    <2>3. region \subseteq 1 .. Width => IsFiniteSet(region)
      BY <2>1, FS_Subset
    <2>. QED
      BY <1>5, <2>2, <2>3, TrialConstants
  <1>7. deliveries' = IF region = {} THEN deliveries \o <<>> ELSE deliveries \o <<e>>
    BY Zenon DEF Delivered
  <1>10. o \in SUBSET Nat
    <2>1. o \subseteq 2 .. 12 /\ 2 .. 12 \subseteq Nat
      BY OwedAreSeen
    <2>. QED
      BY <2>1
  <1> HIDE DEF region, o
  <1>8. CASE region = {}
    <2>1. deliveries' = deliveries
      BY <1>2, <1>7, <1>8, Concats
    <2>. QED
      BY <1>1, <1>2, <1>5, <1>8, <1>10, <2>1, SampleSkips DEF o
  <1>9. CASE region # {}
    <2>1. e \in DeliveryRecords
      <3>1. trace[at + 1] \in Seq(Nat)
        BY <1>1, TraceScenes
      <3>. QED
        BY <1>1, <1>6, <3>1 DEF Delivery, Raster, DeliveryRecords
    <2>2. deliveries' = Append(deliveries, e)
      <3> HIDE DEF e
      <3>. QED
        BY <1>2, <1>7, <1>9, <2>1, Concats
    <2>3. /\ InOrder(Append(deliveries, e), <<>>, at + 1)
          /\ Covered(deliveries, <<>>, at, o) /\ Changed(at + 1) \subseteq region =>
               Covered(Append(deliveries, e), <<>>, at + 1, o)
      BY <1>1, <1>2, <1>6, <1>10, SampleDelivered
    <2> HIDE DEF e
    <2>4. o = {} => Covered(Append(deliveries, e), <<>>, at + 1, o)
      BY DEF Covered
    <2>. QED
      BY <1>2, <1>5, <1>9, <2>2, <2>3, <2>4 DEF o
  <1>. QED
    BY <1>8, <1>9

----------------------------------------------------------------------------
(* The steps of an arm.                                                    *)

\* A step that leaves the arm alone.
LEMMA ArmKept ==
  ASSUME ArmInv,
         UNCHANGED <<fixed, arms, at, deliveries, pending, samples, previous, preserving, signatures>>
  PROVE  ArmInv'
  <1>1. /\ kind' = kind /\ trace' = trace /\ arms' = arms /\ at' = at
        /\ deliveries' = deliveries /\ pending' = pending
    BY DEF fixed
  <1>2. Policy' = Policy /\ Coalesces' = Coalesces
    BY <1>1 DEF Policy, Coalesces
  <1>3. /\ InOrder(deliveries, pending, at)'
        /\ Covered(deliveries, pending, at, Owed(Policy))'
        /\ Parted(deliveries, pending, at) => Parted(deliveries, pending, at)'
        /\ Pulse' = Pulse
    BY <1>1, TraceKept DEF ArmInv
  <1>4. Seen(at)' = Seen(at) /\ Seen(at - 1)' = Seen(at - 1)
    BY <1>1 DEF Seen
  <1>. QED
    BY <1>1, <1>2, <1>3, <1>4 DEF ArmInv

LEMMA ArmBegins ==
  ASSUME TrialInv, Begins
  PROVE  ArmInv'
  <1>1. /\ kind' = kind /\ trace' = trace /\ arms' = arms /\ arms # <<>> /\ at' = 0
        /\ deliveries' = <<>> /\ pending' = <<>> /\ previous' = <<>> /\ samples' = 0
        /\ preserving' = (Policy = "hybrid_transient") /\ signatures' = <<<<>>, <<>>>>
    BY DEF Begins, fixed, Preserves
  <1>2. Policy' = Policy
    BY <1>1 DEF Policy
  <1>3. Len(<<>>) = 0 /\ <<>> \in Seq(DeliveryRecords) /\ <<>> \in Seq(PassiveItems)
    BY EmptySeq
  <1>4. InOrder(<<>>, <<>>, 0) /\ Covered(<<>>, <<>>, 0, Owed(Policy)) /\ Parted(<<>>, <<>>, 0)
    <2>1. InOrder(<<>>, <<>>, 0)
      BY <1>3 DEF InOrder, PendingOK
    <2>2. Covered(<<>>, <<>>, 0, Owed(Policy))
      <3>1. \A i \in 2 .. 12 : ~(i =< 0)
        OBVIOUS
      <3>. QED
        BY <3>1, OwedAreSeen DEF Covered
    <2>3. Parted(<<>>, <<>>, 0)
      BY Plans DEF Parted
    <2>. QED
      BY <2>1, <2>2, <2>3
  <1>5. InOrder(deliveries, pending, at)' /\ Covered(deliveries, pending, at, Owed(Policy))'
        /\ Parted(deliveries, pending, at)'
    BY <1>1, <1>4, TraceKept
  <1>6. at' \in 0 .. Len(trace')
    BY <1>1 DEF TrialInv, TraceOK
  <1>7. Seen(at)' = <<>> /\ Seen(at - 1)' = <<>>
    BY <1>1 DEF Seen
  <1>. QED
    BY <1>1, <1>2, <1>5, <1>6, <1>7 DEF ArmInv, Coalesces

LEMMA ArmSamples ==
  ASSUME TrialInv, TakesSample
  PROVE  ArmInv'
  <1> DEFINE scene == trace[at + 1]
  <1>1. /\ ArmInv /\ TraceOK /\ arms \in Seq(Policies) /\ at < Len(trace) /\ at \in Nat
        /\ Samples(scene) /\ at' = at + 1 /\ Len(trace) \in Nat
        /\ kind' = kind /\ trace' = trace /\ arms' = arms
    BY DEF TrialInv, TraceOK, ArmInv, TakesSample, fixed
  <1>2. Policy' = Policy /\ Coalesces' = Coalesces
    BY <1>1 DEF Policy, Coalesces
  <1>3. /\ InOrder(deliveries', pending', at')
        /\ Covered(deliveries', pending', at', Owed(Policy))
        /\ Policy = "hybrid_transient" /\ Pulse => Parted(deliveries', pending', at')
        /\ ~Coalesces => pending' = <<>>
    <2>1. CASE Coalesces
      <3>1. Sample(scene) /\ deliveries' = deliveries \o Emitted(scene)
        BY <1>1, <2>1 DEF Samples
      <3>. QED
        BY <1>1, <2>1, <3>1, CoalescedSample
    <2>2. CASE ~Coalesces
      <3>1. deliveries' = deliveries \o Delivered(scene) /\ pending' = pending /\ pending = <<>>
        BY <1>1, <2>2 DEF Samples, scheduler, ArmInv
      <3>2. Policy # "hybrid_transient"
        BY <2>2 DEF Coalesces
      <3>. QED
        BY <1>1, <2>2, <3>1, <3>2, DirectSample
    <2>. QED
      BY <2>1, <2>2
  <1>4. /\ InOrder(deliveries, pending, at)'
        /\ Covered(deliveries, pending, at, Owed(Policy))'
        /\ Policy = "hybrid_transient" /\ Pulse' => Parted(deliveries, pending, at)'
    BY <1>1, <1>3, TraceKept
  <1>5. Seen(at)' = scene /\ Seen(at - 1)' = Seen(at)
    <2>1. ~(at + 1 < 1) /\ at + 1 - 1 = at
      BY <1>1
    <2>. QED
      BY <1>1, <2>1 DEF Seen
  <1>6. /\ Coalesces => samples' = at' /\ previous' = scene
        /\ Policy = "governor_roi" => previous' = scene
        /\ preserving' = preserving
        /\ preserving => signatures' = <<Seen(at), scene>>
    <2>1. CASE Coalesces
      <3>1. Sample(scene) /\ samples = at
        BY <1>1, <2>1 DEF Samples, ArmInv
      <3>2. samples' = at + 1 /\ previous' = scene /\ preserving' = preserving
            /\ (preserving => signatures' = <<signatures[2], scene>>)
        BY <3>1 DEF Sample, GovernorSteps
      <3>3. preserving => signatures[2] = Seen(at)
        BY <1>1 DEF ArmInv
      <3>4. Policy # "governor_roi"
        BY <2>1 DEF Coalesces
      <3>. QED
        BY <1>1, <3>2, <3>3, <3>4
    <2>2. CASE ~Coalesces
      <3>1. ~preserving /\ preserving' = preserving
        BY <1>1, <2>2 DEF Samples, scheduler, ArmInv, Coalesces
      <3>2. Policy = "governor_roi" => previous' = scene
        BY <1>1, <2>2 DEF Samples, GovernorSteps
      <3>. QED
        BY <2>2, <3>1, <3>2
    <2>. QED
      BY <2>1, <2>2
  <1>7. at' \in 0 .. Len(trace')
    BY <1>1
  <1> HIDE DEF scene
  <1>. QED
    BY <1>1, <1>2, <1>3, <1>4, <1>5, <1>6, <1>7 DEF ArmInv

----------------------------------------------------------------------------
(* What is measured.                                                       *)

LEMMA PerceptualFinite ==
  /\ Perceptual \subseteq 2 .. 12 /\ Cardinality(Perceptual) \in Nat
  <1>1. Perceptual \in SUBSET (2 .. 12)
    BY Plans DEF Perceptual
  <1>2. IsFiniteSet(2 .. 12)
    <2>1. 2 \in Int /\ 12 \in Int
      OBVIOUS
    <2>. QED
      BY <2>1, FS_Interval
  <1>. QED
    BY <1>1, <1>2, FS_Subset, FS_CardinalityType

\* The bytes of a full observation of every sample.
LEMMA FullBytesPositive ==
  ASSUME TraceOK
  PROVE  FullBytes \in Nat \ {0}
  <1> DEFINE f == [i \in DOMAIN trace |-> Len(trace[i])]
  <1>1. DOMAIN trace = 1 .. Len(trace) /\ Len(trace) \in Nat /\ 1 \in 1 .. Len(trace)
    BY DEF TraceOK
  <1>2. \A i \in 1 .. Len(trace) : f[i] = Width /\ Width \in Nat \ {0}
    BY <1>1, TraceScenes
  <1>3. IsFiniteSet(DOMAIN f) /\ DOMAIN f = 1 .. Len(trace)
    BY <1>1, FS_Interval
  <1>4. FullBytes = Total(f)
    BY Zenon DEF FullBytes
  <1> HIDE DEF f
  <1>5. Total(f) \in Nat /\ f[1] =< Total(f) /\ f[1] \in Nat \ {0}
    BY <1>1, <1>2, <1>3, TotalBounds
  <1>. QED
    BY <1>4, <1>5

LEMMA CardIsCard ==
  ASSUME TraceOK, NEW ds, NEW n \in Nat, InOrder(ds, <<>>, n)
  PROVE  Card(ds) \in CardRecords
  <1>1. IsFiniteSet(2 .. 12) /\ Acts = 2 .. 12
    <2>1. 2 \in Int /\ 12 \in Int
      OBVIOUS
    <2>. QED
      BY <2>1, FS_Interval, Plans
  <1>2. \A T \in SUBSET (2 .. 12) : Cardinality(T) \in Nat
    BY <1>1, FS_Subset, FS_CardinalityType
  <1>3. Card(ds).guards \in Nat /\ Card(ds).exact \in Nat
    <2>1. {i \in Acts : trace[i] # trace[i - 1]} \in SUBSET (2 .. 12)
          /\ {i \in Acts : Exact(i, ds)} \in SUBSET (2 .. 12)
      BY <1>1
    <2>. QED
      BY <1>2, <2>1 DEF Card
  <1>4. Card(ds).seen \in Nat /\ Card(ds).steps \in SUBSET Nat
    <2>1. StepsSeen(ds) \in SUBSET (2 .. 12) /\ StepsSeen(ds) \in SUBSET Nat
      <3>1. StepsSeen(ds) \subseteq 2 .. 12
        BY PerceptualFinite, Zenon DEF StepsSeen
      <3>2. \A x \in 2 .. 12 : x \in Nat
        OBVIOUS
      <3>. QED
        BY <3>1, <3>2, Zenon
    <2>2. Card(ds).seen = Cardinality(StepsSeen(ds)) /\ Card(ds).steps = StepsSeen(ds)
      BY Zenon DEF Card
    <2>3. Cardinality(StepsSeen(ds)) \in Nat
      BY <1>2, <2>1
    <2>. QED
      BY <2>1, <2>2, <2>3
  <1>5. Card(ds).transient \in Nat
    BY DEF Card
  <1>6. Card(ds).saved \in Nat
    <2> DEFINE f == [k \in DOMAIN ds |-> Cardinality(ds[k].region)]
    <2>1. ds \in Seq(DeliveryRecords) /\ Len(ds) \in Nat /\ DOMAIN ds = 1 .. Len(ds)
      BY DEF InOrder
    <2>2. \A k \in 1 .. Len(ds) : f[k] \in Nat
      <3>1. \A k \in 1 .. Len(ds) : IsFiniteSet(ds[k].region)
        BY DEF InOrder
      <3>. QED
        BY <2>1, <3>1, FS_CardinalityType
    <2>3. IsFiniteSet(DOMAIN f) /\ DOMAIN f = 1 .. Len(ds)
      BY <2>1, FS_Interval
    <2>4. Blocked(ds) = Total(f)
      BY Zenon DEF Blocked
    <2> HIDE DEF f
    <2>5. Blocked(ds) \in Nat /\ FullBytes \in Nat
      BY <2>2, <2>3, <2>4, TotalBounds, FullBytesPositive
    <2>6. Card(ds).saved = Greatest({0, FullBytes - Blocked(ds)})
      BY DEF Card
    <2>7. FullBytes - Blocked(ds) \in Int /\ 0 \in Int
      BY <2>5
    <2>8. \A x \in Int : Greatest({0, x}) \in Nat
      <3> TAKE x \in Int
      <3>1. Greatest({0, x}) = IF 0 >= x THEN 0 ELSE x
        BY <2>7, ExtremesOfPair
      <3>. QED
        BY <3>1
    <2>. QED
      BY <2>6, <2>7, <2>8
  <1>7. Card(ds) = [steps |-> Card(ds).steps, guards |-> Card(ds).guards, seen |-> Card(ds).seen, exact |-> Card(ds).exact,
                    transient |-> Card(ds).transient, saved |-> Card(ds).saved]
    BY DEF Card
  <1>. QED
    BY <1>3, <1>4, <1>5, <1>6, <1>7 DEF CardRecords

\* The delivery that covers a change is the one the audit finds: no two have a sample in
\* common.
LEMMA CoveredIsDelivered ==
  ASSUME NEW ds, NEW n \in Nat, InOrder(ds, <<>>, n), NEW o, Covered(ds, <<>>, n, o),
         NEW i \in o, i \in 1 .. n, Changed(i) # {}
  PROVE  \E k \in DeliveredBy(i, ds) :
            k \in 1 .. Len(ds) /\ ds[k].from =< i /\ i =< ds[k].to
  <1>1. PICK k \in 1 .. Len(ds) : /\ ds[k].from =< i /\ i =< ds[k].to
                                  /\ Changed(i) \subseteq ds[k].region
    <2>1. Len(<<>>) = 0
      BY EmptySeq
    <2>. QED
      BY <2>1 DEF Covered
  <1> DEFINE ranges == {j \in DOMAIN ds : ds[j].from =< i /\ i =< ds[j].to}
  <1>2. DOMAIN ds = 1 .. Len(ds) /\ Len(ds) \in Nat
        /\ \A j \in 1 .. Len(ds) : ds[j].from \in Nat /\ ds[j].to \in Nat
    BY Indexes
  <1>3. ASSUME NEW j \in 1 .. Len(ds), ds[j].from =< i, i =< ds[j].to
        PROVE  j = k
    <2>1. ~(j < k) /\ ~(k < j)
      <3>1. \A a, b \in 1 .. Len(ds) : a < b => ds[a].to < ds[b].from
        BY DEF InOrder
      <3>2. /\ j < k => ds[j].to < ds[k].from
            /\ k < j => ds[k].to < ds[j].from
        BY <3>1
      <3>3. /\ ds[j].from \in Nat /\ ds[j].to \in Nat /\ ds[k].from \in Nat /\ ds[k].to \in Nat
            /\ i \in Nat
        BY <1>2
      <3>. QED
        BY <1>1, <1>3, <3>2, <3>3
    <2>. QED
      BY <1>2, <2>1
  <1>4. ranges = {k}
    BY <1>1, <1>2, <1>3
  <1>5. Least({k}) = k
    <2>1. k \in Int
      BY <1>2
    <2>2. {k} = {k, k}
      OBVIOUS
    <2>. QED
      BY <2>1, <2>2, ExtremesOfPair
  <1>6. ds[k].region \cap Changed(i) # {}
    BY <1>1
  <1>7. DeliveredBy(i, ds) = {j \in ranges : j = Least(ranges) /\ ds[j].region \cap Changed(i) # {}}
    BY Zenon DEF DeliveredBy
  <1> HIDE DEF ranges
  <1>8. k \in DeliveredBy(i, ds)
    BY <1>4, <1>5, <1>6, <1>7
  <1>. QED
    BY <1>1, <1>8

\* An arm that covers what it owes is measured as having delivered it, and the transient as
\* it was if nothing was delivered across it.
LEMMA CardOfCovered ==
  ASSUME TraceOK, kind = "benchmark", NEW ds, InOrder(ds, <<>>, Len(trace)), NEW p,
         Covered(ds, <<>>, Len(trace), Owed(p))
  PROVE  /\ Owed(p) \subseteq Card(ds).steps
         /\ p # "static_crop" /\ Pulse /\ Parted(ds, <<>>, Len(trace)) => Card(ds).transient = 1
  <1>1. Len(trace) = 14 /\ TransientAt = 9 /\ Len(trace) \in Nat
    BY Plans DEF TraceOK
  <1>2. Owed(p) \subseteq StepsSeen(ds)
    <2>1. ASSUME NEW i \in Owed(p)
          PROVE  i \in Perceptual /\ DeliveredBy(i, ds) # {}
      <3>1. i \in Perceptual /\ i \in 2 .. 12
        BY OwedAreSeen
      <3>2. i \in 1 .. Len(trace) /\ Changed(i) # {}
        BY <1>1, <3>1 DEF Perceptual
      <3>. QED
        BY <1>1, <3>1, <3>2, CoveredIsDelivered
    <2>. QED
      BY <2>1 DEF StepsSeen
  <1>3. ASSUME p # "static_crop", Pulse, Parted(ds, <<>>, Len(trace))
        PROVE  Exact(TransientAt, ds)
    <2>1. 9 \in 1 .. Len(trace) /\ Changed(9) # {} /\ 9 \in Owed(p)
      <3>1. 9 \in Noticed
        BY <1>1, <1>3 DEF Pulse
      <3>. QED
        BY <1>1, <1>3, <3>1, OwedAreSeen DEF Noticed, Perceptual
    <2>2. PICK k \in DeliveredBy(9, ds) : k \in 1 .. Len(ds) /\ ds[k].from =< 9 /\ 9 =< ds[k].to
      BY <1>1, <2>1, CoveredIsDelivered
    <2>3. ~(ds[k].from =< 9 /\ 9 < ds[k].to)
      BY <1>1, <1>3, <2>2 DEF Parted
    <2>4. ds[k].to \in Nat
      BY <1>1, <2>2, Indexes
    <2>5. ds[k].to = 9
      BY <2>2, <2>3, <2>4
    <2>6. ds[k].scene = trace[9]
      BY <2>2, <2>5 DEF InOrder
    <2>. QED
      BY <1>1, <2>2, <2>6 DEF Exact
  <1>4. Card(ds).steps = StepsSeen(ds)
        /\ (Exact(TransientAt, ds) => Card(ds).transient = 1)
    BY DEF Card
  <1>. QED
    BY <1>2, <1>3, <1>4

----------------------------------------------------------------------------
(* The ranking.                                                            *)

LEMMA ProductGrows ==
  ASSUME NEW a \in Nat, NEW b \in Nat, NEW w \in Nat \ {0}
  PROVE  /\ a * w \in Nat /\ b * w \in Nat
         /\ a =< b => a * w =< b * w
         /\ a < b => a * w < b * w
  <1>1. a * w \in Nat /\ b * w \in Nat
    OBVIOUS
  <1>2. ASSUME a =< b
        PROVE  a * w =< b * w
    <2>1. b - a \in Nat /\ (b - a) * w \in Nat /\ b * w = a * w + (b - a) * w
      BY <1>2
    <2>. QED
      BY <1>1, <2>1
  <1>3. ASSUME a < b
        PROVE  a * w < b * w
    <2>1. b - a \in Nat /\ b - a > 0 /\ b * w = a * w + (b - a) * w
      BY <1>3
    <2>2. (b - a) * w > 0 /\ (b - a) * w \in Nat
      BY <2>1
    <2>. QED
      BY <1>1, <2>1, <2>2
  <1>. QED
    BY <1>1, <1>2, <1>3

\* The score of a card is the sum of what was measured, each with its weight.
LEMMA ScoreIsWeighted ==
  ASSUME TraceOK, NEW c \in CardRecords
  PROVE  LET p == Greatest({1, Cardinality(Perceptual)})
         IN CardScore(c) = c.saved * (55 * p) + c.seen * (55 * FullBytes)
              + c.exact * (5 * (FullBytes * p)) + c.transient * (22 * (FullBytes * p))
              + c.guards * (3 * (FullBytes * p))
  <1> DEFINE p == Greatest({1, Cardinality(Perceptual)})
             F == FullBytes
  <1>1. p \in Nat /\ p > 0
    <2>1. Cardinality(Perceptual) \in Nat /\ 1 \in Int /\ Cardinality(Perceptual) \in Int
      BY PerceptualFinite
    <2>2. p = IF 1 >= Cardinality(Perceptual) THEN 1 ELSE Cardinality(Perceptual)
      BY <2>1, ExtremesOfPair
    <2> HIDE DEF p
    <2>. QED
      BY <2>1, <2>2
  <1>2. F \in Nat
    BY FullBytesPositive
  <1>3. Cardinality(Acts) = 11
    <2>1. 2 \in Int /\ 12 \in Int /\ ~(2 > 12) /\ 12 - 2 + 1 = 11
      OBVIOUS
    <2>2. Cardinality(2 .. 12) = IF 2 > 12 THEN 0 ELSE 12 - 2 + 1
      BY <2>1, FS_Interval
    <2>. QED
      BY <2>1, <2>2, Plans
  <1>4. CardScore(c) = 5 * c.saved * p * 11
          + F * (5 * c.seen * 11 + 5 * c.exact * p + 2 * c.transient * p * 11 + 3 * c.guards * p)
    BY <1>3, Zenon DEF CardScore
  <1>5. c.saved \in Nat /\ c.seen \in Nat /\ c.exact \in Nat /\ c.transient \in Nat /\ c.guards \in Nat
    BY DEF CardRecords
  <1> HIDE DEF p, F
  <1>6. CardScore(c) = c.saved * (55 * p) + c.seen * (55 * F) + c.exact * (5 * (F * p))
          + c.transient * (22 * (F * p)) + c.guards * (3 * (F * p))
    <2> DEFINE a == c.saved
               b == c.seen
               x == c.exact
               t == c.transient
               g == c.guards
    <2>1. a \in Nat /\ b \in Nat /\ x \in Nat /\ t \in Nat /\ g \in Nat
      BY <1>5
    <2>2. CardScore(c) = 5 * a * p * 11 + F * (5 * b * 11 + 5 * x * p + 2 * t * p * 11 + 3 * g * p)
      BY <1>4
    <2> HIDE DEF a, b, x, t, g
    <2>3. CardScore(c) = a * (55 * p) + b * (55 * F) + x * (5 * (F * p)) + t * (22 * (F * p))
                           + g * (3 * (F * p))
      BY <1>1, <1>2, <2>1, <2>2
    <2>. QED
      BY <2>3 DEF a, b, x, t, g
  <1>. QED
    BY <1>6 DEF p, F

\* A card that dominates another has the greater score: every measure counts.
LEMMA DominatingScoresMore ==
  ASSUME TraceOK, NEW c \in CardRecords, NEW d \in CardRecords
  PROVE  /\ CardScore(c) \in Nat /\ CardScore(d) \in Nat
         /\ Dominated(c, d) => CardScore(c) < CardScore(d)
  <1> DEFINE p == Greatest({1, Cardinality(Perceptual)})
             F == FullBytes
             u == 55 * p
             v == 55 * F
             w == 5 * (F * p)
             x == 22 * (F * p)
             y == 3 * (F * p)
  <1>1. p \in Nat \ {0} /\ F \in Nat \ {0}
    <2>1. Cardinality(Perceptual) \in Nat /\ 1 \in Int /\ Cardinality(Perceptual) \in Int
      BY PerceptualFinite
    <2>2. p = IF 1 >= Cardinality(Perceptual) THEN 1 ELSE Cardinality(Perceptual)
      BY <2>1, ExtremesOfPair
    <2> HIDE DEF p
    <2>. QED
      BY <2>1, <2>2, FullBytesPositive
  <1> HIDE DEF p, F
  <1>2. F * p \in Nat /\ F * p > 0
    <2>1. \A a, b \in Nat \ {0} : a * b \in Nat /\ a * b > 0
      OBVIOUS
    <2>. QED
      BY <1>1, <2>1
  <1>3. u \in Nat \ {0} /\ v \in Nat \ {0} /\ w \in Nat \ {0} /\ x \in Nat \ {0} /\ y \in Nat \ {0}
    BY <1>1, <1>2
  <1>4. /\ CardScore(c) = c.saved * u + c.seen * v + c.exact * w + c.transient * x + c.guards * y
        /\ CardScore(d) = d.saved * u + d.seen * v + d.exact * w + d.transient * x + d.guards * y
    BY ScoreIsWeighted DEF p, F
  <1> HIDE DEF u, v, w, x, y
  <1>5. /\ c.saved \in Nat /\ c.seen \in Nat /\ c.exact \in Nat /\ c.transient \in Nat /\ c.guards \in Nat
        /\ d.saved \in Nat /\ d.seen \in Nat /\ d.exact \in Nat /\ d.transient \in Nat /\ d.guards \in Nat
    BY DEF CardRecords
  <1>6. /\ c.saved * u \in Nat /\ d.saved * u \in Nat /\ c.seen * v \in Nat /\ d.seen * v \in Nat
        /\ c.exact * w \in Nat /\ d.exact * w \in Nat /\ c.transient * x \in Nat
        /\ d.transient * x \in Nat /\ c.guards * y \in Nat /\ d.guards * y \in Nat
    BY <1>3, <1>5, ProductGrows
  <1>7. CardScore(c) \in Nat /\ CardScore(d) \in Nat
    BY <1>4, <1>6
  <1>8. ASSUME Dominated(c, d)
        PROVE  CardScore(c) < CardScore(d)
    <2>1. c.saved =< d.saved /\ c.seen =< d.seen /\ c.exact =< d.exact
          /\ c.transient =< d.transient /\ c.guards =< d.guards
      BY <1>5, <1>8 DEF Dominated, Criteria
    <2>2. \/ c.saved < d.saved \/ c.seen < d.seen \/ c.exact < d.exact
          \/ c.transient < d.transient \/ c.guards < d.guards
      BY <1>5, <1>8 DEF Dominated, Criteria
    <2>3. /\ c.saved * u =< d.saved * u /\ (c.saved < d.saved => c.saved * u < d.saved * u)
      BY <1>3, <1>5, <2>1, ProductGrows
    <2>4. /\ c.seen * v =< d.seen * v /\ (c.seen < d.seen => c.seen * v < d.seen * v)
      BY <1>3, <1>5, <2>1, ProductGrows
    <2>5. /\ c.exact * w =< d.exact * w /\ (c.exact < d.exact => c.exact * w < d.exact * w)
      BY <1>3, <1>5, <2>1, ProductGrows
    <2>6. /\ c.transient * x =< d.transient * x
          /\ (c.transient < d.transient => c.transient * x < d.transient * x)
      BY <1>3, <1>5, <2>1, ProductGrows
    <2>7. /\ c.guards * y =< d.guards * y /\ (c.guards < d.guards => c.guards * y < d.guards * y)
      BY <1>3, <1>5, <2>1, ProductGrows
    <2>. QED
      BY <1>4, <1>6, <2>2, <2>3, <2>4, <2>5, <2>6, <2>7
  <1>. QED
    BY <1>7, <1>8

LEMMA Places ==
  /\ \A p \in Policies : Place(p) \in 1 .. 5
  /\ \A p, q \in Policies : Place(p) = Place(q) => p = q
  <1>1. DOMAIN ByName = 1 .. 5
    BY DEF ByName
  <1>2. \A p \in Policies : \E i \in 1 .. 5 : ByName[i] = p
    <2>1. /\ ByName[1] = "always_full" /\ ByName[2] = "governor_roi" /\ ByName[3] = "hybrid_transient"
          /\ ByName[4] = "passive_timeline" /\ ByName[5] = "static_crop"
      BY DEF ByName
    <2>2. 1 \in 1 .. 5 /\ 2 \in 1 .. 5 /\ 3 \in 1 .. 5 /\ 4 \in 1 .. 5 /\ 5 \in 1 .. 5
      OBVIOUS
    <2>. QED
      BY <2>1, <2>2, Zenon DEF Policies
  <1>3. ASSUME NEW p \in Policies
        PROVE  Place(p) \in 1 .. 5 /\ ByName[Place(p)] = p
    BY <1>1, <1>2, Zenon DEF Place
  <1>. QED
    BY <1>3, Zenon

\* The ranking is total: of some cards one comes before the others.
LEMMA SomeCardIsFirst ==
  ASSUME TraceOK, CardsInv, DOMAIN cards # {}
  PROVE  \E p \in DOMAIN cards : \A q \in DOMAIN cards \ {p} : Before(p, q)
  <1> DEFINE value(p) == IF p \in DOMAIN cards THEN CardScore(cards[p]) ELSE 0
             n == value("always_full") + value("static_crop") + value("governor_roi")
                    + value("passive_timeline") + value("hybrid_transient")
             scores == {value(p) : p \in DOMAIN cards}
             best == {p \in DOMAIN cards : value(p) = Greatest(scores)}
             places == {Place(p) : p \in best}
  <1>1. DOMAIN cards \subseteq Policies /\ \A p \in DOMAIN cards : CardScore(cards[p]) \in Nat
    BY DominatingScoresMore DEF CardsInv
  <1>2. \A p : value(p) \in Nat
    BY <1>1
  <1>3. \A p \in DOMAIN cards : value(p) = CardScore(cards[p])
    OBVIOUS
  <1> HIDE DEF value
  <1>4. n \in Nat /\ \A p \in Policies : value(p) =< n
    <2>1. /\ value("always_full") \in Nat /\ value("static_crop") \in Nat /\ value("governor_roi") \in Nat
          /\ value("passive_timeline") \in Nat /\ value("hybrid_transient") \in Nat
      BY <1>2
    <2>. QED
      BY <2>1 DEF Policies
  <1> HIDE DEF n
  <1>5. scores \in SUBSET (0 .. n) /\ scores # {}
    BY <1>1, <1>2, <1>4
  <1>6. Greatest(scores) \in scores /\ \A s \in scores : Greatest(scores) >= s
    <2> HIDE DEF scores
    <2>. QED
      BY <1>4, <1>5, GreatestOfInterval
  <1>7. best # {} /\ \A p \in best, q \in DOMAIN cards : value(p) >= value(q)
    BY <1>6
  <1>8. places \in SUBSET Nat /\ places # {}
    <2>1. \A p \in best : p \in Policies
      BY <1>1
    <2> HIDE DEF best
    <2>2. \A p \in best : Place(p) \in 1 .. 5
      BY <2>1, Places
    <2>3. \A p \in best : Place(p) \in Nat
      BY <2>2
    <2>. QED
      BY <1>7, <2>3
  <1> HIDE DEF scores
  <1>9. Least(places) \in places /\ \A i \in places : Least(places) =< i
    <2> HIDE DEF places
    <2>. QED
      BY <1>8, LeastOfNaturals
  <1>10. PICK p \in best : \A q \in best : Place(p) =< Place(q)
    <2> HIDE DEF best
    <2>1. PICK p \in best : Place(p) = Least(places)
      BY <1>9
    <2>2. \A q \in best : Place(q) \in places
      OBVIOUS
    <2>. QED
      BY <1>9, <2>1, <2>2
  <1>11. ASSUME NEW q \in DOMAIN cards \ {p}
         PROVE  Before(p, q)
    <2>1. p \in DOMAIN cards /\ p \in Policies /\ q \in Policies /\ value(p) >= value(q)
          /\ value(p) \in Nat /\ value(q) \in Nat
      BY <1>1, <1>2, <1>7
    <2>2. CASE value(p) > value(q)
      BY <1>3, <2>1, <2>2 DEF Before
    <2>3. CASE value(p) = value(q)
      <3>1. q \in best
        BY <2>3
      <3>2. Place(p) =< Place(q) /\ Place(p) # Place(q) /\ Place(p) \in 1 .. 5 /\ Place(q) \in 1 .. 5
        BY <1>10, <2>1, <3>1, Places
      <3>3. Place(p) < Place(q)
        BY <3>2
      <3>. QED
        BY <1>3, <2>1, <2>3, <3>3 DEF Before
    <2>. QED
      BY <2>1, <2>2, <2>3
  <1>. QED
    BY <1>11

\* The first one is not dominated.
LEMMA FirstIsPareto ==
  ASSUME TraceOK, CardsInv, NEW p \in DOMAIN cards,
         \A q \in DOMAIN cards \ {p} : Before(p, q)
  PROVE  \A q \in DOMAIN cards : ~Dominated(cards[p], cards[q])
  <1> SUFFICES ASSUME NEW q \in DOMAIN cards, Dominated(cards[p], cards[q])
               PROVE  FALSE
    OBVIOUS
  <1>1. cards[p] \in CardRecords /\ cards[q] \in CardRecords
    BY DEF CardsInv
  <1>2. /\ CardScore(cards[p]) \in Nat /\ CardScore(cards[q]) \in Nat
        /\ CardScore(cards[p]) < CardScore(cards[q])
    BY <1>1, DominatingScoresMore
  <1>3. p # q
    BY <1>2
  <1>4. CardScore(cards[p]) >= CardScore(cards[q])
    BY <1>2, <1>3 DEF Before
  <1>. QED
    BY <1>2, <1>4

----------------------------------------------------------------------------
(* The invariant of a trial.                                               *)

LEMMA TrialInit == Init => TrialInv
  <1> SUFFICES ASSUME Init PROVE TrialInv
    OBVIOUS
  <1>1. /\ kind \in {"benchmark", "provider"} /\ stage = "idle" /\ cards = <<>> /\ recommended = "none"
        /\ arms = IF kind = "provider" THEN Compared ELSE Benchmarked
    BY DEF Init
  <1>2. \/ kind = "provider" /\ Rendered(trace, ActionPlan)
        \/ kind = "benchmark" /\ Rendered(trace, Plan) /\ trace \in Traces
    <2>1. CASE kind = "provider"
      <3>1. trace = ProviderTrace
        BY <2>1 DEF Init
      <3>. QED
        BY <2>1, <3>1, TrialConstants, Zenon
    <2>2. CASE kind = "benchmark"
      <3>1. trace \in Traces
        BY <2>2 DEF Init
      <3>. QED
        BY <2>2, <3>1, TrialConstants, Zenon
    <2>. QED
      BY <1>1, <2>1, <2>2
  <1>3. /\ trace \in Seq(Scenes) /\ (Len(trace) = 5 \/ Len(trace) = 14) /\ Len(Plan) = 11
        /\ kind = "benchmark" => Len(trace) = 14 /\ trace \in Traces
        /\ \A i \in DOMAIN trace : Len(trace[i]) = Len(trace[1])
    BY <1>2, Plans DEF Rendered
  <1>4. TraceOK
    <2>1. DOMAIN trace = 1 .. Len(trace)
      BY <1>3
    <2>2. Len(trace) > 1
      <3>1. Len(trace) = 5 \/ Len(trace) = 14
        BY <1>3, Zenon
      <3>2. \A n \in {5, 14} : n > 1
        OBVIOUS
      <3>. QED
        BY <3>1, <3>2, Zenon
    <2>3. kind = "benchmark" => trace \in Traces /\ Len(trace) = Len(Plan) + 3
      BY <1>3
    <2>4. \A i \in 1 .. Len(trace) : Len(trace[i]) = Width
      BY <1>3, <2>1, Zenon DEF Width
    <2>. QED
      BY <1>3, <2>2, <2>3, <2>4, Zenon DEF TraceOK
  <1>5. arms \in Seq(Policies)
    BY <1>1, Plans
  <1>6. CardsInv
    <2>1. DOMAIN cards = {}
      BY <1>1
    <2>2. kind = "benchmark" => arms = Benchmarked
      BY <1>1
    <2>. QED
      BY <2>1, <2>2 DEF CardsInv, EveryChangeDelivered, TransientKept
  <1>. QED
    BY <1>1, <1>4, <1>5, <1>6 DEF TrialInv

\* A step that measures and ranks nothing.
LEMMA CardsKept ==
  ASSUME TrialInv, UNCHANGED <<fixed, arms, cards>>
  PROVE  /\ kind' \in {"benchmark", "provider"} /\ TraceOK' /\ arms' \in Seq(Policies) /\ CardsInv'
  <1>1. kind' = kind /\ trace' = trace /\ arms' = arms /\ cards' = cards
    BY DEF fixed
  <1>2. TraceOK' /\ Perceptual' = Perceptual /\ Noticed' = Noticed
    BY <1>1, TraceKept DEF TrialInv
  <1>4. CardsInv'
    <2>1. EveryChangeDelivered => EveryChangeDelivered'
      BY <1>1, <1>2 DEF EveryChangeDelivered, Owed
    <2>2. TransientKept => TransientKept'
      BY <1>1, <1>2 DEF TransientKept
    <2>. QED
      BY <1>1, <1>2, <2>1, <2>2 DEF TrialInv, CardsInv
  <1>. QED
    BY <1>1, <1>2, <1>4 DEF TrialInv

\* An arm ends: its scheduler is flushed, and what it delivered is measured.
LEMMA ArmFinishes ==
  ASSUME TrialInv, FinishesArm
  PROVE  TrialInv'
  <1>1. /\ TraceOK /\ ArmInv /\ CardsInv /\ arms \in Seq(Policies) /\ arms # <<>>
        /\ stage' = "idle" /\ arms' = Tail(arms) /\ recommended' = recommended /\ recommended = "none"
        /\ kind' = kind /\ trace' = trace /\ at = Len(trace) /\ at \in Nat
        /\ kind \in {"benchmark", "provider"}
    BY DEF TrialInv, FinishesArm, ArmInv, fixed, TraceOK
  <1>2. /\ TraceOK' /\ Perceptual' = Perceptual /\ Noticed' = Noticed
        /\ arms' \in Seq(Policies) /\ Policy \in Policies
    <2>1. TraceOK' /\ Perceptual' = Perceptual /\ Noticed' = Noticed
      BY <1>1, TraceKept
    <2>2. Tail(arms) \in Seq(Policies) /\ Head(arms) \in Policies
      BY <1>1
    <2>. QED
      BY <1>1, <2>1, <2>2 DEF Policy
  <1>3. /\ InOrder(Flushed, <<>>, Len(trace))
        /\ Covered(Flushed, <<>>, Len(trace), Owed(Policy))
        /\ Policy = "hybrid_transient" /\ Pulse => Parted(Flushed, <<>>, Len(trace))
    <2>1. /\ InOrder(deliveries, pending, at)
          /\ Covered(deliveries, pending, at, Owed(Policy))
          /\ Policy = "hybrid_transient" /\ Pulse => Parted(deliveries, pending, at)
      BY <1>1 DEF ArmInv
    <2>2. CASE pending = <<>>
      BY <1>1, <2>1, <2>2 DEF Flushed
    <2>3. CASE pending # <<>>
      <3>1. at \in Nat /\ at =< Len(trace)
        BY <1>1
      <3>2. /\ InOrder(Append(deliveries, Event(pending)), <<>>, at)
            /\ Covered(Append(deliveries, Event(pending)), <<>>, at, Owed(Policy))
            /\ Parted(deliveries, pending, at) =>
                 Parted(Append(deliveries, Event(pending)), <<>>, at)
        BY <1>1, <2>1, <2>3, <3>1, EventFlushes
      <3>3. Flushed = Append(deliveries, Event(pending))
        BY <2>3 DEF Flushed
      <3>. QED
        BY <1>1, <2>1, <3>2, <3>3
    <2>. QED
      BY <2>2, <2>3
  <1>4. \A p : Owed(p)' = Owed(p)
    BY <1>2 DEF Owed
  <1>5. CASE kind = "provider"
    <2>1. cards' = cards /\ DOMAIN cards = {}
      BY <1>1, <1>5 DEF FinishesArm, CardsInv
    <2>2. CardsInv'
      BY <1>1, <1>5, <2>1 DEF CardsInv, EveryChangeDelivered, TransientKept
    <2>. QED
      BY <1>1, <1>2, <2>2 DEF TrialInv
  <1>6. CASE kind = "benchmark"
    <2> DEFINE c == Card(Flushed)
    <2>1. cards' = [p \in DOMAIN cards \cup {Policy} |-> IF p = Policy THEN c ELSE cards[p]]
      BY <1>6 DEF FinishesArm
    <2>2. c \in CardRecords
      BY <1>1, <1>3, CardIsCard
    <2>3. /\ Owed(Policy) \subseteq c.steps
          /\ Policy = "hybrid_transient" /\ Pulse => c.transient = 1
      BY <1>1, <1>3, <1>6, CardOfCovered
    <2> HIDE DEF c
    <2>4. /\ DOMAIN cards' = DOMAIN cards \cup {Policy}
          /\ cards'[Policy] = c /\ \A p \in DOMAIN cards \ {Policy} : cards'[p] = cards[p]
      BY <2>1
    <2>5. DOMAIN cards' \subseteq Policies /\ \A p \in DOMAIN cards' : cards'[p] \in CardRecords
      BY <1>1, <1>2, <2>2, <2>4 DEF CardsInv
    <2>6. EveryChangeDelivered'
      <3> SUFFICES ASSUME NEW p \in DOMAIN cards'
                   PROVE  Owed(p) \subseteq cards'[p].steps
        BY <1>4 DEF EveryChangeDelivered
      <3>1. CASE p = Policy
        BY <2>3, <2>4, <3>1
      <3>2. CASE p # Policy
        BY <1>1, <2>4, <3>2 DEF CardsInv, EveryChangeDelivered
      <3>. QED
        BY <3>1, <3>2
    <2>7. TransientKept'
      <3> SUFFICES ASSUME "hybrid_transient" \in DOMAIN cards', TransientAt \in Noticed,
                          trace[TransientAt + 1] = trace[TransientAt - 1]
                   PROVE  cards'["hybrid_transient"].transient = 1
        BY <1>1, <1>2 DEF TransientKept
      <3>1. CASE "hybrid_transient" = Policy
        <4>1. Pulse
          BY <1>6 DEF Pulse
        <4>. QED
          BY <2>3, <2>4, <3>1, <4>1
      <3>2. CASE "hybrid_transient" # Policy
        BY <1>1, <2>4, <3>2 DEF CardsInv, TransientKept
      <3>. QED
        BY <3>1, <3>2
    <2>8. CardsInv'
      BY <1>1, <1>2, <1>6, <2>4, <2>5, <2>6, <2>7 DEF CardsInv
    <2>. QED
      BY <1>1, <1>2, <2>8 DEF TrialInv
  <1>. QED
    BY <1>1, <1>5, <1>6

\* The trial ends with its ranking.
LEMMA TrialFinishes ==
  ASSUME TrialInv, Finishes
  PROVE  TrialInv'
  <1>1. /\ stage' = "done" /\ arms = <<>>
        /\ fixed' = fixed /\ arms' = arms /\ cards' = cards /\ recommended = "none"
        /\ TraceOK /\ CardsInv /\ kind \in {"benchmark", "provider"}
    BY DEF Finishes, TrialInv
  <1>2. kind' \in {"benchmark", "provider"} /\ TraceOK' /\ arms' \in Seq(Policies) /\ CardsInv'
    BY <1>1, CardsKept
  <1>3. recommended' # "none" => RecommendedIsPareto'
    <2>1. CASE kind = "provider"
      BY <1>1, <2>1 DEF Finishes
    <2>2. CASE kind = "benchmark"
      <3> DEFINE first == CHOOSE p \in DOMAIN cards : \A q \in DOMAIN cards \ {p} : Before(p, q)
      <3>1. arms # Benchmarked
        BY <1>1 DEF Benchmarked
      <3>2. DOMAIN cards # {}
        BY <1>1, <2>2, <3>1 DEF CardsInv
      <3>3. first \in DOMAIN cards /\ \A q \in DOMAIN cards \ {first} : Before(first, q)
        <4>1. \E p \in DOMAIN cards : \A q \in DOMAIN cards \ {p} : Before(p, q)
          BY <1>1, <3>2, SomeCardIsFirst
        <4>. QED
          BY <4>1, Zenon
      <3>4. recommended' = first
        BY <2>2, Zenon DEF Finishes
      <3> HIDE DEF first
      <3>5. \A q \in DOMAIN cards : ~Dominated(cards[first], cards[q])
        BY <1>1, <3>3, FirstIsPareto
      <3>. QED
        BY <1>1, <3>4, <3>5 DEF RecommendedIsPareto, Dominated
    <2>. QED
      BY <1>1, <2>1, <2>2
  <1>. QED
    BY <1>1, <1>2, <1>3 DEF TrialInv

LEMMA TrialNext ==
  ASSUME TrialInv, [Next]_vars
  PROVE  TrialInv'
  <1>1. ASSUME UNCHANGED <<fixed, arms, cards, recommended>>,
               recommended = "none" \/ stage' = stage,
               stage' \in {"sampling", "asking"} => ArmInv'
        PROVE  TrialInv'
    <2>1. kind' \in {"benchmark", "provider"} /\ TraceOK' /\ arms' \in Seq(Policies) /\ CardsInv'
      BY <1>1, CardsKept
    <2>2. recommended' # "none" => stage' = "done" /\ RecommendedIsPareto'
      BY <1>1 DEF TrialInv, RecommendedIsPareto, Dominated
    <2>. QED
      BY <1>1, <2>1, <2>2 DEF TrialInv
  <1>2. stage # "done" => recommended = "none"
    BY DEF TrialInv
  <1>3. CASE Begins
    <2>1. ArmInv'
      BY <1>3, ArmBegins
    <2>. QED
      BY <1>1, <1>2, <1>3, <2>1 DEF Begins
  <1>4. CASE TakesSample
    <2>1. ArmInv'
      BY <1>4, ArmSamples
    <2>. QED
      BY <1>1, <1>2, <1>4, <2>1 DEF TakesSample
  <1>5. CASE Elapses
    <2>1. ArmInv'
      BY <1>5, ArmKept DEF Elapses, Wait, governor, TrialInv
    <2>. QED
      BY <1>1, <1>2, <1>5, <2>1 DEF Elapses
  <1>6. CASE Inferring
    <2>1. ArmInv'
      BY <1>6, ArmKept DEF Inferring, governor, scheduler, TrialInv
    <2>. QED
      BY <1>1, <1>2, <1>6, <2>1 DEF Inferring
  <1>7. ASSUME NEW cost \in Costs, Answers(cost)
        PROVE  TrialInv'
    <2>1. ArmInv'
      BY <1>7, ArmKept DEF Answers, governor, scheduler, TrialInv
    <2>. QED
      BY <1>1, <1>2, <1>7, <2>1 DEF Answers
  <1>8. CASE Breaks
    BY <1>1, <1>2, <1>8 DEF Breaks
  <1>9. CASE FinishesArm
    BY <1>9, ArmFinishes
  <1>10. CASE Finishes
    BY <1>10, TrialFinishes
  <1>11. CASE UNCHANGED vars
    <2>1. stage \in {"sampling", "asking"} => ArmInv'
      BY <1>11, ArmKept DEF vars, governor, scheduler, TrialInv
    <2>. QED
      BY <1>1, <1>11, <2>1 DEF vars
  <1>. QED
    BY <1>3, <1>4, <1>5, <1>6, <1>7, <1>8, <1>9, <1>10, <1>11 DEF Next

\* No policy but the fixed crop loses a change it has noticed, for every trace and every
\* setting of the governor and the scheduler: a change that the governor does not skip is in
\* the crop of a delivery, and the policy without a governor delivers all that the audit can
\* see.
THEOREM TrialsDeliverEveryChange == Spec => []EveryChangeDelivered
  <1>1. TrialInv => EveryChangeDelivered
    BY DEF TrialInv, CardsInv
  <1>. QED
    BY <1>1, TrialInit, TrialNext, PTL DEF Spec

\* The hybrid policy delivers a transient that the governor does not take for noise as it
\* was, for every trace and setting, wherever bursts end and keyframes fall: the reversal
\* flushes what is pending before it is sampled.
THEOREM TrialsKeepTheTransient == Spec => []TransientKept
  <1>1. TrialInv => TransientKept
    BY DEF TrialInv, CardsInv
  <1>. QED
    BY <1>1, TrialInit, TrialNext, PTL DEF Spec

\* The recommended policy is Pareto optimal in what was measured, for every trace and
\* every setting: each measure has a positive weight, and the ranking is total.
THEOREM TrialsRecommendPareto == Spec => []RecommendedIsPareto
  <1>1. TrialInv => RecommendedIsPareto
    BY DEF TrialInv, RecommendedIsPareto
  <1>. QED
    BY <1>1, TrialInit, TrialNext, PTL DEF Spec
=============================================================================
