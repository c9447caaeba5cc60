--------------------------- MODULE AgentRunProofs ---------------------------
(* Proofs about AgentRun, for any scenes, thresholds and requests, and      *)
(* however many edits others make and episodes follow each other.           *)
EXTENDS AgentRun, TLAPS

Canvases == [scene : Scenes, version : Nat]

Governors == [previous : Scenes \cup {<<>>}, sequence : Int, last : Int, forced : BOOLEAN]

\* A provider that remembers k knows the scene, but for what the thresholds left out.
Knows(k, scene) ==
  \A x \in DOMAIN scene : x \in DOMAIN k.seen /\ (k.seen[x] = scene[x] \/ x \in k.drift)

AgentTypeOK ==
  /\ canvas \in Canvases /\ frame \in Canvases
  /\ phase \in {"idle", "asking"} /\ request \in Request
  /\ iteration \in Int /\ tokens \in Nat
  /\ gov \in Governors /\ rejected \in BOOLEAN

\* While the provider is asked, the governor's last observation is the frame, the provider
\* knows it, and there are tokens left.
AgentInv ==
  /\ AgentTypeOK
  /\ phase = "asking" =>
       /\ request.mode = "governed" => gov.previous = frame.scene
       /\ request.mode # "crop" => Knows(known, frame.scene)
       /\ request.mode # "crop" /\ rejected => shown = DOMAIN frame.scene
       /\ request.budget # Unlimited => tokens < request.budget

----------------------------------------------------------------------------
(* What is delivered.                                                       *)

\* No observation is skipped when a keyframe is due; one that is delivered to a new or a
\* forced governor, or without one, is the whole scene.
LEMMA DeliveredWhole ==
  ASSUME NEW g \in Governors, NEW scene \in Scenes, NEW mode \in Modes \ {"crop"}
  PROVE  LET d == Decided(g, scene, mode)
         IN /\ d.disposition = "skip" => mode = "governed" /\ Repeats(g, d) \in Nat
            /\ g.previous = <<>> \/ g.forced \/ mode = "full" =>
                 Delivered(d, scene).region = DOMAIN scene
<1>1. CASE mode = "full"
  BY <1>1 DEF Decided, Delivered, Decision
<1>2. CASE mode = "governed"
  <2> DEFINE d == Decide(g.previous, scene, g.sequence + 1, g.last, g.forced)
  <2>1. Decided(g, scene, mode) = d
    BY <1>2 DEF Decided
  <2>2. CASE \/ g.previous = <<>> \/ Len(g.previous) # Len(scene) \/ g.forced
             \/ Due(g.sequence + 1, g.last)
    <3>1. d = Decision("keyframe", DOMAIN scene)
      BY <2>2 DEF Decide
    <3>2. QED
      BY <1>2, <2>1, <3>1 DEF Delivered, Decision
  <2>3. CASE ~(\/ g.previous = <<>> \/ Len(g.previous) # Len(scene) \/ g.forced
               \/ Due(g.sequence + 1, g.last))
    <3>1. g.sequence \in Int /\ g.last \in Int /\ KeyframeInterval \in Nat
      BY GovernorConstants DEF Governors
    <3>2. g.last + KeyframeInterval - g.sequence - 1 \in Nat
      BY <2>3, <3>1 DEF Due
    <3>3. Repeats(g, d) \in Nat
      BY <3>2 DEF Repeats
    <3> HIDE DEF d
    <3>4. QED
      BY <1>2, <2>1, <2>3, <3>3
  <2>4. QED
    BY <2>2, <2>3
<1>3. QED
  BY <1>1, <1>2 DEF Modes

\* Pasting a delivery over what was known of the last observation leaves no hole.
LEMMA PastedKnows ==
  ASSUME NEW k, NEW g, NEW scene \in Scenes, NEW region,
         \/ region = DOMAIN scene
         \/ g.previous \in Scenes /\ Knows(k, g.previous)
  PROVE  Knows(Pasted(k, g, scene, region), scene)
<1> DEFINE after == Pasted(k, g, scene, region)
<1> SUFFICES ASSUME NEW x \in DOMAIN scene
             PROVE  x \in DOMAIN after.seen
                      /\ (after.seen[x] = scene[x] \/ x \in after.drift)
  BY DEF Knows
<1>1. after.seen = [y \in region \cup DOMAIN k.seen |->
                      IF y \in region THEN scene[y] ELSE k.seen[y]]
  BY DEF Pasted
<1>2. CASE x \in region
  BY <1>1, <1>2
<1>3. CASE x \notin region
  <2>1. region # DOMAIN scene
    BY <1>3
  <2>2. g.previous \in Scenes /\ Knows(k, g.previous)
    BY <2>1
  <2>3. Len(g.previous) = Len(scene) /\ DOMAIN g.previous = DOMAIN scene
    BY <2>2, AgentConstants
  <2>4. x \in DOMAIN k.seen /\ (k.seen[x] = g.previous[x] \/ x \in k.drift)
    BY <2>2, <2>3 DEF Knows
  <2>5. after.drift = k.drift \cup LeftOut(g.previous, scene, region)
    BY <2>1 DEF Pasted
  <2>6. after.seen[x] = k.seen[x] /\ x \in DOMAIN after.seen
    BY <1>1, <1>3, <2>4
  <2>7. g.previous[x] # scene[x] => x \in LeftOut(g.previous, scene, region)
    BY <1>3, <2>3 DEF LeftOut
  <2> HIDE DEF after
  <2>8. QED
    BY <2>4, <2>5, <2>6, <2>7
<1>4. QED
  BY <1>2, <1>3

----------------------------------------------------------------------------
(* The loop.                                                                *)

LEMMA ObservedTyped ==
  ASSUME NEW g \in Governors, NEW scene \in Scenes, NEW n \in Int, NEW d, NEW mode
  PROVE  /\ Observed(g, scene, n, d, mode) \in Governors
         /\ mode = "governed" /\ n # 0 => Observed(g, scene, n, d, mode).previous = scene
BY DEF Observed, Governors

\* A next question is about the observation the governor keeps, with tokens left.
LEMMA Proceeding ==
  ASSUME NEW i \in Int, NEW c \in Canvases, NEW r \in Request, NEW g \in Governors, NEW k,
         NEW late \in BOOLEAN, NEW used \in Nat,
         iteration \in Int, rejected \in BOOLEAN, request' = r,
         Proceeds(i, c, r, g, k, late, used),
         r.mode = "governed" =>
           g.previous = <<>> \/ (g.previous \in Scenes /\ Knows(k, g.previous)),
         late => g.forced
  PROVE  AgentInv'
<1> DEFINE decided == Decided(g, c.scene, r.mode)
           repeats == Repeats(g, decided)
           d       == Delivered(decided, c.scene)
           out     == i + repeats > r.iterations
<1>1. c.scene \in Scenes /\ r.mode \in Modes /\ r.iterations \in Int
      /\ r.budget \in (Nat \ {0}) \cup {Unlimited}
  <2>1. c.scene \in Scenes
    BY DEF Canvases
  <2>2. r.mode \in Modes /\ r.iterations \in 1 .. 50
        /\ r.budget \in (Nat \ {0}) \cup {Unlimited}
    <3>1. r \in Request => r.iterations \in 1 .. 50
      BY SMT DEF Request
    <3>2. r \in Request => r.mode \in Modes /\ r.budget \in (Nat \ {0}) \cup {Unlimited}
      BY SMT DEF Request
    <3>3. QED
      BY <3>1, <3>2, Zenon
  <2>3. \A n \in 1 .. 50 : n \in Int
    OBVIOUS
  <2>4. QED
    BY <2>1, <2>2, <2>3, Zenon
<1>2. repeats \in Nat
  <2>1. CASE r.mode = "crop"
    BY <2>1 DEF Decided, Decision, Repeats
  <2>2. CASE r.mode # "crop"
    <3>1. decided.disposition = "skip" => repeats \in Nat
      BY <1>1, <2>2, DeliveredWhole
    <3>2. decided.disposition # "skip" => repeats = 0
      BY DEF Repeats
    <3>3. QED
      BY <3>1, <3>2
  <2>3. QED
    BY <2>1, <2>2
<1>3. /\ canvas' = c /\ frame' = c /\ tokens' = used
      /\ gov' = IF out THEN Observed(g, c.scene, r.iterations + 1 - i, decided, r.mode)
                ELSE Observed(g, c.scene, repeats + 1, d, r.mode)
      /\ IF out THEN Ends("failed")
         ELSE IF Spent(used, r.budget) THEN Ends("stopped")
         ELSE /\ phase' = "asking" /\ outcome' = "none"
              /\ iteration' = i + repeats
              /\ shown' = d.region
              /\ known' = Pasted(k, g, c.scene, d.region)
              /\ rejected' = late
  BY DEF Proceeds
<1>4. r.mode # "crop" /\ (g.previous = <<>> \/ g.forced \/ r.mode = "full") =>
        d.region = DOMAIN c.scene
  BY <1>1, DeliveredWhole
<1> HIDE DEF decided, repeats, d, out
<1>5. gov' \in Governors
  <2>1. r.iterations + 1 - i \in Int /\ repeats + 1 \in Int
    BY <1>1, <1>2
  <2>2. QED
    BY <1>1, <1>3, <2>1, ObservedTyped
<1>6. CASE phase' = "asking"
  <2>1. /\ ~out /\ ~Spent(used, r.budget)
        /\ iteration' = i + repeats /\ shown' = d.region
        /\ known' = Pasted(k, g, c.scene, d.region) /\ rejected' = late
    BY <1>3, <1>6 DEF Ends
  <2>2. AgentTypeOK'
    BY <1>2, <1>3, <1>5, <1>6, <2>1 DEF AgentTypeOK
  <2>3. r.mode = "governed" => gov'.previous = frame'.scene
    <3>1. repeats + 1 \in Int /\ repeats + 1 # 0
      BY <1>2
    <3>2. QED
      BY <1>1, <1>3, <2>1, <3>1, ObservedTyped
  <2>4. r.mode # "crop" => Knows(known', frame'.scene)
    <3> SUFFICES ASSUME r.mode # "crop"
                 PROVE  Knows(Pasted(k, g, c.scene, d.region), c.scene)
      BY <1>3, <2>1
    <3>1. \/ d.region = DOMAIN c.scene
          \/ g.previous \in Scenes /\ Knows(k, g.previous)
      BY <1>1, <1>4 DEF Modes
    <3>2. QED
      BY <1>1, <3>1, PastedKnows
  <2>5. r.mode # "crop" /\ rejected' => shown' = DOMAIN frame'.scene
    BY <1>3, <1>4, <2>1
  <2>6. r.budget # Unlimited => tokens' < r.budget
    BY <1>1, <1>3, <2>1 DEF Spent
  <2>7. QED
    BY <2>2, <2>3, <2>4, <2>5, <2>6 DEF AgentInv
<1>7. CASE phase' # "asking"
  <2>1. phase' = "idle" /\ iteration' = iteration /\ rejected' = rejected
    BY <1>3, <1>7 DEF Ends
  <2>2. QED
    BY <1>3, <1>5, <2>1 DEF AgentInv, AgentTypeOK
<1>8. QED
  BY <1>6, <1>7

----------------------------------------------------------------------------
(* The steps.                                                               *)

LEMMA AgentInit == Init => AgentInv
<1> SUFFICES ASSUME Init PROVE AgentInv
  OBVIOUS
<1>1. request \in Request
  BY AgentConstants DEF Init
<1>2. NewGovernor \in Governors
  BY DEF NewGovernor, Governors
<1>3. canvas \in Canvases /\ frame \in Canvases
  BY DEF Init, Canvases
<1>4. phase = "idle" /\ iteration = 0 /\ tokens = 0 /\ gov = NewGovernor /\ rejected = FALSE
  BY DEF Init
<1>5. phase \in {"idle", "asking"} /\ rejected \in BOOLEAN /\ iteration \in Int /\ tokens \in Nat
  <2>1. phase \in {"idle", "asking"} /\ rejected \in BOOLEAN
    BY <1>4, Zenon
  <2>2. iteration \in Int /\ tokens \in Nat
    BY <1>4
  <2>3. QED
    BY <2>1, <2>2
<1>6. AgentTypeOK
  BY <1>1, <1>2, <1>3, <1>4, <1>5, Zenon DEF AgentTypeOK
<1>7. QED
  BY <1>4, <1>6 DEF AgentInv

LEMMA StartStep ==
  ASSUME AgentInv, NEW r \in Requests, Start(r)
  PROVE  AgentInv'
<1> DEFINE c == IF r.reset THEN [scene |-> Benchmark, version |-> canvas.version + 1]
                ELSE canvas
<1>1. c \in Canvases
  BY AgentConstants DEF AgentInv, AgentTypeOK, Canvases
<1>2. r \in Request
  BY AgentConstants
<1>3. Governing(r) \in Governors /\ (r.mode = "governed" => Governing(r).previous = <<>>)
  BY DEF Governing, NewGovernor, Governors, AgentInv, AgentTypeOK
<1>4. Proceeds(1, c, r, Governing(r), Nothing, FALSE, 0) /\ request' = r
  BY DEF Start
<1>5. iteration \in Int /\ rejected \in BOOLEAN
  BY DEF AgentInv, AgentTypeOK
<1> HIDE DEF c
<1>6. AgentInv'
  <2>1. 1 \in Int /\ 0 \in Nat /\ FALSE \in BOOLEAN
    OBVIOUS
  <2> HIDE DEF Proceeds
  <2>2. QED
    BY <1>1, <1>2, <1>3, <1>4, <1>5, <2>1, Proceeding, Zenon
<1>7. QED
  BY <1>6

LEMMA GestureStep ==
  ASSUME AgentInv, NEW scene \in Scenes, Gesture(scene)
  PROVE  AgentInv'
<1> DEFINE c == [scene |-> scene, version |-> canvas.version + 1]
<1>1. c \in Canvases
  BY DEF AgentInv, AgentTypeOK, Canvases
<1>2. phase = "asking" /\ request' = request
  BY DEF Gesture
<1>3. PICK u \in Usages :
        IF scene \in Solved
        THEN /\ canvas' = c /\ tokens' = tokens + u
             /\ Ends("completed")
             /\ UNCHANGED <<frame, leased, gov>>
        ELSE Proceeds(iteration + 1, c, request, gov, known, FALSE, tokens + u)
  BY DEF Gesture
<1>4. tokens + u \in Nat /\ iteration + 1 \in Int
  BY AgentConstants DEF AgentInv, AgentTypeOK
<1> HIDE DEF c
<1>5. CASE scene \in Solved
  BY <1>1, <1>2, <1>3, <1>4, <1>5 DEF Ends, AgentInv, AgentTypeOK
<1>6. CASE scene \notin Solved
  <2>1. Proceeds(iteration + 1, c, request, gov, known, FALSE, tokens + u)
    BY <1>3, <1>6
  <2>2. request.mode = "governed" => gov.previous \in Scenes /\ Knows(known, gov.previous)
    BY <1>2 DEF AgentInv, AgentTypeOK, Canvases
  <2>3. request \in Request /\ gov \in Governors /\ iteration \in Int /\ rejected \in BOOLEAN
    BY DEF AgentInv, AgentTypeOK
  <2>4. QED
    BY <1>1, <1>2, <1>4, <2>1, <2>2, <2>3, Proceeding
<1>7. QED
  BY <1>5, <1>6

LEMMA RejectedStep ==
  ASSUME AgentInv, Rejected
  PROVE  AgentInv'
<1>1. phase = "asking" /\ request' = request
  BY DEF Rejected
<1>2. PICK u \in Usages :
        Proceeds(iteration + 1, canvas, request, Recovering(gov), known, TRUE, tokens + u)
  BY DEF Rejected
<1>3. tokens + u \in Nat /\ iteration + 1 \in Int
  BY AgentConstants DEF AgentInv, AgentTypeOK
<1>4. /\ Recovering(gov) \in Governors /\ Recovering(gov).forced
      /\ Recovering(gov).previous = gov.previous
  BY DEF Recovering, Governors, AgentInv, AgentTypeOK
<1>5. request.mode = "governed" => gov.previous \in Scenes /\ Knows(known, gov.previous)
  BY <1>1 DEF AgentInv, AgentTypeOK, Canvases
<1>6. request \in Request /\ canvas \in Canvases /\ iteration \in Int /\ rejected \in BOOLEAN
  BY DEF AgentInv, AgentTypeOK
<1>7. QED
  BY <1>1, <1>2, <1>3, <1>4, <1>5, <1>6, Proceeding

LEMMA AgentStep ==
  ASSUME AgentInv, [Next]_vars
  PROVE  AgentInv'
<1>1. CASE \E r \in Requests : Start(r)
  BY <1>1, StartStep
<1>2. CASE \E success \in BOOLEAN : Stops(success)
  <2>1. PICK u \in Usages : tokens' = tokens + u
    BY <1>2 DEF Stops
  <2>2. tokens' \in Nat
    BY <2>1, AgentConstants DEF AgentInv, AgentTypeOK
  <2>3. QED
    BY <1>2, <2>2 DEF Stops, Ends, AgentInv, AgentTypeOK
<1>3. CASE \E scene \in Scenes : Gesture(scene)
  BY <1>3, GestureStep
<1>4. CASE Rejected
  BY <1>4, RejectedStep
<1>5. CASE Throws
  <2>1. canvas' \in Canvases
    BY <1>5 DEF Throws, AgentInv, AgentTypeOK, Canvases
  <2>2. QED
    BY <1>5, <2>1 DEF Throws, Ends, AgentInv, AgentTypeOK
<1>6. CASE ForeignEdit
  <2>1. canvas' \in Canvases
    BY <1>6 DEF ForeignEdit, AgentInv, AgentTypeOK, Canvases
  <2>2. QED
    BY <1>6, <2>1 DEF ForeignEdit, AgentInv, AgentTypeOK
<1>7. CASE FrameLost
  BY <1>7 DEF FrameLost, AgentInv, AgentTypeOK
<1>8. CASE UNCHANGED vars
  BY <1>8 DEF vars, AgentInv, AgentTypeOK
<1>9. QED
  BY <1>1, <1>2, <1>3, <1>4, <1>5, <1>6, <1>7, <1>8 DEF Next, Answer

THEOREM AgentInvariant == Spec => []AgentInv
BY AgentInit, AgentStep, PTL DEF Spec

----------------------------------------------------------------------------
(* The theorems.                                                            *)

\* The provider knows the frame it is asked about but for changes below the thresholds,
\* through crops, skips, rejected answers and the episodes of other providers: the
\* governor's last observation is always the frame of the question.
THEOREM ProviderKnowsTheFrame == Spec => []KnowsTheFrame
<1>1. AgentInv => KnowsTheFrame
  BY DEF AgentInv, KnowsTheFrame, Knows
<1>2. QED
  BY <1>1, AgentInvariant, PTL

\* The question after an answer that came too late shows the whole new frame.
THEOREM RejectionForcesKeyframe == Spec => []RecoversWithKeyframe
<1>1. AgentInv => RecoversWithKeyframe
  BY DEF AgentInv, RecoversWithKeyframe
<1>2. QED
  BY <1>1, AgentInvariant, PTL

\* How a step changes the tokens: an episode starts with none, and an answer adds some.
LEMMA TokensStep ==
  ASSUME AgentInv, [Next]_vars
  PROVE  \/ tokens' = tokens /\ request' = request
         \/ tokens' = 0 /\ request' \in Requests
         \/ phase = "asking" /\ request' = request /\ \E u \in Usages : tokens' = tokens + u
<1>1. CASE \E r \in Requests : Start(r)
  BY <1>1 DEF Start, Proceeds
<1>2. CASE \E success \in BOOLEAN : Stops(success)
  BY <1>2 DEF Stops
<1>3. CASE \E scene \in Scenes : Gesture(scene)
  BY <1>3 DEF Gesture, Proceeds
<1>4. CASE Rejected
  BY <1>4 DEF Rejected, Proceeds
<1>5. CASE Throws \/ ForeignEdit \/ FrameLost \/ UNCHANGED vars
  BY <1>5 DEF Throws, ForeignEdit, FrameLost, vars
<1>6. QED
  BY <1>1, <1>2, <1>3, <1>4, <1>5 DEF Next, Answer

\* If one answer costs at most `top' tokens, an episode passes its budget by less than
\* that: a question is asked with a token left, and it adds the tokens of one answer.
THEOREM BudgetPassedByOneAnswer ==
  ASSUME NEW top \in Usages, \A u \in Usages : u =< top
  PROVE  Spec => []BudgetOverrun
<1>1. Greatest(Usages) \in Nat /\ \A u \in Usages : u =< Greatest(Usages)
  <2>1. \A u \in Usages : u \in Nat
    BY AgentConstants
  <2>2. \E x \in Usages : \A y \in Usages : x >= y
    BY <2>1
  <2>3. Greatest(Usages) \in Usages /\ \A y \in Usages : Greatest(Usages) >= y
    BY <2>2, Zenon DEF Greatest
  <2>4. QED
    BY <2>1, <2>3
<1>2. \A r \in Request : r.budget # Unlimited => r.budget \in Nat /\ r.budget > 0
  <2> SUFFICES ASSUME NEW r \in Request, r.budget # Unlimited
               PROVE  r.budget \in Nat /\ r.budget > 0
    OBVIOUS
  <2>1. r.budget \in (Nat \ {0}) \cup {Unlimited}
    BY SMT DEF Request
  <2>2. QED
    BY <2>1
<1>3. Init => BudgetOverrun
  <2> SUFFICES ASSUME Init, request.budget # Unlimited
               PROVE  tokens < request.budget + Greatest(Usages)
    BY DEF BudgetOverrun
  <2>1. request \in Request /\ tokens = 0
    BY AgentConstants DEF Init
  <2>2. QED
    BY <1>1, <1>2, <2>1
<1>4. AgentInv /\ BudgetOverrun /\ [Next]_vars => BudgetOverrun'
  <2> SUFFICES ASSUME AgentInv, BudgetOverrun, [Next]_vars, request'.budget # Unlimited
               PROVE  tokens' < request'.budget + Greatest(Usages)
    BY DEF BudgetOverrun
  <2>1. CASE tokens' = tokens /\ request' = request
    BY <2>1 DEF BudgetOverrun
  <2>2. CASE tokens' = 0 /\ request' \in Requests
    BY <2>2, <1>1, <1>2, AgentConstants
  <2>3. CASE phase = "asking" /\ request' = request /\ \E u \in Usages : tokens' = tokens + u
    <3>1. request.budget \in Nat /\ tokens < request.budget /\ tokens \in Nat
      BY <1>2, <2>3 DEF AgentInv, AgentTypeOK
    <3>2. PICK u \in Usages : tokens' = tokens + u
      BY <2>3
    <3>3. u \in Nat /\ u =< Greatest(Usages)
      BY <1>1, AgentConstants
    <3>4. QED
      BY <1>1, <2>3, <3>1, <3>2, <3>3
  <2>4. QED
    BY <2>1, <2>2, <2>3, TokensStep
<1>5. QED
  BY <1>3, <1>4, AgentInvariant, PTL DEF Spec
=============================================================================
