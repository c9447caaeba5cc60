---------------------------- MODULE NvclRunProofs ----------------------------
(***************************************************************************)
(* Proofs about NvclRun, for any number of objects, iterations, failing    *)
(* calls and writes of other clients, and any decisions of the agent: what *)
(* is folded into the parent tells of the child since it was verified last *)
(* (FoldSafe), and for an owner who writes alone a failed run leaves the   *)
(* workspace as it was (FailureSafe) and reports its best score for the    *)
(* state it restored (BestSafe).                                           *)
(***************************************************************************)
EXTENDS NvclRun, TLAPS

\* Where the child run is in its loop, or on its way out of it.
Loop == {"top", "look", "verify", "render", "score", "decide", "act",
         "restore", "relook", "reverify", "rerender"}

\* Where the loop may go on.
Going == {"snapshot", "open", "begin", "top", "look", "verify", "render", "score", "decide",
          "act"}

\* The workspace and what may be restored are workspaces, and the budget of iterations is
\* not used up while the loop goes on.
RunType ==
  /\ ws \in Workspaces
  /\ at = "snapshot" => Gone
  /\ at \notin {"snapshot", "rejected"} => parent \in Workspaces
  /\ at \in Loop => best.state \in Workspaces
  /\ iteration \in Nat
  /\ at \in Going => iteration < MaxIterations

LEMMA TypeStart == Init => RunType
BY NvclConstants DEF Init, RunType, Workspaces, Grades, Gone, Loop, Going

\* A write of an object leaves a workspace.
LEMMA WrittenWorkspace ==
  ASSUME NEW w \in Workspaces, NEW i \in Items, NEW g \in Grades,
         NEW w2, w2 = [w EXCEPT !.items[i] = g]
  PROVE  w2 \in Workspaces
BY DEF Workspaces

\* So does a write of the portal, and it leaves the objects.
LEMMA PortalWorkspace ==
  ASSUME NEW w \in Workspaces, NEW p \in {"none", "open", "folded"},
         NEW w2, w2 = [w EXCEPT !.portal = p]
  PROVE  w2 \in Workspaces /\ w2.items = w.items /\ w2.portal = p
BY DEF Workspaces

LEMMA TypeStep == RunType /\ [Next]_vars => RunType'
<1> SUFFICES ASSUME RunType, [Next]_vars PROVE RunType'
  OBVIOUS
<1> USE NvclConstants
<1>1. CASE ParentSnapshot
  BY <1>1 DEF ParentSnapshot, Goes, work, around, RunType, Gone, Loop, Going
<1>2. CASE OpenChild
    BY <1>2, PortalWorkspace DEF OpenChild, Cancels, Goes, work, around, RunType, Gone,
     Loop, Going
<1>3. CASE Begin
    BY <1>3 DEF Begin, Cancels, OnChild, Goes, Fails, work, around, RunType, Gone, Loop,
     Going
<1>4. CASE Top
  BY <1>4 DEF Top, Quietly, work, around, RunType, Gone, Loop, Going
<1>5. CASE Look
  BY <1>5 DEF Look, Fails, Quietly, work, around, RunType, Gone, Loop, Going
<1>6. CASE Verify
  BY <1>6 DEF Verify, Fails, Quietly, work, around, RunType, Gone, Loop, Going
<1>7. CASE Render
    BY <1>7 DEF Render, OnChild, Goes, Fails, Quietly, work, around, RunType, Gone,
     Loop, Going
<1>8. CASE KeepBest
    BY <1>8 DEF KeepBest, Improves, Less, OnChild, Goes, Fails, work, around, RunType,
     Gone, Loop, Going
<1>9. CASE Decide
  BY <1>9 DEF Decide, Quietly, work, around, RunType, Gone, Loop, Going
<1>10. CASE Undecided
  BY <1>10 DEF Undecided, Fails, Quietly, work, around, RunType, Gone, Loop, Going
<1>11. CASE Act
  <2>1. at = "act" /\ iteration \in Nat /\ iteration < MaxIterations
    BY <1>11 DEF Act, RunType, Going
  <2>2. ws' \in Workspaces
    <3>1. ws' = ws \/ \E i \in Items, g \in Grades : ws' = [ws EXCEPT !.items[i] = g]
      BY <1>11 DEF Act, Effect, NoEffect
    <3> QED BY <3>1, WrittenWorkspace DEF RunType
  <2>3. \E ok \in BOOLEAN : AfterCall(ok)
    BY <1>11 DEF Act
  <2>4. /\ iteration' = iteration + 1
        /\ at' \in {"restore", "top"}
        /\ at' = "top" => iteration' # MaxIterations
    BY <2>3 DEF AfterCall, Counts
  <2>5. iteration' \in Nat /\ (at' = "top" => iteration' < MaxIterations)
    BY <2>1, <2>4
  <2>6. parent' = parent /\ best' = best
    BY <1>11 DEF Act
  <2> QED BY <2>1, <2>2, <2>4, <2>5, <2>6 DEF RunType, Gone, Loop, Going
<1>12. CASE RestoreBest
  BY <1>12 DEF RestoreBest, Goes, Restored, work, around, RunType, Gone, Loop, Going
<1>13. CASE Return
  BY <1>13 DEF Return, Quietly, work, around, RunType, Gone, Loop, Going
<1>14. CASE GetState
  BY <1>14 DEF GetState, Fails, Quietly, work, around, RunType, Gone, Loop, Going
<1>15. CASE FoldChild
  BY <1>15, PortalWorkspace DEF FoldChild, Fails, work, around, RunType, Gone, Loop, Going
<1>16. CASE Lineage
  BY <1>16 DEF Lineage, Fails, Quietly, work, around, RunType, Gone, Loop, Going
<1>17. CASE Undo
  BY <1>17 DEF Undo, Goes, Restored, TakenBack, work, around, RunType, Gone, Loop, Going
<1>18. CASE Fault
    BY <1>18, PortalWorkspace DEF Fault, Goes, Fails, Restored, work, around, RunType,
     Gone, Loop, Going
<1>19. CASE Abort
  BY <1>19 DEF Abort, Over, work, around, RunType, Gone, Loop, Going
<1>20. CASE Foreign
  <2>1. at \notin {"snapshot", "rejected"}
    BY <1>20 DEF Foreign, Over, RunType
  <2>2. ws' \in Workspaces
    <3>1. ws' = parent \/ \E i \in Items, g \in Grades : ws' = [ws EXCEPT !.items[i] = g]
      BY <1>20 DEF Foreign
    <3> QED BY <2>1, <3>1, WrittenWorkspace DEF RunType
  <2> QED BY <1>20, <2>1, <2>2 DEF Foreign, work, RunType, Loop, Going
<1>21. CASE UNCHANGED vars
  BY <1>21 DEF vars, work, around, RunType, Gone, Loop, Going
<1> QED BY <1>1, <1>2, <1>3, <1>4, <1>5, <1>6, <1>7, <1>8, <1>9, <1>10, <1>11, <1>12,
       <1>13, <1>14, <1>15, <1>16, <1>17, <1>18, <1>19, <1>20, <1>21
       DEF Next, Step

LEMMA TypeHolds == Spec => []RunType
BY TypeStart, TypeStep, PTL DEF Spec

----------------------------------------------------------------------------
(* Taking back.                                                            *)

\* A run that reports failure or cancellation has ended with a restore of the parent
\* snapshot, at whichever call it failed (the catch block of RecursiveNvclRuntime.run).  A
\* client that may restore is an owner: for others the restore is denied and nobody looks.
THEOREM FailureSafe ==
  ASSUME Role = "owner"
  PROVE  Spec => []FailureLeavesParent
<1>1. Init => FailureLeavesParent
  BY DEF Init, FailureLeavesParent
<1>2. FailureLeavesParent /\ [Next]_vars => FailureLeavesParent'
  <2> SUFFICES ASSUME FailureLeavesParent, [Next]_vars PROVE FailureLeavesParent'
    OBVIOUS
  <2>1. CASE ParentSnapshot
    BY <2>1 DEF ParentSnapshot, Goes, work, around, FailureLeavesParent
  <2>2. CASE OpenChild
    BY <2>2 DEF OpenChild, Cancels, Goes, work, around, FailureLeavesParent
  <2>3. CASE Begin
    BY <2>3 DEF Begin, Cancels, OnChild, Goes, Fails, work, around, FailureLeavesParent
  <2>4. CASE Top
    BY <2>4 DEF Top, Quietly, work, around, FailureLeavesParent
  <2>5. CASE Look
    BY <2>5 DEF Look, Fails, Quietly, work, around, FailureLeavesParent
  <2>6. CASE Verify
    BY <2>6 DEF Verify, Fails, Quietly, work, around, FailureLeavesParent
  <2>7. CASE Render
    BY <2>7 DEF Render, OnChild, Goes, Fails, Quietly, work, around, FailureLeavesParent
  <2>8. CASE KeepBest
      BY <2>8 DEF KeepBest, Improves, Less, OnChild, Goes, Fails, work, around,
       FailureLeavesParent
  <2>9. CASE Decide
    BY <2>9 DEF Decide, Quietly, work, around, FailureLeavesParent
  <2>10. CASE Undecided
    BY <2>10 DEF Undecided, Fails, Quietly, work, around, FailureLeavesParent
  <2>11. CASE Act
    BY <2>11 DEF Act, AfterCall, Counts, Effect, NoEffect, work, around, FailureLeavesParent
  <2>12. CASE RestoreBest
    BY <2>12 DEF RestoreBest, Goes, Restored, work, around, FailureLeavesParent
  <2>13. CASE Return
    BY <2>13 DEF Return, Quietly, work, around, FailureLeavesParent
  <2>14. CASE GetState
    BY <2>14 DEF GetState, Fails, Quietly, work, around, FailureLeavesParent
  <2>15. CASE FoldChild
    BY <2>15 DEF FoldChild, Fails, work, around, FailureLeavesParent
  <2>16. CASE Lineage
    BY <2>16 DEF Lineage, Fails, Quietly, work, around, FailureLeavesParent
  <2>17. CASE Undo
    BY <2>17 DEF Undo, Goes, Restored, TakenBack, work, around, FailureLeavesParent
  <2>18. CASE Fault
    BY <2>18 DEF Fault, Goes, Fails, Restored, work, around, FailureLeavesParent
  <2>19. CASE Abort
    BY <2>19 DEF Abort, Over, work, around, FailureLeavesParent
  <2>20. CASE Foreign
    BY <2>20 DEF Foreign, Over, work, around, FailureLeavesParent
  <2>21. CASE UNCHANGED vars
    BY <2>21 DEF vars, work, around, FailureLeavesParent
  <2> QED BY <2>1, <2>2, <2>3, <2>4, <2>5, <2>6, <2>7, <2>8, <2>9, <2>10, <2>11, <2>12,
         <2>13, <2>14, <2>15, <2>16, <2>17, <2>18, <2>19, <2>20, <2>21
         DEF Next, Step
<1> QED BY <1>1, <1>2, PTL DEF Spec

----------------------------------------------------------------------------
(* Folding.                                                                *)

\* The run has completed.
Completed == at = "ended" /\ result = "completed"

\* Where the verification asked last counts.
Verified == at \in {"render", "score", "decide", "state", "fold", "lineage"} \/ Completed

\* The score of the last verification is that of a workspace held since, the one there is
\* now is another, or the same while nobody else writes, and the count tells of one of
\* them too.  The parent snapshot has no portal: a portal that is open after the fold is
\* the folded one.
FoldInv ==
  /\ result = "completed" => at = "ended"
  /\ at \in Loop \cup {"returned"} => status # "completed"
  /\ at \in {"snapshot", "open", "begin"} => status # "completed"
  /\ at \notin {"snapshot", "rejected"} => parent.portal = "none"
  /\ Verified => /\ \E w \in held : issues = Score(w, seen)
                 /\ \E w \in held : w.items = ws.items
                 /\ alone => \A w \in held : w.items = ws.items
  /\ at \in {"fold", "lineage"} \/ Completed => \E w \in held : counted = Present(w)
  /\ at = "lineage" \/ Completed => fold = [objects |-> counted, issues |-> issues]
  /\ at = "lineage" => ws.portal \in {"none", "folded"}
  /\ Completed => ws.portal = "folded"

LEMMA FoldStep == RunType /\ FoldInv /\ [Next]_vars => FoldInv'
<1> SUFFICES ASSUME RunType, FoldInv, [Next]_vars PROVE FoldInv'
  OBVIOUS
<1>1. CASE ParentSnapshot
  BY <1>1 DEF ParentSnapshot, Goes, work, around, RunType, Gone, FoldInv, Verified, Loop, Completed
<1>2. CASE OpenChild
  BY <1>2 DEF OpenChild, Cancels, Goes, work, around, FoldInv, Verified, Loop, Completed
<1>3. CASE Begin
  BY <1>3 DEF Begin, Cancels, OnChild, Goes, Fails, work, around, FoldInv, Verified, Loop, Completed
<1>4. CASE Top
  BY <1>4 DEF Top, Quietly, work, around, FoldInv, Verified, Loop, Completed
<1>5. CASE Look
  BY <1>5 DEF Look, Fails, Quietly, work, around, FoldInv, Verified, Loop, Completed
<1>6. CASE Verify
  BY <1>6 DEF Verify, Fails, Quietly, work, around, FoldInv, Verified, Loop, Completed
<1>7. CASE Render
    BY <1>7 DEF Render, OnChild, Goes, Fails, Quietly, work, around, FoldInv, Verified,
     Loop, Completed
<1>8. CASE KeepBest
    BY <1>8 DEF KeepBest, Improves, Less, OnChild, Goes, Fails, work, around, FoldInv, Verified,
     Loop, Completed
<1>9. CASE Decide
  BY <1>9 DEF Decide, Quietly, work, around, FoldInv, Verified, Loop, Completed
<1>10. CASE Undecided
  BY <1>10 DEF Undecided, Fails, Quietly, work, around, FoldInv, Verified, Loop, Completed
<1>11. CASE Act
    BY <1>11 DEF Act, AfterCall, Counts, Effect, NoEffect, work, around, FoldInv, Verified,
     Loop, Completed
<1>12. CASE RestoreBest
  BY <1>12 DEF RestoreBest, Goes, Restored, work, around, FoldInv, Verified, Loop, Completed
<1>13. CASE Return
  BY <1>13 DEF Return, Quietly, work, around, FoldInv, Verified, Loop, Completed
<1>14. CASE GetState
  <2>1. \A w, w2 : w.items = w2.items => Present(w) = Present(w2)
    BY DEF Present
  <2> QED
    BY <1>14, <2>1 DEF GetState, Fails, Quietly, work, around, FoldInv, Verified, Loop, Completed
<1>15. CASE FoldChild
  <2>1. CASE Gone
    BY <1>15, <2>1 DEF FoldChild, Fails, FoldInv, Verified, Loop, Completed
  <2>2. CASE ~Gone
    <3>1. ws \in Workspaces /\ ws' = [ws EXCEPT !.portal = "folded"]
      BY <1>15, <2>2 DEF FoldChild, RunType
    <3>2. ws'.items = ws.items /\ ws'.portal = "folded"
      BY <3>1, PortalWorkspace
    <3>3. /\ seen' = seen /\ issues' = issues /\ counted' = counted /\ at' = "lineage"
          /\ alone' = alone /\ held' = held /\ parent' = parent /\ status' = status
          /\ result' = result /\ at = "fold"
          /\ fold' = [objects |-> counted, issues |-> issues]
      BY <1>15, <2>2 DEF FoldChild, Summary, around
    <3> QED BY <3>2, <3>3 DEF FoldInv, Verified, Loop, Completed
  <2> QED BY <2>1, <2>2
<1>16. CASE Lineage
  BY <1>16 DEF Lineage, Gone, Fails, Quietly, work, around, FoldInv, Verified, Loop, Completed
<1>17. CASE Undo
  BY <1>17 DEF Undo, Goes, Restored, TakenBack, work, around, FoldInv, Verified, Loop, Completed
<1>18. CASE Fault
  BY <1>18 DEF Fault, Goes, Fails, Restored, work, around, FoldInv, Verified, Loop, Completed
<1>19. CASE Abort
  BY <1>19 DEF Abort, Over, work, around, FoldInv, Verified, Loop, Completed
<1>20. CASE Foreign
  <2>1. /\ UNCHANGED <<at, parent, seen, issues, counted, fold, status, result>>
        /\ held' = held \cup {ws'} /\ alone' = FALSE /\ at \notin {"ended", "rejected"}
    BY <1>20 DEF Foreign, Over, work
  <2>2. ws' = parent \/ \E i \in Items, g \in Grades : ws' = [ws EXCEPT !.items[i] = g]
    BY <1>20 DEF Foreign
  <2>3. at = "lineage" => ws'.portal \in {"none", "folded"}
    BY <2>1, <2>2 DEF FoldInv, RunType, Workspaces
  <2> QED BY <2>1, <2>3 DEF FoldInv, Verified, Completed
<1>21. CASE UNCHANGED vars
  BY <1>21 DEF vars, work, around, FoldInv, Verified, Loop, Completed
<1> QED BY <1>1, <1>2, <1>3, <1>4, <1>5, <1>6, <1>7, <1>8, <1>9, <1>10, <1>11, <1>12,
       <1>13, <1>14, <1>15, <1>16, <1>17, <1>18, <1>19, <1>20, <1>21
       DEF Next, Step

\* What a completed run wrote into the portal is what the child canvas held since it was
\* verified last, whoever else writes: the count and the issues, read by calls of their
\* own, may be of two such states, and are of the one the child ends with while nobody else
\* writes.
THEOREM FoldSafe == Spec => []FoldTellsChild
<1>1. Init => FoldInv
  BY DEF Init, FoldInv, Verified, Loop, Completed
<1>2. FoldInv => FoldTellsChild
  BY DEF FoldInv, FoldTellsChild, Verified, Completed
<1> QED BY <1>1, <1>2, FoldStep, TypeHolds, PTL DEF Spec

----------------------------------------------------------------------------
(* The best snapshot.                                                      *)

\* While nobody else writes and the viewport stays.
Undisturbed == alone /\ still

\* In the loop the best snapshot is the one of the least score, and the score is that of
\* its state.  On the way out the workspace is that state, and is looked at once more.
BestInv ==
  /\ at \in {"snapshot", "open", "begin"} => least = None
  /\ still => shown
  /\ at \in Loop =>
       /\ best.score = least
       /\ Undisturbed /\ least # None => least = Score(best.state, Present(best.state))
  /\ Undisturbed =>
       /\ at \in {"verify", "render", "score", "reverify", "rerender"} => seen = Present(ws)
       /\ at \in {"render", "score", "rerender"} => issues = Score(ws, seen)
       /\ at \in {"relook", "reverify", "rerender"} => ws = best.state
       /\ at = "returned" /\ least # None => issues = least

LEMMA BestStep ==
  ASSUME Role = "owner"
  PROVE  RunType /\ BestInv /\ [Next]_vars => BestInv'
<1> SUFFICES ASSUME RunType, BestInv, [Next]_vars PROVE BestInv'
  OBVIOUS
<1>1. CASE ParentSnapshot
  BY <1>1 DEF ParentSnapshot, Goes, work, around, BestInv, Undisturbed, Loop
<1>2. CASE OpenChild
  BY <1>2 DEF OpenChild, Cancels, Goes, work, around, BestInv, Undisturbed, Loop
<1>3. CASE Begin
    BY <1>3 DEF Begin, Cancels, OnChild, Goes, Fails, work, around, BestInv,
     Undisturbed, Loop
<1>4. CASE Top
  <2>1. iteration \in Nat /\ iteration < MaxIterations /\ at = "top"
    BY <1>4 DEF Top, RunType, Going
  <2>2. at' \in {"restore", "look"}
    BY <1>4, <2>1, NvclConstants DEF Top
  <2> QED BY <1>4, <2>1, <2>2 DEF Top, Quietly, around, BestInv, Undisturbed, Loop
<1>5. CASE Look
  BY <1>5 DEF Look, Fails, Quietly, work, around, BestInv, Undisturbed, Loop
<1>6. CASE Verify
  BY <1>6 DEF Verify, Fails, Quietly, work, around, BestInv, Undisturbed, Loop
<1>7. CASE Render
    BY <1>7 DEF Render, OnChild, Goes, Fails, Quietly, work, around, BestInv,
     Undisturbed, Loop
<1>8. CASE KeepBest
    BY <1>8 DEF KeepBest, Improves, Less, OnChild, Goes, Fails, work, around, BestInv,
     Undisturbed, Loop
<1>9. CASE Decide
  BY <1>9 DEF Decide, Quietly, work, around, BestInv, Undisturbed, Loop
<1>10. CASE Undecided
  BY <1>10 DEF Undecided, Fails, Quietly, work, around, BestInv, Undisturbed, Loop
<1>11. CASE Act
    BY <1>11 DEF Act, AfterCall, Counts, Effect, NoEffect, work, around, BestInv,
     Undisturbed, Loop
<1>12. CASE RestoreBest
  BY <1>12 DEF RestoreBest, Goes, Restored, work, around, BestInv, Undisturbed, Loop
<1>13. CASE Return
  BY <1>13 DEF Return, Quietly, work, around, BestInv, Undisturbed, Loop
<1>14. CASE GetState
  BY <1>14 DEF GetState, Fails, Quietly, work, around, BestInv, Undisturbed, Loop
<1>15. CASE FoldChild
  BY <1>15 DEF FoldChild, Fails, work, around, BestInv, Undisturbed, Loop
<1>16. CASE Lineage
  BY <1>16 DEF Lineage, Fails, Quietly, work, around, BestInv, Undisturbed, Loop
<1>17. CASE Undo
  BY <1>17 DEF Undo, Goes, Restored, TakenBack, work, around, BestInv, Undisturbed, Loop
<1>18. CASE Fault
  BY <1>18 DEF Fault, Goes, Fails, Restored, work, around, BestInv, Undisturbed, Loop
<1>19. CASE Abort
  BY <1>19 DEF Abort, Over, work, around, BestInv, Undisturbed, Loop
<1>20. CASE Foreign
  BY <1>20 DEF Foreign, Over, work, around, BestInv, Undisturbed, Loop
<1>21. CASE UNCHANGED vars
  BY <1>21 DEF vars, work, around, BestInv, Undisturbed, Loop
<1> QED BY <1>1, <1>2, <1>3, <1>4, <1>5, <1>6, <1>7, <1>8, <1>9, <1>10, <1>11, <1>12,
       <1>13, <1>14, <1>15, <1>16, <1>17, <1>18, <1>19, <1>20, <1>21
       DEF Next, Step

\* A child run that fails or is cancelled reports the least score it has observed, and that
\* is the score of the state it left (the restore of bestSnapshot and the observation after
\* it), for an owner.
THEOREM BestSafe ==
  ASSUME Role = "owner"
  PROVE  Spec => []BestIsReported
<1>1. Init => BestInv
  BY DEF Init, BestInv, Undisturbed, Loop
<1>2. BestInv => BestIsReported
  BY DEF BestInv, BestIsReported, Undisturbed
<1>3. RunType /\ BestInv /\ [Next]_vars => BestInv'
  BY BestStep
<1> QED BY <1>1, <1>2, <1>3, TypeHolds, PTL DEF Spec
=============================================================================
