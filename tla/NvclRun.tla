------------------------------ MODULE NvclRun ------------------------------
(***************************************************************************)
(* A recursive NVCL run: RecursiveNvclRuntime opens a child canvas, has    *)
(* NvclRuntime work on it with an agent until the agent stops or the       *)
(* budgets end, folds the result into the parent's portal, and takes       *)
(* everything back when something goes wrong.                              *)
(*                                                                         *)
(* Every MCP call is a step of its own: between two calls other clients    *)
(* write to the workspace, and a call may fail in transport after or       *)
(* before it had its effect.  The workspace is what the checks tell apart: *)
(* for each object on the child canvas whether it is there and as wanted,  *)
(* and the portal (with it, the child canvas).                             *)
(***************************************************************************)
EXTENDS Naturals, FiniteSets

CONSTANTS Items,         \* the objects the checks are about
          None,          \* nothing yet; as a score, infinity
          Role,          \* the role of the run's MCP client
          MaxIterations, MaxFailures,  \* budgets of the child run
          MaxFaults,     \* bound: calls that fail in transport
          MaxForeign     \* bound: writes of other clients

ASSUME NvclConstants ==
  /\ IsFiniteSet(Items)
  /\ Role \in {"owner", "agent-direct"}
  /\ MaxIterations \in Nat \ {0} /\ MaxFailures \in Nat \ {0}
  /\ MaxFaults \in Nat /\ MaxForeign \in Nat

VARIABLES at,        \* the call or decision the run is at
          ws,        \* the workspace
          shown,     \* the viewport shows the objects
          nested,    \* the parent canvas is not the root
          parent,    \* the parent snapshot
          best,      \* the best snapshot of the child run, and its score
          iteration, failures,
          seen,      \* the objects of the viewport read last
          issues,    \* the score of the last verification
          status,    \* of the child run
          counted,   \* the child's objects, as read before folding
          fold,      \* what was folded into the portal
          result,    \* of the whole run
          aborted,   \* the caller's signal
          faults, foreign,
          alone,     \* history: no other client wrote since the run began
          still,     \* history: the viewport has not been moved
          least,     \* history: the least score the child run observed
          held       \* history: the workspaces since the verification asked last

work == <<iteration, failures, seen, issues, status, counted, fold, result>>
around == <<aborted, nested, faults, foreign, alone, still>>
vars == <<at, ws, shown, parent, best, work, around, least, held>>

Grades == {"absent", "flawed", "good"}
Workspaces == [items : [Items -> Grades], portal : {"none", "open", "folded"}]

Gone == ws.portal = "none"
Present(w) == {i \in Items : w.items[i] # "absent"}

\* A missing object is an error of the count check, always asked; a flawed one a warning
\* of a check on that object, asked when the viewport has it (filterChecks).
Score(w, visible) ==
  10 * Cardinality(Items \ Present(w))
    + Cardinality({i \in visible : w.items[i] = "flawed"})

Less(score, bound) == IF bound = None THEN TRUE ELSE score < bound

----------------------------------------------------------------------------
(* Ways on.                                                                *)

\* An error inside the child run, or after it, is caught by the recursive run.
Fails ==
  /\ at' = "undo"
  /\ result' = "failed"
  /\ UNCHANGED <<iteration, failures, seen, issues, status, counted, fold>>

Cancels ==
  /\ at' = "undo"
  /\ result' = "cancelled"
  /\ UNCHANGED <<iteration, failures, seen, issues, status, counted, fold>>

Goes(next) == at' = next /\ UNCHANGED work

\* A call on the child canvas, answered with an error once that is gone.
OnChild(next) == IF Gone THEN Fails ELSE Goes(next)

Quietly == UNCHANGED <<ws, shown, parent, best, around, least, held>>

----------------------------------------------------------------------------
(* The recursive run, first half.                                          *)

ParentSnapshot ==
  /\ at = "snapshot"
  /\ parent' = ws
  /\ Goes("open")
  /\ UNCHANGED <<ws, shown, best, around, least, held>>

OpenChild ==
  /\ at = "open"
  /\ IF aborted THEN Cancels /\ ws' = ws
     ELSE Goes("begin") /\ ws' = [ws EXCEPT !.portal = "open"]
  /\ UNCHANGED <<shown, parent, best, around, least, held>>

----------------------------------------------------------------------------
(* The child run.                                                          *)

\* The initial snapshot is the best one until a score is known.
Begin ==
  /\ at = "begin"
  /\ IF aborted THEN Cancels /\ best' = best
     ELSE OnChild("top") /\ best' = [state |-> ws, score |-> None]
  /\ UNCHANGED <<ws, shown, parent, around, least, held>>

\* The head of the loop; a run that leaves it is over.
Top ==
  /\ at = "top"
  /\ at' = IF iteration >= MaxIterations THEN "returned"
           ELSE IF aborted THEN "restore" ELSE "look"
  /\ status' = IF at' = "restore" THEN "cancelled" ELSE status
  /\ UNCHANGED <<iteration, failures, seen, issues, counted, fold, result>>
  /\ Quietly

\* An observation: the viewport, the checks on what is in it, the rendering.  The one
\* that follows a restore ends the run.
Look ==
  /\ at \in {"look", "relook"}
  /\ IF Gone THEN Fails
     ELSE /\ seen' = IF shown THEN Present(ws) ELSE {}
          /\ at' = IF at = "look" THEN "verify" ELSE "reverify"
          /\ UNCHANGED <<iteration, failures, issues, status, counted, fold, result>>
  /\ Quietly

\* A check names an object that was deleted since the viewport was read: an error.
Verify ==
  /\ at \in {"verify", "reverify"}
  /\ IF Gone \/ ~(seen \subseteq Present(ws)) THEN Fails
     ELSE /\ issues' = Score(ws, seen)
          /\ at' = IF at = "verify" THEN "render" ELSE "rerender"
          /\ UNCHANGED <<iteration, failures, seen, status, counted, fold, result>>
  /\ held' = {ws}
  /\ UNCHANGED <<ws, shown, parent, best, around, least>>

\* render_viewport, the rendering's resource and get_events.
Render ==
  /\ at \in {"render", "rerender"}
  /\ OnChild(IF at = "render" THEN "score" ELSE "returned")
  /\ Quietly

\* Mutant of Improves: the first observation's snapshot stays the best one.
ImprovesOnce(score) == best.score = None

Improves(score) == Less(score, best.score)

\* A better score is snapshotted, by a call of its own.
KeepBest ==
  /\ at = "score"
  /\ least' = IF Less(issues, least) THEN issues ELSE least
  /\ IF Improves(issues)
     THEN OnChild("decide") /\ best' = IF Gone THEN best ELSE [state |-> ws, score |-> issues]
     ELSE Goes("decide") /\ best' = best
  /\ UNCHANGED <<ws, shown, parent, around, held>>

\* The agent decides on anything; what it gives as success is not checked.
Decide ==
  /\ at = "decide"
  /\ \/ at' = "state" /\ status' = "completed"
     \/ at' = "restore" /\ status' = "failed"
     \/ at' = "act" /\ status' = status
  /\ UNCHANGED <<iteration, failures, seen, issues, counted, fold, result>>
  /\ Quietly

\* The agent's model fails, or what it generates is not JSON or not a decision: a stop
\* with a success and a reason, or a call of a canvas tool.
Undecided ==
  /\ at = "decide"
  /\ Fails /\ Quietly

\* Mutant of Counts: only a call that fails uses up the budget.
CountsFailures(ok) == IF ok THEN iteration ELSE iteration + 1

Counts(ok) == iteration + 1

\* After a tool call: the run goes on unless a budget is used up.
AfterCall(ok) ==
  /\ failures' = IF ok THEN 0 ELSE failures + 1
  /\ iteration' = Counts(ok)
  /\ at' = IF failures' >= MaxFailures \/ iteration' = MaxIterations THEN "restore" ELSE "top"
  /\ status' = "failed"
  /\ UNCHANGED <<seen, issues, counted, fold, result>>

\* What a tool may do: write an object of the child, move the viewport, or only read.
Effect ==
  \/ \E i \in Items, g \in Grades :
       ws' = [ws EXCEPT !.items[i] = g] /\ UNCHANGED <<shown, still>>
  \/ ws' = ws /\ shown' = ~shown /\ still' = FALSE
NoEffect == UNCHANGED <<ws, shown, still>>

Act ==
  /\ at = "act"
  /\ \/ ~Gone /\ (Effect \/ NoEffect) /\ AfterCall(TRUE) /\ faults' = faults
     \/ NoEffect /\ AfterCall(FALSE) /\ faults' = faults
     \/ faults < MaxFaults /\ faults' = faults + 1
        /\ ~Gone /\ Effect /\ AfterCall(FALSE)
  /\ UNCHANGED <<parent, best, aborted, nested, foreign, alone, least, held>>

\* restore_snapshot replaces the workspace for an owner, and is denied to anybody else.
Restored(state) == IF Role = "owner" THEN state ELSE ws

RestoreBest ==
  /\ at = "restore"
  /\ ws' = Restored(best.state)
  /\ Goes("relook")
  /\ UNCHANGED <<shown, parent, best, around, least, held>>

----------------------------------------------------------------------------
(* The recursive run, second half.                                         *)

\* A child run that did not complete is taken back inside of the try block.
Return ==
  /\ at = "returned"
  /\ at' = "takeback"
  /\ result' = status
  /\ UNCHANGED <<iteration, failures, seen, issues, status, counted, fold>>
  /\ Quietly

GetState ==
  /\ at = "state"
  /\ IF Gone THEN Fails
     ELSE /\ counted' = Present(ws)
          /\ at' = "fold"
          /\ UNCHANGED <<iteration, failures, seen, issues, status, fold, result>>
  /\ Quietly

\* Mutant of Summary: the issues are those of the best snapshot.
SummaryOfBest == [objects |-> counted, issues |-> best.score]

Summary == [objects |-> counted, issues |-> issues]

FoldChild ==
  /\ at = "fold"
  /\ IF Gone THEN Fails /\ ws' = ws
     ELSE /\ ws' = [ws EXCEPT !.portal = "folded"]
          /\ fold' = Summary
          /\ at' = "lineage"
          /\ UNCHANGED <<iteration, failures, seen, issues, status, counted, result>>
  /\ UNCHANGED <<shown, parent, best, around, least, held>>

\* The lineage must begin at the parent canvas, and begins at the root.
Lineage ==
  /\ at = "lineage"
  /\ IF Gone \/ nested THEN Fails
     ELSE /\ at' = "ended" /\ result' = "completed"
          /\ UNCHANGED <<iteration, failures, seen, issues, status, counted, fold>>
  /\ Quietly

\* Mutant of TakenBack: what the child run restored is restored again.
TakenBackToBest == IF best = None THEN parent ELSE best.state

TakenBack == parent

Undo ==
  /\ at \in {"takeback", "undo"}
  /\ ws' = Restored(TakenBack)
  /\ Goes("ended")
  /\ UNCHANGED <<shown, parent, best, around, least, held>>

----------------------------------------------------------------------------
(* Failing calls, the caller, other clients.                               *)

\* A call fails in transport.  The calls outside of the try block, the parent's snapshot
\* and its last restore, end the run with an error.
Fault ==
  /\ at \notin {"top", "decide", "act", "returned", "ended", "rejected"}
  /\ aborted => at \notin {"open", "begin"}
  /\ at = "score" => Improves(issues)
  /\ faults < MaxFaults /\ faults' = faults + 1
  /\ IF at \in {"snapshot", "undo"} THEN Goes("rejected") ELSE Fails
  /\ \/ ws' = ws
     \/ at = "open" /\ ws' = [ws EXCEPT !.portal = "open"]
     \/ at = "restore" /\ ws' = Restored(best.state)
     \/ at = "fold" /\ ~Gone /\ ws' = [ws EXCEPT !.portal = "folded"]
     \/ at \in {"takeback", "undo"} /\ ws' = Restored(parent)
  /\ UNCHANGED <<shown, parent, best, aborted, nested, foreign, alone, still, least, held>>

Over == at \in {"ended", "rejected"}

Abort ==
  /\ ~aborted /\ ~Over
  /\ aborted' = TRUE
  /\ UNCHANGED <<at, ws, shown, parent, best, work, nested, faults, foreign, alone, still, least, held>>

\* Other clients edit the child canvas, or restore a state without it.
Foreign ==
  /\ foreign < MaxForeign /\ ~Over
  /\ foreign' = foreign + 1 /\ alone' = FALSE
  /\ ~Gone
  /\ \/ \E i \in Items, g \in Grades : ws' = [ws EXCEPT !.items[i] = g]
     \/ ws' = parent
  /\ held' = held \cup {ws'}
  /\ UNCHANGED <<at, shown, parent, best, work, aborted, nested, faults, still, least>>

Init ==
  /\ at = "snapshot"
  /\ ws = [items |-> [i \in Items |-> "absent"], portal |-> "none"]
  /\ nested \in BOOLEAN
  /\ shown = TRUE /\ aborted = FALSE
  /\ parent = None /\ best = None /\ fold = None /\ least = None
  /\ iteration = 0 /\ failures = 0 /\ issues = 0 /\ seen = {} /\ counted = {}
  /\ status = "failed" /\ result = "failed"
  /\ faults = 0 /\ foreign = 0 /\ alone = TRUE /\ still = TRUE /\ held = {}

Step ==
  \/ ParentSnapshot \/ OpenChild \/ Begin \/ Top \/ Look \/ Verify \/ Render
  \/ KeepBest \/ Decide \/ Undecided \/ Act \/ RestoreBest
  \/ Return \/ GetState \/ FoldChild \/ Lineage \/ Undo \/ Fault

Next == Step \/ Abort \/ Foreign

\* A call is answered or fails, and the agent decides.
Spec == Init /\ [][Next]_vars /\ WF_vars(Step)

----------------------------------------------------------------------------
(* Properties.                                                             *)

\* A run that reports failure or cancellation leaves the workspace as it found it, at
\* whichever call it failed and whether or not that call had its effect, unless other
\* clients wrote meanwhile.
FailureLeavesParent ==
  at = "ended" /\ result # "completed" /\ alone => ws = parent

\* A child run that fails or is cancelled reports the least score it has observed, for the
\* state it restored, while nobody else writes and the viewport stays.
BestIsReported ==
  at = "returned" /\ alone /\ still /\ least # None => issues = least

\* What a completed run wrote into the portal is about the child canvas since it was
\* verified last: the count and the issues are read by calls of their own, and each tells
\* of a state the child held from that verification on, never of an older one.  While
\* nobody else writes, that is the state the child ends with; another client that writes
\* between the calls can make the two tell of different states (verify, get_state and
\* fold_subcanvas in RecursiveNvclRuntime.run).
FoldTellsChild ==
  at = "ended" /\ result = "completed" =>
    /\ ws.portal = "folded"
    /\ \E w \in held : fold.objects = Present(w)
    /\ \E w \in held : fold.issues = Score(w, seen)
    /\ alone => \A w \in held : w.items = ws.items

\* A run ends, whatever its agent decides and whoever else writes.
RunEnds == <>Over
=============================================================================
