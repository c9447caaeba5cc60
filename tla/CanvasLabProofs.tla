--------------------------- MODULE CanvasLabProofs ---------------------------
(***************************************************************************)
(* Proofs about CanvasLab, for any number of objects, action ids, frames,  *)
(* foreign commits and restarts: a gesture does what its frame showed      *)
(* (SeenSafe), an action id has its effect once (EffectSafe), and undo and *)
(* redo walk one line of states (HistorySafe).                             *)
(***************************************************************************)
EXTENDS CanvasLab, SequenceTheorems, TLAPS

----------------------------------------------------------------------------
(* Sequences.                                                              *)

\* An entry pushed on a stack comes last and leaves the others where they are.
LEMMA AppendFacts ==
  ASSUME NEW S, NEW s \in Seq(S), NEW e, NEW t, t = Append(s, e)
  PROVE  /\ t \in Seq(S \cup {e})
         /\ Len(t) = Len(s) + 1
         /\ Len(s) \in Nat
         /\ t # <<>>
         /\ \A i \in 1 .. Len(s) : t[i] = s[i]
         /\ t[Len(s) + 1] = e
<1> DEFINE T == S \cup {e}
<1>1. s \in Seq(T) /\ e \in T
  BY SeqMonotonic
<1> HIDE DEF T
<1>2. /\ t \in Seq(T)
      /\ Len(t) = Len(s) + 1
      /\ Len(s) \in Nat
      /\ \A i \in 1 .. Len(s) : t[i] = s[i]
      /\ t[Len(s) + 1] = e
  BY <1>1
<1>3. t # <<>>
  BY <1>2, EmptySeq
<1> QED BY <1>2, <1>3 DEF T

\* Popping a stack takes its last entry and leaves the others.
LEMMA FrontFacts ==
  ASSUME NEW S, NEW s \in Seq(S), s # <<>>
  PROVE  /\ Front(s) \in Seq(S)
         /\ Len(s) \in Nat \ {0}
         /\ Len(Front(s)) = Len(s) - 1
         /\ \A i \in 1 .. Len(s) - 1 : Front(s)[i] = s[i]
         /\ Last(s) = s[Len(s)]
         /\ Last(s) \in S
<1>1. Len(s) \in Nat \ {0}
  BY EmptySeq
<1>2. \A i \in 1 .. Len(s) : s[i] \in S
  BY ElementOfSeq
<1>3. /\ SubSeq(s, 1, Len(s) - 1) \in Seq(S)
      /\ Len(SubSeq(s, 1, Len(s) - 1)) = Len(s) - 1
      /\ \A i \in 1 .. Len(s) - 1 : SubSeq(s, 1, Len(s) - 1)[i] = s[i]
  <2>1. \A i \in 1 .. Len(s) - 1 : s[i] \in S
    BY <1>1, <1>2
  <2>2. 1 \in Int /\ Len(s) - 1 \in Int
    BY <1>1
  <2>3. /\ SubSeq(s, 1, Len(s) - 1) \in Seq(S)
        /\ Len(SubSeq(s, 1, Len(s) - 1)) = IF 1 =< Len(s) - 1 THEN Len(s) - 1 - 1 + 1 ELSE 0
        /\ \A i \in 1 .. Len(s) - 1 - 1 + 1 : SubSeq(s, 1, Len(s) - 1)[i] = s[1 + i - 1]
    BY <2>1, <2>2, SubSeqProperties
  <2>4. /\ Len(s) - 1 - 1 + 1 = Len(s) - 1
        /\ (IF 1 =< Len(s) - 1 THEN Len(s) - 1 - 1 + 1 ELSE 0) = Len(s) - 1
    <3>1. \A n \in Nat \ {0} : /\ n - 1 - 1 + 1 = n - 1
                               /\ (IF 1 =< n - 1 THEN n - 1 - 1 + 1 ELSE 0) = n - 1
      OBVIOUS
    <3> QED BY <1>1, <3>1
  <2>5. \A i \in 1 .. Len(s) - 1 : 1 + i - 1 = i
    BY <1>1
  <2> QED BY <2>3, <2>4, <2>5
<1>4. Last(s) = s[Len(s)] /\ Last(s) \in S
  BY <1>1, <1>2 DEF Last
<1> QED BY <1>1, <1>3, <1>4 DEF Front

----------------------------------------------------------------------------
(* What a gesture hits.                                                    *)

\* What is on top at a cell depends on the objects of a state alone.
LEMMA TargetOfObjects ==
  ASSUME NEW s, NEW t, NEW v, NEW b, s.objs = t.objs
  PROVE  Target(b, s, v) = Target(b, t, v)
BY DEF Target, Hit, Present

\* The evidence of an action on a fresh frame agrees with the canvas.
LEMMA EvidenceAgrees ==
  ASSUME NEW a, NEW f, NEW b, NEW r, FreshFrame(f, r), Evidence(a, f, b)
  PROVE  SeenIsDone'
<1> DEFINE shown == [objs |-> frames[f].state.objs]
<1>1. shown.objs = store.objs /\ frames[f].view = viewport
  BY DEF FreshFrame, Hashed
<1>2. Target(b, shown, frames[f].view) = Target(b, store, viewport)
  BY <1>1, TargetOfObjects
<1>3. done'.seen = done'.acted
  BY <1>2 DEF Evidence
<1> QED BY <1>3 DEF SeenIsDone

\* A gesture is carried out on what its frame showed at that point, although everything
\* else may write to the canvas in between (#assertFreshFrame).
THEOREM SeenSafe == Spec => []SeenIsDone
<1>1. Init => SeenIsDone
  BY DEF Init, SeenIsDone
<1>2. SeenIsDone /\ [Next]_vars => SeenIsDone'
  <2> SUFFICES ASSUME SeenIsDone, [Next]_vars PROVE SeenIsDone'
    OBVIOUS
  <2>1. ASSUME done' = done PROVE SeenIsDone'
    BY <2>1 DEF SeenIsDone
  <2>2. CASE UNCHANGED vars
    BY <2>1, <2>2 DEF vars
  <2>3. CASE Observe \/ Expire
    BY <2>1, <2>3 DEF Observe, Expire
  <2>4. ASSUME NEW a \in ActionIds, NEW f \in DOMAIN frames, NEW b \in Bodies, Execute(a, f, b)
        PROVE  SeenIsDone'
    BY <2>4, EvidenceAgrees DEF Execute
  <2>5. ASSUME NEW a \in ActionIds, NEW f \in DOMAIN frames, NEW b \in Bodies,
               ExecuteViewport(a, f, b)
        PROVE  SeenIsDone'
    BY <2>1, <2>5 DEF ExecuteViewport
  <2>6. ASSUME NEW a \in ActionIds, NEW f \in DOMAIN frames, Undo(a, f) \/ Redo(a, f)
        PROVE  SeenIsDone'
    BY <2>1, <2>6 DEF Undo, Redo, Returns
  <2>7. ASSUME NEW a \in ActionIds, NEW f \in DOMAIN frames \cup {None},
               ResetBenchmark(a, f) \/ ResetFails(a, f)
        PROVE  SeenIsDone'
    BY <2>1, <2>7 DEF ResetBenchmark, ResetFails
  <2>8. CASE ForeignEdit \/ ForeignSubcanvas \/ ForeignViewport
    BY <2>1, <2>8 DEF ForeignEdit, ForeignSubcanvas, ForeignViewport, Commits
  <2>9. CASE Crash \/ Shutdown
    BY <2>1, <2>9 DEF Crash, Shutdown, Boots
  <2>10. ASSUME NEW a \in ActionIds, Answered(a) PROVE SeenIsDone'
    BY <2>1, <2>10 DEF Answered, vars
  <2>11. ASSUME NEW f \in 1 .. observed, Refused(f) PROVE SeenIsDone'
    BY <2>1, <2>11 DEF Refused, vars
  <2> QED BY <2>2, <2>3, <2>4, <2>5, <2>6, <2>7, <2>8, <2>9, <2>10, <2>11 DEF Next
<1> QED BY <1>1, <1>2, PTL DEF Spec

----------------------------------------------------------------------------
(* Transactions with keys.                                                 *)

\* A state is the record of its parts, and counts the effects of its keys.
Whole(s) ==
  /\ s = [rev |-> s.rev, objs |-> s.objs, child |-> s.child, keys |-> s.keys, times |-> s.times]
  /\ s.keys \subseteq LabKeys
  /\ s.times \in [LabKeys -> Nat]

\* No key had its effect twice, and one that had it is remembered.
Once(s) ==
  /\ Whole(s)
  /\ \A k \in LabKeys : s.times[k] =< 1 /\ (s.times[k] = 1 => k \in s.keys)

\* A step of the canvas that is none of the laboratory leaves its keys alone.
SameKeys(s, t) == Whole(t) /\ t.keys = s.keys /\ t.times = s.times

LEMMA OnceKept ==
  ASSUME NEW s, NEW t, Once(s), SameKeys(s, t)
  PROVE  Once(t)
BY DEF Once, SameKeys

\* Changing the objects, the revision or the child canvas changes no key.
LEMMA PartsKeepKeys ==
  ASSUME NEW s, Whole(s), NEW v
  PROVE  /\ SameKeys(s, [s EXCEPT !.objs = v])
         /\ SameKeys(s, [s EXCEPT !.rev = v])
         /\ SameKeys(s, [s EXCEPT !.child = v])
BY DEF Whole, SameKeys

\* So does every operation on an object.
LEMMA OperationsKeepKeys ==
  ASSUME NEW s, Whole(s), NEW o, NEW cell, NEW by
  PROVE  /\ SameKeys(s, Created(s, o, cell, by))
         /\ SameKeys(s, Moved(s, o, cell, by))
         /\ SameKeys(s, Patched(s, o, by))
         /\ SameKeys(s, Deleted(s, o))
<1>1. \A v : SameKeys(s, [s EXCEPT !.objs[o] = v])
  <2> TAKE v
  <2>1. [s EXCEPT !.objs[o] = v] = [s EXCEPT !.objs = [s.objs EXCEPT ![o] = v]]
    BY DEF Whole
  <2> QED BY <2>1, PartsKeepKeys
<1>2. SameKeys(s, Created(s, o, cell, by))
  BY <1>1 DEF Created
<1>3. SameKeys(s, Moved(s, o, cell, by))
  BY <1>1 DEF Moved
<1>4. SameKeys(s, Patched(s, o, by))
  BY <1>1 DEF Patched
<1>5. SameKeys(s, Deleted(s, o))
  BY <1>1 DEF Deleted
<1> QED BY <1>2, <1>3, <1>4, <1>5

\* Whatever an action of the laboratory leaves has the keys it found.
LEMMA OutcomesKeepKeys ==
  ASSUME NEW s, Whole(s), NEW b, NEW by, NEW t \in Outcomes(s, b, by)
  PROVE  SameKeys(s, t)
BY OperationsKeepKeys DEF Outcomes

\* So does the scene of the benchmark.
LEMMA SceneKeepsKeys ==
  ASSUME NEW s, Whole(s), NEW a, NEW t \in Scene(s, a)
  PROVE  SameKeys(s, t)
<1>1. PICK v : t = [s EXCEPT !.objs = v]
  BY DEF Scene
<1> QED BY <1>1, PartsKeepKeys

\* A committed transaction has its effect once: a key that is known changes nothing.
LEMMA CommittedOnce ==
  ASSUME NEW base, Once(base), NEW key \in LabKeys, NEW outcomes,
         \A t \in outcomes : SameKeys(base, t),
         NEW s \in Committed(base, key, outcomes)
  PROVE  Once(s)
<1>1. CASE key \in base.keys
  BY <1>1 DEF Committed
<1>2. CASE key \notin base.keys
  <2>1. PICK t \in outcomes :
          s = [t EXCEPT !.rev = @ + 1, !.keys = @ \cup {key}, !.times[key] = @ + 1]
    BY <1>2 DEF Committed
  <2>2. SameKeys(base, t)
    BY <2>1
  <2>3. /\ Whole(t)
        /\ t.keys = base.keys /\ t.times = base.times
    BY <2>2 DEF SameKeys
  <2>4. base.times[key] = 0
    BY <1>2 DEF Once, Whole
  <2>5. s = [rev |-> t.rev + 1, objs |-> t.objs, child |-> t.child, keys |-> t.keys \cup {key},
             times |-> [t.times EXCEPT ![key] = t.times[key] + 1]]
    BY <2>1, <2>3 DEF Whole
  <2>6. s.times = [base.times EXCEPT ![key] = 1] /\ s.keys = base.keys \cup {key}
    BY <2>3, <2>4, <2>5
  <2>7. Whole(s)
    BY <2>3, <2>5, <2>6 DEF Whole
  <2>8. \A k \in LabKeys : s.times[k] =< 1 /\ (s.times[k] = 1 => k \in s.keys)
    BY <2>3, <2>6 DEF Once, Whole
  <2> QED BY <2>7, <2>8 DEF Once
<1> QED BY <1>1, <1>2

----------------------------------------------------------------------------
(* The states the server keeps.                                            *)

\* A stack of entries whose states are in order: S is the set of its entries.
Stacked(u, r) ==
  \E S : /\ u \in Seq(S) /\ r \in Seq(S)
         /\ \A e \in S : Once(e.before) /\ Once(e.after)

\* The store, the state of a reset, the last snapshot and both ends of every entry of
\* the history: any of them may become the store.
LabInv ==
  /\ Once(store) /\ Once(initial)
  /\ saved # None => Once(saved)
  /\ Stacked(undo, redo)

LEMMA EmptyStacked == Stacked(<<>>, <<>>)
<1> DEFINE S == {}
<1>1. \A e \in S : Once(e.before) /\ Once(e.after)
  OBVIOUS
<1> HIDE DEF S
<1>2. <<>> \in Seq(S)
  BY EmptySeq
<1> QED BY <1>1, <1>2 DEF Stacked

LEMMA NewStoreOnce == Once(NewStore)
BY DEF Once, Whole, NewStore, LabKeys

\* A new entry between two states that are in order.
LEMMA PushesStacked ==
  ASSUME NEW a, NEW s, NEW t, Once(s), Once(t), Stacked(undo, redo), Pushes(Entry(a, s, t))
  PROVE  Stacked(undo', redo')
<1> DEFINE entry == Entry(a, s, t)
<1>1. PICK S : /\ undo \in Seq(S) /\ redo \in Seq(S)
               /\ \A e \in S : Once(e.before) /\ Once(e.after)
  BY DEF Stacked
<1>2. entry.before = s /\ entry.after = t
  BY DEF Entry
<1>3. undo' = Append(undo, entry) /\ redo' = <<>>
  BY DEF Pushes
<1> HIDE DEF entry
<1>4. undo' \in Seq(S \cup {entry})
  BY <1>1, <1>3, AppendFacts
<1>5. redo' \in Seq(S \cup {entry})
  BY <1>3, EmptySeq
<1>6. \A e \in S \cup {entry} : Once(e.before) /\ Once(e.after)
  BY <1>1, <1>2
<1> QED BY <1>4, <1>5, <1>6 DEF Stacked

\* A transaction of the laboratory over a state in order.
LEMMA CarriesInv ==
  ASSUME LabInv, NEW a, NEW base, Once(base), NEW key \in LabKeys, NEW outcomes, NEW looks,
         \A t \in outcomes : SameKeys(base, t),
         Carries(a, base, key, outcomes, looks), initial' = initial
  PROVE  LabInv'
<1>1. PICK s \in Committed(base, key, outcomes) :
        store' = s /\ saved' = s /\ Pushes(Entry(a, store, s))
  BY DEF Carries
<1>2. Once(s)
  BY <1>1, CommittedOnce
<1>3. Stacked(undo', redo')
  BY <1>1, <1>2, PushesStacked DEF LabInv
<1>4. Once(store') /\ Once(initial') /\ (saved' # None => Once(saved'))
  BY <1>1, <1>2 DEF LabInv
<1> QED BY <1>3, <1>4 DEF LabInv

\* One step back: the last entry goes to the other stack.
LEMMA UndoFacts ==
  ASSUME NEW S, undo \in Seq(S), redo \in Seq(S), NEW a, NEW f, Undo(a, f)
  PROVE  /\ undo # <<>> /\ Last(undo) \in S
         /\ store' = Last(undo).before
         /\ undo' = Front(undo) /\ redo' = Append(redo, Last(undo))
         /\ undo' \in Seq(S) /\ redo' \in Seq(S)
<1>1. /\ undo # <<>> /\ store' = Last(undo).before
      /\ undo' = Front(undo) /\ redo' = Append(redo, Last(undo))
  BY DEF Undo, Returns
<1>2. Last(undo) \in S /\ Front(undo) \in Seq(S)
  BY <1>1, FrontFacts
<1>3. Append(redo, Last(undo)) \in Seq(S)
  BY <1>2
<1> QED BY <1>1, <1>2, <1>3

\* One step forward again.
LEMMA RedoFacts ==
  ASSUME NEW S, undo \in Seq(S), redo \in Seq(S), NEW a, NEW f, Redo(a, f)
  PROVE  /\ redo # <<>> /\ Last(redo) \in S
         /\ store' = Last(redo).after
         /\ redo' = Front(redo) /\ undo' = Append(undo, Last(redo))
         /\ undo' \in Seq(S) /\ redo' \in Seq(S)
<1>1. /\ redo # <<>> /\ store' = Last(redo).after
      /\ redo' = Front(redo) /\ undo' = Append(undo, Last(redo))
  BY DEF Redo, Returns
<1>2. Last(redo) \in S /\ Front(redo) \in Seq(S)
  BY <1>1, FrontFacts
<1>3. Append(undo, Last(redo)) \in Seq(S)
  BY <1>2
<1> QED BY <1>1, <1>2, <1>3

LEMMA ReturnsInv ==
  ASSUME LabInv, NEW a, NEW f, Undo(a, f) \/ Redo(a, f)
  PROVE  LabInv'
<1>1. PICK S : /\ undo \in Seq(S) /\ redo \in Seq(S)
               /\ \A e \in S : Once(e.before) /\ Once(e.after)
  BY DEF LabInv, Stacked
<1>2. undo' \in Seq(S) /\ redo' \in Seq(S) /\ Once(store')
  <2>1. CASE Undo(a, f)
    BY <1>1, <2>1, UndoFacts
  <2>2. CASE Redo(a, f)
    BY <1>1, <2>2, RedoFacts
  <2> QED BY <2>1, <2>2
<1>3. initial' = initial /\ saved' = saved
  BY DEF Undo, Redo, Returns
<1>4. Stacked(undo', redo')
  BY <1>1, <1>2 DEF Stacked
<1> QED BY <1>2, <1>3, <1>4 DEF LabInv

\* Somebody else's commit.
LEMMA CommitsInv ==
  ASSUME LabInv, NEW s, SameKeys(store, s), Commits(s)
  PROVE  LabInv'
<1>1. store' = [s EXCEPT !.rev = s.rev + 1] /\ saved' = store'
      /\ initial' = initial /\ undo' = undo /\ redo' = redo
  BY DEF Commits
<1>2. Once(s)
  BY OnceKept DEF LabInv
<1>3. Once(store')
  <2>1. SameKeys(s, store')
    BY <1>1, <1>2, PartsKeepKeys DEF Once
  <2> QED BY <1>2, <2>1, OnceKept
<1> QED BY <1>1, <1>3 DEF LabInv

\* A restart recovers a state in order.
LEMMA BootsInv ==
  ASSUME LabInv, NEW snapshot, snapshot # None => Once(snapshot), Boots(snapshot)
  PROVE  LabInv'
<1>1. /\ store' = Recovered(snapshot) /\ initial' = Recovered(snapshot) /\ saved' = snapshot
      /\ undo' = <<>> /\ redo' = <<>>
  BY DEF Boots, NoHistory
<1>2. Once(Recovered(snapshot))
  BY NewStoreOnce DEF Recovered
<1> QED BY <1>1, <1>2, EmptyStacked DEF LabInv
\* The invariant through every step.
LEMMA LabStep == LabInv /\ [Next]_vars => LabInv'
<1> SUFFICES ASSUME LabInv, [Next]_vars PROVE LabInv'
  OBVIOUS
<1>1. ASSUME UNCHANGED <<store, initial, saved, undo, redo>> PROVE LabInv'
  BY <1>1 DEF LabInv
<1>2. CASE UNCHANGED vars
  BY <1>1, <1>2 DEF vars
<1>3. CASE Observe \/ Expire
  BY <1>1, <1>3 DEF Observe, Expire
<1>4. ASSUME NEW a \in ActionIds, NEW f \in DOMAIN frames, NEW b \in Bodies, Execute(a, f, b)
      PROVE  LabInv'
  <2> DEFINE key == <<"action", a>>
             outcomes == Outcomes(store, b, a)
  <2>1. Once(store) /\ \A t \in outcomes : SameKeys(store, t)
    BY OutcomesKeepKeys DEF LabInv, Once
  <2>2. key \in LabKeys
    BY DEF LabKeys
  <2>3. Carries(a, store, key, outcomes, 1) /\ initial' = initial
    BY <1>4 DEF Execute
  <2> HIDE DEF key, outcomes
  <2> QED BY <2>1, <2>2, <2>3, CarriesInv
<1>5. ASSUME NEW a \in ActionIds, NEW f \in DOMAIN frames, NEW b \in Bodies,
             ExecuteViewport(a, f, b)
      PROVE  LabInv'
  BY <1>1, <1>5 DEF ExecuteViewport
<1>6. ASSUME NEW a \in ActionIds, NEW f \in DOMAIN frames, Undo(a, f) \/ Redo(a, f)
      PROVE  LabInv'
  BY <1>6, ReturnsInv
<1>7. ASSUME NEW a \in ActionIds, NEW f \in DOMAIN frames \cup {None}, ResetBenchmark(a, f)
      PROVE  LabInv'
  <2> DEFINE key == <<"benchmark", a>>
             outcomes == Scene(initial, a)
             looks == Looks(f)
  <2>1. Once(initial) /\ \A t \in outcomes : SameKeys(initial, t)
    BY SceneKeepsKeys DEF LabInv, Once
  <2>2. key \in LabKeys
    BY DEF LabKeys
  <2>3. Carries(a, initial, key, outcomes, looks) /\ initial' = initial
    BY <1>7 DEF ResetBenchmark
  <2> HIDE DEF key, outcomes, looks
  <2> QED BY <2>1, <2>2, <2>3, CarriesInv
<1>8. ASSUME NEW a \in ActionIds, NEW f \in DOMAIN frames \cup {None}, ResetFails(a, f)
      PROVE  LabInv'
  BY <1>8 DEF ResetFails, LabInv
<1>9. CASE ForeignEdit
  <2>1. PICK o \in Objects \ Benchmark :
          \/ Commits(Created(store, o, 0, None))
          \/ Commits(Moved(store, o, 1, None))
          \/ Commits(Deleted(store, o))
    BY <1>9 DEF ForeignEdit
  <2>2. /\ SameKeys(store, Created(store, o, 0, None))
        /\ SameKeys(store, Moved(store, o, 1, None))
        /\ SameKeys(store, Deleted(store, o))
    BY OperationsKeepKeys DEF LabInv, Once
  <2> QED BY <2>1, <2>2, CommitsInv
<1>10. CASE ForeignSubcanvas
  <2>1. SameKeys(store, [store EXCEPT !.child = TRUE])
    BY PartsKeepKeys DEF LabInv, Once
  <2> QED BY <1>10, <2>1, CommitsInv DEF ForeignSubcanvas
<1>11. CASE ForeignViewport
  BY <1>1, <1>11 DEF ForeignViewport
<1>12. CASE Crash
  BY <1>12, BootsInv DEF Crash, LabInv
<1>13. CASE Shutdown
  BY <1>13, BootsInv DEF Shutdown, LabInv
<1>14. ASSUME NEW a \in ActionIds, Answered(a) PROVE LabInv'
  BY <1>1, <1>14 DEF Answered, vars
<1>15. ASSUME NEW f \in 1 .. observed, Refused(f) PROVE LabInv'
  BY <1>1, <1>15 DEF Refused, vars
<1> QED BY <1>2, <1>3, <1>4, <1>5, <1>6, <1>7, <1>8, <1>9, <1>10, <1>11, <1>12, <1>13,
           <1>14, <1>15 DEF Next

LEMMA LabStart == Init => LabInv
BY NewStoreOnce, EmptyStacked DEF Init, LabInv

\* An action id has its effect on the canvas at most once, through retries, undo and redo,
\* resets, crashes and restarts: the key in the recovered state answers what #actions has
\* forgotten (idempotencyKey of the laboratory's transactions).
THEOREM EffectSafe == Spec => []EffectOnce
<1>1. LabInv => EffectOnce
  BY DEF LabInv, Once, EffectOnce
<1> QED BY <1>1, LabStart, LabStep, PTL DEF Spec

----------------------------------------------------------------------------
(* Undo and redo.                                                          *)

\* HistoryReturns of stacks u and r and state s.
Line(u, r, s) ==
  /\ u # <<>> => Last(u).after = s
  /\ r # <<>> => Last(r).before = s
  /\ \A i \in 1 .. Len(u) - 1 : u[i].after = u[i + 1].before
  /\ \A i \in 1 .. Len(r) - 1 : r[i].before = r[i + 1].after

\* A new entry from the store on.
LEMMA PushesLine ==
  ASSUME NEW S, undo \in Seq(S), NEW a, NEW s, Line(undo, redo, store), Pushes(Entry(a, store, s))
  PROVE  Line(undo', redo', s)
<1> DEFINE entry == Entry(a, store, s)
<1>1. entry.before = store /\ entry.after = s
  BY DEF Entry
<1>2. undo' = Append(undo, entry) /\ redo' = <<>>
  BY DEF Pushes
<1> HIDE DEF entry
<1>3. /\ Len(undo') = Len(undo) + 1 /\ Len(undo) \in Nat
      /\ Last(undo') = entry
      /\ \A i \in 1 .. Len(undo) : undo'[i] = undo[i]
      /\ undo'[Len(undo) + 1] = entry
  <2>1. /\ Len(undo') = Len(undo) + 1 /\ Len(undo) \in Nat
        /\ \A i \in 1 .. Len(undo) : undo'[i] = undo[i]
        /\ undo'[Len(undo) + 1] = entry
    BY <1>2, AppendFacts
  <2>2. Last(undo') = undo'[Len(undo')]
    BY DEF Last
  <2> QED BY <2>1, <2>2
<1>4. undo # <<>> => undo[Len(undo)].after = store
  BY DEF Line, Last
<1>5. \A i \in 1 .. Len(undo') - 1 : undo'[i].after = undo'[i + 1].before
  <2> TAKE i \in 1 .. Len(undo') - 1
  <2>1. i \in 1 .. Len(undo)
    BY <1>3
  <2>2. CASE i = Len(undo)
    <3>1. undo # <<>>
      BY <2>1, EmptySeq
    <3> QED BY <1>1, <1>3, <1>4, <2>1, <2>2, <3>1
  <2>3. CASE i # Len(undo)
    <3>1. i \in 1 .. Len(undo) - 1 /\ i + 1 \in 1 .. Len(undo)
      BY <1>3, <2>1, <2>3
    <3> QED BY <1>3, <2>1, <3>1 DEF Line
  <2> QED BY <2>2, <2>3
<1>6. Len(redo') = 0
  BY <1>2
<1> QED BY <1>1, <1>2, <1>3, <1>5, <1>6 DEF Line

\* One step along a line: the top of stack u goes to stack r.  A[e] and B[e] are the ends
\* of entry e that the stacks are chained by: Undo is this with A the states after an action
\* and B those before it, Redo with the two exchanged.
Moving(S, u, r, u2, r2, A, B, top) ==
  /\ u \in Seq(S) /\ r \in Seq(S) /\ u # <<>>
  /\ top = Last(u) /\ u2 = Front(u) /\ r2 = Append(r, top)
  /\ r # <<>> => B[r[Len(r)]] = A[top]
  /\ \A i \in 1 .. Len(u) - 1 : A[u[i]] = B[u[i + 1]]
  /\ \A i \in 1 .. Len(r) - 1 : B[r[i]] = A[r[i + 1]]

\* Both stacks are chained, and meet at the other end of the entry.
MovedTo(u, r, A, B, top) ==
  /\ u # <<>> => A[u[Len(u)]] = B[top]
  /\ r[Len(r)] = top
  /\ \A i \in 1 .. Len(u) - 1 : A[u[i]] = B[u[i + 1]]
  /\ \A i \in 1 .. Len(r) - 1 : B[r[i]] = A[r[i + 1]]

LEMMA MovesLine ==
  ASSUME NEW S, NEW u, NEW r, NEW u2, NEW r2, NEW A, NEW B, NEW top,
         Moving(S, u, r, u2, r2, A, B, top)
  PROVE  MovedTo(u2, r2, A, B, top)
<1> USE DEF Moving
<1>1. /\ u2 \in Seq(S)
      /\ Len(u) \in Nat \ {0}
      /\ Len(u2) = Len(u) - 1
      /\ \A i \in 1 .. Len(u) - 1 : u2[i] = u[i]
      /\ top = u[Len(u)]
  BY FrontFacts
<1>2. /\ Len(r2) = Len(r) + 1 /\ Len(r) \in Nat
      /\ \A i \in 1 .. Len(r) : r2[i] = r[i]
      /\ r2[Len(r) + 1] = top
  BY AppendFacts
<1>3. ASSUME u2 # <<>> PROVE A[u2[Len(u2)]] = B[top]
  <2>1. Len(u2) \in Nat \ {0}
    BY <1>1, <1>3, EmptySeq
  <2>2. Len(u) - 1 \in 1 .. Len(u) - 1 /\ Len(u) - 1 + 1 = Len(u)
    BY <1>1, <2>1
  <2> QED BY <1>1, <2>2
<1>4. \A i \in 1 .. Len(u2) - 1 : A[u2[i]] = B[u2[i + 1]]
  <2> TAKE i \in 1 .. Len(u2) - 1
  <2>1. i \in 1 .. Len(u) - 1 /\ i + 1 \in 1 .. Len(u) - 1
    BY <1>1
  <2> QED BY <1>1, <2>1
<1>5. \A i \in 1 .. Len(r2) - 1 : B[r2[i]] = A[r2[i + 1]]
  <2> TAKE i \in 1 .. Len(r2) - 1
  <2>1. i \in 1 .. Len(r)
    BY <1>2
  <2>2. CASE i = Len(r)
    <3>1. r # <<>>
      BY <2>1, EmptySeq
    <3> QED BY <1>2, <2>1, <2>2, <3>1
  <2>3. CASE i # Len(r)
    <3>1. i \in 1 .. Len(r) - 1 /\ i + 1 \in 1 .. Len(r)
      BY <1>2, <2>1, <2>3
    <3> QED BY <1>2, <2>1, <3>1
  <2> QED BY <2>2, <2>3
<1> QED BY <1>2, <1>3, <1>4, <1>5 DEF MovedTo

\* The line through one step back and one step forward.
LEMMA ReturnsLine ==
  ASSUME NEW S, undo \in Seq(S), redo \in Seq(S), NEW a, NEW f,
         Line(undo, redo, store), Undo(a, f) \/ Redo(a, f)
  PROVE  Line(undo', redo', store')
<1> DEFINE A == [e \in S |-> e.after]
           B == [e \in S |-> e.before]
<1>1. \A e \in S : A[e] = e.after /\ B[e] = e.before
  OBVIOUS
<1>2. /\ \A i \in 1 .. Len(undo) : undo[i] \in S
      /\ \A i \in 1 .. Len(redo) : redo[i] \in S
      /\ Len(undo) \in Nat /\ Len(redo) \in Nat
  BY ElementOfSeq
<1>3. /\ undo # <<>> => Last(undo) \in S
      /\ redo # <<>> => Last(redo) \in S
  BY FrontFacts
<1>4. /\ \A i \in 1 .. Len(undo) - 1 : i \in 1 .. Len(undo) /\ i + 1 \in 1 .. Len(undo)
      /\ \A i \in 1 .. Len(redo) - 1 : i \in 1 .. Len(redo) /\ i + 1 \in 1 .. Len(redo)
  BY <1>2
<1>5. /\ undo # <<>> => A[undo[Len(undo)]] = store
      /\ redo # <<>> => B[redo[Len(redo)]] = store
      /\ \A i \in 1 .. Len(undo) - 1 : A[undo[i]] = B[undo[i + 1]]
      /\ \A i \in 1 .. Len(redo) - 1 : B[redo[i]] = A[redo[i + 1]]
  BY <1>1, <1>2, <1>3, <1>4 DEF Line, Last
<1>6. ASSUME undo' \in Seq(S), redo' \in Seq(S),
             undo' # <<>> => A[undo'[Len(undo')]] = store',
             redo' # <<>> => B[redo'[Len(redo')]] = store',
             \A i \in 1 .. Len(undo') - 1 : A[undo'[i]] = B[undo'[i + 1]],
             \A i \in 1 .. Len(redo') - 1 : B[redo'[i]] = A[redo'[i + 1]]
      PROVE  Line(undo', redo', store')
  <2>1. /\ \A i \in 1 .. Len(undo') : undo'[i] \in S
        /\ \A i \in 1 .. Len(redo') : redo'[i] \in S
        /\ Len(undo') \in Nat /\ Len(redo') \in Nat
    BY <1>6, ElementOfSeq
  <2>2. /\ undo' # <<>> => Last(undo') \in S
        /\ redo' # <<>> => Last(redo') \in S
    BY <1>6, FrontFacts
  <2>3. /\ \A i \in 1 .. Len(undo') - 1 : i \in 1 .. Len(undo') /\ i + 1 \in 1 .. Len(undo')
        /\ \A i \in 1 .. Len(redo') - 1 : i \in 1 .. Len(redo') /\ i + 1 \in 1 .. Len(redo')
    BY <2>1
  <2> QED BY <1>1, <1>6, <2>1, <2>2, <2>3 DEF Line, Last
<1> HIDE DEF A, B
<1>7. CASE Undo(a, f)
  <2>1. /\ undo # <<>> /\ Last(undo) \in S
        /\ store' = Last(undo).before
        /\ undo' = Front(undo) /\ redo' = Append(redo, Last(undo))
        /\ undo' \in Seq(S) /\ redo' \in Seq(S)
    BY <1>7, UndoFacts
  <2>2. B[Last(undo)] = store' /\ A[Last(undo)] = store
    BY <1>1, <1>5, <2>1 DEF Last
  <2> DEFINE top == Last(undo)
  <2>3. redo # <<>> => B[redo[Len(redo)]] = A[top]
    BY <1>5, <2>2
  <2>4. undo # <<>> /\ undo' = Front(undo) /\ redo' = Append(redo, top) /\ top = Last(undo)
    BY <2>1
  <2> HIDE DEF top
  <2>5. MovedTo(undo', redo', A, B, top)
    <3>1. Moving(S, undo, redo, undo', redo', A, B, top)
      BY <1>5, <2>3, <2>4 DEF Moving
    <3> QED BY <3>1, MovesLine
  <2> QED BY <1>6, <2>1, <2>2, <2>5 DEF top, MovedTo
<1>8. CASE Redo(a, f)
  <2>1. /\ redo # <<>> /\ Last(redo) \in S
        /\ store' = Last(redo).after
        /\ redo' = Front(redo) /\ undo' = Append(undo, Last(redo))
        /\ undo' \in Seq(S) /\ redo' \in Seq(S)
    BY <1>8, RedoFacts
  <2>2. A[Last(redo)] = store' /\ B[Last(redo)] = store
    BY <1>1, <1>5, <2>1 DEF Last
  <2> DEFINE top == Last(redo)
  <2>3. undo # <<>> => A[undo[Len(undo)]] = B[top]
    BY <1>5, <2>2
  <2>4. redo # <<>> /\ redo' = Front(redo) /\ undo' = Append(undo, top) /\ top = Last(redo)
    BY <2>1
  <2> HIDE DEF top
  <2>5. MovedTo(redo', undo', B, A, top)
    <3>1. Moving(S, redo, undo, redo', undo', B, A, top)
      BY <1>5, <2>3, <2>4 DEF Moving
    <3> QED BY <3>1, MovesLine
  <2> QED BY <1>6, <2>1, <2>2, <2>5 DEF top, MovedTo
<1> QED BY <1>7, <1>8

\* The line of states through every step.
LEMMA HistoryStep == LabInv /\ HistoryReturns /\ [Next]_vars => HistoryReturns'
<1> SUFFICES ASSUME LabInv, HistoryReturns, [Next]_vars PROVE HistoryReturns'
  OBVIOUS
<1>1. PICK S : undo \in Seq(S) /\ redo \in Seq(S)
  BY DEF LabInv, Stacked
<1>2. ASSUME UNCHANGED <<store, undo, redo, alone, torn>> PROVE HistoryReturns'
  BY <1>2 DEF HistoryReturns
<1>3. ASSUME alone' /\ ~torn' => Line(undo', redo', store') PROVE HistoryReturns'
  BY <1>3 DEF HistoryReturns, Line
<1>4. alone /\ ~torn => Line(undo, redo, store)
  BY DEF HistoryReturns, Line
<1>5. CASE UNCHANGED vars
  BY <1>2, <1>5 DEF vars
<1>6. CASE Observe \/ Expire
  BY <1>2, <1>6 DEF Observe, Expire
<1>7. ASSUME NEW a, NEW base, NEW key, NEW outcomes, NEW looks,
             Carries(a, base, key, outcomes, looks), alone' = alone, torn' = torn
      PROVE  HistoryReturns'
  <2>1. PICK s \in Committed(base, key, outcomes) :
          store' = s /\ Pushes(Entry(a, store, s))
    BY <1>7 DEF Carries
  <2>2. alone' /\ ~torn' => Line(undo', redo', store')
    BY <1>1, <1>4, <1>7, <2>1, PushesLine
  <2> QED BY <1>3, <2>2
<1>8. ASSUME NEW a \in ActionIds, NEW f \in DOMAIN frames, NEW b \in Bodies, Execute(a, f, b)
      PROVE  HistoryReturns'
  <2>1. /\ Carries(a, store, <<"action", a>>, Outcomes(store, b, a), 1)
        /\ alone' = alone /\ torn' = torn
    BY <1>8 DEF Execute
  <2> QED BY <1>7, <2>1
<1>9. ASSUME NEW a \in ActionIds, NEW f \in DOMAIN frames, NEW b \in Bodies,
             ExecuteViewport(a, f, b)
      PROVE  HistoryReturns'
  BY <1>2, <1>9 DEF ExecuteViewport
<1>10. ASSUME NEW a \in ActionIds, NEW f \in DOMAIN frames, Undo(a, f) \/ Redo(a, f)
       PROVE  HistoryReturns'
  <2>1. alone' = alone /\ torn' = torn
    BY <1>10 DEF Undo, Redo, Returns
  <2>2. alone /\ ~torn => Line(undo', redo', store')
    BY <1>1, <1>4, <1>10, ReturnsLine
  <2> QED BY <1>3, <2>1, <2>2
<1>11. ASSUME NEW a \in ActionIds, NEW f \in DOMAIN frames \cup {None}, ResetBenchmark(a, f)
       PROVE  HistoryReturns'
  <2>1. /\ Carries(a, initial, <<"benchmark", a>>, Scene(initial, a), Looks(f))
        /\ alone' = alone /\ torn' = torn
    BY <1>11 DEF ResetBenchmark
  <2> QED BY <1>7, <2>1
<1>12. ASSUME alone' = FALSE \/ torn' = TRUE PROVE HistoryReturns'
  BY <1>12 DEF HistoryReturns
<1>13. ASSUME NEW a \in ActionIds, NEW f \in DOMAIN frames \cup {None}, ResetFails(a, f)
       PROVE  HistoryReturns'
  BY <1>12, <1>13 DEF ResetFails
<1>14. CASE ForeignEdit \/ ForeignSubcanvas
  BY <1>12, <1>14 DEF ForeignEdit, ForeignSubcanvas, Commits
<1>15. CASE ForeignViewport
  BY <1>2, <1>15 DEF ForeignViewport
<1>16. CASE Crash \/ Shutdown
  <2>1. undo' = <<>> /\ redo' = <<>>
    BY <1>16 DEF Crash, Shutdown, Boots, NoHistory
  <2> QED BY <2>1 DEF HistoryReturns
<1>17. ASSUME NEW a \in ActionIds, Answered(a) PROVE HistoryReturns'
  BY <1>2, <1>17 DEF Answered, vars
<1>18. ASSUME NEW f \in 1 .. observed, Refused(f) PROVE HistoryReturns'
  BY <1>2, <1>18 DEF Refused, vars
<1> QED BY <1>5, <1>6, <1>8, <1>9, <1>10, <1>11, <1>13, <1>14, <1>15, <1>16, <1>17, <1>18
        DEF Next

\* While nobody else writes and no reset has failed half-way, undo and redo walk one line of
\* states in both directions, through new actions, resets and restarts between them.
THEOREM HistorySafe == Spec => []HistoryReturns
<1>1. Init => HistoryReturns
  BY DEF Init, HistoryReturns
<1> QED BY <1>1, HistoryStep, LabStart, LabStep, PTL DEF Spec

=============================================================================
