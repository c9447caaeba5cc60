------------------------- MODULE CanvasStoreProofs -------------------------
(***************************************************************************)
(* Theorems about CanvasStore, for any objects, canvases, keys, agents and *)
(* bounds.                                                                 *)
(***************************************************************************)
EXTENDS CanvasStore, TLAPS

----------------------------------------------------------------------------
(* Typing.                                                                 *)

\* The store a new workspace starts with is a state.
LEMMA NewStoreType == NewStore \in States
  BY StoreConstants DEF NewStore, States, EmptyCanvas, CanvasRecord

\* Operations and the closing bump turn a state that has canvas c into a state.
LEMMA OperationTypes ==
  ASSUME NEW d \in States, NEW c \in Canvases, HasCanvas(d, c), NEW o \in Objects
  PROVE  /\ \A v \in ObjectRecord : WithObject(d, c, o, v) \in States
         /\ \A child \in Canvases : WithCanvas(d, c, o, child) \in States
         /\ WithoutObject(d, c, o) \in States
         /\ \A n \in Nat : HasObject(d, o) => Patched(d, o, n) \in States
  <1>1. d.canvases[c] \in CanvasRecord
    BY DEF HasCanvas, States
  <1>2. ASSUME NEW v \in ObjectRecord PROVE WithObject(d, c, o, v) \in States
    BY <1>1 DEF WithObject, States, CanvasRecord
  <1>3. ASSUME NEW child \in Canvases PROVE WithCanvas(d, c, o, child) \in States
    BY DEF WithCanvas, EmptyCanvas, States, CanvasRecord
  <1>4. WithoutObject(d, c, o) \in States
    BY <1>1 DEF WithoutObject, States, CanvasRecord
  <1>5. ASSUME NEW n \in Nat, HasObject(d, o) PROVE Patched(d, o, n) \in States
    <2>1. d.objects[o] \in ObjectRecord
      BY <1>5 DEF HasObject, States
    <2> DEFINE v == [d.objects[o] EXCEPT !.revision = @ + 1, !.stamp = n]
    <2>2. v \in ObjectRecord
      <3>1. d.objects[o].revision + 1 \in Nat
        BY <2>1 DEF ObjectRecord
      <3>2. QED
        BY <2>1, <3>1 DEF ObjectRecord
    <2>3. Patched(d, o, n) = [d EXCEPT !.objects[o] = v]
      BY DEF Patched, States
    <2>4. [d EXCEPT !.objects[o] = v] \in States
      BY <2>2 DEF States
    <2>5. QED
      BY <2>3, <2>4
  <1>6. QED
    BY <1>2, <1>3, <1>4, <1>5

\* No operation removes a canvas, and only WithCanvas adds one.
LEMMA OperationCanvases ==
  ASSUME NEW d \in States, NEW c \in Canvases, HasCanvas(d, c), NEW o \in Objects,
         NEW b \in Canvases, HasCanvas(d, b)
  PROVE  /\ \A v \in ObjectRecord : HasCanvas(WithObject(d, c, o, v), b)
         /\ \A child \in Canvases : HasCanvas(WithCanvas(d, c, o, child), b)
         /\ HasCanvas(WithoutObject(d, c, o), b)
         /\ \A n \in Nat : HasCanvas(Patched(d, o, n), b)
  <1>1. d.canvases[c] \in CanvasRecord
    BY DEF HasCanvas, States
  <1>2. /\ \A m \in SUBSET Objects : [d.canvases[c] EXCEPT !.members = m] \in CanvasRecord
        /\ [d.canvases[c] EXCEPT !.revision = @ + 1] \in CanvasRecord
        /\ d.canvases[c].members \cup {o} \in SUBSET Objects
        /\ d.canvases[c].members \ {o} \in SUBSET Objects
    BY <1>1 DEF CanvasRecord
  <1>3. \A v \in ObjectRecord : HasCanvas(WithObject(d, c, o, v), b)
    BY <1>1, <1>2, StoreConstants DEF HasCanvas, WithObject, States
  <1>4. \A child \in Canvases : HasCanvas(WithCanvas(d, c, o, child), b)
    BY StoreConstants DEF HasCanvas, WithCanvas, EmptyCanvas, States, CanvasRecord
  <1>5. HasCanvas(WithoutObject(d, c, o), b)
    BY <1>1, <1>2, StoreConstants DEF HasCanvas, WithoutObject, States
  <1>6. \A n \in Nat : HasCanvas(Patched(d, o, n), b)
    BY DEF HasCanvas, Patched, States
  <1>7. QED
    BY <1>3, <1>4, <1>5, <1>6

\* Sealing a draft gives a state with the same canvases.
LEMMA SealType ==
  ASSUME NEW d \in States, NEW c \in Canvases, HasCanvas(d, c), NEW k \in Keys \cup {None}
  PROVE  /\ Seal(d, c, k) \in States
         /\ \A b \in Canvases : HasCanvas(Seal(d, c, k), b) <=> HasCanvas(d, b)
  <1> DEFINE m == [d.canvases[c] EXCEPT !.revision = @ + 1]
  <1>1. d.canvases[c] \in CanvasRecord
    BY DEF HasCanvas, States
  <1>2. m \in CanvasRecord
    BY <1>1 DEF CanvasRecord
  <1>3. Seal(d, c, k) = [d EXCEPT !.canvases[c] = m, !.keys = @ \cup ({k} \ {None})]
    BY DEF Seal, States
  <1>4. [d EXCEPT !.canvases[c] = m, !.keys = @ \cup ({k} \ {None})] \in States
    BY <1>2 DEF States
  <1>5. \A b \in Canvases : HasCanvas(Seal(d, c, k), b) <=> HasCanvas(d, b)
    BY <1>1, <1>2, <1>3, StoreConstants DEF HasCanvas, States
  <1>6. QED
    BY <1>3, <1>4, <1>5

\* The four shapes of an operation step: what it makes of the draft, and on which
\* object and canvas.
LEMMA OperateCases ==
  ASSUME TypeOK, Operate
  PROVE  /\ tx # None /\ tx \in Calls /\ tx.canvas \in Canvases
         /\ tx' = [tx EXCEPT !.applied = @ + 1] /\ tx' \in Calls /\ tx' # None
         /\ UNCHANGED <<store, events, view, epoch, viewEpoch, stamp>>
         /\ \E o \in Objects :
              \/ \E v \in ObjectRecord :
                   /\ ~HasObject(draft, o) /\ v.canvas = tx.canvas
                   /\ draft' = WithObject(draft, tx.canvas, o, v)
              \/ \E child \in Canvases, v \in ObjectRecord :
                   /\ ~HasObject(draft, o) /\ ~HasCanvas(draft, child)
                   /\ LinkedPortals => v.canvas = tx.canvas
                   /\ draft' = WithObject(WithCanvas(draft, tx.canvas, o, child),
                                          tx.canvas, o, v)
              \/ /\ HasObject(draft, o) /\ draft.objects[o].canvas = tx.canvas
                 /\ draft' = WithoutObject(draft, tx.canvas, o)
              \/ /\ HasObject(draft, o) /\ draft.objects[o].canvas = tx.canvas
                 /\ \E n \in Nat : draft' = Patched(draft, o, n)
  <1>1. PICK o \in Objects :
          \/ CreateObject(o)
          \/ \E child \in Canvases, home \in Canvases : CreateSubcanvas(o, child, home)
          \/ \E e : DeleteObject(o, e)
          \/ \E e : PatchObject(o, e)
    BY DEF Operate
  <1>2. tx # None /\ \E d : Step(d)
    BY <1>1 DEF CreateObject, CreateSubcanvas, DeleteObject, PatchObject, Targets, Looping
  <1>3. /\ tx \in Calls /\ tx.canvas \in Canvases /\ tx.applied + 1 \in Nat
        /\ stamp + tx.applied + 1 \in Nat
    BY <1>2 DEF TypeOK, Calls
  <1>4. tx' = [tx EXCEPT !.applied = @ + 1] /\ UNCHANGED <<store, events, view, epoch, viewEpoch, stamp>>
    BY <1>2 DEF Step
  <1>5. tx' \in Calls /\ tx' # None
    <2>1. tx' \in Calls
      BY <1>3, <1>4 DEF Calls
    <2>2. QED
      BY <2>1, StoreConstants DEF Calls
  <1>6. \A c \in Canvases, kind \in Kinds :
          NewObject(c, kind) \in ObjectRecord /\ NewObject(c, kind).canvas = c
    BY <1>3 DEF NewObject, ObjectRecord
  <1>7. "plain" \in Kinds /\ "subcanvas" \in Kinds
    BY DEF Kinds
  <1>8. CASE CreateObject(o)
    BY <1>3, <1>4, <1>2, <1>5, <1>6, <1>7, <1>8 DEF CreateObject, Step
  <1>9. ASSUME NEW child \in Canvases, NEW home \in Canvases, CreateSubcanvas(o, child, home)
        PROVE  \E v \in ObjectRecord :
                 /\ ~HasObject(draft, o) /\ ~HasCanvas(draft, child)
                 /\ LinkedPortals => v.canvas = tx.canvas
                 /\ draft' = WithObject(WithCanvas(draft, tx.canvas, o, child),
                                        tx.canvas, o, v)
    <2> DEFINE v == NewObject(home, "subcanvas")
    <2>1. v \in ObjectRecord /\ v.canvas = home
      BY <1>6, <1>7
    <2>2. QED
      BY <2>1, <1>9 DEF CreateSubcanvas, Step
  <1>10. CASE \E e : DeleteObject(o, e)
    BY <1>2, <1>3, <1>4, <1>5, <1>10 DEF DeleteObject, Targets, Step
  <1>11. CASE \E e : PatchObject(o, e)
    BY <1>2, <1>3, <1>4, <1>5, <1>11 DEF PatchObject, Targets, Step
  <1>12. QED
    BY <1>1, <1>2, <1>3, <1>4, <1>5, <1>8, <1>9, <1>10, <1>11

\* During a call the transaction's canvas exists in the draft: canvases are never
\* removed, so delete_object's `if (canvas)' always finds one.
CallOnCanvas ==
  /\ tx # None => HasCanvas(draft, tx.canvas)
  /\ tx # None => HasCanvas(store, tx.canvas)

\* Every state variable keeps its type, and a call keeps its canvas.
THEOREM TypeCorrect == Spec => [](TypeOK /\ CallOnCanvas)
  <1>1. Init => TypeOK /\ CallOnCanvas
    BY NewStoreType DEF Init, TypeOK, CallOnCanvas
  <1>2. TypeOK /\ CallOnCanvas /\ [Next]_vars => (TypeOK /\ CallOnCanvas)'
    <2> SUFFICES ASSUME TypeOK, CallOnCanvas, [Next]_vars
                 PROVE  (TypeOK /\ CallOnCanvas)'
      OBVIOUS
    <2> USE DEF TypeOK, CallOnCanvas
    <2>1. ASSUME NEW a \in Agents, Read(a) PROVE (TypeOK /\ CallOnCanvas)'
      BY <2>1 DEF Read
    <2>2. ASSUME NEW a \in Agents, Restore(a) PROVE (TypeOK /\ CallOnCanvas)'
      BY <2>2 DEF Restore
    <2>3. ASSUME NEW a \in Agents, NEW c \in Canvases, NEW k \in Keys \cup {None},
                 NEW pre, Begin(a, c, k, pre)
          PROVE  (TypeOK /\ CallOnCanvas)'
      BY <2>3, StoreConstants DEF Begin, Calls
    <2>4. ASSUME Operate PROVE (TypeOK /\ CallOnCanvas)'
      <3>1. tx # None /\ tx.canvas \in Canvases /\ HasCanvas(draft, tx.canvas)
        BY <2>4, OperateCases
      <3>2. draft' \in States /\ HasCanvas(draft', tx.canvas)
        <4>1. PICK o \in Objects :
                \/ \E v \in ObjectRecord : draft' = WithObject(draft, tx.canvas, o, v)
                \/ \E child \in Canvases, v \in ObjectRecord :
                     draft' = WithObject(WithCanvas(draft, tx.canvas, o, child), tx.canvas, o, v)
                \/ draft' = WithoutObject(draft, tx.canvas, o)
                \/ HasObject(draft, o) /\ \E n \in Nat : draft' = Patched(draft, o, n)
          BY <2>4, OperateCases
        <4>2. ASSUME NEW child \in Canvases, NEW v \in ObjectRecord
              PROVE  LET d == WithObject(WithCanvas(draft, tx.canvas, o, child), tx.canvas, o, v)
                     IN  d \in States /\ HasCanvas(d, tx.canvas)
          <5> DEFINE w == WithCanvas(draft, tx.canvas, o, child)
          <5>1. w \in States /\ HasCanvas(w, tx.canvas)
            BY <3>1, OperationTypes, OperationCanvases
          <5>2. QED
            BY <3>1, <5>1, OperationTypes, OperationCanvases
        <4>3. QED
          BY <3>1, <4>1, <4>2, OperationTypes, OperationCanvases
      <3>3. tx'.canvas = tx.canvas
        BY <2>4, OperateCases DEF Calls
      <3>4. QED
        BY <2>4, <3>1, <3>2, <3>3, OperateCases
    <2>5. ASSUME Throw PROVE (TypeOK /\ CallOnCanvas)'
      BY <2>5 DEF Throw
    <2>6. ASSUME Commit PROVE (TypeOK /\ CallOnCanvas)'
      <3>1. tx \in Calls /\ tx.canvas \in Canvases /\ tx.key \in Keys \cup {None}
            /\ tx.applied \in Nat
        BY <2>6 DEF Commit, Calls
      <3>2. Sealed \in States
        BY <2>6, <3>1, SealType DEF Commit, Sealed
      <3>3. Event \in Events
        BY ONLY <3>1, <3>2, TypeOK DEF Event, Events, TypeOK
      <3>4. QED
        BY <2>6, <3>1, <3>2, <3>3 DEF Commit
    <2>7. CASE UNCHANGED vars
      BY <2>7 DEF vars
    <2>8. ASSUME Submit PROVE (TypeOK /\ CallOnCanvas)'
      BY <2>8, <2>3, <2>7 DEF Submit, Refuse
    <2>9. QED
      BY <2>1, <2>2, <2>4, <2>5, <2>6, <2>7, <2>8 DEF Next
  <1>3. QED
    BY <1>1, <1>2, PTL DEF Spec

----------------------------------------------------------------------------
(* The canvas tree.                                                        *)

\* e has the canvases and the parents of d.
SameTree(d, e) ==
  \A c \in Canvases : /\ HasCanvas(e, c) <=> HasCanvas(d, c)
                      /\ HasCanvas(d, c) => e.canvases[c].parent = d.canvases[c].parent

\* Rootedness depends on the canvases and their parents only.
LEMMA SameTreeRooted ==
  ASSUME NEW d \in States, NEW e \in States, SameTree(d, e), RootedIn(d)
  PROVE  RootedIn(e)
  <1>1. HasCanvas(e, Root)
    BY StoreConstants DEF RootedIn, SameTree
  <1>2. ASSUME NEW T \in SUBSET {c \in Canvases \ {Root} : HasCanvas(e, c)}, T # {}
        PROVE  \E c \in T : /\ e.canvases[c].parent \notin T
                            /\ e.canvases[c].parent \in Canvases
                            /\ HasCanvas(e, e.canvases[c].parent)
    <2>1. T \in SUBSET {c \in Canvases \ {Root} : HasCanvas(d, c)}
      BY <1>2 DEF SameTree
    <2>2. PICK c \in T : /\ d.canvases[c].parent \notin T
                         /\ d.canvases[c].parent \in Canvases
                         /\ HasCanvas(d, d.canvases[c].parent)
      BY <1>2, <2>1 DEF RootedIn
    <2>3. c \in Canvases /\ HasCanvas(d, c) /\ e.canvases[c].parent = d.canvases[c].parent
      BY <2>1 DEF SameTree
    <2>4. QED
      BY <2>2, <2>3 DEF SameTree
  <1>3. QED
    BY <1>1, <1>2 DEF RootedIn

\* All operations but WithCanvas, and sealing, keep the tree.
LEMMA OperationsKeepTree ==
  ASSUME NEW d \in States, NEW c \in Canvases, HasCanvas(d, c)
  PROVE  /\ \A o \in Objects, v \in ObjectRecord : SameTree(d, WithObject(d, c, o, v))
         /\ \A o \in Objects : SameTree(d, WithoutObject(d, c, o))
         /\ \A o \in Objects, n \in Nat : SameTree(d, Patched(d, o, n))
         /\ \A k \in Keys \cup {None} : SameTree(d, Seal(d, c, k))
  <1>1. d.canvases[c] \in CanvasRecord
    BY DEF HasCanvas, States
  <1>2. ASSUME NEW o \in Objects, NEW v \in ObjectRecord
        PROVE  SameTree(d, WithObject(d, c, o, v))
    <2> DEFINE m == [d.canvases[c] EXCEPT !.members = @ \cup {o}]
    <2>1. m \in CanvasRecord /\ m.parent = d.canvases[c].parent
      BY <1>1 DEF CanvasRecord
    <2>2. WithObject(d, c, o, v).canvases = [d.canvases EXCEPT ![c] = m]
      BY DEF WithObject, States
    <2>3. QED
      BY <2>1, <2>2, StoreConstants DEF SameTree, HasCanvas, States
  <1>3. ASSUME NEW o \in Objects
        PROVE  SameTree(d, WithoutObject(d, c, o))
    <2> DEFINE m == [d.canvases[c] EXCEPT !.members = @ \ {o}]
    <2>1. m \in CanvasRecord /\ m.parent = d.canvases[c].parent
      BY <1>1 DEF CanvasRecord
    <2>2. WithoutObject(d, c, o).canvases = [d.canvases EXCEPT ![c] = m]
      BY DEF WithoutObject, States
    <2>3. QED
      BY <2>1, <2>2, StoreConstants DEF SameTree, HasCanvas, States
  <1>4. \A o \in Objects, n \in Nat : SameTree(d, Patched(d, o, n))
    BY DEF SameTree, HasCanvas, Patched, States
  <1>5. ASSUME NEW k \in Keys \cup {None}
        PROVE  SameTree(d, Seal(d, c, k))
    <2> DEFINE m == [d.canvases[c] EXCEPT !.revision = @ + 1]
    <2>1. m \in CanvasRecord /\ m.parent = d.canvases[c].parent
      BY <1>1 DEF CanvasRecord
    <2>2. Seal(d, c, k).canvases = [d.canvases EXCEPT ![c] = m]
      BY DEF Seal, States
    <2>3. QED
      BY <2>1, <2>2, StoreConstants DEF SameTree, HasCanvas, States
  <1>6. QED
    BY <1>2, <1>3, <1>4, <1>5

\* A new canvas hangs from the transaction's canvas, which exists and is not new.
LEMMA WithCanvasRooted ==
  ASSUME NEW d \in States, RootedIn(d), NEW c \in Canvases, HasCanvas(d, c),
         NEW child \in Canvases, ~HasCanvas(d, child), NEW o \in Objects
  PROVE  RootedIn(WithCanvas(d, c, o, child))
  <1> DEFINE e == WithCanvas(d, c, o, child)
  <1>1. /\ e.canvases = [d.canvases EXCEPT ![child] = EmptyCanvas(c, o)]
        /\ EmptyCanvas(c, o) \in CanvasRecord /\ EmptyCanvas(c, o).parent = c
    BY DEF WithCanvas, EmptyCanvas, States, CanvasRecord
  <1>2. \A b \in Canvases : HasCanvas(e, b) <=> HasCanvas(d, b) \/ b = child
    BY <1>1, StoreConstants DEF HasCanvas, States
  <1>3. HasCanvas(e, Root)
    BY <1>2, StoreConstants DEF RootedIn
  <1>4. e.canvases[child].parent = c /\ c # child
    BY <1>1 DEF States
  <1>5. \A b \in Canvases \ {child} : e.canvases[b] = d.canvases[b]
    BY <1>1 DEF States
  <1>6. ASSUME NEW T \in SUBSET {b \in Canvases \ {Root} : HasCanvas(e, b)}, T # {}
        PROVE  \E b \in T : /\ e.canvases[b].parent \notin T
                            /\ e.canvases[b].parent \in Canvases
                            /\ HasCanvas(e, e.canvases[b].parent)
    <2> DEFINE U == T \ {child}
    <2>1. CASE U = {}
      <3>1. T = {child}
        BY <1>6, <2>1
      <3>2. QED
        BY <3>1, <1>2, <1>4
    <2>2. CASE U # {}
      <3>1. U \in SUBSET {b \in Canvases \ {Root} : HasCanvas(d, b)}
        BY <1>2, <1>6
      <3>2. PICK b \in U : /\ d.canvases[b].parent \notin U
                           /\ d.canvases[b].parent \in Canvases
                           /\ HasCanvas(d, d.canvases[b].parent)
        BY <2>2, <3>1 DEF RootedIn
      <3>3. d.canvases[b].parent # child
        BY <3>2
      <3>4. b \in Canvases /\ e.canvases[b].parent = d.canvases[b].parent
        BY <1>5, <3>1, <3>2
      <3>5. QED
        BY <1>2, <3>2, <3>3, <3>4
    <2>3. QED
      BY <2>1, <2>2
  <1>7. QED
    BY <1>3, <1>6 DEF RootedIn

\* The canvases of every workspace state form a tree rooted at the root canvas, also
\* after portals are deleted, ids reused and snapshots restored.
THEOREM LineageHolds == Spec => []Lineage
  <1>1. Init => AllRooted
    <2>1. RootedIn(NewStore)
      <3>1. EmptyCanvas(None, None) # None
        BY StoreConstants DEF EmptyCanvas, CanvasRecord
      <3>2. \A c \in Canvases : HasCanvas(NewStore, c) <=> c = Root
        BY <3>1 DEF HasCanvas, NewStore
      <3>3. QED
        BY <3>2, StoreConstants DEF RootedIn
    <2>2. QED
      BY <2>1 DEF Init, AllRooted
  <1>2. TypeOK /\ CallOnCanvas /\ TypeOK' /\ AllRooted /\ [Next]_vars => AllRooted'
    <2> SUFFICES ASSUME TypeOK, CallOnCanvas, TypeOK', AllRooted, [Next]_vars
                 PROVE  AllRooted'
      OBVIOUS
    <2>1. ASSUME NEW a \in Agents, Read(a) \/ Restore(a) PROVE AllRooted'
      BY <2>1 DEF Read, Restore, AllRooted, TypeOK
    <2>2. ASSUME Submit PROVE AllRooted'
      BY <2>2 DEF Submit, Begin, Refuse, vars, AllRooted
    <2>3. ASSUME Operate PROVE AllRooted'
      <3>1. /\ tx.canvas \in Canvases /\ HasCanvas(draft, tx.canvas)
            /\ draft \in States /\ draft' \in States /\ RootedIn(draft)
            /\ UNCHANGED <<store, view>>
        BY <2>3, OperateCases DEF TypeOK, CallOnCanvas, AllRooted
      <3>2. PICK o \in Objects :
              \/ \E v \in ObjectRecord : draft' = WithObject(draft, tx.canvas, o, v)
              \/ \E child \in Canvases, v \in ObjectRecord :
                   /\ ~HasCanvas(draft, child)
                   /\ draft' = WithObject(WithCanvas(draft, tx.canvas, o, child), tx.canvas, o, v)
              \/ draft' = WithoutObject(draft, tx.canvas, o)
              \/ \E n \in Nat : draft' = Patched(draft, o, n)
        BY <2>3, OperateCases
      <3>3. ASSUME NEW child \in Canvases, NEW v \in ObjectRecord, ~HasCanvas(draft, child),
                   draft' = WithObject(WithCanvas(draft, tx.canvas, o, child), tx.canvas, o, v)
            PROVE  RootedIn(draft')
        <4> DEFINE w == WithCanvas(draft, tx.canvas, o, child)
        <4>1. w \in States /\ HasCanvas(w, tx.canvas) /\ RootedIn(w)
          BY <3>1, <3>3, OperationTypes, OperationCanvases, WithCanvasRooted
        <4>2. SameTree(w, draft')
          BY <3>1, <3>3, <4>1, OperationsKeepTree
        <4>3. QED
          BY <3>1, <4>1, <4>2, SameTreeRooted
      <3>4. CASE SameTree(draft, draft')
        BY <3>1, <3>4, SameTreeRooted DEF AllRooted
      <3>5. RootedIn(draft')
        BY <3>1, <3>2, <3>3, <3>4, OperationsKeepTree, SameTreeRooted
      <3>6. QED
        BY <3>1, <3>5 DEF AllRooted
    <2>4. ASSUME Throw PROVE AllRooted'
      BY <2>4 DEF Throw, AllRooted
    <2>5. ASSUME Commit PROVE AllRooted'
      <3>1. tx.canvas \in Canvases /\ tx.key \in Keys \cup {None} /\ draft \in States
        BY <2>5 DEF Commit, TypeOK, Calls
      <3>2. Sealed \in States /\ SameTree(draft, Sealed)
        BY <2>5, <3>1, SealType, OperationsKeepTree DEF Commit, Sealed
      <3>3. RootedIn(Sealed)
        BY <3>1, <3>2, SameTreeRooted DEF AllRooted
      <3>4. QED
        BY <2>5, <3>3 DEF Commit, AllRooted
    <2>6. CASE UNCHANGED vars
      BY <2>6 DEF vars, AllRooted
    <2>7. QED
      BY <2>1, <2>2, <2>3, <2>4, <2>5, <2>6 DEF Next
  <1>3. AllRooted => Lineage
    BY DEF AllRooted, Lineage
  <1>4. QED
    BY <1>1, <1>2, <1>3, TypeCorrect, PTL DEF Spec

----------------------------------------------------------------------------
(* Revisions and content.                                                  *)

\* Two steps that each keep the events and revisions already published keep them together.
LEMMA FrameTransitive ==
  ASSUME NEW d, NEW e, NEW f, NEW c, Frame(d, e, c), Frame(e, f, c)
  PROVE  Frame(d, f, c)
  BY DEF Frame

\* Operations on canvas c leave the other canvases and all revisions alone.
LEMMA OperationFrames ==
  ASSUME NEW d \in States, NEW c \in Canvases, HasCanvas(d, c), NEW o \in Objects
  PROVE  /\ \A v \in ObjectRecord :
              ~HasObject(d, o) /\ v.canvas = c => Frame(d, WithObject(d, c, o, v), c)
         /\ \A child \in Canvases :
              ~HasCanvas(d, child) => Frame(d, WithCanvas(d, c, o, child), c)
         /\ HasObject(d, o) /\ d.objects[o].canvas = c
              => /\ Frame(d, WithoutObject(d, c, o), c)
                 /\ \A n \in Nat : Frame(d, Patched(d, o, n), c)
  <1>1. d.canvases[c] \in CanvasRecord
    BY DEF HasCanvas, States
  <1>2. ASSUME NEW e \in States, NEW m \in CanvasRecord,
               m.revision = d.canvases[c].revision,
               e.canvases = [d.canvases EXCEPT ![c] = m],
               \A p \in Objects \ {o} : e.objects[p] = d.objects[p],
               HasObject(d, o) => d.objects[o].canvas = c,
               HasObject(e, o) => e.objects[o].canvas = c
        PROVE  Frame(d, e, c)
    <2>1. ASSUME NEW b \in Canvases, HasCanvas(d, b)
          PROVE  /\ HasCanvas(e, b) /\ e.canvases[b].revision = d.canvases[b].revision
                 /\ b # c => e.canvases[b] = d.canvases[b]
      BY <1>2, <2>1, StoreConstants DEF HasCanvas, States
    <2>2. ASSUME NEW b \in Canvases, b # c
          PROVE  Content(e, b) = Content(d, b)
      BY <1>2, <2>2 DEF Content, HasObject
    <2>3. QED
      BY <2>1, <2>2 DEF Frame
  <1>3. ASSUME NEW v \in ObjectRecord, ~HasObject(d, o), v.canvas = c
        PROVE  Frame(d, WithObject(d, c, o, v), c)
    <2> DEFINE e == WithObject(d, c, o, v)
               m == [d.canvases[c] EXCEPT !.members = @ \cup {o}]
    <2>1. e \in States /\ m \in CanvasRecord /\ m.revision = d.canvases[c].revision
      BY <1>1, OperationTypes DEF CanvasRecord
    <2>2. e.canvases = [d.canvases EXCEPT ![c] = m] /\ e.objects = [d.objects EXCEPT ![o] = v]
      BY DEF WithObject, States
    <2>3. e.objects[o].canvas = c /\ \A p \in Objects \ {o} : e.objects[p] = d.objects[p]
      BY <1>3, <2>2 DEF States
    <2> HIDE DEF e, m
    <2>4. Frame(d, e, c)
      BY <1>2, <1>3, <2>1, <2>2, <2>3
    <2>5. QED
      BY <2>4 DEF e
  <1>4. ASSUME NEW child \in Canvases, ~HasCanvas(d, child)
        PROVE  Frame(d, WithCanvas(d, c, o, child), c)
    <2> DEFINE e == WithCanvas(d, c, o, child)
    <2>1. e.objects = d.objects /\ \A b \in Canvases \ {child} : e.canvases[b] = d.canvases[b]
      BY DEF WithCanvas, States
    <2>2. \A b \in Canvases : Content(e, b) = Content(d, b)
      BY <2>1 DEF Content, HasObject
    <2>3. QED
      BY <1>4, <2>1, <2>2 DEF Frame, HasCanvas
  <1>5. ASSUME HasObject(d, o), d.objects[o].canvas = c
        PROVE  Frame(d, WithoutObject(d, c, o), c)
    <2> DEFINE e == WithoutObject(d, c, o)
               m == [d.canvases[c] EXCEPT !.members = @ \ {o}]
    <2>1. e \in States /\ m \in CanvasRecord /\ m.revision = d.canvases[c].revision
      BY <1>1, OperationTypes DEF CanvasRecord
    <2>2. e.canvases = [d.canvases EXCEPT ![c] = m] /\ e.objects = [d.objects EXCEPT ![o] = None]
      BY DEF WithoutObject, States
    <2>3. ~HasObject(e, o) /\ \A p \in Objects \ {o} : e.objects[p] = d.objects[p]
      BY <2>2 DEF States, HasObject
    <2> HIDE DEF e, m
    <2>4. Frame(d, e, c)
      BY <1>2, <1>5, <2>1, <2>2, <2>3
    <2>5. QED
      BY <2>4 DEF e
  <1>6. ASSUME NEW n \in Nat, HasObject(d, o), d.objects[o].canvas = c
        PROVE  Frame(d, Patched(d, o, n), c)
    <2> DEFINE e == Patched(d, o, n)
    <2>1. e \in States /\ d.objects[o] \in ObjectRecord
      BY <1>6, OperationTypes DEF HasObject, States
    <2>2. /\ e.canvases = [d.canvases EXCEPT ![c] = d.canvases[c]]
          /\ \A p \in Objects \ {o} : e.objects[p] = d.objects[p]
      BY DEF Patched, States
    <2>3. e.objects[o].canvas = c
      BY <1>6, <2>1 DEF Patched, States, ObjectRecord
    <2> HIDE DEF e
    <2>4. Frame(d, e, c)
      BY <1>1, <1>2, <1>6, <2>1, <2>2, <2>3
    <2>5. QED
      BY <2>4 DEF e
  <1>7. QED
    BY <1>3, <1>4, <1>5, <1>6

\* One operation step stays within the frame of the transaction's canvas.
LEMMA OperateFrames ==
  ASSUME TypeOK, CallOnCanvas, LinkedPortals, Operate
  PROVE  Frame(draft, draft', tx.canvas)
  <1> DEFINE c == tx.canvas
  <1>1. draft \in States /\ c \in Canvases /\ HasCanvas(draft, c)
    BY OperateCases DEF TypeOK, CallOnCanvas
  <1>2. PICK o \in Objects :
          \/ \E v \in ObjectRecord :
               ~HasObject(draft, o) /\ v.canvas = c /\ draft' = WithObject(draft, c, o, v)
          \/ \E child \in Canvases, v \in ObjectRecord :
               /\ ~HasObject(draft, o) /\ ~HasCanvas(draft, child) /\ v.canvas = c
               /\ draft' = WithObject(WithCanvas(draft, c, o, child), c, o, v)
          \/ /\ HasObject(draft, o) /\ draft.objects[o].canvas = c
             /\ draft' = WithoutObject(draft, c, o) \/ \E n \in Nat : draft' = Patched(draft, o, n)
    BY OperateCases
  <1>3. ASSUME NEW child \in Canvases, NEW v \in ObjectRecord, ~HasObject(draft, o),
               ~HasCanvas(draft, child), v.canvas = c,
               draft' = WithObject(WithCanvas(draft, c, o, child), c, o, v)
        PROVE  Frame(draft, draft', c)
    <2> DEFINE w == WithCanvas(draft, c, o, child)
    <2>1. w \in States /\ HasCanvas(w, c) /\ Frame(draft, w, c)
      BY <1>1, <1>3, OperationTypes, OperationCanvases, OperationFrames
    <2>2. ~HasObject(w, o)
      BY <1>1, <1>3 DEF WithCanvas, HasObject, States
    <2>3. Frame(w, draft', c)
      BY <1>1, <1>3, <2>1, <2>2, OperationFrames
    <2>4. QED
      BY <2>1, <2>3, FrameTransitive
  <1>4. QED
    BY <1>1, <1>2, <1>3, OperationFrames

RevisionInv == DraftFramed /\ ReadsArePast /\ GuardChecked

\* An empty store has published nothing, so every claim about what was published holds.
LEMMA RevisionInvInit == Init => RevisionInv
  <1> SUFFICES ASSUME Init PROVE RevisionInv
    OBVIOUS
  <1>1. \A a \in Agents, c \in Canvases : view[a] = store /\ viewEpoch[a] = epoch /\ epoch = 0
    BY DEF Init
  <1>2. \A c \in Canvases : HasCanvas(store, c) => store.canvases[c].revision \in Nat
    BY NewStoreType DEF Init, HasCanvas, States, CanvasRecord
  <1>3. ReadsArePast
    BY <1>1, <1>2 DEF ReadsArePast, Init
  <1>4. QED
    BY <1>3 DEF Init, RevisionInv, DraftFramed, GuardChecked

\* Every public call, and every transaction step, keeps the revision bookkeeping.
LEMMA RevisionInvStep ==
  ASSUME TypeOK, CallOnCanvas, RevisionInv, [Next]_vars
  PROVE  RevisionInv'
  <1> USE DEF RevisionInv
  <1>0. ASSUME NEW s \in States, NEW c \in Canvases, HasCanvas(s, c)
        PROVE  s.canvases[c].revision \in Nat
    BY <1>0 DEF HasCanvas, States, CanvasRecord
  <1>1. ASSUME NEW a \in Agents, Read(a) PROVE RevisionInv'
    <2>1. /\ store' = store /\ draft' = draft /\ tx = None /\ tx' = None /\ epoch' = epoch
          /\ view' = [view EXCEPT ![a] = store] /\ viewEpoch' = [viewEpoch EXCEPT ![a] = epoch]
          /\ store \in States /\ view \in [Agents -> States] /\ viewEpoch \in [Agents -> Nat]
          /\ epoch \in Nat
      BY <1>1 DEF Read, TypeOK
    <2>2. ASSUME NEW b \in Agents
          PROVE  \/ view'[b] = store /\ viewEpoch'[b] = epoch
                 \/ view'[b] = view[b] /\ viewEpoch'[b] = viewEpoch[b]
      BY <2>1
    <2>3. ReadsArePast'
      BY <1>0, <2>1, <2>2 DEF ReadsArePast
    <2>4. QED
      BY <2>1, <2>3 DEF DraftFramed, GuardChecked
  <1>2. ASSUME NEW a \in Agents, Restore(a) PROVE RevisionInv'
    <2>1. /\ tx' = None /\ draft' = store' /\ epoch' = epoch + 1 /\ epoch \in Nat
          /\ viewEpoch' = viewEpoch /\ viewEpoch \in [Agents -> Nat]
      BY <1>2 DEF Restore, TypeOK
    <2>2. ReadsArePast'
      BY <2>1 DEF ReadsArePast
    <2>3. QED
      BY <2>1, <2>2 DEF DraftFramed, GuardChecked
  <1>3. ASSUME NEW a \in Agents, NEW c \in Canvases, NEW k \in Keys \cup {None},
               NEW pre \in PreconditionSets(a), Begin(a, c, k, pre)
        PROVE  RevisionInv'
    <2>1. /\ UNCHANGED <<store, view, epoch, viewEpoch>> /\ draft' = store /\ HasCanvas(store, c)
          /\ tx' = [agent |-> a, canvas |-> c, key |-> k,
                    guarded |-> \E p \in pre : p.type = "canvas_revision" /\ p.target = c,
                    applied |-> 0]
      BY <1>3 DEF Begin
    <2>2. tx' # None
      <3>1. (\E p \in pre : p.type = "canvas_revision" /\ p.target = c) \in BOOLEAN
        OBVIOUS
      <3>2. tx' \in Calls
        BY <2>1, <3>1 DEF Calls
      <3>3. QED
        BY <3>2, StoreConstants
    <2>3. ReadsArePast'
      BY <2>1 DEF ReadsArePast
    <2>4. DraftFramed'
      BY <2>1, <2>2 DEF DraftFramed, Frame
    <2>5. ASSUME NEW p \in pre, p.type = "canvas_revision", p.target = c
          PROVE  SameRevision(view[a], store, c)
      <3>1. p \in Preconditions(a) /\ Holds(p)
        BY <1>3 DEF Begin, PreconditionSets
      <3>2. HasCanvas(view[a], c) /\ p.expected = view[a].canvases[c].revision
        BY <2>5, <3>1 DEF Preconditions
      <3>3. HasCanvas(store, c) /\ store.canvases[c].revision = p.expected
        BY <2>5, <3>1 DEF Holds
      <3>4. QED
        BY <3>2, <3>3 DEF SameRevision
    <2>6. GuardChecked'
      BY <2>1, <2>5 DEF GuardChecked, SameRevision, HasCanvas
    <2>7. QED
      BY <2>3, <2>4, <2>6
  <1>4. ASSUME Operate PROVE RevisionInv'
    <2>1. /\ UNCHANGED <<store, view, epoch, viewEpoch>> /\ tx # None /\ tx' # None /\ tx \in Calls
          /\ tx' = [tx EXCEPT !.applied = @ + 1]
      BY <1>4, OperateCases
    <2>2. tx'.canvas = tx.canvas /\ tx'.agent = tx.agent /\ tx'.guarded = tx.guarded
      BY <2>1 DEF Calls
    <2>3. LinkedPortals => Frame(store, draft', tx.canvas)
      BY <1>4, <2>1, OperateFrames, FrameTransitive DEF DraftFramed
    <2>4. QED
      BY <2>1, <2>2, <2>3 DEF DraftFramed, ReadsArePast, GuardChecked, Frame, SameRevision, HasCanvas, Content, HasObject
  <1>5. ASSUME Throw PROVE RevisionInv'
    BY <1>5 DEF Throw, DraftFramed, ReadsArePast, GuardChecked
  <1>6. ASSUME Commit PROVE RevisionInv'
    <2> DEFINE c == tx.canvas
    <2>1. /\ c \in Canvases /\ draft \in States /\ store \in States /\ HasCanvas(draft, c)
          /\ store' = Sealed /\ draft' = Sealed /\ tx' = None /\ tx # None
          /\ UNCHANGED <<view, epoch, viewEpoch>>
      BY <1>6 DEF Commit, TypeOK, Calls
    <2>2. \A b \in Canvases : /\ HasCanvas(draft, b) => HasCanvas(Sealed, b)
                              /\ b # c => Sealed.canvases[b] = draft.canvases[b]
                              /\ Content(Sealed, b) = Content(draft, b)
      <3>1. tx.key \in Keys \cup {None}
        BY <2>1 DEF TypeOK, Calls
      <3>2. \A b \in Canvases : HasCanvas(draft, b) => HasCanvas(Sealed, b)
        BY <2>1, <3>1, SealType DEF Sealed
      <3>3. /\ Sealed.objects = draft.objects
            /\ \A b \in Canvases : b # c => Sealed.canvases[b] = draft.canvases[b]
        BY <2>1 DEF Sealed, Seal, States
      <3>4. QED
        BY <3>2, <3>3 DEF Content, HasObject
    <2>3. Sealed.canvases[c].revision = draft.canvases[c].revision + 1
      BY <2>1 DEF Sealed, Seal, States, HasCanvas, CanvasRecord
    <2>4. ASSUME NEW a \in Agents, viewEpoch[a] = epoch, LinkedPortals,
                 NEW b \in Canvases, HasCanvas(view[a], b)
          PROVE  /\ HasCanvas(Sealed, b)
                 /\ view[a].canvases[b].revision <= Sealed.canvases[b].revision
                 /\ view[a].canvases[b].revision = Sealed.canvases[b].revision
                      => Content(view[a], b) = Content(Sealed, b)
      <3>1. /\ HasCanvas(store, b)
            /\ view[a].canvases[b].revision <= store.canvases[b].revision
            /\ view[a].canvases[b].revision = store.canvases[b].revision
                 => Content(view[a], b) = Content(store, b)
        BY <2>4 DEF ReadsArePast
      <3>2. /\ HasCanvas(draft, b) /\ draft.canvases[b].revision = store.canvases[b].revision
            /\ b # c => draft.canvases[b] = store.canvases[b] /\ Content(draft, b) = Content(store, b)
        BY <2>1, <2>4, <3>1 DEF DraftFramed, Frame
      <3>3. /\ view[a].canvases[b].revision \in Nat /\ store.canvases[b].revision \in Nat
        BY <1>0, <2>1, <2>4, <3>1 DEF TypeOK
      <3>4. CASE b = c
        BY <2>2, <2>3, <3>1, <3>2, <3>3, <3>4
      <3>5. CASE b # c
        BY <2>2, <3>1, <3>2, <3>5
      <3>6. QED
        BY <3>4, <3>5
    <2>5. ReadsArePast'
      BY <2>1, <2>4 DEF ReadsArePast
    <2>6. QED
      BY <2>1, <2>5 DEF DraftFramed, GuardChecked
  <1>7. CASE UNCHANGED vars
    BY <1>7 DEF vars, DraftFramed, ReadsArePast, GuardChecked
  <1>8. ASSUME Submit PROVE RevisionInv'
    BY <1>3, <1>7, <1>8 DEF Submit, Refuse
  <1>9. QED
    BY <1>1, <1>2, <1>4, <1>5, <1>6, <1>7, <1>8 DEF Next

\* Optimistic concurrency on canvas revisions is sound between two restores: the
\* revision an agent read identifies the content it read, and a transaction that
\* passed its canvas_revision precondition works on exactly that content.
THEOREM RevisionsIdentifyContent == Spec => [](RevisionIdentifiesContent /\ GuardedOnFreshRead)
  <1>1. TypeOK /\ RevisionInv => RevisionIdentifiesContent /\ GuardedOnFreshRead
    <2> SUFFICES ASSUME TypeOK, RevisionInv
                 PROVE  RevisionIdentifiesContent /\ GuardedOnFreshRead
      OBVIOUS
    <2>1. RevisionIdentifiesContent
      BY DEF RevisionInv, ReadsArePast, RevisionIdentifiesContent, SameRevision
    <2>2. GuardedOnFreshRead
      <3> SUFFICES ASSUME LinkedPortals, tx # None, viewEpoch[tx.agent] = epoch, tx.guarded
                   PROVE  Content(view[tx.agent], tx.canvas) = Content(store, tx.canvas)
        BY DEF GuardedOnFreshRead
      <3>1. tx.agent \in Agents /\ tx.canvas \in Canvases
        BY DEF TypeOK, Calls
      <3>2. SameRevision(view[tx.agent], store, tx.canvas)
        BY DEF RevisionInv, GuardChecked
      <3>3. QED
        BY <2>1, <3>1, <3>2 DEF RevisionIdentifiesContent
    <2>3. QED
      BY <2>1, <2>2
  <1>2. QED
    BY RevisionInvInit, RevisionInvStep, <1>1, TypeCorrect, PTL DEF Spec

\* A commit is confined to its canvas, whose revision it moves by exactly one.
THEOREM CommitsStayOnCanvas == Spec => CommitStaysOnCanvas
  <1> DEFINE c == events'[Len(events')].canvas
             Stays == Len(events') > Len(events) /\ LinkedPortals =>
                        /\ store'.canvases[c].revision = store.canvases[c].revision + 1
                        /\ \A d \in Canvases \ {c} :
                             HasCanvas(store, d) =>
                               /\ store'.canvases[d] = store.canvases[d]
                               /\ Content(store', d) = Content(store, d)
  <1>1. ASSUME TypeOK, RevisionInv, [Next]_vars, Len(events') > Len(events), LinkedPortals
        PROVE  Stays
    <2>1. Commit
      <3>1. \/ events' = events
            \/ Commit
        BY <1>1, OperateCases DEF Next, Read, Restore, Submit, Begin, Refuse, Throw, vars
      <3>2. QED
        BY <1>1, <3>1 DEF TypeOK
    <2>2. tx # None /\ tx.canvas \in Canvases /\ draft \in States /\ HasCanvas(draft, tx.canvas)
      BY <1>1, <2>1 DEF Commit, TypeOK, Calls
    <2>3. c = tx.canvas
      BY <2>1, <1>1 DEF Commit, Event, TypeOK
    <2>4. Frame(store, draft, tx.canvas) /\ HasCanvas(store, tx.canvas)
      BY <1>1, <2>2 DEF RevisionInv, DraftFramed
    <2>5. /\ store'.objects = draft.objects
          /\ \A d \in Canvases \ {tx.canvas} : store'.canvases[d] = draft.canvases[d]
          /\ store'.canvases[tx.canvas].revision = draft.canvases[tx.canvas].revision + 1
      BY <2>1, <2>2 DEF Commit, Sealed, Seal, States, HasCanvas, CanvasRecord
    <2>6. store'.canvases[tx.canvas].revision = store.canvases[tx.canvas].revision + 1
      BY <2>2, <2>4, <2>5 DEF Frame
    <2>7. ASSUME NEW d \in Canvases \ {tx.canvas}, HasCanvas(store, d)
          PROVE  store'.canvases[d] = store.canvases[d] /\ Content(store', d) = Content(store, d)
      <3>1. Content(store', d) = Content(draft, d)
        BY <2>5 DEF Content, HasObject
      <3>2. QED
        BY <2>4, <2>5, <2>7, <3>1 DEF Frame
    <2>8. QED
      BY <2>3, <2>6, <2>7
  <1>2. TypeOK /\ RevisionInv /\ [Next]_vars => [Stays]_vars
    BY <1>1
  <1>3. QED
    BY <1>2, RevisionInvInit, RevisionInvStep, TypeCorrect, PTL DEF Spec, CommitStaysOnCanvas

----------------------------------------------------------------------------
(* The ledger.                                                             *)

LedgerInv ==
  /\ \A i \in 1..Len(events) : events[i].epoch <= epoch
  /\ EventChain

KeyInv ==
  /\ draft.keys = store.keys
  /\ tx # None => Fresh(tx.key)
  /\ \A i \in 1..Len(events) :
       events[i].epoch = epoch /\ events[i].key # None => events[i].key \in store.keys
  /\ \A a \in Agents : \A k \in view[a].keys : \E i \in 1..Len(events) : events[i].key = k
  /\ KeysAppliedOnce

\* The event ledger is a chain of state hashes between two restores, and a key is
\* applied at most once between two restores and remembered only when applied.
THEOREM LedgerCorrect == Spec => [](EventChain /\ KeysAppliedOnce)
  <1>1. ASSUME Init PROVE LedgerInv /\ KeyInv
    <2>1. /\ events = <<>> /\ tx = None /\ draft = store
          /\ store = NewStore /\ \A a \in Agents : view[a] = NewStore
      BY <1>1 DEF Init
    <2>2. NewStore.keys = {}
      BY DEF NewStore
    <2>3. 1..Len(events) = {}
      BY <2>1
    <2>4. QED
      BY <2>1, <2>2, <2>3 DEF LedgerInv, KeyInv, EventChain, KeysAppliedOnce
  <1>2. ASSUME TypeOK, CallOnCanvas, LedgerInv, KeyInv, [Next]_vars
        PROVE  (LedgerInv /\ KeyInv)'
    <2>1. CASE \E a \in Agents : Read(a)
      BY <1>2, <2>1 DEF Read, TypeOK, LedgerInv, KeyInv, EventChain, KeysAppliedOnce, Fresh
    <2>2. ASSUME NEW a \in Agents, Restore(a) PROVE (LedgerInv /\ KeyInv)'
      <3>1. /\ tx' = None /\ events' = events /\ store' = view[a] /\ draft' = view[a] /\ view' = view
            /\ epoch' = epoch + 1 /\ epoch \in Nat /\ events \in Seq(Events)
        BY <1>2, <2>2 DEF Restore, TypeOK
      <3>2. \A i \in 1..Len(events) : events[i].epoch <= epoch /\ events[i].epoch \in Nat
        <4>1. \A i \in 1..Len(events) : events[i] \in Events
          BY <3>1
        <4>2. QED
          BY <1>2, <4>1 DEF LedgerInv, Events
      <3>3. LedgerInv'
        BY <1>2, <3>1, <3>2 DEF LedgerInv, EventChain
      <3>4. KeyInv'
        BY <1>2, <3>1, <3>2 DEF KeyInv, KeysAppliedOnce
      <3>5. QED
        BY <3>3, <3>4
    <2>3. CASE Submit
      <3>1. CASE UNCHANGED vars
        BY <1>2, <3>1 DEF vars, LedgerInv, KeyInv, EventChain, KeysAppliedOnce, Fresh
      <3>2. ASSUME NEW a, NEW c, NEW k, NEW pre, Begin(a, c, k, pre)
            PROVE  (LedgerInv /\ KeyInv)'
        <4>1. /\ tx'.key = k /\ Fresh(k) /\ draft' = store
              /\ UNCHANGED <<store, events, view, epoch>>
          BY <3>2 DEF Begin
        <4>2. QED
          BY <1>2, <4>1 DEF LedgerInv, KeyInv, EventChain, KeysAppliedOnce, Fresh
      <3>3. QED
        BY <2>3, <3>1, <3>2 DEF Submit, Refuse
    <2>4. CASE Operate
      <3>1. /\ UNCHANGED <<store, events, view, epoch>> /\ tx # None /\ tx'.key = tx.key
            /\ draft'.keys = draft.keys
        BY <1>2, <2>4, OperateCases
        DEF WithObject, WithCanvas, WithoutObject, Patched, TypeOK, States, Calls
      <3>2. QED
        BY <1>2, <3>1 DEF LedgerInv, KeyInv, EventChain, KeysAppliedOnce, Fresh
    <2>5. CASE Throw
      BY <1>2, <2>5 DEF Throw, LedgerInv, KeyInv, EventChain, KeysAppliedOnce, Fresh
    <2>6. CASE Commit
      <3> DEFINE n == Len(events)
      <3>1. /\ tx # None /\ tx' = None /\ events' = Append(events, Event) /\ events \in Seq(Events)
            /\ store' = Sealed /\ draft' = Sealed /\ UNCHANGED <<view, epoch>> /\ epoch \in Nat
            /\ draft \in States
        BY <1>2, <2>6 DEF Commit, TypeOK
      <3>2. /\ Len(events') = n + 1 /\ n \in Nat /\ events'[n + 1] = Event
            /\ \A i \in 1..n : events'[i] = events[i]
        BY <3>1
      <3>3. /\ Event.key = tx.key /\ Event.epoch = epoch /\ Event.before = store
            /\ Event.after = Sealed /\ Sealed.keys = store.keys \cup ({tx.key} \ {None})
        BY <1>2, <3>1 DEF Event, Sealed, Seal, States, KeyInv
      <3>4. LedgerInv'
        <4>1. \A i \in 1..n : events[i].epoch <= epoch
          BY <1>2 DEF LedgerInv
        <4>2. \A i \in 1..Len(events') : events'[i].epoch <= epoch'
          BY <3>1, <3>2, <3>3, <4>1
        <4>3. ASSUME NEW i \in 1..Len(events'), i > 1, events'[i].epoch = events'[i - 1].epoch
              PROVE  events'[i].before = events'[i - 1].after
          <5>1. CASE i = n + 1
            <6>1. n \in 1..n /\ events'[i - 1] = events[n] /\ events # <<>>
              BY <3>1, <3>2, <4>3, <5>1
            <6>2. QED
              BY <1>2, <3>2, <3>3, <4>3, <5>1, <6>1 DEF LedgerInv, EventChain
          <5>2. CASE i # n + 1
            BY <1>2, <3>2, <4>3, <5>2 DEF LedgerInv, EventChain
          <5>3. QED
            BY <5>1, <5>2
        <4>4. QED
          BY <3>1, <3>2, <3>3, <4>2, <4>3 DEF LedgerInv, EventChain
      <3>5. KeyInv'
        <4>1. \A k \in store'.keys : \E i \in 1..Len(events') : events'[i].key = k
          <5> SUFFICES ASSUME NEW k \in store'.keys
                       PROVE  \E i \in 1..Len(events') : events'[i].key = k
            OBVIOUS
          <5>1. CASE k = tx.key
            BY <3>2, <3>3, <5>1
          <5>2. CASE k \in store.keys
            BY <1>2, <3>2, <5>2 DEF KeyInv, KeysAppliedOnce
          <5>3. QED
            BY <3>1, <3>3, <5>1, <5>2
        <4>2. \A a \in Agents : \A k \in view'[a].keys : \E i \in 1..Len(events') : events'[i].key = k
          BY <1>2, <3>1, <3>2 DEF KeyInv
        <4>3. ASSUME NEW i \in 1..Len(events'), events'[i].epoch = epoch', events'[i].key # None
              PROVE  events'[i].key \in store'.keys
          BY <1>2, <3>1, <3>2, <3>3, <4>3 DEF KeyInv
        <4>4. ASSUME NEW i \in 1..n, events[i].epoch = epoch, events[i].key # None
              PROVE  events[i].key # tx.key
          BY <1>2, <3>1, <4>4 DEF KeyInv, Fresh
        <4>5. ASSUME NEW i \in 1..Len(events'), NEW j \in 1..Len(events'),
                     i # j, events'[i].key # None, events'[i].epoch = events'[j].epoch
              PROVE  events'[i].key # events'[j].key
          <5>1. CASE i = n + 1
            BY <3>2, <3>3, <4>4, <4>5, <5>1
          <5>2. CASE j = n + 1
            BY <3>2, <3>3, <4>4, <4>5, <5>2
          <5>3. CASE i # n + 1 /\ j # n + 1
            BY <1>2, <3>2, <4>5, <5>3 DEF KeyInv, KeysAppliedOnce
          <5>4. QED
            BY <5>1, <5>2, <5>3
        <4>6. QED
          BY <3>1, <4>1, <4>2, <4>3, <4>5 DEF KeyInv, KeysAppliedOnce
      <3>6. QED
        BY <3>4, <3>5
    <2>7. CASE UNCHANGED vars
      BY <1>2, <2>7 DEF vars, LedgerInv, KeyInv, EventChain, KeysAppliedOnce, Fresh
    <2>8. QED
      BY <1>2, <2>1, <2>2, <2>3, <2>4, <2>5, <2>6, <2>7 DEF Next
  <1>3. LedgerInv /\ KeyInv => EventChain /\ KeysAppliedOnce
    BY DEF LedgerInv, KeyInv
  <1>4. QED
    BY <1>1, <1>2, <1>3, TypeCorrect, PTL DEF Spec

----------------------------------------------------------------------------
(* Placement.                                                              *)

\* Operations on canvas c keep objectIds and the objects map in agreement.
LEMMA OperationsPlace ==
  ASSUME NEW d \in States, PlacedIn(d), NEW c \in Canvases, HasCanvas(d, c), NEW o \in Objects
  PROVE  /\ \A v \in ObjectRecord :
              ~HasObject(d, o) /\ v.canvas = c => PlacedIn(WithObject(d, c, o, v))
         /\ \A child \in Canvases :
              ~HasCanvas(d, child) => PlacedIn(WithCanvas(d, c, o, child))
         /\ HasObject(d, o) /\ d.objects[o].canvas = c
              => /\ PlacedIn(WithoutObject(d, c, o))
                 /\ \A n \in Nat : PlacedIn(Patched(d, o, n))
  <1>1. /\ d.canvases[c] \in CanvasRecord
        /\ \A p \in Objects : HasObject(d, p) => d.objects[p].canvas \in Canvases
    BY DEF HasCanvas, HasObject, States, ObjectRecord
  <1>2. ASSUME NEW v \in ObjectRecord, ~HasObject(d, o), v.canvas = c
        PROVE  PlacedIn(WithObject(d, c, o, v))
    <2> DEFINE e == WithObject(d, c, o, v)
               m == [d.canvases[c] EXCEPT !.members = @ \cup {o}]
    <2>1. m \in CanvasRecord /\ m.members = d.canvases[c].members \cup {o}
      BY <1>1 DEF CanvasRecord
    <2>2. e.canvases = [d.canvases EXCEPT ![c] = m] /\ e.objects = [d.objects EXCEPT ![o] = v]
      BY DEF WithObject, States
    <2>10. m # None
      BY <2>1, StoreConstants
    <2>4. e.canvases[c] = m /\ \A b \in Canvases \ {c} : e.canvases[b] = d.canvases[b]
      BY <2>2 DEF States
    <2>3. \A b \in Canvases : HasCanvas(e, b) <=> HasCanvas(d, b)
      <3> HIDE DEF e, m
      <3> SUFFICES ASSUME NEW b \in Canvases PROVE HasCanvas(e, b) <=> HasCanvas(d, b)
        OBVIOUS
      <3>1. CASE b = c
        BY <2>10, <2>4, <3>1 DEF HasCanvas
      <3>2. CASE b # c
        BY <2>4, <3>2 DEF HasCanvas
      <3>3. QED
        BY <3>1, <3>2
    <2>5. e.objects[o] = v /\ HasObject(e, o) /\ \A p \in Objects \ {o} : e.objects[p] = d.objects[p]
      BY <2>2, StoreConstants DEF States, HasObject
    <2> HIDE DEF e, m
    <2>6. \A p \in Objects : HasObject(e, p) => HasCanvas(e, e.objects[p].canvas)
      BY <1>1, <1>2, <2>3, <2>5 DEF PlacedIn, HasObject
    <2>7. \A b \in Canvases, p \in Objects :
            HasCanvas(e, b) => (p \in e.canvases[b].members
                                  <=> HasObject(e, p) /\ e.objects[p].canvas = b)
      <3> SUFFICES ASSUME NEW b \in Canvases, NEW p \in Objects, HasCanvas(e, b)
                   PROVE  p \in e.canvases[b].members
                            <=> HasObject(e, p) /\ e.objects[p].canvas = b
        OBVIOUS
      <3>1. p \in d.canvases[b].members <=> HasObject(d, p) /\ d.objects[p].canvas = b
        BY <2>3 DEF PlacedIn
      <3>2. CASE p = o
        BY <1>2, <2>1, <2>4, <2>5, <3>1, <3>2 DEF HasObject
      <3>3. CASE p # o
        BY <2>1, <2>4, <2>5, <3>1, <3>3 DEF HasObject
      <3>4. QED
        BY <3>2, <3>3
    <2>8. PlacedIn(e)
      BY <2>6, <2>7 DEF PlacedIn
    <2>9. QED
      BY <2>8 DEF e
  <1>3. ASSUME NEW child \in Canvases, ~HasCanvas(d, child)
        PROVE  PlacedIn(WithCanvas(d, c, o, child))
    <2> DEFINE e == WithCanvas(d, c, o, child)
    <2>1. EmptyCanvas(c, o).members = {}
      BY DEF EmptyCanvas
    <2>2. /\ e.objects = d.objects /\ e.canvases[child] = EmptyCanvas(c, o)
          /\ \A b \in Canvases \ {child} : e.canvases[b] = d.canvases[b]
      BY DEF WithCanvas, States
    <2> HIDE DEF e
    <2>3. \A p \in Objects : HasObject(d, p) => d.objects[p].canvas \in Canvases
      BY DEF HasObject, States, ObjectRecord
    <2>4. /\ HasCanvas(e, child)
          /\ \A b \in Canvases : HasCanvas(d, b) => b # child /\ HasCanvas(e, b)
      <3>1. EmptyCanvas(c, o) \in CanvasRecord
        BY DEF EmptyCanvas, CanvasRecord
      <3>2. QED
        BY <1>3, <2>2, <3>1, StoreConstants DEF HasCanvas
    <2>5. \A p \in Objects : HasObject(e, p) => HasCanvas(e, e.objects[p].canvas)
      BY <2>2, <2>3, <2>4 DEF PlacedIn, HasObject
    <2>6. \A b \in Canvases, p \in Objects :
            HasCanvas(e, b) => (p \in e.canvases[b].members
                                  <=> HasObject(e, p) /\ e.objects[p].canvas = b)
      <3> SUFFICES ASSUME NEW b \in Canvases, NEW p \in Objects, HasCanvas(e, b)
                   PROVE  p \in e.canvases[b].members
                            <=> HasObject(e, p) /\ e.objects[p].canvas = b
        OBVIOUS
      <3>1. CASE b = child
        BY <1>3, <2>1, <2>2, <3>1 DEF PlacedIn, HasObject
      <3>2. CASE b # child
        BY <2>2, <3>2 DEF PlacedIn, HasObject, HasCanvas
      <3>3. QED
        BY <3>1, <3>2
    <2>7. PlacedIn(e)
      BY <2>5, <2>6 DEF PlacedIn
    <2>8. QED
      BY <2>7 DEF e
  <1>4. ASSUME HasObject(d, o), d.objects[o].canvas = c
        PROVE  PlacedIn(WithoutObject(d, c, o))
    <2> DEFINE e == WithoutObject(d, c, o)
               m == [d.canvases[c] EXCEPT !.members = @ \ {o}]
    <2>1. m \in CanvasRecord /\ m.members = d.canvases[c].members \ {o}
      BY <1>1 DEF CanvasRecord
    <2>2. e.canvases = [d.canvases EXCEPT ![c] = m] /\ e.objects = [d.objects EXCEPT ![o] = None]
      BY DEF WithoutObject, States
    <2>10. m # None
      BY <2>1, StoreConstants
    <2>4. e.canvases[c] = m /\ \A b \in Canvases \ {c} : e.canvases[b] = d.canvases[b]
      BY <2>2 DEF States
    <2>3. \A b \in Canvases : HasCanvas(e, b) <=> HasCanvas(d, b)
      <3> HIDE DEF e, m
      <3> SUFFICES ASSUME NEW b \in Canvases PROVE HasCanvas(e, b) <=> HasCanvas(d, b)
        OBVIOUS
      <3>1. CASE b = c
        BY <2>10, <2>4, <3>1 DEF HasCanvas
      <3>2. CASE b # c
        BY <2>4, <3>2 DEF HasCanvas
      <3>3. QED
        BY <3>1, <3>2
    <2>5. ~HasObject(e, o) /\ \A p \in Objects \ {o} : e.objects[p] = d.objects[p]
      BY <2>2 DEF States, HasObject
    <2> HIDE DEF e, m
    <2>6. \A p \in Objects : HasObject(e, p) => HasCanvas(e, e.objects[p].canvas)
      BY <1>1, <1>4, <2>3, <2>5 DEF PlacedIn, HasObject
    <2>7. \A b \in Canvases, p \in Objects :
            HasCanvas(e, b) => (p \in e.canvases[b].members
                                  <=> HasObject(e, p) /\ e.objects[p].canvas = b)
      <3> SUFFICES ASSUME NEW b \in Canvases, NEW p \in Objects, HasCanvas(e, b)
                   PROVE  p \in e.canvases[b].members
                            <=> HasObject(e, p) /\ e.objects[p].canvas = b
        OBVIOUS
      <3>1. p \in d.canvases[b].members <=> HasObject(d, p) /\ d.objects[p].canvas = b
        BY <2>3 DEF PlacedIn
      <3>2. CASE p = o
        BY <1>4, <2>1, <2>4, <2>5, <3>1, <3>2 DEF HasObject
      <3>3. CASE p # o
        BY <2>1, <2>4, <2>5, <3>1, <3>3 DEF HasObject
      <3>4. QED
        BY <3>2, <3>3
    <2>8. PlacedIn(e)
      BY <2>6, <2>7 DEF PlacedIn
    <2>9. QED
      BY <2>8 DEF e
  <1>5. ASSUME NEW n \in Nat, HasObject(d, o), d.objects[o].canvas = c
        PROVE  PlacedIn(Patched(d, o, n))
    <2> DEFINE e == Patched(d, o, n)
    <2>1. e.canvases = d.canvases /\ \A p \in Objects \ {o} : e.objects[p] = d.objects[p]
      BY DEF Patched, States
    <2>2. d.objects[o] \in ObjectRecord
      BY <1>5 DEF HasObject, States
    <2>3. e.objects[o] \in ObjectRecord /\ e.objects[o].canvas = c
      <3>1. d.objects[o].revision + 1 \in Nat
        BY <2>2 DEF ObjectRecord
      <3>2. e.objects[o] = [d.objects[o] EXCEPT !.revision = d.objects[o].revision + 1, !.stamp = n]
        BY DEF Patched, States
      <3>3. QED
        BY <1>5, <2>2, <3>1, <3>2 DEF ObjectRecord
    <2> HIDE DEF e
    <2>4. /\ HasObject(e, o)
          /\ \A p \in Objects : HasObject(e, p) <=> HasObject(d, p)
          /\ \A p \in Objects : HasObject(d, p) => e.objects[p].canvas = d.objects[p].canvas
      BY <1>5, <2>1, <2>3, StoreConstants DEF HasObject
    <2>5. PlacedIn(e)
      BY <2>1, <2>4 DEF PlacedIn, HasCanvas
    <2>6. QED
      BY <2>5 DEF e
  <1>6. QED
    BY <1>2, <1>3, <1>4, <1>5

\* objectIds and the objects map agree in every state, if portals are linked.
THEOREM PlacementHolds == Spec => []Placement
  <1>1. Init => AllPlaced
    <2>1. PlacedIn(NewStore)
      <3>1. \A o \in Objects : ~HasObject(NewStore, o)
        BY DEF HasObject, NewStore
      <3>2. \A c \in Canvases : HasCanvas(NewStore, c) => NewStore.canvases[c].members = {}
        BY DEF HasCanvas, NewStore, EmptyCanvas
      <3>3. QED
        BY <3>1, <3>2 DEF PlacedIn
    <2>2. QED
      BY <2>1 DEF Init, AllPlaced
  <1>2. ASSUME TypeOK, CallOnCanvas, AllPlaced, [Next]_vars
        PROVE  AllPlaced'
    <2>1. ASSUME NEW a \in Agents, Read(a) \/ Restore(a) PROVE AllPlaced'
      BY <1>2, <2>1 DEF Read, Restore, AllPlaced, TypeOK
    <2>2. ASSUME Submit PROVE AllPlaced'
      BY <1>2, <2>2 DEF Submit, Begin, Refuse, vars, AllPlaced
    <2>3. ASSUME Operate, LinkedPortals PROVE PlacedIn(draft')
      <3> DEFINE c == tx.canvas
      <3>1. draft \in States /\ c \in Canvases /\ HasCanvas(draft, c) /\ PlacedIn(draft)
        BY <1>2, <2>3, OperateCases DEF TypeOK, CallOnCanvas, AllPlaced
      <3>2. PICK o \in Objects :
              \/ \E v \in ObjectRecord :
                   ~HasObject(draft, o) /\ v.canvas = c /\ draft' = WithObject(draft, c, o, v)
              \/ \E child \in Canvases, v \in ObjectRecord :
                   /\ ~HasObject(draft, o) /\ ~HasCanvas(draft, child) /\ v.canvas = c
                   /\ draft' = WithObject(WithCanvas(draft, c, o, child), c, o, v)
              \/ /\ HasObject(draft, o) /\ draft.objects[o].canvas = c
                 /\ draft' = WithoutObject(draft, c, o) \/ \E n \in Nat : draft' = Patched(draft, o, n)
        BY <1>2, <2>3, OperateCases
      <3>3. ASSUME NEW child \in Canvases, NEW v \in ObjectRecord, ~HasObject(draft, o),
                   ~HasCanvas(draft, child), v.canvas = c,
                   draft' = WithObject(WithCanvas(draft, c, o, child), c, o, v)
            PROVE  PlacedIn(draft')
        <4> DEFINE w == WithCanvas(draft, c, o, child)
        <4>1. w \in States /\ HasCanvas(w, c) /\ PlacedIn(w)
          BY <3>1, <3>3, OperationTypes, OperationCanvases, OperationsPlace
        <4>2. ~HasObject(w, o)
          BY <3>1, <3>3 DEF WithCanvas, HasObject, States
        <4>3. QED
          BY <3>1, <3>3, <4>1, <4>2, OperationsPlace
      <3>4. QED
        BY <3>1, <3>2, <3>3, OperationsPlace
    <2>4. ASSUME Operate PROVE AllPlaced'
      BY <1>2, <2>3, <2>4, OperateCases DEF AllPlaced
    <2>5. ASSUME Throw PROVE AllPlaced'
      BY <1>2, <2>5 DEF Throw, AllPlaced
    <2>6. ASSUME Commit PROVE AllPlaced'
      <3>1. draft \in States /\ tx.canvas \in Canvases /\ tx.key \in Keys \cup {None}
        BY <1>2, <2>6 DEF Commit, TypeOK, Calls
      <3>2. \A b \in Canvases : HasCanvas(Sealed, b) <=> HasCanvas(draft, b)
        BY <2>6, <3>1, SealType DEF Commit, Sealed
      <3>3. /\ Sealed.objects = draft.objects
            /\ \A b \in Canvases : HasCanvas(draft, b) =>
                 Sealed.canvases[b].members = draft.canvases[b].members
        BY <2>6, <3>1 DEF Commit, Sealed, Seal, States, HasCanvas, CanvasRecord
      <3>4. \A p \in Objects : HasObject(draft, p) => draft.objects[p].canvas \in Canvases
        BY <3>1 DEF HasObject, States, ObjectRecord
      <3>5. PlacedIn(draft) => PlacedIn(Sealed)
        BY <3>2, <3>3, <3>4 DEF PlacedIn, HasObject
      <3>6. QED
        BY <1>2, <2>6, <3>5 DEF Commit, AllPlaced
    <2>7. CASE UNCHANGED vars
      BY <1>2, <2>7 DEF vars, AllPlaced
    <2>8. QED
      BY <1>2, <2>1, <2>2, <2>4, <2>5, <2>6, <2>7 DEF Next
  <1>3. AllPlaced => Placement
    BY DEF AllPlaced, Placement
  <1>4. QED
    BY <1>1, <1>2, <1>3, TypeCorrect, PTL DEF Spec

\* Both at once: the objects are placed and the canvases form a tree.
THEOREM WellPlacedHolds == Spec => []WellPlaced
  BY PlacementHolds, LineageHolds, PTL DEF WellPlaced

\* An idempotency key is applied by one transaction at most between two restores, and is
\* remembered only when it was.
THEOREM KeysHold == Spec => []KeysAppliedOnce
  BY LedgerCorrect, PTL
=============================================================================
