---------------------------- MODULE CanvasStore ----------------------------
(***************************************************************************)
(* The transactional canvas store of packages/canvas-core: one workspace,  *)
(* its canvases and objects, and the idempotency keys already applied.     *)
(*                                                                         *)
(* applyTransaction runs to completion on the JavaScript thread.  Its loop *)
(* over the operations is unrolled here, one step per operation on the     *)
(* draft, and `tx' disables every other action until the call returns, so  *)
(* nothing interleaves with it.  A transaction's operations are chosen as  *)
(* the loop reaches them; an operation that throws drops the draft.        *)
(*                                                                         *)
(* An object's content is the stamp of the write that produced it, a       *)
(* stateHash is the state itself, and members is objectIds as a set.       *)
(***************************************************************************)
EXTENDS Naturals, Sequences

CONSTANTS Objects,        \* object ids
          Canvases,       \* canvas ids
          Root,           \* workspace.rootCanvasId
          Keys,           \* idempotency keys
          Agents,         \* callers that read the store and then submit
          None,           \* absent map entry, parent, portal, key or call
          LinkedPortals,  \* TRUE: callers give a portal the canvas it is created on,
                          \* as open_subcanvas and /api/demo/subcanvas do; the store
                          \* checks this for create_object only
          MaxOps,         \* bound: operations in a transaction
          MaxEvents,      \* bound: committed transactions
          MaxRestores     \* bound: restores

Kinds == {"plain", "subcanvas"}

ObjectRecord == [canvas : Canvases, kind : Kinds, revision : Nat, stamp : Nat]
CanvasRecord == [revision : Nat, parent : Canvases \cup {None},
                 portal : Objects \cup {None}, members : SUBSET Objects]

\* CanvasState: two maps and the set of applied keys.
States == [canvases : [Canvases -> CanvasRecord \cup {None}],
           objects  : [Objects -> ObjectRecord \cup {None}],
           keys     : SUBSET Keys]

\* An applyTransaction call in progress: who made it, its canvas and key, whether it
\* carries a canvas_revision precondition, and the operations applied so far.
Calls == [agent : Agents, canvas : Canvases, key : Keys \cup {None},
          guarded : BOOLEAN, applied : Nat]

ASSUME StoreConstants ==
  /\ Root \in Canvases
  /\ None \notin Canvases \cup Objects \cup Keys \cup Agents
  /\ None \notin ObjectRecord \cup CanvasRecord \cup Calls
  /\ LinkedPortals \in BOOLEAN
  /\ MaxOps \in Nat /\ MaxEvents \in Nat /\ MaxRestores \in Nat

VARIABLES store,      \* #state
          tx,         \* the applyTransaction call in progress, or None
          draft,      \* cloneState(#state) and the operations applied so far
          events,     \* what the event sink has accepted
          view,       \* what each agent last read; a snapshot is such a read
          epoch,      \* history: restores so far
          viewEpoch,  \* history: the epoch of each agent's read
          stamp       \* history: writes committed so far

vars == <<store, tx, draft, events, view, epoch, viewEpoch, stamp>>

Events == [canvas : Canvases, key : Keys \cup {None}, epoch : Nat,
           before : States, after : States]

HasObject(s, o) == s.objects[o] # None
HasCanvas(s, c) == s.canvases[c] # None

\* The objects of canvas c as a reader sees them (listObjects).
Content(s, c) ==
  [o \in Objects |-> IF HasObject(s, o) /\ s.objects[o].canvas = c
                       THEN s.objects[o] ELSE None]

\* The code stores the canvas and the object of a create operation as the caller gave
\* them; that their revision is 0 and that the canvas lists no objects is what
\* open_subcanvas, makeObject and /api/demo/subcanvas give, and the model's assumption on
\* the others.
EmptyCanvas(p, o) == [revision |-> 0, parent |-> p, portal |-> o, members |-> {}]

NewStore == [canvases |-> [c \in Canvases |->
                             IF c = Root THEN EmptyCanvas(None, None) ELSE None],
             objects  |-> [o \in Objects |-> None],
             keys     |-> {}]

TypeOK ==
  /\ store \in States /\ draft \in States
  /\ tx \in Calls \cup {None}
  /\ events \in Seq(Events)
  /\ view \in [Agents -> States]
  /\ epoch \in Nat /\ viewEpoch \in [Agents -> Nat] /\ stamp \in Nat

Init ==
  /\ store = NewStore /\ draft = NewStore
  /\ tx = None /\ events = <<>>
  /\ view = [a \in Agents |-> NewStore]
  /\ epoch = 0 /\ viewEpoch = [a \in Agents |-> 0] /\ stamp = 0

----------------------------------------------------------------------------
(* Reads and restores.                                                     *)

\* getCanvas, getObject and listObjects return clones.
Read(a) ==
  /\ tx = None
  /\ view' = [view EXCEPT ![a] = store]
  /\ viewEpoch' = [viewEpoch EXCEPT ![a] = epoch]
  /\ UNCHANGED <<store, tx, draft, events, epoch, stamp>>

\* Replaces the whole state, the keys included, by what an agent read earlier, and
\* writes no event.
Restore(a) ==
  /\ tx = None /\ epoch < MaxRestores
  /\ HasCanvas(view[a], Root)
  /\ store' = view[a] /\ draft' = view[a]
  /\ epoch' = epoch + 1
  /\ UNCHANGED <<tx, events, view, viewEpoch, stamp>>

----------------------------------------------------------------------------
(* applyTransaction.                                                       *)

\* The preconditions an agent derives from what it read.
Preconditions(a) ==
  {[type |-> "canvas_revision", target |-> c, expected |-> view[a].canvases[c].revision] :
     c \in {d \in Canvases : HasCanvas(view[a], d)}}
  \cup {[type |-> "object_exists", target |-> o, expected |-> HasObject(view[a], o)] :
     o \in Objects}
  \cup {[type |-> "object_revision", target |-> o, expected |-> view[a].objects[o].revision] :
     o \in {p \in Objects : HasObject(view[a], p)}}

Holds(p) ==
  CASE p.type = "canvas_revision" ->
         HasCanvas(store, p.target) /\ store.canvases[p.target].revision = p.expected
    [] p.type = "object_exists" -> HasObject(store, p.target) = p.expected
    [] p.type = "object_revision" ->
         HasObject(store, p.target) /\ store.objects[p.target].revision = p.expected

\* Mutant of Fresh: the applied keys are not consulted.
FreshAlways(k) == TRUE

Fresh(k) == k = None \/ k \notin store.keys

\* Up to the loop: the canvas exists, the key is new, the preconditions hold.
Begin(a, c, k, pre) ==
  /\ tx = None /\ Len(events) < MaxEvents
  /\ HasCanvas(store, c)
  /\ Fresh(k)
  /\ \A p \in pre : Holds(p)
  /\ tx' = [agent |-> a, canvas |-> c, key |-> k,
            guarded |-> \E p \in pre : p.type = "canvas_revision" /\ p.target = c,
            applied |-> 0]
  /\ draft' = store
  /\ UNCHANGED <<store, events, view, epoch, viewEpoch, stamp>>

\* A used key returns ok without applying anything, whichever canvas the key was
\* used on; an unknown canvas or a failed precondition throws.
Refuse(c, k, pre) ==
  /\ tx = None
  /\ ~HasCanvas(store, c) \/ ~Fresh(k) \/ \E p \in pre : ~Holds(p)
  /\ UNCHANGED vars

Looping == tx # None /\ tx.applied < MaxOps

Step(d) ==
  /\ draft' = d
  /\ tx' = [tx EXCEPT !.applied = @ + 1]
  /\ UNCHANGED <<store, events, view, epoch, viewEpoch, stamp>>

NewObject(c, kind) ==
  [canvas |-> c, kind |-> kind, revision |-> 0, stamp |-> stamp + tx.applied + 1]

\* What each kind of operation does to a draft.
WithObject(d, c, o, object) ==
  [d EXCEPT !.objects[o] = object, !.canvases[c].members = @ \cup {o}]
WithCanvas(d, c, o, child) == [d EXCEPT !.canvases[child] = EmptyCanvas(c, o)]
\* Mutant of WithoutObject: the objectIds filter is left out.
WithoutObjectListed(d, c, o) == [d EXCEPT !.objects[o] = None]

WithoutObject(d, c, o) ==
  [d EXCEPT !.objects[o] = None, !.canvases[c].members = @ \ {o}]
Patched(d, o, newStamp) ==
  [d EXCEPT !.objects[o].revision = @ + 1, !.objects[o].stamp = newStamp]

CreateObject(o) ==
  /\ Looping
  /\ ~HasObject(draft, o) /\ HasCanvas(draft, tx.canvas)
  /\ Step(WithObject(draft, tx.canvas, o, NewObject(tx.canvas, "plain")))

\* home is operation.object.canvasId, which the code does not compare with the
\* transaction's canvas.
CreateSubcanvas(o, child, home) ==
  /\ Looping
  /\ LinkedPortals => home = tx.canvas
  /\ ~HasObject(draft, o) /\ ~HasCanvas(draft, child) /\ HasCanvas(draft, tx.canvas)
  /\ Step(WithObject(WithCanvas(draft, tx.canvas, o, child),
                     tx.canvas, o, NewObject(home, "subcanvas")))

\* Operations on an existing object share their guards.
Targets(o, expected) ==
  /\ Looping
  /\ HasObject(draft, o)
  /\ draft.objects[o].canvas = tx.canvas
  /\ draft.objects[o].revision = expected

\* A deleted portal leaves its canvas behind.
DeleteObject(o, expected) ==
  /\ Targets(o, expected)
  /\ Step(WithoutObject(draft, tx.canvas, o))

\* patch_object and reorder_object.
PatchObject(o, expected) ==
  /\ Targets(o, expected)
  /\ Step(Patched(draft, o, stamp + tx.applied + 1))

\* An operation or the event sink throws: the draft is dropped.
Throw ==
  /\ tx # None
  /\ tx' = None /\ draft' = store
  /\ UNCHANGED <<store, events, view, epoch, viewEpoch, stamp>>

\* Mutant of Seal: the canvas revision is not bumped.
SealUnbumped(d, c, k) == [d EXCEPT !.keys = @ \cup ({k} \ {None})]

\* What the call installs: the draft with the revision bumped and the key added.
Seal(d, c, k) == [d EXCEPT !.canvases[c].revision = @ + 1, !.keys = @ \cup ({k} \ {None})]
Sealed == Seal(draft, tx.canvas, tx.key)

\* Mutant of Event: beforeHash is taken after the loop, from the draft.
EventLate == [canvas |-> tx.canvas, key |-> tx.key, epoch |-> epoch,
              before |-> draft, after |-> Sealed]

Event == [canvas |-> tx.canvas, key |-> tx.key, epoch |-> epoch,
          before |-> store, after |-> Sealed]

Commit ==
  /\ tx # None /\ tx.applied > 0
  /\ HasCanvas(draft, tx.canvas)
  /\ events' = Append(events, Event)
  /\ store' = Sealed /\ draft' = Sealed /\ tx' = None
  /\ stamp' = stamp + tx.applied
  /\ UNCHANGED <<view, epoch, viewEpoch>>

----------------------------------------------------------------------------
\* No precondition, or one: more of them only narrow the states a call gets through in.
PreconditionSets(a) == {{}} \cup {{p} : p \in Preconditions(a)}

Submit ==
  \E a \in Agents, c \in Canvases, k \in Keys \cup {None} :
    \E pre \in PreconditionSets(a) : Begin(a, c, k, pre) \/ Refuse(c, k, pre)

Operate ==
  \E o \in Objects :
    \/ CreateObject(o)
    \/ \E child \in Canvases, home \in Canvases : CreateSubcanvas(o, child, home)
    \/ \E expected \in {draft.objects[p].revision : p \in {q \in Objects : HasObject(draft, q)}} :
         DeleteObject(o, expected) \/ PatchObject(o, expected)

Next ==
  \/ \E a \in Agents : Read(a) \/ Restore(a)
  \/ Submit \/ Operate \/ Throw \/ Commit

Spec == Init /\ [][Next]_vars

----------------------------------------------------------------------------
(* Properties.                                                             *)

\* An object is listed by exactly the canvas it lives on (objectIds against the
\* objects map), and that canvas exists, provided callers link portals to the canvas
\* they are created on.
PlacedIn(s) ==
  /\ \A o \in Objects : HasObject(s, o) => HasCanvas(s, s.objects[o].canvas)
  /\ \A c \in Canvases, o \in Objects :
       HasCanvas(s, c) => (o \in s.canvases[c].members
                             <=> HasObject(s, o) /\ s.objects[o].canvas = c)

Placement == LinkedPortals => PlacedIn(store)

\* The parents of the canvases form a tree rooted at Root: no set of other canvases
\* is closed under parent.  The upward walk of get_lineage relies on it, and it must
\* survive portals that are deleted, ids that are reused and restores.
RootedIn(s) ==
  /\ HasCanvas(s, Root)
  /\ \A T \in SUBSET {c \in Canvases \ {Root} : HasCanvas(s, c)} :
       T # {} => \E c \in T : /\ s.canvases[c].parent \notin T
                              /\ s.canvases[c].parent \in Canvases
                              /\ HasCanvas(s, s.canvases[c].parent)

Lineage == RootedIn(store)

\* The workspace is well formed: every object lives on one canvas, every canvas below the
\* root, whatever the five operations, failed transactions and restores did before.
WellPlaced == Placement /\ Lineage

\* As long as no restore came in between, a canvas at the revision an agent read has
\* the objects that agent read, although transactions of other agents, on this and
\* other canvases, may have come and gone.
SameRevision(s, t, c) ==
  HasCanvas(s, c) /\ HasCanvas(t, c) /\ s.canvases[c].revision = t.canvases[c].revision

RevisionIdentifiesContent ==
  LinkedPortals =>
    \A a \in Agents, c \in Canvases :
      viewEpoch[a] = epoch /\ SameRevision(view[a], store, c)
        => Content(view[a], c) = Content(store, c)

\* A transaction that got past its canvas_revision precondition works on what its
\* agent read, to the object.
GuardedOnFreshRead ==
  LinkedPortals /\ tx # None /\ viewEpoch[tx.agent] = epoch /\ tx.guarded
    => Content(view[tx.agent], tx.canvas) = Content(store, tx.canvas)

\* An idempotency key is remembered only for a transaction that committed (a failed
\* one must not be answered "ok" on its retry), and commits at most once between
\* two restores.
KeysAppliedOnce ==
  /\ \A k \in store.keys : \E i \in 1..Len(events) : events[i].key = k
  /\ \A i, j \in 1..Len(events) :
       i # j /\ events[i].key # None /\ events[i].epoch = events[j].epoch
         => events[i].key # events[j].key

\* The before and after hashes of the ledger form a chain that ends in the current
\* state, between two restores: nothing changes the state without an event, and
\* no event is written for a change that did not happen.
EventChain ==
  /\ \A i \in 1..Len(events) :
       i > 1 /\ events[i].epoch = events[i - 1].epoch
         => events[i].before = events[i - 1].after
  /\ events # <<>> /\ events[Len(events)].epoch = epoch
       => events[Len(events)].after = store

\* A commit touches its own canvas only: the other canvases keep their objects and
\* the records they had, and its own revision moves by exactly one.
CommitStaysOnCanvas ==
  [][Len(events') > Len(events) /\ LinkedPortals =>
       LET c == events'[Len(events')].canvas
       IN  /\ store'.canvases[c].revision = store.canvases[c].revision + 1
           /\ \A d \in Canvases \ {c} :
                HasCanvas(store, d) =>
                  /\ store'.canvases[d] = store.canvases[d]
                  /\ Content(store', d) = Content(store, d)]_vars

\* What section 11.1 of the white paper wants of object revisions: a caller whose
\* expected revision is current works on the object it read.  Deleting and creating
\* an id again, or restoring, brings an old revision back with other content.
ObjectRevisionIdentifiesContent ==
  \A a \in Agents, o \in Objects :
    /\ HasObject(view[a], o) /\ HasObject(store, o)
    /\ view[a].objects[o].revision = store.objects[o].revision
    => view[a].objects[o] = store.objects[o]

----------------------------------------------------------------------------
(* Why the properties hold: facts every step preserves.                    *)

\* A call outside its own canvas c changes nothing that d has, and no revision.
Frame(d, e, c) ==
  \A b \in Canvases :
    HasCanvas(d, b) =>
      /\ HasCanvas(e, b) /\ e.canvases[b].revision = d.canvases[b].revision
      /\ b # c => e.canvases[b] = d.canvases[b] /\ Content(e, b) = Content(d, b)

DraftFramed ==
  /\ tx = None => draft = store
  /\ tx # None => HasCanvas(store, tx.canvas)
  /\ tx # None /\ LinkedPortals => Frame(store, draft, tx.canvas)

\* A read of this epoch is a past of the store: revisions only grew since, and where
\* one did not, the content did not change either.
ReadsArePast ==
  \A a \in Agents :
    /\ viewEpoch[a] <= epoch
    /\ viewEpoch[a] = epoch /\ LinkedPortals =>
         \A c \in Canvases :
           HasCanvas(view[a], c) =>
             /\ HasCanvas(store, c)
             /\ view[a].canvases[c].revision <= store.canvases[c].revision
             /\ view[a].canvases[c].revision = store.canvases[c].revision
                  => Content(view[a], c) = Content(store, c)

GuardChecked ==
  tx # None => (tx.guarded => SameRevision(view[tx.agent], store, tx.canvas))

\* Every state an agent may restore, and the one being built, is sound.
AllPlaced == LinkedPortals =>
  PlacedIn(store) /\ PlacedIn(draft) /\ \A a \in Agents : PlacedIn(view[a])
AllRooted == RootedIn(store) /\ RootedIn(draft) /\ \A a \in Agents : RootedIn(view[a])

\* The inductive invariant behind the theorems of CanvasStoreProofs.
StoreInv == DraftFramed /\ ReadsArePast /\ GuardChecked /\ AllPlaced /\ AllRooted /\ EventChain
=============================================================================
